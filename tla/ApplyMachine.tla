---------------------------- MODULE ApplyMachine ----------------------------
(***************************************************************************)
(* The two pure functions of the apply state machine in                    *)
(* signer/packages/curator/src/loop.js: stepApply, one tick of the         *)
(* machine, and applyOutcome, the machine after an attempt to send.        *)
(*                                                                         *)
(* A machine is a record with the fields of README section 4.1 that some   *)
(* decision reads; since, escalatedAt, lastSentAt and signatures are       *)
(* reported and never read back, and are left out, as is the journal line  *)
(* each transition writes.  Times are natural numbers.  A step answers a   *)
(* record: the next machine, whether to send, whether to refresh the book, *)
(* and the code of the alert to raise (None for none).                     *)
(*                                                                         *)
(* A definition whose name ends in _Mutant is not part of the model: it is *)
(* the next definition with a bug the code could have, used to show that a *)
(* property can fail.                                                      *)
(***************************************************************************)
EXTENDS Integers, Sequences

CONSTANTS
  None,            \* JavaScript's null
  ArmBefore,       \* policy.apply.armBeforeEffectiveSecs
  Window,          \* policy.apply.windowAfterEffectiveSecs
  RefreshAfter,    \* policy.apply.refreshNavWhenBookStaleSecs
  FailedTicks,     \* policy.apply.sendFailedTicksBeforeEscalate
  InFlightMax,     \* policy.apply.applyInFlightMaxAttempts
  CustodyRetries,  \* policy.apply.missingCustodyRetries
  EscalateAfter    \* policy.apply.escalateAfterSecs: [codes -> Nat]

ASSUME NoneAssumption == None \notin Int /\ None \notin STRING /\ None \notin BOOLEAN
ASSUME PolicyAssumption ==
  /\ ArmBefore \in Nat /\ Window \in Nat /\ RefreshAfter \in Nat
  /\ FailedTicks \in Nat \ {0} /\ InFlightMax \in Nat \ {0}
  /\ CustodyRetries \in Nat
  /\ \A code \in DOMAIN EscalateAfter : EscalateAfter[code] \in Nat

Active   == {"ARMED", "WAIT_NOTICE", "PREFLIGHT", "SEND", "CONFIRM"}
Terminal == {"DONE", "BLOCKED", "ESCALATED"}
ApplyStates == {"IDLE"} \union Active \union Terminal

\* Codes the decoder refuses with: a rebuild would build the same thing.
DecodeCodes ==
  {"NOT_A_TRANSACTION", "WRONG_PAYER", "FOREIGN_PROGRAM", "FOREIGN_LOOKUP_TABLE",
   "UNKNOWN_INSTRUCTION", "UNEXPECTED_INSTRUCTIONS", "WRONG_PORTFOLIO",
   "TARGETS_MISMATCH", "UNEXPECTED_STEP"}

InitialApply ==
  [state |-> "IDLE", deploymentId |-> None, effectiveAt |-> None, targets |-> None,
   proposedAt |-> None, attempts |-> 0, sendFailures |-> 0, custodyRetries |-> 0,
   refreshNavSent |-> FALSE, lastBlocker |-> None]

Orelse(value, fallback) == IF value # None THEN value ELSE fallback

(***************************************************************************)
(* What a step answers.                                                    *)
(***************************************************************************)
Finish(s)      == [next |-> s, send |-> FALSE, refreshNav |-> FALSE, alert |-> None]
Blocker(code, since) == [code |-> code, since |-> since]
HeldSince(s, code, now) ==
  IF s.lastBlocker # None /\ s.lastBlocker.code = code THEN s.lastBlocker.since ELSE now

Escalate(s, code, now) ==
  [Finish([s EXCEPT !.state = "ESCALATED",
                    !.lastBlocker = Blocker(code, HeldSince(s, code, now))])
   EXCEPT !.alert = code]

(***************************************************************************)
(* A change is pending.                                                    *)
(***************************************************************************)
SameTargets(s, pending) ==
  IF pending.targets # None THEN s.targets = pending.targets ELSE s.targets # None

RearmsAlways_Mutant(s, pending) ==
  s.state = "IDLE" \/ ~SameTargets(s, pending) \/ s.state \in Terminal
RearmsByTime_Mutant(s, pending) ==
  s.state = "IDLE" \/ (s.state \in Terminal /\ s.effectiveAt # pending.effectiveAt)
Rearms(s, pending) ==
  \/ s.state = "IDLE"
  \/ ~SameTargets(s, pending)
  \/ s.state \in Terminal /\ s.effectiveAt # pending.effectiveAt

Rearmed(s, pending, now) ==
  [InitialApply EXCEPT
     !.state        = "ARMED",
     !.deploymentId = IF SameTargets(s, pending) THEN s.deploymentId ELSE None,
     !.effectiveAt  = pending.effectiveAt,
     !.targets      = Orelse(pending.targets, s.targets),
     !.proposedAt   = Orelse(pending.proposedAt, now)]

\* The machine once it follows the change that is pending: re-armed for a
\* different one, or with the chain's timing adopted for the same one.
Following(s, pending, now) ==
  IF Rearms(s, pending) THEN Rearmed(s, pending, now)
  ELSE IF s.effectiveAt # pending.effectiveAt
       THEN [s EXCEPT !.effectiveAt = pending.effectiveAt,
                      !.proposedAt  = Orelse(pending.proposedAt, s.proposedAt)]
       ELSE s

\* The first blocker with an action, None if there is none.
FirstWith(blockers, action) ==
  LET hits == {i \in DOMAIN blockers : blockers[i].action = action}
  IN  IF hits = {} THEN None
      ELSE blockers[CHOOSE i \in hits : \A j \in hits : i <= j]

\* The blocker a wait is counted against.
WaitBlocker(blockers) ==
  Orelse(FirstWith(blockers, "wait"),
         IF blockers # <<>> THEN blockers[1]
         ELSE [code |-> "INPUTS_INCOMPLETE", action |-> "wait"])

Overdue(code, waited) == code \in DOMAIN EscalateAfter /\ waited >= EscalateAfter[code]

\* No blocker escalates or blocks: wait, and escalate a wait that lasts too long.
Wait(s, gate, now) ==
  LET code    == WaitBlocker(gate.blockers).code
      since   == HeldSince(s, code, now)
      waiting == [s EXCEPT !.state = IF code = "NOTICE_NOT_ELAPSED" THEN "WAIT_NOTICE"
                                                                    ELSE "PREFLIGHT",
                           !.lastBlocker = Blocker(code, since)]
      refresh == /\ code = "BOOK_NOT_FRESH"
                 /\ ~s.refreshNavSent
                 /\ gate.keeperOk = FALSE
                 /\ now - since >= RefreshAfter
  IN  IF /\ code # "NOTICE_NOT_ELAPSED"
         /\ \/ Overdue(code, now - since)
            \/ code = "APPLY_IN_FLIGHT" /\ s.attempts >= InFlightMax
      THEN Escalate(s, code, now)
      ELSE [Finish([waiting EXCEPT !.refreshNavSent = @ \/ refresh])
            EXCEPT !.refreshNav = refresh]

\* The gates were evaluated and something holds the change.
Held(s, gate, now) ==
  LET escalating == FirstWith(gate.blockers, "escalate")
      blocking   == FirstWith(gate.blockers, "blocked")
  IN  IF escalating # None THEN Escalate(s, escalating.code, now)
      ELSE IF blocking # None
           THEN [Finish([s EXCEPT !.state = "BLOCKED",
                                  !.lastBlocker = Blocker(blocking.code, now)])
                 EXCEPT !.alert = blocking.code]
           ELSE Wait(s, gate, now)

Noticed(s) == IF s.state = "ARMED" THEN [s EXCEPT !.state = "WAIT_NOTICE"] ELSE s

TooEarly_Mutant(s, now) ==
  s.effectiveAt = None \/ (s.state = "ARMED" /\ now >= s.effectiveAt - ArmBefore)
TooEarly(s, now) ==
  \/ s.effectiveAt = None
  \/ s.state = "ARMED" /\ now < s.effectiveAt - ArmBefore

StepPending(old, gate, now) ==
  LET s == Following(old, gate.pending, now)
      w == Noticed(s)
  IN  IF s.state \in Terminal \/ TooEarly(s, now) THEN Finish(s)
      ELSE IF now > w.effectiveAt + Window THEN Escalate(w, "WINDOW_CLOSED", now)
      ELSE IF gate.ok = None THEN Finish(w)
      ELSE IF gate.ok THEN [Finish([w EXCEPT !.state = "SEND"]) EXCEPT !.send = TRUE]
      ELSE Held(w, gate, now)

(***************************************************************************)
(* Nothing is pending: the change was applied by us, applied by a          *)
(* stranger, or cancelled.                                                 *)
(***************************************************************************)
Advanced_Mutant(s, gate) == gate.lastRebalanceAt # None /\ s.proposedAt # None
Advanced(s, gate) ==
  /\ gate.lastRebalanceAt # None
  /\ s.proposedAt # None
  /\ gate.lastRebalanceAt >= s.proposedAt

StepVanished(s, gate, now) ==
  LET applied  == /\ gate.currentTargets # None
                  /\ s.targets # None
                  /\ s.targets = gate.currentTargets
      advanced == Advanced(s, gate)
  IN  IF s.state = "IDLE" THEN Finish(s)
      ELSE IF s.state \in Terminal THEN Finish(InitialApply)
      ELSE IF \/ applied
              \/ s.state = "CONFIRM" /\ (advanced \/ gate.currentTargets = None)
           THEN Finish([s EXCEPT !.state = "DONE"])
      ELSE IF advanced THEN Escalate(s, "APPLIED_MISMATCH", now)
      ELSE Finish(InitialApply)

StepApply(s, gate, now) ==
  IF gate.pending # None THEN StepPending(s, gate, now) ELSE StepVanished(s, gate, now)

(***************************************************************************)
(* The machine after an attempt to send.                                   *)
(***************************************************************************)
GivesUp_Mutant(failures) == failures > FailedTicks
GivesUp(failures) == failures >= FailedTicks

AfterSend(s) == [s EXCEPT !.state = "CONFIRM", !.attempts = @ + 1, !.sendFailures = 0]

ApplyOutcome(s, outcome, now) ==
  LET code == outcome.code
      held == [s EXCEPT !.lastBlocker = Blocker(code, now)]
      retried == [held EXCEPT !.custodyRetries = @ + 1]
      failed  == [held EXCEPT !.sendFailures = @ + 1, !.attempts = @ + 1]
      answer(m, state, alert) == [Finish([m EXCEPT !.state = state]) EXCEPT !.alert = alert]
  IN  IF outcome.ok THEN Finish(AfterSend(s))
      ELSE IF code \in {"PAUSED", "SELF_LOCKED", "INVARIANTS_UNVERIFIED"} THEN Finish(s)
      ELSE IF code = "NO_PENDING_CHANGE" THEN answer(held, "CONFIRM", None)
      ELSE IF code = "MISSING_CUSTODY"
           THEN IF retried.custodyRetries > CustodyRetries
                THEN answer(retried, "ESCALATED", code)
                ELSE answer(retried, "PREFLIGHT", None)
      ELSE IF code \in DecodeCodes THEN answer(held, "ESCALATED", code)
      ELSE IF code \in {"LOW_SOL", "RATE_LIMITED"} THEN answer(held, "PREFLIGHT", code)
      ELSE IF GivesUp(failed.sendFailures) THEN answer(failed, "ESCALATED", "SEND_FAILED")
      ELSE answer(failed, "PREFLIGHT", None)
=============================================================================
