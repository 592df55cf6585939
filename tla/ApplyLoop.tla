------------------------------ MODULE ApplyLoop ------------------------------
(***************************************************************************)
(* The 30 s loop of the curator signer (loop.js runTick, sendWithBackoff)  *)
(* and the verbs that touch the same apply machine across their awaits     *)
(* (verbs.js propose, cancel, apply), over the chain, the api's index of   *)
(* it, the conditions the pre-flight gates look at, and strangers: apply   *)
(* is permissionless, and the curator key may also act from elsewhere.     *)
(*                                                                         *)
(* Whatever lies between two awaits is one action.  A tick reads a         *)
(* snapshot, then steps the machine on it (TickStep); verbs run in between *)
(* on the same event loop, so the snapshot may be stale.  A send lands on  *)
(* the chain before its answer arrives; the answer may be lost.            *)
(*                                                                         *)
(* hold stands for what keeps writes back: "paused" also for an unverified *)
(* invariant (both let cancel through), "locked" for the self-lock.        *)
(* WritePipeline models how these are raised and read.  A failed snapshot  *)
(* read ends the tick with the machine untouched, which is a stutter here. *)
(* A transaction that lands after its sender gave up on it is a stranger's *)
(* apply, or an outside propose or cancel: the chain cannot tell.          *)
(***************************************************************************)
EXTENDS ApplyMachine, FiniteSets

CONSTANTS
  Clients,       \* concurrent HTTP callers of the verbs
  TargetSets,    \* target weights a portfolio may carry
  Notice,        \* the chain's rebalance delay
  Lag,           \* how long after its snapshot a tick may still step the machine
  Lifetime,      \* how long after its request a signed transaction can still land
  MaxSends,      \* policy.apply.maxSendsPerTick
  SendErrors,    \* codes a send may be refused or fail with
  Conditions,    \* gate codes the world may raise
  Holds,         \* what may hold writes back: a subset of {"paused", "locked"}
  RowFails,      \* may a snapshot miss the api row?
  RowLags,       \* may the api row lag behind the chain?
  Vacuous,       \* may a proposal name the weights the portfolio already has?
  Horizon,       \* bound on the clock
  LastPropose,   \* bound: no proposal is made after this time
  MaxFaults      \* bound on outside proposals, outside cancels and crashes

ASSUME LoopAssumption ==
  /\ Notice \in Nat /\ Horizon \in Nat /\ LastPropose \in Nat /\ MaxFaults \in Nat
  /\ Lag \in Nat /\ Lifetime \in Nat /\ MaxSends \in Nat \ {0}
  /\ Lag + MaxSends * (Lifetime + 1) <= Notice   \* minutes against a notice of hours
  /\ RowFails \in BOOLEAN /\ RowLags \in BOOLEAN /\ Vacuous \in BOOLEAN
  /\ Holds \subseteq {"paused", "locked"}
ASSUME CodesAssumption == SendErrors \subseteq STRING /\ Conditions \subseteq STRING

\* A change on chain, the same as a gate knows it, the api's row, a snapshot.
Changes  == [targets : TargetSets, proposedAt : Int, effectiveAt : Int]
Pendings == [targets : TargetSets \union {None}, proposedAt : Int, effectiveAt : Int]
Rows     == [pending : {None} \union Changes, targets : TargetSets]
Seen     == [at : Int, header : {None} \union Changes, lastRebalanceAt : Int,
             row : {None} \union Rows, cond : {None} \union Conditions, keeperOk : BOOLEAN]
ASSUME NullAssumption ==
  None \notin TargetSets /\ None \notin Pendings /\ None \notin Rows /\ None \notin Seen

VARIABLES
  now,     \* the clock, in units of one tick or more
  chain,   \* the Portfolio account: pending change, target weights, last rebalance
  row,     \* the api's indexed copy of it (GET /v1/portfolios/<mint>)
  cond,    \* the gate code the world raises at present, None when clear
  hold,    \* "none", "paused" or "locked"
  m,       \* ctx.state.apply
  tick,    \* the loop's tick in flight
  req,     \* one request per client
  faults   \* outside proposals, outside cancels and crashes so far

vars == <<now, chain, row, cond, hold, m, tick, req, faults>>

Change(targets, at) == [targets |-> targets, proposedAt |-> at, effectiveAt |-> at + Notice]

Proposals == IF Vacuous THEN TargetSets ELSE TargetSets \ {chain.targets}

TickIdle == [pc |-> "idle", snap |-> None, at |-> None, signed |-> None, sends |-> 0]
ReqIdle  == [pc |-> "idle", verb |-> None, targets |-> None, at |-> None]

Indexed(account) == [pending |-> account.pending, targets |-> account.targets]

Init ==
  /\ now = 0
  /\ chain \in [pending : {None}, targets : TargetSets, lastRebalanceAt : {-Notice}]
  /\ row = Indexed(chain)
  /\ cond = None
  /\ hold = "none"
  /\ m = InitialApply
  /\ tick = TickIdle
  /\ req = [c \in Clients |-> ReqIdle]
  /\ faults = 0

(***************************************************************************)
(* Reading a snapshot, and what the loop and the gates read from it.       *)
(***************************************************************************)
Snapshots ==
  [at : {now}, header : {chain.pending}, lastRebalanceAt : {chain.lastRebalanceAt},
   row : {row} \union (IF RowFails THEN {None} ELSE {}), cond : {cond},
   keeperOk : IF cond = "BOOK_NOT_FRESH" THEN BOOLEAN ELSE {TRUE}]

RowPending(snap) == IF snap.row = None THEN None ELSE snap.row.pending

\* Timing is the header's when there is one, the target set always the row's.
PendingOf(snap) ==
  LET timing == Orelse(snap.header, RowPending(snap))
  IN  IF timing = None THEN None
      ELSE [effectiveAt |-> timing.effectiveAt, proposedAt |-> timing.proposedAt,
            targets |-> IF RowPending(snap) = None THEN None ELSE RowPending(snap).targets]

CurrentTargetsOf(snap) == IF snap.row = None THEN None ELSE snap.row.targets

ActionOf(code) ==
  CASE code \in {"VAULT_PAUSED", "CHANGE_OUTSIDE_POLICY", "LEG_NOT_ACTIVE"} -> "blocked"
    [] code \in {"LEG_PENDING_PRICE", "WINDOW_CLOSED"} -> "escalate"
    [] code = "NO_PENDING_CHANGE" -> "done"
    [] OTHER -> "wait"

When(test, code) == IF test THEN <<[code |-> code, action |-> ActionOf(code)]>> ELSE <<>>

TooSoon_Mutant(snap) == snap.at < snap.header.effectiveAt - ArmBefore
TooSoon(snap) == snap.at < snap.header.effectiveAt

\* Every blocker, in evaluation order; nothing else counts when nothing is pending.
BlockersOf(snap) ==
  IF snap.header = None THEN When(TRUE, "NO_PENDING_CHANGE")
  ELSE When(snap.at > snap.header.effectiveAt + Window, "WINDOW_CLOSED")
       \o When(TooSoon(snap), "NOTICE_NOT_ELAPSED")
       \o When(snap.cond = "VAULT_PAUSED", "VAULT_PAUSED")
       \o When(RowPending(snap) = None, "CHANGE_UNCHECKED")
       \o When(snap.row = None, "BOOK_NOT_FRESH")
       \o When(snap.cond # None /\ snap.cond # "VAULT_PAUSED", snap.cond)

\* The gates are evaluated when a change is pending or the machine is active.
GateOf(snap, s) ==
  LET judged == PendingOf(snap) # None \/ s.state \in Active
  IN  [pending |-> PendingOf(snap), currentTargets |-> CurrentTargetsOf(snap),
       lastRebalanceAt |-> snap.lastRebalanceAt, keeperOk |-> snap.keeperOk,
       ok       |-> IF judged THEN BlockersOf(snap) = <<>> ELSE None,
       blockers |-> IF judged THEN BlockersOf(snap) ELSE <<>>]

(***************************************************************************)
(* The chain's own transitions.                                            *)
(***************************************************************************)
Proposable == /\ chain.pending = None
              /\ now - chain.lastRebalanceAt >= Notice
              /\ now <= LastPropose
Appliable  == /\ chain.pending # None
              /\ now >= chain.pending.effectiveAt
              /\ cond = None

Becomes(account) == /\ chain' = account
                    /\ row' = IF RowLags THEN row ELSE Indexed(account)

Announce(targets) == Becomes([chain EXCEPT !.pending = Change(targets, now)])
Withdrawn         == Becomes([chain EXCEPT !.pending = None])
Applied           == Becomes([pending |-> None, targets |-> chain.pending.targets,
                              lastRebalanceAt |-> now])

(***************************************************************************)
(* The loop.                                                               *)
(***************************************************************************)
TickRead ==
  /\ tick.pc = "idle"
  /\ \E snap \in Snapshots : tick' = [TickIdle EXCEPT !.pc = "step", !.snap = snap]
  /\ UNCHANGED <<now, chain, row, cond, hold, m, req, faults>>

TickHeld ==
  /\ tick.pc = "step"
  /\ hold # "none"
  /\ tick' = TickIdle
  /\ UNCHANGED <<now, chain, row, cond, hold, m, req, faults>>

TickStep ==
  /\ tick.pc = "step"
  /\ hold = "none"
  /\ LET step == StepApply(m, GateOf(tick.snap, m), tick.snap.at)
     IN  /\ m' = step.next
         /\ tick' = IF step.send THEN [TickIdle EXCEPT !.pc = "send", !.at = tick.snap.at,
                                                         !.signed = now, !.sends = 1]
                    ELSE IF step.refreshNav THEN [TickIdle EXCEPT !.pc = "refresh"]
                    ELSE TickIdle
  /\ UNCHANGED <<now, chain, row, cond, hold, req, faults>>

\* The refresh-nav write, sent or refused, ends the tick; it may freshen the book.
TickRefresh ==
  /\ tick.pc = "refresh"
  /\ tick' = TickIdle
  /\ cond' \in {cond} \union (IF cond = "BOOK_NOT_FRESH" THEN {None} ELSE {})
  /\ UNCHANGED <<now, chain, row, hold, m, req, faults>>

SendLand ==
  /\ tick.pc = "send"
  /\ now <= tick.signed + Lifetime
  /\ Appliable
  /\ Applied
  /\ tick' = [tick EXCEPT !.pc = "landed"]
  /\ UNCHANGED <<now, cond, hold, m, req, faults>>

\* An expired send is built and sent again after a backoff.  Only the hard rules
\* are checked again: the gates are those of the tick's own snapshot.
SendExpired ==
  /\ tick.pc = "send"
  /\ tick.sends < MaxSends
  /\ now > tick.signed + Lifetime
  /\ tick' = [tick EXCEPT !.pc = "retry", !.sends = @ + 1]
  /\ UNCHANGED <<now, chain, row, cond, hold, m, req, faults>>

\* The outcome steps whatever machine is there when the answer comes.
Outcome(ok, code) ==
  /\ m' = ApplyOutcome(m, [ok |-> ok, code |-> code], tick.at).next
  /\ tick' = TickIdle
  /\ UNCHANGED <<now, chain, row, cond, hold, req, faults>>

SendRetry ==
  /\ tick.pc = "retry"
  /\ IF hold = "none"
     THEN /\ tick' = [tick EXCEPT !.pc = "send", !.signed = now]
          /\ UNCHANGED <<now, chain, row, cond, hold, m, req, faults>>
     ELSE Outcome(FALSE, IF hold = "paused" THEN "PAUSED" ELSE "SELF_LOCKED")

SendConfirmed == tick.pc = "landed" /\ Outcome(TRUE, None)
SendUnanswered == tick.pc = "landed" /\ Outcome(FALSE, "UPSTREAM")
SendFails ==
  /\ tick.pc = "send"
  /\ \E code \in SendErrors :
       /\ code = "NO_PENDING_CHANGE" => row.pending = None
       /\ Outcome(FALSE, code)

(***************************************************************************)
(* The verbs.                                                              *)
(***************************************************************************)
Sending(c, verb, targets) ==
  req' = [req EXCEPT ![c] = [pc |-> "send", verb |-> verb, targets |-> targets, at |-> now]]
InFlight(c, verb)  == req[c].pc = "send" /\ req[c].verb = verb /\ now <= req[c].at + Lifetime
HasLanded(c, verb) == req[c].pc = "landed" /\ req[c].verb = verb
Landed(c)   == req' = [req EXCEPT ![c].pc = "landed"]
Answered(c) == req' = [req EXCEPT ![c] = ReqIdle]

\* proposeGates and the policy's cadence, on the request's own snapshot.
Propose(c, targets) ==
  /\ req[c].pc = "idle"
  /\ hold = "none"
  /\ Proposable
  /\ row.pending = None
  /\ Sending(c, "propose", targets)
  /\ UNCHANGED <<now, chain, row, cond, hold, m, tick, faults>>

ProposeLand(c) ==
  /\ InFlight(c, "propose")
  /\ Proposable
  /\ Announce(req[c].targets)
  /\ Landed(c)
  /\ UNCHANGED <<now, cond, hold, m, tick, faults>>

\* propose's after: the machine is armed with the verb's own estimate of the
\* timing; the client stands for the deployment id the api answered.
ProposeDone(c) ==
  /\ HasLanded(c, "propose")
  /\ m' = [InitialApply EXCEPT !.state = "ARMED", !.deploymentId = c,
             !.effectiveAt = req[c].at + Notice, !.targets = req[c].targets,
             !.proposedAt = req[c].at]
  /\ Answered(c)
  /\ UNCHANGED <<now, chain, row, cond, hold, tick, faults>>

Cancel(c) ==
  /\ req[c].pc = "idle"
  /\ hold # "locked"
  /\ Sending(c, "cancel", None)
  /\ UNCHANGED <<now, chain, row, cond, hold, m, tick, faults>>

CancelLand(c) ==
  /\ InFlight(c, "cancel")
  /\ chain.pending # None
  /\ Withdrawn
  /\ Landed(c)
  /\ UNCHANGED <<now, cond, hold, m, tick, faults>>

CancelDone(c) ==
  /\ HasLanded(c, "cancel")
  /\ m' = InitialApply
  /\ Answered(c)
  /\ UNCHANGED <<now, chain, row, cond, hold, tick, faults>>

\* POST /apply, gates green: one forced attempt, whatever the machine's state.
Apply(c) ==
  /\ req[c].pc = "idle"
  /\ hold = "none"
  /\ \E snap \in Snapshots : BlockersOf(snap) = <<>>
  /\ Sending(c, "apply", None)
  /\ UNCHANGED <<now, chain, row, cond, hold, m, tick, faults>>

\* POST /apply, nothing pending: was it applied already, by us or a stranger?
AppliedVerdict(s, snap) ==
  IF s.state = "IDLE" \/ s.targets = None THEN "none"
  ELSE IF CurrentTargetsOf(snap) = s.targets THEN "done"
  ELSE IF s.proposedAt # None /\ snap.lastRebalanceAt >= s.proposedAt THEN "mismatch"
  ELSE "cancelled"

ApplyTooLate(c) ==
  /\ req[c].pc = "idle"
  /\ hold = "none"
  /\ \E snap \in Snapshots :
       /\ snap.header = None
       /\ \/ /\ AppliedVerdict(m, snap) = "done"
             /\ m' = [m EXCEPT !.state = "DONE"]
          \/ /\ AppliedVerdict(m, snap) = "mismatch"
             /\ m' = [m EXCEPT !.state = "ESCALATED",
                               !.lastBlocker = Blocker("APPLIED_MISMATCH", now)]
  /\ UNCHANGED <<now, chain, row, cond, hold, tick, req, faults>>

ApplyLand(c) ==
  /\ InFlight(c, "apply")
  /\ Appliable
  /\ Applied
  /\ Landed(c)
  /\ UNCHANGED <<now, cond, hold, m, tick, faults>>

ApplyDone(c) ==
  /\ HasLanded(c, "apply")
  /\ m' = AfterSend(m)
  /\ Answered(c)
  /\ UNCHANGED <<now, chain, row, cond, hold, tick, faults>>

\* Refused by the api, the decoder or the chain, or the answer is lost.
RequestFails(c) ==
  /\ req[c].pc # "idle"
  /\ Answered(c)
  /\ UNCHANGED <<now, chain, row, cond, hold, m, tick, faults>>

(***************************************************************************)
(* The world.                                                              *)
(***************************************************************************)
\* Every read is retried or awaited for a bounded time, so a tick steps within Lag
\* of its snapshot; a unit is longer than a backoff and than it takes to see an expiry.
Advance ==
  /\ now < Horizon
  /\ tick.pc # "retry"
  /\ tick.pc = "step" => now < tick.snap.at + Lag
  /\ tick.pc = "send" => now <= tick.signed + Lifetime
  /\ now' = now + 1
  /\ UNCHANGED <<chain, row, cond, hold, m, tick, req, faults>>

Index ==
  /\ RowLags
  /\ row' = Indexed(chain)
  /\ UNCHANGED <<now, chain, cond, hold, m, tick, req, faults>>

WorldTurns ==
  /\ cond' \in {None} \union Conditions
  /\ UNCHANGED <<now, chain, row, hold, m, tick, req, faults>>

HoldChanges ==
  /\ hold' \in {"none"} \union Holds
  /\ UNCHANGED <<now, chain, row, cond, m, tick, req, faults>>

StrangerApplies ==
  /\ Appliable
  /\ Applied
  /\ UNCHANGED <<now, cond, hold, m, tick, req, faults>>

OutsideProposes ==
  /\ faults < MaxFaults /\ faults' = faults + 1
  /\ Proposable
  /\ \E targets \in Proposals : Announce(targets)
  /\ UNCHANGED <<now, cond, hold, m, tick, req>>

OutsideCancels ==
  /\ faults < MaxFaults /\ faults' = faults + 1
  /\ chain.pending # None
  /\ Withdrawn
  /\ UNCHANGED <<now, cond, hold, m, tick, req>>

\* The process dies: the machine is not persisted, it re-arms from the chain.
Crash ==
  /\ faults < MaxFaults /\ faults' = faults + 1
  /\ m' = InitialApply
  /\ tick' = TickIdle
  /\ req' = [c \in Clients |-> ReqIdle]
  /\ UNCHANGED <<now, chain, row, cond, hold>>

LoopNext == \/ TickRead \/ TickHeld \/ TickStep \/ TickRefresh
            \/ SendLand \/ SendExpired \/ SendRetry
            \/ SendConfirmed \/ SendUnanswered \/ SendFails

VerbNext(c) == \/ \E targets \in Proposals : Propose(c, targets)
               \/ ProposeLand(c) \/ ProposeDone(c)
               \/ Cancel(c) \/ CancelLand(c) \/ CancelDone(c)
               \/ Apply(c) \/ ApplyTooLate(c) \/ ApplyLand(c) \/ ApplyDone(c)
               \/ RequestFails(c)

WorldNext == \/ Advance \/ Index \/ WorldTurns \/ HoldChanges
             \/ StrangerApplies \/ OutsideProposes \/ OutsideCancels \/ Crash

Next == LoopNext \/ (\E c \in Clients : VerbNext(c)) \/ WorldNext

Spec == Init /\ [][Next]_vars

(***************************************************************************)
(* Fairness: the interval timer keeps ticking, an awaited read, write or   *)
(* backoff ends (every client call has a timeout), the clock runs.         *)
(* Nothing is assumed of callers, strangers, the index or the conditions.  *)
(***************************************************************************)
TickEnds == SendExpired \/ SendRetry \/ SendConfirmed \/ SendUnanswered \/ SendFails
Fairness == /\ WF_vars(TickRead \/ TickHeld \/ TickStep \/ TickRefresh \/ TickEnds)
            /\ WF_vars(Advance)
FairSpec == Spec /\ Fairness

(***************************************************************************)
(* Properties.                                                             *)
(***************************************************************************)
\* Every code a gate, a send or the machine itself may put in front of a change.
BlockerCodes == SendErrors \union Conditions \union
  {"NO_PENDING_CHANGE", "WINDOW_CLOSED", "NOTICE_NOT_ELAPSED", "VAULT_PAUSED",
   "CHANGE_UNCHECKED", "BOOK_NOT_FRESH", "INPUTS_INCOMPLETE", "APPLIED_MISMATCH",
   "UPSTREAM"}

Machines ==
  [state : ApplyStates, deploymentId : Clients \union {None},
   effectiveAt : Int \union {None}, targets : TargetSets \union {None},
   proposedAt : Int \union {None}, attempts : Nat, sendFailures : 0..FailedTicks,
   custodyRetries : Nat, refreshNavSent : BOOLEAN,
   lastBlocker : {None} \union [code : BlockerCodes, since : Int]]

\* Types, and a bound of the machine: sends fail on at most FailedTicks ticks.
TypeOK ==
  /\ now \in 0..Horizon
  /\ chain \in [pending : {None} \union Changes, targets : TargetSets, lastRebalanceAt : Int]
  /\ row \in Rows
  /\ cond \in {None} \union Conditions
  /\ hold \in {"none"} \union Holds
  /\ m \in Machines
  /\ tick.pc \in {"idle", "step", "refresh", "send", "retry", "landed"}
  /\ tick.sends \in 0..MaxSends
  /\ (tick.pc = "step") = (tick.snap # None)
  /\ req \in [Clients -> [pc : {"idle", "send", "landed"},
                          verb : {None, "propose", "cancel", "apply"},
                          targets : TargetSets \union {None}, at : Int \union {None}]]
  /\ faults \in 0..MaxFaults

\* A change announced on chain does not strand: it is applied or cancelled, or
\* the machine stands on it BLOCKED or ESCALATED for a human, unless writes are
\* held (loop.js: "a lost Hermes container cannot strand a proposal").
EventuallySettled ==
  chain.pending # None ~>
    (chain.pending = None \/ m.state \in {"BLOCKED", "ESCALATED"} \/ hold # "none")

\* An apply this signer sent never executes a change whose notice had not
\* elapsed, or whose window had closed, when its gates were evaluated: not even
\* when the change it was built for is cancelled and another announced meanwhile.
LandsAsGated ==
  [][ /\ SendLand => tick.at \in chain.pending.effectiveAt..(chain.pending.effectiveAt + Window)
      /\ \A c \in Clients : ApplyLand(c) =>
           req[c].at \in chain.pending.effectiveAt..(chain.pending.effectiveAt + Window) ]_vars

\* README section 5: "A terminal state re-arms only for a different proposal
\* (other targets, or another effectiveAt)".  A tick keeps a machine held for
\* the operator where it is while the change it stands on is the one pending.
HeldForOperator ==
  [][ /\ TickStep
      /\ m.state \in {"BLOCKED", "ESCALATED"}
      /\ tick.snap.header # None
      /\ tick.snap.header.effectiveAt = m.effectiveAt
      /\ m.targets \in {None, tick.snap.header.targets}
      => m'.state = m.state ]_vars

\* README section 5: "gone and nothing moved => IDLE (cancelled)".  A machine
\* turns DONE only for a change the chain carries or rebalanced for.
DoneMeansMoved ==
  [][ m.state # "DONE" /\ m'.state = "DONE" /\ m.proposedAt # None =>
        chain.targets = m.targets \/ chain.lastRebalanceAt >= m.proposedAt ]_vars

\* A tick on a current snapshot leaves the machine on the chain's own change:
\* at rest when nothing is pending, else following that change, and not done
\* with it unless it names the weights the portfolio already has.
TickTracksChain ==
  [][ /\ TickStep
      /\ tick.snap.header = chain.pending
      /\ tick.snap.row = Indexed(chain)
      => IF chain.pending = None THEN m'.state \in {"IDLE", "DONE", "ESCALATED"}
         ELSE /\ m'.effectiveAt = chain.pending.effectiveAt
              /\ m'.targets = chain.pending.targets
              /\ m'.state # "IDLE"
              /\ m'.state = "DONE" => chain.pending.targets = chain.targets ]_vars
=============================================================================
