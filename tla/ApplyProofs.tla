----------------------------- MODULE ApplyProofs -----------------------------
(***************************************************************************)
(* Proofs about ApplyMachine and ApplyLoop, for any callers, target        *)
(* weights, policy and bounds: the types with the bound on failing ticks;  *)
(* that a send lands only what its gates had judged; and, as long as the   *)
(* api's row keeps up with the chain, that a tick leaves a machine which   *)
(* waits for a human where it is, that the machine is done only with a     *)
(* change that moved the portfolio, and that a tick on a current snapshot  *)
(* leaves it on the chain's own change.                                    *)
(***************************************************************************)
EXTENDS ApplyLoop, SequenceTheorems, WellFoundedInduction, TLAPS

(***************************************************************************)
(* The gates.                                                              *)
(***************************************************************************)
Actions  == {"blocked", "escalate", "done", "wait"}
Blockers == [code : BlockerCodes, action : Actions]

Gates ==
  [pending : {None} \union Pendings, currentTargets : {None} \union TargetSets,
   lastRebalanceAt : Int, keeperOk : BOOLEAN, ok : BOOLEAN \union {None},
   blockers : Seq(Blockers)]

LEMMA WhenTyped ==
  ASSUME NEW test, NEW code \in BlockerCodes
  PROVE  /\ When(test, code) \in Seq(Blockers)
         /\ When(test, code) = <<>> => ~test
<1>1. ActionOf(code) \in Actions
  BY Zenon DEF ActionOf, Actions
<1>2. CASE test
  <2>. DEFINE x == [code |-> code, action |-> ActionOf(code)]
  <2>1. x \in Blockers
    BY <1>1 DEF Blockers
  <2>. HIDE DEF x
  <2>2. <<x>> \in Seq(Blockers) /\ <<x>> # <<>>
    BY <2>1
  <2>. QED
    BY <1>2, <2>2 DEF When, x
<1>3. CASE ~test
  BY <1>3 DEF When
<1>. QED
  BY <1>2, <1>3

LEMMA ConcatEmpty ==
  ASSUME NEW S, NEW s \in Seq(S), NEW t \in Seq(S)
  PROVE  /\ s \o t \in Seq(S)
         /\ s \o t = <<>> => s = <<>> /\ t = <<>>
<1>1. s \o t \in Seq(S) /\ Len(s \o t) = Len(s) + Len(t)
  BY ConcatProperties
<1>2. s \o t = <<>> => Len(s) = 0 /\ Len(t) = 0
  BY <1>1, LenProperties, EmptySeq
<1>. QED
  BY <1>1, <1>2, EmptySeq

\* No blocker at all means that a change is pending, seen with its row, within
\* its window, and that nothing is wrong in the world.
LEMMA Judged ==
  ASSUME NEW snap \in Seen
  PROVE  /\ BlockersOf(snap) \in Seq(Blockers)
         /\ BlockersOf(snap) = <<>> =>
              /\ snap.header # None
              /\ snap.at >= snap.header.effectiveAt
              /\ ~(snap.at > snap.header.effectiveAt + Window)
<1>1. CASE snap.header = None
  <2>1. When(TRUE, "NO_PENDING_CHANGE") # <<>> /\ When(TRUE, "NO_PENDING_CHANGE") \in Seq(Blockers)
    <3>1. "NO_PENDING_CHANGE" \in BlockerCodes
      BY DEF BlockerCodes
    <3>. QED
      BY <3>1, WhenTyped
  <2>. QED
    BY <1>1, <2>1 DEF BlockersOf
<1>2. CASE snap.header # None
  <2>. DEFINE a == When(snap.at > snap.header.effectiveAt + Window, "WINDOW_CLOSED")
              b == When(TooSoon(snap), "NOTICE_NOT_ELAPSED")
              c == When(snap.cond = "VAULT_PAUSED", "VAULT_PAUSED")
              d == When(RowPending(snap) = None, "CHANGE_UNCHECKED")
              e == When(snap.row = None, "BOOK_NOT_FRESH")
              f == When(snap.cond # None /\ snap.cond # "VAULT_PAUSED", snap.cond)
  <2>1. /\ a \in Seq(Blockers) /\ b \in Seq(Blockers) /\ c \in Seq(Blockers)
        /\ d \in Seq(Blockers) /\ e \in Seq(Blockers)
        /\ a = <<>> => ~(snap.at > snap.header.effectiveAt + Window)
        /\ b = <<>> => ~TooSoon(snap)
    <3>1. /\ "WINDOW_CLOSED" \in BlockerCodes /\ "NOTICE_NOT_ELAPSED" \in BlockerCodes
          /\ "VAULT_PAUSED" \in BlockerCodes /\ "CHANGE_UNCHECKED" \in BlockerCodes
          /\ "BOOK_NOT_FRESH" \in BlockerCodes
      BY DEF BlockerCodes
    <3>2. a \in Seq(Blockers) /\ (a = <<>> => ~(snap.at > snap.header.effectiveAt + Window))
      BY <3>1, WhenTyped
    <3>3. b \in Seq(Blockers) /\ (b = <<>> => ~TooSoon(snap))
      BY <3>1, WhenTyped
    <3>4. c \in Seq(Blockers) /\ d \in Seq(Blockers)
      BY <3>1, WhenTyped
    <3>5. e \in Seq(Blockers)
      BY <3>1, WhenTyped
    <3>. QED
      BY <3>2, <3>3, <3>4, <3>5
  <2>2. f \in Seq(Blockers)
    <3>1. CASE snap.cond # None
      BY <3>1, WhenTyped DEF Seen, BlockerCodes
    <3>2. CASE snap.cond = None
      BY <3>2 DEF When
    <3>. QED
      BY <3>1, <3>2
  <2>3. BlockersOf(snap) = a \o b \o c \o d \o e \o f
    BY <1>2 DEF BlockersOf
  <2>. HIDE DEF a, b, c, d, e, f
  <2>4. /\ a \o b \in Seq(Blockers) /\ a \o b \o c \in Seq(Blockers)
        /\ a \o b \o c \o d \in Seq(Blockers) /\ a \o b \o c \o d \o e \in Seq(Blockers)
    BY <2>1, ConcatEmpty
  <2>5. /\ a \o b \o c \o d \o e \o f \in Seq(Blockers)
        /\ a \o b \o c \o d \o e \o f = <<>> => a = <<>> /\ b = <<>>
    BY <2>1, <2>2, <2>4, ConcatEmpty
  <2>6. snap.at \in Int /\ snap.header.effectiveAt \in Int
    BY <1>2 DEF Seen, Changes
  <2>. QED
    BY <1>2, <2>1, <2>3, <2>5, <2>6 DEF TooSoon
<1>. QED
  BY <1>1, <1>2

LEMMA PendingTyped ==
  ASSUME NEW snap \in Seen
  PROVE  /\ PendingOf(snap) \in {None} \union Pendings
         /\ CurrentTargetsOf(snap) \in {None} \union TargetSets
         /\ snap.header # None =>
              /\ PendingOf(snap) \in Pendings
              /\ PendingOf(snap).effectiveAt = snap.header.effectiveAt
<1>1. RowPending(snap) \in {None} \union Changes
  BY DEF Seen, Rows, RowPending
<1>2. Orelse(snap.header, RowPending(snap)) \in {None} \union Changes
  BY <1>1 DEF Seen, Orelse
<1>3. PendingOf(snap) \in {None} \union Pendings
  BY <1>1, <1>2 DEF PendingOf, Pendings, Changes
<1>4. ASSUME snap.header # None
      PROVE  PendingOf(snap) \in Pendings /\ PendingOf(snap).effectiveAt = snap.header.effectiveAt
  BY <1>1, <1>4 DEF PendingOf, Orelse, Pendings, Changes, Seen
<1>. QED
  BY <1>3, <1>4 DEF Seen, Rows, CurrentTargetsOf

LEMMA GateTyped ==
  ASSUME NEW snap \in Seen, NEW s
  PROVE  GateOf(snap, s) \in Gates
<1>1. /\ snap.lastRebalanceAt \in Int /\ snap.keeperOk \in BOOLEAN
  BY DEF Seen
<1>2. <<>> \in Seq(Blockers)
  OBVIOUS
<1>. QED
  BY <1>1, <1>2, Judged, PendingTyped DEF GateOf, Gates

(***************************************************************************)
(* The machine.  Sound: sends have failed on fewer than FailedTicks ticks  *)
(* as long as the machine has not come to rest.                            *)
(***************************************************************************)
Sound(s) == s \in Machines /\ (s.state \notin Terminal => s.sendFailures < FailedTicks)

LEMMA InitialSound == Sound(InitialApply)
BY PolicyAssumption DEF Sound, Machines, InitialApply, ApplyStates, Terminal

\* s with another state, or with a blocker put in front of it, is a machine too.
LEMMA MachineWith ==
  ASSUME NEW s \in Machines, NEW state \in ApplyStates, NEW code \in BlockerCodes, NEW since \in Int
  PROVE  /\ [s EXCEPT !.state = state] \in Machines
         /\ [s EXCEPT !.lastBlocker = Blocker(code, since)] \in Machines
         /\ [s EXCEPT !.state = state, !.lastBlocker = Blocker(code, since)] \in Machines
BY DEF Machines, Blocker

LEMMA HeldSinceTyped ==
  ASSUME NEW s \in Machines, NEW code, NEW at \in Int
  PROVE  HeldSince(s, code, at) \in Int
BY DEF Machines, HeldSince

\* What an answer keeps of the machine it was made from: which change it stands on.
StandsOn(t, s) == t.effectiveAt = s.effectiveAt /\ t.targets = s.targets /\ t.proposedAt = s.proposedAt

LEMMA EscalateSound ==
  ASSUME NEW s \in Machines, NEW code \in BlockerCodes, NEW at \in Int
  PROVE  LET step == Escalate(s, code, at)
         IN  /\ Sound(step.next) /\ StandsOn(step.next, s)
             /\ step.next.state = "ESCALATED" /\ step.send = FALSE
<1>. DEFINE t == [s EXCEPT !.state = "ESCALATED",
                           !.lastBlocker = Blocker(code, HeldSince(s, code, at))]
<1>1. t \in Machines
  BY HeldSinceTyped, MachineWith DEF ApplyStates, Terminal
<1>2. t.state = "ESCALATED" /\ StandsOn(t, s)
  BY DEF Machines, StandsOn
<1>3. Escalate(s, code, at).next = t /\ Escalate(s, code, at).send = FALSE
  BY DEF Escalate, Finish
<1>. QED
  BY <1>1, <1>2, <1>3 DEF Sound, Terminal

\* The least of a set of natural numbers.
LEMMA LeastOf ==
  ASSUME NEW T \in SUBSET Nat, T # {}
  PROVE  \E x \in T : \A y \in T : x <= y
<1>. DEFINE R == OpToRel(<, Nat)
<1>1. IsWellFoundedOn(R, Nat)
  BY NatLessThanWellFounded
<1>2. \A x, y \in Nat : y < x => <<y, x>> \in R
  BY DEF OpToRel
<1>. HIDE DEF R
<1>3. PICK x \in T : \A y \in T : ~ (<<y, x>> \in R)
  BY <1>1, WFMin
<1>4. \A y \in T : ~ (y < x)
  BY <1>2, <1>3
<1>. QED
  BY <1>4

LEMMA FirstWithTyped ==
  ASSUME NEW blockers \in Seq(Blockers), NEW action
  PROVE  FirstWith(blockers, action) \in {None} \union Blockers
<1>. DEFINE hits == {i \in DOMAIN blockers : blockers[i].action = action}
<1>1. CASE hits = {}
  BY <1>1 DEF FirstWith
<1>2. CASE hits # {}
  <2>1. hits \in SUBSET Nat
    OBVIOUS
  <2>2. PICK i \in hits : \A j \in hits : i <= j
    BY <1>2, <2>1, LeastOf
  <2>3. (CHOOSE k \in hits : \A j \in hits : k <= j) \in hits
    BY <2>2
  <2>4. FirstWith(blockers, action) = blockers[CHOOSE k \in hits : \A j \in hits : k <= j]
    BY <1>2 DEF FirstWith
  <2>. QED
    BY <2>3, <2>4
<1>. QED
  BY <1>1, <1>2

LEMMA FollowingSound ==
  ASSUME NEW s, Sound(s), NEW pending \in Pendings, NEW at \in Int
  PROVE  LET t == Following(s, pending, at)
         IN  /\ Sound(t)
             /\ t.effectiveAt = pending.effectiveAt
             /\ t.targets = Orelse(pending.targets, s.targets)
             /\ t.state # "IDLE"
             /\ t.targets # None \/ t.state \in {"IDLE", "ARMED"}
             /\ t.state = s.state \/ t.state = "ARMED"
             /\ t.state \in Terminal => ~Rearms(s, pending) /\ t.state = s.state
<1>1. CASE Rearms(s, pending)
  <2>. DEFINE t == Rearmed(s, pending, at)
  <2>1. t \in Machines
    <3>1. /\ pending.effectiveAt \in Int /\ Orelse(pending.proposedAt, at) \in Int
          /\ Orelse(pending.targets, s.targets) \in TargetSets \union {None}
      BY DEF Pendings, Orelse, Sound, Machines
    <3>2. (IF SameTargets(s, pending) THEN s.deploymentId ELSE None) \in Clients \union {None}
      BY DEF Sound, Machines
    <3>3. "ARMED" \in ApplyStates /\ 0 \in 0..FailedTicks
      BY PolicyAssumption DEF ApplyStates, Active
    <3>. QED
      BY <3>1, <3>2, <3>3 DEF Rearmed, InitialApply, Machines
  <2>2. /\ t.state = "ARMED" /\ t.sendFailures = 0 /\ t.effectiveAt = pending.effectiveAt
        /\ t.targets = Orelse(pending.targets, s.targets)
    BY DEF Rearmed, InitialApply
  <2>. QED
    BY <1>1, <2>1, <2>2, PolicyAssumption DEF Following, Sound, Terminal
<1>2. CASE ~Rearms(s, pending)
  <2>. DEFINE t == Following(s, pending, at)
  <2>1. s.state # "IDLE" /\ SameTargets(s, pending)
    BY <1>2 DEF Rearms
  <2>2. t \in Machines
    BY <1>2 DEF Following, Sound, Machines, Pendings, Orelse
  <2>3. /\ t.state = s.state /\ t.sendFailures = s.sendFailures /\ t.targets = s.targets
        /\ t.effectiveAt = pending.effectiveAt
    BY <1>2 DEF Following, Sound, Machines
  <2>4. s.targets = Orelse(pending.targets, s.targets) /\ s.targets # None
    BY <2>1 DEF SameTargets, Orelse
  <2>. QED
    BY <1>2, <2>1, <2>2, <2>3, <2>4 DEF Sound
<1>. QED
  BY <1>1, <1>2

LEMMA WaitBlockerTyped ==
  ASSUME NEW blockers \in Seq(Blockers)
  PROVE  WaitBlocker(blockers).code \in BlockerCodes
<1>. DEFINE first == FirstWith(blockers, "wait")
            other == IF blockers # <<>> THEN blockers[1]
                     ELSE [code |-> "INPUTS_INCOMPLETE", action |-> "wait"]
<1>1. other.code \in BlockerCodes
  <2>1. CASE blockers = <<>>
    <3>1. other = [code |-> "INPUTS_INCOMPLETE", action |-> "wait"]
      BY <2>1
    <3>2. "INPUTS_INCOMPLETE" \in BlockerCodes
      BY DEF BlockerCodes
    <3>. HIDE DEF other
    <3>. QED
      BY <3>1, <3>2
  <2>2. CASE blockers # <<>>
    <3>1. Len(blockers) # 0
      BY <2>2, EmptySeq
    <3>2. blockers[1] \in Blockers
      BY <3>1
    <3>. QED
      BY <2>2, <3>2 DEF Blockers
  <2>. QED
    BY <2>1, <2>2
<1>2. first # None => first.code \in BlockerCodes
  BY FirstWithTyped DEF Blockers
<1>. QED
  BY <1>1, <1>2 DEF WaitBlocker, Orelse

LEMMA WaitSound ==
  ASSUME NEW s, Sound(s), s.state \notin Terminal, NEW gate \in Gates, NEW at \in Int
  PROVE  LET step == Wait(s, gate, at)
         IN  /\ Sound(step.next) /\ StandsOn(step.next, s)
             /\ step.next.state \in {"WAIT_NOTICE", "PREFLIGHT", "ESCALATED"}
             /\ step.send = FALSE /\ step.refreshNav \in BOOLEAN
<1>. DEFINE code    == WaitBlocker(gate.blockers).code
            since   == HeldSince(s, code, at)
            refresh == /\ code = "BOOK_NOT_FRESH"
                       /\ ~s.refreshNavSent
                       /\ gate.keeperOk = FALSE
                       /\ at - since >= RefreshAfter
            state   == IF code = "NOTICE_NOT_ELAPSED" THEN "WAIT_NOTICE" ELSE "PREFLIGHT"
            waiting == [s EXCEPT !.state = state, !.lastBlocker = Blocker(code, since)]
            next    == [waiting EXCEPT !.refreshNavSent = @ \/ refresh]
<1>1. code \in BlockerCodes /\ s \in Machines
  BY WaitBlockerTyped DEF Gates, Sound
<1>2. since \in Int
  BY <1>1, HeldSinceTyped
<1>3. CASE Wait(s, gate, at) = Escalate(s, code, at)
  <2>1. Escalate(s, code, at).refreshNav = FALSE
    BY DEF Escalate, Finish
  <2>. HIDE DEF code
  <2>2. /\ Sound(Escalate(s, code, at).next) /\ StandsOn(Escalate(s, code, at).next, s)
        /\ Escalate(s, code, at).next.state = "ESCALATED" /\ Escalate(s, code, at).send = FALSE
    BY <1>1, EscalateSound
  <2>. QED
    BY <1>3, <2>1, <2>2
<1>4. CASE Wait(s, gate, at) = [Finish(next) EXCEPT !.refreshNav = refresh]
  <2>1. state \in ApplyStates /\ state \in {"WAIT_NOTICE", "PREFLIGHT"}
    BY DEF ApplyStates, Active
  <2>2. waiting \in Machines
    <3>. HIDE DEF state, code, since
    <3>. QED
      BY <1>1, <1>2, <2>1, MachineWith
  <2>3. refresh \in BOOLEAN
    OBVIOUS
  <2>4. /\ waiting.state = state /\ waiting.sendFailures = s.sendFailures
        /\ StandsOn(waiting, s)
    BY <1>1 DEF Machines, StandsOn
  <2>. HIDE DEF waiting, refresh, state
  <2>5. next \in Machines /\ next.state = waiting.state /\ StandsOn(next, waiting)
        /\ next.sendFailures = waiting.sendFailures
    BY <2>2, <2>3 DEF Machines, StandsOn
  <2>6. Wait(s, gate, at).next = next /\ Wait(s, gate, at).send = FALSE
        /\ Wait(s, gate, at).refreshNav = refresh
    BY <1>4 DEF Finish
  <2>. HIDE DEF next
  <2>. QED
    BY <2>1, <2>3, <2>4, <2>5, <2>6 DEF Sound, StandsOn
<1>. QED
  BY <1>3, <1>4 DEF Wait

LEMMA HeldSound ==
  ASSUME NEW s, Sound(s), s.state \notin Terminal, NEW gate \in Gates, NEW at \in Int
  PROVE  LET step == Held(s, gate, at)
         IN  /\ Sound(step.next) /\ StandsOn(step.next, s)
             /\ step.next.state \in {"WAIT_NOTICE", "PREFLIGHT", "ESCALATED", "BLOCKED"}
             /\ step.send = FALSE
<1>. DEFINE escalating == FirstWith(gate.blockers, "escalate")
            blocking   == FirstWith(gate.blockers, "blocked")
<1>1. /\ escalating # None => escalating.code \in BlockerCodes
      /\ blocking # None => blocking.code \in BlockerCodes
  BY FirstWithTyped DEF Gates, Blockers
<1>. HIDE DEF escalating, blocking
<1>2. CASE escalating # None
  <2>1. Held(s, gate, at) = Escalate(s, escalating.code, at)
    BY <1>2 DEF Held, escalating
  <2>2. LET step == Escalate(s, escalating.code, at)
        IN  /\ Sound(step.next) /\ StandsOn(step.next, s)
            /\ step.next.state = "ESCALATED" /\ step.send = FALSE
    BY <1>1, <1>2, EscalateSound DEF Sound
  <2>. QED
    BY <2>1, <2>2
<1>3. CASE escalating = None /\ blocking # None
  <2>. DEFINE t == [s EXCEPT !.state = "BLOCKED", !.lastBlocker = Blocker(blocking.code, at)]
  <2>1. t \in Machines
    BY <1>1, <1>3, MachineWith DEF ApplyStates, Terminal, Sound
  <2>2. t.state = "BLOCKED" /\ StandsOn(t, s)
    BY DEF Sound, Machines, StandsOn
  <2>3. Held(s, gate, at).next = t /\ Held(s, gate, at).send = FALSE
    BY <1>3 DEF Held, escalating, blocking, Finish
  <2>. QED
    BY <2>1, <2>2, <2>3 DEF Sound, Terminal
<1>4. CASE escalating = None /\ blocking = None
  BY <1>4, WaitSound DEF Held, escalating, blocking
<1>. QED
  BY <1>2, <1>3, <1>4

\* A change is pending: the machine follows it, and sends only on a green gate.
LEMMA StepPendingSound ==
  ASSUME NEW s, Sound(s), NEW gate \in Gates, gate.pending # None, NEW at \in Int
  PROVE  LET step == StepPending(s, gate, at)
         IN  /\ Sound(step.next)
             /\ step.next.effectiveAt = gate.pending.effectiveAt
             /\ step.next.targets = Orelse(gate.pending.targets, s.targets)
             /\ step.next.state # "IDLE"
             /\ StandsOn(step.next, Following(s, gate.pending, at))
             /\ step.next.state = "DONE" => step.next = s /\ ~Rearms(s, gate.pending)
             /\ s.state \in Terminal /\ ~Rearms(s, gate.pending) => step.next.state = s.state
             /\ step.send \in BOOLEAN
             /\ step.send => gate.ok = TRUE /\ step.next.state = "SEND"
<1>. DEFINE t == Following(s, gate.pending, at)
            w == Noticed(t)
<1>1. gate.pending \in Pendings
  BY DEF Gates
<1>2. /\ Sound(t) /\ t.effectiveAt = gate.pending.effectiveAt
      /\ t.targets = Orelse(gate.pending.targets, s.targets)
      /\ t.state # "IDLE"
      /\ t.state \in Terminal => ~Rearms(s, gate.pending) /\ t.state = s.state
  BY <1>1, FollowingSound
<1>3. s.state \in Terminal /\ ~Rearms(s, gate.pending) => t = s
  BY DEF Following, Rearms, Sound, Machines
<1>. HIDE DEF t
<1>4. /\ Sound(w) /\ StandsOn(w, t) /\ w.state # "IDLE"
      /\ t.state \notin Terminal => w.state \notin Terminal
  BY <1>2 DEF Noticed, Sound, Machines, StandsOn, ApplyStates, Active, Terminal
<1>. HIDE DEF w
<1>5. CASE t.state \in Terminal \/ TooEarly(t, at)
  <2>1. StepPending(s, gate, at) = Finish(t)
    BY <1>5 DEF StepPending, t
  <2>. HIDE DEF w
  <2>2. StepPending(s, gate, at).next = t /\ StepPending(s, gate, at).send = FALSE
    BY <2>1 DEF Finish
  <2>3. StandsOn(t, t)
    BY DEF StandsOn
  <2>. QED
    BY <1>2, <1>3, <2>2, <2>3 DEF t, Terminal
<1>6. ASSUME t.state \notin Terminal, ~TooEarly(t, at)
      PROVE  LET step == StepPending(s, gate, at)
             IN  /\ Sound(step.next) /\ StandsOn(step.next, t)
                 /\ step.next.state \notin {"IDLE", "DONE"}
                 /\ step.send \in BOOLEAN
                 /\ step.send => gate.ok = TRUE /\ step.next.state = "SEND"
  <2>1. w.state \notin Terminal
    BY <1>4, <1>6
  <2>2. CASE at > w.effectiveAt + Window
    <3>1. StepPending(s, gate, at) = Escalate(w, "WINDOW_CLOSED", at)
      BY <1>6, <2>2 DEF StepPending, t, w
    <3>2. "WINDOW_CLOSED" \in BlockerCodes
      BY DEF BlockerCodes
    <3>3. LET step == Escalate(w, "WINDOW_CLOSED", at)
          IN  /\ Sound(step.next) /\ StandsOn(step.next, w)
              /\ step.next.state = "ESCALATED" /\ step.send = FALSE
      BY <1>4, <3>2, EscalateSound DEF Sound
    <3>. QED
      BY <1>4, <3>1, <3>3 DEF StandsOn
  <2>3. CASE ~(at > w.effectiveAt + Window) /\ gate.ok = None
    <3>1. StepPending(s, gate, at) = Finish(w)
      BY <1>6, <2>3 DEF StepPending, t, w
    <3>. QED
      BY <1>4, <2>1, <3>1 DEF Finish, Terminal
  <2>4. CASE ~(at > w.effectiveAt + Window) /\ gate.ok # None /\ gate.ok
    <3>. DEFINE v == [w EXCEPT !.state = "SEND"]
    <3>1. /\ StepPending(s, gate, at).next = v /\ StepPending(s, gate, at).send = TRUE
      BY <1>6, <2>4 DEF StepPending, Finish, t, w
    <3>2. v \in Machines /\ v.state = "SEND" /\ v.sendFailures = w.sendFailures /\ StandsOn(v, w)
      BY <1>4 DEF Sound, Machines, ApplyStates, Active, StandsOn
    <3>3. gate.ok = TRUE
      BY <2>4, NoneAssumption DEF Gates
    <3>. QED
      BY <1>4, <2>1, <3>1, <3>2, <3>3 DEF Sound, StandsOn
  <2>5. CASE ~(at > w.effectiveAt + Window) /\ gate.ok # None /\ ~gate.ok
    <3>1. StepPending(s, gate, at) = Held(w, gate, at)
      BY <1>6, <2>5 DEF StepPending, t, w
    <3>2. LET step == Held(w, gate, at)
          IN  /\ Sound(step.next) /\ StandsOn(step.next, w)
              /\ step.next.state \in {"WAIT_NOTICE", "PREFLIGHT", "ESCALATED", "BLOCKED"}
              /\ step.send = FALSE
      BY <1>4, <2>1, HeldSound
    <3>. QED
      BY <1>4, <3>1, <3>2 DEF StandsOn
  <2>. QED
    BY <2>2, <2>3, <2>4, <2>5
<1>7. CASE t.state \notin Terminal /\ ~TooEarly(t, at)
  BY <1>2, <1>3, <1>6, <1>7 DEF StandsOn, Terminal, t
<1>. QED
  BY <1>5, <1>7

\* Nothing is pending: the machine comes to rest.
LEMMA StepVanishedSound ==
  ASSUME NEW s, Sound(s), NEW gate \in Gates, NEW at \in Int
  PROVE  LET step == StepVanished(s, gate, at)
         IN  /\ Sound(step.next)
             /\ step.next.state \in {"IDLE", "DONE", "ESCALATED"}
             /\ step.next.state # "IDLE" => StandsOn(step.next, s) /\ s.state \notin Terminal
             /\ step.next.state = "IDLE" => step.next = s \/ step.next = InitialApply
             /\ step.next.state = "DONE" =>
                  \/ s.targets # None /\ s.targets = gate.currentTargets
                  \/ gate.currentTargets = None
                  \/ s.proposedAt # None /\ gate.lastRebalanceAt >= s.proposedAt
             /\ step.send = FALSE
<1>. DEFINE step == StepVanished(s, gate, at)
            applied == /\ gate.currentTargets # None
                       /\ s.targets # None
                       /\ s.targets = gate.currentTargets
            done == [s EXCEPT !.state = "DONE"]
<1>1. InitialApply.state = "IDLE"
  BY DEF InitialApply
<1>2. CASE s.state = "IDLE"
  <2>1. step = Finish(s)
    BY <1>2 DEF StepVanished
  <2>. QED
    BY <1>2, <2>1 DEF Finish
<1>3. CASE s.state \in Terminal
  <2>1. step = Finish(InitialApply)
    BY <1>3 DEF StepVanished, Terminal
  <2>. QED
    BY <1>1, <2>1, InitialSound DEF Finish
<1>4. CASE /\ s.state # "IDLE" /\ s.state \notin Terminal
           /\ \/ applied
              \/ s.state = "CONFIRM" /\ (Advanced(s, gate) \/ gate.currentTargets = None)
  <2>1. step = Finish(done)
    BY <1>4 DEF StepVanished
  <2>2. Sound(done) /\ done.state = "DONE" /\ StandsOn(done, s)
    BY DEF Sound, Machines, ApplyStates, Terminal, StandsOn
  <2>3. \/ s.targets # None /\ s.targets = gate.currentTargets
        \/ gate.currentTargets = None
        \/ s.proposedAt # None /\ gate.lastRebalanceAt >= s.proposedAt
    BY <1>4 DEF Advanced
  <2>. HIDE DEF done, step
  <2>. QED
    BY <1>4, <2>1, <2>2, <2>3 DEF Finish, step
<1>5. CASE /\ s.state # "IDLE" /\ s.state \notin Terminal
           /\ ~ (\/ applied
                 \/ s.state = "CONFIRM" /\ (Advanced(s, gate) \/ gate.currentTargets = None))
  <2>1. CASE Advanced(s, gate)
    <3>1. step = Escalate(s, "APPLIED_MISMATCH", at)
      BY <1>5, <2>1 DEF StepVanished
    <3>2. "APPLIED_MISMATCH" \in BlockerCodes
      BY DEF BlockerCodes
    <3>3. LET t == Escalate(s, "APPLIED_MISMATCH", at)
          IN  /\ Sound(t.next) /\ StandsOn(t.next, s)
              /\ t.next.state = "ESCALATED" /\ t.send = FALSE
      BY <3>2, EscalateSound DEF Sound
    <3>. HIDE DEF step
    <3>. QED
      BY <1>5, <3>1, <3>3 DEF step
  <2>2. CASE ~Advanced(s, gate)
    <3>1. step = Finish(InitialApply)
      BY <1>5, <2>2 DEF StepVanished
    <3>. QED
      BY <1>1, <3>1, InitialSound DEF Finish
  <2>. QED
    BY <2>1, <2>2
<1>. QED
  BY <1>2, <1>3, <1>4, <1>5

\* The answer of a send, on a machine whose sends have not failed too often yet.
LEMMA OutcomeSound ==
  ASSUME NEW s \in Machines, s.sendFailures < FailedTicks, NEW outcome, NEW at \in Int,
         outcome.ok \/ outcome.code \in BlockerCodes \/ outcome.code \in {"PAUSED", "SELF_LOCKED"}
  PROVE  LET t == ApplyOutcome(s, outcome, at).next
         IN  Sound(t) /\ StandsOn(t, s) /\ (t.state \in {"IDLE", "DONE"} => t.state = s.state)
<1>. DEFINE code == outcome.code
            held == [s EXCEPT !.lastBlocker = Blocker(code, at)]
            retried == [held EXCEPT !.custodyRetries = @ + 1]
            failed  == [held EXCEPT !.sendFailures = @ + 1, !.attempts = @ + 1]
            answer(u, state, alert) == [Finish([u EXCEPT !.state = state]) EXCEPT !.alert = alert]
            step == ApplyOutcome(s, outcome, at)
<1>1. CASE outcome.ok
  <2>1. step.next = AfterSend(s)
    BY <1>1 DEF ApplyOutcome, Finish
  <2>2. /\ s.attempts + 1 \in Nat /\ 0 \in 0..FailedTicks /\ 0 < FailedTicks
        /\ "CONFIRM" \in ApplyStates
    BY PolicyAssumption DEF Machines, ApplyStates, Active
  <2>3. AfterSend(s) \in Machines /\ AfterSend(s).sendFailures = 0
    BY <2>2 DEF AfterSend, Machines
  <2>4. StandsOn(AfterSend(s), s) /\ AfterSend(s).state = "CONFIRM"
    BY DEF AfterSend, Machines, StandsOn
  <2>. HIDE DEF step
  <2>. QED
    BY <2>1, <2>2, <2>3, <2>4 DEF step, Sound
<1>2. CASE ~outcome.ok /\ code \in {"PAUSED", "SELF_LOCKED", "INVARIANTS_UNVERIFIED"}
  <2>1. step.next = s
    BY <1>2 DEF ApplyOutcome, Finish
  <2>. HIDE DEF step
  <2>. QED
    BY <2>1 DEF Sound, StandsOn, step
<1>3. CASE ~outcome.ok /\ code \notin {"PAUSED", "SELF_LOCKED", "INVARIANTS_UNVERIFIED"}
  <2>1. held \in Machines /\ StandsOn(held, s) /\ held.sendFailures = s.sendFailures
    <3>1. code \in BlockerCodes
      BY <1>3
    <3>. QED
      BY <3>1 DEF Machines, StandsOn, Blocker
  <2>2. \/ \E alert : \E state \in {"CONFIRM", "ESCALATED", "PREFLIGHT"} : step = answer(held, state, alert)
        \/ \E alert : \E state \in {"ESCALATED", "PREFLIGHT"} : step = answer(retried, state, alert)
        \/ GivesUp(failed.sendFailures) /\ step = answer(failed, "ESCALATED", "SEND_FAILED")
        \/ ~GivesUp(failed.sendFailures) /\ step = answer(failed, "PREFLIGHT", None)
    <3>1. \/ step = answer(held, "CONFIRM", None) \/ step = answer(held, "ESCALATED", code)
          \/ step = answer(held, "PREFLIGHT", code)
          \/ step = answer(retried, "ESCALATED", code) \/ step = answer(retried, "PREFLIGHT", None)
          \/ GivesUp(failed.sendFailures) /\ step = answer(failed, "ESCALATED", "SEND_FAILED")
          \/ ~GivesUp(failed.sendFailures) /\ step = answer(failed, "PREFLIGHT", None)
      BY <1>3, Zenon DEF ApplyOutcome
    <3>. HIDE DEF step, answer, held, retried, failed, code
    <3>. QED
      BY <3>1
  <2>3. \A u, state, alert : answer(u, state, alert).next = [u EXCEPT !.state = state]
    BY DEF Finish
  <2>. HIDE DEF held, step, answer
  <2>4. /\ retried \in Machines /\ StandsOn(retried, s) /\ retried.sendFailures < FailedTicks
    BY <2>1 DEF Machines, StandsOn
  <2>5. ~GivesUp(s.sendFailures + 1) => s.sendFailures + 1 < FailedTicks
    BY PolicyAssumption DEF Machines, GivesUp
  <2>6. /\ failed \in Machines /\ StandsOn(failed, s)
        /\ failed.sendFailures = s.sendFailures + 1
    <3>1. held.sendFailures + 1 \in 0..FailedTicks /\ held.attempts + 1 \in Nat
      BY <2>1, PolicyAssumption DEF Machines
    <3>. QED
      BY <2>1, <3>1 DEF Machines, StandsOn
  <2>. HIDE DEF retried, failed
  <2>7. ASSUME NEW u \in Machines, NEW state \in {"CONFIRM", "ESCALATED", "PREFLIGHT"},
               state = "ESCALATED" \/ u.sendFailures < FailedTicks, StandsOn(u, s), NEW alert,
               step = answer(u, state, alert)
        PROVE  Sound(step.next) /\ StandsOn(step.next, s) /\ step.next.state \notin {"IDLE", "DONE"}
    <3>. DEFINE t == [u EXCEPT !.state = state]
    <3>1. t \in Machines /\ StandsOn(t, s) /\ t.state = state /\ t.sendFailures = u.sendFailures
      BY <2>7 DEF Machines, StandsOn, ApplyStates, Active, Terminal
    <3>2. step.next = t
      BY <2>3, <2>7
    <3>. HIDE DEF t
    <3>. QED
      BY <2>7, <3>1, <3>2 DEF Sound, Terminal
  <2>. QED
    BY <2>1, <2>2, <2>4, <2>5, <2>6, <2>7 DEF step
<1>. QED
  BY <1>1, <1>2, <1>3

(***************************************************************************)
(* One tick of the machine on a snapshot.                                  *)
(***************************************************************************)
LEMMA TickSound ==
  ASSUME NEW snap \in Seen, NEW s, Sound(s)
  PROVE  LET step == StepApply(s, GateOf(snap, s), snap.at)
         IN  /\ Sound(step.next)
             /\ step.send \in BOOLEAN
             /\ step.send =>
                  /\ step.next.state = "SEND"
                  /\ snap.header # None
                  /\ snap.at \in snap.header.effectiveAt..(snap.header.effectiveAt + Window)
<1>. DEFINE gate == GateOf(snap, s)
            step == StepApply(s, gate, snap.at)
<1>1. gate \in Gates /\ snap.at \in Int
  BY GateTyped DEF Seen
<1>2. CASE gate.pending # None
  <2>1. step = StepPending(s, gate, snap.at)
    BY <1>2 DEF StepApply
  <2>. HIDE DEF gate
  <2>2. Sound(StepPending(s, gate, snap.at).next)
    BY <1>1, <1>2, StepPendingSound
  <2>3. /\ StepPending(s, gate, snap.at).send \in BOOLEAN
        /\ StepPending(s, gate, snap.at).send =>
              gate.ok = TRUE /\ StepPending(s, gate, snap.at).next.state = "SEND"
    BY <1>1, <1>2, StepPendingSound
  <2>4. gate.ok = TRUE => BlockersOf(snap) = <<>>
    BY NoneAssumption DEF gate, GateOf
  <2>5. BlockersOf(snap) = <<>> =>
          /\ snap.header # None
          /\ snap.at \in snap.header.effectiveAt..(snap.header.effectiveAt + Window)
    <3>1. snap.header # None => snap.header.effectiveAt \in Int
      BY DEF Seen, Changes
    <3>. QED
      BY <1>1, <3>1, Judged, PolicyAssumption
  <2>. QED
    BY <2>1, <2>2, <2>3, <2>4, <2>5 DEF gate
<1>3. CASE gate.pending = None
  <2>1. step = StepVanished(s, gate, snap.at)
    BY <1>3 DEF StepApply
  <2>. HIDE DEF gate
  <2>2. Sound(StepVanished(s, gate, snap.at).next) /\ StepVanished(s, gate, snap.at).send = FALSE
    BY <1>1, StepVanishedSound
  <2>. QED
    BY <2>1, <2>2 DEF gate
<1>. QED
  BY <1>2, <1>3

(***************************************************************************)
(* Types, with what a tick that sends and a request in flight carry.       *)
(***************************************************************************)
TickPcs == {"idle", "step", "refresh", "send", "retry", "landed"}
Ticks == [pc : TickPcs, snap : {None} \union Seen, at : Int \union {None},
          signed : Int \union {None}, sends : 0..MaxSends]
Reqs  == [pc : {"idle", "send", "landed"}, verb : {None, "propose", "cancel", "apply"},
          targets : TargetSets \union {None}, at : Int \union {None}]

TickSends == tick.pc \in {"send", "retry", "landed"}

Carried ==
  /\ tick \in Ticks
  /\ (tick.pc = "step") = (tick.snap # None)
  /\ TickSends => tick.at \in Int /\ tick.signed \in Int /\ m.sendFailures < FailedTicks
  /\ req \in [Clients -> Reqs]
  /\ \A c \in Clients : req[c].pc # "idle" =>
       req[c].at \in Int /\ (req[c].verb = "propose" => req[c].targets \in TargetSets)

World ==
  /\ now \in 0..Horizon
  /\ chain \in [pending : {None} \union Changes, targets : TargetSets, lastRebalanceAt : Int]
  /\ row \in Rows
  /\ cond \in {None} \union Conditions
  /\ hold \in {"none"} \union Holds
  /\ faults \in 0..MaxFaults

Typed == World /\ Sound(m) /\ Carried

LEMMA TypedTypes == Typed => TypeOK
BY DEF Typed, TypeOK, World, Sound, Carried, Ticks, TickPcs, Reqs

LEMMA IndexedTyped ==
  ASSUME NEW account \in [pending : {None} \union Changes, targets : TargetSets, lastRebalanceAt : Int]
  PROVE  Indexed(account) \in Rows
BY DEF Indexed, Rows

LEMMA SnapshotsSeen == World => Snapshots \subseteq Seen /\ \A snap \in Snapshots : snap # None
<1>. SUFFICES ASSUME World, NEW snap \in Snapshots
              PROVE  snap \in Seen
  BY NullAssumption
<1>1. snap.keeperOk \in BOOLEAN
  BY DEF Snapshots
<1>2. snap.row \in {None} \union Rows
  BY DEF Snapshots, World
<1>3. snap = [at |-> now, header |-> chain.pending, lastRebalanceAt |-> chain.lastRebalanceAt,
              row |-> snap.row, cond |-> cond, keeperOk |-> snap.keeperOk]
  BY DEF Snapshots
<1>. QED
  BY <1>1, <1>2, <1>3 DEF Seen, World

LEMMA AccountMoves ==
  ASSUME World, NEW account \in [pending : {None} \union Changes, targets : TargetSets, lastRebalanceAt : Int],
         Becomes(account)
  PROVE  /\ chain' \in [pending : {None} \union Changes, targets : TargetSets, lastRebalanceAt : Int]
         /\ row' \in Rows
BY IndexedTyped DEF World, Becomes

LEMMA AnnounceTyped ==
  ASSUME World, NEW targets \in TargetSets, Announce(targets), UNCHANGED <<now, cond, hold, faults>>
  PROVE  World'
<1>1. [chain EXCEPT !.pending = Change(targets, now)] \in
        [pending : {None} \union Changes, targets : TargetSets, lastRebalanceAt : Int]
  BY LoopAssumption DEF World, Change, Changes
<1>. QED
  BY <1>1, AccountMoves DEF Announce, World

LEMMA WithdrawnTyped ==
  ASSUME World, Withdrawn, UNCHANGED <<now, cond, hold, faults>>
  PROVE  World'
<1>1. [chain EXCEPT !.pending = None] \in
        [pending : {None} \union Changes, targets : TargetSets, lastRebalanceAt : Int]
  BY DEF World
<1>. QED
  BY <1>1, AccountMoves DEF Withdrawn, World

LEMMA AppliedTyped ==
  ASSUME World, chain.pending # None, Applied, UNCHANGED <<now, cond, hold, faults>>
  PROVE  World'
<1>1. [pending |-> None, targets |-> chain.pending.targets, lastRebalanceAt |-> now] \in
        [pending : {None} \union Changes, targets : TargetSets, lastRebalanceAt : Int]
  BY DEF World, Changes
<1>. QED
  BY <1>1, AccountMoves DEF Applied, World

LEMMA TypedInit == Init => Typed
<1>. SUFFICES ASSUME Init PROVE Typed
  OBVIOUS
<1>1. chain \in [pending : {None} \union Changes, targets : TargetSets, lastRebalanceAt : Int]
  BY LoopAssumption DEF Init
<1>2. World
  BY <1>1, IndexedTyped, LoopAssumption DEF Init, World
<1>3. Sound(m)
  BY InitialSound DEF Init
<1>4. tick = TickIdle /\ TickIdle \in Ticks /\ req \in [Clients -> Reqs]
  BY LoopAssumption DEF Init, TickIdle, ReqIdle, Ticks, TickPcs, Reqs
<1>5. \A c \in Clients : req[c].pc = "idle"
  BY DEF Init, ReqIdle
<1>6. tick.pc = "idle" /\ tick.snap = None
  BY <1>4 DEF TickIdle
<1>. QED
  BY <1>2, <1>3, <1>4, <1>5, <1>6 DEF Typed, Carried, TickSends

\* The loop's own steps.
LEMMA LoopTyped ==
  ASSUME Typed, LoopNext
  PROVE  Typed'
<1>. USE DEF TickPcs
<1>0. World /\ Sound(m) /\ m \in Machines /\ Carried
  BY DEF Typed, Sound
<1>1. TickIdle \in Ticks /\ TickIdle.pc = "idle" /\ TickIdle.snap = None
  BY LoopAssumption DEF TickIdle, Ticks
<1>2. CASE TickRead
  <2>1. PICK snap \in Snapshots : tick' = [TickIdle EXCEPT !.pc = "step", !.snap = snap]
    BY <1>2 DEF TickRead
  <2>2. snap \in Seen /\ snap # None
    BY <1>0, SnapshotsSeen
  <2>3. tick' \in Ticks /\ tick'.pc = "step" /\ tick'.snap # None
    <3>1. tick' = [pc |-> "step", snap |-> snap, at |-> None, signed |-> None, sends |-> 0]
      BY <2>1 DEF TickIdle
    <3>2. 0 \in 0..MaxSends /\ "step" \in TickPcs
      BY LoopAssumption
    <3>. QED
      BY <2>2, <3>1, <3>2 DEF Ticks
  <2>. QED
    BY <1>0, <1>2, <2>3 DEF TickRead, Typed, World, Carried, TickSends
<1>3. CASE TickHeld
  BY <1>0, <1>1, <1>3 DEF TickHeld, Typed, World, Carried, TickSends
<1>4. CASE TickStep
  <2>. DEFINE step == StepApply(m, GateOf(tick.snap, m), tick.snap.at)
  <2>1. tick.snap \in Seen
    BY <1>0, <1>4 DEF TickStep, Carried, Ticks
  <2>2. Sound(step.next) /\ step.send \in BOOLEAN /\ (step.send => step.next.state = "SEND")
    BY <1>0, <2>1, TickSound
  <2>. HIDE DEF step
  <2>3. m' = step.next
    BY <1>4 DEF TickStep, step
  <2>4. \/ step.send /\ tick' = [TickIdle EXCEPT !.pc = "send", !.at = tick.snap.at,
                                                 !.signed = now, !.sends = 1]
        \/ tick' = [TickIdle EXCEPT !.pc = "refresh"]
        \/ tick' = TickIdle
    BY <1>4 DEF TickStep, step
  <2>5. Carried'
    <3>1. CASE step.send /\ tick' = [TickIdle EXCEPT !.pc = "send", !.at = tick.snap.at,
                                                    !.signed = now, !.sends = 1]
      <4>1. tick.snap.at \in Int /\ now \in Int /\ 1 \in 0..MaxSends
        BY <1>0, <2>1, LoopAssumption DEF Seen, World
      <4>2. tick' \in Ticks /\ tick'.pc = "send" /\ tick'.snap = None /\ tick'.at \in Int
            /\ tick'.signed \in Int
        BY <3>1, <4>1 DEF TickIdle, Ticks
      <4>3. m'.sendFailures < FailedTicks
        BY <2>2, <2>3, <3>1 DEF Sound, Terminal
      <4>. QED
        BY <1>0, <1>4, <4>2, <4>3 DEF Carried, TickStep
    <3>2. CASE tick' = [TickIdle EXCEPT !.pc = "refresh"]
      <4>1. tick' \in Ticks /\ tick'.pc = "refresh" /\ tick'.snap = None
        BY <1>1, <3>2 DEF TickIdle, Ticks
      <4>. QED
        BY <1>0, <1>4, <4>1 DEF Carried, TickStep, TickSends
    <3>3. CASE tick' = TickIdle
      BY <1>0, <1>1, <1>4, <3>3 DEF Carried, TickStep, TickSends
    <3>. QED
      BY <2>4, <3>1, <3>2, <3>3
  <2>. QED
    BY <1>0, <1>4, <2>2, <2>3, <2>5 DEF TickStep, Typed, World
<1>5. CASE TickRefresh
  BY <1>0, <1>1, <1>5 DEF TickRefresh, Typed, World, Carried, TickSends
<1>6. CASE SendLand
  <2>1. World'
    BY <1>0, <1>6, AppliedTyped DEF SendLand, Appliable
  <2>2. tick' \in Ticks /\ tick'.pc = "landed" /\ tick'.snap = tick.snap /\ tick'.at = tick.at
        /\ tick'.signed = tick.signed
    BY <1>0, <1>6 DEF SendLand, Carried, Ticks
  <2>. QED
    BY <1>0, <1>6, <2>1, <2>2 DEF SendLand, Typed, Carried, TickSends
<1>7. CASE SendExpired
  <2>1. tick' \in Ticks /\ tick'.pc = "retry" /\ tick'.snap = tick.snap /\ tick'.at = tick.at
        /\ tick'.signed = tick.signed
    <3>1. tick.sends + 1 \in 0..MaxSends /\ "retry" \in TickPcs
      BY <1>0, <1>7, LoopAssumption DEF SendExpired, Carried, Ticks
    <3>. QED
      BY <1>0, <1>7, <3>1 DEF SendExpired, Carried, Ticks
  <2>. QED
    BY <1>0, <1>7, <2>1 DEF SendExpired, Typed, World, Carried, TickSends
<1>8. ASSUME NEW ok \in BOOLEAN, NEW code, ok \/ code \in BlockerCodes \/ code \in {"PAUSED", "SELF_LOCKED"},
             TickSends, Outcome(ok, code)
      PROVE  Typed'
  <2>1. m.sendFailures < FailedTicks /\ tick.at \in Int
    BY <1>0, <1>8 DEF Carried
  <2>2. Sound(m')
    BY <1>0, <1>8, <2>1, OutcomeSound DEF Outcome
  <2>. QED
    BY <1>0, <1>1, <1>8, <2>2 DEF Outcome, Typed, World, Carried, TickSends
<1>9. CASE SendRetry
  <2>1. CASE hold = "none"
    <3>1. tick' \in Ticks /\ tick'.pc = "send" /\ tick'.snap = tick.snap /\ tick'.at = tick.at
          /\ tick'.signed \in Int
      <4>1. now \in Int /\ "send" \in TickPcs
        BY <1>0 DEF World
      <4>. QED
        BY <1>0, <1>9, <2>1, <4>1 DEF SendRetry, Carried, Ticks
    <3>. QED
      BY <1>0, <1>9, <2>1, <3>1 DEF SendRetry, Typed, World, Carried, TickSends
  <2>2. CASE hold # "none"
    BY <1>8, <1>9, <2>2 DEF SendRetry, TickSends
  <2>. QED
    BY <2>1, <2>2
<1>10. CASE SendConfirmed
  BY <1>8, <1>10 DEF SendConfirmed, TickSends
<1>11. CASE SendUnanswered
  BY <1>8, <1>11 DEF SendUnanswered, TickSends, BlockerCodes
<1>12. CASE SendFails
  BY <1>8, <1>12 DEF SendFails, TickSends, BlockerCodes
<1>. QED
  BY <1>2, <1>3, <1>4, <1>5, <1>6, <1>7, <1>9, <1>10, <1>11, <1>12 DEF LoopNext

\* The verbs' steps.
LEMMA VerbTyped ==
  ASSUME Typed, NEW c \in Clients, VerbNext(c)
  PROVE  Typed'
<1>0. World /\ Sound(m) /\ m \in Machines /\ Carried
  BY DEF Typed, Sound
<1>1. req[c] \in Reqs /\ ReqIdle \in Reqs /\ ReqIdle.pc = "idle" /\ now \in Int
  BY <1>0 DEF Carried, ReqIdle, Reqs, World
<1>2. ASSUME NEW verb \in {"propose", "cancel", "apply"}, NEW targets \in TargetSets \union {None},
             Sending(c, verb, targets), verb = "propose" => targets \in TargetSets,
             UNCHANGED <<tick, m>>
      PROVE  Carried'
  <2>. DEFINE r == [pc |-> "send", verb |-> verb, targets |-> targets, at |-> now]
  <2>1. r \in Reqs
    BY <1>1 DEF Reqs
  <2>2. r.at \in Int /\ (r.verb = "propose" => r.targets \in TargetSets)
    BY <1>1, <1>2
  <2>3. req' = [req EXCEPT ![c] = r]
    BY <1>2 DEF Sending
  <2>. HIDE DEF r
  <2>. QED
    BY <1>0, <1>2, <2>1, <2>2, <2>3 DEF Carried, TickSends
<1>3. ASSUME Answered(c), UNCHANGED tick, TickSends => m'.sendFailures < FailedTicks
      PROVE  Carried'
  <2>. QED
    BY <1>0, <1>1, <1>3 DEF Answered, Carried, TickSends
<1>4. ASSUME Landed(c), UNCHANGED <<tick, m>>, req[c].pc = "send"
      PROVE  Carried'
  <2>1. [req[c] EXCEPT !.pc = "landed"] \in Reqs
    BY <1>1 DEF Reqs
  <2>2. /\ [req[c] EXCEPT !.pc = "landed"].at = req[c].at
        /\ [req[c] EXCEPT !.pc = "landed"].verb = req[c].verb
        /\ [req[c] EXCEPT !.pc = "landed"].targets = req[c].targets
    BY <1>1 DEF Reqs
  <2>3. req' = [req EXCEPT ![c] = [req[c] EXCEPT !.pc = "landed"]]
    BY <1>4 DEF Landed
  <2>. QED
    BY <1>0, <1>4, <2>1, <2>2, <2>3 DEF Carried, TickSends
<1>5. ASSUME NEW targets \in Proposals, Propose(c, targets)
      PROVE  Typed'
  <2>1. targets \in TargetSets
    BY DEF Proposals
  <2>. QED
    BY <1>0, <1>2, <1>5, <2>1 DEF Propose, Typed, World
<1>6. CASE ProposeLand(c)
  <2>1. req[c].targets \in TargetSets
    BY <1>0, <1>6 DEF ProposeLand, InFlight, Carried
  <2>2. World'
    BY <1>0, <1>6, <2>1, AnnounceTyped DEF ProposeLand
  <2>. QED
    BY <1>0, <1>4, <1>6, <2>2 DEF ProposeLand, InFlight, Typed
<1>7. CASE ProposeDone(c)
  <2>1. /\ req[c].at \in Int /\ req[c].targets \in TargetSets
        /\ req[c].at + Notice \in Int
    BY <1>0, <1>7, LoopAssumption DEF ProposeDone, HasLanded, Carried
  <2>2. m' \in Machines /\ m'.sendFailures = 0
    <3>1. "ARMED" \in ApplyStates /\ 0 \in 0..FailedTicks
      BY PolicyAssumption DEF ApplyStates, Active
    <3>. QED
      BY <1>7, <2>1, <3>1 DEF ProposeDone, InitialApply, Machines
  <2>3. Sound(m') /\ m'.sendFailures < FailedTicks
    BY <2>2, PolicyAssumption DEF Sound
  <2>. QED
    BY <1>0, <1>3, <1>7, <2>3 DEF ProposeDone, Typed, World
<1>8. CASE Cancel(c)
  BY <1>0, <1>2, <1>8 DEF Cancel, Typed, World
<1>9. CASE CancelLand(c)
  <2>1. World'
    BY <1>0, <1>9, WithdrawnTyped DEF CancelLand
  <2>. QED
    BY <1>0, <1>4, <1>9, <2>1 DEF CancelLand, InFlight, Typed
<1>10. CASE CancelDone(c)
  <2>1. InitialApply.sendFailures < FailedTicks
    BY PolicyAssumption DEF InitialApply
  <2>. QED
    BY <1>0, <1>3, <1>10, <2>1, InitialSound DEF CancelDone, Typed, World
<1>11. CASE Apply(c)
  BY <1>0, <1>2, <1>11 DEF Apply, Typed, World
<1>12. CASE ApplyTooLate(c)
  <2>1. /\ m' \in Machines /\ m'.state \in {"DONE", "ESCALATED"}
        /\ m'.sendFailures = m.sendFailures
    <3>1. PICK snap \in Snapshots :
            \/ m' = [m EXCEPT !.state = "DONE"]
            \/ m' = [m EXCEPT !.state = "ESCALATED", !.lastBlocker = Blocker("APPLIED_MISMATCH", now)]
      BY <1>12 DEF ApplyTooLate
    <3>2. CASE m' = [m EXCEPT !.state = "DONE"]
      BY <1>0, <3>2 DEF Machines, ApplyStates, Terminal
    <3>3. CASE m' = [m EXCEPT !.state = "ESCALATED", !.lastBlocker = Blocker("APPLIED_MISMATCH", now)]
      <4>1. "ESCALATED" \in ApplyStates /\ "APPLIED_MISMATCH" \in BlockerCodes
        BY DEF ApplyStates, Terminal, BlockerCodes
      <4>2. m' \in Machines
        BY <1>0, <1>1, <3>3, <4>1, MachineWith
      <4>. QED
        BY <1>0, <3>3, <4>2 DEF Machines
    <3>. QED
      BY <3>1, <3>2, <3>3
  <2>2. Sound(m')
    BY <2>1 DEF Sound, Terminal
  <2>. QED
    BY <1>0, <1>12, <2>1, <2>2 DEF ApplyTooLate, Typed, World, Carried, TickSends
<1>13. CASE ApplyLand(c)
  <2>1. World'
    BY <1>0, <1>13, AppliedTyped DEF ApplyLand, Appliable
  <2>. QED
    BY <1>0, <1>4, <1>13, <2>1 DEF ApplyLand, InFlight, Typed
<1>14. CASE ApplyDone(c)
  <2>1. /\ m.attempts + 1 \in Nat /\ 0 \in 0..FailedTicks /\ 0 < FailedTicks
        /\ "CONFIRM" \in ApplyStates
    BY <1>0, PolicyAssumption DEF Machines, ApplyStates, Active
  <2>2. m' \in Machines /\ m'.sendFailures = 0
    BY <1>0, <1>14, <2>1 DEF ApplyDone, AfterSend, Machines
  <2>. QED
    BY <1>0, <1>3, <1>14, <2>1, <2>2 DEF ApplyDone, Typed, World, Sound
<1>15. CASE RequestFails(c)
  BY <1>0, <1>3, <1>15 DEF RequestFails, Typed, World, Carried
<1>. QED
  BY <1>5, <1>6, <1>7, <1>8, <1>9, <1>10, <1>11, <1>12, <1>13, <1>14, <1>15 DEF VerbNext

\* The world's steps.
LEMMA WorldTyped ==
  ASSUME Typed, WorldNext
  PROVE  Typed'
<1>0. World /\ Sound(m) /\ m \in Machines /\ Carried
  BY DEF Typed, Sound
<1>1. ASSUME UNCHANGED <<tick, m, req>> PROVE Sound(m)' /\ Carried'
  BY <1>0, <1>1 DEF Carried, TickSends
<1>2. CASE Advance
  BY <1>0, <1>1, <1>2, LoopAssumption DEF Advance, Typed, World
<1>3. CASE Index
  <2>1. row' \in Rows
    BY <1>0, <1>3, IndexedTyped DEF Index, World
  <2>. QED
    BY <1>0, <1>1, <1>3, <2>1 DEF Index, Typed, World
<1>4. CASE WorldTurns
  BY <1>0, <1>1, <1>4 DEF WorldTurns, Typed, World
<1>5. CASE HoldChanges
  BY <1>0, <1>1, <1>5 DEF HoldChanges, Typed, World
<1>6. CASE StrangerApplies
  BY <1>0, <1>1, <1>6, AppliedTyped DEF StrangerApplies, Appliable, Typed
<1>7. faults < MaxFaults /\ faults' = faults + 1 => faults' \in 0..MaxFaults
  BY <1>0, LoopAssumption DEF World
<1>8. CASE OutsideProposes
  <2>1. PICK targets \in Proposals : Announce(targets)
    BY <1>8 DEF OutsideProposes
  <2>2. [chain EXCEPT !.pending = Change(targets, now)] \in
          [pending : {None} \union Changes, targets : TargetSets, lastRebalanceAt : Int]
    BY <1>0, LoopAssumption DEF World, Change, Changes, Proposals
  <2>3. /\ chain' \in [pending : {None} \union Changes, targets : TargetSets, lastRebalanceAt : Int]
        /\ row' \in Rows
    BY <1>0, <2>1, <2>2, AccountMoves DEF Announce
  <2>. QED
    BY <1>0, <1>1, <1>7, <1>8, <2>3 DEF OutsideProposes, Typed, World
<1>9. CASE OutsideCancels
  <2>1. [chain EXCEPT !.pending = None] \in
          [pending : {None} \union Changes, targets : TargetSets, lastRebalanceAt : Int]
    BY <1>0 DEF World
  <2>2. /\ chain' \in [pending : {None} \union Changes, targets : TargetSets, lastRebalanceAt : Int]
        /\ row' \in Rows
    BY <1>0, <1>9, <2>1, AccountMoves DEF OutsideCancels, Withdrawn
  <2>. QED
    BY <1>0, <1>1, <1>7, <1>9, <2>2 DEF OutsideCancels, Typed, World
<1>10. CASE Crash
  <2>1. Carried'
    <3>1. tick' = TickIdle /\ TickIdle \in Ticks /\ TickIdle.pc = "idle" /\ TickIdle.snap = None
      BY <1>10, LoopAssumption DEF Crash, TickIdle, Ticks, TickPcs
    <3>2. req' \in [Clients -> Reqs] /\ \A c \in Clients : req'[c].pc = "idle"
      BY <1>10 DEF Crash, ReqIdle, Reqs
    <3>. QED
      BY <3>1, <3>2 DEF Carried, TickSends
  <2>. QED
    BY <1>0, <1>7, <1>10, <2>1, InitialSound DEF Crash, Typed, World
<1>. QED
  BY <1>2, <1>3, <1>4, <1>5, <1>6, <1>8, <1>9, <1>10 DEF WorldNext

LEMMA TypedStep == Typed /\ [Next]_vars => Typed'
<1>1. Typed /\ Next => Typed'
  BY LoopTyped, VerbTyped, WorldTyped DEF Next
<1>2. Typed /\ UNCHANGED vars => Typed'
  BY DEF vars, Typed, World, Sound, Carried, TickSends
<1>. QED
  BY <1>1, <1>2

LEMMA AlwaysTyped == Spec => []Typed
BY TypedInit, TypedStep, PTL DEF Spec

\* Whatever the gates answer and the sends return, every field of the machine,
\* the chain and the loop keeps its type, and the machine comes to rest before
\* its sends have failed on more than FailedTicks ticks.
THEOREM TypesCorrect == Spec => []TypeOK
BY AlwaysTyped, TypedTypes, PTL

(***************************************************************************)
(* What a send can meet on the chain.  The chain is moved by an announced, *)
(* a withdrawn or an applied change only.  A change that was judged may be *)
(* gone when the send lands, and another announced; but that one is no     *)
(* older than the judgement, and a tick's sends, Lag and all, are over     *)
(* before a whole notice has passed.                                       *)
(***************************************************************************)
ChainStep ==
  \/ \E targets \in TargetSets : Proposable /\ Announce(targets)
  \/ chain.pending # None /\ Withdrawn
  \/ Appliable /\ Applied

LEMMA ChainSteps ==
  ASSUME Typed, [Next]_vars
  PROVE  \/ UNCHANGED chain /\ now' \in {now, now + 1}
         \/ now' = now /\ ChainStep
<1>1. CASE LoopNext
  BY <1>1 DEF LoopNext, TickRead, TickHeld, TickStep, TickRefresh, SendLand, SendExpired, SendRetry,
     SendConfirmed, SendUnanswered, SendFails, Outcome, ChainStep
<1>2. ASSUME NEW c \in Clients, VerbNext(c)
      PROVE  \/ UNCHANGED chain /\ now' \in {now, now + 1}
             \/ now' = now /\ ChainStep
  <2>1. CASE ProposeLand(c)
    <3>1. req[c].targets \in TargetSets
      BY <2>1 DEF ProposeLand, InFlight, Typed, Carried
    <3>. QED
      BY <2>1, <3>1 DEF ProposeLand, ChainStep
  <2>. QED
    BY <1>2, <2>1 DEF VerbNext, Propose, ProposeDone, Cancel, CancelLand, CancelDone,
       Apply, ApplyTooLate, ApplyLand, ApplyDone, RequestFails, ChainStep
<1>3. CASE WorldNext
  <2>1. CASE OutsideProposes
    BY <2>1 DEF OutsideProposes, ChainStep, Proposals
  <2>. QED
    BY <1>3, <2>1 DEF WorldNext, Advance, Index, WorldTurns, HoldChanges, StrangerApplies,
       OutsideCancels, Crash, ChainStep
<1>4. CASE UNCHANGED vars
  BY <1>4 DEF vars
<1>. QED
  BY <1>1, <1>2, <1>3, <1>4 DEF Next

\* Time n sends of a tick may take.
Spent(n) == n * (Lifetime + 1)

LEMMA SpentBounds ==
  ASSUME NEW n \in 1..MaxSends
  PROVE  /\ Spent(n - 1) \in Nat /\ Spent(n) \in Nat
         /\ Spent(n) = Spent(n - 1) + Lifetime + 1
         /\ Lag + Spent(n) <= Notice
<1>1. /\ Lifetime \in Nat /\ MaxSends \in Nat \ {0} /\ n \in Nat /\ n <= MaxSends /\ 1 <= n
      /\ Lag \in Nat /\ Notice \in Nat /\ Lag + MaxSends * (Lifetime + 1) <= Notice
  BY LoopAssumption
<1>2. \A a, b, k \in Nat : a <= b => a * k <= b * k
  BY Z3
<1>3. \A a, k \in Nat : a * k \in Nat /\ (a + 1) * k = a * k + k
  BY Z3
<1>4. n - 1 \in Nat /\ Lifetime + 1 \in Nat /\ (n - 1) + 1 = n
  BY <1>1
<1>5. n * (Lifetime + 1) <= MaxSends * (Lifetime + 1)
  BY <1>1, <1>2, <1>4
<1>6. /\ (n - 1) * (Lifetime + 1) \in Nat /\ n * (Lifetime + 1) \in Nat
      /\ n * (Lifetime + 1) = (n - 1) * (Lifetime + 1) + (Lifetime + 1)
      /\ MaxSends * (Lifetime + 1) \in Nat
  BY <1>1, <1>3, <1>4
<1>. QED
  BY <1>1, <1>5, <1>6 DEF Spent

InWindow(t, change) == t \in change.effectiveAt..(change.effectiveAt + Window)
Dated(change, by)   == change.effectiveAt = change.proposedAt + Notice /\ change.proposedAt <= by

\* What was judged at time t meets no change it did not judge, but for one too young to land.
OnTime(t) == \/ chain.pending = None
             \/ InWindow(t, chain.pending)
             \/ chain.pending.proposedAt >= t

TickOnTime ==
  /\ tick.pc = "step" =>
       /\ tick.snap.at <= now /\ now <= tick.snap.at + Lag
       /\ \/ tick.snap.header = chain.pending
          \/ chain.pending = None
          \/ chain.pending.proposedAt >= tick.snap.at
  /\ tick.pc \in {"send", "retry"} =>
       tick.sends \in 1..MaxSends /\ tick.at <= now /\ OnTime(tick.at)
  /\ tick.pc = "send" =>
       /\ tick.signed <= tick.at + Lag + Spent(tick.sends - 1)
       /\ now <= tick.signed + Lifetime + 1
  /\ tick.pc = "retry" => now <= tick.at + Lag + Spent(tick.sends - 1)

ReqOnTime(c) ==
  /\ req[c].pc # "idle" => req[c].at <= now
  /\ req[c].pc = "send" /\ req[c].verb = "apply" => OnTime(req[c].at)

Timely == /\ chain.pending # None => Dated(chain.pending, now)
          /\ TickOnTime
          /\ \A c \in Clients : ReqOnTime(c)

LEMMA TimelyInit == Init => Timely
BY DEF Init, Timely, TickOnTime, TickIdle, ReqOnTime, ReqIdle

\* A judgement stays good whatever moves the chain.
LEMMA StaysOnTime ==
  ASSUME Typed, Typed', Timely, [Next]_vars
  PROVE  /\ chain'.pending # None => Dated(chain'.pending, now')
         /\ \A t \in Int : t <= now /\ OnTime(t) => OnTime(t)'
         /\ now' \in Int /\ now' >= now
         /\ \/ UNCHANGED chain \/ chain'.pending = None
            \/ chain'.pending # None /\ chain'.pending.proposedAt = now
<1>1. /\ now \in Int /\ now' \in Int
      /\ chain.pending # None => chain.pending.effectiveAt \in Int /\ chain.pending.proposedAt \in Int
      /\ Notice \in Nat
  BY LoopAssumption DEF Typed, World, Changes
<1>2. CASE UNCHANGED chain /\ now' \in {now, now + 1}
  BY <1>1, <1>2 DEF Timely, Dated, OnTime, InWindow
<1>3. CASE now' = now /\ \E targets \in TargetSets : Proposable /\ Announce(targets)
  <2>1. PICK targets \in TargetSets : chain' = [chain EXCEPT !.pending = Change(targets, now)]
    BY <1>3 DEF Announce, Becomes
  <2>2. chain'.pending = Change(targets, now)
    BY <2>1 DEF Typed, World
  <2>3. chain'.pending.proposedAt = now /\ chain'.pending.effectiveAt = now + Notice
    BY <2>2 DEF Change
  <2>4. Change(targets, now) \in Changes /\ Change(targets, now) # None
    <3>1. Change(targets, now) \in Changes
      BY <1>1 DEF Change, Changes
    <3>2. Changes \subseteq Pendings
      BY DEF Changes, Pendings
    <3>. QED
      BY <3>1, <3>2, NullAssumption
  <2>. QED
    BY <1>1, <1>3, <2>2, <2>3, <2>4 DEF Dated, OnTime, InWindow
<1>4. CASE now' = now /\ (Withdrawn \/ Applied)
  <2>1. chain'.pending = None
    BY <1>4 DEF Withdrawn, Applied, Becomes, Typed, World
  <2>. QED
    BY <1>1, <1>4, <2>1 DEF OnTime
<1>. QED
  BY <1>2, <1>3, <1>4, ChainSteps DEF ChainStep

LEMMA LoopTimely ==
  ASSUME Typed, Typed', Timely, LoopNext
  PROVE  TickOnTime'
<1>. USE DEF TickPcs
<1>0. /\ now \in Int /\ tick \in Ticks /\ TickOnTime /\ [Next]_vars
      /\ Lag \in Nat /\ Lifetime \in Nat /\ MaxSends \in Nat \ {0}
  BY LoopAssumption DEF Typed, World, Carried, Timely, Next
<1>1. TickIdle.pc = "idle"
  BY DEF TickIdle
<1>2. CASE TickRead
  <2>1. PICK snap \in Snapshots : tick' = [TickIdle EXCEPT !.pc = "step", !.snap = snap]
    BY <1>2 DEF TickRead
  <2>2. tick'.pc = "step" /\ tick'.snap = snap /\ snap.at = now /\ snap.header = chain.pending
    BY <2>1 DEF TickIdle, Snapshots
  <2>. QED
    BY <1>0, <1>2, <2>2 DEF TickRead, TickOnTime
<1>3. CASE tick' = TickIdle
  BY <1>1, <1>3 DEF TickOnTime
<1>4. CASE TickStep
  <2>. DEFINE step == StepApply(m, GateOf(tick.snap, m), tick.snap.at)
              snap == tick.snap
  <2>1. snap \in Seen
    BY <1>4 DEF TickStep, Typed, Carried, Ticks
  <2>2. step.send => snap.header # None /\ InWindow(snap.at, snap.header)
    BY <2>1, TickSound DEF Typed, InWindow
  <2>. HIDE DEF step
  <2>3. \/ step.send /\ tick' = [TickIdle EXCEPT !.pc = "send", !.at = snap.at,
                                                 !.signed = now, !.sends = 1]
        \/ tick' = [TickIdle EXCEPT !.pc = "refresh"]
        \/ tick' = TickIdle
    BY <1>4 DEF TickStep, step
  <2>4. CASE step.send /\ tick' = [TickIdle EXCEPT !.pc = "send", !.at = snap.at,
                                                  !.signed = now, !.sends = 1]
    <3>1. /\ tick'.pc = "send" /\ tick'.at = snap.at /\ tick'.signed = now
          /\ tick'.sends = 1
      BY <2>4 DEF TickIdle
    <3>2. /\ snap.at <= now /\ now <= snap.at + Lag /\ snap.at \in Int
          /\ OnTime(snap.at) /\ now' = now /\ chain' = chain
      BY <1>0, <1>4, <2>1, <2>2, <2>4 DEF TickStep, TickOnTime, OnTime, Seen
    <3>3. Spent(1 - 1) = 0
      BY <1>0 DEF Spent
    <3>. QED
      BY <1>0, <3>1, <3>2, <3>3 DEF TickOnTime, OnTime
  <2>5. CASE tick' = [TickIdle EXCEPT !.pc = "refresh"]
    <3>1. tick'.pc = "refresh"
      BY <2>5 DEF TickIdle
    <3>. QED
      BY <3>1 DEF TickOnTime
  <2>. QED
    BY <1>3, <2>3, <2>4, <2>5
<1>5. CASE SendLand
  <2>1. tick'.pc = "landed"
    BY <1>0, <1>5 DEF SendLand, Ticks
  <2>. QED
    BY <2>1 DEF TickOnTime
<1>6. CASE SendExpired
  <2>1. /\ tick'.pc = "retry" /\ tick'.sends = tick.sends + 1 /\ tick'.at = tick.at
        /\ now' = now /\ chain' = chain
    BY <1>0, <1>6 DEF SendExpired, Ticks
  <2>2. /\ tick.sends \in 1..MaxSends /\ tick.sends < MaxSends /\ tick.at <= now /\ OnTime(tick.at)
        /\ tick.signed <= tick.at + Lag + Spent(tick.sends - 1)
        /\ now <= tick.signed + Lifetime + 1
        /\ tick.at \in Int /\ tick.signed \in Int
    BY <1>0, <1>6 DEF SendExpired, TickOnTime, Typed, Carried, TickSends
  <2>3. Spent(tick.sends) = Spent(tick.sends - 1) + Lifetime + 1 /\ Spent(tick.sends - 1) \in Nat
    BY <2>2, SpentBounds
  <2>4. tick'.sends - 1 = tick.sends /\ tick'.sends \in 1..MaxSends
    BY <1>0, <2>1, <2>2
  <2>5. now <= tick.at + Lag + Spent(tick.sends)
    BY <1>0, <2>2, <2>3
  <2>. QED
    BY <2>1, <2>2, <2>4, <2>5 DEF TickOnTime, OnTime
<1>7. CASE SendRetry
  <2>1. CASE hold = "none"
    <3>1. /\ tick'.pc = "send" /\ tick'.signed = now /\ tick'.sends = tick.sends
          /\ tick'.at = tick.at /\ now' = now /\ chain' = chain
      BY <1>0, <1>7, <2>1 DEF SendRetry, Ticks
    <3>2. /\ tick.sends \in 1..MaxSends /\ tick.at <= now /\ OnTime(tick.at)
          /\ now <= tick.at + Lag + Spent(tick.sends - 1)
      BY <1>7 DEF SendRetry, Timely, TickOnTime
    <3>. QED
      BY <1>0, <3>1, <3>2 DEF TickOnTime, OnTime
  <2>2. CASE hold # "none"
    BY <1>3, <1>7, <2>2 DEF SendRetry, Outcome
  <2>. QED
    BY <2>1, <2>2
<1>. QED
  BY <1>2, <1>3, <1>4, <1>5, <1>6, <1>7
  DEF LoopNext, TickHeld, TickRefresh, SendConfirmed, SendUnanswered, SendFails, Outcome

\* A tick in flight, or none after a crash, while the verbs and the world move on.
LEMMA ElseTimely ==
  ASSUME Typed, Typed', Timely, [Next]_vars,
         tick' = tick \/ tick' = TickIdle,
         now' = now \/ Advance
  PROVE  TickOnTime'
<1>0. /\ now \in Int /\ tick \in Ticks /\ TickOnTime /\ now' \in Int /\ now' >= now
      /\ Lag \in Nat /\ Lifetime \in Nat
      /\ \/ UNCHANGED chain \/ chain'.pending = None
         \/ chain'.pending # None /\ chain'.pending.proposedAt = now
      /\ \A t \in Int : t <= now /\ OnTime(t) => OnTime(t)'
  BY StaysOnTime, LoopAssumption DEF Typed, World, Carried, Timely
<1>1. CASE tick' = TickIdle
  BY <1>1 DEF TickIdle, TickOnTime
<1>2. CASE tick' = tick /\ tick.pc = "step"
  <2>1. tick.snap.at \in Int
    BY <1>0, <1>2 DEF Typed, Carried, Ticks, Seen
  <2>2. now' <= tick.snap.at + Lag
    <3>1. CASE now' = now
      BY <1>0, <1>2, <3>1 DEF TickOnTime
    <3>2. CASE Advance
      BY <1>0, <1>2, <2>1, <3>2 DEF Advance
    <3>. QED
      BY <3>1, <3>2
  <2>3. /\ tick.snap.at <= now
        /\ \/ tick.snap.header = chain.pending
           \/ chain.pending = None
           \/ chain.pending.proposedAt >= tick.snap.at
    BY <1>2 DEF Timely, TickOnTime
  <2>4. \/ tick.snap.header = chain'.pending
        \/ chain'.pending = None
        \/ chain'.pending.proposedAt >= tick.snap.at
    BY <1>0, <2>3
  <2>. QED
    BY <1>0, <1>2, <2>1, <2>2, <2>3, <2>4 DEF TickOnTime
<1>3. CASE tick' = tick /\ tick.pc \in {"send", "retry"}
  <2>1. tick.at \in Int /\ tick.signed \in Int
    BY <1>3 DEF Typed, Carried, TickSends
  <2>2. tick.sends \in 1..MaxSends /\ tick.at <= now /\ OnTime(tick.at)
    BY <1>3 DEF Timely, TickOnTime
  <2>3. OnTime(tick.at)'
    BY <1>0, <1>3, <2>1, <2>2 DEF OnTime
  <2>4. CASE now' = now
    BY <1>0, <1>3, <2>1, <2>2, <2>3, <2>4 DEF TickOnTime
  <2>5. CASE Advance
    <3>1. tick.pc = "send" /\ now' = now + 1 /\ now <= tick.signed + Lifetime
      BY <1>3, <2>5 DEF Advance
    <3>2. now' <= tick.signed + Lifetime + 1 /\ tick.at <= now'
      BY <1>0, <2>1, <2>2, <3>1
    <3>. QED
      BY <1>0, <1>3, <2>2, <2>3, <3>1, <3>2 DEF TickOnTime
  <2>. QED
    BY <2>4, <2>5
<1>4. CASE tick' = tick /\ tick.pc \notin {"step", "send", "retry"}
  BY <1>4 DEF TickOnTime
<1>. QED
  BY <1>1, <1>2, <1>3, <1>4

\* The requests in flight, whoever takes the step.
LEMMA ReqsTimely ==
  ASSUME Typed, Typed', Timely, [Next]_vars
  PROVE  \A c \in Clients : ReqOnTime(c)'
<1>0. /\ now \in Int /\ now' \in Int /\ now' >= now
      /\ \A t \in Int : t <= now /\ OnTime(t) => OnTime(t)'
      /\ req \in [Clients -> Reqs] /\ req' \in [Clients -> Reqs]
  BY StaysOnTime DEF Typed, World, Carried
<1>1. ASSUME NEW c \in Clients, req'[c] = req[c]
      PROVE  ReqOnTime(c)'
  <2>1. /\ req[c].pc # "idle" => req[c].at \in Int /\ req[c].at <= now
        /\ req[c].pc = "send" /\ req[c].verb = "apply" => OnTime(req[c].at)
    BY DEF Typed, Carried, Timely, ReqOnTime
  <2>2. req[c].pc = "send" /\ req[c].verb = "apply" => OnTime(req[c].at)'
    BY <1>0, <1>1, <2>1 DEF OnTime
  <2>. QED
    BY <1>0, <1>1, <2>1, <2>2 DEF ReqOnTime
<1>2. ASSUME NEW c \in Clients, req'[c].pc = "idle"
      PROVE  ReqOnTime(c)'
  BY <1>2 DEF ReqOnTime
<1>3. ASSUME NEW c \in Clients, NEW verb, NEW targets, Sending(c, verb, targets),
             now' = now, verb = "apply" => OnTime(now)'
      PROVE  ReqOnTime(c)'
  <2>1. /\ req'[c].pc = "send" /\ req'[c].at = now /\ req'[c].verb = verb
    BY <1>0, <1>3 DEF Sending
  <2>. QED
    BY <1>0, <1>3, <2>1 DEF ReqOnTime, OnTime
<1>4. ASSUME NEW c \in Clients, NEW d \in Clients, VerbNext(d)
      PROVE  ReqOnTime(c)'
  <2>1. CASE c # d
    <3>1. req'[c] = req[c]
      BY <1>0, <1>4, <2>1 DEF VerbNext, Propose, ProposeLand, ProposeDone, Cancel, CancelLand, CancelDone,
         Apply, ApplyTooLate, ApplyLand, ApplyDone, RequestFails, Sending, Landed, Answered
    <3>. QED
      BY <1>1, <3>1
  <2>2. CASE c = d
    <3>1. ASSUME Answered(c) \/ (Landed(c) /\ req[c].pc = "send") PROVE ReqOnTime(c)'
      <4>1. CASE Answered(c)
        <5>1. req'[c].pc = "idle"
          BY <1>0, <4>1 DEF Answered, ReqIdle
        <5>. QED
          BY <1>2, <5>1
      <4>2. CASE Landed(c) /\ req[c].pc = "send"
        <5>1. req'[c].pc = "landed" /\ req'[c].at = req[c].at
          BY <1>0, <4>2 DEF Landed, Reqs
        <5>2. req[c].at \in Int /\ req[c].at <= now
          BY <4>2 DEF Typed, Carried, Timely, ReqOnTime
        <5>. QED
          BY <1>0, <5>1, <5>2 DEF ReqOnTime
      <4>. QED
        BY <3>1, <4>1, <4>2
    <3>2. ASSUME NEW targets, Propose(c, targets) PROVE ReqOnTime(c)'
      BY <1>3, <3>2 DEF Propose
    <3>3. CASE Cancel(c)
      BY <1>3, <3>3 DEF Cancel
    <3>4. CASE Apply(c)
      <4>1. PICK snap \in Snapshots : BlockersOf(snap) = <<>>
        BY <3>4 DEF Apply
      <4>2. snap \in Seen /\ snap.header = chain.pending /\ snap.at = now
        BY SnapshotsSeen DEF Snapshots, Typed
      <4>3. chain.pending # None => chain.pending.effectiveAt \in Int
        BY DEF Typed, World, Changes
      <4>4. InWindow(now, chain.pending)
        BY <1>0, <4>1, <4>2, <4>3, Judged, PolicyAssumption DEF InWindow
      <4>. QED
        BY <1>3, <3>4, <4>4 DEF Apply, OnTime
    <3>5. CASE ApplyTooLate(c)
      BY <1>1, <3>5 DEF ApplyTooLate
    <3>. QED
      BY <1>4, <2>2, <3>1, <3>2, <3>3, <3>4, <3>5 DEF VerbNext, ProposeLand, ProposeDone, CancelLand,
         CancelDone, ApplyLand, ApplyDone, RequestFails, InFlight
  <2>. QED
    BY <2>1, <2>2
<1>5. CASE Crash
  <2>1. \A c \in Clients : req'[c].pc = "idle"
    BY <1>5 DEF Crash, ReqIdle
  <2>. QED
    BY <1>2, <2>1
<1>6. CASE LoopNext \/ (WorldNext /\ ~Crash) \/ UNCHANGED vars
  <2>1. req' = req
    BY <1>6 DEF LoopNext, TickRead, TickHeld, TickStep, TickRefresh, SendLand, SendExpired, SendRetry,
       SendConfirmed, SendUnanswered, SendFails, Outcome, WorldNext, Advance, Index, WorldTurns,
       HoldChanges, StrangerApplies, OutsideProposes, OutsideCancels, vars
  <2>. QED
    BY <1>1, <2>1
<1>. QED
  BY <1>4, <1>5, <1>6 DEF Next

LEMMA TimelyStep ==
  ASSUME Typed, Typed', Timely, [Next]_vars
  PROVE  Timely'
<1>1. ASSUME LoopNext PROVE TickOnTime'
  BY <1>1, LoopTimely
<1>2. ASSUME NEW c \in Clients, VerbNext(c) PROVE now' = now /\ tick' = tick
  BY <1>2 DEF VerbNext, Propose, ProposeLand, ProposeDone, Cancel, CancelLand, CancelDone,
     Apply, ApplyTooLate, ApplyLand, ApplyDone, RequestFails
<1>3. ASSUME WorldNext \/ UNCHANGED vars PROVE TickOnTime'
  <2>1. (tick' = tick \/ tick' = TickIdle) /\ (now' = now \/ Advance)
    BY <1>3 DEF WorldNext, Advance, Index, WorldTurns, HoldChanges, StrangerApplies,
       OutsideProposes, OutsideCancels, Crash, vars
  <2>. QED
    BY <2>1, ElseTimely
<1>4. TickOnTime'
  BY <1>1, <1>2, <1>3, ElseTimely DEF Next
<1>. QED
  BY <1>4, ReqsTimely, StaysOnTime DEF Timely

LEMMA AlwaysTimely == Spec => [](Typed /\ Timely)
<1>1. Init => Typed /\ Timely
  BY TypedInit, TimelyInit
<1>2. Typed /\ Timely /\ [Next]_vars => (Typed /\ Timely)'
  BY TypedStep, TimelyStep
<1>. QED
  BY <1>1, <1>2, PTL DEF Spec

\* A send that was judged at time t and lands before a notice has passed since
\* lands in the window of the change it meets.
LEMMA LandsInWindow ==
  ASSUME Typed, Timely, Appliable, NEW t \in Int, OnTime(t), now < t + Notice
  PROVE  InWindow(t, chain.pending)
<1>1. /\ chain.pending # None /\ now >= chain.pending.effectiveAt
      /\ chain.pending.effectiveAt = chain.pending.proposedAt + Notice
  BY DEF Appliable, Timely, Dated
<1>2. now \in Int /\ chain.pending.proposedAt \in Int /\ Notice \in Nat
  BY <1>1, LoopAssumption DEF Typed, World, Changes
<1>. QED
  BY <1>1, <1>2 DEF OnTime

\* No send of this signer executes a change outside the window its gates judged:
\* not after a backoff, not when the change was replaced by another meanwhile,
\* whatever the notice, the window, the lifetime of a transaction and the number
\* of sends of a tick, as long as these sends are over within one notice.
THEOREM SendsLandAsGated == Spec => LandsAsGated
<1>. DEFINE Lands ==
       /\ SendLand => tick.at \in chain.pending.effectiveAt..(chain.pending.effectiveAt + Window)
       /\ \A c \in Clients : ApplyLand(c) =>
            req[c].at \in chain.pending.effectiveAt..(chain.pending.effectiveAt + Window)
<1>1. ASSUME Typed, Timely PROVE Lands
  <2>0. /\ now \in Int /\ Lag \in Nat /\ Lifetime \in Nat /\ Notice \in Nat
        /\ MaxSends \in Nat \ {0}
    BY <1>1, LoopAssumption DEF Typed, World
  <2>1. ASSUME SendLand
        PROVE  tick.at \in chain.pending.effectiveAt..(chain.pending.effectiveAt + Window)
    <3>1. /\ tick.at \in Int /\ tick.signed \in Int /\ now <= tick.signed + Lifetime
          /\ tick.sends \in 1..MaxSends /\ OnTime(tick.at)
          /\ tick.signed <= tick.at + Lag + Spent(tick.sends - 1)
      BY <1>1, <2>1 DEF SendLand, Typed, Carried, TickSends, Timely, TickOnTime
    <3>2. /\ Spent(tick.sends) = Spent(tick.sends - 1) + Lifetime + 1
          /\ Lag + Spent(tick.sends) <= Notice /\ Spent(tick.sends - 1) \in Nat
      BY <3>1, SpentBounds
    <3>3. now < tick.at + Notice
      BY <2>0, <3>1, <3>2
    <3>. QED
      BY <1>1, <2>1, <3>1, <3>3, LandsInWindow DEF SendLand, InWindow
  <2>2. ASSUME NEW c \in Clients, ApplyLand(c)
        PROVE  req[c].at \in chain.pending.effectiveAt..(chain.pending.effectiveAt + Window)
    <3>1. req[c].at \in Int /\ now <= req[c].at + Lifetime /\ OnTime(req[c].at)
      BY <1>1, <2>2 DEF ApplyLand, InFlight, Typed, Carried, Timely, ReqOnTime
    <3>2. Lifetime + 1 <= Notice
      <4>1. 1 \in 1..MaxSends
        BY <2>0
      <4>2. /\ Spent(1) = Spent(1 - 1) + Lifetime + 1 /\ Spent(1 - 1) \in Nat
            /\ Lag + Spent(1) <= Notice
        BY <4>1, SpentBounds
      <4>. QED
        BY <2>0, <4>2
    <3>3. now < req[c].at + Notice
      BY <2>0, <3>1, <3>2
    <3>. QED
      BY <1>1, <2>2, <3>1, <3>3, LandsInWindow DEF ApplyLand, InWindow
  <2>. QED
    BY <2>1, <2>2
<1>. HIDE DEF Lands
<1>2. Spec => [][Lands]_vars
  BY <1>1, AlwaysTimely, PTL
<1>. QED
  BY <1>2 DEF Lands, LandsAsGated

(***************************************************************************)
(* The machine and the change it stands on, when the api's row keeps up    *)
(* with the chain: its timing is that of a change, and once done with one  *)
(* the chain carries that change's targets or has rebalanced since.        *)
(***************************************************************************)
Standing(s, by) ==
  /\ s.proposedAt # None => s.effectiveAt = s.proposedAt + Notice /\ s.proposedAt <= by
  /\ s.effectiveAt # None => s.proposedAt # None /\ s.targets # None

MovedFor(s) == chain.targets = s.targets \/ chain.lastRebalanceAt >= s.proposedAt

\* A snapshot whose row shows what the chain shows.
Consistent(snap) ==
  /\ snap.row # None
  /\ snap.row.pending = snap.header
  /\ snap.header # None => Dated(snap.header, snap.at)

Followed ==
  /\ row = Indexed(chain)
  /\ chain.lastRebalanceAt <= now
  /\ chain.pending # None => chain.pending.proposedAt >= chain.lastRebalanceAt + Notice
  /\ tick.pc = "step" =>
       /\ Consistent(tick.snap)
       /\ tick.snap.header = None => chain.targets = tick.snap.row.targets
       /\ tick.snap.lastRebalanceAt <= chain.lastRebalanceAt
  /\ Standing(m, now)
  /\ m.state = "DONE" /\ m.proposedAt # None => MovedFor(m)

\* What a tick hands the machine of such a snapshot.
LEMMA GateConsistent ==
  ASSUME NEW snap \in Seen, Consistent(snap), NEW s
  PROVE  LET gate == GateOf(snap, s)
         IN  /\ gate.currentTargets = snap.row.targets
             /\ gate.currentTargets # None
             /\ gate.lastRebalanceAt = snap.lastRebalanceAt
             /\ snap.header = None => gate.pending = None
             /\ snap.header # None =>
                  /\ gate.pending # None
                  /\ gate.pending.effectiveAt = snap.header.effectiveAt
                  /\ gate.pending.proposedAt = snap.header.proposedAt
                  /\ gate.pending.targets = snap.header.targets
                  /\ gate.pending.targets # None
<1>1. RowPending(snap) = snap.header
  BY DEF Consistent, RowPending
<1>2. snap.row.targets \in TargetSets /\ (snap.header # None => snap.header.targets \in TargetSets)
  BY DEF Seen, Rows, Changes, Consistent
<1>3. PendingOf(snap) \in {None} \union Pendings /\ (snap.header # None => PendingOf(snap) # None)
  BY PendingTyped, NullAssumption
<1>4. /\ snap.header = None => PendingOf(snap) = None
      /\ snap.header # None =>
           PendingOf(snap) = [effectiveAt |-> snap.header.effectiveAt,
                              proposedAt |-> snap.header.proposedAt, targets |-> snap.header.targets]
  BY <1>1 DEF PendingOf, Orelse
<1>5. CurrentTargetsOf(snap) = snap.row.targets
  BY DEF CurrentTargetsOf, Consistent
<1>6. /\ GateOf(snap, s).pending = PendingOf(snap)
      /\ GateOf(snap, s).currentTargets = CurrentTargetsOf(snap)
      /\ GateOf(snap, s).lastRebalanceAt = snap.lastRebalanceAt
  BY DEF GateOf
<1>. QED
  BY <1>2, <1>3, <1>4, <1>5, <1>6, NullAssumption

LEMMA FollowingStands ==
  ASSUME NEW s, Sound(s), NEW pending \in Pendings, NEW at \in Int, NEW by \in Int,
         Standing(s, by), Dated(pending, by), pending.targets # None
  PROVE  Standing(Following(s, pending, at), by)
<1>1. pending.effectiveAt \in Int /\ pending.proposedAt \in Int
  BY DEF Pendings
<1>2. CASE Rearms(s, pending)
  <2>. DEFINE t == Rearmed(s, pending, at)
  <2>1. /\ t.effectiveAt = pending.effectiveAt /\ t.proposedAt = pending.proposedAt
        /\ t.targets = pending.targets
    BY <1>1, NoneAssumption DEF Rearmed, InitialApply, Orelse
  <2>2. Following(s, pending, at) = t
    BY <1>2 DEF Following
  <2>. HIDE DEF t
  <2>. QED
    BY <1>1, <2>1, <2>2, NoneAssumption DEF Standing, Dated
<1>3. CASE ~Rearms(s, pending)
  <2>1. s.targets # None
    BY <1>3 DEF Rearms, SameTargets
  <2>2. CASE s.effectiveAt # pending.effectiveAt
    <3>. DEFINE t == [s EXCEPT !.effectiveAt = pending.effectiveAt,
                               !.proposedAt  = Orelse(pending.proposedAt, s.proposedAt)]
    <3>1. /\ t.effectiveAt = pending.effectiveAt /\ t.proposedAt = pending.proposedAt
          /\ t.targets = s.targets
      BY <1>1, NoneAssumption DEF Orelse, Sound, Machines
    <3>2. Following(s, pending, at) = t
      BY <1>3, <2>2 DEF Following
    <3>. HIDE DEF t
    <3>. QED
      BY <1>1, <2>1, <3>1, <3>2, NoneAssumption DEF Standing, Dated
  <2>3. CASE s.effectiveAt = pending.effectiveAt
    BY <1>3, <2>3 DEF Following
  <2>. QED
    BY <2>2, <2>3
<1>. QED
  BY <1>2, <1>3

\* A tick on a consistent snapshot.
LEMMA TickFollows ==
  ASSUME NEW snap \in Seen, Consistent(snap), NEW s, Sound(s), NEW by \in Int, snap.at <= by,
         Standing(s, by)
  PROVE  LET t == StepApply(s, GateOf(snap, s), snap.at).next
         IN  /\ Standing(t, by)
             /\ t.state = "DONE" =>
                  \/ t = s
                  \/ /\ snap.header = None /\ StandsOn(t, s)
                     /\ \/ s.targets = snap.row.targets
                        \/ s.proposedAt # None /\ snap.lastRebalanceAt >= s.proposedAt
<1>. DEFINE gate == GateOf(snap, s)
            t == StepApply(s, gate, snap.at).next
<1>1. gate \in Gates /\ snap.at \in Int
  BY GateTyped DEF Seen
<1>2. /\ gate.currentTargets = snap.row.targets /\ gate.currentTargets # None
      /\ gate.lastRebalanceAt = snap.lastRebalanceAt
      /\ snap.header = None => gate.pending = None
      /\ snap.header # None =>
           /\ gate.pending # None
           /\ gate.pending.effectiveAt = snap.header.effectiveAt
           /\ gate.pending.proposedAt = snap.header.proposedAt
           /\ gate.pending.targets = snap.header.targets
           /\ gate.pending.targets # None
  BY GateConsistent
<1>. HIDE DEF gate
<1>3. CASE snap.header # None
  <2>1. gate.pending \in Pendings /\ gate.pending # None /\ Dated(gate.pending, by)
    BY <1>1, <1>2, <1>3 DEF Gates, Pendings, Consistent, Dated
  <2>2. Standing(Following(s, gate.pending, snap.at), by)
    BY <1>1, <1>2, <1>3, <2>1, FollowingStands
  <2>3. t = StepPending(s, gate, snap.at).next
    BY <2>1 DEF StepApply
  <2>. HIDE DEF t
  <2>4. /\ StandsOn(t, Following(s, gate.pending, snap.at))
        /\ t.state = "DONE" => t = s
    BY <1>1, <2>1, <2>3, StepPendingSound
  <2>. QED
    BY <2>2, <2>4 DEF t, gate, Standing, StandsOn
<1>4. CASE snap.header = None
  <2>1. t = StepVanished(s, gate, snap.at).next
    BY <1>2, <1>4 DEF StepApply
  <2>. HIDE DEF t
  <2>2. /\ t.state # "IDLE" => StandsOn(t, s)
        /\ t.state = "IDLE" => t = s \/ t = InitialApply
        /\ t.state = "DONE" =>
             \/ s.targets # None /\ s.targets = gate.currentTargets
             \/ gate.currentTargets = None
             \/ s.proposedAt # None /\ gate.lastRebalanceAt >= s.proposedAt
    BY <1>1, <2>1, StepVanishedSound
  <2>3. Standing(InitialApply, by)
    BY DEF Standing, InitialApply
  <2>4. Standing(t, by)
    BY <2>2, <2>3 DEF Standing, StandsOn
  <2>. QED
    BY <1>2, <1>4, <2>2, <2>4 DEF t, gate
<1>. QED
  BY <1>3, <1>4

LEMMA FollowedInit == Init => Followed
<1>. SUFFICES ASSUME Init PROVE Followed
  OBVIOUS
<1>1. chain.pending = None /\ chain.lastRebalanceAt = -Notice /\ now = 0
  BY DEF Init
<1>2. tick.pc = "idle"
  BY DEF Init, TickIdle
<1>3. Standing(m, now) /\ m.state = "IDLE"
  BY DEF Init, InitialApply, Standing
<1>. QED
  BY <1>1, <1>2, <1>3, LoopAssumption DEF Init, Followed

LEMMA LagUnderNotice == Lag \in Nat /\ Notice \in Nat \ {0} /\ Lag < Notice
<1>1. 1 \in 1..MaxSends
  BY LoopAssumption
<1>2. Spent(1) = Spent(1 - 1) + Lifetime + 1 /\ Spent(1 - 1) \in Nat /\ Lag + Spent(1) <= Notice
  BY <1>1, SpentBounds
<1>. QED
  BY <1>2, LoopAssumption

\* The chain and its row, and what a machine at rest says of the chain.
LEMMA ChainFollowed ==
  ASSUME ~RowLags, Typed, Typed', Timely, Followed, [Next]_vars
  PROVE  /\ row' = Indexed(chain')
         /\ chain'.lastRebalanceAt <= now' /\ chain.lastRebalanceAt <= chain'.lastRebalanceAt
         /\ chain'.pending # None => chain'.pending.proposedAt >= chain'.lastRebalanceAt + Notice
         /\ chain'.targets = chain.targets \/ (Appliable /\ chain'.lastRebalanceAt = now)
         /\ now' >= now /\ now \in Int /\ now' \in Int
         /\ chain.lastRebalanceAt \in Int /\ chain'.lastRebalanceAt \in Int
<1>0. /\ now \in Int /\ now' \in Int /\ chain.lastRebalanceAt \in Int
      /\ chain'.lastRebalanceAt \in Int /\ Notice \in Nat
      /\ chain.pending # None => chain.pending.proposedAt \in Int
      /\ chain.lastRebalanceAt <= now
      /\ chain.pending # None => chain.pending.proposedAt >= chain.lastRebalanceAt + Notice
  BY LoopAssumption DEF Typed, World, Changes, Followed
<1>1. CASE UNCHANGED chain /\ now' \in {now, now + 1}
  <2>1. row' = Indexed(chain')
    <3>1. row' = row \/ row' = Indexed(chain) \/ row' = Indexed(chain')
      <4>1. CASE LoopNext
        BY <4>1 DEF LoopNext, TickRead, TickHeld, TickStep, TickRefresh, SendLand, SendExpired, SendRetry,
           SendConfirmed, SendUnanswered, SendFails, Outcome, Applied, Becomes
      <4>2. ASSUME NEW c \in Clients, VerbNext(c)
            PROVE  row' = row \/ row' = Indexed(chain')
        BY <4>2 DEF VerbNext, Propose, ProposeLand, ProposeDone, Cancel, CancelLand, CancelDone,
           Apply, ApplyTooLate, ApplyLand, ApplyDone, RequestFails, Announce, Withdrawn, Applied, Becomes
      <4>3. CASE WorldNext
        BY <4>3 DEF WorldNext, Advance, Index, WorldTurns, HoldChanges, StrangerApplies, OutsideProposes,
           OutsideCancels, Crash, Announce, Withdrawn, Applied, Becomes
      <4>4. CASE UNCHANGED vars
        BY <4>4 DEF vars
      <4>. QED
        BY <4>1, <4>2, <4>3, <4>4 DEF Next
    <3>. QED
      BY <1>1, <3>1 DEF Followed
  <2>. QED
    BY <1>0, <1>1, <2>1
<1>2. CASE now' = now /\ ChainStep
  <2>1. row' = Indexed(chain')
    BY <1>2 DEF ChainStep, Announce, Withdrawn, Applied, Becomes
  <2>2. CASE \E targets \in TargetSets : Proposable /\ Announce(targets)
    <3>1. PICK targets \in TargetSets :
            Proposable /\ chain' = [chain EXCEPT !.pending = Change(targets, now)]
      BY <2>2 DEF Announce, Becomes
    <3>2. /\ chain'.pending.proposedAt = now /\ chain'.targets = chain.targets
          /\ chain'.lastRebalanceAt = chain.lastRebalanceAt
      BY <3>1 DEF Change, Typed, World
    <3>3. now - chain.lastRebalanceAt >= Notice
      BY <3>1 DEF Proposable
    <3>. QED
      BY <1>0, <1>2, <2>1, <3>2, <3>3
  <2>3. CASE Withdrawn
    <3>1. /\ chain'.pending = None /\ chain'.targets = chain.targets
          /\ chain'.lastRebalanceAt = chain.lastRebalanceAt
      BY <2>3 DEF Withdrawn, Becomes, Typed, World
    <3>. QED
      BY <1>0, <1>2, <2>1, <3>1
  <2>4. CASE Appliable /\ Applied
    <3>1. chain'.pending = None /\ chain'.lastRebalanceAt = now
      BY <2>4 DEF Applied, Becomes
    <3>. QED
      BY <1>0, <1>2, <2>1, <2>4, <3>1
  <2>. QED
    BY <1>2, <2>2, <2>3, <2>4 DEF ChainStep
<1>. QED
  BY <1>1, <1>2, ChainSteps

\* While a tick that saw nothing pending waits to step, no change can be applied.
LEMMA SnapshotFollowed ==
  ASSUME ~RowLags, ~RowFails, Typed, Typed', Timely, Followed, [Next]_vars, tick'.pc = "step"
  PROVE  /\ Consistent(tick'.snap)
         /\ tick'.snap.header = None => chain'.targets = tick'.snap.row.targets
         /\ tick'.snap.lastRebalanceAt <= chain'.lastRebalanceAt
<1>0. tick'.snap \in Seen /\ tick'.snap.lastRebalanceAt \in Int
  BY DEF Typed, Carried, Ticks, Seen
<1>1. CASE TickRead
  <2>1. PICK snap \in Snapshots : tick' = [TickIdle EXCEPT !.pc = "step", !.snap = snap]
    BY <1>1 DEF TickRead
  <2>2. tick'.snap = snap
    BY <2>1 DEF TickIdle
  <2>3. /\ snap.at = now /\ snap.header = chain.pending /\ snap.row = row
        /\ snap.lastRebalanceAt = chain.lastRebalanceAt
    BY DEF Snapshots
  <2>4. row # None /\ row.pending = chain.pending /\ row.targets = chain.targets
    <3>1. row # None
      BY NullAssumption DEF Typed, World
    <3>. QED
      BY <3>1 DEF Followed, Indexed
  <2>5. chain.lastRebalanceAt \in Int /\ chain' = chain
    BY <1>1 DEF TickRead, Typed, World
  <2>. QED
    BY <2>2, <2>3, <2>4, <2>5 DEF Consistent, Timely
<1>2. CASE tick' = tick
  <2>1. /\ chain.lastRebalanceAt <= chain'.lastRebalanceAt
        /\ chain'.targets = chain.targets \/ Appliable
        /\ chain.lastRebalanceAt \in Int /\ chain'.lastRebalanceAt \in Int /\ now \in Int
    BY ChainFollowed
  <2>2. /\ Consistent(tick.snap) /\ tick.snap.lastRebalanceAt <= chain.lastRebalanceAt
        /\ tick.snap.header = None => chain.targets = tick.snap.row.targets
    BY <1>2 DEF Followed
  <2>3. ASSUME tick.snap.header = None, Appliable PROVE FALSE
    <3>1. /\ now <= tick.snap.at + Lag /\ tick.snap.at \in Int
          /\ chain.pending.proposedAt >= tick.snap.at /\ chain.pending # None
          /\ chain.pending.proposedAt \in Int
          /\ chain.pending.effectiveAt = chain.pending.proposedAt + Notice
          /\ now >= chain.pending.effectiveAt
      BY <1>2, <2>3 DEF Appliable, Timely, TickOnTime, Dated, Typed, World, Carried, Ticks, Seen, Changes
    <3>. QED
      BY <2>1, <3>1, LagUnderNotice
  <2>. QED
    BY <1>0, <1>2, <2>1, <2>2, <2>3
<1>3. tick' = tick \/ TickRead
  <2>1. CASE LoopNext
    <3>1. TickIdle.pc = "idle"
      BY DEF TickIdle
    <3>2. ASSUME TickStep PROVE FALSE
      <4>1. tick'.pc \in {"send", "refresh", "idle"}
        BY <3>2 DEF TickStep, TickIdle
      <4>. QED
        BY <4>1
    <3>3. ASSUME SendLand \/ SendExpired \/ (SendRetry /\ hold = "none") PROVE FALSE
      <4>1. tick'.pc \in {"landed", "retry", "send"}
        BY <3>3 DEF SendLand, SendExpired, SendRetry, Typed, Carried, Ticks
      <4>. QED
        BY <4>1
    <3>. QED
      BY <2>1, <3>1, <3>2, <3>3 DEF LoopNext, TickHeld, TickRefresh, SendRetry,
         SendConfirmed, SendUnanswered, SendFails, Outcome
  <2>2. CASE \E c \in Clients : VerbNext(c)
    BY <2>2 DEF VerbNext, Propose, ProposeLand, ProposeDone, Cancel, CancelLand, CancelDone,
       Apply, ApplyTooLate, ApplyLand, ApplyDone, RequestFails
  <2>3. CASE WorldNext \/ UNCHANGED vars
    <3>1. TickIdle.pc # "step"
      BY DEF TickIdle
    <3>. QED
      BY <2>3, <3>1 DEF WorldNext, Advance, Index, WorldTurns, HoldChanges, StrangerApplies,
         OutsideProposes, OutsideCancels, Crash, vars
  <2>. QED
    BY <2>1, <2>2, <2>3 DEF Next
<1>. QED
  BY <1>1, <1>2, <1>3

\* The next machine is the same, a fresh one, or comes from one step of it.
MachineStep ==
  \/ m' = m
  \/ m' = InitialApply
  \/ TickStep
  \/ \E ok \in BOOLEAN, code \in {None} \union BlockerCodes \union {"PAUSED", "SELF_LOCKED"} :
       (ok \/ code \in BlockerCodes \union {"PAUSED", "SELF_LOCKED"}) /\ TickSends /\ Outcome(ok, code)
  \/ \E c \in Clients : ProposeDone(c) \/ ApplyTooLate(c) \/ ApplyDone(c)

LEMMA MachineSteps == [Next]_vars => MachineStep
<1>1. CASE LoopNext
  <2>1. ASSUME NEW ok \in BOOLEAN, NEW code \in {None} \union BlockerCodes \union {"PAUSED", "SELF_LOCKED"},
               ok \/ code \in BlockerCodes \union {"PAUSED", "SELF_LOCKED"}, TickSends, Outcome(ok, code)
        PROVE  MachineStep
    BY <2>1 DEF MachineStep
  <2>3. CASE SendRetry
    <3>1. CASE hold = "none"
      BY <2>3, <3>1 DEF SendRetry, MachineStep
    <3>2. CASE hold # "none"
      BY <2>1, <2>3, <3>2 DEF SendRetry, TickSends
    <3>. QED
      BY <3>1, <3>2
  <2>4. CASE SendConfirmed
    BY <2>1, <2>4 DEF SendConfirmed, TickSends
  <2>5. CASE SendUnanswered
    BY <2>1, <2>5 DEF SendUnanswered, TickSends, BlockerCodes
  <2>6. CASE SendFails
    BY <2>1, <2>6 DEF SendFails, TickSends, BlockerCodes
  <2>. QED
    BY <1>1, <2>3, <2>4, <2>5, <2>6 DEF LoopNext, TickRead, TickHeld, TickRefresh, SendLand, SendExpired,
       MachineStep
<1>2. ASSUME NEW c \in Clients, VerbNext(c) PROVE MachineStep
  BY <1>2 DEF VerbNext, Propose, ProposeLand, Cancel, CancelLand, CancelDone, Apply,
     ApplyLand, RequestFails, MachineStep
<1>3. CASE WorldNext
  BY <1>3 DEF WorldNext, Advance, Index, WorldTurns, HoldChanges, StrangerApplies,
     OutsideProposes, OutsideCancels, Crash, MachineStep
<1>4. CASE UNCHANGED vars
  BY <1>4 DEF vars, MachineStep
<1>. QED
  BY <1>1, <1>2, <1>3, <1>4 DEF Next

LEMMA MachineFollowed ==
  ASSUME ~RowLags, ~RowFails, Typed, Typed', Timely, Followed, [Next]_vars
  PROVE  /\ Standing(m', now')
         /\ m'.state = "DONE" /\ m'.proposedAt # None => MovedFor(m)'
<1>0. /\ chain.lastRebalanceAt <= chain'.lastRebalanceAt
      /\ chain'.targets = chain.targets \/ chain'.lastRebalanceAt = now
      /\ chain.lastRebalanceAt \in Int /\ chain'.lastRebalanceAt \in Int
      /\ now' >= now /\ now \in Int /\ now' \in Int /\ Notice \in Nat
      /\ Standing(m, now) /\ Sound(m) /\ m \in Machines /\ m' \in Machines
      /\ m.state = "DONE" /\ m.proposedAt # None => MovedFor(m)
  BY ChainFollowed, LoopAssumption DEF Followed, Typed, Sound
<1>1. ASSUME NEW s \in Machines, Standing(s, now)
      PROVE  /\ Standing(s, now')
             /\ s.proposedAt # None /\ MovedFor(s) =>
                  chain'.targets = s.targets \/ chain'.lastRebalanceAt >= s.proposedAt
  <2>1. s.proposedAt # None => s.proposedAt \in Int
    BY DEF Machines
  <2>. QED
    BY <1>0, <1>1, <2>1 DEF Standing, MovedFor
<1>2. CASE m' = m
  BY <1>0, <1>1, <1>2 DEF MovedFor
<1>3. CASE m' = InitialApply
  BY <1>3 DEF InitialApply, Standing
<1>4. CASE TickStep
  <2>. DEFINE t == StepApply(m, GateOf(tick.snap, m), tick.snap.at).next
  <2>1. /\ tick.snap \in Seen /\ Consistent(tick.snap) /\ tick.snap.at \in Int
        /\ tick.snap.at <= now /\ m' = t /\ now' = now /\ chain' = chain
        /\ tick.snap.header = None => chain.targets = tick.snap.row.targets
        /\ tick.snap.lastRebalanceAt <= chain.lastRebalanceAt
        /\ tick.snap.lastRebalanceAt \in Int
    BY <1>4 DEF TickStep, Typed, Carried, Ticks, Timely, TickOnTime, Followed, Seen
  <2>2. /\ Standing(t, now)
        /\ t.state = "DONE" =>
             \/ t = m
             \/ /\ tick.snap.header = None /\ StandsOn(t, m)
                /\ \/ m.targets = tick.snap.row.targets
                   \/ m.proposedAt # None /\ tick.snap.lastRebalanceAt >= m.proposedAt
    BY <1>0, <2>1, TickFollows
  <2>. HIDE DEF t
  <2>3. m.proposedAt # None => m.proposedAt \in Int
    BY <1>0 DEF Machines
  <2>. QED
    BY <1>0, <2>1, <2>2, <2>3 DEF StandsOn, MovedFor
<1>5. ASSUME NEW ok \in BOOLEAN, NEW code, ok \/ code \in BlockerCodes \union {"PAUSED", "SELF_LOCKED"},
             TickSends, Outcome(ok, code)
      PROVE  /\ Standing(m', now')
             /\ m'.state = "DONE" /\ m'.proposedAt # None => MovedFor(m)'
  <2>1. m.sendFailures < FailedTicks /\ tick.at \in Int
    BY <1>5 DEF Typed, Carried
  <2>2. StandsOn(m', m) /\ (m'.state \in {"IDLE", "DONE"} => m'.state = m.state)
    BY <1>0, <1>5, <2>1, OutcomeSound DEF Outcome
  <2>3. now' = now /\ chain' = chain
    BY <1>5 DEF Outcome
  <2>. QED
    BY <1>0, <2>2, <2>3 DEF StandsOn, Standing, MovedFor
<1>6. ASSUME NEW c \in Clients, ProposeDone(c)
      PROVE  Standing(m', now') /\ m'.state # "DONE"
  <2>1. /\ m'.state = "ARMED" /\ m'.effectiveAt = req[c].at + Notice /\ m'.targets = req[c].targets
        /\ m'.proposedAt = req[c].at /\ now' = now
    BY <1>6 DEF ProposeDone, InitialApply
  <2>2. req[c].at \in Int /\ req[c].at <= now /\ req[c].targets \in TargetSets
    BY <1>6 DEF ProposeDone, HasLanded, Typed, Carried, Timely, ReqOnTime
  <2>. QED
    BY <2>1, <2>2, NullAssumption, NoneAssumption DEF Standing
<1>7. ASSUME NEW c \in Clients, ApplyTooLate(c)
      PROVE  /\ Standing(m', now')
             /\ m'.state = "DONE" /\ m'.proposedAt # None => MovedFor(m)'
  <2>1. PICK snap \in Snapshots :
          \/ /\ AppliedVerdict(m, snap) = "done"
             /\ m' = [m EXCEPT !.state = "DONE"]
          \/ m' = [m EXCEPT !.state = "ESCALATED",
                            !.lastBlocker = Blocker("APPLIED_MISMATCH", now)]
    BY <1>7 DEF ApplyTooLate
  <2>2. now' = now /\ chain' = chain
    BY <1>7 DEF ApplyTooLate
  <2>3. StandsOn(m', m)
    BY <1>0, <2>1 DEF Machines, StandsOn
  <2>4. CASE AppliedVerdict(m, snap) = "done"
    <3>1. CurrentTargetsOf(snap) = m.targets /\ m.targets # None
      BY <2>4 DEF AppliedVerdict
    <3>2. snap.row = Indexed(chain)
      BY DEF Snapshots, Followed
    <3>3. chain.targets = m.targets
      BY <3>1, <3>2 DEF CurrentTargetsOf, Indexed
    <3>. QED
      BY <1>0, <2>2, <2>3, <3>3 DEF Standing, StandsOn, MovedFor
  <2>5. CASE m' = [m EXCEPT !.state = "ESCALATED",
                            !.lastBlocker = Blocker("APPLIED_MISMATCH", now)]
    <3>1. m'.state = "ESCALATED"
      BY <1>0, <2>5 DEF Machines
    <3>. QED
      BY <1>0, <2>2, <2>3, <3>1 DEF Standing, StandsOn
  <2>. QED
    BY <2>1, <2>4, <2>5
<1>8. ASSUME NEW c \in Clients, ApplyDone(c)
      PROVE  Standing(m', now') /\ m'.state # "DONE"
  <2>1. m'.state = "CONFIRM" /\ StandsOn(m', m) /\ now' = now
    BY <1>0, <1>8 DEF ApplyDone, AfterSend, Machines, StandsOn
  <2>. QED
    BY <1>0, <2>1 DEF Standing, StandsOn
<1>. QED
  BY <1>2, <1>3, <1>4, <1>5, <1>6, <1>7, <1>8, MachineSteps DEF MachineStep

LEMMA FollowedStep ==
  ASSUME ~RowLags, ~RowFails, Typed, Typed', Timely, Followed, [Next]_vars
  PROVE  Followed'
BY ChainFollowed, SnapshotFollowed, MachineFollowed DEF Followed

LEMMA AlwaysFollowed ==
  ASSUME ~RowLags, ~RowFails
  PROVE  Spec => [](Typed /\ Timely /\ Followed)
<1>1. Init => Typed /\ Timely /\ Followed
  BY TypedInit, TimelyInit, FollowedInit
<1>2. Typed /\ Timely /\ Followed /\ [Next]_vars => (Typed /\ Timely /\ Followed)'
  BY TypedStep, TimelyStep, FollowedStep
<1>. QED
  BY <1>1, <1>2, PTL DEF Spec

\* As long as no snapshot misses the api's row and the row keeps up with the
\* chain, a tick never re-arms a machine that stands BLOCKED or ESCALATED on the
\* change that is pending: only a human, or another change, moves it on.
THEOREM OperatorIsAwaited ==
  ASSUME ~RowLags, ~RowFails
  PROVE  Spec => HeldForOperator
<1>. DEFINE Held_ ==
       /\ TickStep
       /\ m.state \in {"BLOCKED", "ESCALATED"}
       /\ tick.snap.header # None
       /\ tick.snap.header.effectiveAt = m.effectiveAt
       /\ m.targets \in {None, tick.snap.header.targets}
       => m'.state = m.state
<1>1. ASSUME Typed, Timely, Followed PROVE Held_
  <2>. SUFFICES ASSUME TickStep, m.state \in {"BLOCKED", "ESCALATED"}, tick.snap.header # None,
                       tick.snap.header.effectiveAt = m.effectiveAt,
                       m.targets \in {None, tick.snap.header.targets}
                PROVE  m'.state = m.state
    OBVIOUS
  <2>. DEFINE snap == tick.snap
              gate == GateOf(snap, m)
  <2>1. snap \in Seen /\ Consistent(snap) /\ Sound(m) /\ m \in Machines
    BY <1>1 DEF TickStep, Typed, Carried, Ticks, Followed, Sound
  <2>2. /\ gate.pending # None /\ gate.pending.effectiveAt = snap.header.effectiveAt
        /\ gate.pending.targets = snap.header.targets /\ gate.pending.targets # None
    BY <2>1, GateConsistent
  <2>3. gate \in Gates /\ snap.at \in Int
    BY <2>1, GateTyped DEF Seen
  <2>4. m.effectiveAt # None
    BY <2>1, NoneAssumption DEF Seen, Changes
  <2>5. m.targets = snap.header.targets
    BY <1>1, <2>4 DEF Followed, Standing
  <2>6. ~Rearms(m, gate.pending)
    BY <2>2, <2>5 DEF Rearms, SameTargets
  <2>7. m' = StepPending(m, gate, snap.at).next
    BY <2>2 DEF TickStep, StepApply
  <2>. HIDE DEF gate
  <2>. QED
    BY <2>1, <2>2, <2>3, <2>6, <2>7, StepPendingSound DEF Terminal
<1>. HIDE DEF Held_
<1>2. Spec => [][Held_]_vars
  BY <1>1, AlwaysFollowed, PTL
<1>. QED
  BY <1>2 DEF Held_, HeldForOperator

\* Under the same conditions a machine turns DONE only for a change the chain
\* carries or has rebalanced for.
THEOREM DoneIsMoved ==
  ASSUME ~RowLags, ~RowFails
  PROVE  Spec => DoneMeansMoved
<1>. DEFINE Done ==
       m.state # "DONE" /\ m'.state = "DONE" /\ m.proposedAt # None =>
         chain.targets = m.targets \/ chain.lastRebalanceAt >= m.proposedAt
<1>1. ASSUME Typed, Timely, Followed, [Next]_vars PROVE Done
  <2>. SUFFICES ASSUME m.state # "DONE", m'.state = "DONE", m.proposedAt # None
                PROVE  MovedFor(m)
    BY DEF MovedFor
  <2>0. Sound(m) /\ m \in Machines /\ m.proposedAt \in Int
    BY <1>1, NoneAssumption DEF Typed, Sound, Machines
  <2>1. m' # m /\ m' # InitialApply
    BY DEF InitialApply
  <2>2. CASE TickStep
    <3>. DEFINE t == StepApply(m, GateOf(tick.snap, m), tick.snap.at).next
    <3>1. /\ tick.snap \in Seen /\ Consistent(tick.snap) /\ tick.snap.at \in Int /\ now \in Int
          /\ tick.snap.at <= now /\ m' = t /\ Standing(m, now)
          /\ tick.snap.header = None => chain.targets = tick.snap.row.targets
          /\ tick.snap.lastRebalanceAt <= chain.lastRebalanceAt
          /\ tick.snap.lastRebalanceAt \in Int /\ chain.lastRebalanceAt \in Int
      BY <1>1, <2>2 DEF TickStep, Typed, World, Carried, Ticks, Timely, TickOnTime, Followed, Seen
    <3>2. t.state = "DONE" =>
            \/ t = m
            \/ /\ tick.snap.header = None /\ StandsOn(t, m)
               /\ \/ m.targets = tick.snap.row.targets
                  \/ m.proposedAt # None /\ tick.snap.lastRebalanceAt >= m.proposedAt
      BY <2>0, <3>1, TickFollows
    <3>. HIDE DEF t
    <3>. QED
      BY <2>0, <2>1, <3>1, <3>2 DEF MovedFor
  <2>3. ASSUME NEW ok \in BOOLEAN, NEW code, ok \/ code \in BlockerCodes \union {"PAUSED", "SELF_LOCKED"},
               TickSends, Outcome(ok, code)
        PROVE  FALSE
    <3>1. m.sendFailures < FailedTicks /\ tick.at \in Int
      BY <1>1, <2>3 DEF Typed, Carried
    <3>2. m'.state \in {"IDLE", "DONE"} => m'.state = m.state
      BY <2>0, <2>3, <3>1, OutcomeSound DEF Outcome
    <3>. QED
      BY <3>2
  <2>4. ASSUME NEW c \in Clients, ProposeDone(c) \/ ApplyDone(c) PROVE FALSE
    <3>1. m'.state \in {"ARMED", "CONFIRM"}
      BY <2>0, <2>4 DEF ProposeDone, ApplyDone, InitialApply, AfterSend, Machines
    <3>. QED
      BY <3>1
  <2>5. ASSUME NEW c \in Clients, ApplyTooLate(c) PROVE MovedFor(m)
    <3>1. PICK snap \in Snapshots :
            \/ AppliedVerdict(m, snap) = "done"
            \/ m' = [m EXCEPT !.state = "ESCALATED",
                              !.lastBlocker = Blocker("APPLIED_MISMATCH", now)]
      BY <2>5 DEF ApplyTooLate
    <3>2. AppliedVerdict(m, snap) = "done"
      <4>1. ASSUME m' = [m EXCEPT !.state = "ESCALATED",
                                  !.lastBlocker = Blocker("APPLIED_MISMATCH", now)]
            PROVE  FALSE
        <5>1. m'.state = "ESCALATED"
          BY <2>0, <4>1 DEF Machines
        <5>. QED
          BY <5>1
      <4>. QED
        BY <3>1, <4>1
    <3>3. CurrentTargetsOf(snap) = m.targets /\ m.targets # None
      BY <3>2 DEF AppliedVerdict
    <3>4. snap.row = Indexed(chain)
      BY <1>1 DEF Snapshots, Followed
    <3>. QED
      BY <3>3, <3>4 DEF CurrentTargetsOf, Indexed, MovedFor
  <2>. QED
    BY <1>1, <2>1, <2>2, <2>3, <2>4, <2>5, MachineSteps DEF MachineStep
<1>. HIDE DEF Done
<1>2. Spec => [][Done]_vars
  BY <1>1, AlwaysFollowed, PTL DEF Spec
<1>. QED
  BY <1>2 DEF Done, DoneMeansMoved

\* Whatever the row does: a tick on a snapshot that is still true leaves the
\* machine on the chain's own change, and at rest when nothing is pending.
LEMMA TickTracks ==
  ASSUME Typed, TickStep, tick.snap.header = chain.pending, tick.snap.row = Indexed(chain)
  PROVE  /\ chain.pending = None => m'.state \in {"IDLE", "DONE", "ESCALATED"}
         /\ chain.pending # None =>
              /\ m'.effectiveAt = chain.pending.effectiveAt
              /\ m'.targets = chain.pending.targets
              /\ m'.state # "IDLE"
              /\ m'.state = "DONE" =>
                   /\ m' = m /\ m.effectiveAt = chain.pending.effectiveAt
                   /\ m.targets = chain.pending.targets
<1>. DEFINE snap == tick.snap
            gate == GateOf(snap, m)
<1>1. snap \in Seen /\ Sound(m) /\ snap.row # None /\ snap.row.pending = snap.header
  <2>1. snap.row # None
    BY NullAssumption, IndexedTyped DEF Typed, World
  <2>. QED
    BY <2>1 DEF TickStep, Typed, Carried, Ticks, Indexed
<1>2. gate \in Gates /\ snap.at \in Int
  BY <1>1, GateTyped DEF Seen
<1>3. RowPending(snap) = chain.pending
  BY <1>1 DEF RowPending
<1>4. CASE chain.pending = None
  <2>1. gate.pending = None
    BY <1>3, <1>4 DEF GateOf, PendingOf, Orelse
  <2>2. m' = StepVanished(m, gate, snap.at).next
    BY <2>1 DEF TickStep, StepApply
  <2>. HIDE DEF gate
  <2>. QED
    BY <1>1, <1>2, <1>4, <2>2, StepVanishedSound
<1>5. CASE chain.pending # None
  <2>1. gate.pending = [effectiveAt |-> chain.pending.effectiveAt, proposedAt |-> chain.pending.proposedAt,
                        targets |-> chain.pending.targets]
    BY <1>3, <1>5 DEF GateOf, PendingOf, Orelse
  <2>2. gate.pending # None
    BY <1>1, <1>5, <2>1, PendingTyped, NullAssumption DEF GateOf
  <2>3. chain.pending.targets # None
    BY <1>5, NullAssumption DEF Typed, World, Changes
  <2>4. m' = StepPending(m, gate, snap.at).next
    BY <2>2 DEF TickStep, StepApply
  <2>. HIDE DEF gate
  <2>5. /\ m'.effectiveAt = gate.pending.effectiveAt
        /\ m'.targets = Orelse(gate.pending.targets, m.targets)
        /\ m'.state # "IDLE"
        /\ m'.state = "DONE" => m' = m /\ ~Rearms(m, gate.pending)
    BY <1>1, <1>2, <2>2, <2>4, StepPendingSound
  <2>. QED
    BY <1>5, <2>1, <2>3, <2>5 DEF Orelse
<1>. QED
  BY <1>4, <1>5

\* A tick on a current snapshot leaves the machine on the chain's own change, and
\* done with it only when the portfolio has those weights already.
THEOREM TicksTrackChain ==
  ASSUME ~RowLags, ~RowFails
  PROVE  Spec => TickTracksChain
<1>. DEFINE Tracks ==
       /\ TickStep
       /\ tick.snap.header = chain.pending
       /\ tick.snap.row = Indexed(chain)
       => IF chain.pending = None THEN m'.state \in {"IDLE", "DONE", "ESCALATED"}
          ELSE /\ m'.effectiveAt = chain.pending.effectiveAt
               /\ m'.targets = chain.pending.targets
               /\ m'.state # "IDLE"
               /\ m'.state = "DONE" => chain.pending.targets = chain.targets
<1>1. ASSUME Typed, Timely, Followed PROVE Tracks
  <2>. SUFFICES ASSUME TickStep, tick.snap.header = chain.pending, tick.snap.row = Indexed(chain),
                       chain.pending # None, m'.state = "DONE"
                PROVE  chain.pending.targets = chain.targets
    BY <1>1, TickTracks
  <2>1. m.state = "DONE" /\ m.effectiveAt = chain.pending.effectiveAt /\ m.targets = chain.pending.targets
    BY <1>1, TickTracks
  <2>2. /\ chain.pending.effectiveAt \in Int /\ chain.pending.proposedAt \in Int
        /\ chain.lastRebalanceAt \in Int
        /\ chain.pending.effectiveAt = chain.pending.proposedAt + Notice
        /\ chain.pending.proposedAt >= chain.lastRebalanceAt + Notice
    BY <1>1 DEF Typed, World, Changes, Timely, Dated, Followed
  <2>3. /\ m.proposedAt # None /\ m.effectiveAt = m.proposedAt + Notice /\ m.proposedAt \in Int
        /\ MovedFor(m)
    BY <1>1, <2>1, <2>2, NoneAssumption DEF Followed, Standing, Typed, Sound, Machines
  <2>4. ~(chain.lastRebalanceAt >= m.proposedAt)
    BY <2>1, <2>2, <2>3, LagUnderNotice
  <2>. QED
    BY <2>1, <2>3, <2>4 DEF MovedFor
<1>. HIDE DEF Tracks
<1>2. Spec => [][Tracks]_vars
  BY <1>1, AlwaysFollowed, PTL
<1>. QED
  BY <1>2 DEF Tracks, TickTracksChain
=============================================================================
