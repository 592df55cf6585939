------------------------------- MODULE Reviews -------------------------------
(***************************************************************************)
(* Reviews of the curator signer: GET /review (verbs.js review over        *)
(* metrics.js deriveReview), the operator request that wakes one, the      *)
(* state one review leaves to the next, and the journal both come back     *)
(* from after a restart.                                                   *)
(*                                                                         *)
(* After its snapshot a review runs to its end without an await, so it is  *)
(* one step.  The portfolio holds one asset, under its target or on it,    *)
(* with a risk tier; a snapshot may miss the api's rows.  Of the triggers  *)
(* those that read what is carried over are modelled.  A request is known  *)
(* by its number, which stands for its time.  A definition whose name ends *)
(* in _Mutant is the next one with a bug the code could have.              *)
(***************************************************************************)
EXTENDS JournalFile, FiniteSets

CONSTANTS
  None,        \* JavaScript's null
  Tiers,       \* risk tiers
  ApiFails,    \* may the api's rows be missing from a snapshot?
  LastDay, MaxAsks, MaxWritten,     \* bounds on days, requests, journal lines
  MaxFailures, MaxRestarts          \* bounds on failed appends and restarts

ASSUME ReviewsAssumption ==
  /\ Tiers \subseteq Nat \ {0} /\ Tiers # {} /\ None \notin Nat
  /\ ApiFails \in BOOLEAN
  /\ {LastDay, MaxAsks, MaxWritten, MaxFailures, MaxRestarts} \subseteq Nat

VARIABLES
  request,     \* ctx.state.operatorRequest
  review,      \* ctx.state.reviewState
  day,         \* the UTC day
  asks,        \* requests made so far
  woken,       \* reviews whose answer carried a request, for each
  cleared,     \* requests an operator took back
  gateDays,    \* days on which a review could advance the state
  toldTier,    \* the highest tier a cron review was shown
  failures, restarts

memory    == <<request, review>>
observers == <<woken, cleared, gateDays, toldTier>>
bounds    == <<failures, restarts>>
vars      == <<journal, memory, day, asks, observers, bounds>>

Requests == 1..MaxAsks
Reviewed == [kind : {"review"}, day : 0..LastDay, streak : 0..LastDay + 1,
             tier : Tiers \union {None}]
Asked    == [kind : {"operator-request"}, at : Requests]
Consumed == [kind |-> "operator-request-consumed"]
Other    == [kind |-> "heartbeat"]
Records  == Reviewed \union Asked \union {Consumed, Other}
ASSUME NoneAssumption == None \notin Records

Init ==
  /\ JournalInit
  /\ request = None
  /\ review = None
  /\ day = 0
  /\ asks = 0
  /\ woken = [r \in Requests |-> 0]
  /\ cleared = {}
  /\ gateDays = {}
  /\ toldTier = 0
  /\ failures = 0
  /\ restarts = 0

(***************************************************************************)
(* The ledger's replay of the two fields, as boot and rebuildLedger do it. *)
(***************************************************************************)
ReplayedRequest(d) ==
  LET last == LastRecord(d, {"operator-request", Consumed.kind}, Consumed)
  IN  IF last = Consumed THEN None ELSE last.at
ReplayedReview(d) == LastRecord(d, {"review"}, None)

\* journalAppend of up to two records, one behind the other.  One that fails
\* is logged and forgotten.
Failed(outcome) == IF outcome = "whole" THEN 0 ELSE 1
Journal(first, o1, second, o2) ==
  /\ journal.written < MaxWritten
  /\ failures' = failures + Failed(o1) + Failed(o2)
  /\ failures' <= MaxFailures
  /\ \E j \in IF first = None THEN {journal} ELSE Appends(journal, first, o1) :
       journal' \in IF second = None THEN {j} ELSE Appends(j, second, o2)
  /\ journal'.written <= MaxWritten
JournalOne(record, outcome) == Journal(record, outcome, None, "whole")

(***************************************************************************)
(* deriveReview, on what a snapshot shows.                                 *)
(***************************************************************************)
Views ==
  [leg  : {"under", "target"} \union (IF ApiFails THEN {"unknown"} ELSE {}),
   tier : Tiers \union (IF ApiFails THEN {None} ELSE {})]

PriorStreak == IF review = None THEN 0 ELSE review.streak
Streak(view) == IF view.leg = "under" THEN PriorStreak + 1 ELSE 0

(***************************************************************************)
(* GET /review.                                                            *)
(***************************************************************************)
Takes(mode) == mode = "review" /\ request # None

AdvancesInChat_Mutant(mode, session, fresh) ==
  /\ mode = "review" /\ fresh
  /\ review # None => review.day # day
AdvancesAgain_Mutant(mode, session, fresh) == mode = "review" /\ session = "cron" /\ fresh
Advances(mode, session, fresh) ==
  /\ mode = "review" /\ session = "cron" /\ fresh
  /\ review # None => review.day # day

Taken_Mutant(takes) == None
Taken(takes) == IF takes THEN Consumed ELSE None
Reached(view) ==
  [kind |-> "review", day |-> day, streak |-> Streak(view), tier |-> view.tier]

Persisted(outcome, next) == IF outcome \in Acknowledged THEN next ELSE review

\* What an observer of the answers keeps.
Observe(mode, session, fresh, view) ==
  LET gate == mode = "review" /\ session = "cron" /\ fresh
  IN  /\ woken' = IF mode = "review" /\ request # None
                  THEN [woken EXCEPT ![request] = @ + 1] ELSE woken
      /\ gateDays' = IF gate THEN gateDays \union {day} ELSE gateDays
      /\ toldTier' = IF gate /\ view.tier # None /\ view.tier > toldTier
                     THEN view.tier ELSE toldTier
      /\ UNCHANGED cleared

Review ==
  \E mode \in {"review", "universe"}, session \in {"cron", "chat"}, fresh \in BOOLEAN :
    LET takes    == Takes(mode)
        advances == Advances(mode, session, fresh)
    IN  /\ takes \/ advances
        /\ request' = IF takes THEN None ELSE request
        /\ \E o1 \in (IF takes THEN Outcomes ELSE {"whole"}),
              o2 \in (IF advances THEN Outcomes ELSE {"whole"}), view \in Views :
             /\ Journal(Taken(takes), o1,
                        IF advances THEN Reached(view) ELSE None, o2)
             /\ review' = IF advances THEN Persisted(o2, Reached(view)) ELSE review
             /\ Observe(mode, session, fresh, view)
        /\ UNCHANGED <<day, asks, restarts>>

(***************************************************************************)
(* POST /operator-request, and what else is journaled.                     *)
(***************************************************************************)
Ask ==
  /\ asks < MaxAsks
  /\ asks' = asks + 1
  /\ request' = asks + 1
  /\ \E o \in Outcomes : JournalOne([kind |-> "operator-request", at |-> asks + 1], o)
  /\ UNCHANGED <<review, day, observers, restarts>>

Clear ==
  /\ request # None
  /\ request' = None
  /\ cleared' = cleared \union {request}
  /\ \E o \in Outcomes : JournalOne(Consumed, o)
  /\ UNCHANGED <<review, day, asks, woken, gateDays, toldTier, restarts>>

JournalOther ==
  /\ \E o \in Outcomes : JournalOne(Other, o)
  /\ UNCHANGED <<memory, day, asks, observers, restarts>>

(***************************************************************************)
(* A restart, of a process that may die inside a write.  Boot replays the  *)
(* journal, then its own record must be written.                           *)
(***************************************************************************)
Restart ==
  /\ restarts < MaxRestarts
  /\ restarts' = restarts + 1
  /\ \E j \in {journal} \union Appends(journal, Other, "cut") :
       /\ request' = ReplayedRequest(j)
       /\ review' = ReplayedReview(j)
       /\ journal' \in Appends(j, Other, "whole")
  /\ journal'.written <= MaxWritten
  /\ UNCHANGED <<day, asks, observers, failures>>

NewDay ==
  /\ day < LastDay
  /\ day' = day + 1
  /\ UNCHANGED <<journal, memory, asks, observers, bounds>>

Next == Review \/ Ask \/ Clear \/ JournalOther \/ Restart \/ NewDay

Spec == Init /\ [][Next]_vars

(***************************************************************************)
(* Properties.                                                             *)
(***************************************************************************)
Files == Pieces(Records)
TypeOK ==
  /\ journal.file \in Seq(Files) /\ journal.rotated \in Seq(Files)
  /\ journal.written \in 0..MaxWritten /\ journal.acked \subseteq 1..MaxWritten
  /\ request \in Requests \union {None}
  /\ review \in Reviewed \union {None}
  /\ day \in 0..LastDay
  /\ asks \in 0..MaxAsks /\ woken \in [Requests -> Nat] /\ cleared \subseteq Requests
  /\ gateDays \subseteq 0..LastDay /\ toldTier \in Tiers \union {0}
  /\ failures \in 0..MaxFailures /\ restarts \in 0..MaxRestarts

AllOnDisk == journal.written = Len(journal.file) + Len(journal.rotated)

\* "One request, one wake": no request is reported twice, across restarts and
\* rotations, unless as many appends failed; and unless an append failed or the
\* files rotated, the last one asked for, neither reported nor taken back, waits
\* in memory and would wait after a restart.
OneWake ==
  /\ \A r \in Requests : woken[r] <= 1 + failures
  /\ failures = 0 /\ AllOnDisk /\ asks > 0 =>
       \/ woken[asks] > 0 \/ asks \in cleared
       \/ request = asks /\ ReplayedRequest(journal) = asks

\* Consecutive reviews are days, not calls: whatever fails and restarts, the
\* streak, in memory or replayed, is at most the number of days on which the
\* daily gate could count.
StreakCountsDays ==
  \A r \in {review, ReplayedReview(journal)} :
    r # None => r.streak <= Cardinality(gateDays)

\* A tier is stored only after a review of a cron session was shown it: no chat
\* makes a tier raised overnight old news to the gate.
RaiseReachesGate ==
  \A r \in {review, ReplayedReview(journal)} :
    r # None /\ r.tier # None => r.tier <= toldTier
=============================================================================
