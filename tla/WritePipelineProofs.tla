------------------------- MODULE WritePipelineProofs -------------------------
(***************************************************************************)
(* Proofs about WritePipeline, for any number of callers, any cap, any     *)
(* rate and any faults unless a theorem says which: its types, that the    *)
(* ledger never counts less than the journal, the bounds on deposits and   *)
(* on sends, and that a restart keeps a recorded pause or lock.            *)
(***************************************************************************)
EXTENDS WritePipeline, FiniteSetTheorems, TLAPS

(***************************************************************************)
(* Types.                                                                  *)
(***************************************************************************)
Requests == [pc : {"idle", "snapshot", "checked", "landed"}, verb : Verbs \union {"none"}]
Files == [attempts : Nat, deposits : Nat, paused : BOOLEAN, locked : BOOLEAN]
Rooms == [Clients -> {"yes", "rebuilt", "no"}]

\* g is a journal that counts all that f does.
Grown(f, g) == g \in Files /\ g.attempts >= f.attempts /\ g.deposits >= f.deposits

\* What was journaled with no error is on the file.
Tallied ==
  /\ recorded \in [sends : Nat, deposits : Nat]
  /\ recorded.sends <= file.attempts /\ recorded.deposits <= file.deposits

\* What an append writes is a journal that counts all the file did.
LEMMA RecordsGrow ==
  ASSUME NEW f \in Files, NEW verb \in Verbs \union {"none"}, NEW on \in BOOLEAN
  PROVE  /\ Grown(f, f) /\ Grown(f, Attempted(f)) /\ Grown(f, Sent(f, verb))
         /\ Grown(f, [f EXCEPT !.paused = on]) /\ Grown(f, [f EXCEPT !.locked = on])
         /\ [f EXCEPT !.deposits = 0] \in Files
         /\ Rebuilt(f) \in Counts
<1>. DEFINE tried == Attempted(f)
<1>1. tried \in Files /\ tried.attempts = f.attempts + 1 /\ tried.deposits = f.deposits
  BY DEF Files, Attempted
<1>2. Sent(f, verb) = [tried EXCEPT !.deposits = @ + Units(verb)]
  BY DEF Files, Sent, Attempted
<1>3. Units(verb) \in Nat
  BY DEF Units
<1>4. Grown(f, Sent(f, verb))
  <2>. HIDE DEF tried
  <2>1. QED
    BY <1>1, <1>2, <1>3 DEF Grown, Files
<1>5. QED
  BY <1>1, <1>4 DEF Grown, Files, Rebuilt, Counts

\* After Journal(record, kept) the journal still counts what it did, when the
\* record does, and the books are typed.
LEMMA JournalGrows ==
  ASSUME TypeOK, NEW record, NEW kept, Grown(file, record), kept \in Counts,
         Journal(record, kept)
  PROVE  /\ Grown(file, file') /\ ledger' \in Counts
         /\ fromJournal' \in BOOLEAN /\ room' \in Rooms
<1>1. file \in Files /\ room \in Rooms
  BY DEF TypeOK, Files, Rooms
<1>2. CASE Appended(record)
  BY <1>1, <1>2 DEF Appended, Grown, Files, Rebuilt, Counts, Rooms
<1>3. CASE NotAppended(record, kept)
  BY <1>1, <1>3 DEF NotAppended, TypeOK, Grown, Files
<1>4. QED
  BY <1>2, <1>3 DEF Journal

\* The clients, and the readings the world may give, have their types.
LEMMA ConstantsTyped ==
  /\ Callers \subseteq Clients /\ Loop \in Clients
  /\ Readings \subseteq BOOLEAN /\ StartPaused \in BOOLEAN /\ "none" \in Verbs \union {"none"}
BY CapsAssumption DEF Clients, Readings

\* A request of client c replaced by a typed one leaves the requests typed.
LEMMA RequestsTyped ==
  ASSUME TypeOK, NEW c \in Clients, NEW r \in Requests,
         c = Loop => r.verb \in {"apply", "none"},
         req' = [req EXCEPT ![c] = r]
  PROVE  /\ req' \in [Clients -> Requests]
         /\ req'[Loop].verb \in {"apply", "none"}
BY ConstantsTyped DEF TypeOK, Requests

\* Every reachable state is typed, and what was journaled with no error is on the
\* file: the shape every other proof starts from.
THEOREM TypeCorrect == Spec => []TypeOK
<1>. USE ConstantsTyped
<1>1. Init => TypeOK
  <2>. SUFFICES ASSUME Init PROVE TypeOK
    OBVIOUS
  <2>1. req \in [Clients -> Requests] /\ req[Loop].verb \in {"apply", "none"}
    BY DEF Init, Idle, Requests
  <2>2. file \in Files /\ ledger \in Counts /\ room \in Rooms /\ Tallied
    BY DEF Init, Files, Counts, Rooms, Tallied
  <2>3. tick \in [pc : {"idle", "judge"}, drift : BOOLEAN, unverified : BOOLEAN]
    BY DEF Init, NoTick
  <2>4. /\ paused \in BOOLEAN /\ locked \in BOOLEAN /\ fromJournal \in BOOLEAN
        /\ verdict = "none" /\ unlock = "idle" /\ drift \in Drifts /\ readable \in BOOLEAN
        /\ midnight \in BOOLEAN /\ deposited \in Nat /\ started \in Nat /\ crashes \in Nat
    BY DEF Init
  <2>5. QED
    BY <2>1, <2>2, <2>3, <2>4 DEF TypeOK, Requests, Files, Rooms, Tallied
<1>2. TypeOK /\ [Next]_vars => TypeOK'
  <2>. SUFFICES ASSUME TypeOK, [Next]_vars PROVE TypeOK'
    OBVIOUS
  <2>. DEFINE Rest == /\ paused' \in BOOLEAN /\ locked' \in BOOLEAN
                      /\ verdict' \in {"none", "unverified", "verified"}
                      /\ tick' \in [pc : {"idle", "judge"}, drift : BOOLEAN, unverified : BOOLEAN]
                      /\ unlock' \in {"idle", "clear"}
                      /\ drift' \in Drifts /\ readable' \in BOOLEAN
                      /\ deposited' \in Nat /\ midnight' \in BOOLEAN
                      /\ started' \in Nat /\ crashes' \in Nat
              Reqs  == req' \in [Clients -> Requests] /\ req'[Loop].verb \in {"apply", "none"}
              Books == /\ ledger' \in Counts /\ fromJournal' \in BOOLEAN /\ room' \in Rooms
                       /\ file' \in Files /\ Tallied'
              Typed == Rest /\ Reqs /\ Books
  <2>0. /\ file \in Files /\ ledger \in Counts /\ Pushed \in Counts /\ fromJournal \in BOOLEAN
        /\ room \in Rooms /\ Tallied /\ Grown(file, file) /\ Grown(file, Attempted(file))
    <3>1. /\ file \in Files /\ ledger \in Counts /\ fromJournal \in BOOLEAN
          /\ room \in Rooms /\ Tallied
      BY DEF TypeOK, Files, Rooms, Tallied
    <3>2. Pushed \in Counts
      BY <3>1 DEF Counts, Pushed
    <3>3. QED
      BY <3>1, <3>2, RecordsGrow
  <2>1. SUFFICES Typed
    BY DEF TypeOK, Requests, Files, Rooms, Tallied
  <2>2. \A c \in Clients : Ends(c) => Reqs
    BY RequestsTyped DEF Ends, Idle, Requests
  <2>3. \A c \in Clients : req[c].verb \in Verbs \union {"none"} /\ Units(req[c].verb) \in Nat
    BY DEF TypeOK, Units
  <2>4. ASSUME NEW record, NEW kept, Grown(file, record), kept \in Counts,
               Journal(record, kept), recorded' = recorded
        PROVE  Books
    <3>1. /\ Grown(file, file') /\ ledger' \in Counts
          /\ fromJournal' \in BOOLEAN /\ room' \in Rooms
      BY <2>4, JournalGrows
    <3>2. QED
      BY <2>0, <2>4, <3>1 DEF Grown, Tallied, Files
  <2>5. ASSUME NEW c \in Clients, NEW verb \in Verbs, c = Loop => verb = "apply", Start(c, verb)
        PROVE  Typed
    <3>1. Reqs
      BY <2>5, RequestsTyped DEF Start, Requests
    <3>2. Books
      BY <2>0, <2>5 DEF Start, chain, Room, Rooms, Tallied
    <3>3. QED
      BY <2>5, <3>1, <3>2 DEF Start, Arrives, switches, world, chain, TypeOK
  <2>6. ASSUME NEW c \in Clients, StartRefused(c) PROVE Typed
    <3>1. Books
      BY <2>0, <2>4, <2>6 DEF StartRefused, chain
    <3>2. QED
      BY <2>6, <3>1 DEF StartRefused, Arrives, switches, world, chain, TypeOK, Requests
  <2>7. CASE LoopSends
    <3>1. Reqs
      BY <2>7, RequestsTyped DEF LoopSends, Requests, Verbs
    <3>2. Books
      BY <2>0, <2>7 DEF LoopSends, chain, Tallied
    <3>3. QED
      BY <2>7, <3>1, <3>2 DEF LoopSends, Arrives, switches, world, chain, TypeOK
  <2>8. ASSUME NEW c \in Clients, Evaluate(c) PROVE Typed
    <3>1. Reqs
      BY <2>8 DEF Evaluate, TypeOK, Requests
    <3>2. QED
      BY <2>0, <2>8, <3>1 DEF Evaluate, switches, books, world, chain, bounds, Tallied, TypeOK
  <2>9. ASSUME NEW c \in Clients, Refused(c) \/ ApplyStops(c) \/ Unanswered(c) PROVE Typed
    <3>1. Books
      BY <2>0, <2>4, <2>9 DEF Refused, ApplyStops, Unanswered, chain
    <3>2. QED
      BY <2>2, <2>9, <3>1 DEF Refused, ApplyStops, Unanswered, switches, world, chain, bounds,
                              TypeOK
  <2>10. ASSUME NEW c \in Clients, Land(c) PROVE Typed
    <3>1. Reqs
      BY <2>10 DEF Land, TypeOK, Requests
    <3>2. QED
      BY <2>0, <2>3, <2>10, <3>1 DEF Land, switches, books, world, bounds, Tallied, TypeOK
  <2>11. ASSUME NEW c \in Clients, Confirm(c) PROVE Typed
    <3>. DEFINE kept == IF fromJournal THEN ledger
                        ELSE [ledger EXCEPT !.deposits = @ + Units(req[c].verb)]
                record == Sent(file, req[c].verb)
    <3>1. kept \in Counts /\ Grown(file, record)
      <4>1. kept \in Counts
        BY <2>0, <2>3 DEF Counts
      <4>2. Grown(file, record)
        BY <2>0, <2>3, RecordsGrow
      <4>3. QED
        BY <4>1, <4>2
    <3>2. Books
      <4>1. CASE NotAppended(record, kept) /\ recorded' = recorded
        <5>. HIDE DEF kept, record
        <5>1. QED
          BY <2>4, <3>1, <4>1 DEF Journal
      <4>2. CASE /\ Appended(record)
                 /\ recorded' = [sends |-> recorded.sends + 1,
                                 deposits |-> recorded.deposits + Units(req[c].verb)]
        <5>1. record.attempts = file.attempts + 1
              /\ record.deposits = file.deposits + Units(req[c].verb)
          BY <2>0, <2>3 DEF Sent, Files
        <5>2. recorded' \in [sends : Nat, deposits : Nat]
              /\ recorded'.sends = recorded.sends + 1
              /\ recorded'.deposits = recorded.deposits + Units(req[c].verb)
          BY <2>0, <2>3, <4>2 DEF Tallied
        <5>3. Journal(record, kept) /\ file' = record
          BY <4>2 DEF Journal, Appended
        <5>. HIDE DEF kept, record
        <5>4. /\ Grown(file, file') /\ ledger' \in Counts
              /\ fromJournal' \in BOOLEAN /\ room' \in Rooms
          BY <3>1, <5>3, JournalGrows
        <5>5. QED
          BY <2>0, <2>3, <5>1, <5>2, <5>3, <5>4 DEF Grown, Tallied, Files
      <4>3. QED
        BY <2>11, <4>1, <4>2 DEF Confirm
    <3>3. QED
      BY <2>2, <2>11, <3>2 DEF Confirm, switches, world, bounds, TypeOK
  <2>12. ASSUME NEW on \in BOOLEAN, Switch(on) PROVE Typed
    <3>1. Books
      BY <2>0, <2>4, <2>12, RecordsGrow DEF Switch, chain
    <3>2. QED
      BY <2>12, <3>1 DEF Switch, world, chain, bounds, TypeOK, Requests
  <2>13. CASE TickRead \/ UnlockRead
    <3>1. tick' \in [pc : {"idle", "judge"}, drift : BOOLEAN, unverified : BOOLEAN]
          /\ unlock' \in {"idle", "clear"}
      <4>1. DriftSeen \in BOOLEAN /\ (~readable) \in BOOLEAN
        BY DEF DriftSeen
      <4>2. CASE TickRead
        BY <4>1, <4>2 DEF TickRead, TypeOK
      <4>3. CASE UnlockRead
        BY <4>3 DEF UnlockRead, TypeOK
      <4>4. QED
        BY <2>13, <4>2, <4>3
    <3>2. QED
      BY <2>0, <2>13, <3>1 DEF TickRead, UnlockRead, books, world, chain, bounds, Tallied,
                               TypeOK, Requests
  <2>14. CASE TickJudges
    <3>1. Grown(file, file')
      BY <2>0, <2>14, RecordsGrow DEF TickJudges
    <3>2. Books
      BY <2>0, <2>14, <3>1 DEF TickJudges, books, chain, Grown, Tallied, Files
    <3>3. QED
      BY <2>14, <3>2 DEF TickJudges, NoTick, world, chain, bounds, TypeOK, Requests
  <2>15. CASE Unlock
    <3>1. Books
      BY <2>0, <2>4, <2>15, RecordsGrow DEF Unlock, chain
    <3>2. QED
      BY <2>15, <3>1 DEF Unlock, world, chain, bounds, TypeOK, Requests
  <2>16. CASE OtherRecord
    <3>1. Books
      BY <2>0, <2>4, <2>16 DEF OtherRecord, Journal, chain
    <3>2. QED
      BY <2>16, <3>1 DEF OtherRecord, switches, world, chain, bounds, TypeOK, Requests
  <2>17. CASE Midnight
    <3>1. file' \in Files /\ file'.attempts = file.attempts /\ file'.deposits = 0
      BY <2>0, <2>17, RecordsGrow DEF Midnight, Files
    <3>2. Books
      BY <2>0, <2>17, <3>1 DEF Midnight, books, Tallied
    <3>3. QED
      BY <2>17, <3>2 DEF Midnight, switches, world, TypeOK, Requests
  <2>18. CASE WorldTurns
    BY <2>0, <2>18 DEF WorldTurns, switches, books, chain, bounds, Tallied, TypeOK, Requests
  <2>19. CASE Crash
    <3>1. Reqs
      BY <2>19 DEF Crash, Idle, Requests
    <3>2. Books
      BY <2>0, <2>19, RecordsGrow DEF Crash, chain, Rooms, Tallied
    <3>3. file.paused \in BOOLEAN /\ file.locked \in BOOLEAN
      BY <2>0 DEF Files
    <3>4. QED
      BY <2>19, <3>1, <3>2, <3>3 DEF Crash, Booted, NoTick, world, chain, TypeOK
  <2>20. CASE UNCHANGED vars
    BY <2>0, <2>20 DEF vars, switches, books, world, chain, bounds, Tallied, TypeOK, Requests
  <2>21. ASSUME NEW c \in Clients, RequestNext(c) PROVE Typed
    BY <2>8, <2>9, <2>10, <2>11, <2>21 DEF RequestNext, RateLimited
  <2>22. ASSUME NEW c \in Callers, CallerNext(c) PROVE Typed
    BY <2>5, <2>6, <2>22, CallersAssumption DEF CallerNext
  <2>23. CASE LoopNext
    BY <2>5, <2>6, <2>7, <2>23 DEF LoopNext, Verbs
  <2>24. CASE SwitchNext
    BY <2>12, <2>13, <2>14, <2>15, <2>24 DEF SwitchNext, Pause, Resume
  <2>25. CASE WorldNext
    BY <2>16, <2>17, <2>18, <2>19, <2>25 DEF WorldNext
  <2>26. QED
    BY <2>20, <2>21, <2>22, <2>23, <2>24, <2>25 DEF Next
<1>3. QED
  BY <1>1, <1>2, PTL DEF Spec
(***************************************************************************)
(* How a step moves the ledger: it is rebuilt, or it only grows.           *)
(***************************************************************************)
Rebuilding == ledger' = Rebuilt(file')

\* Nothing is journaled with no error, and the file itself grows only when a
\* line whose append failed reached it.
Growing ==
  /\ ledger'.attempts >= ledger.attempts /\ ledger'.deposits >= ledger.deposits
  /\ recorded'.sends <= recorded.sends /\ recorded'.deposits <= recorded.deposits
  /\ "unsynced" \in Faults
       \/ (file'.attempts <= file.attempts /\ file'.deposits <= file.deposits)

\* A journal call that keeps at least the ledger there is.
LEMMA JournalMoves ==
  ASSUME TypeOK, NEW record, NEW kept, Journal(record, kept), recorded' = recorded,
         kept.attempts >= ledger.attempts, kept.deposits >= ledger.deposits
  PROVE  Rebuilding \/ Growing
<1>1. CASE Appended(record)
  BY <1>1 DEF Appended, Rebuilding
<1>2. CASE NotAppended(record, kept)
  BY <1>2 DEF NotAppended, Growing, TypeOK
<1>3. QED
  BY <1>1, <1>2 DEF Journal

\* Every step rebuilds the ledger from the file, or only makes it grow.
LEMMA LedgerMoves ==
  ASSUME TypeOK, [Next]_vars
  PROVE  Rebuilding \/ Growing
<1>. USE ConstantsTyped
<1>1. /\ ledger.attempts \in Nat /\ ledger.deposits \in Nat /\ ledger \in Counts
      /\ recorded.sends \in Nat /\ recorded.deposits \in Nat
      /\ file \in Files /\ file.attempts \in Nat /\ file.deposits \in Nat
  BY DEF TypeOK, Counts, Files
<1>2. Pushed.attempts >= ledger.attempts /\ Pushed.deposits >= ledger.deposits
  BY <1>1 DEF Pushed, Counts
<1>3. ASSUME ledger' = ledger, recorded' = recorded, file' = file PROVE Growing
  BY <1>1, <1>3 DEF Growing
<1>4. ASSUME NEW record, Journal(record, ledger) \/ Journal(record, Pushed), recorded' = recorded
      PROVE  Rebuilding \/ Growing
  BY <1>1, <1>2, <1>4, JournalMoves
<1>5. ASSUME NEW c \in Clients, NEW verb \in Verbs, Start(c, verb) PROVE Growing
  BY <1>1, <1>2, <1>5 DEF Start, chain, Growing
<1>6. CASE LoopSends
  BY <1>1, <1>2, <1>6 DEF LoopSends, chain, Growing
<1>7. ASSUME NEW c \in Clients, Evaluate(c) \/ Land(c) PROVE Growing
  BY <1>3, <1>7 DEF Evaluate, Land, books, chain
<1>8. ASSUME NEW c \in Clients,
             StartRefused(c) \/ Refused(c) \/ ApplyStops(c) \/ Unanswered(c)
      PROVE  Rebuilding \/ Growing
  BY <1>4, <1>8 DEF StartRefused, Refused, ApplyStops, Unanswered, chain
<1>9. ASSUME NEW c \in Clients, Confirm(c) PROVE Rebuilding \/ Growing
  <2>. DEFINE kept == IF fromJournal THEN ledger
                      ELSE [ledger EXCEPT !.deposits = @ + Units(req[c].verb)]
              record == Sent(file, req[c].verb)
  <2>1. Units(req[c].verb) \in Nat
    BY DEF Units
  <2>2. kept.attempts >= ledger.attempts /\ kept.deposits >= ledger.deposits
    BY <1>1, <2>1 DEF Counts
  <2>3. Appended(record) \/ (NotAppended(record, kept) /\ recorded' = recorded)
    BY <1>9 DEF Confirm
  <2>. HIDE DEF kept, record
  <2>4. CASE Appended(record)
    BY <2>4 DEF Appended, Rebuilding
  <2>5. CASE NotAppended(record, kept) /\ recorded' = recorded
    BY <2>2, <2>5, JournalMoves DEF Journal
  <2>6. QED
    BY <2>3, <2>4, <2>5
<1>10. ASSUME NEW on \in BOOLEAN, Switch(on) \/ Unlock PROVE Rebuilding \/ Growing
  BY <1>4, <1>10 DEF Switch, Unlock, chain
<1>11. CASE TickRead \/ UnlockRead \/ WorldTurns \/ UNCHANGED vars
  BY <1>3, <1>11 DEF TickRead, UnlockRead, WorldTurns, vars, books, chain
<1>12. CASE TickJudges
  <2>1. file'.attempts = file.attempts /\ file'.deposits = file.deposits
    BY <1>1, <1>12 DEF TickJudges, Files
  <2>2. QED
    BY <1>1, <1>12, <2>1 DEF TickJudges, books, chain, Growing
<1>13. CASE OtherRecord
  BY <1>13 DEF OtherRecord, Appended, Rebuilding
<1>14. CASE Midnight
  <2>1. /\ file'.attempts = file.attempts /\ file'.deposits = 0
        /\ recorded'.sends = recorded.sends /\ recorded'.deposits = 0
    BY <1>1, <1>14 DEF Midnight, Files, TypeOK
  <2>2. QED
    BY <1>1, <1>14, <2>1 DEF Midnight, books, Growing
<1>15. CASE Crash
  BY <1>15 DEF Crash, Rebuilding
<1>16. QED
  <2>1. ASSUME NEW c \in Clients, RequestNext(c) PROVE Rebuilding \/ Growing
    BY <1>7, <1>8, <1>9, <2>1 DEF RequestNext, RateLimited
  <2>2. ASSUME NEW c \in Callers, CallerNext(c) PROVE Rebuilding \/ Growing
    BY <1>5, <1>8, <2>2 DEF CallerNext
  <2>3. CASE LoopNext
    BY <1>5, <1>6, <1>8, <2>3 DEF LoopNext, Verbs
  <2>4. CASE SwitchNext
    BY <1>10, <1>11, <1>12, <2>4 DEF SwitchNext, Pause, Resume
  <2>5. CASE WorldNext
    BY <1>11, <1>13, <1>14, <1>15, <2>5 DEF WorldNext
  <2>6. QED
    BY <1>11, <2>1, <2>2, <2>3, <2>4, <2>5 DEF Next

\* No rebuild in the middle of a write, midnight, restart or append that wrote
\* nothing leaves the ledger with less than the journal.  The assumption is
\* needed: an append that fails after its line is on the file does.
THEOREM LedgerCovers ==
  ASSUME "unsynced" \notin Faults
  PROVE  Spec => []LedgerCoversFile
<1>1. Init => LedgerCoversFile
  BY DEF Init, LedgerCoversFile
<1>2. TypeOK /\ TypeOK' /\ LedgerCoversFile /\ [Next]_vars => LedgerCoversFile'
  <2>. SUFFICES ASSUME TypeOK, TypeOK', LedgerCoversFile, [Next]_vars PROVE LedgerCoversFile'
    OBVIOUS
  <2>1. CASE Rebuilding
    BY <2>1 DEF Rebuilding, Rebuilt, LedgerCoversFile, TypeOK
  <2>2. CASE Growing
    BY <2>2 DEF Growing, LedgerCoversFile, TypeOK, Counts
  <2>3. QED
    BY <2>1, <2>2, LedgerMoves
<1>3. QED
  BY <1>1, <1>2, TypeCorrect, PTL DEF Spec

\* The part of LedgerCoversFile that every fault leaves true.
LedgerCoversRecorded ==
  /\ ledger.attempts >= recorded.sends
  /\ ledger.deposits >= recorded.deposits

\* Whatever fails, the ledger counts what was journaled with no error.
LEMMA RecordedCovered == Spec => []LedgerCoversRecorded
<1>1. Init => LedgerCoversRecorded
  BY DEF Init, LedgerCoversRecorded
<1>2. TypeOK /\ TypeOK' /\ LedgerCoversRecorded /\ [Next]_vars => LedgerCoversRecorded'
  <2>. SUFFICES ASSUME TypeOK, TypeOK', LedgerCoversRecorded, [Next]_vars
                PROVE  LedgerCoversRecorded'
    OBVIOUS
  <2>1. CASE Rebuilding
    BY <2>1 DEF Rebuilding, Rebuilt, LedgerCoversRecorded, TypeOK
  <2>2. CASE Growing
    BY <2>2 DEF Growing, LedgerCoversRecorded, TypeOK, Counts
  <2>3. QED
    BY <2>1, <2>2, LedgerMoves
<1>3. QED
  BY <1>1, <1>2, TypeCorrect, PTL DEF Spec
(***************************************************************************)
(* The bounds.  What is counted is on its way: deposits that passed the    *)
(* policy and are not journaled yet, requests that passed it or still may. *)
(***************************************************************************)
Committed == {c \in Callers : req[c].pc \in {"checked", "landed"} /\ req[c].verb = "deposit"}

MayPass == Passed \union {c \in Clients : req[c].pc = "snapshot" /\ room[c] # "no"}

\* The inductive strengthenings.  DepositBound counts the deposits that landed,
\* RateBound those past the policy: a step that moves a request from the one
\* before into these must not be the one that breaks the bound.
DepositInv == recorded.deposits + Cardinality(Committed) <= Cap + Cardinality(Callers) - 1
RateInv == recorded.sends + Cardinality(MayPass) <= MaxAttempts - 1 + Cardinality(Clients)

\* Sets of clients have cardinalities, and no more than there are clients.
LEMMA Countable ==
  /\ \A T \in SUBSET Callers : /\ IsFiniteSet(T) /\ Cardinality(T) \in Nat
                               /\ Cardinality(T) <= Cardinality(Callers)
  /\ \A T \in SUBSET Clients : /\ IsFiniteSet(T) /\ Cardinality(T) \in Nat
                               /\ Cardinality(T) <= Cardinality(Clients)
  /\ Cardinality(Callers) \in Nat \ {0} /\ Cardinality(Clients) \in Nat \ {0}
<1>1. IsFiniteSet(Callers) /\ IsFiniteSet(Clients)
  BY CallersAssumption, FS_AddElement DEF Clients
<1>2. Callers # {} /\ Clients # {}
  BY CallersAssumption DEF Clients
<1>3. QED
  BY <1>1, <1>2, FS_Subset, FS_CardinalityType, FS_EmptySet

\* A step that journals no send and lets no more requests towards one.
Quiet ==
  /\ Committed' \subseteq Committed /\ MayPass' \subseteq MayPass
  /\ recorded'.sends <= recorded.sends /\ recorded'.deposits <= recorded.deposits

\* A request that landed ends, and its send is journaled.
Journaled(c) ==
  /\ req[c].pc = "landed" /\ Ends(c)
  /\ \A d \in Clients : room'[d] = "no" <=> room[d] = "no"
  /\ recorded'.sends = recorded.sends + 1
  /\ recorded'.deposits = recorded.deposits + Units(req[c].verb)

\* A journal call moves no request, and keeps who may still pass.
LEMMA JournalQuiet ==
  ASSUME TypeOK, NEW record, NEW kept, Journal(record, kept)
  PROVE  \A d \in Clients : room'[d] = "no" <=> room[d] = "no"
BY DEF Journal, Appended, NotAppended, TypeOK

\* A step that moves no request on, or ends one, is quiet.
LEMMA EndsQuiet ==
  ASSUME TypeOK, \A d \in Clients : req'[d] \in {req[d], Idle},
         \A d \in Clients : room'[d] = "no" <=> room[d] = "no",
         recorded'.sends <= recorded.sends, recorded'.deposits <= recorded.deposits
  PROVE  Quiet
BY ConstantsTyped DEF Quiet, Committed, MayPass, Passed, Idle, Clients

\* The steps that are not quiet: a request that arrives, the loop's send, a
\* policy that passes and a send that is journaled.
LEMMA Steps ==
  ASSUME TypeOK, [Next]_vars
  PROVE  \/ Quiet
         \/ \E c \in Clients, verb \in Verbs : Start(c, verb)
         \/ LoopSends
         \/ \E c \in Clients : Evaluate(c)
         \/ \E c \in Clients : Journaled(c)
<1>. USE ConstantsTyped
<1>1. /\ recorded.sends \in Nat /\ recorded.deposits \in Nat
      /\ req \in [Clients -> [pc : {"idle", "snapshot", "checked", "landed"},
                              verb : Verbs \union {"none"}]]
  BY DEF TypeOK
<1>2. ASSUME req' = req \/ \E c \in Clients : Ends(c), recorded' = recorded,
             \A d \in Clients : room'[d] = "no" <=> room[d] = "no"
      PROVE  Quiet
  <2>1. \A d \in Clients : req'[d] \in {req[d], Idle}
    BY <1>1, <1>2 DEF Ends
  <2>2. QED
    BY <1>1, <1>2, <2>1, EndsQuiet
<1>3. ASSUME NEW c \in Clients,
             StartRefused(c) \/ Refused(c) \/ ApplyStops(c) \/ Unanswered(c)
      PROVE  Quiet
  BY <1>2, <1>3, JournalQuiet DEF StartRefused, Refused, ApplyStops, Unanswered, chain
<1>4. ASSUME NEW c \in Clients, Land(c) PROVE Quiet
  BY <1>1, <1>4 DEF Land, books, Quiet, Committed, MayPass, Passed
<1>5. ASSUME NEW c \in Clients, Confirm(c) PROVE Quiet \/ Journaled(c)
  <2>. DEFINE kept == IF fromJournal THEN ledger
                      ELSE [ledger EXCEPT !.deposits = @ + Units(req[c].verb)]
              record == Sent(file, req[c].verb)
  <2>1. Journal(record, kept) /\ req[c].pc = "landed" /\ Ends(c)
    BY <1>5 DEF Confirm, Journal
  <2>2. \/ recorded' = recorded
        \/ recorded' = [sends |-> recorded.sends + 1,
                        deposits |-> recorded.deposits + Units(req[c].verb)]
    BY <1>5 DEF Confirm
  <2>. HIDE DEF kept, record
  <2>3. \A d \in Clients : room'[d] = "no" <=> room[d] = "no"
    BY <2>1, JournalQuiet
  <2>4. QED
    BY <1>2, <2>1, <2>2, <2>3 DEF Journaled
<1>6. ASSUME NEW on \in BOOLEAN, Switch(on) \/ Unlock PROVE Quiet
  BY <1>2, <1>6, JournalQuiet DEF Switch, Unlock, chain
<1>7. CASE TickRead \/ TickJudges \/ UnlockRead \/ WorldTurns \/ UNCHANGED vars
  BY <1>2, <1>7 DEF TickRead, TickJudges, UnlockRead, WorldTurns, vars, switches, books, chain
<1>8. CASE OtherRecord
  BY <1>2, <1>8, JournalQuiet DEF OtherRecord, Journal, chain
<1>9. CASE Midnight
  <2>1. recorded'.sends = recorded.sends /\ recorded'.deposits = 0
    BY <1>9 DEF Midnight, TypeOK
  <2>2. QED
    BY <1>1, <1>9, <2>1, EndsQuiet DEF Midnight, books
<1>10. CASE Crash
  BY <1>1, <1>10 DEF Crash, chain, Idle, Quiet, Committed, MayPass, Passed
<1>11. QED
  <2>1. CASE \E c \in Clients : RequestNext(c)
    BY <1>3, <1>4, <1>5, <2>1 DEF RequestNext, RateLimited
  <2>2. CASE \E c \in Callers : CallerNext(c)
    BY <1>3, <2>2 DEF CallerNext
  <2>3. CASE LoopNext
    BY <1>3, <2>3 DEF LoopNext, Verbs
  <2>4. CASE SwitchNext
    BY <1>6, <1>7, <2>4 DEF SwitchNext, Pause, Resume
  <2>5. CASE WorldNext
    BY <1>7, <1>8, <1>9, <1>10, <2>5 DEF WorldNext
  <2>6. QED
    BY <1>7, <2>1, <2>2, <2>3, <2>4, <2>5 DEF Next

\* A request that landed leaves both counts when its send is journaled.
LEMMA JournaledLeaves ==
  ASSUME TypeOK, NEW c \in Clients, Journaled(c)
  PROVE  /\ Cardinality(Committed') = Cardinality(Committed) - Units(req[c].verb)
         /\ Cardinality(MayPass') = Cardinality(MayPass) - 1
<1>1. Committed' = Committed \ {c} /\ MayPass' = MayPass \ {c} /\ c \in MayPass
  BY ConstantsTyped DEF Journaled, Ends, Idle, TypeOK, Committed, MayPass, Passed
<1>2. IsFiniteSet(Committed) /\ IsFiniteSet(MayPass) /\ Cardinality(Committed) \in Nat
  BY Countable DEF Committed, MayPass, Passed
<1>3. /\ c \in Committed <=> Units(req[c].verb) = 1
      /\ Units(req[c].verb) \in {0, 1}
  <2>1. req[c].verb = "deposit" => c \in Callers
    BY DEF TypeOK, Clients
  <2>2. QED
    BY <2>1 DEF Journaled, Committed, Units
<1>4. Cardinality(Committed \ {c}) = IF c \in Committed THEN Cardinality(Committed) - 1
                                     ELSE Cardinality(Committed)
  BY <1>2, FS_RemoveElement
<1>5. Cardinality(MayPass \ {c}) = Cardinality(MayPass) - 1
  BY <1>1, <1>2, FS_RemoveElement
<1>6. QED
  BY <1>1, <1>2, <1>3, <1>4, <1>5

\* The deposits journaled in a day, and those that landed and are not journaled
\* yet, pass the cap by at most one for each other caller.
THEOREM DepositsBounded == Spec => []DepositBound
<1>. USE ConstantsTyped
<1>1. Init => DepositInv
  <2>. SUFFICES ASSUME Init PROVE DepositInv
    OBVIOUS
  <2>1. Committed = {}
    BY DEF Init, Idle, Committed
  <2>2. QED
    BY <2>1, FS_EmptySet, Countable, CapsAssumption DEF Init, DepositInv
<1>2. TypeOK /\ TypeOK' /\ LedgerCoversRecorded /\ DepositInv /\ [Next]_vars => DepositInv'
  <2>. SUFFICES ASSUME TypeOK, TypeOK', LedgerCoversRecorded, DepositInv, [Next]_vars
                PROVE  DepositInv'
    OBVIOUS
  <2>1. /\ Cardinality(Committed) \in Nat /\ Cardinality(Committed') \in Nat
        /\ Cardinality(Callers) \in Nat \ {0} /\ Cardinality(Committed') <= Cardinality(Callers)
        /\ IsFiniteSet(Committed)
    BY Countable DEF Committed
  <2>2. /\ recorded.deposits \in Nat /\ recorded'.deposits \in Nat
        /\ ledger.deposits \in Nat /\ Cap \in Nat
    BY CapsAssumption DEF TypeOK, Counts
  <2>3. ASSUME Committed' \subseteq Committed, recorded'.deposits <= recorded.deposits
        PROVE  DepositInv'
    <3>1. Cardinality(Committed') <= Cardinality(Committed)
      BY <2>1, <2>3, FS_Subset
    <3>2. QED
      BY <2>1, <2>2, <2>3, <3>1 DEF DepositInv
  <2>4. CASE Quiet
    BY <2>2, <2>3, <2>4 DEF Quiet
  <2>5. ASSUME NEW c \in Clients, NEW verb \in Verbs, Start(c, verb) PROVE DepositInv'
    <3>1. Committed' \subseteq Committed
      BY <2>5 DEF Start, Committed, TypeOK
    <3>2. QED
      BY <2>2, <2>3, <2>5, <3>1 DEF Start, chain
  <2>6. CASE LoopSends
    <3>1. Committed' \subseteq Committed
      BY <2>6, CallersAssumption DEF LoopSends, Committed, TypeOK
    <3>2. QED
      BY <2>2, <2>3, <2>6, <3>1 DEF LoopSends, chain
  <2>7. ASSUME NEW c \in Clients, Evaluate(c) PROVE DepositInv'
    <3>1. recorded' = recorded
      BY <2>7 DEF Evaluate, chain
    <3>2. CASE req[c].verb = "deposit"
      <4>1. recorded.deposits <= Cap - 1
        BY <2>2, <2>7, <3>2 DEF Evaluate, WithinCap, LedgerCoversRecorded
      <4>2. QED
        BY <2>1, <2>2, <3>1, <4>1 DEF DepositInv
    <3>3. CASE req[c].verb # "deposit"
      <4>1. Committed' \subseteq Committed
        BY <2>7, <3>3 DEF Evaluate, TypeOK, Committed
      <4>2. QED
        BY <2>2, <2>3, <3>1, <4>1
    <3>4. QED
      BY <3>2, <3>3
  <2>8. ASSUME NEW c \in Clients, Journaled(c) PROVE DepositInv'
    <3>1. /\ Cardinality(Committed') = Cardinality(Committed) - Units(req[c].verb)
          /\ recorded'.deposits = recorded.deposits + Units(req[c].verb)
          /\ Units(req[c].verb) \in Nat
      BY <2>8, JournaledLeaves DEF Journaled, Units
    <3>2. QED
      BY <2>1, <2>2, <3>1 DEF DepositInv
  <2>9. QED
    BY <2>4, <2>5, <2>6, <2>7, <2>8, Steps
<1>3. TypeOK /\ DepositInv => DepositBound
  <2>. SUFFICES ASSUME TypeOK, DepositInv PROVE DepositBound
    OBVIOUS
  <2>1. Cardinality(LandedDeposits) <= Cardinality(Committed)
    BY Countable, FS_Subset DEF Committed, LandedDeposits
  <2>2. /\ Cardinality(Committed) \in Nat /\ Cardinality(LandedDeposits) \in Nat
        /\ Cardinality(Callers) \in Nat
    BY Countable DEF Committed, LandedDeposits
  <2>3. recorded.deposits \in Nat /\ Cap \in Nat
    BY CapsAssumption DEF TypeOK
  <2>4. QED
    BY <2>1, <2>2, <2>3 DEF DepositInv, DepositBound
<1>4. QED
  BY <1>1, <1>2, <1>3, TypeCorrect, RecordedCovered, PTL DEF Spec

\* The writes journaled as sent within the hour, and those past the policy, pass
\* the hourly rate by at most one for each other client.
THEOREM SendsBounded == Spec => []RateBound
<1>. USE ConstantsTyped
<1>1. Init => RateInv
  <2>. SUFFICES ASSUME Init PROVE RateInv
    OBVIOUS
  <2>1. MayPass = {}
    BY DEF Init, Idle, MayPass, Passed
  <2>2. QED
    BY <2>1, FS_EmptySet, Countable, CapsAssumption DEF Init, RateInv
<1>2. TypeOK /\ TypeOK' /\ LedgerCoversRecorded /\ RateInv /\ [Next]_vars => RateInv'
  <2>. SUFFICES ASSUME TypeOK, TypeOK', LedgerCoversRecorded, RateInv, [Next]_vars
                PROVE  RateInv'
    OBVIOUS
  <2>1. /\ Cardinality(MayPass) \in Nat /\ Cardinality(MayPass') \in Nat
        /\ Cardinality(Clients) \in Nat \ {0} /\ Cardinality(MayPass') <= Cardinality(Clients)
        /\ IsFiniteSet(MayPass)
    BY Countable DEF MayPass, Passed
  <2>2. /\ recorded.sends \in Nat /\ recorded'.sends \in Nat /\ ledger.attempts \in Nat
        /\ file.attempts \in Nat /\ MaxAttempts \in Nat \ {0}
        /\ recorded.sends <= ledger.attempts /\ recorded.sends <= file.attempts
    BY CapsAssumption DEF TypeOK, Counts, LedgerCoversRecorded
  <2>3. ASSUME MayPass' \subseteq MayPass, recorded'.sends <= recorded.sends PROVE RateInv'
    <3>1. Cardinality(MayPass') <= Cardinality(MayPass)
      BY <2>1, <2>3, FS_Subset
    <3>2. QED
      BY <2>1, <2>2, <2>3, <3>1 DEF RateInv
  <2>4. ASSUME recorded.sends <= MaxAttempts - 1, recorded' = recorded PROVE RateInv'
    BY <2>1, <2>2, <2>4 DEF RateInv
  <2>5. Pushed.attempts = ledger.attempts + 1 /\ Rebuilt(file).attempts = file.attempts
    BY DEF Pushed, Rebuilt, TypeOK, Counts
  <2>6. CASE Quiet
    BY <2>3, <2>6 DEF Quiet
  <2>7. ASSUME NEW c \in Clients, NEW verb \in Verbs, Start(c, verb) PROVE RateInv'
    <3>1. CASE Room = "no"
      <4>1. MayPass' \subseteq MayPass
        BY <2>7, <3>1 DEF Start, MayPass, Passed, TypeOK
      <4>2. QED
        BY <2>2, <2>3, <2>7, <4>1 DEF Start, chain
    <3>2. CASE Room # "no"
      <4>1. recorded.sends <= MaxAttempts - 1
        BY <2>2, <2>5, <3>2 DEF Room, WithinRate
      <4>2. QED
        BY <2>4, <2>7, <4>1 DEF Start, chain
    <3>3. QED
      BY <3>1, <3>2
  <2>8. CASE LoopSends
    <3>1. recorded.sends <= MaxAttempts - 1
      BY <2>2, <2>5, <2>8 DEF LoopSends, WithinRate
    <3>2. QED
      BY <2>4, <2>8, <3>1 DEF LoopSends, chain
  <2>9. ASSUME NEW c \in Clients, Evaluate(c) PROVE RateInv'
    <3>1. MayPass' \subseteq MayPass
      BY <2>9 DEF Evaluate, books, MayPass, Passed, TypeOK
    <3>2. QED
      BY <2>2, <2>3, <2>9, <3>1 DEF Evaluate, chain
  <2>10. ASSUME NEW c \in Clients, Journaled(c) PROVE RateInv'
    BY <2>1, <2>2, <2>10, JournaledLeaves DEF Journaled, RateInv
  <2>11. QED
    BY <2>6, <2>7, <2>8, <2>9, <2>10, Steps
<1>3. TypeOK /\ RateInv => RateBound
  <2>. SUFFICES ASSUME TypeOK, RateInv PROVE RateBound
    OBVIOUS
  <2>1. Cardinality(Passed) <= Cardinality(MayPass)
    BY Countable, FS_Subset DEF MayPass, Passed
  <2>2. /\ Cardinality(MayPass) \in Nat /\ Cardinality(Passed) \in Nat
        /\ Cardinality(Clients) \in Nat
    BY Countable DEF MayPass, Passed
  <2>3. recorded.sends \in Nat /\ MaxAttempts \in Nat
    BY CapsAssumption DEF TypeOK
  <2>4. QED
    BY <2>1, <2>2, <2>3 DEF RateInv, RateBound
<1>4. QED
  BY <1>1, <1>2, <1>3, TypeCorrect, RecordedCovered, PTL DEF Spec

(***************************************************************************)
(* A restart.                                                              *)
(***************************************************************************)
\* What memory holds back is in the journal, as long as an append that throws
\* has written its line.
HoldInv ==
  /\ paused => StartPaused \/ file.paused
  /\ locked => file.locked

\* Unless an append is lost, a restart keeps the pause and the lock it finds.
\* The assumption is needed: pause and the loop hold in memory what a full disk
\* kept from the journal.
THEOREM HoldSurvives ==
  ASSUME "unwritten" \notin Faults
  PROVE  Spec => RestartKeepsHold
<1>1. Init => HoldInv
  BY DEF Init, HoldInv
<1>2. TypeOK /\ HoldInv /\ [Next]_vars => HoldInv'
  <2>. SUFFICES ASSUME TypeOK, HoldInv, [Next]_vars PROVE HoldInv'
    OBVIOUS
  <2>1. file \in Files
    BY DEF TypeOK, Files
  <2>2. ASSUME NEW record, NEW kept, Journal(record, kept) PROVE file' = record
    BY <2>2 DEF Journal, Appended, NotAppended
  <2>3. ASSUME paused' = paused, locked' = locked,
               file'.paused = file.paused, file'.locked = file.locked
        PROVE  HoldInv'
    BY <2>3 DEF HoldInv
  <2>4. /\ Attempted(file).paused = file.paused /\ Attempted(file).locked = file.locked
        /\ \A verb \in Verbs \union {"none"} : /\ Sent(file, verb).paused = file.paused
                                            /\ Sent(file, verb).locked = file.locked
    BY <2>1 DEF Files, Attempted, Sent
  <2>5. ASSUME NEW c \in Clients, RequestNext(c) PROVE HoldInv'
    <3>1. paused' = paused /\ locked' = locked
      BY <2>5 DEF RequestNext, Evaluate, Refused, RateLimited, ApplyStops, Land, Confirm,
                  Unanswered, switches
    <3>2. file' \in {file, Attempted(file), Sent(file, req[c].verb)}
      BY <2>2, <2>5 DEF RequestNext, Evaluate, Refused, RateLimited, ApplyStops, Land, Confirm,
                        Unanswered, Appended, NotAppended
    <3>3. req[c].verb \in Verbs \union {"none"}
      BY DEF TypeOK
    <3>4. QED
      BY <2>3, <2>4, <3>1, <3>2, <3>3
  <2>6. ASSUME NEW c \in Clients,
               StartRefused(c) \/ \E verb \in Verbs : Start(c, verb)
        PROVE  HoldInv'
    BY <2>2, <2>3, <2>4, <2>6 DEF StartRefused, Start, switches
  <2>7. CASE LoopSends
    BY <2>3, <2>7 DEF LoopSends, switches
  <2>8. ASSUME NEW on \in BOOLEAN, Switch(on) PROVE HoldInv'
    <3>1. file' = [file EXCEPT !.paused = on] /\ paused' = on /\ locked' = locked
      BY <2>2, <2>8 DEF Switch
    <3>2. QED
      BY <2>1, <3>1 DEF HoldInv, Files
  <2>9. CASE TickRead \/ UnlockRead
    BY <2>3, <2>9 DEF TickRead, UnlockRead
  <2>10. CASE TickJudges
    <3>1. /\ paused' = paused /\ locked' = (locked \/ tick.drift)
          /\ file' = IF tick.drift /\ ~locked THEN [file EXCEPT !.locked = TRUE] ELSE file
      BY <2>10 DEF TickJudges
    <3>2. QED
      BY <2>1, <3>1 DEF HoldInv, Files
  <2>11. CASE Unlock
    <3>1. file' = [file EXCEPT !.locked = FALSE] /\ paused' = paused /\ locked' = FALSE
      BY <2>2, <2>11 DEF Unlock
    <3>2. QED
      BY <2>1, <3>1 DEF HoldInv, Files
  <2>12. CASE OtherRecord
    BY <2>3, <2>12 DEF OtherRecord, Appended, switches
  <2>13. CASE Midnight
    BY <2>1, <2>3, <2>13 DEF Midnight, switches, Files
  <2>14. CASE WorldTurns
    BY <2>3, <2>14 DEF WorldTurns, switches
  <2>15. CASE Crash
    BY <2>15 DEF Crash, Booted, HoldInv
  <2>16. CASE UNCHANGED vars
    BY <2>3, <2>16 DEF vars, switches
  <2>17. QED
    <3>1. ASSUME NEW c \in Callers, CallerNext(c) PROVE HoldInv'
      BY <2>6, <3>1 DEF CallerNext, Clients
    <3>2. CASE LoopNext
      BY <2>6, <2>7, <3>2 DEF LoopNext, Clients, Verbs
    <3>3. CASE SwitchNext
      BY <2>8, <2>9, <2>10, <2>11, <3>3 DEF SwitchNext, Pause, Resume
    <3>4. CASE WorldNext
      BY <2>12, <2>13, <2>14, <2>15, <3>4 DEF WorldNext
    <3>5. QED
      BY <2>5, <2>16, <3>1, <3>2, <3>3, <3>4 DEF Next
<1>3. HoldInv /\ [Next]_vars => [Crash => (paused => paused') /\ (locked => locked')]_vars
  BY DEF HoldInv, Crash, Booted
<1>4. QED
  BY <1>1, <1>2, <1>3, TypeCorrect, PTL DEF Spec, RestartKeepsHold
=============================================================================
