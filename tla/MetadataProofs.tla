--------------------------- MODULE MetadataProofs ---------------------------
(***************************************************************************)
(* Proofs about MetadataDoc, for any callers, descriptions, edits, retry   *)
(* and alert limits and any number of faults: its types with the order of  *)
(* the queue, that no write drops another's, that nothing is stamped while *)
(* locked or unverified, and that a stamp counted as done is carried.      *)
(***************************************************************************)
EXTENDS MetadataDoc, SequenceTheorems, TLAPS

(***************************************************************************)
(* Types.                                                                  *)
(***************************************************************************)
Stages == {"idle", "snapshot", "queued", "merged", "asked", "stored"}
Jobs == [pc : Stages, text : Texts \union {None}, kinds : SUBSET Kinds,
         base : Documents \union {None}, seen : {"current", "behind", "stale"}]
Stamps == [state : {"pending", "ok", "failed", "full"}, attempts : Nat, wait : 0..RetryMax]

Waits(j) == j.pc \notin {"idle", "snapshot"}
Writes(j) == j.pc \in {"merged", "asked", "stored"}

Typed ==
  /\ AlertsTypeOK
  /\ doc \in Documents
  /\ job \in [Writers -> Jobs] /\ \A x \in Writers : Writes(job[x]) => job[x].base \in Documents
  /\ st \in Stamps
  /\ tick \in {"idle", "judged", "stamping"}
  /\ locked \in BOOLEAN /\ unverified \in BOOLEAN /\ verifiedAt \in BOOLEAN
  /\ faults \in 0..MaxFaults

\* A writer is in the queue once while it waits or writes, the one writing first.
Queued ==
  /\ queue \in Seq(Writers)
  /\ InQueue = {x \in Writers : Waits(job[x])}
  /\ \A i, j \in DOMAIN queue : queue[i] = queue[j] => i = j
  /\ \A x \in Writers : Writes(job[x]) => Head(queue) = x

\* The stamp is in the queue only in its tick, and that tick found the signer
\* unlocked and its invariants read: ticks do not overlap, and only they judge.
StampAlone ==
  /\ job[Stamp].pc # "snapshot"
  /\ Waits(job[Stamp]) => tick = "stamping" /\ job[Stamp].kinds = Kinds
  /\ tick = "stamping" => ~locked /\ ~unverified

\* Nobody else put a document since a write read it, but those who edit elsewhere.
Based ==
  \A x \in Writers : job[x].seen = "current" =>
    /\ job[x].pc \in {"merged", "asked"} => job[x].base = doc
    /\ job[x].pc = "stored" => doc = Merged(x, job[x].base)

LEMMA NoJobTyped == NoJob \in Jobs /\ ~Waits(NoJob) /\ ~Writes(NoJob)
BY DEF NoJob, Jobs, Stages, Waits, Writes

LEMMA EntriesTyped ==
  ASSUME NEW e \in {None} \union Entries
  PROVE  /\ Raised(e) \in {None} \union Entries /\ Cleared(e) \in {None} \union Entries
         /\ Older(e) \in {None} \union Entries /\ Served(e) \in {None} \union Entries
         /\ Told(e) \in News
<1>. USE RealertAssumption
<1>1. Entry \in Entries
  BY DEF Entry, Entries
<1>2. Told(e) \in News
  BY DEF Told, News
<1>3. CASE e = None
  <2>1. ~Standing(e) /\ Told(e) = "nothing"
    BY <1>3, Zenon DEF Told, Standing
  <2>2. Raised(e) = Entry /\ Cleared(e) = e /\ Older(e) = e
    BY <2>1, Zenon DEF Raised, Cleared, Older
  <2>3. Served(e) = e
    BY <2>1, Zenon DEF Served
  <2>. QED
    BY <1>1, <1>2, <1>3, <2>2, <2>3, Zenon
<1>4. CASE e \in Entries
  <2>1. /\ [e EXCEPT !.delivered = TRUE] \in Entries
        /\ [e EXCEPT !.resolved = TRUE, !.delivered = FALSE] \in Entries
        /\ e.age < Realert => [e EXCEPT !.age = e.age + 1] \in Entries
    <3>1. e.age \in 0..Realert /\ e.age < Realert => e.age + 1 \in 0..Realert
      BY <1>4 DEF Entries
    <3>2. [e EXCEPT !.delivered = TRUE] \in Entries
      BY <1>4 DEF Entries
    <3>3. [e EXCEPT !.resolved = TRUE, !.delivered = FALSE] \in Entries
      BY <1>4 DEF Entries
    <3>4. e.age < Realert => [e EXCEPT !.age = e.age + 1] \in Entries
      BY <1>4, <3>1 DEF Entries
    <3>. QED
      BY <3>2, <3>3, <3>4
  <2>2. Raised(e) \in {None} \union Entries
    BY <1>1, <1>4, <2>1 DEF Raised
  <2>3. Cleared(e) \in {None} \union Entries
    BY <1>4, <2>1 DEF Cleared
  <2>4. Older(e) \in {None} \union Entries
    BY <1>4, <2>1 DEF Older
  <2>5. Served(e) \in {None} \union Entries
    BY <1>4, <2>1 DEF Served, Told
  <2>. QED
    BY <1>2, <2>2, <2>3, <2>4, <2>5
<1>. QED
  BY <1>3, <1>4

LEMMA MergedTyped ==
  ASSUME Typed, NEW x \in Writers, NEW document \in Documents
  PROVE  /\ Merged(x, document) \in Documents
         /\ Merged(x, document).has = document.has \union job[x].kinds
<1>1. job[x] \in Jobs
  BY DEF Typed
<1>. QED
  BY <1>1 DEF Merged, Documents, Jobs

\* One job changes to one that neither enters the queue nor leaves it.
LEMMA StaysQueued ==
  ASSUME Typed, Queued, NEW x \in Writers, NEW j \in Jobs,
         job' = [job EXCEPT ![x] = j], queue' = queue,
         Waits(j) <=> Waits(job[x]),
         Writes(j) => queue # <<>> /\ Head(queue) = x
  PROVE  Queued'
<1>1. \A y \in Writers : job'[y] = IF y = x THEN j ELSE job[y]
  BY DEF Typed
<1>2. {y \in Writers : Waits(job'[y])} = {y \in Writers : Waits(job[y])}
  BY <1>1
<1>. QED
  BY <1>1, <1>2 DEF Queued, InQueue

LEMMA EntersQueue ==
  ASSUME Typed, Queued, NEW x \in Writers, NEW j \in Jobs,
         job' = [job EXCEPT ![x] = j], queue' = Append(queue, x),
         ~Waits(job[x]), j.pc = "queued"
  PROVE  Queued'
<1>1. \A y \in Writers : job'[y] = IF y = x THEN j ELSE job[y]
  BY DEF Typed
<1>2. /\ queue' \in Seq(Writers) /\ Len(queue') = Len(queue) + 1 /\ Len(queue) \in Nat
      /\ DOMAIN queue = 1..Len(queue) /\ DOMAIN queue' = 1..Len(queue')
      /\ \A i \in 1..Len(queue) : queue'[i] = queue[i]
      /\ queue'[Len(queue) + 1] = x
  BY DEF Queued
<1>3. InQueue' = InQueue \union {x}
  <2>1. \A i \in DOMAIN queue' : queue'[i] \in InQueue \union {x}
    BY <1>2 DEF InQueue
  <2>2. \A i \in DOMAIN queue : queue[i] \in InQueue'
    BY <1>2 DEF InQueue
  <2>3. x \in InQueue'
    BY <1>2 DEF InQueue
  <2>. QED
    BY <2>1, <2>2, <2>3 DEF InQueue
<1>4. {y \in Writers : Waits(job'[y])} = {y \in Writers : Waits(job[y])} \union {x}
  BY <1>1 DEF Waits
<1>5. x \notin InQueue
  BY DEF Queued
<1>6. \A i, k \in DOMAIN queue' : queue'[i] = queue'[k] => i = k
  <2>1. \A i \in 1..Len(queue) : queue[i] # x
    BY <1>2, <1>5 DEF InQueue
  <2>. QED
    BY <1>2, <2>1 DEF Queued
<1>7. ASSUME NEW y \in Writers, Writes(job'[y]) PROVE Head(queue') = y
  <2>1. y # x /\ Writes(job[y])
    BY <1>1, <1>7 DEF Writes
  <2>2. Head(queue) = y /\ queue # <<>>
    <3>1. y \in InQueue
      BY <2>1 DEF Queued, Waits, Writes
    <3>. QED
      BY <1>2, <2>1, <3>1 DEF Queued, InQueue
  <2>. QED
    BY <1>2, <2>2 DEF Queued
<1>. QED
  BY <1>2, <1>3, <1>4, <1>6, <1>7 DEF Queued

\* The first of the queue leaves it: nobody is past the queue then.
LEMMA LeavesQueue ==
  ASSUME Typed, Queued, NEW x \in Writers, Turn(x), Leaves(x)
  PROVE  Queued' /\ job' \in [Writers -> Jobs] /\ \A y \in Writers : ~Writes(job'[y])
<1>1. \A y \in Writers : job'[y] = IF y = x THEN NoJob ELSE job[y]
  BY DEF Typed, Leaves
<1>2. queue # <<>> /\ queue[1] = x /\ queue' = Tail(queue)
  BY DEF Turn, Leaves, Released
<1>3. /\ queue' \in Seq(Writers) /\ Len(queue) \in Nat /\ Len(queue') = Len(queue) - 1
      /\ \A i \in 1..Len(queue') : queue'[i] = queue[i + 1]
      /\ DOMAIN queue = 1..Len(queue) /\ DOMAIN queue' = 1..Len(queue')
  BY <1>2, HeadTailProperties DEF Queued
<1>4. InQueue' = InQueue \ {x}
  <2>1. \A i \in DOMAIN queue' : queue'[i] \in InQueue \ {x}
    BY <1>2, <1>3 DEF InQueue, Queued
  <2>2. \A i \in DOMAIN queue : queue[i] # x => queue[i] \in InQueue'
    <3>1. SUFFICES ASSUME NEW i \in DOMAIN queue, queue[i] # x PROVE queue[i] \in InQueue'
      OBVIOUS
    <3>2. i # 1 /\ i - 1 \in DOMAIN queue'
      BY <1>2, <1>3, <3>1
    <3>3. queue'[i - 1] = queue[i]
      BY <1>3, <3>2
    <3>. QED
      BY <3>2, <3>3 DEF InQueue
  <2>. QED
    BY <2>1, <2>2 DEF InQueue
<1>5. {y \in Writers : Waits(job'[y])} = {y \in Writers : Waits(job[y])} \ {x}
  BY <1>1, NoJobTyped
<1>6. \A i, k \in DOMAIN queue' : queue'[i] = queue'[k] => i = k
  BY <1>3 DEF Queued
<1>7. \A y \in Writers : ~Writes(job'[y])
  <2>1. ASSUME NEW y \in Writers, Writes(job'[y]) PROVE FALSE
    <3>1. y # x /\ Writes(job[y])
      BY <1>1, <2>1, NoJobTyped
    <3>. QED
      BY <1>2, <3>1 DEF Queued, Turn
  <2>. QED
    BY <2>1
<1>8. job' \in [Writers -> Jobs]
  BY NoJobTyped DEF Typed, Leaves
<1>. QED
  BY <1>3, <1>4, <1>5, <1>6, <1>7, <1>8 DEF Queued

\* How a write ends, and how a stamp fails, keep the types.
LEMMA StampFailedTyped ==
  ASSUME Typed, NEW code \in {"full", "failed"}, StampFailed(code)
  PROVE  /\ st' \in Stamps /\ alerts' \in [Keys -> {None} \union Entries]
         /\ tick' = "idle"
<1>. DEFINE n == st.attempts + 1
<1>1. n \in Nat /\ Backoff(n) \in 0..RetryMax /\ 0 \in 0..RetryMax
  BY MetadataAssumption DEF Typed, Stamps, Backoff
<1>2. st' = [attempts |-> n, state |-> code, wait |-> IF code = "full" THEN 0 ELSE Backoff(n)]
  BY DEF StampFailed
<1>. HIDE DEF n
<1>3. st' \in Stamps
  BY <1>1, <1>2 DEF Stamps
<1>4. alerts' \in [Keys -> {None} \union Entries]
  <2>1. alerts' = alerts \/ alerts' = [alerts EXCEPT !["metadata"] = Raised(@)]
    BY DEF StampFailed
  <2>2. \A k \in Keys : Raised(alerts[k]) \in {None} \union Entries
    BY EntriesTyped DEF Typed, AlertsTypeOK
  <2>. QED
    BY <2>1, <2>2, MetadataAssumption DEF Typed, AlertsTypeOK
<1>. QED
  BY <1>3, <1>4 DEF StampFailed

Ending(x) ==
  \/ \E document \in Documents : Done(x, document)
  \/ \E code \in {"full", "failed"} : Failed(x, code)

LEMMA EndingTyped ==
  ASSUME Typed, NEW x \in Writers, Ending(x)
  PROVE  /\ Leaves(x)
         /\ st' \in Stamps /\ alerts' \in [Keys -> {None} \union Entries]
         /\ tick' \in {"idle", "judged", "stamping"}
         /\ IF x = Stamp THEN tick' = "idle" ELSE tick' = tick
<1>1. Ok \in Stamps
  BY MetadataAssumption DEF Ok, Stamps
<1>2. ASSUME NEW document \in Documents, Done(x, document)
      PROVE  /\ st' \in Stamps /\ alerts' \in [Keys -> {None} \union Entries]
             /\ IF x = Stamp THEN tick' = "idle" ELSE tick' = tick
  <2>1. Cleared(alerts["metadata"]) \in {None} \union Entries
    BY EntriesTyped, MetadataAssumption DEF Typed, AlertsTypeOK
  <2>2. CASE x = Stamp
    BY <1>1, <1>2, <2>1, <2>2 DEF Done, Typed, AlertsTypeOK
  <2>3. CASE x # Stamp
    BY <1>1, <1>2, <2>3 DEF Done, Typed, AlertsTypeOK
  <2>. QED
    BY <2>2, <2>3
<1>3. ASSUME NEW code \in {"full", "failed"}, Failed(x, code)
      PROVE  /\ st' \in Stamps /\ alerts' \in [Keys -> {None} \union Entries]
             /\ IF x = Stamp THEN tick' = "idle" ELSE tick' = tick
  BY <1>3, StampFailedTyped DEF Failed, Typed, AlertsTypeOK
<1>4. Leaves(x)
  BY DEF Ending, Done, Failed
<1>. QED
  BY <1>2, <1>3, <1>4 DEF Ending, Typed

LEMMA InitTyped == Init => Typed /\ Queued
<1>. SUFFICES ASSUME Init PROVE Typed /\ Queued
  OBVIOUS
<1>. USE RealertAssumption, MetadataAssumption, EditsAssumption
<1>1. AlertsTypeOK
  BY DEF Init, AlertsInit, AlertsTypeOK
<1>2. \A x \in Writers : job[x] = NoJob
  BY DEF Init
<1>3. Pending \in Stamps
  BY DEF Pending, Stamps
<1>4. Typed
  <2>1. job \in [Writers -> Jobs] /\ \A x \in Writers : ~Writes(job[x])
    BY <1>2, NoJobTyped DEF Init
  <2>2. doc \in Documents /\ faults \in 0..MaxFaults
    BY DEF Init
  <2>. QED
    BY <1>1, <1>3, <2>1, <2>2 DEF Init, Typed
<1>5. Queued
  BY <1>2, NoJobTyped DEF Init, Queued, InQueue
<1>. QED
  BY <1>4, <1>5

\* A write in turn: it goes on or it ends, one service call at a time.
LEMMA WriteSteps ==
  ASSUME Typed, NEW x \in Writers, WriteNext(x) \/ CallFails(x)
  PROVE  /\ Turn(x) /\ UNCHANGED quiet /\ faults' \in 0..MaxFaults
         /\ \/ Ending(x) /\ doc' = doc
            \/ ReadMerged(x) \/ AskMessage(x) \/ Put(x)
<1>1. doc \in Documents /\ (job[x].pc = "stored" => Merged(x, job[x].base) \in Documents)
  BY MergedTyped DEF Typed, Writes
<1>. USE MetadataAssumption
<1>a. faults' = faults => faults' \in 0..MaxFaults
  BY DEF Typed
<1>b. Fault => faults' \in 0..MaxFaults
  BY DEF Typed, Fault
<1>2. CASE ReadFull(x)
  BY <1>a, <1>b, <1>2 DEF ReadFull, Ending
<1>3. CASE ReadUnchanged(x)
  BY <1>a, <1>b, <1>1, <1>3 DEF ReadUnchanged, Ending
<1>4. CASE PutStale(x)
  BY <1>a, <1>b, <1>4 DEF PutStale, Ending
<1>5. CASE PutAnswered(x)
  BY <1>a, <1>b, <1>1, <1>5 DEF PutAnswered, Ending
<1>6. CASE CallFails(x)
  BY <1>a, <1>b, <1>6 DEF CallFails, Ending
<1>7. CASE ReadMerged(x) \/ AskMessage(x) \/ Put(x)
  BY <1>a, <1>7 DEF ReadMerged, AskMessage, Put, quiet, memory, alertVars
<1>. QED
  BY <1>2, <1>3, <1>4, <1>5, <1>6, <1>7 DEF WriteNext

\* Every step keeps the types and the order of the queue.
LEMMA TypedStep ==
  ASSUME Typed, Queued, StampAlone, [Next]_vars
  PROVE  Typed' /\ Queued'
<1>. USE RealertAssumption, MetadataAssumption
<1>1. /\ job \in [Writers -> Jobs] /\ queue \in Seq(Writers)
      /\ \A y \in Writers : job[y] \in Jobs
      /\ Stamp \in Writers /\ Callers \subseteq Writers
  BY DEF Typed, Queued, Writers
<1>2. ASSUME job' = job, queue' = queue PROVE Queued'
  BY <1>2 DEF Queued, InQueue
<1>3. /\ faults' = faults => faults' \in 0..MaxFaults
      /\ Fault => faults' \in 0..MaxFaults
  BY DEF Typed, Fault
<1>4. \A k \in Keys : /\ Raised(alerts[k]) \in {None} \union Entries
                      /\ Cleared(alerts[k]) \in {None} \union Entries
                      /\ Older(alerts[k]) \in {None} \union Entries
                      /\ Served(alerts[k]) \in {None} \union Entries
                      /\ Told(alerts[k]) \in News
  BY EntriesTyped DEF Typed, AlertsTypeOK
<1>5. ASSUME NEW x \in Writers, WriteNext(x) \/ CallFails(x)
      PROVE  Typed' /\ Queued'
  <2>1. Turn(x) /\ UNCHANGED quiet /\ faults' \in 0..MaxFaults
    BY <1>5, WriteSteps
  <2>2. CASE Ending(x) /\ doc' = doc
    <3>1. Queued' /\ job' \in [Writers -> Jobs] /\ \A y \in Writers : ~Writes(job'[y])
      BY <2>1, <2>2, EndingTyped, LeavesQueue
    <3>2. /\ st' \in Stamps /\ alerts' \in [Keys -> {None} \union Entries]
          /\ tick' \in {"idle", "judged", "stamping"}
      BY <2>2, EndingTyped
    <3>. QED
      BY <2>1, <2>2, <3>1, <3>2 DEF Typed, AlertsTypeOK, quiet
  <2>3. ASSUME NEW j \in Jobs, job' = [job EXCEPT ![x] = j], UNCHANGED queue,
               UNCHANGED <<tick, memory, alertVars>>, doc' \in Documents,
               j.pc \in {"merged", "asked", "stored"}, j.base \in Documents,
               job[x].pc \notin {"idle", "snapshot"}
        PROVE  Typed' /\ Queued'
    <3>1. Queued'
      BY <2>1, <2>3, StaysQueued DEF Waits, Writes, Turn
    <3>2. /\ job' \in [Writers -> Jobs]
          /\ \A y \in Writers : Writes(job'[y]) => job'[y].base \in Documents
      BY <1>1, <2>3 DEF Typed
    <3>. QED
      BY <2>1, <2>3, <3>1, <3>2 DEF Typed, AlertsTypeOK, memory, alertVars
  <2>4. CASE ReadMerged(x)
    <3>. DEFINE j == [job[x] EXCEPT !.pc = "merged", !.base = doc]
    <3>1. j \in Jobs /\ j.pc = "merged" /\ j.base \in Documents
      BY <1>1 DEF Jobs, Stages, Typed
    <3>2. job' = [job EXCEPT ![x] = j]
      BY <1>1, <2>4 DEF ReadMerged
    <3>. QED
      BY <2>3, <2>4, <3>1, <3>2 DEF ReadMerged, Typed
  <2>5. CASE AskMessage(x)
    <3>. DEFINE j == [job[x] EXCEPT !.pc = "asked"]
    <3>1. j \in Jobs /\ j.pc = "asked" /\ j.base \in Documents
      BY <1>1, <2>5 DEF AskMessage, Jobs, Stages, Typed, Writes
    <3>2. job' = [job EXCEPT ![x] = j]
      BY <1>1, <2>5 DEF AskMessage
    <3>. QED
      BY <2>3, <2>5, <3>1, <3>2 DEF AskMessage, Typed
  <2>6. CASE Put(x)
    <3>. DEFINE j == [job[x] EXCEPT !.pc = "stored"]
    <3>1. j \in Jobs /\ j.pc = "stored" /\ j.base \in Documents
      BY <1>1, <2>6 DEF Put, Jobs, Stages, Typed, Writes
    <3>2. job' = [job EXCEPT ![x] = j]
      <4>1. \A y \in Writers : y # x => ~Writes(job[y])
        BY <2>1 DEF Queued, Turn
      <4>2. \A y \in Writers : y # x => Overtaken(job[y], "current") = job[y]
        BY <4>1 DEF Overtaken, Writes
      <4>. QED
        BY <1>1, <2>6, <4>2 DEF Put
    <3>3. doc' \in Documents
      BY <2>6, MergedTyped DEF Put, Typed, Writes
    <3>. QED
      BY <2>3, <2>6, <3>1, <3>2, <3>3 DEF Put
  <2>. QED
    BY <1>5, <2>2, <2>4, <2>5, <2>6, WriteSteps
<1>6. ASSUME NEW c \in Callers, CallerNext(c)
      PROVE  Typed' /\ Queued'
  <2>1. c \in Writers /\ job[c] \in Jobs
    BY <1>1
  <2>2. ASSUME NEW j \in Jobs, job' = [job EXCEPT ![c] = j], ~Writes(j), Queued',
               UNCHANGED <<doc, tick, memory, alertVars, faults>>
        PROVE  Typed' /\ Queued'
    <3>1. /\ job' \in [Writers -> Jobs]
          /\ \A y \in Writers : Writes(job'[y]) => job'[y].base \in Documents
      BY <1>1, <2>1, <2>2 DEF Typed
    <3>. QED
      BY <2>2, <3>1 DEF Typed, AlertsTypeOK, memory, alertVars
  <2>3. ASSUME NEW text \in Published, Strategy(c, text) PROVE Typed' /\ Queued'
    <3>. DEFINE j == [job[c] EXCEPT !.pc = "snapshot", !.text = text]
    <3>1. j \in Jobs /\ j.pc = "snapshot"
      BY <2>1 DEF Jobs, Stages
    <3>2. job' = [job EXCEPT ![c] = j]
      BY <1>1, <2>1, <2>3 DEF Strategy
    <3>. HIDE DEF j
    <3>3. Queued'
      BY <2>1, <2>3, <3>1, <3>2, StaysQueued DEF Strategy, Waits, Writes
    <3>. QED
      BY <2>2, <2>3, <3>1, <3>2, <3>3 DEF Strategy, Writes
  <2>4. CASE StrategyRefused(c)
    <3>1. Queued'
      BY <2>1, <2>4, NoJobTyped, StaysQueued DEF StrategyRefused, Waits
    <3>. QED
      BY <2>2, <2>4, <3>1, NoJobTyped DEF StrategyRefused
  <2>5. CASE StrategyQueued(c)
    <3>. DEFINE kinds == IF WithLinks THEN Kinds ELSE {"tags"}
                j == [job[c] EXCEPT !.pc = "queued", !.kinds = kinds]
    <3>1. kinds \in SUBSET Kinds
      BY DEF Kinds
    <3>2. job' = [job EXCEPT ![c] = j]
      BY <1>1, <2>1, <2>5 DEF StrategyQueued
    <3>. HIDE DEF kinds
    <3>3. j \in Jobs /\ j.pc = "queued"
      BY <2>1, <3>1 DEF Jobs, Stages
    <3>. HIDE DEF j
    <3>4. Queued'
      BY <2>1, <2>5, <3>2, <3>3, EntersQueue DEF StrategyQueued, Waits
    <3>. QED
      BY <2>2, <2>5, <3>2, <3>3, <3>4 DEF StrategyQueued, Writes
  <2>. QED
    BY <1>6, <2>3, <2>4, <2>5 DEF CallerNext
<1>7. Waited \in Stamps
  <2>1. st.wait \in 0..RetryMax /\ (st.wait > 0 => st.wait - 1 \in 0..RetryMax) /\ 0 \in 0..RetryMax
    BY DEF Typed, Stamps
  <2>. QED
    BY <2>1 DEF Typed, Stamps, Waited
<1>8. CASE TickJudges
  <2>1. alerts' \in [Keys -> {None} \union Entries]
    <3>1. \A e \in {None} \union Entries : /\ Raised(e) \in {None} \union Entries
                                           /\ Cleared(e) \in {None} \union Entries
      BY EntriesTyped
    <3>2. PICK low \in BOOLEAN : alerts' = [k \in Keys |->
            CASE k = "sol" /\ low  -> Raised(Older(alerts[k]))
              [] k = "sol" /\ ~low -> Cleared(Older(alerts[k]))
              [] OTHER             -> Older(alerts[k])]
      BY <1>8 DEF TickJudges
    <3>. QED
      BY <1>4, <3>1, <3>2
  <2>2. Queued'
    BY <1>2, <1>8 DEF TickJudges
  <2>3. locked' \in BOOLEAN /\ unverified' \in BOOLEAN /\ verifiedAt' \in BOOLEAN
    BY <1>8 DEF TickJudges, Typed
  <2>. QED
    BY <1>3, <1>7, <1>8, <2>1, <2>2, <2>3 DEF TickJudges, Typed, AlertsTypeOK
<1>9. CASE TickBlind
  <2>1. alerts' \in [Keys -> {None} \union Entries]
    BY <1>4, <1>9 DEF TickBlind
  <2>2. Queued'
    BY <1>2, <1>9 DEF TickBlind
  <2>. QED
    BY <1>3, <1>7, <1>9, <2>1, <2>2 DEF TickBlind, Typed, AlertsTypeOK
<1>10. CASE TickRests
  <2>1. Queued'
    BY <1>2, <1>10 DEF TickRests
  <2>. QED
    BY <1>3, <1>10, <2>1 DEF TickRests, Typed, AlertsTypeOK, memory, alertVars
<1>11. CASE TickStamps
  <2>. DEFINE j == [NoJob EXCEPT !.pc = "queued", !.kinds = Kinds]
  <2>1. j \in Jobs /\ j.pc = "queued"
    BY DEF NoJob, Jobs, Stages
  <2>2. job' = [job EXCEPT ![Stamp] = j] /\ queue' = Append(queue, Stamp) /\ ~Waits(job[Stamp])
    BY <1>11 DEF TickStamps, StampAlone
  <2>. HIDE DEF j
  <2>3. Queued'
    BY <1>1, <2>1, <2>2, EntersQueue
  <2>4. /\ job' \in [Writers -> Jobs]
        /\ \A y \in Writers : Writes(job'[y]) => job'[y].base \in Documents
    BY <1>1, <2>1, <2>2 DEF Typed, Writes
  <2>. QED
    BY <1>3, <1>11, <2>3, <2>4 DEF TickStamps, Typed, AlertsTypeOK, memory, alertVars
<1>12. CASE StampUnnamed
  <2>1. Queued'
    BY <1>2, <1>12 DEF StampUnnamed
  <2>. QED
    BY <1>3, <1>12, <2>1, StampFailedTyped DEF StampUnnamed, Typed, AlertsTypeOK, quiet
<1>13. CASE Unlock
  <2>1. Queued'
    BY <1>2, <1>13 DEF Unlock
  <2>. QED
    BY <1>3, <1>13, <2>1 DEF Unlock, Typed, AlertsTypeOK, alertVars
<1>14. CASE Listens \/ LoseAnswer
  <2>1. AlertsTypeOK'
    BY <1>4, <1>14
       DEF Listens, LoseAnswer, GetAlerts, AnswerHeard, AnswerLost, Typed, AlertsTypeOK, News
  <2>2. faults' \in 0..MaxFaults /\ UNCHANGED <<doc, job, queue, tick, memory>>
    BY <1>3, <1>14 DEF Listens, LoseAnswer
  <2>3. Queued'
    BY <1>2, <2>2
  <2>. QED
    BY <2>1, <2>2, <2>3 DEF Typed, memory
<1>15. CASE EditedElsewhere
  <2>1. \A y \in Writers : /\ job'[y] \in Jobs /\ job'[y].pc = job[y].pc
                           /\ job'[y].base = job[y].base
    <3>1. \A y \in Writers : job'[y] \in {job[y], [job[y] EXCEPT !.seen = "stale"],
                                          [job[y] EXCEPT !.seen = "behind"]}
      BY <1>15 DEF EditedElsewhere, Overtaken
    <3>2. \A y \in Writers, seen \in {"stale", "behind"} :
            [job[y] EXCEPT !.seen = seen] \in {j \in Jobs : j.pc = job[y].pc /\ j.base = job[y].base}
      BY <1>1 DEF Jobs
    <3>. QED
      BY <1>1, <3>1, <3>2
  <2>2. Queued'
    BY <1>15, <2>1 DEF EditedElsewhere, Queued, InQueue, Waits, Writes
  <2>3. doc' \in Documents /\ job' \in [Writers -> Jobs]
    BY <1>15, <2>1, EditsAssumption DEF EditedElsewhere
  <2>. QED
    BY <1>3, <1>15, <2>1, <2>2, <2>3
       DEF EditedElsewhere, Typed, AlertsTypeOK, memory, alertVars, Writes
<1>16. CASE Crash
  <2>1. \A y \in Writers : job'[y] = NoJob
    BY <1>16 DEF Crash
  <2>2. Queued'
    BY <1>16, <2>1, NoJobTyped DEF Crash, Queued, InQueue
  <2>3. doc' \in Documents
    <3>1. \A x \in Writers : job[x].pc = "asked" => Merged(x, job[x].base) \in Documents
      BY MergedTyped DEF Typed, Writes
    <3>. QED
      BY <1>16, <3>1 DEF Crash, Typed
  <2>4. job' \in [Writers -> Jobs] /\ \A y \in Writers : ~Writes(job'[y])
    BY <1>16, <2>1, NoJobTyped DEF Crash
  <2>5. st' \in Stamps
    BY <1>16 DEF Crash, Pending, Stamps
  <2>. QED
    BY <1>3, <1>16, <2>2, <2>3, <2>4, <2>5 DEF Crash, Typed, AlertsTypeOK
<1>17. CASE UNCHANGED vars
  <2>1. Queued'
    BY <1>2, <1>17 DEF vars
  <2>. QED
    BY <1>17, <2>1 DEF vars, Typed, AlertsTypeOK, memory, alertVars
<1>. QED
  BY <1>5, <1>6, <1>8, <1>9, <1>10, <1>11, <1>12, <1>13, <1>14, <1>15, <1>16, <1>17
     DEF Next, TickNext

LEMMA StampAloneStep ==
  ASSUME Typed, StampAlone, [Next]_vars
  PROVE  StampAlone'
<1>. USE MetadataAssumption
<1>1. /\ job \in [Writers -> Jobs] /\ Stamp \in Writers /\ Stamp \notin Callers
      /\ NoJob.pc = "idle" /\ tick \in {"idle", "judged", "stamping"}
  BY DEF Typed, Writers, NoJob
<1>2. ASSUME job'[Stamp] = job[Stamp], UNCHANGED <<tick, locked, unverified>> PROVE StampAlone'
  BY <1>2 DEF StampAlone
<1>3. ASSUME job'[Stamp].pc = "idle", tick' # "stamping" PROVE StampAlone'
  BY <1>3 DEF StampAlone, Waits
<1>4. ASSUME NEW x \in Writers, WriteNext(x) \/ CallFails(x) PROVE StampAlone'
  <2>1. UNCHANGED <<locked, unverified>>
    BY <1>4, WriteSteps DEF quiet
  <2>2. CASE Ending(x)
    <3>1. Leaves(x) /\ IF x = Stamp THEN tick' = "idle" ELSE tick' = tick
      BY <2>2, EndingTyped
    <3>2. job'[Stamp] = IF x = Stamp THEN NoJob ELSE job[Stamp]
      BY <1>1, <3>1 DEF Leaves
    <3>. QED
      BY <1>1, <1>2, <1>3, <2>1, <3>1, <3>2
  <2>3. ASSUME job'[Stamp].kinds = job[Stamp].kinds, UNCHANGED tick,
               Waits(job[Stamp]) \/ job'[Stamp] = job[Stamp], job'[Stamp].pc # "snapshot"
        PROVE  StampAlone'
    BY <2>1, <2>3 DEF StampAlone
  <2>4. CASE ReadMerged(x) \/ AskMessage(x)
    <3>1. /\ x # Stamp => job'[Stamp] = job[Stamp]
          /\ UNCHANGED tick /\ job[x].pc \in {"queued", "merged"}
      BY <1>1, <2>4 DEF ReadMerged, AskMessage
    <3>2. job'[x].kinds = job[x].kinds /\ job'[x].pc \in {"merged", "asked"}
      BY <1>1, <2>4 DEF ReadMerged, AskMessage, Jobs
    <3>. QED
      BY <2>3, <3>1, <3>2 DEF Waits, StampAlone
  <2>5. CASE Put(x)
    <3>1. Overtaken(job[Stamp], "current").kinds = job[Stamp].kinds
          /\ Overtaken(job[Stamp], "current").pc = job[Stamp].pc
          /\ (Waits(job[Stamp]) \/ Overtaken(job[Stamp], "current") = job[Stamp])
      BY <1>1 DEF Overtaken, Waits, Jobs
    <3>2. job'[Stamp] = IF Stamp = x THEN [job[x] EXCEPT !.pc = "stored"]
                        ELSE Overtaken(job[Stamp], "current")
      BY <1>1, <2>5 DEF Put
    <3>3. job[x].pc = "asked" /\ UNCHANGED tick
      BY <2>5 DEF Put
    <3>4. CASE Stamp = x
      BY <1>1, <2>3, <3>2, <3>3, <3>4 DEF Waits, Jobs
    <3>5. CASE Stamp # x
      BY <2>3, <3>1, <3>2, <3>3, <3>5 DEF StampAlone
    <3>. QED
      BY <3>4, <3>5
  <2>. QED
    BY <1>4, <2>2, <2>4, <2>5, WriteSteps
<1>5. ASSUME NEW c \in Callers, CallerNext(c) PROVE StampAlone'
  BY <1>1, <1>2, <1>5
     DEF CallerNext, Strategy, StrategyRefused, StrategyQueued, memory, Writers
<1>6. CASE TickJudges \/ TickRests
  BY <1>1, <1>3, <1>6 DEF TickJudges, TickRests, TickFree, StampAlone, Waits
<1>7. CASE TickStamps
  <2>1. job'[Stamp] = [NoJob EXCEPT !.pc = "queued", !.kinds = Kinds]
    BY <1>1, <1>7 DEF TickStamps
  <2>. QED
    BY <1>7, <2>1 DEF TickStamps, StampDue, StampAlone, memory, NoJob, Waits
<1>8. CASE StampUnnamed
  BY <1>3, <1>8 DEF StampUnnamed, StampFailed, StampAlone, Waits
<1>9. CASE Unlock
  BY <1>9 DEF Unlock, StampAlone
<1>10. CASE TickBlind \/ Listens \/ LoseAnswer
  BY <1>2, <1>10 DEF TickBlind, Listens, LoseAnswer, memory
<1>11. CASE EditedElsewhere
  <2>1. job'[Stamp].kinds = job[Stamp].kinds /\ job'[Stamp].pc = job[Stamp].pc
    BY <1>1, <1>11 DEF EditedElsewhere, Overtaken, Jobs
  <2>. QED
    BY <1>11, <2>1 DEF EditedElsewhere, memory, StampAlone, Waits
<1>12. CASE Crash
  BY <1>1, <1>3, <1>12 DEF Crash
<1>13. CASE UNCHANGED vars
  BY <1>2, <1>13 DEF vars, memory
<1>. QED
  BY <1>4, <1>5, <1>6, <1>7, <1>8, <1>9, <1>10, <1>11, <1>12, <1>13 DEF Next, TickNext

LEMMA BasedStep ==
  ASSUME Typed, Queued, Based, [Next]_vars
  PROVE  Based'
<1>1. job \in [Writers -> Jobs] /\ \A y \in Writers : job[y] \in Jobs
  BY DEF Typed
<1>2. ASSUME \A y \in Writers : job'[y] = job[y] \/ ~Writes(job'[y]), doc' = doc
      PROVE  Based'
  BY <1>2 DEF Based, Writes, Merged
<1>3. ASSUME NEW x \in Writers, WriteNext(x) \/ CallFails(x) PROVE Based'
  <2>1. Turn(x) /\ \A y \in Writers : y # x => ~Writes(job[y])
    BY <1>3, WriteSteps DEF Queued, Turn
  <2>2. CASE Ending(x) /\ doc' = doc
    <3>1. \A y \in Writers : ~Writes(job'[y])
      BY <2>1, <2>2, EndingTyped, LeavesQueue
    <3>. QED
      BY <1>2, <2>2, <3>1
  <2>3. ASSUME NEW y \in Writers, y # x, job'[y] = job[y]
        PROVE  ~Writes(job'[y])
    BY <2>1, <2>3
  <2>4. CASE ReadMerged(x)
    <3>1. /\ \A y \in Writers : y # x => job'[y] = job[y]
          /\ job'[x].pc = "merged" /\ job'[x].base = doc /\ doc' = doc
      BY <1>1, <2>4 DEF ReadMerged
    <3>. QED
      BY <2>3, <3>1 DEF Based, Writes
  <2>5. CASE AskMessage(x)
    <3>1. /\ \A y \in Writers : y # x => job'[y] = job[y]
          /\ job'[x].pc = "asked" /\ job'[x].base = job[x].base /\ doc' = doc
          /\ job'[x].seen = job[x].seen /\ job[x].pc = "merged"
      BY <1>1, <2>5 DEF AskMessage
    <3>. QED
      BY <2>3, <3>1 DEF Based, Writes
  <2>6. CASE Put(x)
    <3>1. \A y \in Writers : y # x => Overtaken(job[y], "current") = job[y]
      BY <2>1 DEF Overtaken, Writes
    <3>2. /\ \A y \in Writers : y # x => job'[y] = job[y]
          /\ job'[x] = [job[x] EXCEPT !.pc = "stored"]
          /\ doc' = Merged(x, job[x].base)
      BY <1>1, <2>6, <3>1 DEF Put
    <3>3. /\ job'[x].pc = "stored" /\ job'[x].base = job[x].base
          /\ job'[x].text = job[x].text /\ job'[x].kinds = job[x].kinds
      BY <1>1, <3>2 DEF Jobs
    <3>4. doc' = Merged(x, job[x].base)'
      BY <3>2, <3>3 DEF Merged
    <3>. QED
      BY <2>3, <3>2, <3>3, <3>4 DEF Based, Writes
  <2>. QED
    BY <1>3, <2>2, <2>4, <2>5, <2>6, WriteSteps
<1>4. ASSUME NEW c \in Callers, CallerNext(c) PROVE Based'
  <2>1. c \in Writers /\ NoJob.pc = "idle"
    BY DEF Writers, NoJob
  <2>2. doc' = doc /\ \A y \in Writers : job'[y] = job[y] \/ job'[y].pc \in {"idle", "snapshot", "queued"}
    <3>1. ASSUME NEW text \in Published, Strategy(c, text)
          PROVE  job'[c].pc = "snapshot" /\ doc' = doc /\ \A y \in Writers \ {c} : job'[y] = job[y]
      BY <1>1, <2>1, <3>1 DEF Strategy
    <3>2. CASE StrategyRefused(c)
      BY <1>1, <2>1, <3>2 DEF StrategyRefused
    <3>3. CASE StrategyQueued(c)
      <4>1. job'[c].pc = "queued" /\ doc' = doc /\ \A y \in Writers \ {c} : job'[y] = job[y]
        BY <1>1, <2>1, <3>3 DEF StrategyQueued
      <4>. QED
        BY <4>1
    <3>. QED
      BY <1>4, <3>1, <3>2, <3>3 DEF CallerNext
  <2>. QED
    BY <1>2, <2>2 DEF Writes
<1>5. CASE TickStamps
  <2>1. doc' = doc /\ \A y \in Writers : job'[y] = job[y] \/ job'[y].pc = "queued"
    BY <1>1, <1>5 DEF TickStamps, NoJob
  <2>. QED
    BY <1>2, <2>1 DEF Writes
<1>6. CASE \/ TickJudges \/ TickRests \/ TickBlind \/ StampUnnamed \/ Unlock
           \/ Listens \/ LoseAnswer \/ UNCHANGED vars
  BY <1>2, <1>6 DEF TickJudges, TickRests, TickBlind, StampUnnamed, Unlock, Listens, LoseAnswer, vars
<1>7. CASE EditedElsewhere
  <2>1. \A y \in Writers : Writes(job'[y]) => job'[y].seen # "current"
    BY <1>1, <1>7 DEF EditedElsewhere, Overtaken, Writes, Jobs
  <2>. QED
    BY <2>1 DEF Based, Writes
<1>8. CASE Crash
  BY <1>8 DEF Crash, Based, NoJob
<1>. QED
  BY <1>3, <1>4, <1>5, <1>6, <1>7, <1>8 DEF Next, TickNext

(***************************************************************************)
(* The inductive invariant, and what follows from it.                      *)
(***************************************************************************)
IInv == Typed /\ Queued /\ StampAlone /\ Based

LEMMA Inductive == Spec => []IInv
<1>1. Init => IInv
  <2>. SUFFICES ASSUME Init PROVE IInv
    OBVIOUS
  <2>1. \A x \in Writers : job[x] = NoJob
    BY DEF Init
  <2>2. StampAlone /\ Based
    BY <2>1, NoJobTyped DEF Init, StampAlone, Based, NoJob, Writers
  <2>. QED
    BY <2>2, InitTyped DEF IInv
<1>2. IInv /\ [Next]_vars => IInv'
  BY TypedStep, StampAloneStep, BasedStep DEF IInv
<1>. QED
  BY <1>1, <1>2, PTL DEF Spec

\* Every value is of its type, and the writers waiting or writing are the
\* queue's, each once, the one writing first.
THEOREM TypeCorrect == Spec => []TypeOK
<1>1. IInv => TypeOK
  BY DEF IInv, Typed, Queued, TypeOK, Jobs, Stages, Stamps, Waits, Writes
<1>. QED
  BY <1>1, Inductive, PTL

\* A put replaces the very document its merge read, unless somebody edited it
\* elsewhere meanwhile: strategies and the stamp drop nothing of each other's.
THEOREM EditsNotLost == Spec => NoLostEdit
<1>1. IInv /\ [Next]_vars =>
        [\A x \in Writers : Put(x) /\ job[x].seen = "current" => job[x].base = doc]_vars
  BY DEF IInv, Based, Put
<1>. QED
  BY <1>1, Inductive, PTL DEF Spec, NoLostEdit

\* The stamp puts nothing while the signer is locked or its invariants unread.
THEOREM StampStaysHeld == Spec => StampHeld
<1>1. IInv /\ [Next]_vars => [Put(Stamp) => ~locked /\ ~unverified]_vars
  BY DEF IInv, StampAlone, Put, Waits
<1>. QED
  BY <1>1, Inductive, PTL DEF Spec, StampHeld

\* A write that nobody overtook marks the stamp done only over a document that
\* carries every configured tag and link.
THEOREM StampCarried == Spec => StampedMeansCarried
<1>. DEFINE Carried(x) ==
       PutAnswered(x) /\ job[x].seen = "current" /\ st.state # "ok" /\ st'.state = "ok"
       => doc.has = Kinds
<1>1. ASSUME IInv, NEW x \in Writers PROVE Carried(x)
  <2>. SUFFICES ASSUME PutAnswered(x), job[x].seen = "current",
                       st.state # "ok", st'.state = "ok"
                PROVE  doc.has = Kinds
    OBVIOUS
  <2>1. /\ doc = Merged(x, job[x].base) /\ job[x].base \in Documents /\ job[x] \in Jobs
        /\ Done(x, doc)
    BY <1>1 DEF IInv, Typed, Based, PutAnswered, Writes
  <2>2. CASE x = Stamp
    <3>1. job[x].kinds = Kinds
      BY <1>1, <2>2 DEF IInv, StampAlone, PutAnswered, Waits
    <3>2. doc.has = job[x].base.has \union Kinds /\ job[x].base.has \subseteq Kinds
      BY <1>1, <2>1, <3>1, MergedTyped DEF IInv, Documents
    <3>. QED
      BY <3>2
  <2>3. CASE x # Stamp
    BY <2>1, <2>3 DEF Done, Carries
  <2>. QED
    BY <2>2, <2>3
<1>2. IInv /\ [Next]_vars => [\A x \in Writers : Carried(x)]_vars
  BY <1>1
<1>. QED
  BY <1>2, Inductive, PTL DEF Spec, StampedMeansCarried
=============================================================================
