----------------------------- MODULE MetadataDoc -----------------------------
(***************************************************************************)
(* The portfolio's metadata document: metadata.js writeDocument and        *)
(* stampMetadata, verbs.js strategy, and the tick around the stamp.        *)
(*                                                                         *)
(* The document is stored by a service.  A write reads it, merges, asks    *)
(* the service for a message, signs it and puts the whole block back.  Two *)
(* writers share one queue: the stamp at the end of a tick, which sets the *)
(* configured tags and links, and the strategy verb, which also sets the   *)
(* description.  Anyone with the curator key may edit it elsewhere.        *)
(*                                                                         *)
(* A tick is modelled as its verdict on the invariants, its standing alert *)
(* on the signer's lamports, and its stamp; unlock as its effect.  The     *)
(* pause and the hourly rate, which only refuse a strategy before it       *)
(* starts, are left out.  Time is counted in ticks.                        *)
(* A definition whose name ends in _Mutant is the next one with a bug the  *)
(* code could have.                                                        *)
(***************************************************************************)
EXTENDS Alerts, Sequences

CONSTANTS
  Callers,      \* concurrent strategy requests
  Stamp,        \* the loop's stamp
  Texts,        \* descriptions a document may have
  Published,    \* those a strategy may set
  RetryMax,     \* STAMP_RETRY_MAX_SECS, in ticks
  AlertAfter,   \* STAMP_ALERT_AFTER
  Edits,        \* the documents an edit elsewhere may leave
  MaxFaults     \* bound on failed calls, lost answers, edits elsewhere and restarts

ASSUME MetadataAssumption ==
  /\ Published \subseteq Texts /\ Stamp \notin Callers /\ {"metadata", "sol"} \subseteq Keys
  /\ RetryMax \in Nat \ {0} /\ AlertAfter \in Nat \ {0} /\ MaxFaults \in Nat

Kinds == {"tags", "links"}
Documents == [has : SUBSET Kinds, room : SUBSET Kinds, description : Texts]
ASSUME EditsAssumption == Edits \subseteq Documents

VARIABLES
  doc,         \* the stored document: which configured kinds it carries, which
               \* it has room for, and its description
  job,         \* the write of each writer
  queue,       \* WRITES: the writers waiting, the one writing first
  st,          \* ctx.state.metadata
  tick,        \* the tick in flight: "idle", "judged" or "stamping"
  locked,      \* ctx.state.selfLocked
  unverified,  \* ctx.state.invariantsUnverified
  verifiedAt,  \* has any tick verified every invariant (invariantsVerifiedAt)?
  faults

memory == <<st, locked, unverified, verifiedAt>>
vars   == <<doc, job, queue, tick, memory, alertVars, faults>>

Writers == Callers \union {Stamp}
NoJob == [pc |-> "idle", text |-> None, kinds |-> {}, base |-> None, seen |-> "current"]
Pending == [state |-> "pending", attempts |-> 0, wait |-> 0]

Init ==
  /\ AlertsInit
  /\ doc \in Edits
  /\ job = [x \in Writers |-> NoJob]
  /\ queue = <<>>
  /\ st = Pending
  /\ tick = "idle"
  /\ locked = FALSE /\ unverified = FALSE /\ verifiedAt = FALSE
  /\ faults = 0

Fault == faults < MaxFaults /\ faults' = faults + 1

(***************************************************************************)
(* How a write ends: the queue moves on, and its writer with it.           *)
(***************************************************************************)
Released_Mutant(x) == IF x = Stamp THEN Tail(queue) ELSE queue
Released(x) == Tail(queue)

Turn_Mutant(x) == job[x].pc \notin {"idle", "snapshot"}
Turn(x) == queue # <<>> /\ Head(queue) = x

Leaves(x) == job' = [job EXCEPT ![x] = NoJob] /\ queue' = Released(x)

Ok == [state |-> "ok", attempts |-> 0, wait |-> 0]
Carries_Mutant(document) == "tags" \in document.has
Carries(document) == document.has = Kinds

Done(x, document) ==
  /\ Leaves(x)
  /\ IF x = Stamp
     THEN /\ st' = Ok
          /\ alerts' = [alerts EXCEPT !["metadata"] = Cleared(@)]
          /\ tick' = "idle"
     ELSE /\ st' = IF Carries(document) THEN Ok ELSE st
          /\ UNCHANGED <<alerts, tick>>

Backoff(attempts) == IF 2 ^ attempts \in 0..RetryMax THEN 2 ^ attempts ELSE RetryMax

\* A stamp that failed, in the queue or before it: "full" is not tried again.
StampFailed(code) ==
  LET attempts == st.attempts + 1
  IN  /\ st' = [attempts |-> attempts, state |-> code,
                wait |-> IF code = "full" THEN 0 ELSE Backoff(attempts)]
      /\ alerts' = IF code = "full" \/ attempts >= AlertAfter
                   THEN [alerts EXCEPT !["metadata"] = Raised(@)] ELSE alerts
      /\ tick' = "idle"

Failed(x, code) ==
  /\ Leaves(x)
  /\ IF x = Stamp THEN StampFailed(code) ELSE UNCHANGED <<st, alerts, tick>>

(***************************************************************************)
(* A write, one service call at a time.                                    *)
(***************************************************************************)
Missing(x) == job[x].kinds \ doc.has
Fits(x) == Missing(x) \subseteq doc.room
Merged(x, document) ==
  [document EXCEPT !.has = @ \union job[x].kinds,
                   !.description = IF job[x].text = None THEN @ ELSE job[x].text]
quiet == <<locked, unverified, verifiedAt, answer, heard>>

ReadFull(x) ==
  /\ Turn(x) /\ job[x].pc = "queued"
  /\ ~Fits(x)
  /\ Failed(x, "full")
  /\ UNCHANGED <<doc, quiet, faults>>

ReadUnchanged(x) ==
  /\ Turn(x) /\ job[x].pc = "queued"
  /\ Fits(x) /\ Merged(x, doc) = doc
  /\ Done(x, doc)
  /\ UNCHANGED <<doc, quiet, faults>>

ReadMerged(x) ==
  /\ Turn(x) /\ job[x].pc = "queued"
  /\ Fits(x) /\ Merged(x, doc) # doc
  /\ job' = [job EXCEPT ![x].pc = "merged", ![x].base = doc]
  /\ UNCHANGED <<doc, queue, tick, memory, alertVars, faults>>

AskMessage(x) ==
  /\ Turn(x) /\ job[x].pc = "merged"
  /\ job' = [job EXCEPT ![x].pc = "asked"]
  /\ UNCHANGED <<doc, queue, tick, memory, alertVars, faults>>

\* The service refuses a message older than its document (409 STALE_REQUEST).
Overtaken(j, seen) ==
  IF j.pc = "asked" THEN [j EXCEPT !.seen = "stale"]
  ELSE IF j.pc \in {"merged", "stored"} /\ j.seen = "current" THEN [j EXCEPT !.seen = seen]
  ELSE j

Put(x) ==
  /\ Turn(x) /\ job[x].pc = "asked"
  /\ job[x].seen # "stale"
  /\ doc' = Merged(x, job[x].base)
  /\ job' = [y \in Writers |-> IF y = x THEN [job[x] EXCEPT !.pc = "stored"]
                                ELSE Overtaken(job[y], "current")]
  /\ UNCHANGED <<queue, tick, memory, alertVars, faults>>

PutStale(x) ==
  /\ Turn(x) /\ job[x].pc = "asked"
  /\ job[x].seen = "stale"
  /\ Failed(x, "failed")
  /\ UNCHANGED <<doc, quiet, faults>>

PutAnswered(x) ==
  /\ Turn(x) /\ job[x].pc = "stored"
  /\ Done(x, Merged(x, job[x].base))
  /\ UNCHANGED <<doc, quiet, faults>>

\* A call fails, or its answer is lost: the document may be stored all the same.
\* A put that lands after its writer gave up on it is an edit elsewhere.
CallFails(x) ==
  /\ Turn(x) /\ job[x].pc # "idle"
  /\ Fault
  /\ Failed(x, "failed")
  /\ UNCHANGED <<doc, quiet>>

(***************************************************************************)
(* The strategy verb.                                                      *)
(***************************************************************************)
Strategy(c, text) ==
  /\ job[c].pc = "idle"
  /\ ~locked
  /\ job' = [job EXCEPT ![c].pc = "snapshot", ![c].text = text]
  /\ UNCHANGED <<doc, queue, tick, memory, alertVars, faults>>

StrategyRefused(c) ==
  /\ job[c].pc = "snapshot"
  /\ job' = [job EXCEPT ![c] = NoJob]
  /\ UNCHANGED <<doc, queue, tick, memory, alertVars, faults>>

\* The links ride along only when the last tick verified the invariants.
WithLinks == verifiedAt /\ ~unverified
StrategyQueued(c) ==
  /\ job[c].pc = "snapshot"
  /\ job' = [job EXCEPT ![c].pc = "queued", ![c].kinds = IF WithLinks THEN Kinds ELSE {"tags"}]
  /\ queue' = Append(queue, c)
  /\ UNCHANGED <<doc, tick, memory, alertVars, faults>>

(***************************************************************************)
(* The tick.                                                               *)
(***************************************************************************)
\* One tick at a time: a timer that fires during a tick joins it.
TickFree_Mutant == job[Stamp].pc # "queued"
TickFree == tick = "idle"

Waited == [st EXCEPT !.wait = IF @ > 0 THEN @ - 1 ELSE 0]

TickJudges ==
  /\ TickFree
  /\ \E drift, unread, low \in BOOLEAN :
       /\ unverified' = unread
       /\ verifiedAt' = (verifiedAt \/ (~drift /\ ~unread))
       /\ locked' = (locked \/ drift)
       /\ alerts' = [k \in Keys |->
            CASE k = "sol" /\ low  -> Raised(Older(alerts[k]))
              [] k = "sol" /\ ~low -> Cleared(Older(alerts[k]))
              [] OTHER             -> Older(alerts[k])]
  /\ st' = Waited
  /\ tick' = "judged"
  /\ UNCHANGED <<doc, job, queue, answer, heard, faults>>

TickBlind ==
  /\ TickFree
  /\ st' = Waited
  /\ alerts' = [k \in Keys |-> Older(alerts[k])]
  /\ UNCHANGED <<doc, job, queue, tick, locked, unverified, verifiedAt, answer, heard, faults>>

StampDue == /\ st.state \notin {"ok", "full"}
            /\ ~locked /\ ~unverified
            /\ st.wait = 0

TickRests ==
  /\ tick = "judged"
  /\ ~StampDue
  /\ tick' = "idle"
  /\ UNCHANGED <<doc, job, queue, memory, alertVars, faults>>

TickStamps ==
  /\ tick = "judged"
  /\ StampDue
  /\ tick' = "stamping"
  /\ job' = [job EXCEPT ![Stamp] = [NoJob EXCEPT !.pc = "queued", !.kinds = Kinds]]
  /\ queue' = Append(queue, Stamp)
  /\ UNCHANGED <<doc, memory, alertVars, faults>>

\* The portfolio row names no Portfolio key: the stamp fails before the queue.
StampUnnamed ==
  /\ tick = "judged"
  /\ StampDue
  /\ Fault
  /\ StampFailed("failed")
  /\ UNCHANGED <<doc, job, queue, quiet>>

Unlock ==
  /\ locked
  /\ locked' = FALSE
  /\ UNCHANGED <<doc, job, queue, tick, st, unverified, verifiedAt, alertVars, faults>>

(***************************************************************************)
(* The world.                                                              *)
(***************************************************************************)
EditedElsewhere ==
  /\ Fault
  /\ doc' \in Edits \ {doc}
  /\ job' = [x \in Writers |-> Overtaken(job[x], "behind")]
  /\ UNCHANGED <<queue, tick, memory, alertVars>>

LoseAnswer ==
  /\ Fault
  /\ AnswerLost
  /\ UNCHANGED <<doc, job, queue, tick, memory>>

\* All of this is memory but the lock, which the journal keeps; a put on the
\* wire may still be stored.
Crash ==
  /\ Fault
  /\ doc' \in {doc} \union {Merged(x, job[x].base) :
                              x \in {y \in Writers : job[y].pc = "asked" /\ job[y].seen # "stale"}}
  /\ job' = [x \in Writers |-> NoJob]
  /\ queue' = <<>>
  /\ st' = Pending
  /\ tick' = "idle"
  /\ unverified' = FALSE /\ verifiedAt' = FALSE
  /\ alerts' = [k \in Keys |-> None]
  /\ answer' = None
  /\ UNCHANGED <<locked, heard>>

WriteNext(x) == \/ ReadFull(x) \/ ReadUnchanged(x) \/ ReadMerged(x) \/ AskMessage(x)
                \/ Put(x) \/ PutStale(x) \/ PutAnswered(x)
TickNext  == TickJudges \/ TickRests \/ TickStamps
Listens   == (GetAlerts \/ AnswerHeard) /\ UNCHANGED <<doc, job, queue, tick, memory, faults>>
CallerNext(c) == \/ \E text \in Published : Strategy(c, text)
                 \/ StrategyRefused(c) \/ StrategyQueued(c)

Next == \/ \E x \in Writers : WriteNext(x) \/ CallFails(x)
        \/ \E c \in Callers : CallerNext(c)
        \/ TickNext \/ TickBlind \/ StampUnnamed \/ Unlock
        \/ Listens \/ LoseAnswer \/ EditedElsewhere \/ Crash

Spec == Init /\ [][Next]_vars

(***************************************************************************)
(* Fairness: the timer keeps ticking, every service call ends (the client  *)
(* has a timeout), the health script keeps asking for the alerts.  Nothing *)
(* is assumed of callers, of what a tick finds, or of an operator.         *)
(***************************************************************************)
Fairness == /\ WF_vars(TickNext)
            /\ \A x \in Writers : WF_vars(WriteNext(x))
            /\ WF_vars(Listens)
FairSpec == Spec /\ Fairness

(***************************************************************************)
(* Properties.                                                             *)
(***************************************************************************)
InQueue == {queue[i] : i \in DOMAIN queue}

\* Types, and the queue: a writer is in it once while it waits or writes, and
\* only the first is past its turn.
TypeOK ==
  /\ AlertsTypeOK
  /\ doc \in Documents
  /\ job \in [Writers -> [pc : {"idle", "snapshot", "queued", "merged", "asked", "stored"},
                          text : Texts \union {None}, kinds : SUBSET Kinds,
                          base : Documents \union {None},
                          seen : {"current", "behind", "stale"}]]
  /\ st \in [state : {"pending", "ok", "failed", "full"}, attempts : Nat, wait : 0..RetryMax]
  /\ tick \in {"idle", "judged", "stamping"}
  /\ {locked, unverified, verifiedAt} \subseteq BOOLEAN
  /\ faults \in 0..MaxFaults
  /\ InQueue = {x \in Writers : job[x].pc \notin {"idle", "snapshot"}}
  /\ \A i, j \in DOMAIN queue : queue[i] = queue[j] => i = j
  /\ \A x \in Writers : job[x].pc \in {"merged", "asked", "stored"} => Head(queue) = x

\* The queue of writeDocument: a put replaces the very document its merge read,
\* unless somebody edited it elsewhere meanwhile.  The service takes the whole
\* block, so anything else would drop a description, a tag or a link.
NoLostEdit ==
  [][\A x \in Writers : Put(x) /\ job[x].seen = "current" => job[x].base = doc]_vars

\* README section 2.1: the stamp runs "not while self-locked, and not on a tick
\* whose invariants could not be read": nor does a lock or a verdict that comes
\* up while it waits for the queue and the service find it still writing.
StampHeld == [][Put(Stamp) => ~locked /\ ~unverified]_vars

\* The stamp counts as done, by its own write or by a strategy's, only when the
\* document carries every configured tag and link.
StampedMeansCarried ==
  [][\A x \in Writers :
       PutAnswered(x) /\ job[x].seen = "current" /\ st.state # "ok" /\ st'.state = "ok"
       => doc.has = Kinds]_vars

\* README section 2.1: each tick runs the stamp "until one read shows every tag
\* and every link [...] or one write sets them", or there is no room for them.
\* Calls that fail, callers in the queue and restarts only delay it; a lock or
\* unread invariants that keep coming back may hold it for good.
EventuallyStamped ==
  <>[](st.state \in {"ok", "full"}) \/ []<>(locked \/ unverified)

\* README section 2, GET /alerts: a key is delivered once, "again after 6 h if
\* still raised".  A low balance that lasts is heard of, even when the answer
\* that carried it was lost.
LowSolHeard == []([]Standing(alerts["sol"]) => <>(heard["sol"] = "raised"))
=============================================================================
