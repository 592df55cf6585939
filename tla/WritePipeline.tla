---------------------------- MODULE WritePipeline ----------------------------
(***************************************************************************)
(* The write pipeline of the curator signer: verbs.js runWrite, what it    *)
(* reads and writes between its awaits, and the operations that run in     *)
(* between on the same event loop: pause, resume, unlock, the loop's       *)
(* verdict on the invariants, records that rebuild the ledger, a restart.  *)
(*                                                                         *)
(* A request walks idle -> snapshot -> checked -> landed -> idle.  The     *)
(* hard rules run before the snapshot is awaited, the policy after it; the *)
(* build, the decoding, the signature and the send follow with no check in *)
(* between, so they are one stage.  The journal is a file that survives a  *)
(* crash; it is abstracted to what rebuildLedger makes of it.  The ledger  *)
(* in memory is what the caps are judged by.                               *)
(*                                                                         *)
(* A behaviour is one hour of the signer, which may hold one UTC midnight, *)
(* so no write attempt leaves the hourly window.  Every deposit has the    *)
(* same size, one unit of the daily cap.  A definition whose name ends in  *)
(* _Mutant is the next one with a bug the code could have.                 *)
(***************************************************************************)
EXTENDS Integers, FiniteSets

CONSTANTS
  Callers,       \* concurrent HTTP requests
  Loop,          \* the tick, which sends through the same pipeline
  Cap,           \* policy.deposit.dailyCapUsd, in deposits
  MaxAttempts,   \* policy.rate.maxWriteAttemptsPerHour
  StartPaused,   \* CURATOR_START_PAUSED
  Faults,        \* how an append may fail: "unwritten" (a full disk) or
                 \* "unsynced" (fsync fails, and the line is on the file)
  ReadFails,     \* may the accountant read fail?
  Drifts,        \* the on-chain accounts that may drift, "none" among them
  MaxStarts,     \* bound on requests
  MaxCrashes     \* bound on restarts

ASSUME CallersAssumption == IsFiniteSet(Callers) /\ Callers # {} /\ Loop \notin Callers
ASSUME CapsAssumption ==
  /\ Cap \in Nat /\ MaxAttempts \in Nat \ {0}
  /\ StartPaused \in BOOLEAN /\ ReadFails \in BOOLEAN
  /\ Faults \subseteq {"unwritten", "unsynced"}
  /\ "none" \in Drifts /\ Drifts \subseteq {"none", "portfolio", "accountant"}
  /\ MaxStarts \in Nat /\ MaxCrashes \in Nat

VARIABLES
  req,         \* one request per client
  paused,      \* ctx.state.paused
  locked,      \* ctx.state.selfLocked
  verdict,     \* ctx.state.invariantsUnverified, "none" before the first tick
  ledger,      \* ctx.state.ledger: write attempts of the hour, deposits of the day
  fromJournal, \* ctx.state.ledgerFromJournal
  room,        \* has a request room under the hourly rate: "yes", "no", or only
               \* once a "rebuilt" ledger forgets the attempts in flight?
  tick,        \* the tick in flight and what it saw of the invariants
  unlock,      \* an unlock in flight: "idle", or "clear" when it saw no drift
  file,        \* the journal
  drift,       \* which on-chain account has drifted
  readable,    \* can the accountant be read?
  deposited,   \* deposits the chain executed today
  recorded,    \* sends of the hour and deposits of the day journaled with no error
  midnight,    \* has the day changed?
  started, crashes

switches == <<paused, locked, verdict, tick, unlock>>
books    == <<ledger, fromJournal, room>>
world    == <<drift, readable>>
chain    == <<deposited, recorded>>
bounds   == <<midnight, started, crashes>>
vars     == <<req, switches, books, file, world, chain, bounds>>

Clients == Callers \union {Loop}
Verbs   == {"deposit", "apply", "cancel", "ops"}
Idle    == [pc |-> "idle", verb |-> "none"]
NoTick  == [pc |-> "idle", drift |-> FALSE, unverified |-> FALSE]
Readings == {TRUE} \union {~ReadFails}

Init ==
  /\ req = [c \in Clients |-> Idle]
  /\ paused = StartPaused
  /\ locked = FALSE
  /\ verdict = "none"
  /\ ledger = [attempts |-> 0, deposits |-> 0]
  /\ fromJournal = FALSE
  /\ room = [c \in Clients |-> "no"]
  /\ tick = NoTick
  /\ unlock = "idle"
  /\ file = [attempts |-> 0, deposits |-> 0, paused |-> FALSE, locked |-> FALSE]
  /\ drift \in Drifts
  /\ readable \in Readings
  /\ deposited = 0
  /\ recorded = [sends |-> 0, deposits |-> 0]
  /\ midnight = FALSE
  /\ started = 0
  /\ crashes = 0

(***************************************************************************)
(* The journal.  journalAppend rebuilds the ledger from the file after     *)
(* every append it makes; an append that fails is logged and forgotten.    *)
(***************************************************************************)
Rebuilt_Mutant(record) == [attempts |-> 0, deposits |-> record.deposits]
Rebuilt(record) == [attempts |-> record.attempts, deposits |-> record.deposits]

Appended(record) ==
  /\ file' = record
  /\ ledger' = Rebuilt(record)
  /\ fromJournal' = TRUE
  /\ room' = [c \in Clients |-> IF room[c] = "rebuilt" THEN "yes" ELSE room[c]]
NotAppended(record, kept) ==
  /\ \/ "unwritten" \in Faults /\ file' = file
     \/ "unsynced" \in Faults /\ file' = record
  /\ ledger' = kept
  /\ UNCHANGED <<fromJournal, room>>
Journal(record, kept) == Appended(record) \/ NotAppended(record, kept)

Units(verb) == IF verb = "deposit" THEN 1 ELSE 0
Attempted(f) == [f EXCEPT !.attempts = @ + 1]
Sent_Mutant(f, verb) == [f EXCEPT !.deposits = @ + Units(verb)]
Sent(f, verb) == [f EXCEPT !.attempts = @ + 1, !.deposits = @ + Units(verb)]

(***************************************************************************)
(* A write: counted first, then the hard rules.                            *)
(***************************************************************************)
Pushed == [ledger EXCEPT !.attempts = @ + 1]
PausePasses(verb) == verb \in {"cancel", "ops"}

Barred(verb) ==
  \/ locked
  \/ paused /\ ~PausePasses(verb)
  \/ verdict = "unverified" /\ ~PausePasses(verb)

Arrives(c) == req[c].pc = "idle" /\ started < MaxStarts /\ started' = started + 1

WithinRate_Mutant(l) == l.attempts <= MaxAttempts
WithinRate(l) == l.attempts < MaxAttempts

\* The rate is judged after the snapshot, by the attempts the ledger then holds
\* up to the second the request came in: those it held, or, once rebuilt, those
\* the journal held, the request's own attempt not among them.
Room == IF WithinRate(Pushed) THEN "yes"
        ELSE IF WithinRate(Rebuilt(file)) THEN "rebuilt" ELSE "no"

Start(c, verb) ==
  /\ Arrives(c)
  /\ ~Barred(verb)
  /\ req' = [req EXCEPT ![c] = [pc |-> "snapshot", verb |-> verb]]
  /\ ledger' = Pushed
  /\ room' = [room EXCEPT ![c] = Room]
  /\ UNCHANGED <<switches, fromJournal, file, world, chain, midnight, crashes>>

\* Barred, or refused for its mint, its session or its token.
StartRefused(c) ==
  /\ Arrives(c)
  /\ Journal(Attempted(file), Pushed)
  /\ UNCHANGED <<req, switches, world, chain, midnight, crashes>>

(***************************************************************************)
(* The snapshot is there: evaluateWrite, then the verb's own policy.       *)
(***************************************************************************)
WithinCap_Mutant(l, verb) == verb = "deposit" => l.deposits <= Cap
WithinCap(l, verb) == verb = "deposit" => l.deposits + 1 <= Cap

Evaluate(c) ==
  /\ req[c].pc = "snapshot"
  /\ ~locked
  /\ paused => PausePasses(req[c].verb)
  /\ room[c] = "yes"
  /\ WithinCap(ledger, req[c].verb)
  /\ req' = [req EXCEPT ![c].pc = "checked"]
  /\ UNCHANGED <<switches, books, file, world, chain, bounds>>

\* The loop's first send of a tick brings its own snapshot: nothing is awaited.
LoopSends ==
  /\ Arrives(Loop)
  /\ ~Barred("apply")
  /\ WithinRate(Pushed)
  /\ req' = [req EXCEPT ![Loop] = [pc |-> "checked", verb |-> "apply"]]
  /\ ledger' = Pushed
  /\ UNCHANGED <<switches, fromJournal, room, file, world, chain, midnight, crashes>>

Ends(c) == req' = [req EXCEPT ![c] = Idle]

\* Refused by policy, gates, client, decoder, signer or chain.
Refused(c) ==
  /\ req[c].pc \in {"snapshot", "checked"}
  /\ Ends(c)
  /\ Journal(Attempted(file), ledger)
  /\ UNCHANGED <<switches, world, chain, bounds>>

RateLimited(c) ==
  /\ req[c].pc = "snapshot"
  /\ room[c] # "yes"
  /\ Refused(c)

\* POST /apply found the change applied: a record that counts no attempt.
ApplyStops(c) ==
  /\ c # Loop
  /\ req[c].pc = "snapshot"
  /\ req[c].verb = "apply"
  /\ Ends(c)
  /\ Journal(file, ledger)
  /\ UNCHANGED <<switches, world, chain, bounds>>

Land(c) ==
  /\ req[c].pc = "checked"
  /\ req' = [req EXCEPT ![c].pc = "landed"]
  /\ deposited' = deposited + Units(req[c].verb)
  /\ UNCHANGED <<switches, books, file, world, recorded, bounds>>

\* The send is confirmed and journaled.  bumpLedger runs only while no append
\* has rebuilt the ledger yet.
Confirm(c) ==
  /\ req[c].pc = "landed"
  /\ Ends(c)
  /\ \/ /\ Appended(Sent(file, req[c].verb))
        /\ recorded' = [sends |-> recorded.sends + 1,
                        deposits |-> recorded.deposits + Units(req[c].verb)]
     \/ /\ NotAppended(Sent(file, req[c].verb),
                       IF fromJournal THEN ledger
                       ELSE [ledger EXCEPT !.deposits = @ + Units(req[c].verb)])
        /\ UNCHANGED recorded
  /\ UNCHANGED <<switches, world, deposited, bounds>>

\* The chain executed it, the answer never came: journaled as a refusal.
Unanswered(c) ==
  /\ req[c].pc = "landed"
  /\ Ends(c)
  /\ Journal(Attempted(file), ledger)
  /\ UNCHANGED <<switches, world, chain, bounds>>

(***************************************************************************)
(* The switches.                                                           *)
(***************************************************************************)
Switch(on) ==
  /\ paused' = on
  /\ Journal([file EXCEPT !.paused = on], ledger)
  /\ UNCHANGED <<req, locked, verdict, tick, unlock, world, chain, bounds>>
Pause  == Switch(TRUE)
Resume == Switch(FALSE)

\* What checkInvariants says now: a drift it can see, and what it cannot read.
DriftSeen == drift = "portfolio" \/ (drift = "accountant" /\ readable)

TickRead ==
  /\ tick.pc = "idle"
  /\ tick' = [pc |-> "judge", drift |-> DriftSeen, unverified |-> ~readable]
  /\ UNCHANGED <<req, paused, locked, verdict, unlock, books, file, world, chain, bounds>>

\* The loop appends the lock by itself: no rebuild of the ledger.
TickJudges ==
  /\ tick.pc = "judge"
  /\ tick' = NoTick
  /\ verdict' = IF tick.unverified THEN "unverified" ELSE "verified"
  /\ locked' = (locked \/ tick.drift)
  /\ \/ file' = IF tick.drift /\ ~locked THEN [file EXCEPT !.locked = TRUE] ELSE file
     \/ "unwritten" \in Faults /\ UNCHANGED file
  /\ UNCHANGED <<req, paused, unlock, books, world, chain, bounds>>

\* POST /unlock reads the chain, then judges what it read.  One that sees the
\* drift journals its refusal and changes nothing else (OtherRecord).
UnlockRead ==
  /\ locked
  /\ unlock = "idle"
  /\ ~DriftSeen
  /\ unlock' = "clear"
  /\ UNCHANGED <<req, paused, locked, verdict, tick, books, file, world, chain, bounds>>

Unlock ==
  /\ unlock = "clear"
  /\ unlock' = "idle"
  /\ locked' = FALSE
  /\ Journal([file EXCEPT !.locked = FALSE], ledger)
  /\ UNCHANGED <<req, paused, verdict, tick, world, chain, bounds>>

(***************************************************************************)
(* The rest of the process, and the world.                                 *)
(***************************************************************************)
\* A heartbeat, a note, an alert, a review: the ledger is rebuilt.
OtherRecord ==
  /\ Appended(file)
  /\ UNCHANGED <<req, switches, world, chain, bounds>>

\* The file's deposits are yesterday's from now on; the ledger's count stays
\* until the next rebuild.
Midnight ==
  /\ ~midnight
  /\ midnight' = TRUE
  /\ file' = [file EXCEPT !.deposits = 0]
  /\ deposited' = 0
  /\ recorded' = [recorded EXCEPT !.deposits = 0]
  /\ UNCHANGED <<req, switches, books, world, started, crashes>>

WorldTurns ==
  /\ drift' \in Drifts
  /\ readable' \in Readings
  /\ UNCHANGED <<req, switches, books, file, chain, bounds>>

Booted_Mutant(f) == StartPaused
Booted(f) == StartPaused \/ f.paused

\* The process dies and boots again on the journal it left.
Crash ==
  /\ crashes < MaxCrashes /\ crashes' = crashes + 1
  /\ req' = [c \in Clients |-> Idle]
  /\ paused' = Booted(file)
  /\ locked' = file.locked
  /\ verdict' = "none"
  /\ tick' = NoTick
  /\ unlock' = "idle"
  /\ ledger' = Rebuilt(file)
  /\ fromJournal' = FALSE
  /\ room' = [c \in Clients |-> "no"]
  /\ UNCHANGED <<file, world, chain, midnight, started>>

RequestNext(c) == Evaluate(c) \/ Refused(c) \/ RateLimited(c) \/ ApplyStops(c)
                  \/ Land(c) \/ Confirm(c) \/ Unanswered(c)
CallerNext(c)  == StartRefused(c) \/ \E verb \in Verbs : Start(c, verb)
LoopNext       == LoopSends \/ StartRefused(Loop) \/ Start(Loop, "apply")
SwitchNext     == Pause \/ Resume \/ TickRead \/ TickJudges \/ UnlockRead \/ Unlock
WorldNext      == OtherRecord \/ Midnight \/ WorldTurns \/ Crash

Next == \/ \E c \in Callers : CallerNext(c)
        \/ LoopNext
        \/ \E c \in Clients : RequestNext(c)
        \/ SwitchNext
        \/ WorldNext

Spec == Init /\ [][Next]_vars

(***************************************************************************)
(* Properties.                                                             *)
(***************************************************************************)
Counts == [attempts : Nat, deposits : Nat]

\* Types; every send and deposit journaled without an error is on the file.
TypeOK ==
  /\ req \in [Clients -> [pc : {"idle", "snapshot", "checked", "landed"},
                          verb : Verbs \union {"none"}]]
  /\ req[Loop].verb \in {"apply", "none"}
  /\ paused \in BOOLEAN /\ locked \in BOOLEAN
  /\ verdict \in {"none", "unverified", "verified"}
  /\ ledger \in Counts
  /\ fromJournal \in BOOLEAN
  /\ room \in [Clients -> {"yes", "rebuilt", "no"}]
  /\ tick \in [pc : {"idle", "judge"}, drift : BOOLEAN, unverified : BOOLEAN]
  /\ unlock \in {"idle", "clear"}
  /\ file \in [attempts : Nat, deposits : Nat, paused : BOOLEAN, locked : BOOLEAN]
  /\ recorded \in [sends : Nat, deposits : Nat]
  /\ recorded.sends <= file.attempts /\ recorded.deposits <= file.deposits
  /\ drift \in Drifts /\ readable \in BOOLEAN
  /\ deposited \in Nat
  /\ midnight \in BOOLEAN /\ started \in Nat /\ crashes \in Nat

\* The ledger the caps are judged by never counts less than the journal: not
\* after a rebuild in the middle of another write, a midnight or a restart, nor
\* after an append that wrote nothing.
LedgerCoversFile ==
  /\ ledger.attempts >= file.attempts
  /\ ledger.deposits >= file.deposits

LandedDeposits == {c \in Callers : req[c].pc = "landed" /\ req[c].verb = "deposit"}

\* Deposits are judged before they are built and counted after they landed, so
\* the other callers' deposits on their way pass the daily cap as well.  Those
\* the journal never saw (a lost answer, a failed append, a crash) come on top;
\* nothing else does, whatever is interleaved.
DepositBound ==
  recorded.deposits + Cardinality(LandedDeposits) <= Cap + Cardinality(Callers) - 1

Passed == {c \in Clients : req[c].pc \in {"checked", "landed"}}

\* The hourly rate bounds the writes journaled as sent and those on their way.
\* Rebuilding the ledger forgets attempts in flight, and a request is judged by
\* the attempts before it: at most one more per client.
RateBound == recorded.sends + Cardinality(Passed) <= MaxAttempts - 1 + Cardinality(Clients)

\* README section 1: a "restart keeps a recorded pause or self-lock".
RestartKeepsHold == [][Crash => (paused => paused') /\ (locked => locked')]_vars
=============================================================================
