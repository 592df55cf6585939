# Formal models of the weavr curator

This directory holds TLA+ models of the repository's curator signer and of the
tools an operator keeps it with, the configurations TLC checks them with, and
proofs TLAPS checks. The signer
(`signer/packages/curator/`) is the process that holds the key of a weavr
portfolio: an agent asks it over HTTP to propose new target weights, apply or
cancel them, deposit and withdraw; it judges every request by a policy and by
what it reads on chain, has the transaction built by weavr's api, decodes what
it was given, signs, sends and journals. A timer in the same process (the loop)
applies an announced change once its notice has elapsed. All of it is one
Node.js event loop: nothing is preempted, and everything between two awaits is
atomic, but any two awaits of different requests and of the loop interleave.
Beside it stand two sequential programs whose hard part is what happens to them
in the middle: the script that creates a portfolio with the treasury's key, and
`weavr-curator init`, which builds the home the signer runs from.

Paths below are relative to the repository, and lines are the ones of the
modelled commit. `C/` stands for `signer/packages/curator/src/`, `create.mjs` for
`signer/packages/curator/scripts/create_portfolio.mjs`, `lib/` for `lib/curator/`.

- [1. Inventory](#1-inventory)
- [2. Modules](#2-modules)
- [3. Runs](#3-runs)
- [4. Proofs](#4-proofs)
- [5. Where code and documents disagree](#5-where-code-and-documents-disagree)
- [6. Limits](#6-limits)
- [7. Plan](#7-plan)

## 1. Inventory

### Apply state machine, `C/loop.js:46-242`
State: `ctx.state.apply`, one machine per process (IDLE, ARMED, WAIT_NOTICE,
PREFLIGHT, SEND, CONFIRM, DONE, BLOCKED, ESCALATED), in memory only. Operations:
`stepApply` (one tick, on a snapshot and the gates' verdict) and `applyOutcome`
(after a send), both pure. Hard: it is stepped on a snapshot taken before awaits,
its outcome arrives after awaits, verbs replace it in between, a restart forgets
it, the api's row may lag or miss. Correct when it follows the chain's pending
change, never sends outside the window, stays where it is once it waits for a
human, is DONE only for a change that happened, and strands nothing.

### The loop, `C/loop.js:260-490`
State: the tick in flight (`inFlight`), the timer, `lastTick`. A tick reads a
snapshot, refreshes lookup tables, judges the invariants (self-lock, unverified),
raises and clears the standing alerts, steps the machine, sends with a backoff,
refreshes the NAV, stamps the metadata document. Hard: four or more awaits per
tick, a retry that does not run the gates again. Correct when one tick runs at a
time, a hold holds, and every announced change is settled or escalated.

### Write verbs and write pipeline, `C/verbs.js:530-1420`, `C/policy.js:355-404, 778-826`
State: `ctx.state.ledger` (write attempts of the hour, deposits of the day,
proposals), `ctx.state.paused`, `ctx.state.selfLocked`,
`ctx.state.invariantsUnverified`. Operations: propose, apply, cancel, deposit,
withdraw, refresh-nav, rotate-curator, set-metadata (set-delay always throws), through
`runWrite`: count the attempt, hard rules, snapshot, policy, gates, build,
decode, sign, send, journal. Hard: the checks precede the effect by several
awaits, two requests pass the same check, the ledger is rebuilt under them, the
answer of a send is lost. Correct when the caps bound what is sent whatever the
interleaving, and when a hold stops what it says it stops.

### Kill switches, `C/verbs.js:1194-1320`, `C/loop.js:360-393`, `C/index.js:253-257`
State: paused, selfLocked, the verdict on the invariants. Operations: pause,
resume, the lock a tick raises, unlock, boot. Hard: a restart between the switch
and its record, an append that fails, reads that fail. Correct when a restart
keeps a hold and only an operator ends a lock.

### Journal and ledger, `C/journal.js`, `C/verbs.js:250-279`
State: an append-only JSONL file, rotated once; the ledger is its view.
Operations: append (write, fsync), rotate, read, `rebuildLedger`. Hard: an append
that fails before or after the line is written, a torn line, a rotation that
leaves what a cap needs in a file already overwritten, midnight. Correct when the
ledger never counts less than what was done.

### Alerts, `C/verbs.js:288-334, 955-973`
State: a map of keys to entries, in memory. Operations: raise, clear, GET
/alerts. Hard: delivery is marked before the answer is heard; the answer may be
lost; raise and clear come between two calls. Correct when what the listener
believes ends up being what is.

### Metadata document, `C/metadata.js`, `C/verbs.js:1418-1517`
State: the document at the service, the write queue (`WRITES`), the stamp's state
(`ctx.state.metadata`). Operations: the stamp at the end of a tick, the strategy
verb, both through read, merge, message, signature, put. Hard: the service takes
the whole block, calls fail after they took effect, a lock comes up while a write
waits. Correct when no write drops another's, the stamp is held by a lock, and
the document ends up carrying what is configured.

### Pre-flight gates, `C/preflight.js`
No state. `readSnapshot` gathers the chain and the api; `proposeGates`,
`applyGates`, `changeBlocker` and `checkInvariants` judge. Hard: parts of a snapshot
may be missing or of different ages. Correct when a missing read makes a write wait
and is never mistaken for a breach, which ends in BLOCKED.

### Policy engine, `C/policy.js`, `lib/policy-check.mjs`
State: the document the process booted with. The document's schema, target sets
(universe, shape, turnover, cost), cadence, quota, hours, caps; init and the doctor
judge the book with a second copy of the rules. Hard: rounding and boundaries,
unknown values, a verdict that outlives what it was judged on, a count of proposals
that is only as new as the last append. Correct when what was admitted is not
called outside the policy for want of a number, when the quota bounds what lands,
when a proposer told to wait is told the right moment, and when the two copies agree.

### Decoder, `C/decode.js`
No state. `verifyBuilt` accepts a built payload, transaction by transaction, only if
it is what was asked for. Hard: steps out of order, pages, optional instructions,
addresses behind a lookup table that may be stale, totals over the whole payload.
Correct when only what was asked for can land, and no correct build is refused.

### Portfolio creation script, `create.mjs`
State: what one run holds (the intent, the walk, the book it signs for, how often it
signed again), the deployments at the api, and an exit code an operator acts on.
Operations: build, verify, sign, submit, poll, sign again, resume, dry run. Hard:
silence after the submit, a crash anywhere, an expired transaction, a resume. Correct
when at most one book is paid for, and an exit code says what it is said to say.

### Curator home and its containers, `lib/init.mjs`, `lib/doctor.mjs`, `lib/home.mjs`, `lib/ops.mjs`
State: a directory with a key, a policy, two tokens, three env files with copies of
them, and curation on chain. The signer runs from copies of them: its environment from when its
container was created, the key and the policy from when its process started.
Operations: init (about thirty steps, any of which may fail or be the last), the doctor
(read only), what the owner is told to do, `up -d`, restart, resume, unlock. Hard: a
kill between two files or inside one, an api row that lags, an owner who edits while
init waits, a signer that runs from what the files no longer say. Correct when a run
that ends well leaves nothing to mend, nothing of the owner's is lost, curation moves
only on a yes, and following the advice ends, for the files and the signer alike.

### Reviews and metrics, `C/metrics.js`, `C/verbs.js:770-953, 1252-1275`
State: the drift streak (`reviewState`), the operator request. Operations:
review, operator-request, hermes-heartbeat. Hard: a request must wake one review,
across restarts; the agent asks for reviews as well as the daily gate; a stored
record decides what the next review sees. Correct when a request is used up by the
answer that carries it, a streak counts days and not calls, and nothing the gate
has not seen is stored as seen.

### Boot, server, clients, keys, `C/index.js`, `C/server.js`, `C/weavr.js`, `C/keys.js`, `C/errors.js`
Boot rebuilds the ledger and restores pause, lock, request and review state from
the journal, listens, then starts the loop. The server checks tokens and bodies;
the clients have timeouts and never retry a write.

### Chain package, `signer/packages/chain/src/`
Account decoding, `sendRawUntilConfirmed` (polling, resending until the block
height passes), a rate-limited fetch, metrics written for Prometheus.

### Around the signer
`bin/weavr-curator.mjs` and the rendering of files, `tools/` (the
wallet command line), `plugins/` (two Hermes plugins), the shell scripts of
`curator/profile/scripts/`. Sequential programs around files, one signature or one
HTTP call.

### How they interact
Requests and the loop share `ctx.state` and the journal. The loop sends through
the same pipeline as the verbs (`applySend`). The chain is shared with anyone:
apply is permissionless, and the curator key may act from elsewhere. The api's
row is an index of the chain with a lag. The agent, through the plugin, is just
another caller; the health script polls `GET /alerts`. The decoder stands between
every build and every signature, of the signer and of the script. init writes the
policy, the key and the tokens the signer boots with, from the api's row and the chain.

## 2. Modules

| Module | Models | Built on |
|---|---|---|
| `ApplyMachine` | `stepApply` and `applyOutcome` as operators on a machine record | Integers, Sequences |
| `ApplyLoop` | the loop, the verbs that move the machine, the chain, the api row, strangers | `ApplyMachine` |
| `ApplyProofs` | theorems on `ApplyLoop` | `ApplyLoop`, TLAPS |
| `WritePipeline` | `runWrite`, the ledger, the journal file, the switches, restarts | Integers, FiniteSets |
| `WritePipelineProofs` | theorems on `WritePipeline` | `WritePipeline`, TLAPS |
| `Alerts` | raise, clear, GET /alerts and its listener | Naturals |
| `MetadataDoc` | the write queue, the stamp, strategy, the tick around them | `Alerts`, Sequences |
| `MetadataProofs` | theorems on `MetadataDoc` | `MetadataDoc`, TLAPS |
| `JournalFile` | append with its ways of failing, rotation, reading both files back | Naturals, Sequences |
| `Reviews` | GET /review, the operator request, the review state, boot | `JournalFile` |
| `ReviewsProofs` | theorems on `JournalFile` and `Reviews` | `Reviews`, TLAPS |
| `BuiltPayload` | `verifyBuilt` for the signer's verbs | Integers, Sequences, FiniteSets |
| `CreatePayload` | `verifyBuilt` for the create | `BuiltPayload` |
| `Approved` | what a signature promises, without a decoder: the abstract specification | FiniteSetsExt |
| `HonestBuild` | what a payload the api builds correctly looks like | `CreatePayload`, Functions |
| `SigningRun` | decode, sign and send of a verb, and a run of the create script | `HonestBuild`, `Approved` by INSTANCE |
| `SigningProofs` | theorems on `SigningRun` | `SigningRun`, TLAPS |
| `PolicyRules` | the rules on a target set, cadence and quota; `changeBlocker` | Integers, FiniteSetsExt |
| `PolicyCheck` | which documents load; init's and the doctor's copy of the rules | `PolicyRules` |
| `Proposals` | propose, simulate, cancel, apply, ledger and quota, a restart | `PolicyCheck` |
| `OwnFunds` | what the policy answers to a deposit or a withdrawal, to the unit | `Proposals` |
| `ProposalsProofs` | theorems on `Proposals` | `Proposals`, TLAPS |
| `OwnFundsProofs` | a theorem on `OwnFunds` | `OwnFunds`, TLAPS |
| `HomeFiles` | the files of the home and what the doctor says of them | |
| `RunningStack` | the containers, what they were started from, the doctor's checks of them | `HomeFiles` |
| `CuratorHome` | init step by step, kills, edits, the handover, the owner and her fixes | `RunningStack` |
| `HomeProofs` | theorems on `CuratorHome` | `CuratorHome`, TLAPS |
| `MC*` | values of the constants | the above |

A definition whose name ends in `_Mutant` is not part of a model: it is the next
definition with a bug the code could have, kept to show that a property can fail.

**ApplyMachine and ApplyLoop.** A machine is a record of the fields some
decision reads. The actions follow the awaits: `TickRead` (snapshot), `TickStep`
(everything from the hold check to the first await), `SendLand` and
`SendConfirmed` / `SendUnanswered` (the chain executes, then the answer arrives
or does not), `SendExpired` and `SendRetry` (the backoff, after which only the
hard rules run again), `Outcome`. A verb is three steps: judged, landed,
answered (`ProposeDone` is propose's `after`, which arms the machine). `hold`
stands for what keeps writes back. The chain is a pending change, the target
weights and the last rebalance; the row is a copy, equal to the chain, lagging
(`RowLags`) or missing (`RowFails`).

**WritePipeline.** A request walks idle, snapshot, checked, landed, idle: the
hard rules run at the start, the policy after the snapshot, and no check between
the policy and the chain, so build, decode, sign and send are one stage. The
file is what `rebuildLedger` makes of the journal; an append may fail with
nothing written (`"unwritten"`, a full disk) or with the line written
(`"unsynced"`, fsync throws). `room` records how the hourly rate would judge a
request: rate is evaluated on attempts up to the second the request arrived, so
it may depend on whether a record has rebuilt the ledger since.

**Alerts and MetadataDoc.** `TickJudges` is the tick from its verdict to its
standing alerts, `TickStamps` its last step. A write is a job in the queue and
goes read, message, put, answer; any call may fail before or after it took
effect. The key `sol` stands for the alerts a tick raises and clears on what it
sees; `metadata` for those raised by an event.

**JournalFile and Reviews.** A file is a sequence of pieces, one for each append
that wrote anything: a piece may be whole, and may have its newline. A reader
(`Readable`) gets a piece that is whole and alone on its line, as `split('\n')`
and `JSON.parse` do. The four failures of an append are an error before the write,
an error of fsync after it, and a write the disk cut short, whose count
`C/journal.js:255` does not look at: such an append returns. A crash inside a write
is part of `Restart`. A review is one step, since after its snapshot nothing in it
awaits; it journals up to two records. `woken`, `gateDays`, `toldTier` and `shown`
belong to an observer of the answers as they are made, `cleared` to one of the operator.
A crash before a review's first line is a `Restart` before it, one between its lines is
a second line that was not written and a `Restart`, and one between the last line and the
answer is an answer that was made and lost: nothing here says that a reader got it. One asset
with one tier stands for the portfolio, as streaks and tiers of assets do not
touch; the day stands for the record's `at`.

**BuiltPayload, CreatePayload, HonestBuild, SigningRun, Approved.** A transaction is a record of
what the decoder finds in it: wire format, tables, payer, step, instructions with
their accounts by role; an account loaded through a table reads as unresolved until
the table is fresh. The walk is `Accepts` and `After` for one transaction, `Complete`
at the end. `Judge` shows the decoder any transaction of `Offers`, one at a time, so
the api is bound by nothing; `Conclude` ends the walk at any point. A deployment is
the api's record: what was handed over, how many have landed, whether a nonce keeps
them alive, its status. The chain executes what was handed over in order (`Land`).
The operator runs the create again on an exit code that says nothing was sent, or
when nothing can land any more (`MayCreate`); `Scripted` lets her take a resume's exit
2 at its word too. `Approved` knows no decoder and no process: only the intent, and
the list of executed transactions. It counts the executed instructions themselves, by
their places in that list: at most one of a verb's main kind, pages in the order of their
numbers, and for a create every spending instruction, and any two of them together,
within the ceiling.
`HonestBuild` is the api's side, which is not in this repository: it describes a correct
payload as a whole, not as a walk. The preparatory steps come once each in any order, then
the primary, or its pages numbered from zero; a create is a header, its pages, at most one
reimbursement, and the keeper's own transactions; each transaction holds its step's
required instructions once, optional ones beside them, with the accounts of their layouts
and the arguments asked for; the legs are in the header, or cut into the pages in any way;
and what is paid stays within the two ceilings. It shares with the decoder the tables of
steps and layouts (`StepRules`, `Accounts`, `ExpectedSteps`) and none of its decisions. It
says of no book that it is too large for a page: a proposal of more than `PageLegs` is
outside it, because the signer refuses one (`PAGED_PROPOSE_UNSUPPORTED`, `C/decode.js:1006-1008`).

**PolicyRules, PolicyCheck, Proposals.** Weights and losses are small integers; -1 is
what `toNumber` makes null. A refusal is a pair of a code and whether it is a gap
(something is not known) or a breach. A call is judged, lands and is recorded, three
steps with others in between. The catalogue's rows lose fields or turn bad one by one.
So does the portfolio's (`portfolioRow`), which `heldLegs` reads (`HeldLegs`, `Empty`,
`Asked`): it may be gone; list the book only as targets and positions, which say nothing of
shares; or lack the pool, the weight or the shares of a leg. A weight it lacks is 0 (`C/policy.js:416`).
Its account of the pending change may be unreadable, or give a weight as null, which `Number`
reads as 0 (`C/preflight.js:170`). `WholeView` is the book as it is, and `under` says which
document admitted a change on that view; neither is read by the code.
`told` is the last answer with a `nextProposeAt`.

**OwnFunds.** `evaluateDeposit` and `evaluateWithdraw` as functions of what they are
given, each refusal in the code's order, with the program's own rounding beside them
(`Minted`, `PaidOut`). A dollar amount counts half base units, so that `Math.round` has
something to round. The document is the one the signer of `Proposals` runs.

**HomeFiles, CuratorHome.** `run.at` is the step about to be taken, and each `Ends`
carries the name of the cross. Up to the confirmation every step awaits something and
the world may move before it; after it the run is synchronous and only a kill
interrupts. `HalfWritten` is what a kill inside a write leaves. What the owner does is
an action for each fix a cross or the doctor prints, and init again when there is none
left to do. `RunningStack` keeps a container's environment apart from the files it came
from: `Composed` replaces it only when `up -d` finds another one, `Boot` reads the policy
and the key, which are mounted, and every boot is paused (`compose.env` has it so).
`Locks` is a tick that sees drift between the chain and what the signer was started with.

## 3. Runs

All runs finish in under four minutes on two cores. Deadlock checking is off
where a bound on the clock or on requests stops the model.

| Run | Question | Outcome |
|---|---|---|
| `ApplyLoopSafe` | With a caller, a stranger and one fault, does the machine stay held, and turn DONE rightly? | holds |
| `ApplyLoopHeld` | With a lagging row, a pause or lock that comes and goes and a retry, does it follow the chain, and land in the window? | holds |
| `ApplyLoopLive` | Is every announced change settled or escalated, with callers crossing the ticks? | holds |
| `ApplyLoopAlone` | And by the loop alone, with gates that fail and rows that miss? | holds |
| `WriteShared` | Do the caps bound two callers and the loop, under failing appends and a midnight? | holds |
| `WriteAlone` | With drift, failing reads and appends, does a restart keep the pause and the lock? | holds |
| `Metadata` | Do the stamp and a strategy share the document without losing or stranding a write? | holds |
| `Reviews` | Across failing appends, rotations and a restart: is a line read back, does a request wake one review, do streaks count days, does a raised tier reach the gate? | holds |
| `Signing` | Whatever is offered, does only what was asked for land, once; is a correct build signed; does an exit code mean what it says; does every run end? | holds |
| `Proposals` | Does a number the catalogue lost ever make a breach, and a row that lost fields one of another rule than the caps on turnover and cost, does the quota bound what lands, does a hold end when it was said to, do init and the signer agree, can a passed deposit be made? | holds |
| `Home` | Is a home green after init, does what is the owner's move by consent only, does following the advice end, for the files and for the running signer? | holds |
| `CreateAgain` | Is one book paid for by an operator who goes by exit codes? | violated |

**Bounds.** `ApplyLoop*`: the apply window is one unit of time, so that a change can be
too early, due, and too late. `Lag` is how much later than its snapshot a tick may step,
`Lifetime` how much longer than its signature a transaction may land, `MaxSends` the
sends of a tick; together they must be over within a notice (`Lag + MaxSends *
(Lifetime + 1) <= Notice`, minutes against hours). `ApplyLoopSafe` spends them on a late
step and one send, `ApplyLoopHeld` on a step in time and two sends, a send and its retry,
both with a notice of two; the liveness runs have a late step and two sends, with a notice
of three. `Horizon` (4, or 5 with the longer notice) lets a second change be announced after
a first is cancelled and reach its window. Two target sets are enough to tell the same
proposal from another. `MaxFaults = 1`: a crash, an outside proposal or an outside cancel. `FailedTicks`, `InFlightMax` = 2, `CustodyRetries` = 1: the counters are
reached and passed; in `ApplyLoopAlone` a refresh is due at once (the policy
refreshes a book after minutes and escalates after half an hour), elsewhere when
the escalation is. `WriteShared`: five requests over two callers and the loop
pass a cap of one deposit and a rate of two in every order; `WriteAlone`: two
requests and one restart. `Metadata`: one caller beside the stamp, two faults
(failed calls, edits elsewhere, lost answers, restarts in any mix), an alert
after two failures, retries at most two ticks apart. `Reviews`: three days, two
requests, files of two pieces and five pieces in all, so that a file rotates twice
and the first is overwritten; one append that goes wrong in any way, and one
restart, which may tear one more. `Signing`: a book of two legs in one header or two
pages, payloads of up to three transactions, the longest an honest build needs; each
honest transaction is spoilt in one place at a time (payer, program, account, argument,
page, an instruction too many), and two builds make a second book possible;
`MAX_RESIGN` is the code's 3 lowered to 2, so that the limit is met. `Proposals`:
three pools of which one is stable, three target sets, three documents refused at
boot and two that load, two callers, a quota of one in four ticks, which is also the
ledger's own window (thirty days, in every shipped policy), a day of three ticks with two
open; two rows may be off at once, the portfolio's in eight ways, and only in the first
ticks; for own
funds, every amount around what rounds to nothing and around the daily cap, five prices,
and vaults in which shares, idle funds or the holder's limit is what runs out. `Home`:
two presets of which one admits the book, one edited document, six tokens, so that a
fresh one always exists; two faults, edits or runs nobody advised, in any mix, which
lets a kill be followed by an edit, or by another kill of the run that mends it.

**Fairness.** `ApplyLoop`: the interval timer keeps ticking and each await of a
tick ends, because every client call has a timeout (`C/weavr.js`) and the backoff
is bounded; the clock runs. Nothing is assumed of callers, strangers, the index,
the conditions or a hold. `MetadataDoc`: the same of the tick and of the service's
calls, and that the health script keeps asking for the alerts
(`curator/profile/scripts/curator-health.sh`). `SigningRun`: the process takes its next
step, since every call has a timeout, a walk ends with its payload and the polls end at
the deadline (`create.mjs:401`, `:653`); nothing of the api, the chain or the operator.
`CuratorHome`: a run of init takes its next step (its waits have deadlines), the api's
row catches up with the chain, docker starts a signer that may boot (`restart:
unless-stopped`), and the owner does what is printed and runs init again;
nothing of the wallet's answers, so that a prompt may be declined forever only by an
owner who was not advised to pass `--yes`, as every printed fix here does.

**Properties.**
- `LandsAsGated`: a send judged by one snapshot never executes a change whose
  notice had not elapsed when it was judged, nor one past its window, even if the
  change was cancelled and another announced between. It rests on the send's
  lifetime being short against the notice (`LoopAssumption`).
- `HeldForOperator`: a tick leaves BLOCKED and ESCALATED alone while the change is
  the same one. `DoneMeansMoved`: DONE only for a change the chain carries or
  rebalanced for. `TickTracksChain`: a tick on a current snapshot puts the machine
  on the chain's change. `EventuallySettled`: nothing strands.
- `LedgerCoversFile`: the ledger never counts less than the file.
  `DepositBound`, `RateBound`: how far concurrency can pass the caps, exactly:
  one deposit for each other caller, less than one send for each client.
  `RestartKeepsHold`: a crash at any point keeps the pause and the lock.
- `NoLostEdit`: a put replaces the document its merge read. `StampHeld`: no stamp
  is put while locked or unverified, although it is checked once and waits long;
  it holds because only a tick raises a lock, and the stamp is inside the tick.
  `StampedMeansCarried`, `EventuallyStamped`: the stamp is done only when the
  document carries what is configured, and gets done. `LowSolHeard`: an alert that
  lasts is heard although an answer was lost.
- `KeepsWindow`: of the last `RotateAt` pieces, an acknowledged record is read back
  unless its own line or the one before was left unended: a torn line costs itself
  and its neighbour, rotation nothing that is recent. `OneWake`: a request is carried
  by one answer, and by one more for each append that failed; and none is forgotten,
  in memory or by a restart, unless an append failed or the files rotated.
  `StreakCountsDays`: streaks, in memory or replayed from any older record, never pass
  the number of days the gate could count. `RaiseReachesGate`: no tier is stored that
  the gate has not been shown.
- `LandsAsApproved`: `SigningRun` implements `Approved`: every executed instruction with
  an effect is the verb's own, on the signer's own book, with the arguments asked for; a
  verb's main instruction is executed once, pages in order, and a create stays within its
  two ceilings, fees computed as the runtime charges them. `NoFalseRefusal`: no prefix of
  a correct build (`HonestBuild`, in a book and at a quote that are this build's own) is
  refused, nor a whole one found incomplete, by a decoder that has its lookup table. `OneHeaderOut`: over every run, resume, re-sign, silence and crash at most
  one header has landed or still can. `CleanExit`: an exit 1 or 2 of a first run that
  names no deployment means nothing it handed over can land. `ReportedIsSigned`: the book
  a run reports is the one it signed for. `RunEnds`.
- `GateFollowsVerdict`: a change the running policy admitted on the book as it is is not
  called outside it while the catalogue has only lost numbers and the portfolio's row tells
  the book and the change right, is missing or is unreadable; a row that tells the book wrong
  makes it break the caps on turnover and cost and no other rule (section 5 says how), and a
  row that gives a weight of the change as 0 may break any. It relates the verdict of a proposal
  to a gate of another function, days later. `QuotaBound`: in any window of the quota's
  length, at most the quota less one and one for each caller land, plus those a crash kept
  from the journal. `HoldEnds`: at the moment `nextProposeAt` named, cadence and quota let
  a proposal pass. `InitAgrees`: for every document and target set, the copy in
  `policy-check.mjs` and the signer's rules agree, except for a pool without its own cap.
  `AmountsAddUp`: a deposit that passes is one the vault takes at that price, the headroom
  a refusal names can be deposited, a holder may withdraw all its shares are worth, and the
  floor of a withdrawal is no more than the vault pays as soon as the tolerance is worth a
  share.
- `GreenAfterInit`: an ok run leaves no cross, if the world stood still. `OnlyByConsent`: no
  step of a run replaces an edited document but on `--policy --yes`, or because the edit
  was made after the run read the file, and no run signs a handover without a yes to that
  signing, in that run. `FixesConverge`: from any mess two faults can make, doing what is
  printed ends with no cross of the files or of the running signer, for good. It joins
  init, the doctor, docker and the signer: the environment a container kept, the policy a
  process read, the lock of a tick that saw the treasury move.

Each property of a passing run has a mutant in `PROJECT.json`: a definition of
the model replaced by one with a plausible bug, under which the property fails.

## 4. Proofs

`WritePipelineProofs` proves, for any finite set of callers and any caps:

| Theorem | States | Assumes |
|---|---|---|
| `TypeCorrect` | `[]TypeOK` | |
| `LedgerCovers` | `[]LedgerCoversFile` | no append fails with its line written |
| `DepositsBounded` | `[]DepositBound` | |
| `SendsBounded` | `[]RateBound` | |
| `HoldSurvives` | `RestartKeepsHold` | no append fails with nothing written |

They rest on the named assumptions of the module (`CallersAssumption`,
`CapsAssumption`). The two extra assumptions are needed: with the fault, the
theorem is false (dropping either makes the proof fail, and TLC finds the trace).

`DepositBound` is not inductive: it says nothing of a deposit that passed the
policy and has not landed. `DepositInv` counts those too (`Committed`, the
deposits past the policy), and bounds them with what is recorded by the cap plus
the other callers. It is preserved because a deposit passes only while the ledger
is below the cap, the ledger covers what is recorded (`RecordedCovered`, which
holds under every fault, since a record is counted as made only when its append
succeeded), and a caller has one request at a time. `RateInv` does the same with
`MayPass`, the writes past the policy and those a rebuilt ledger would let pass.
`HoldInv` ties the switches to the file. The lemma `LedgerMoves` says that a step
either rebuilds the ledger from the file or lets it grow, `Steps` that a step is
quiet for the counts or one of four named actions; each theorem then has a case
per kind of step.

`ReviewsProofs` proves, for any length a file rotates at, any failures, and any
number of days, requests and restarts:

| Theorem | States |
|---|---|
| `WindowKept` | `[]KeepsWindow` |
| `StreaksAreDays` | `[]StreakCountsDays` |
| `RaisesAreShown` | `[]RaiseReachesGate` |
| `WakesOnce` | `[]OneWake` |
| `TypesCorrect` | `[]TypeOK` |

The assumptions are the modules' own (`JournalAssumption`, `ReviewsAssumption`,
`NoneAssumption`). The invariant of the first three has two halves. `Lined(j, R)`: both files hold records of `R`,
numbered without a gap up to the last piece written, no piece has its newline
without its text, and either nothing was ever overwritten or the rotated file
holds `RotateAt` pieces; every append keeps it (`AppendsLined`), and `KeepsWindow`
follows from it. `Fair`: the review state, and every review record on either file,
was made on a day that has come, with a streak no longer than the gate days up to
*that* day, and a tier the gate was shown. The bound has to be per record: a restart
may bring back an older record, from which a review then counts on, and a bound on
the current number of gate days alone would not survive that. `LastRecordKept`
ties the halves: what a replay returns is one of the records on file. It needs
that a finite set of indices has a greatest one (`GreatestNat`), which is proved
from the well-foundedness of `<` on the naturals, without induction.

`WakesOnce` bounds how often a request is carried by an answer, and `WInv` keeps the
account: a request costs one for each review that carried it, one while it waits in
memory or may come back from a file, and one more while it waits in memory over a file
with a torn end, because the line that uses it up will be glued to that end and lost.
All but the first are paid by a failure each. The bound itself is not inductive: it says
nothing of a request that was used up in memory and is still open on the file. Its other
half, that no request is forgotten, is `Waits`, which ties memory to the file while no
append has failed and nothing was overwritten.

`MetadataProofs` proves, for any callers, descriptions and edits, any limits on retries
and alerts, and any number of faults:

| Theorem | States |
|---|---|
| `TypeCorrect` | `[]TypeOK` |
| `EditsNotLost` | `NoLostEdit` |
| `StampStaysHeld` | `StampHeld` |
| `StampCarried` | `StampedMeansCarried` |

`StampHeld` looks like a check nobody repeats: the verdict is read when the stamp enters
the queue, and the put comes many awaits later. What carries it is `StampAlone`: the
stamp is in the queue only while its tick is in its last step, only a tick raises a lock
or leaves the invariants unread, and ticks do not overlap. `NoLostEdit` needs `Based`
(since a write read the document, nobody in this process has put one, and a write whose
put took effect finds its own), and that needs `Queued`: the queue holds each writer that
waits once, and only its head has read.

`SigningProofs` proves, for any transactions an api may offer, any intents, quotes,
books and bounds:

| Theorem | States | Assumes |
|---|---|---|
| `TypeCorrect` | `[]TypeOK` | |
| `OneCreate` | `[]OneHeaderOut` | `~Scripted` |
| `ExitIsClean` | `[]CleanExit` | `~Scripted` |
| `AllAsAsked` | `[]Refinement!OnlyWhatWasAsked` | `AllocatorPinned` |
| `ReportsAreSigned` | `[]ReportedIsSigned` | |
| `RunImplementsApproved` | `LandsAsApproved`, the whole of `Approved` | `AllocatorPinned`, `~Scripted` |
| `OneBookPaid` | `[]OneBook` | `~Scripted` |
| `HonestIsSigned` | `[]NoFalseRefusal` | |
| `RunsWindDown` | `[][WindsDown]_vars`, the measure behind `RunEnds` | |

The module's assumptions say that intents list their legs and have no book and no quote before a build, that
a transaction is a list of instructions whose numbers are unsigned, and that a decoded
instruction has the accounts of its layout. `HonestAssumption` says that the payloads of
`Honest` are among those `HonestBuild` describes, so the theorem is about any of them; TLC
evaluates it on those of `MCSigning`. `~Scripted` is needed: the run `CreateAgain`
shows the trace without it. `AllocatorPinned` is needed: without it the
decoder leaves the owner of a custody account open (`C/decode.js:608-616`).

`OneHeaderOut` is not inductive: it says nothing of a payload that is signed and not yet
handed over. The invariant adds that every deployment but the last is out of the
chain's reach (`OnlyLastOut`), that during a first build all of them are (`Fresh =>
NoneOut`), and `Frozen`: while a payload is walked or signed, its deployment has handed
nothing over, or its transactions have expired and cannot land, and if the walk holds
anything of the signer's then the header has not landed. The last part is where the
decoder comes in: what a create walk takes begins with the header, a partial rebuild
offers none, so after a landed header no `sign_again` is signed. `CleanExit` is kept
beside it, because a second create trusts the first one's exit.

`AllAsAsked` is the first conjunct of the abstract specification under the refinement
mapping. Its invariant (`AllGood`) says that every transaction in the walk, handed over
or executed is sound for the intent; one lemma for the signer's verbs (`WriteIsSound`)
and one for the create (`CreateIsSound`) derive that from what the decoder accepts,
rule by rule, and the rest is that no step brings in a transaction from elsewhere.

`RunImplementsApproved` is the refinement: `Land` is a step `Execute`, a first build with
nothing executed is `AskAgain`, everything else a stutter. Its invariant is `Promised`.
`Counted` says that the walk's counters count what the walk holds: its transfers, its
outlay, its pages, its primaries. `ChargesNoMore` that what the runtime charges is no more
than what the decoder adds up. From there a payload that was walked to its end keeps the
whole promise (`Approvable`). The chain executes a payload from its first transaction on and
may stop anywhere, so the promise must hold of every beginning of it (`BeginningApproves`);
and `Ledger` says that what was executed is the landed beginning of what the last deployment
handed over. The last is where `~Scripted` enters, by way of `OnlyLastOut`: otherwise an
earlier deployment can still land.

`OneBookPaid` proves, for the operator who does read the message, the property `CreateAgain`
refutes for the one who does not. It needs no pinned allocator: the header is the first of
what a run signs (`Headed`), and `Ledger` does the rest. `ReportsAreSigned` rests on
`Reporting`: while a build names its book, the walk, the echo and the run agree on it, and a
first signature is the only one (`Echoes`, `FirstTime`, `SignedFor`, `Ended`).

`HonestIsSigned` is the other direction: what `AllAsAsked` and the refinement forbid the
decoder to let through, this one forbids it to hold back. `NoFalseRefusal` speaks of the
moment of a verdict and is not inductive. `Fair` adds that while a payload is walked, the walk
is where every correct payload it may still turn out to be puts it (`Followed`): one that
begins with what has been judged so far. There may be several, with other cuts, a
reimbursement or none, more pages to come. For one of them `WriteWalked` and `CreateWalked`
give the counters after `n` transactions in closed form: for a create the pages taken, the
legs up to the last cut, the totals seen, the transfers and the outlay, each read off the
payload. `WriteOn`, `CreatorOn` and `KeeperOn` show that the next transaction is accepted
and moves the walk to `n + 1`, `WriteEnds` and `CreateEnds` that the walk of a whole payload
passes the decoder's last checks. `Budgeted` asks for one limit beside a price because the
decoder judges the largest of each, so that of a transaction which set two it would refuse
what the runtime charges less for.

`RunsWindDown` is the part of `RunEnds` that is within the prover's reach: `Left` counts the
re-signs a run may still be asked for, the stages before it and the transactions still to be
judged; each step of the process lowers it and no step of anyone else raises it. With the
fairness of section 3, and a process that always has a step (which TLC checks, with the rest
of `RunEnds`), every run ends. `MaxTx` enters it as the length of a payload, which the code
has no limit for but which is finite.

`ApplyProofs` proves, for any callers, targets, bounds, conditions and faults:

| Theorem | States | Assumes |
|---|---|---|
| `TypesCorrect` | `[]TypeOK` | |
| `SendsLandAsGated` | `LandsAsGated` | |
| `OperatorIsAwaited` | `HeldForOperator` | `~RowLags`, `~RowFails` |
| `DoneIsMoved` | `DoneMeansMoved` | `~RowLags`, `~RowFails` |
| `TicksTrackChain` | `TickTracksChain` | `~RowLags`, `~RowFails` |

`LandsAsGated` is about the moment a transaction lands, and the gates spoke of the snapshot,
several awaits earlier; the pending change may have been cancelled and announced again in
between. `Timely` says how far apart the two can be. A judgement made at `t` is `OnTime`
when nothing is pending, or `t` is in the window of what is pending, or what is pending was
announced at `t` or later. A signed send is over within `Lag` and the lifetimes of the
sends before it, which is no more than a notice (`LoopAssumption`), so the third kind of
change is still too young to be applied when the send lands. The type invariant needs
`Carried`, which ties the failures a machine has counted to the ticks it was sending on:
that is what bounds its counter.

`Followed` is the invariant of the other three: the row and every snapshot in flight are
consistent, what a machine stands on is what its state says (`Standing`), and a machine
that is DONE stands on a change that moved the portfolio. The two hypotheses are needed
for what the code does: with a row that misses, a machine in CONFIRM takes an unknown
target set for a carried one and turns DONE (section 5), and nothing bounds a lag, so that
a row older than a notice can show a change the chain has long settled. `TicksTrackChain` is model-checked with a lagging row
as well (`ApplyLoopHeld`).

`ProposalsProofs` proves, for any callers, documents, target sets and catalogues:

| Theorem | States | Assumes |
|---|---|---|
| `TypesCorrect` | `[]TypeOK` | |
| `QuotaHolds` | `[]QuotaBound` | `SameQuota` |
| `HoldIsEnough` | `[]HoldEnds` | |
| `InitReadsAlike` | `[]InitAgrees` | `WholeBooks` |
| `GateIsFaithful` | `[]GateFollowsVerdict` | `Worsens` |

Each hypothesis is a fact of the deployment, not of the run. `SameQuota`: a restart does not
change the quota, since a signer given a tighter one is over it at once. `WholeBooks`: the
books init reads add up and fit a page, for which its copy of the rules has no rule, as
`create.mjs:215-216` refuses any other. `Worsens`: rows lose fields or turn bad and come
back, a change is not due at once, and nobody asks for more of a pool than its cap (section
5 says what happens otherwise).

`QuotaBound` is not inductive. `Covered` says that what landed after any moment is journaled
after it, about to be journaled, or was kept from the journal by a crash; `Room` that what
landed in the window and what has been judged and not landed stays within the quota less one,
the callers, and what was forgotten. `HoldEnds` needs what a refused proposer was told to have
been computed from the journal (`Told`): at that moment enough of it has left the window.
This is a statement about the k-th latest of a list, and `Weight`, the losses and the ranks
are folds; what is proved of them (that one exists, that a part weighs no more than the
whole, that every rank up to its size is some member's) goes by the smallest counterexample,
found with the well-foundedness of `<` and of proper inclusion on finite sets, and not by
induction over data. `GateFollowsVerdict` compares two functions days apart. `Admitted`
is the bridge: what passed on a catalogue that lost something passes on the full one
(`FullCatalogue`), and what passes on the full one is never a breach on one that lost numbers
(`LossNeverBreaches`). `Awaiting` carries it from the judgement to the announcement. Both are
about the book as it is; `OnlyMovesDiffer` takes the gate to the book as the row tells it: the
rules but the last two read the targets and the catalogue alone, and a row has no leg the
book has not, so that the page is no longer.

`OwnFundsProofs` proves `FundsAddUp`, `[]AmountsAddUp`, for every price, fee, cap, amount and
holding that is a number (`FundsAssumption`). It is arithmetic: what the three roundings, of
the policy, of the decimal amount and of the vault, do to each other, in lemmas on `\div` of
products.

`HomeProofs` proves, for any documents, notices, addresses, options, tokens and faults:

| Theorem | States |
|---|---|
| `TypesCorrect` | `[]TypeOK` |
| `OkIsGreen` | `[]GreenAfterInit` |
| `MovesByConsent` | `OnlyByConsent` |

Its assumptions are the modules': some preset admits the book, a token nobody uses is to be
had, and a missing or torn file is taken for no other. The invariant has a part for each kind
of thing a step relies on. `Behind` is what a run has behind it at each of its steps whatever
the world does (a confirmation it got, a token it wrote), and gives `OnlyByConsent`. `Calm` is
what holds step by step of a run nobody disturbed, each step adding what it has just put right,
up to `CalmEnd`, from which no cross follows.

Only model-checked: liveness (`EventuallySettled`, `EventuallyStamped`, `LowSolHeard`,
`RunEnds`, `FixesConverge`), because fairness and ENABLED are out of the prover's reach.
Every other property of a run is stated by a theorem.

## 5. Where code and documents disagree

One has a run that ends in a trace.

1. `CreateAgain`. `create.mjs:457`: a resume polls outside the handler that turns an
   error into exit 3, so a poll without an answer reaches the outer catch
   (`create.mjs:661-664`) and ends in exit 2. `create.mjs:442-445` and
   `signer/packages/curator/README.md:983` say nothing ends in exit 2 once the signed
   transactions have left, "because exit 2 reads as "nothing was signed or sent" and a
   script keyed on it would run the create again and pay for a second book".

Seen while modelling, without a run. In the loop and the pipeline:
- `C/loop.js:105`: with the api row missing, a machine armed from the header knows no
  target set, `sameTargets` is false on every tick, and a machine BLOCKED or ESCALATED
  re-arms for the same proposal; `signer/packages/curator/README.md:516` says a terminal
  state re-arms only for a different proposal. `HeldForOperator` is checked without
  missing rows.
- `C/verbs.js:662`: a process that dies between a confirmed deposit and its journal line
  boots on a ledger without it (`signer/packages/curator/README.md:396`, "a restart cannot
  reset a cap"). `DepositBound` counts what was journaled.
- `C/verbs.js:1307`: unlock looks at `ok` alone, which is true when the accountant was not
  read, so a lock raised for the accountant's drift is lifted with the drift in place
  (`C/verbs.js:1287`).
- `C/verbs.js:904`: a snapshot without the portfolio's api row is still one read this call,
  so the daily review stores the streaks of no assets, that is none, and a streak ends
  without the asset being seen on target (`signer/packages/curator/README.md:500`,
  `C/verbs.js:879-881`).
- `C/verbs.js:1308`: two unlocks that wait together: the second reads `at` of a lock that
  is null by then; and an unlock may judge a snapshot older than the lock it lifts.
- `C/loop.js:429`: a tick whose snapshot predates the proposal steps the machine
  `propose` armed meanwhile, sees nothing pending, drops to IDLE; the next tick arms
  it without its deployment id, which `C/loop.js:20-22` says is not lost.
- `C/verbs.js:321`: an alert already heard that is raised again becomes undelivered,
  and clearing it then deletes it without its resolved line
  (`signer/packages/curator/README.md:99`).
- `curator/profile/cron`: the universe job runs at 06:00 and its agent may call a
  plain review, which then takes the day and a waiting request before the 09:00 gate
  (`signer/packages/curator/README.md:488` has the gate's review first).
- `C/verbs.js:918`: a request is consumed before its answer is heard; a gate script
  that gives up on the answer has used it up.
- `C/loop.js:188`: in CONFIRM with the change gone and the row missing, the machine
  turns DONE though the change was cancelled; `DoneMeansMoved` is checked without
  missing rows.
- `C/verbs.js:552`: the attempt is counted before the rate is judged, so one less
  than the cap passes; `C/policy.js:373-374` says it is not counted. `RateBound`
  states the bound as the code has it.
- `C/verbs.js:579`: unverified invariants are looked at before the snapshot only,
  and are null until the first tick though the server already listens
  (`C/index.js:300-329`): such a write passes.
- `C/verbs.js:254`: an append whose fsync throws leaves the line in the file and
  the ledger as it was; `LedgerCovers` excludes it.
- `C/verbs.js:1500`: a strategy that ends the stamp leaves the `metadata` alert
  standing. `C/metadata.js:361`: a full document is alerted once, and not again
  after 6 h.
- `signer/packages/curator/README.md:559` lists `rebalanceDelaySecs` among the
  invariants; `checkInvariants` does not look at it, `loadPolicy` reads no such number
  (`C/policy.js:255-256`), while `lib/doctor.mjs:261` says the signer self-locks on it.

In the policy and the decoder:
- `C/policy.js:472`: the rolled count of proposals is of the last append, so a proposal
  made at the moment `nextProposeAt` named may be refused by a count nobody renewed.
  `HoldEnds` asks for a ledger rebuilt by then.
- `C/policy.js:471-473`, `C/journal.js:368`: the rolled count is of thirty days whatever
  `quotaWindowSecs` says, and the larger of the two counts is taken, so a document with a
  shorter window is held to thirty days, and the `nextProposeAt` it computes from its own
  window comes too early. Every shipped policy has 2592000 s. `HoldEnds` asks for a window
  no shorter.
- `C/policy.js:694-696`: a document may allow no proposal at all (`maxProposalsPer30d` is any
  count), and the moment a full quota frees is then read past the end of the list.
  `HoldEnds` is about quotas that ever free.
- `C/policy.js:583-586`: a pool whose cap is not known is held to the leg maximum alone, so
  a change admitted then can be called outside the policy once the cap is read again.
  `GateIsFaithful` is about targets within the caps (`KeepsCaps`).
- `C/policy.js:416`, `:418-426`, `:607-609`: a row that lost fields is read as a book that has
  other weights. A leg without a target weight counts as 0, one without a pool is passed over,
  and a row without `holdings` gives way to `targets` and `positions`, where no leg is known to
  be without shares. What moves is then computed from that book, and `TURNOVER_CAP` and
  `COST_CAP` are breaches, not gaps: a change that was admitted becomes CHANGE_OUTSIDE_POLICY, and
  the loop goes to BLOCKED, which it stays in when the row is whole again. The comment at
  `C/preflight.js:144-151` has a refusal only a missing input caused wait. The same reading admits
  a change that breaks the caps on the book as it is (a leg leaving at a weight the row lost),
  and the gate blocks it when the row is whole. `GateFollowsVerdict` is about what was admitted
  on the book as it is, and names the two caps.
- `C/preflight.js:170`: a weight of the pending change that the row gives as null is 0, and its
  sum or a leg's minimum is then a breach; one it leaves out is not a number, and the change waits.
- `C/policy.js:645-649`: a risk exit is exempt from the cost cap, but a cost that cannot be
  computed is a gap for it too; and a pool whose numbers are missing can gain weight in one.
- `C/policy.js:549-562`: an unknown chain or status of a listed pool is a breach, not a gap.
- `C/verbs.js:523`: the refresh of the lookup table is tried on the words "lookup table";
  a mint or a rent account behind the table is refused in other words
  (`C/decode.js:515-522`, `:584-591`) and not tried again.
- `C/decode.js:977-985`: a proposal of more legs than one page is refused whatever is built.
- `C/verbs.js:1360`: set-delay is always refused ("set by governance"), while
  `curator/README.md:223-226`, `lib/doctor.mjs:261`, `lib/ops.mjs:68-72` and
  `signer/packages/curator/README.md:120` tell an operator to use it.
- `C/policy.js:796-826`: a deposit that rounds to no base unit or to no share passes, with a
  floor of zero; a withdrawal of less than a share is refused (`:862`).
- `create.mjs:646-652`: a rebuilt payload is verified against the api's echo of the book.

In the home:
- `lib/init.mjs:138`: the policy is read before the waits and written after them, so an
  edit made while `init --wait` polls is written over without `--yes`. `OnlyByConsent`
  states the exception.
- `lib/home.mjs:63`: a kill inside a write leaves a truncated policy, key or env file, of
  which the next run makes a cross.
- `lib/init.mjs:120-127`: a kill between the two directories makes the next run call the
  home somebody else's, against `:501` ("it reuses what it already wrote").
- `lib/doctor.mjs:123`: "run weavr-curator init again (it generates a missing token)", but
  init refuses while an env copy still holds the old one (`lib/init.mjs:411-417`).
- The doctor never asks whether the running signer still takes the ops token on file. After
  a rotation of that file whose init was killed, `signer status` is green (the read token
  works) and `weavr-curator ops resume` is answered 401.
- The fix of "signer invariants" and of "signer lock" names no restart, so a signer whose
  treasury or guardian is older than `compose.env` can be unlocked only after the
  `up -d` that init prints last.
- init validates a document's numbers on shape and universe, the signer refuses to boot
  without any of the others (`C/policy.js:244-299`); init says ok on a lagging row, and
  while a handover away from its key is pending.

## 6. Limits

- Time is in small units; a hold, a condition, the row and the drift change at any
  moment, which is more than the world does.
- Liveness runs use `Vacuous = FALSE`: a proposal that names the weights the
  portfolio already has can be taken for done on a stale snapshot and then wait for
  an operator.
- A behaviour of `WritePipeline` is one hour with at most one midnight, and every
  deposit has the same size. The withdrawals' running total and the proposal quota
  are not in it. A ledger rebuild that itself throws is not modelled.
- In `WritePipeline` journal lines are whole and the file is never rotated: a pause,
  a lock or a deposit that only an overwritten file held is not seen there.
  `JournalFile` counts a file's length in pieces, of which every line is one.
- A review whose snapshot cannot be read at all changes nothing and is left out.
- A transaction or a put that lands after its sender gave up on it is an outside
  act.
- The strategy verb's pause and hourly rate are those of the pipeline and are left
  out of `MetadataDoc`, as are the parsing of configured tags and links and the
  eight-line message format.
- `SigningRun` abstracts bytes to what an instruction says: compact encodings,
  discriminators, IDL layouts and the manifest's checksums are not modelled, nor the
  memo, versions and heap of a transaction beyond whether they are allowed.
- An operator of `SigningRun` who can no longer tell (a killed run) waits until nothing
  can land. The keeper's own transactions are not executed in the model.
- `BuiltPayload` asks that the mint of a deposit or a withdrawal be the vault's. The decoder asks
  only that it can be resolved, and derives the signer's token accounts from it
  (`C/decode.js:515-522`): the model refuses more, and says nothing of a payload with another mint.
- `Proposals` lets the clock stand while a row is off, and a call is over within one tick.
- `CuratorHome` leaves out file modes, the wallet's own files,
  RPC settings, and an owner who changes files while nobody waits for her (after the
  confirmation). There is one curator key, so "signer wallet" never crosses; every document
  init accepts boots the signer; images, the provider's key, Telegram and the profile's
  jobs are not looked at.
- `OwnFunds` is about one price: a price that moves between the judgement and the vault is
  what the tolerance is for. No deposit of `Proposals` moves the book.
- HTTP, tokens, formatting, logging and Prometheus metrics are not modelled, nor
  are account layouts and instruction bytes.

## 7. What is left

1. `WritePipeline` over `JournalFile`: the switches and the caps against a file that
   rotates, and the window of proposals against one; the SOL floor of a write. The theorems
   on `WritePipeline` again over such a file, where what a ledger covers is what `KeepsWindow`
   leaves on file.
2. Of what is proved, `AllAsAsked`, `RunImplementsApproved` and `HonestIsSigned` are about
   instructions as the decoder reads them: the step from bytes to instructions would be next.

An abstract specification of the loop's promise (a change is announced, applied in its
window, withdrawn, or left to a human) was considered and left out: its safety half would be
the four action properties of `ApplyLoop` in one formula, each of which is proved, and its
liveness half is `EventuallySettled`.
