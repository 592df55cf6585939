----------------------------- MODULE SigningRun -----------------------------
(***************************************************************************)
(* One key from the build to the chain: the decode, sign and send of a     *)
(* write verb (verbs.js runWrite, steps 5 to 8) and create_portfolio.mjs,  *)
(* the run of the treasury's key with its exit codes, its polls and its    *)
(* resumes, together with the operator who acts on those exit codes.       *)
(*                                                                         *)
(* The api may build any payload whose transactions are in Offers; it      *)
(* keeps the deployments, sends what it is given in order, and nothing it  *)
(* says can be trusted but what the decoder reads.  A behaviour asks for   *)
(* one verb.  LandsAsApproved says it implements Approved.                 *)
(***************************************************************************)
EXTENDS HonestBuild

CONSTANTS
  Intents,         \* what may be asked for, one record per verb
  Offers,          \* [verb -> the transactions a build may hold]
  Honest,          \* [verb -> the payloads of a correct build]
  Books,           \* the book each build makes, in their order
  Quotes,          \* the amounts a build may quote
  MaxResign,       \* MAX_RESIGN
  DefaultUnits,    \* the runtime's compute units per instruction, unasked
  MaxTx,           \* bound: transactions in a payload
  MaxDeployments,  \* bound: builds
  Scripted         \* does the operator act on the exit codes alone?

NoQuote == [rent |-> -1, keeper |-> -1]

ASSUME BoundsAssumption ==
  /\ MaxResign \in Nat /\ MaxTx \in Nat /\ MaxDeployments \in Nat \ {0}
  /\ DefaultUnits \in Nat
  /\ 1 .. MaxDeployments \subseteq DOMAIN Books
  /\ Scripted \in BOOLEAN

(* An intent before any build: no book, no quote.                          *)
ASSUME IntentsAssumption ==
  \A i \in Intents :
    /\ i = [verb |-> i.verb, legs |-> i.legs, arg |-> i.arg, echo |-> "absent", quote |-> NoQuote,
            maxLamports |-> i.maxLamports, maxPriority |-> i.maxPriority]
    /\ i.maxLamports \in Nat /\ i.maxPriority \in Nat /\ IsList(i.legs)
    /\ i.verb \in DOMAIN ExpectedSteps \union {"create"}

(* The correct builds are some of those HonestBuild describes.             *)
ASSUME HonestAssumption ==
  \A i \in Intents : \A p \in Honest[i.verb] : WellBuilt(p, i)

(* A transaction is a list of instructions, its numbers are unsigned, and  *)
(* a decoded instruction has the accounts of its layout.                   *)
Layout(op) ==
  IF op \in DOMAIN Accounts THEN DOMAIN Accounts[op]
  ELSE CASE op = "create_ata" -> {"payer", "derived", "owner"}
         [] op = "transfer" -> {"from", "to"}
         [] op \in {"create_portfolio", "create_portfolio_page"} -> {"creator", "book"}
         [] OTHER -> {}
ASSUME OffersAssumption ==
  \A verb \in DOMAIN ExpectedSteps \union {"create"} : \A tx \in Offers[verb] :
    /\ Len(tx.ixs) \in Nat /\ DOMAIN tx.ixs = 1 .. Len(tx.ixs)
    /\ \A i \in DOMAIN tx.ixs :
         /\ tx.ixs[i].n \in Nat /\ tx.ixs[i].page \in Nat
         /\ tx.ixs[i].program = "known" => DOMAIN tx.ixs[i].acct = Layout(tx.ixs[i].op)

VARIABLES
  expect,       \* the intent the decoder is given
  stage,        \* "ready", "reading", "walking", "signed", "polling" or "over"
  run,          \* what the process holds
  exit,         \* its exit code: EXIT's names, "killed", or "none" while it runs
  deployments,  \* the api's records, oldest first; the run's is the last
  log           \* the operator's transactions the chain has executed, in order

vars == <<expect, stage, run, exit, deployments, log>>

Refinement == INSTANCE Approved WITH ask <- expect, done <- log,
                UnitsCap <- ComputeCap, UnitsPerLamport <- MicroLamports

Create == expect.verb = "create"

StartRun(mode) ==
  [mode |-> mode, fresh |-> FALSE, resigned |-> 0, book |-> "none",
   answered |-> FALSE, presented |-> <<>>, verdict |-> "open",
   walk |-> IF mode = "write" THEN StartWalk ELSE StartCreate]
NewDeployment ==
  [nonce |-> FALSE, handed |-> <<>>, landed |-> 0, status |-> "pending", books |-> {}]

Current == deployments[Len(deployments)]
SetCurrent(d) == deployments' = [deployments EXCEPT ![Len(deployments)] = d]

Ends(code) == stage' = "over" /\ exit' = code

(***************************************************************************)
(* What the chain can still do with a deployment, and when its operator    *)
(* runs the create again: on exit 2, which says nothing was signed or sent *)
(* unless the message names the deployment, or when nothing it handed over *)
(* can land any more.  After a resume a careful one resumes again; one who *)
(* goes by the exit codes alone (Scripted) takes a resume's exit 2 at its  *)
(* word too.                                                               *)
(***************************************************************************)
IsHeader(tx) == tx.step = "create_portfolio"
HeaderOut(d) == d.handed # <<>> /\ (d.landed > 0 \/ d.nonce \/ d.status = "pending")

TrustsExit == exit = "refused" /\ ~run.answered /\ (Scripted \/ run.mode # "resume")
MayCreate ==
  \/ deployments = <<>>
  \/ TrustsExit
  \/ \A i \in DOMAIN deployments : ~HeaderOut(deployments[i])

(***************************************************************************)
(* Starting: a write verb with its payload built; a create, which reads    *)
(* the key, the table, the health and the pools before it builds.          *)
(***************************************************************************)
Init ==
  /\ expect \in Intents
  /\ stage = "ready" /\ exit = "none"
  /\ run = StartRun(IF Create THEN "create" ELSE "write")
  /\ deployments = <<>> /\ log = <<>>

StartWrite ==
  /\ stage = "ready" /\ ~Create
  /\ stage' = "walking"
  /\ deployments' = <<NewDeployment>>
  /\ UNCHANGED <<expect, run, exit, log>>

RunAgain ==
  /\ stage \in {"ready", "over"} /\ Create
  /\ exit # "ok" \/ run.mode = "dry"
  /\ MayCreate /\ Len(deployments) < MaxDeployments
  /\ run' = StartRun("create")
  /\ stage' = "reading" /\ exit' = "none"
  /\ UNCHANGED <<expect, deployments, log>>

ReadFails ==   \* a refusal or a crash before the build has answered
  /\ stage = "reading"
  /\ \E code \in {"error", "refused"} : Ends(code)
  /\ UNCHANGED <<expect, run, deployments, log>>

Build ==
  /\ stage = "reading"
  /\ \E echo \in {"absent", Books[Len(deployments) + 1]}, quote \in Quotes \union {NoQuote} :
       /\ expect' = [expect EXCEPT !.echo = echo, !.quote = quote]
       /\ deployments' = Append(deployments, NewDeployment)
       /\ IF quote = NoQuote THEN Ends("refused") ELSE stage' = "walking" /\ UNCHANGED exit
  /\ UNCHANGED <<run, log>>

(***************************************************************************)
(* The walk.  A transaction the decoder could not resolve an account of    *)
(* earns a write verb one refresh of the table, which may fail; the same   *)
(* transaction is then judged again.  A create reads the table as it       *)
(* starts: whether it could shows in the first v0 transaction.  A refusal  *)
(* ends a first run with exit 2 and a sign_again with exit 3.              *)
(***************************************************************************)
Passes(tx, fresh) ==
  IF Create THEN AcceptsCreate(run.walk, tx, expect, fresh)
  ELSE Verifiable(expect) /\ Accepts(run.walk, tx, expect, fresh)
Taken(tx, fresh) ==
  IF Create THEN AfterCreate(run.walk, tx, fresh) ELSE After(run.walk, tx, expect)

TableRead(tx) ==
  IF tx.tables # {} /\ ~run.fresh /\ (Create \/ LookupMiss(tx)) THEN BOOLEAN ELSE {run.fresh}

(* A partial rebuild: what is left of a payload whose header has landed.   *)
Offered == {tx \in Offers[expect.verb] : Current.landed > 0 => ~IsHeader(tx)}

Refusal == IF run.resigned = 0 THEN "refused" ELSE "timeout"

Judge(tx) ==
  /\ stage = "walking" /\ Len(run.presented) < MaxTx
  /\ \E fresh \in TableRead(tx) :
       LET judged == [run EXCEPT !.fresh = fresh, !.presented = Append(@, tx)]
       IN  IF Passes(tx, fresh)
           THEN run' = [judged EXCEPT !.walk = Taken(tx, fresh)] /\ UNCHANGED <<stage, exit>>
           ELSE run' = [judged EXCEPT !.verdict = "refused"] /\ Ends(Refusal)
  /\ UNCHANGED <<expect, deployments, log>>

(* The book the script reports is the one it signs for, never the echo.    *)
Whole == IF Create THEN CompleteCreate(run.walk, expect) /\ run.walk.book # Unresolved
         ELSE Complete(run.walk, expect)
Conclude ==
  /\ stage = "walking"
  /\ \E dry \in BOOLEAN :
       LET first == Create /\ run.resigned = 0
       IN  /\ dry => first /\ Whole
           /\ run' = [run EXCEPT !.verdict = IF Whole THEN "verified" ELSE "incomplete",
                                 !.book = IF first THEN run.walk.book ELSE @,
                                 !.mode = IF dry THEN "dry" ELSE @]
           /\ IF ~Whole THEN Ends(Refusal)
              ELSE IF dry THEN Ends("ok")
              ELSE stage' = "signed" /\ UNCHANGED exit
  /\ UNCHANGED <<expect, deployments, log>>

SignFails ==
  /\ stage = "signed"
  /\ Ends(Refusal)
  /\ UNCHANGED <<expect, run, deployments, log>>

(***************************************************************************)
(* Handing the signed transactions over: a write verb sends them itself;   *)
(* the script posts them to the api, which accepts them, answers with a    *)
(* 4xx (some may have been sent) or is silent (some may have been sent).   *)
(***************************************************************************)
HandOver ==
  \E nonce \in BOOLEAN :   \* was it a nonce-backed build?  never one that expired
    /\ nonce => Create /\ run.resigned = 0
    /\ SetCurrent([Current EXCEPT !.handed = run.walk.mine, !.status = "pending", !.nonce = nonce,
                                  !.books = IF Create THEN @ \union {run.walk.book} ELSE @])

Dropped == [run EXCEPT !.walk = StartCreate, !.presented = <<>>]

Send ==
  /\ stage = "signed" /\ ~Create
  /\ HandOver /\ Ends("ok")
  /\ UNCHANGED <<expect, run, log>>

Accepted ==
  /\ stage = "signed" /\ Create
  /\ HandOver /\ run' = Dropped
  /\ stage' = "polling"
  /\ UNCHANGED <<expect, exit, log>>

Answered4xx ==
  /\ stage = "signed" /\ Create
  /\ HandOver \/ UNCHANGED deployments
  /\ run' = [Dropped EXCEPT !.answered = TRUE]
  /\ Ends(Refusal)
  /\ UNCHANGED <<expect, log>>

SilenceExit_Mutant == "refused"
SilenceExit == "timeout"
NoAnswer ==
  /\ stage = "signed" /\ Create
  /\ HandOver \/ UNCHANGED deployments
  /\ run' = Dropped
  /\ Ends(SilenceExit)
  /\ UNCHANGED <<expect, log>>

(***************************************************************************)
(* Polling, of the run that submitted and of a resume, which has no key.   *)
(***************************************************************************)
Resume ==
  /\ stage = "over" /\ Create /\ deployments # <<>> /\ exit # "ok"
  /\ HeaderOut(Current)
  /\ run' = StartRun("resume")
  /\ stage' = "polling" /\ exit' = "none"
  /\ UNCHANGED <<expect, deployments, log>>

PollLive ==
  /\ stage = "polling" /\ Current.status = "live"
  /\ Ends("ok")
  /\ UNCHANGED <<expect, run, deployments, log>>

PollDeadline ==   \* until the deadline a pending deployment is polled again
  /\ stage = "polling" /\ Current.status = "pending"
  /\ Ends("timeout")
  /\ UNCHANGED <<expect, run, deployments, log>>

PollExpired ==
  /\ stage = "polling" /\ Current.status = "expired"
  /\ Ends("timeout")
  /\ UNCHANGED <<expect, run, deployments, log>>

Resigned_Mutant(r) == Least(r.resigned + 1, MaxResign)
Resigned(r) == r.resigned + 1
TooMany_Mutant(resigns) == resigns > MaxResign + 1
TooMany(resigns) == resigns > MaxResign
PollSignAgain ==
  /\ stage = "polling" /\ Current.status = "sign_again"
  /\ IF run.mode = "resume" \/ TooMany(Resigned(run))
     THEN Ends("timeout") /\ UNCHANGED run
     ELSE /\ run' = [run EXCEPT !.resigned = Resigned(run), !.walk = StartCreate,
                                !.presented = <<>>, !.verdict = "open"]
          /\ stage' = "walking" /\ UNCHANGED exit
  /\ UNCHANGED <<expect, deployments, log>>

(* No answer on a poll: the run that submitted keeps its promise; in a     *)
(* resume the error reaches the outer catch.                               *)
QuietExits_Mutant(mode) == {"error", "refused"}
QuietExits(mode) == IF mode = "resume" THEN {"error", "refused"} ELSE {"timeout"}
PollFails ==
  /\ stage = "polling"
  /\ \E code \in QuietExits(run.mode) : Ends(code)
  /\ UNCHANGED <<expect, run, deployments, log>>

Kill ==   \* a crash of the process, an operator's Ctrl-C
  /\ stage \in {"reading", "walking", "signed", "polling"} /\ Create
  /\ Ends("killed") /\ run' = Dropped
  /\ UNCHANGED <<expect, deployments, log>>

(***************************************************************************)
(* The api and the chain.  Transactions of a deployment land in order; a   *)
(* book is created once; a blockhash build can expire, a nonce-backed one  *)
(* cannot.  An expired creator step is rebuilt, with its header when it    *)
(* has not landed.                                                         *)
(***************************************************************************)
Landed(book) ==
  \E n \in DOMAIN log : IsHeader(log[n]) /\ Only(log[n], "create_portfolio").acct.book = book

Land(k) ==
  LET d  == deployments[k]
      tx == d.handed[d.landed + 1]
  IN  /\ d.landed < Len(d.handed)
      /\ d.nonce \/ d.status = "pending"
      /\ IsHeader(tx) => ~Landed(Only(tx, "create_portfolio").acct.book)
      /\ log' = Append(log, tx)
      /\ deployments' = [deployments EXCEPT ![k].landed = @ + 1]
      /\ UNCHANGED <<expect, stage, run, exit>>

Stops(k, status) ==   \* nothing more of a blockhash build can land
  deployments' = [deployments EXCEPT
    ![k].status = status, ![k].handed = IF deployments[k].nonce THEN @ ELSE SubSeq(@, 1, deployments[k].landed)]

Expire(k) ==
  LET d == deployments[k]
  IN  /\ Create /\ d.status = "pending" /\ ~d.nonce
      /\ d.landed < Len(d.handed)
      /\ Stops(k, "sign_again")
      /\ UNCHANGED <<expect, stage, run, exit, log>>

GiveUp(k) ==
  /\ Create /\ deployments[k].handed # <<>>
  /\ deployments[k].status \in {"pending", "sign_again"}
  /\ Stops(k, "expired")
  /\ UNCHANGED <<expect, stage, run, exit, log>>

KeeperCompletes(k) ==
  LET d == deployments[k]
  IN  /\ Create /\ d.status = "pending"
      /\ d.handed # <<>> /\ d.landed = Len(d.handed)
      /\ deployments' = [deployments EXCEPT ![k].status = "live"]
      /\ UNCHANGED <<expect, stage, run, exit, log>>

-----------------------------------------------------------------------------
Process ==
  \/ StartWrite \/ ReadFails \/ Build
  \/ (stage = "walking" /\ \E tx \in Offered : Judge(tx))
  \/ Conclude \/ SignFails \/ Send \/ Accepted \/ Answered4xx \/ NoAnswer
  \/ PollLive \/ PollDeadline \/ PollExpired \/ PollSignAgain \/ PollFails

Elsewhere ==
  \/ RunAgain \/ Resume \/ Kill
  \/ \E k \in DOMAIN deployments :
       Land(k) \/ Expire(k) \/ GiveUp(k) \/ KeeperCompletes(k)

Next == Process \/ Elsewhere

Spec == Init /\ [][Next]_vars /\ WF_vars(Process)

(***************************************************************************)
(* The values the variables range over.                                    *)
(***************************************************************************)
Codes == {"ok", "error", "refused", "timeout", "killed"}
TypeOK ==
  /\ \E i \in Intents : expect = [i EXCEPT !.echo = expect.echo, !.quote = expect.quote]
  /\ expect.echo \in Range(Books) \union {"absent"} /\ expect.quote \in Quotes \union {NoQuote}
  /\ stage \in {"ready", "reading", "walking", "signed", "polling", "over"}
  /\ stage = "over" <=> exit \in Codes
  /\ exit \in Codes \union {"none"}
  /\ run.mode \in {"write", "create", "dry", "resume"}
  /\ run.resigned \in 0 .. MaxResign
  /\ \A i \in DOMAIN run.presented : run.presented[i] \in Offers[expect.verb]
  /\ Len(run.presented) <= MaxTx
  /\ Len(deployments) <= MaxDeployments
  /\ \A k \in DOMAIN deployments :
       /\ deployments[k].landed \in 0 .. Len(deployments[k].handed)
       /\ deployments[k].status \in {"pending", "live", "expired", "sign_again"}
  /\ \A n \in DOMAIN log : log[n] \in Offers[expect.verb]

(* Whatever the api builds, the chain executes in the operator's name only *)
(* what the intent asks for, once, in order and within the ceiling: the    *)
(* run implements Approved (verbs.js:630-660, create_portfolio.mjs:546).   *)
LandsAsApproved == Refinement!Spec

(* The operator pays for one book: over every run, resume, re-sign, silence *)
(* and crash, at most one create whose header landed or still can          *)
(* (create_portfolio.mjs:441-445).                                         *)
OneHeaderOut ==
  \A i, j \in DOMAIN deployments :
    HeaderOut(deployments[i]) /\ HeaderOut(deployments[j]) => i = j

(* The same, of what the chain has executed.                               *)
OneBook == Cardinality({n \in DOMAIN log : IsHeader(log[n])}) <= 1

(* A run that ends in exit 2 or 1 without naming its deployment has handed *)
(* nothing over, ever (README.md of the curator, the exit table).          *)
CleanExit ==
  Create /\ exit \in {"error", "refused"} /\ run.mode # "resume" /\ ~run.answered =>
    \A k \in DOMAIN deployments : ~HeaderOut(deployments[k])

(* A payload the api builds correctly is never refused by a decoder that   *)
(* has its lookup table: not for the order of its steps, not for where the *)
(* reimbursement rides, not for a field left out (decode.js:977-1105).     *)
BuiltRight(p) ==
  Create => LET header == Only(p[1], "create_portfolio")
            IN  /\ expect.echo \in {"absent", header.acct.book}
                /\ header.n = expect.quote.rent
                /\ \A i \in DOMAIN p : \A j \in Holding(p[i], "transfer") :
                     p[i].step \in CreatorSteps => p[i].ixs[j].n = expect.quote.keeper
Correct == {p \in Honest[expect.verb] : BuiltRight(p)}
StartsOne ==
  \E p \in Correct :
    Len(run.presented) <= Len(p) /\ SubSeq(p, 1, Len(run.presented)) = run.presented
HasTable == run.fresh \/ \A i \in DOMAIN run.presented : run.presented[i].tables = {}
NoFalseRefusal ==
  HasTable =>
    /\ run.verdict = "refused" => ~StartsOne
    /\ run.verdict = "incomplete" => run.presented \notin Correct

(* The book a run reports is one the treasury signed for, and when the     *)
(* build names a book, the only one, across every sign_again               *)
(* (create_portfolio.mjs:588-597).                                         *)
ReportedIsSigned ==
  (run.mode = "create" /\ exit \in {"ok", "timeout"} /\ Current.books # {}) =>
    /\ run.book \in Current.books
    /\ expect.echo # "absent" => Current.books = {run.book}

(* Every run ends: the deadline bounds the polls, the limit the re-signs.  *)
RunEnds == stage \in {"reading", "walking", "signed", "polling"} ~> stage = "over"
=============================================================================
