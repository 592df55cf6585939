------------------------------ MODULE Proposals ------------------------------
(***************************************************************************)
(* A change of targets from the proposer's verdict to the gate before its  *)
(* apply: verbs.js propose and simulate, cancel, the ledger they read and  *)
(* journal.js rebuilds, and applyGates on the change that is pending, with *)
(* a catalogue that loses and regains its numbers under all of them and a  *)
(* signer that restarts with another policy.                               *)
(*                                                                         *)
(* A call judges on one snapshot, sends, and journals once its transaction *)
(* has landed; others run in between.  The loop's own states are           *)
(* ApplyLoop's business: here an apply is one step behind its gate.        *)
(***************************************************************************)
EXTENDS PolicyCheck, Sequences

CONSTANTS
  Callers,       \* who may propose at the same time
  Candidates,    \* target sets they ask for
  FirstBook,     \* the book's targets at the start
  NoShares,      \* legs of the book that hold nothing
  Policies,      \* documents somebody may write
  Good,          \* the catalogue with every number in it
  Variants,      \* [pool -> what its row may turn into]
  Answers,       \* what the portfolio's row may turn into
  Notice,        \* rebalance_delay_secs
  RolledWindow,  \* the thirty days the ledger's own count looks back
  MaxNow,        \* bound: the clock
  MaxLanded,     \* bound: proposals that land
  MaxFaults,     \* bound: rows that are off at once
  FaultsUntil    \* bound: no row turns after this moment

VARIABLES
  now,
  policy,          \* the document the signer runs
  catalogue,       \* GET /v1/pools
  portfolioRow,    \* GET /v1/portfolios/:mint: what it lost of the book and the change
  book,            \* the targets the book is at
  pending,         \* the change pending on chain, or NoChange
  lastRebalance,   \* Portfolio.last_rebalance_at
  ledger,          \* ctx.state.ledger: list, rolled count, when last rebuilt
  journal,         \* when each journaled proposal was recorded
  calls,           \* each caller's call
  told,            \* the last answer that carried nextProposeAt
  landed,          \* when each proposal landed
  forgotten        \* proposals that landed and were never journaled

vars == <<now, policy, catalogue, portfolioRow, book, pending, lastRebalance, ledger, journal,
          calls, told, landed, forgotten>>

Documents == {p \in Policies : Loads(p)}   \* the signer boots with no other
Rows ==
  [listed : BOOLEAN, chain : BOOLEAN, active : BOOLEAN, allowed : BOOLEAN, inputs : BOOLEAN,
   tier : Nat \union {Unknown}, loss : Nat \union {Unknown}, cap : Nat \union {Unknown}]

(***************************************************************************)
(* A row lists the book's legs under holdings, or only as targets and      *)
(* positions, or not at all.  A leg of it may lack its pool, its target    *)
(* weight or its shares; the change may be unreadable, or have legs whose  *)
(* weight is null, which Number reads as 0.                                *)
(***************************************************************************)
WholeRow ==
  [legs |-> "holdings", unnamed |-> {}, unweighed |-> {}, unshared |-> {},
   change |-> TRUE, blank |-> {}]
PortfolioRows ==
  LET pools == SUBSET DOMAIN Good
  IN  [legs : {"holdings", "targets", "none"}, unnamed : pools, unweighed : pools,
       unshared : pools, change : BOOLEAN, blank : pools]

ASSUME BoundsAssumption ==
  /\ IsFiniteSet(Callers) /\ Callers # {}
  /\ Notice \in Nat /\ RolledWindow \in Nat /\ MaxNow \in Nat /\ MaxLanded \in Nat
ASSUME DocumentsAssumption ==   \* loadPolicy refuses a number that is not a count
  \A doc \in Documents : doc.day \in Nat /\ \A field \in Numbers : doc[field] \in Nat
ASSUME CatalogueAssumption ==
  /\ Good \in [DOMAIN Good -> Rows]
  /\ \A p \in DOMAIN Good : Variants[p] \subseteq Rows
  /\ Answers \subseteq PortfolioRows
  /\ \A targets \in Candidates \union {FirstBook} :
       /\ targets \in [DOMAIN targets -> Nat]
       /\ IsFiniteSet(DOMAIN targets) /\ DOMAIN targets \subseteq DOMAIN Good

NoChange == [targets |-> <<>>, effectiveAt |-> Unknown, under |-> {}]
Idle == [stage |-> "idle", targets |-> <<>>, at |-> 0, under |-> {}]
ToldNothing == [until |-> Unknown, journaled |-> 0, rebalanced |-> Unknown]

(***************************************************************************)
(* The book as the row tells it: a leg without a pool is passed over, one  *)
(* without a weight counts as 0, and only holdings say that a leg is       *)
(* empty.  WholeView is the book as it is.                                 *)
(***************************************************************************)
Named == DOMAIN book \ portfolioRow.unnamed
HeldLegs == [p \in Named |-> IF p \in portfolioRow.unweighed THEN 0 ELSE book[p]]
Empty ==
  IF portfolioRow.legs = "holdings" THEN (NoShares \intersect Named) \ portfolioRow.unshared
  ELSE {}
Book == [known |-> portfolioRow.legs # "none", legs |-> HeldLegs, empty |-> Empty]
WholeView == [known |-> TRUE, legs |-> book, empty |-> NoShares \intersect DOMAIN book]

(***************************************************************************)
(* The ledger.  Every append to the journal rebuilds it; the rolled count  *)
(* is of that moment and of the thirty days before it, whatever window the *)
(* policy has, and is not counted again until the next append.             *)
(***************************************************************************)
Rebuilt_Mutant(times) == [ledger EXCEPT !.builtAt = now]
Rebuilt(times) ==
  [proposals |-> times, builtAt |-> now,
   rolled |-> Cardinality({i \in DOMAIN times : times[i] > now - RolledWindow})]
Journaled == ledger' = Rebuilt(journal) /\ UNCHANGED journal

Verdict(targets) ==
  EvaluateProposal(policy, targets, catalogue, Book, ledger, pending # NoChange, lastRebalance, now)

(* proposeGates: what the program itself would refuse.                     *)
GatesOpen == pending = NoChange /\ (lastRebalance = Unknown \/ now - lastRebalance >= Notice)

Tells ==
  told' = [until |-> NextProposeAt(policy, ledger, lastRebalance, now),
           journaled |-> Len(journal), rebalanced |-> lastRebalance]

Init ==
  /\ now = 0 /\ policy \in Documents
  /\ catalogue = Good /\ portfolioRow = WholeRow
  /\ book = FirstBook /\ pending = NoChange /\ lastRebalance = Unknown
  /\ ledger = [proposals |-> <<>>, builtAt |-> 0, rolled |-> 0] /\ journal = <<>>
  /\ calls = [c \in Callers |-> Idle] /\ told = ToldNothing
  /\ landed = <<>> /\ forgotten = 0

Outside == UNCHANGED <<now, policy, catalogue, portfolioRow>>

Simulate(targets) ==
  /\ Verdict(targets) # {}
  /\ Tells
  /\ Outside /\ UNCHANGED <<book, pending, lastRebalance, ledger, journal, calls, landed, forgotten>>

(* Who admitted a change is kept for the properties: nobody, when it was   *)
(* judged on a row that told the book wrong.                               *)
AdmittedUnder == IF Book = WholeView THEN {policy} ELSE {}
Judge(c, targets) ==
  /\ calls[c].stage = "idle" /\ Len(landed) < MaxLanded
  /\ IF Verdict(targets) = {} /\ GatesOpen
     THEN /\ calls' = [calls EXCEPT ![c] = [stage |-> "judged", targets |-> targets, at |-> now,
                                            under |-> AdmittedUnder]]
          /\ UNCHANGED <<ledger, journal, told>>
     ELSE /\ Journaled
          /\ IF Verdict(targets) = {} THEN UNCHANGED told ELSE Tells
          /\ UNCHANGED calls
  /\ Outside /\ UNCHANGED <<book, pending, lastRebalance, landed, forgotten>>

Land(c) ==
  /\ calls[c].stage = "judged" /\ GatesOpen
  /\ pending' = [targets |-> calls[c].targets, effectiveAt |-> now + Notice,
                 under |-> calls[c].under]
  /\ landed' = Append(landed, now)
  /\ calls' = [calls EXCEPT ![c].stage = "landed"]
  /\ Outside /\ UNCHANGED <<book, lastRebalance, ledger, journal, told, forgotten>>

Bounce(c) ==   \* the program refuses it, the decoder does, or it expires
  /\ calls[c].stage = "judged"
  /\ calls' = [calls EXCEPT ![c] = Idle]
  /\ Journaled
  /\ Outside /\ UNCHANGED <<book, pending, lastRebalance, told, landed, forgotten>>

Record(c) ==
  /\ calls[c].stage = "landed"
  /\ calls' = [calls EXCEPT ![c] = Idle]
  /\ journal' = Append(journal, now)
  /\ ledger' = Rebuilt(journal')
  /\ Outside /\ UNCHANGED <<book, pending, lastRebalance, told, landed, forgotten>>

Cancel ==
  /\ pending # NoChange
  /\ pending' = NoChange
  /\ Journaled
  /\ Outside /\ UNCHANGED <<book, lastRebalance, calls, told, landed, forgotten>>

Asked ==   \* the change as the row tells it
  [p \in DOMAIN pending.targets |-> IF p \in portfolioRow.blank THEN 0 ELSE pending.targets[p]]
Gate == ChangeBlocker(policy, portfolioRow.change, Asked, catalogue, Book)
Apply ==
  /\ pending # NoChange /\ now >= pending.effectiveAt
  /\ Gate = "passes"
  /\ book' = pending.targets /\ lastRebalance' = now /\ pending' = NoChange
  /\ Journaled
  /\ Outside /\ UNCHANGED <<calls, told, landed, forgotten>>

Restart ==   \* a crash or a new document: the calls are lost, the journal is read
  /\ policy' \in Documents
  /\ calls' = [c \in Callers |-> Idle]
  /\ ledger' = Rebuilt(journal)
  /\ forgotten' = forgotten + Cardinality({c \in Callers : calls[c].stage = "landed"})
  /\ told' = ToldNothing
  /\ UNCHANGED <<now, catalogue, portfolioRow, book, pending, lastRebalance, journal, landed>>

(***************************************************************************)
(* The clock, and what the api knows.  A call is over within one tick of   *)
(* the clock; it stands still while a row is off (a bound).                *)
(***************************************************************************)
Tick ==
  /\ now < MaxNow /\ catalogue = Good /\ portfolioRow = WholeRow
  /\ \A c \in Callers : calls[c].stage = "idle" \/ calls[c].at = now
  /\ now' = now + 1
  /\ UNCHANGED <<policy, catalogue, portfolioRow, book, pending, lastRebalance, ledger, journal,
                 calls, told, landed, forgotten>>

Off == {p \in DOMAIN Good : catalogue[p] # Good[p]}
RowsOff(pools) ==   \* among these and the portfolio's
  Cardinality(Off \intersect pools) + (IF portfolioRow = WholeRow THEN 0 ELSE 1)
Faulty ==
  /\ now <= FaultsUntil /\ Len(landed) <= 1
  /\ told = ToldNothing /\ \A c \in Callers : calls[c].stage = "idle"

RowTurns(p) ==
  /\ Faulty
  /\ \E row \in Variants[p] \union {Good[p]} : catalogue' = [catalogue EXCEPT ![p] = row]
  /\ RowsOff(DOMAIN Good \ {p}) < MaxFaults
  /\ UNCHANGED <<now, policy, portfolioRow, book, pending, lastRebalance, ledger, journal, calls,
                 told, landed, forgotten>>

ApiTurns ==
  /\ Faulty
  /\ portfolioRow' \in Answers \union {WholeRow}
  /\ Cardinality(Off) < MaxFaults
  /\ UNCHANGED <<now, policy, catalogue, book, pending, lastRebalance, ledger, journal, calls,
                 told, landed, forgotten>>

Next ==
  \/ \E targets \in Candidates : Simulate(targets) \/ \E c \in Callers : Judge(c, targets)
  \/ \E c \in Callers : Land(c) \/ Bounce(c) \/ Record(c)
  \/ Cancel \/ Apply \/ Restart \/ Tick \/ ApiTurns
  \/ \E p \in DOMAIN Good : RowTurns(p)

Spec == Init /\ [][Next]_vars

-----------------------------------------------------------------------------
TypeOK ==
  /\ now \in 0 .. MaxNow /\ policy \in Policies
  /\ \A p \in DOMAIN Good : catalogue[p] \in Variants[p] \union {Good[p]}
  /\ portfolioRow \in Answers \union {WholeRow}
  /\ book \in Candidates \union {FirstBook}
  /\ pending = NoChange \/ pending.targets \in Candidates
  /\ lastRebalance \in -1 .. now
  /\ Len(landed) <= MaxLanded + Cardinality(Callers) /\ forgotten \in 0 .. Len(landed)
  /\ ledger.proposals = journal

(* A change the running policy admitted on the book as it is waits, and is *)
(* not called outside the policy, while the catalogue has only lost        *)
(* numbers and the portfolio's row tells the book and the change right, is *)
(* missing, or is unreadable (preflight.js:144-151).  A row that lost      *)
(* weights, shares or legs of the book can break the caps on turnover and  *)
(* cost and no other rule (policy.js:416, 418-426, 607-609); one with a    *)
(* null weight in the change can break any (preflight.js:170).             *)
LostFrom(row, good) ==
  \/ ~row.listed
  \/ \E tier \in {good.tier, Unknown}, loss \in {good.loss, Unknown}, cap \in {good.cap, Unknown},
        inputs \in BOOLEAN :
       row = [good EXCEPT !.tier = tier, !.loss = loss, !.cap = cap, !.inputs = inputs]
OnlyLost == \A p \in DOMAIN Good : LostFrom(catalogue[p], Good[p])
MoveCaps == {"TURNOVER_CAP", "COST_CAP"}
Breaches == {r.code : r \in {r \in EvaluateTargets(policy, Asked, catalogue, Book) : ~r.gap}}
GateFollowsVerdict ==
  ( pending # NoChange /\ policy \in pending.under /\ OnlyLost
      /\ Gate = "CHANGE_OUTSIDE_POLICY" )
    => \/ Asked # pending.targets
       \/ Book.known /\ Book # WholeView /\ Breaches \subseteq MoveCaps

(* In any window as long as the quota's, the proposals that land exceed    *)
(* the quota by no more than the calls that were judged together, and the  *)
(* ones a crash kept from the journal (policy.js:689-698).                 *)
QuotaBound ==
  \A k \in DOMAIN landed :
    LET window == {i \in 1 .. k : landed[i] > landed[k] - policy.quotaWindow}
    IN  Cardinality(window) <= policy.maxProposals - 1 + Cardinality(Callers) + forgotten

(* Init and the signer judge alike: a set of targets init or the doctor    *)
(* passes under a document is one the signer's rules on universe and shape *)
(* pass, and one the signer passes is refused only for a pool without a cap of its own   *)
(* (policy-check.mjs:1-6).                                                 *)
InitAgrees ==
  \A doc \in Documents, targets \in Candidates \union {book} :
    LET items    == BookItems(doc, targets, catalogue)
        held     == [known |-> TRUE, legs |-> targets, empty |-> {}]
        refusals == EvaluateTargets(doc, targets, catalogue, held)
    IN  /\ items = {} => refusals = {}
        /\ refusals = {} /\ (\A p \in DOMAIN targets : catalogue[p].cap # Unknown) => items = {}

(* A proposer told to wait until a moment is not too early at that moment, *)
(* if nothing was proposed or applied since and the ledger has been        *)
(* rebuilt by then: the rolled count is of the last append (policy.js:733, *)
(* 472-473).  A quota of none never frees, and a window shorter than the   *)
(* thirty days the ledger counts is held to those (journal.js:368).        *)
HoldEnds ==
  ( /\ told # ToldNothing /\ now >= told.until
    /\ policy.maxProposals > 0 /\ policy.quotaWindow >= RolledWindow
    /\ told.journaled = Len(journal) /\ told.rebalanced = lastRebalance
    /\ ledger.builtAt >= told.until
    /\ InsideHours(policy, now) ) => Cadence(policy, ledger, lastRebalance, now) = {}
=============================================================================
