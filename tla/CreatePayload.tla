--------------------------- MODULE CreatePayload ---------------------------
(***************************************************************************)
(* decode.js verifyCreate: the walk of the one payload the treasury signs, *)
(* the create of a portfolio.  The treasury's steps come first, header,    *)
(* pages and reimbursement; the keeper's steps follow, are checked for     *)
(* whose they are and never decoded.  What the payload spends is bounded   *)
(* by the intent: maxLamports over the whole payload, maxPriorityLamports  *)
(* over each transaction.                                                  *)
(***************************************************************************)
EXTENDS BuiltPayload

StartCreate == [at |-> 0, keeper |-> FALSE, funded |-> FALSE, book |-> "absent",
                legs |-> <<>>, pages |-> <<>>, totals |-> {}, transfers |-> 0,
                outlay |-> 0, mine |-> <<>>]

Values(tx, op) == {tx.ixs[i].n : i \in {j \in DOMAIN tx.ixs : tx.ixs[j].op = op}}
Largest(S) == CHOOSE m \in S : \A n \in S : n <= m
Least(a, b) == IF a < b THEN a ELSE b

(* priorityFeeOf: units at the runtime's cap unless a limit is set, the    *)
(* largest of duplicates, rounded up to whole lamports.                    *)
PriorityFee(tx) ==
  LET limits == Values(tx, "set_limit")
      units  == IF limits = {} THEN ComputeCap ELSE Least(Largest(limits), ComputeCap)
      micro  == units * Largest({0} \union Values(tx, "set_price"))
  IN  (micro + MicroLamports - 1) \div MicroLamports

(***************************************************************************)
(* One instruction of a treasury step.  `echo` is the book the build says  *)
(* it makes, "absent" when it says nothing; `quote` is its rentLamports.   *)
(***************************************************************************)
SameBook_Mutant(ix, intent, fresh) == Sees(ix, "creator", fresh) = "me"
SameBook(ix, intent, fresh) ==
  /\ Sees(ix, "creator", fresh) = "me"
  /\ intent.echo # "absent" => Sees(ix, "book", fresh) = intent.echo

RightHeader(ix, intent, fresh) ==
  ix.op = "create_portfolio" =>
    /\ SameBook(ix, intent, fresh)
    /\ ix.arg = intent.arg
    /\ ix.n = intent.quote.rent
RightPage(ix, tx, intent, fresh) ==
  ix.op = "create_portfolio_page" =>
    /\ SameBook(ix, intent, fresh)
    /\ tx.pageIndex \in {-1, ix.page}
RightTransfer(ix, intent, fresh) ==
  ix.op = "transfer" =>
    /\ Sees(ix, "from", fresh) = "me"
    /\ Sees(ix, "to", fresh) = "keeper"
    /\ ix.n = intent.quote.keeper

FitsCreate(tx, intent, fresh) ==
  \A i \in DOMAIN tx.ixs :
    /\ RightHeader(tx.ixs[i], intent, fresh)
    /\ RightPage(tx.ixs[i], tx, intent, fresh)
    /\ RightTransfer(tx.ixs[i], intent, fresh)

Transfers(tx) == CountOf(tx, "transfer")

(***************************************************************************)
(* A treasury step: before every keeper step, create_portfolio first and   *)
(* once, no page after the reimbursement, one reimbursement in all.        *)
(***************************************************************************)
CreatorInPlace(walk, step) ==
  /\ ~walk.keeper
  /\ (step = "create_portfolio") = (walk.at = 0)
  /\ step \in {"fund_operator", "create_portfolio_page"} => ~walk.funded

AcceptsCreator(walk, tx, intent, fresh) ==
  /\ tx.step \in CreatorSteps
  /\ tx.signer \in {"absent", "creator"}
  /\ CreatorInPlace(walk, tx.step)
  /\ Decodes(tx) /\ PaidByMe(tx)
  /\ CarriesItsStep(tx)
  /\ FitsCreate(tx, intent, fresh)
  /\ walk.transfers + Transfers(tx) <= 1
  /\ PriorityFee(tx) <= intent.maxPriority

AcceptsKeeper(tx) ==
  /\ tx.step \in KeeperSteps
  /\ tx.signer \in {"absent", "keeper_processor"}
  /\ tx.signerKey # "me" /\ tx.payer # "me"
  /\ Parses(tx) /\ Allowed(tx)

AcceptsCreate(walk, tx, intent, fresh) ==
  AcceptsCreator(walk, tx, intent, fresh) \/ AcceptsKeeper(tx)

(***************************************************************************)
(* What the walk carries along, and what the whole payload must come to.   *)
(* The legs are the header's, or the pages' put together: never both.      *)
(***************************************************************************)
Only(tx, op) == tx.ixs[CHOOSE i \in DOMAIN tx.ixs : tx.ixs[i].op = op]

Carried(walk, tx, fresh) ==
  CASE tx.step = "create_portfolio" ->
         LET ix == Only(tx, "create_portfolio")
         IN  [walk EXCEPT !.book = Sees(ix, "book", fresh), !.legs = ix.legs, !.outlay = @ + ix.n]
    [] tx.step = "create_portfolio_page" ->
         LET ix == Only(tx, "create_portfolio_page")
         IN  [walk EXCEPT !.legs = @ \o ix.legs, !.pages = Append(@, ix.page),
                          !.totals = @ \union {ix.total}]
    [] OTHER -> walk

AfterCreate(walk, tx, fresh) ==
  IF tx.step \in KeeperSteps
  THEN [walk EXCEPT !.at = @ + 1, !.keeper = TRUE]
  ELSE [Carried(walk, tx, fresh) EXCEPT
          !.at = @ + 1,
          !.funded = @ \/ tx.step = "fund_operator",
          !.transfers = @ + Transfers(tx),
          !.outlay = @ + (IF Transfers(tx) > 0 THEN Only(tx, "transfer").n ELSE 0),
          !.mine = Append(@, tx)]

HeaderLegs(walk) == Only(walk.mine[1], "create_portfolio").legs
CompleteCreate(walk, intent) ==
  /\ walk.mine # <<>>
  /\ IF HeaderLegs(walk) # <<>>
     THEN walk.pages = <<>>
     ELSE walk.pages # <<>> /\ InSequence(walk.pages) /\ walk.totals = {Len(intent.legs)}
  /\ walk.legs = intent.legs
  /\ walk.outlay <= intent.maxLamports
=============================================================================
