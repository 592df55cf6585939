---------------------------- MODULE HonestBuild -----------------------------
(***************************************************************************)
(* The api's side of a payload, external: what one it builds correctly     *)
(* looks like, as far as decode.js relies on it.  It is told of the        *)
(* payload as a whole, never as a walk: which steps are where, what each   *)
(* carries, and what they come to together.  No decision of the signer is  *)
(* taken here; SigningRun asks whether it ever refuses one of these.       *)
(***************************************************************************)
EXTENDS CreatePayload, Functions

IsList(s) == s \in Seq(Range(s))
Holding(tx, op) == {i \in DOMAIN tx.ixs : tx.ixs[i].op = op}
HasOne(tx, op) == \E i \in DOMAIN tx.ixs : Holding(tx, op) = {i}

(* A key is written out unless the transaction uses the table.             *)
Encoded(tx) ==
  /\ IsList(tx.ixs)
  /\ \/ tx.wire = "legacy" /\ tx.tables = {}
     \/ tx.wire = "v0" /\ tx.tables \in SUBSET {"nav"}
  /\ tx.tables = {} => \A ix \in Range(tx.ixs) : ix.late = {}

(* A transaction of the operator's: what its step is made of, and its fee. *)
Formed(tx) ==
  LET rule == StepRules[tx.step]
  IN  /\ Encoded(tx)
      /\ tx.payer = "me" /\ tx.signerKey \in {"absent", "me"}
      /\ \A ix \in Range(tx.ixs) :
           /\ ix.program = "known"
           /\ ix.op \in AlwaysAllowed \union rule.required \union rule.optional
      /\ \A op \in rule.required : HasOne(tx, op)
      /\ tx.step = "create_custody" => Holding(tx, "create_ata") # {}

NumberedAs(tx, page) ==
  /\ tx.pageIndex \in {-1, page}
  /\ \A ix \in Range(tx.ixs) : ix.op \in StepRules[tx.step].required => ix.page = page

(***************************************************************************)
(* A write verb: the accounts of each layout, the arguments asked for, the *)
(* preparatory steps once each and then the primary, or its pages.         *)
(***************************************************************************)
Carries(ix, step, ask) ==
  /\ ix.op \in DOMAIN Accounts => ix.acct = Accounts[ix.op]
  /\ ix.op = "create_ata" =>
       ix.acct = [payer |-> "me", derived |-> "yes",
                  owner |-> IF step = "create_custody" THEN "custodian" ELSE "me"]
  /\ ix.op = "propose_targets" => ix.legs = ask.legs
  /\ ix.op \notin {"propose_targets", "apply_targets", "cancel_targets", "crank_nav_page"}
       /\ ix.op \in DOMAIN Accounts => ix.arg = ask.arg

PreThenPrimary(p, verb, before) ==
  /\ \A i \in 1 .. before : p[i].step \in verb.pre
  /\ \A i, j \in 1 .. before : p[i].step = p[j].step => i = j
  /\ \A i \in before + 1 .. Len(p) : p[i].step = verb.primary
  /\ IF verb.paged THEN \A i \in before + 1 .. Len(p) : NumberedAs(p[i], i - before - 1)
                   ELSE Len(p) = before + 1

WellBuiltWrite(p, ask) ==
  /\ ask.verb = "propose" => Len(ask.legs) <= PageLegs   \* more are built as propose pages
  /\ \A i \in DOMAIN p : Formed(p[i]) /\ \A ix \in Range(p[i].ixs) : Carries(ix, p[i].step, ask)
  /\ \E before \in 0 .. Len(p) - 1 : PreThenPrimary(p, ExpectedSteps[ask.verb], before)

(***************************************************************************)
(* A create: the header, k pages and f reimbursements (0 or 1), then the   *)
(* keeper's own.  The book is a new account, so no table holds it.  The    *)
(* legs are all in the header, or cut into the pages.                      *)
(***************************************************************************)
CarriesCreate(ix, header, ask) ==
  /\ ix.op \in {"create_portfolio", "create_portfolio_page"} =>
       ix.acct = [creator |-> "me", book |-> header.acct.book]
  /\ ix.op = "create_portfolio" => ix.arg = ask.arg /\ "book" \notin ix.late
  /\ ix.op = "transfer" => ix.acct = [from |-> "me", to |-> "keeper"]

(* A build that sets a price sets one, and one limit for it.               *)
Budgeted(tx, ask) ==
  \A i \in Holding(tx, "set_price") :
    \E j \in Holding(tx, "set_limit") :
      /\ Holding(tx, "set_price") = {i} /\ Holding(tx, "set_limit") = {j}
      /\ Least(tx.ixs[j].n, ComputeCap) * tx.ixs[i].n <= ask.maxPriority * MicroLamports

KeepersOwn(tx) ==
  /\ tx.step \in KeeperSteps /\ tx.signer \in {"absent", "keeper_processor"}
  /\ tx.payer # "me" /\ tx.signerKey # "me"
  /\ Encoded(tx) /\ \A ix \in Range(tx.ixs) : ix.program # "foreign"

Cut(p, ask, k, cuts) ==
  /\ cuts[0] = 0 /\ cuts[k] = Len(ask.legs)
  /\ \A i \in 1 .. k : \A ix \in Range(p[i + 1].ixs) : ix.op = "create_portfolio_page" =>
       /\ cuts[i - 1] <= cuts[i] /\ ix.total = Len(ask.legs)
       /\ ix.legs = SubSeq(ask.legs, cuts[i - 1] + 1, cuts[i])

HeaderPagesFund(p, k, f) ==
  /\ 1 + k + f <= Len(p)
  /\ p[1].step = "create_portfolio"
  /\ \A i \in 2 .. k + 1 : p[i].step = "create_portfolio_page" /\ NumberedAs(p[i], i - 2)
  /\ f = 1 => p[k + 2].step = "fund_operator"
  /\ \A i \in k + f + 2 .. Len(p) : KeepersOwn(p[i])

Paid(p, upto) == UNION {{<<i, j>> : j \in Holding(p[i], "transfer")} : i \in 1 .. upto}

CreateOf(p, ask, k, f, cuts) ==
  LET header == Only(p[1], "create_portfolio")
      paid   == Paid(p, 1 + k + f)
  IN  /\ HeaderPagesFund(p, k, f)
      /\ \A i \in 1 .. 1 + k + f :
           /\ Formed(p[i]) /\ Budgeted(p[i], ask) /\ p[i].signer \in {"absent", "creator"}
           /\ \A ix \in Range(p[i].ixs) : CarriesCreate(ix, header, ask)
      /\ header.acct.book # Unresolved
      /\ IF k = 0 THEN header.legs = ask.legs /\ ask.legs # <<>>
                  ELSE header.legs = <<>> /\ Cut(p, ask, k, cuts)
      /\ \A a, b \in paid : a = b
      /\ header.n <= ask.maxLamports
      /\ \A a \in paid : header.n + p[a[1]].ixs[a[2]].n <= ask.maxLamports

WellBuiltCreate(p, ask) ==
  \E k \in 0 .. Len(p) - 1, f \in {0, 1} :
    \E cuts \in [0 .. k -> 0 .. Len(ask.legs)] : CreateOf(p, ask, k, f, cuts)

WellBuilt(p, ask) ==
  /\ IsList(p)
  /\ IF ask.verb = "create" THEN WellBuiltCreate(p, ask) ELSE WellBuiltWrite(p, ask)
=============================================================================
