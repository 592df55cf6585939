------------------------------ MODULE Approved ------------------------------
(***************************************************************************)
(* What the operator is promised of a signature, with no decoder in it:    *)
(* the chain executes, in the operator's name, only what the intent asks   *)
(* for.  `done` is the list of executed transactions; an instruction with  *)
(* no effect on the book or on the signer's money is not looked at.        *)
(***************************************************************************)
EXTENDS Integers, Sequences, FiniteSets, FiniteSetsExt

CONSTANTS
  DefaultUnits,      \* compute units the runtime grants an instruction unasked
  UnitsCap,          \* and a transaction at most
  UnitsPerLamport    \* price units in a lamport

VARIABLES ask, done

Harmless == {"set_limit", "set_price", "request_heap", "data_limit",
             "advance_nonce", "memo", "crank_pool", "crank_nav_page"}
Does(tx) == {i \in DOMAIN tx.ixs : tx.ixs[i].op \notin Harmless}

Main == [propose |-> "propose_targets", apply |-> "apply_targets", cancel |-> "cancel_targets",
         deposit |-> "deposit", withdraw |-> "withdraw_request", refreshNav |-> "crank_nav_page",
         rotateCurator |-> "propose_curator", setDelay |-> "update_delay",
         setMetadata |-> "set_metadata", create |-> "create_portfolio"]

(* The signer's own book, or the vault behind it, in the signer's name.    *)
OnOwnBook(ix) ==
  \A role \in DOMAIN ix.acct :
    /\ role = "portfolio" => ix.acct[role] = "portfolio"
    /\ role = "vault" => ix.acct[role] = "vault"
    /\ role \in {"curator", "caller", "signer", "user", "creator", "from",
                 "underlying", "shares", "beneficiary"} => ix.acct[role] = "me"

AsAsked(ix) ==
  CASE ix.op = "create_ata" ->
         /\ ix.acct.payer = "me" /\ ix.acct.derived = "yes"
         /\ ix.acct.owner = IF ask.verb = "apply" THEN "custodian" ELSE "me"
         /\ ask.verb \in {"apply", "deposit", "withdraw"}
    [] ix.op = "transfer" -> ask.verb = "create" /\ ix.acct.to = "keeper"
    [] ix.op = "create_portfolio_page" -> ask.verb = "create"
    [] OTHER -> /\ ix.op = Main[ask.verb]
                /\ ask.verb = "propose" => ix.legs = ask.legs
                /\ ask.verb \notin {"propose", "apply", "cancel"} => ix.arg = ask.arg

OnlyWhatWasAsked ==
  \A n \in DOMAIN done : \A i \in Does(done[n]) :
    OnOwnBook(done[n].ixs[i]) /\ AsAsked(done[n].ixs[i])

(* Every executed instruction of one kind, in the order of execution.      *)
At(p) == done[p[1]].ixs[p[2]]
Spots == UNION {{n} \X DOMAIN done[n].ixs : n \in DOMAIN done}
Places(op) == {p \in Spots : At(p).op = op}

Once ==
  /\ ask.verb \notin {"apply", "refreshNav"} => Cardinality(Places(Main[ask.verb])) <= 1
  /\ Cardinality(Places("transfer")) <= 1

Earlier(p, op) == {q \in Places(op) : q[1] < p[1]}
PagesInOrder ==
  \A op \in {"apply_targets", "create_portfolio_page"} :
    \A p \in Places(op) : At(p).page = Cardinality(Earlier(p, op))

(* What the runtime charges for priority: price by units, rounded up.      *)
Units(tx) ==
  LET limits == {i \in DOMAIN tx.ixs : tx.ixs[i].op = "set_limit"}
      asked  == IF limits = {} THEN Len(tx.ixs) * DefaultUnits ELSE tx.ixs[Max(limits)].n
  IN  Min({asked, UnitsCap})
Price(tx) == Max({0} \union {tx.ixs[i].n : i \in {j \in DOMAIN tx.ixs : tx.ixs[j].op = "set_price"}})
Charged(tx) == (Units(tx) * Price(tx) + UnitsPerLamport - 1) \div UnitsPerLamport

(* A create spends what its header locks and its transfer hands over.      *)
Spending == Places("create_portfolio") \union Places("transfer")
SpentWithin ==
  ask.verb = "create" =>
    /\ \A p \in Spending : At(p).n <= ask.maxLamports
    /\ \A p, q \in Spending : p # q => At(p).n + At(q).n <= ask.maxLamports
    /\ \A n \in DOMAIN done : Charged(done[n]) <= ask.maxPriority

Kept == OnlyWhatWasAsked /\ Once /\ PagesInOrder /\ SpentWithin

Init == done = <<>>
Execute ==
  /\ Len(done') = Len(done) + 1
  /\ SubSeq(done', 1, Len(done)) = done
  /\ ask' = ask
  /\ Kept'
AskAgain == done = <<>> /\ done' = <<>>   \* a new intent, or the same one built again
Next == Execute \/ AskAgain

Spec == Init /\ [][Next]_<<ask, done>>
=============================================================================
