----------------------------- MODULE MCSigning ------------------------------
(* The intents, and what an api may build for each: the honest payloads,   *)
(* and every way of spoiling one of their transactions in one place.       *)
EXTENDS SigningRun

McQuotes == {[rent |-> 2, keeper |-> 1], [rent |-> 3, keeper |-> 1]}
McBooks == <<"b1", "b2">>

Intent(verb, legs) ==
  [verb |-> verb, legs |-> legs, arg |-> "asked", echo |-> "absent", quote |-> NoQuote,
   maxLamports |-> 3, maxPriority |-> 1]
McIntents ==
  {Intent(verb, <<"a", "b">>) : verb \in DOMAIN ExpectedSteps \union {"create"}}

Ix(op, acct) ==
  [program |-> "known", op |-> op, acct |-> acct, arg |-> "asked", late |-> {},
   page |-> 0, legs |-> <<"a", "b">>, total |-> 2, n |-> 0]
Tx(step, ixs) ==
  [wire |-> "legacy", tables |-> {}, payer |-> "me", step |-> step, signer |-> "absent",
   signerKey |-> "absent", pageIndex |-> -1, ixs |-> ixs]
V0(tx, role) == [tx EXCEPT !.wire = "v0", !.tables = {"nav"}, !.ixs[1].late = {role}]

Rent(owner) == Ix("create_ata", [payer |-> "me", derived |-> "yes", owner |-> owner])
Pays(to) == [Ix("transfer", [from |-> "me", to |-> to]) EXCEPT !.n = 1]
Budget(op, n) == [Ix(op, <<>>) EXCEPT !.n = n]

Call(op) == Ix(op, Accounts[op])
Step(verb) == ExpectedSteps[verb].primary
Main(verb) == CASE verb = "refreshNav" -> Call("crank_nav_page") [] OTHER -> Call(Step(verb))
Paging(verb, k) == [Tx(Step(verb), <<[Main(verb) EXCEPT !.page = k]>>) EXCEPT !.pageIndex = k]
Custody == Tx("create_custody", <<Rent("custodian"), Budget("set_limit", 5)>>)

Plain(verb) ==
  {<<Tx(Step(verb), <<Main(verb)>>)>>,
   <<[Tx(Step(verb), <<Main(verb)>>) EXCEPT !.signerKey = "me"]>>}
McHonest(verb) ==
  CASE verb = "apply" -> {<<Custody, Paging(verb, 0), Paging(verb, 1)>>, <<V0(Paging(verb, 0), "vault")>>}
    [] verb = "refreshNav" -> {<<Paging(verb, 0), Paging(verb, 1)>>}
    [] verb \in {"deposit", "withdraw"} ->
         Plain(verb) \union {<<V0(Tx(Step(verb), <<Main(verb), Rent("me")>>), "vault")>>}
    [] OTHER -> Plain(verb)

Header(book, n, legs) ==
  [Ix("create_portfolio", [creator |-> "me", book |-> book]) EXCEPT !.n = n, !.legs = legs]
Page(book, k, legs) ==
  [Tx("create_portfolio_page", <<[Ix("create_portfolio_page", [creator |-> "me", book |-> book])
                                   EXCEPT !.page = k, !.legs = legs]>>) EXCEPT !.pageIndex = k]
HeaderTx(ixs) == [Tx("create_portfolio", ixs) EXCEPT !.signer = "creator"]
Fund == Tx("fund_operator", <<Pays("keeper")>>)
Keeper == [Tx("activate_portfolio", <<>>)
             EXCEPT !.payer = "keeper", !.signer = "keeper_processor", !.signerKey = "keeper"]
OneTx(book) == HeaderTx(<<Header(book, 2, <<"a", "b">>), Pays("keeper")>>)
McCreates(book) ==
  {<<OneTx(book), Keeper>>,
   <<HeaderTx(<<Header(book, 2, <<>>), Pays("keeper")>>), Page(book, 0, <<"a">>), Page(book, 1, <<"b">>)>>,
   <<HeaderTx(<<Header(book, 2, <<"a", "b">>), Budget("set_limit", 5), Budget("set_price", 2)>>), Fund>>}

Spoilt(tx) ==
  LET main == tx.ixs[1]
  IN  {[tx EXCEPT !.payer = "stranger"], [tx EXCEPT !.signerKey = "stranger"],
       [tx EXCEPT !.wire = "garbled"], [tx EXCEPT !.wire = "v0", !.tables = {"other"}],
       [tx EXCEPT !.ixs[1].program = "foreign"], [tx EXCEPT !.ixs[1].program = "undecodable"],
       [tx EXCEPT !.ixs = Append(@, main)], [tx EXCEPT !.ixs = Append(@, Pays("stranger"))]}
      \union {[tx EXCEPT !.ixs[1].acct[role] = "stranger"] : role \in DOMAIN main.acct \ {"book"}}
      \union (IF main.op \in {"create_ata", "crank_nav_page", "apply_targets"} THEN {}
              ELSE {[tx EXCEPT !.ixs[1].arg = "other", !.ixs[1].n = 4, !.ixs[1].legs = <<"b", "a">>]})
      \union (IF tx.pageIndex = -1 THEN {} ELSE {[tx EXCEPT !.pageIndex = 3]})
Parts(payloads) == UNION {{p[i] : i \in DOMAIN p} : p \in payloads}
Spoil(payloads) ==
  LET good == Parts(payloads)
  IN  good \union UNION {Spoilt(tx) : tx \in {t \in good : t.ixs # <<>>}}

Extra ==
  {HeaderTx(<<Header("b1", 3, <<"a", "b">>)>>),
   HeaderTx(<<Header("b1", 2, <<"a", "b">>), Budget("set_price", 2)>>),
   HeaderTx(<<Header("b1", 2, <<"a", "b">>), [Pays("keeper") EXCEPT !.n = 2]>>),
   Page("b1", 1, <<"a">>), V0(Page("b1", 1, <<"b">>), "creator"), [Keeper EXCEPT !.payer = "me"]}
McOffers ==
  [verb \in DOMAIN ExpectedSteps \union {"create"} |->
     IF verb = "create"
     THEN Parts(McCreates("b1") \union {<<OneTx("b2")>>}) \union Extra
            \union Spoil({<<OneTx("b1"), Page("b1", 1, <<"b">>), Fund>>})
     ELSE Spoil(McHonest(verb))]
McHonests ==
  [verb \in DOMAIN ExpectedSteps \union {"create"} |->
     IF verb = "create" THEN McCreates("b1") \union McCreates("b2") ELSE McHonest(verb)]
=============================================================================
