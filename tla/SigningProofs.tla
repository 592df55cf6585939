---------------------------- MODULE SigningProofs ----------------------------
(***************************************************************************)
(* Proofs about SigningRun, for any transactions an api may offer and any  *)
(* bounds: what the run holds, that at most one create is out, that the    *)
(* book it reports is the one it signed for, that it implements Approved   *)
(* (only what was asked for is executed, once, in order and within the     *)
(* ceiling), that what HonestBuild describes is signed, and that a run has *)
(* only so many steps before it.                                           *)
(***************************************************************************)
EXTENDS SigningRun, FiniteSetTheorems, SequenceTheorems, WellFoundedInduction, TLAPS

Mine == Offers[expect.verb]
BookNames ==
  {"absent", Unresolved}
    \union UNION {{tx.ixs[i].acct["book"] : i \in DOMAIN tx.ixs} : tx \in Offers["create"]}

(***************************************************************************)
(* The shape of what the run and the api hold.                             *)
(***************************************************************************)
Asked ==
  /\ expect = [verb |-> expect.verb, legs |-> expect.legs, arg |-> expect.arg,
               echo |-> expect.echo, quote |-> expect.quote,
               maxLamports |-> expect.maxLamports, maxPriority |-> expect.maxPriority]
  /\ \E i \in Intents : expect = [i EXCEPT !.echo = expect.echo, !.quote = expect.quote]
  /\ expect.echo \in Range(Books) \union {"absent"} /\ expect.quote \in Quotes \union {NoQuote}
  /\ expect.verb \in DOMAIN ExpectedSteps \union {"create"}

CreateWalk(w) ==
  /\ w = [at |-> w.at, keeper |-> w.keeper, funded |-> w.funded, book |-> w.book, legs |-> w.legs,
          pages |-> w.pages, totals |-> w.totals, transfers |-> w.transfers, outlay |-> w.outlay,
          mine |-> w.mine]
  /\ w.at \in Nat
  /\ w.book \in BookNames /\ w.mine \in Seq(Mine)
  /\ w.mine = <<>> => w.at = 0 \/ w.keeper = TRUE

RunShape ==
  /\ run = [mode |-> run.mode, fresh |-> run.fresh, resigned |-> run.resigned, book |-> run.book,
            answered |-> run.answered, presented |-> run.presented, verdict |-> run.verdict,
            walk |-> run.walk]
  /\ run.mode \in {"write", "create", "dry", "resume"}
  /\ run.resigned \in 0 .. MaxResign
  /\ run.presented \in Seq(Mine) /\ Len(run.presented) <= MaxTx
  /\ run.walk.mine \in Seq(Mine)
  /\ Create => CreateWalk(run.walk)

Records ==
  [nonce : BOOLEAN, handed : Seq(Mine), landed : Nat,
   status : {"pending", "live", "expired", "sign_again"}, books : SUBSET BookNames]
Kept ==
  /\ deployments \in Seq(Records) /\ Len(deployments) <= MaxDeployments
  /\ \A k \in DOMAIN deployments :
       /\ deployments[k].landed <= Len(deployments[k].handed)
       /\ deployments[k].status = "sign_again" => ~deployments[k].nonce
  /\ log \in Seq(Mine)

Stages ==
  /\ stage \in {"ready", "reading", "walking", "signed", "polling", "over"}
  /\ stage = "over" <=> exit \in Codes
  /\ exit \in Codes \union {"none"}
  /\ stage = "ready" => deployments = <<>>
  /\ stage = "polling" => Create
  /\ stage = "reading" => Create /\ Len(deployments) < MaxDeployments
  /\ stage \in {"walking", "signed", "polling"} => deployments # <<>>

(* While a payload is walked or signed the chain does nothing for the      *)
(* deployment it is of; what the walk took of the signer's begins with the *)
(* header, so a deployment whose header has landed is never signed again.  *)
Frozen ==
  stage \in {"walking", "signed"} =>
    /\ \/ Current.handed = <<>> /\ Current.landed = 0
       \/ Create /\ Current.status \in {"sign_again", "expired"} /\ ~Current.nonce
    /\ run.walk.mine # <<>> => Current.landed = 0
    /\ stage = "signed" /\ Create => run.walk.mine # <<>>

(***************************************************************************)
(* One create at a time, of an operator who reads the message of an exit   *)
(* 2.                                                                      *)
(***************************************************************************)
NoneOut == Scripted \/ \A k \in DOMAIN deployments : ~HeaderOut(deployments[k])
OnlyLastOut ==
  Scripted \/ \A k \in DOMAIN deployments : k # Len(deployments) => ~HeaderOut(deployments[k])
CleanRun == Scripted \/ CleanExit
Fresh ==
  \/ stage = "reading"
  \/ stage \in {"walking", "signed"} /\ run.resigned = 0 /\ Create

IInv ==
  /\ Asked /\ RunShape /\ Kept /\ Stages /\ Frozen
  /\ OnlyLastOut /\ (Fresh => NoneOut) /\ CleanRun

(***************************************************************************)
(* The walk keeps its shape, and takes of the signer's in order.           *)
(***************************************************************************)
LEMMA Present ==
  ASSUME NEW tx, NEW op, CountOf(tx, op) = 1
  PROVE  \E i \in DOMAIN tx.ixs : tx.ixs[i].op = op
<1>. DEFINE S == {i \in DOMAIN tx.ixs : tx.ixs[i].op = op}
<1>1. Cardinality(S) = 1
  BY DEF CountOf
<1>2. S # {}
  BY <1>1, FS_EmptySet
<1>. QED
  BY <1>2

LEMMA BookIsAName ==
  ASSUME NEW tx \in Offers["create"], NEW op \in {"create_portfolio", "create_portfolio_page"},
         CountOf(tx, op) = 1, NEW fresh
  PROVE  Sees(Only(tx, op), "book", fresh) \in BookNames
<1>. DEFINE j == CHOOSE i \in DOMAIN tx.ixs : tx.ixs[i].op = op
<1>1. j \in DOMAIN tx.ixs /\ tx.ixs[j].op = op
  BY Present
<1>2. Only(tx, op) = tx.ixs[j]
  BY DEF Only
<1>. HIDE DEF j
<1>3. tx.ixs[j].acct["book"] \in BookNames
  BY <1>1 DEF BookNames
<1>4. \/ Sees(tx.ixs[j], "book", fresh) = Unresolved
      \/ Sees(tx.ixs[j], "book", fresh) = tx.ixs[j].acct["book"]
  BY DEF Sees
<1>5. Unresolved \in BookNames
  BY DEF BookNames
<1>. QED
  BY <1>2, <1>3, <1>4, <1>5

LEMMA WalkKeepsShape ==
  ASSUME NEW tx \in Mine, NEW fresh, NEW w, Create, CreateWalk(w),
         AcceptsCreate(w, tx, expect, fresh)
  PROVE  /\ CreateWalk(AfterCreate(w, tx, fresh))
         /\ w.mine = <<>> /\ AfterCreate(w, tx, fresh).mine # <<>> => IsHeader(tx)
         /\ AfterCreate(w, tx, fresh).mine \in {w.mine, Append(w.mine, tx)}
<1>. USE DEF Create
<1>1. CASE tx.step \in KeeperSteps
  <2>1. AfterCreate(w, tx, fresh) = [w EXCEPT !.at = @ + 1, !.keeper = TRUE]
    BY <1>1 DEF AfterCreate
  <2>. DEFINE a == AfterCreate(w, tx, fresh)
  <2>. HIDE DEF a
  <2>2. /\ a = [at |-> a.at, keeper |-> a.keeper, funded |-> a.funded, book |-> a.book, legs |-> a.legs,
                pages |-> a.pages, totals |-> a.totals, transfers |-> a.transfers,
                outlay |-> a.outlay, mine |-> a.mine]
        /\ a.at = w.at + 1 /\ a.keeper = TRUE /\ a.book = w.book /\ a.mine = w.mine
    BY <2>1 DEF CreateWalk, a
  <2>3. CreateWalk(a)
    BY <2>2 DEF CreateWalk
  <2>. QED
    BY <2>2, <2>3 DEF a
<1>2. CASE tx.step \notin KeeperSteps
  <2>. DEFINE c == Carried(w, tx, fresh)
              a == AfterCreate(w, tx, fresh)
  <2>1. AcceptsCreator(w, tx, expect, fresh)
    BY <1>2 DEF AcceptsCreate, AcceptsKeeper
  <2>2. tx.step \in CreatorSteps /\ Decodes(tx) /\ CarriesItsStep(tx) /\ CreatorInPlace(w, tx.step)
    BY <2>1 DEF AcceptsCreator
  <2>3. tx.step = "create_portfolio" => CountOf(tx, "create_portfolio") = 1
    BY <2>2 DEF CarriesItsStep, StepRules, Rule
  <2>4. tx.step = "create_portfolio" => Sees(Only(tx, "create_portfolio"), "book", fresh) \in BookNames
    BY <2>2, <2>3, BookIsAName DEF Mine
  <2>5. /\ c = [at |-> c.at, keeper |-> c.keeper, funded |-> c.funded, book |-> c.book, legs |-> c.legs,
                pages |-> c.pages, totals |-> c.totals, transfers |-> c.transfers,
                outlay |-> c.outlay, mine |-> c.mine]
        /\ c.at = w.at /\ c.keeper = w.keeper /\ c.book \in BookNames /\ c.mine = w.mine
    <3>1. CASE tx.step = "create_portfolio"
      BY <3>1, <2>4 DEF Carried, CreateWalk
    <3>2. CASE tx.step = "create_portfolio_page"
      BY <3>2 DEF Carried, CreateWalk
    <3>3. CASE tx.step \notin {"create_portfolio", "create_portfolio_page"}
      BY <3>3 DEF Carried, CreateWalk
    <3>. QED
      BY <3>1, <3>2, <3>3
  <2>. HIDE DEF c
  <2>6. a = [c EXCEPT !.at = @ + 1, !.funded = @ \/ tx.step = "fund_operator",
                      !.transfers = @ + Transfers(tx),
                      !.outlay = @ + (IF Transfers(tx) > 0 THEN Only(tx, "transfer").n ELSE 0),
                      !.mine = Append(@, tx)]
    BY <1>2 DEF AfterCreate, c
  <2>. HIDE DEF a
  <2>7. /\ a = [at |-> a.at, keeper |-> a.keeper, funded |-> a.funded, book |-> a.book, legs |-> a.legs,
                pages |-> a.pages, totals |-> a.totals, transfers |-> a.transfers,
                outlay |-> a.outlay, mine |-> a.mine]
        /\ a.at = w.at + 1 /\ a.keeper = w.keeper /\ a.book \in BookNames /\ a.mine = Append(w.mine, tx)
    BY <2>5, <2>6
  <2>8. w.mine \in Seq(Mine) /\ w.at \in Nat
    BY DEF CreateWalk
  <2>9. Append(w.mine, tx) \in Seq(Mine) /\ Append(w.mine, tx) # <<>>
    BY <2>8, AppendProperties
  <2>10. CreateWalk(a)
    BY <2>7, <2>8, <2>9 DEF CreateWalk
  <2>11. w.mine = <<>> => IsHeader(tx)
    BY <2>2 DEF CreatorInPlace, CreateWalk, IsHeader
  <2>. QED
    BY <2>7, <2>10, <2>11 DEF a
<1>. QED
  BY <1>1, <1>2

(***************************************************************************)
(* Every step keeps the invariant, when the operator is a careful one.     *)
(***************************************************************************)
LEMMA CreateWalkStarts == CreateWalk(StartCreate)
BY DEF CreateWalk, StartCreate, BookNames

LEMMA NewIsRecord == NewDeployment \in Records /\ ~HeaderOut(NewDeployment)
BY DEF NewDeployment, Records, HeaderOut

LEMMA CurrentIsRecord ==
  ASSUME Kept, deployments # <<>>
  PROVE  /\ Current \in Records /\ Len(deployments) \in DOMAIN deployments
         /\ Current = deployments[Len(deployments)]
BY DEF Kept, Current

LEMMA StartShape ==
  ASSUME NEW mode \in {"write", "create", "dry", "resume"}, NEW r, r = StartRun(mode)
  PROVE  /\ r = [mode |-> r.mode, fresh |-> r.fresh, resigned |-> r.resigned, book |-> r.book,
                 answered |-> r.answered, presented |-> r.presented, verdict |-> r.verdict,
                 walk |-> r.walk]
         /\ r.mode = mode /\ r.resigned = 0 /\ r.presented = <<>> /\ r.walk.mine = <<>>
         /\ mode # "write" => r.walk = StartCreate
BY DEF StartRun, StartCreate, StartWalk

LEMMA InitKeeps == Init => IInv
<1>. SUFFICES ASSUME Init PROVE IInv
  OBVIOUS
<1>1. PICK i \in Intents : expect = i
  BY DEF Init
<1>2. Asked
  <2>1. /\ expect = [verb |-> expect.verb, legs |-> expect.legs, arg |-> expect.arg,
                     echo |-> expect.echo, quote |-> expect.quote,
                     maxLamports |-> expect.maxLamports, maxPriority |-> expect.maxPriority]
        /\ expect.echo = "absent" /\ expect.quote = NoQuote
        /\ expect.verb \in DOMAIN ExpectedSteps \union {"create"}
    BY <1>1, IntentsAssumption
  <2>2. expect = [expect EXCEPT !.echo = expect.echo, !.quote = expect.quote]
    BY <2>1
  <2>. QED
    BY <1>1, <2>1, <2>2 DEF Asked
<1>3. RunShape
  <2>1. PICK mode \in {"write", "create"} : run = StartRun(mode) /\ (Create => mode = "create")
    BY DEF Init
  <2>2. run.mode = mode /\ run.resigned = 0 /\ run.presented = <<>> /\ run.walk.mine = <<>>
    BY <2>1, StartShape
  <2>3. Create => CreateWalk(run.walk)
    BY <2>1, StartShape, CreateWalkStarts
  <2>4. /\ run.resigned \in 0 .. MaxResign /\ run.presented \in Seq(Mine)
        /\ Len(run.presented) <= MaxTx /\ run.walk.mine \in Seq(Mine)
    BY <2>2, BoundsAssumption
  <2>. QED
    BY <2>1, <2>2, <2>3, <2>4, StartShape DEF RunShape
<1>4. Kept /\ Stages /\ Frozen
  BY BoundsAssumption DEF Init, Kept, Stages, Frozen, Codes
<1>5. OnlyLastOut /\ (Fresh => NoneOut) /\ CleanRun
  BY DEF Init, OnlyLastOut, Fresh, NoneOut, CleanRun, CleanExit
<1>. QED
  BY <1>2, <1>3, <1>4, <1>5 DEF IInv

LEMMA StartedShape ==
  ASSUME NEW mode \in {"create", "resume"}, run' = StartRun(mode), expect' = expect
  PROVE  RunShape'
<1>1. /\ run'.mode = mode /\ run'.resigned = 0 /\ run'.presented = <<>> /\ run'.walk.mine = <<>>
      /\ run'.walk = StartCreate
  BY StartShape
<1>2. CreateWalk(run'.walk)
  BY <1>1, CreateWalkStarts
<1>3. Mine' = Mine /\ (Create => CreateWalk(run.walk))'
  BY <1>2 DEF Mine, CreateWalk
<1>4. /\ run'.resigned \in 0 .. MaxResign /\ run'.presented \in Seq(Mine)
      /\ Len(run'.presented) <= MaxTx /\ run'.walk.mine \in Seq(Mine)
  BY <1>1, BoundsAssumption
<1>. QED
  BY <1>1, <1>3, <1>4, StartShape DEF RunShape

(* A run that starts its walk afresh keeps its shape.                      *)
LEMMA RestartedShape ==
  ASSUME RunShape, expect' = expect, NEW r \in 0 .. MaxResign, NEW a, NEW v,
         run' = [run EXCEPT !.resigned = r, !.walk = StartCreate, !.presented = <<>>,
                            !.answered = a, !.verdict = v]
  PROVE  RunShape' /\ run'.resigned = r /\ run'.mode = run.mode /\ run'.answered = a
<1>1. /\ run' = [mode |-> run'.mode, fresh |-> run'.fresh, resigned |-> run'.resigned,
                book |-> run'.book, answered |-> run'.answered, presented |-> run'.presented,
                verdict |-> run'.verdict, walk |-> run'.walk]
      /\ run'.resigned = r /\ run'.presented = <<>> /\ run'.walk = StartCreate
      /\ run'.mode = run.mode /\ run'.answered = a
  BY DEF RunShape
<1>2. StartCreate.mine = <<>>
  BY DEF StartCreate
<1>3. Mine' = Mine /\ (Create => CreateWalk(run.walk))'
  BY <1>1, CreateWalkStarts DEF Mine, CreateWalk
<1>4. /\ run'.mode \in {"write", "create", "dry", "resume"}
      /\ run'.presented \in Seq(Mine) /\ Len(run'.presented) <= MaxTx
      /\ run'.walk.mine \in Seq(Mine)
  <2>1. run'.mode \in {"write", "create", "dry", "resume"}
    BY <1>1 DEF RunShape
  <2>2. run'.presented \in Seq(Mine) /\ Len(run'.presented) <= MaxTx
    BY <1>1, BoundsAssumption
  <2>3. run'.walk.mine \in Seq(Mine)
    <3>1. run'.walk.mine = <<>>
      BY Zenon, <1>1, <1>2
    <3>2. <<>> \in Seq(Mine)
      OBVIOUS
    <3>. QED
      BY Zenon, <3>1, <3>2
  <2>. QED
    BY <2>1, <2>2, <2>3
<1>. QED
  BY <1>1, <1>3, <1>4 DEF RunShape

(* Starting and building.                                                  *)
LEMMA StartKeeps ==
  ASSUME IInv, StartWrite \/ ReadFails
  PROVE  IInv'
<1>1. UNCHANGED <<expect, run, log>> /\ Asked' /\ RunShape' /\ Create' = Create /\ Mine' = Mine
  BY DEF IInv, Asked, RunShape, StartWrite, ReadFails, Create, CreateWalk, Mine
<1>2. CASE StartWrite
  <2>1. deployments' = <<NewDeployment>> /\ stage' = "walking" /\ exit' = exit /\ ~Create
    BY <1>2 DEF StartWrite
  <2>2. Kept'
    BY <1>1, <2>1, NewIsRecord, BoundsAssumption DEF IInv, Kept, Records, NewDeployment
  <2>3. Stages' /\ Frozen'
    BY <1>2, <1>1, <2>1 DEF IInv, Stages, Frozen, Current, NewDeployment, StartWrite, Codes
  <2>4. OnlyLastOut' /\ (Fresh => NoneOut)' /\ CleanRun'
    BY <1>1, <2>1 DEF OnlyLastOut, Fresh, NoneOut, CleanRun, CleanExit
  <2>. QED
    BY <1>1, <2>2, <2>3, <2>4 DEF IInv
<1>3. CASE ReadFails
  <2>1. stage = "reading" /\ stage' = "over" /\ exit' \in {"error", "refused"}
        /\ deployments' = deployments
    BY <1>3 DEF ReadFails, Ends
  <2>2. Kept' /\ Stages' /\ Frozen'
    BY <1>1, <2>1 DEF IInv, Kept, Stages, Frozen, Codes, Records
  <2>3. NoneOut /\ NoneOut'
    BY <2>1 DEF IInv, Fresh, NoneOut
  <2>4. OnlyLastOut' /\ (Fresh => NoneOut)' /\ CleanRun'
    BY <2>1, <2>3 DEF OnlyLastOut, NoneOut, CleanRun, CleanExit
  <2>. QED
    BY <1>1, <2>2, <2>4 DEF IInv
<1>. QED
  BY <1>2, <1>3

LEMMA BuildKeeps ==
  ASSUME IInv, Build
  PROVE  IInv'
<1>1. PICK echo \in {"absent", Books[Len(deployments) + 1]}, quote \in Quotes \union {NoQuote} :
        /\ expect' = [expect EXCEPT !.echo = echo, !.quote = quote]
        /\ deployments' = Append(deployments, NewDeployment)
        /\ IF quote = NoQuote THEN Ends("refused") ELSE stage' = "walking" /\ UNCHANGED exit
  BY DEF Build
<1>2. stage = "reading" /\ run' = run /\ log' = log
  BY DEF Build
<1>3. Create /\ Len(deployments) < MaxDeployments /\ deployments \in Seq(Records) /\ NoneOut
  BY <1>2 DEF IInv, Stages, Kept, Fresh
<1>4. Asked'
  <2>1. Books[Len(deployments) + 1] \in Range(Books)
    BY <1>3, BoundsAssumption DEF Range
  <2>2. PICK i \in Intents : expect = [i EXCEPT !.echo = expect.echo, !.quote = expect.quote]
    BY DEF IInv, Asked
  <2>3. i = [verb |-> i.verb, legs |-> i.legs, arg |-> i.arg, echo |-> i.echo, quote |-> i.quote,
             maxLamports |-> i.maxLamports, maxPriority |-> i.maxPriority]
    BY <2>2, IntentsAssumption
  <2>4. expect' = [i EXCEPT !.echo = expect'.echo, !.quote = expect'.quote]
    BY <1>1, <2>2, <2>3
  <2>. QED
    BY <1>1, <2>1, <2>4 DEF IInv, Asked
<1>5. expect'.verb = expect.verb /\ Mine' = Mine /\ Create'
  BY <1>1, <1>3 DEF IInv, Asked, Mine, Create
<1>6. RunShape'
  BY <1>2, <1>3, <1>5 DEF IInv, RunShape, CreateWalk
<1>7. /\ deployments' \in Seq(Records) /\ Len(deployments') = Len(deployments) + 1
      /\ deployments'[Len(deployments')] = NewDeployment
      /\ \A k \in DOMAIN deployments : deployments'[k] = deployments[k]
      /\ DOMAIN deployments' = 1 .. Len(deployments) + 1
      /\ DOMAIN deployments = 1 .. Len(deployments) /\ Len(deployments) \in Nat
  BY <1>1, <1>3, NewIsRecord, AppendProperties
<1>8. \A k \in DOMAIN deployments' :
        IF k \in DOMAIN deployments THEN deployments'[k] = deployments[k]
                                    ELSE deployments'[k] = NewDeployment
  BY <1>7
<1>9. Kept'
  <2>1. NewDeployment.landed <= Len(NewDeployment.handed) /\ NewDeployment.status = "pending"
    BY DEF NewDeployment
  <2>2. Records' = Records /\ log' \in Seq(Mine)
    BY <1>2, <1>5 DEF IInv, Kept, Records
  <2>3. Len(deployments') <= MaxDeployments
    BY <1>3, <1>7, BoundsAssumption
  <2>4. \A k \in DOMAIN deployments' :
          /\ deployments'[k].landed <= Len(deployments'[k].handed)
          /\ deployments'[k].status = "sign_again" => ~deployments'[k].nonce
    BY <1>8, <2>1 DEF IInv, Kept
  <2>. QED
    BY <1>5, <1>7, <2>2, <2>3, <2>4 DEF Kept
<1>10. Stages' /\ Frozen'
  BY <1>1, <1>2, <1>5, <1>7 DEF IInv, Stages, Frozen, Current, NewDeployment, Ends, Codes
<1>11. NoneOut'
  BY <1>3, <1>8, NewIsRecord DEF NoneOut
<1>12. OnlyLastOut' /\ (Fresh => NoneOut)' /\ CleanRun'
  BY <1>11 DEF OnlyLastOut, NoneOut, CleanRun, CleanExit
<1>. QED
  BY <1>4, <1>6, <1>9, <1>10, <1>12 DEF IInv

LEMMA RunAgainKeeps ==
  ASSUME IInv, RunAgain
  PROVE  IInv'
<1>1. /\ stage' = "reading" /\ exit' = "none" /\ run' = StartRun("create") /\ Create
      /\ UNCHANGED <<expect, deployments, log>> /\ Len(deployments) < MaxDeployments
  BY DEF RunAgain
<1>2. Asked' /\ Mine' = Mine /\ Create'
  BY <1>1 DEF IInv, Asked, Mine, Create
<1>3. RunShape'
  BY <1>1, StartedShape
<1>4. Kept' /\ Stages' /\ Frozen'
  BY <1>1, <1>2 DEF IInv, Kept, Stages, Frozen, Codes, Records
<1>5. NoneOut
  <2>1. CASE deployments = <<>>
    BY <2>1 DEF NoneOut
  <2>2. CASE TrustsExit
    BY <2>2, <1>1 DEF TrustsExit, IInv, CleanRun, CleanExit, NoneOut
  <2>3. CASE \A i \in DOMAIN deployments : ~HeaderOut(deployments[i])
    BY <2>3 DEF NoneOut
  <2>. QED
    BY <2>1, <2>2, <2>3 DEF RunAgain, MayCreate
<1>6. OnlyLastOut' /\ (Fresh => NoneOut)' /\ CleanRun'
  BY <1>1, <1>5 DEF OnlyLastOut, NoneOut, CleanRun, CleanExit
<1>. QED
  BY <1>2, <1>3, <1>4, <1>6 DEF IInv

(* A process that ends, with nothing new handed over.                      *)
LEMMA EndKeeps ==
  ASSUME IInv, stage' = "over", exit' \in Codes, UNCHANGED <<expect, deployments, log>>,
         RunShape', CleanRun'
  PROVE  IInv'
<1>1. Asked' /\ Kept' /\ OnlyLastOut'
  BY DEF IInv, Asked, Kept, Records, Mine, OnlyLastOut
<1>2. Stages' /\ Frozen' /\ (Fresh => NoneOut)'
  BY DEF Stages, Frozen, Fresh
<1>. QED
  BY <1>1, <1>2 DEF IInv

LEMMA RefusalIsClean ==
  ASSUME IInv, stage \in {"walking", "signed"}, UNCHANGED <<expect, deployments>>,
         run'.resigned = run.resigned, exit' = Refusal \/ exit' = "ok"
  PROVE  exit' \in Codes /\ CleanRun'
<1>1. exit' \in Codes
  BY DEF Refusal, Codes
<1>2. CASE run.resigned = 0 /\ Create
  <2>1. NoneOut
    BY <1>2 DEF IInv, Fresh
  <2>. QED
    BY <1>1, <2>1 DEF NoneOut, CleanRun, CleanExit
<1>3. CASE run.resigned # 0 \/ ~Create
  BY <1>1, <1>3 DEF Refusal, CleanRun, CleanExit, Create
<1>. QED
  BY <1>1, <1>2, <1>3

(* The walk.                                                               *)
LEMMA TakenKeeps ==
  ASSUME IInv, stage = "walking", NEW tx \in Offered, NEW fresh, Passes(tx, fresh)
  PROVE  /\ Create => CreateWalk(Taken(tx, fresh))
         /\ Taken(tx, fresh).mine \in Seq(Mine)
         /\ Taken(tx, fresh).mine # <<>> => Current.landed = 0
<1>1. tx \in Mine /\ run.walk.mine \in Seq(Mine)
  BY DEF Offered, Mine, IInv, RunShape
<1>2. CASE Create
  <2>1. CreateWalk(run.walk) /\ AcceptsCreate(run.walk, tx, expect, fresh)
    BY <1>2 DEF Passes, IInv, RunShape
  <2>2. Taken(tx, fresh) = AfterCreate(run.walk, tx, fresh)
    BY <1>2 DEF Taken
  <2>3. /\ CreateWalk(Taken(tx, fresh))
        /\ run.walk.mine = <<>> /\ Taken(tx, fresh).mine # <<>> => IsHeader(tx)
    BY <1>1, <1>2, <2>1, <2>2, WalkKeepsShape
  <2>4. Current.landed \in Nat
    BY CurrentIsRecord DEF IInv, Stages, Records
  <2>5. run.walk.mine = <<>> /\ Taken(tx, fresh).mine # <<>> => Current.landed = 0
    BY <2>3, <2>4 DEF Offered
  <2>6. run.walk.mine # <<>> => Current.landed = 0
    BY DEF IInv, Frozen
  <2>. QED
    BY <2>3, <2>5, <2>6 DEF CreateWalk
<1>3. CASE ~Create
  <2>1. Taken(tx, fresh).mine = Append(run.walk.mine, tx)
    BY <1>3 DEF Taken, After
  <2>2. Current.landed = 0
    BY <1>3 DEF IInv, Frozen
  <2>. QED
    BY <1>1, <1>3, <2>1, <2>2, AppendProperties
<1>. QED
  BY <1>2, <1>3

LEMMA JudgeKeeps ==
  ASSUME IInv, stage = "walking", NEW tx \in Offered, Judge(tx)
  PROVE  IInv'
<1>1. PICK fresh \in TableRead(tx) :
        LET judged == [run EXCEPT !.fresh = fresh, !.presented = Append(@, tx)]
        IN  IF Passes(tx, fresh)
            THEN run' = [judged EXCEPT !.walk = Taken(tx, fresh)] /\ UNCHANGED <<stage, exit>>
            ELSE run' = [judged EXCEPT !.verdict = "refused"] /\ Ends(Refusal)
  BY DEF Judge
<1>2. Len(run.presented) < MaxTx /\ UNCHANGED <<expect, deployments, log>> /\ tx \in Mine
  BY DEF Judge, Offered, Mine
<1>3. Mine' = Mine /\ Create' = Create /\ Asked' /\ Kept' /\ OnlyLastOut'
  BY <1>2 DEF IInv, Asked, Kept, Records, Mine, Create, OnlyLastOut
<1>4. /\ Append(run.presented, tx) \in Seq(Mine)
      /\ Len(Append(run.presented, tx)) <= MaxTx
  BY <1>2, BoundsAssumption, AppendProperties DEF IInv, RunShape
<1>5. CASE Passes(tx, fresh)
  <2>1. /\ run' = [run EXCEPT !.fresh = fresh, !.presented = Append(@, tx), !.walk = Taken(tx, fresh)]
        /\ UNCHANGED <<stage, exit>>
    BY <1>1, <1>5
  <2>2. /\ Create => CreateWalk(Taken(tx, fresh))
        /\ Taken(tx, fresh).mine \in Seq(Mine)
        /\ Taken(tx, fresh).mine # <<>> => Current.landed = 0
    BY <1>5, TakenKeeps
  <2>3. RunShape'
    BY <1>3, <1>4, <2>1, <2>2 DEF IInv, RunShape, CreateWalk
  <2>4. Stages' /\ Frozen' /\ (Fresh => NoneOut)' /\ CleanRun'
    BY <1>2, <1>3, <2>1, <2>2 DEF IInv, Stages, Frozen, Fresh, NoneOut, CleanRun, CleanExit, Current, RunShape
  <2>. QED
    BY <1>3, <2>3, <2>4 DEF IInv
<1>6. CASE ~Passes(tx, fresh)
  <2>1. /\ run' = [run EXCEPT !.fresh = fresh, !.presented = Append(@, tx), !.verdict = "refused"]
        /\ stage' = "over" /\ exit' = Refusal
    BY <1>1, <1>6 DEF Ends
  <2>2. RunShape'
    BY <1>3, <1>4, <2>1 DEF IInv, RunShape, CreateWalk
  <2>3. run'.resigned = run.resigned
    BY <2>1 DEF IInv, RunShape
  <2>. QED
    BY <1>2, <2>1, <2>2, <2>3, RefusalIsClean, EndKeeps
<1>. QED
  BY <1>5, <1>6

LEMMA ConcludeKeeps ==
  ASSUME IInv, Conclude \/ SignFails
  PROVE  IInv'
<1>1. UNCHANGED <<expect, deployments, log>> /\ stage \in {"walking", "signed"}
  BY DEF Conclude, SignFails
<1>2. Mine' = Mine /\ Create' = Create /\ Asked' /\ Kept' /\ OnlyLastOut'
  BY <1>1 DEF IInv, Asked, Kept, Records, Mine, Create, OnlyLastOut
<1>3. RunShape' /\ run'.resigned = run.resigned /\ run'.walk = run.walk
  <2>1. CASE Conclude
    <3>1. PICK dry \in BOOLEAN :
            run' = [run EXCEPT !.verdict = IF Whole THEN "verified" ELSE "incomplete",
                               !.book = IF Create /\ run.resigned = 0 THEN run.walk.book ELSE @,
                               !.mode = IF dry THEN "dry" ELSE @]
      BY <2>1 DEF Conclude
    <3>. QED
      BY <1>2, <3>1 DEF IInv, RunShape, CreateWalk
  <2>2. CASE SignFails
    BY <1>2, <2>2 DEF SignFails, IInv, RunShape, CreateWalk
  <2>. QED
    BY <2>1, <2>2
<1>4. CASE stage' = "over"
  <2>1. exit' = Refusal \/ exit' = "ok"
    BY <1>4 DEF Conclude, SignFails, Ends
  <2>. QED
    BY <1>1, <1>3, <1>4, <2>1, RefusalIsClean, EndKeeps
<1>5. CASE stage' # "over"
  <2>1. stage = "walking" /\ stage' = "signed" /\ exit' = exit
    BY <1>5 DEF Conclude, SignFails, Ends
  <2>2. exit = "none"
    BY <2>1 DEF IInv, Stages, Codes
  <2>3. Create => run.walk.mine # <<>>
    BY <1>5 DEF Conclude, SignFails, Ends, Whole, CompleteCreate
  <2>4. Frozen'
    BY <1>1, <1>2, <1>3, <2>1, <2>3 DEF IInv, Frozen, Current
  <2>5. Stages' /\ (Fresh => NoneOut)' /\ CleanRun'
    BY <1>1, <1>2, <1>3, <2>1, <2>2 DEF IInv, Stages, Fresh, NoneOut, CleanRun, CleanExit
  <2>. QED
    BY <1>2, <1>3, <2>4, <2>5 DEF IInv
<1>. QED
  BY <1>4, <1>5

(* Handing over: only the last deployment changes.                         *)
LEMMA HandOverKeeps ==
  ASSUME IInv, stage = "signed", HandOver \/ UNCHANGED deployments, UNCHANGED <<expect, log>>
  PROVE  Kept' /\ OnlyLastOut' /\ Len(deployments') = Len(deployments) /\ deployments' # <<>>
<1>1. Mine' = Mine /\ Create' = Create /\ Records' = Records
  BY DEF Mine, Create, Records
<1>. DEFINE n == Len(deployments)
<1>2. /\ Current \in Records /\ n \in DOMAIN deployments /\ deployments # <<>>
      /\ deployments \in Seq(Records) /\ Current = deployments[n]
  BY CurrentIsRecord DEF IInv, Stages, Kept
<1>3. CASE UNCHANGED deployments
  BY <1>1, <1>2, <1>3 DEF IInv, Kept, OnlyLastOut
<1>4. CASE HandOver
  <2>1. PICK nonce \in BOOLEAN :
          deployments' = [deployments EXCEPT ![n] =
            [Current EXCEPT !.handed = run.walk.mine, !.status = "pending", !.nonce = nonce,
                            !.books = IF Create THEN @ \union {run.walk.book} ELSE @]]
    BY <1>4 DEF HandOver, SetCurrent
  <2>. DEFINE d == [Current EXCEPT !.handed = run.walk.mine, !.status = "pending", !.nonce = nonce,
                                   !.books = IF Create THEN @ \union {run.walk.book} ELSE @]
  <2>2. run.walk.mine \in Seq(Mine) /\ (Create => run.walk.book \in BookNames)
    BY DEF IInv, RunShape, CreateWalk
  <2>3. /\ d \in Records /\ d.handed = run.walk.mine /\ d.landed = Current.landed
        /\ d.status = "pending"
    BY <1>2, <2>1, <2>2 DEF Records
  <2>. HIDE DEF d
  <2>4. d.landed <= Len(d.handed)
    <3>1. CASE run.walk.mine # <<>>
      <4>1. d.landed = 0
        BY <2>3, <3>1 DEF IInv, Frozen
      <4>. QED
        BY <2>2, <2>3, <4>1
    <3>2. CASE run.walk.mine = <<>>
      <4>1. ~Create
        BY <3>2 DEF IInv, Frozen
      <4>2. Current.landed = 0
        BY <4>1 DEF IInv, Frozen
      <4>. QED
        BY <2>3, <3>2, <4>2
    <3>. QED
      BY <3>1, <3>2
  <2>5. /\ deployments' \in Seq(Records) /\ Len(deployments') = n /\ deployments'[n] = d
        /\ DOMAIN deployments' = DOMAIN deployments
        /\ \A k \in DOMAIN deployments : k # n => deployments'[k] = deployments[k]
    BY <1>2, <2>1, <2>3, ExceptSeq DEF d
  <2>6. OnlyLastOut'
    BY <2>5 DEF IInv, OnlyLastOut
  <2>7. Kept'
    BY <1>1, <2>3, <2>4, <2>5 DEF IInv, Kept
  <2>. QED
    BY <1>2, <2>5, <2>6, <2>7
<1>. QED
  BY <1>3, <1>4

LEMMA SendKeeps ==
  ASSUME IInv, Send \/ Accepted \/ Answered4xx \/ NoAnswer
  PROVE  IInv'
<1>1. /\ stage = "signed" /\ UNCHANGED <<expect, log>> /\ (HandOver \/ UNCHANGED deployments)
      /\ run' \in {run, Dropped, [Dropped EXCEPT !.answered = TRUE]}
      /\ run' # run => Create
  BY DEF Send, Accepted, Answered4xx, NoAnswer
<1>2. Mine' = Mine /\ Create' = Create /\ Asked'
  BY <1>1 DEF IInv, Asked, Mine, Create
<1>3. Kept' /\ OnlyLastOut' /\ Len(deployments') = Len(deployments) /\ deployments' # <<>>
  BY <1>1, HandOverKeeps
<1>4. RunShape'
  <2>1. CASE run' = run
    BY <1>2, <2>1 DEF IInv, RunShape, CreateWalk
  <2>2. CASE run' # run
    <3>1. RunShape /\ run.resigned \in 0 .. MaxResign /\ expect' = expect
      BY <1>1 DEF IInv, RunShape
    <3>2. CASE run' = Dropped
      <4>1. run' = [run EXCEPT !.resigned = run.resigned, !.walk = StartCreate, !.presented = <<>>,
                               !.answered = run.answered, !.verdict = run.verdict]
        BY <3>1, <3>2 DEF Dropped, RunShape
      <4>. QED
        BY <3>1, <4>1, RestartedShape
    <3>3. CASE run' = [Dropped EXCEPT !.answered = TRUE]
      <4>1. run' = [run EXCEPT !.resigned = run.resigned, !.walk = StartCreate, !.presented = <<>>,
                               !.answered = TRUE, !.verdict = run.verdict]
        BY <3>1, <3>3 DEF Dropped, RunShape
      <4>. QED
        BY <3>1, <4>1, RestartedShape
    <3>. QED
      BY <1>1, <2>2, <3>2, <3>3
  <2>. QED
    BY <2>1, <2>2
<1>5. Stages' /\ Frozen' /\ (Fresh => NoneOut)'
  BY <1>1, <1>2, <1>3 DEF Send, Accepted, Answered4xx, NoAnswer, Ends, Refusal, SilenceExit,
     IInv, Stages, Frozen, Fresh, Codes
<1>6. CleanRun'
  <2>1. CASE Send
    BY <1>2, <2>1 DEF Send, CleanRun, CleanExit
  <2>2. CASE Accepted
    BY <2>2 DEF Accepted, CleanRun, CleanExit, IInv, Stages, Codes
  <2>3. CASE Answered4xx
    BY <2>3 DEF Answered4xx, Dropped, CleanRun, CleanExit, IInv, RunShape
  <2>4. CASE NoAnswer
    BY <2>4 DEF NoAnswer, Ends, SilenceExit, CleanRun, CleanExit
  <2>. QED
    BY <2>1, <2>2, <2>3, <2>4
<1>. QED
  BY <1>2, <1>3, <1>4, <1>5, <1>6 DEF IInv

(* Polling, a resume and a kill hand nothing over.                         *)
LEMMA ResumeKeeps ==
  ASSUME IInv, Resume
  PROVE  IInv'
<1>1. /\ stage' = "polling" /\ exit' = "none" /\ run' = StartRun("resume") /\ deployments # <<>>
      /\ Create /\ UNCHANGED <<expect, deployments, log>>
  BY DEF Resume
<1>2. Asked' /\ Kept' /\ OnlyLastOut' /\ RunShape'
  BY <1>1, StartedShape DEF IInv, Asked, Kept, Records, Mine, OnlyLastOut
<1>3. Stages' /\ Frozen' /\ (Fresh => NoneOut)' /\ CleanRun'
  BY <1>1 DEF IInv, Stages, Frozen, Fresh, CleanRun, CleanExit, Codes, Create
<1>. QED
  BY <1>2, <1>3 DEF IInv

LEMMA PollKeeps ==
  ASSUME IInv, PollLive \/ PollDeadline \/ PollExpired \/ PollFails
  PROVE  IInv'
<1>1. /\ stage' = "over" /\ exit' \in Codes /\ UNCHANGED <<expect, run, deployments, log>>
      /\ exit' \in {"ok", "timeout"} \/ run.mode = "resume"
  BY DEF PollLive, PollDeadline, PollExpired, PollFails, QuietExits, Ends, Codes
<1>2. RunShape' /\ CleanRun'
  BY <1>1 DEF IInv, RunShape, CreateWalk, Mine, Create, CleanRun, CleanExit
<1>. QED
  BY <1>1, <1>2, EndKeeps

LEMMA KillKeeps ==
  ASSUME IInv, Kill
  PROVE  IInv'
<1>1. /\ stage' = "over" /\ exit' = "killed" /\ run' = Dropped
      /\ UNCHANGED <<expect, deployments, log>>
  BY DEF Kill, Ends
<1>2. run' = [run EXCEPT !.resigned = run.resigned, !.walk = StartCreate, !.presented = <<>>,
                         !.answered = run.answered, !.verdict = run.verdict]
  BY <1>1 DEF Dropped, IInv, RunShape
<1>3. RunShape /\ run.resigned \in 0 .. MaxResign
  BY DEF IInv, RunShape
<1>4. RunShape'
  BY <1>1, <1>2, <1>3, RestartedShape
<1>. QED
  BY <1>1, <1>4, EndKeeps DEF Codes, CleanRun, CleanExit

LEMMA SignAgainKeeps ==
  ASSUME IInv, PollSignAgain
  PROVE  IInv'
<1>1. /\ stage = "polling" /\ Current.status = "sign_again" /\ UNCHANGED <<expect, deployments, log>>
  BY DEF PollSignAgain
<1>2. CASE stage' = "over"
  <2>1. exit' = "timeout" /\ run' = run
    BY <1>2 DEF PollSignAgain, Ends
  <2>2. RunShape' /\ CleanRun'
    BY <1>1, <2>1 DEF IInv, RunShape, CreateWalk, Mine, Create, CleanRun, CleanExit
  <2>. QED
    BY <1>1, <1>2, <2>1, <2>2, EndKeeps DEF Codes
<1>3. CASE stage' # "over"
  <2>1. /\ run.resigned + 1 <= MaxResign /\ stage' = "walking" /\ exit' = exit
        /\ run' = [run EXCEPT !.resigned = run.resigned + 1, !.walk = StartCreate,
                              !.presented = <<>>, !.verdict = "open"]
    BY <1>3, BoundsAssumption DEF PollSignAgain, Ends, Resigned, TooMany, IInv, RunShape
  <2>2. Asked' /\ Kept' /\ OnlyLastOut' /\ Mine' = Mine /\ Create' = Create
    BY <1>1 DEF IInv, Asked, Kept, Records, Mine, Create, OnlyLastOut
  <2>3. run' = [run EXCEPT !.resigned = run.resigned + 1, !.walk = StartCreate, !.presented = <<>>,
                           !.answered = run.answered, !.verdict = "open"]
    BY <2>1 DEF IInv, RunShape
  <2>4. RunShape' /\ StartCreate.mine = <<>>
    <3>1. RunShape /\ run.resigned + 1 \in 0 .. MaxResign /\ expect' = expect
      BY <1>1, <2>1, BoundsAssumption DEF IInv, RunShape
    <3>2. RunShape'
      BY <2>3, <3>1, RestartedShape
    <3>. QED
      BY <3>2 DEF StartCreate
  <2>5. exit = "none" /\ deployments # <<>> /\ run'.resigned # 0 /\ run'.walk = StartCreate
    BY <1>1, <2>1 DEF IInv, Stages, Codes, RunShape
  <2>6. Current.status = "sign_again" /\ ~Current.nonce /\ Current' = Current
    BY <1>1, <2>5, CurrentIsRecord DEF IInv, Kept, Current
  <2>7. Create
    BY <1>1 DEF IInv, Stages
  <2>8. Stages' /\ Frozen' /\ (Fresh => NoneOut)' /\ CleanRun'
    BY <1>1, <2>1, <2>2, <2>4, <2>5, <2>6, <2>7
    DEF IInv, Stages, Frozen, Fresh, CleanRun, CleanExit, Codes
  <2>. QED
    BY <2>2, <2>4, <2>8 DEF IInv
<1>. QED
  BY <1>2, <1>3

(* The api and the chain only take from what is out.                       *)
LEMMA QuieterKeeps ==
  ASSUME IInv, UNCHANGED <<expect, stage, run, exit>>, log' \in Seq(Mine),
         NEW k \in DOMAIN deployments, NEW d \in Records,
         deployments' = [deployments EXCEPT ![k] = d],
         HeaderOut(d) => HeaderOut(deployments[k]),
         d.landed <= Len(d.handed), d.status = "sign_again" => ~d.nonce,
         stage \in {"walking", "signed"} /\ k = Len(deployments) =>
           /\ d.landed = Current.landed
           /\ Create /\ d.status \in {"sign_again", "expired"} /\ ~d.nonce
  PROVE  IInv'
<1>1. Mine' = Mine /\ Create' = Create /\ Records' = Records /\ Asked' /\ RunShape'
  BY DEF IInv, Asked, RunShape, CreateWalk, Mine, Create, Records
<1>2. deployments \in Seq(Records) /\ DOMAIN deployments = 1 .. Len(deployments)
  BY DEF IInv, Kept
<1>3. /\ deployments' \in Seq(Records) /\ Len(deployments') = Len(deployments)
      /\ DOMAIN deployments' = DOMAIN deployments
      /\ \A j \in DOMAIN deployments : deployments'[j] = IF j = k THEN d ELSE deployments[j]
  BY <1>2, ExceptSeq
<1>4. Kept'
  BY <1>1, <1>3 DEF IInv, Kept
<1>5. \A j \in DOMAIN deployments : HeaderOut(deployments'[j]) => HeaderOut(deployments[j])
  BY <1>3
<1>6. OnlyLastOut' /\ (Fresh => NoneOut)' /\ CleanRun'
  BY <1>1, <1>3, <1>5 DEF IInv, OnlyLastOut, Fresh, NoneOut, CleanRun, CleanExit
<1>7. Stages'
  BY <1>1, <1>3, <1>2 DEF IInv, Stages
<1>8. Frozen'
  <2>1. SUFFICES ASSUME stage \in {"walking", "signed"} PROVE Frozen'
    BY DEF Frozen
  <2>2. Len(deployments) \in DOMAIN deployments
    BY <2>1, CurrentIsRecord DEF IInv, Stages
  <2>3. Current' = IF k = Len(deployments) THEN d ELSE Current
    BY <1>3, <2>2 DEF Current
  <2>. QED
    BY <1>1, <2>1, <2>3 DEF IInv, Frozen, Current
<1>. QED
  BY <1>1, <1>4, <1>6, <1>7, <1>8 DEF IInv

(* In a frozen deployment nothing can land, and only its status changes.   *)
LEMMA ChainKeeps ==
  ASSUME IInv, NEW k \in DOMAIN deployments,
         Land(k) \/ Expire(k) \/ GiveUp(k) \/ KeeperCompletes(k)
  PROVE  IInv'
<1>. DEFINE d == deployments[k]
<1>1. /\ UNCHANGED <<expect, stage, run, exit>> /\ deployments \in Seq(Records) /\ d \in Records
      /\ d.landed <= Len(d.handed) /\ (d.status = "sign_again" => ~d.nonce)
      /\ log \in Seq(Mine) /\ d.handed \in Seq(Mine) /\ d.landed \in Nat
  <2>1. UNCHANGED <<expect, stage, run, exit>>
    BY DEF Land, Expire, GiveUp, KeeperCompletes
  <2>2. deployments \in Seq(Records) /\ log \in Seq(Mine)
        /\ d.landed <= Len(d.handed) /\ (d.status = "sign_again" => ~d.nonce)
    BY DEF IInv, Kept
  <2>3. d \in Records
    BY <2>2
  <2>4. d.handed \in Seq(Mine) /\ d.landed \in Nat
    BY <2>3 DEF Records
  <2>. QED
    BY <2>1, <2>2, <2>3, <2>4
<1>2. stage \in {"walking", "signed"} /\ k = Len(deployments) =>
        \/ d.handed = <<>> /\ d.landed = 0
        \/ Create /\ d.status \in {"sign_again", "expired"} /\ ~d.nonce
  BY DEF IInv, Frozen, Current
<1>3. CASE Land(k)
  <2>. DEFINE e == [d EXCEPT !.landed = @ + 1]
  <2>1. /\ d.landed < Len(d.handed) /\ (d.nonce \/ d.status = "pending")
        /\ deployments' = [deployments EXCEPT ![k] = e]
        /\ log' = Append(log, d.handed[d.landed + 1])
    BY <1>1, <1>3 DEF Land
  <2>2. d.handed[d.landed + 1] \in Mine
    BY <1>1, <2>1
  <2>3. log' \in Seq(Mine)
    BY <1>1, <2>1, <2>2, AppendProperties
  <2>4. /\ e \in Records /\ e.landed = d.landed + 1 /\ e.handed = d.handed
        /\ e.nonce = d.nonce /\ e.status = d.status
    <3>1. d \in Records /\ d.landed + 1 \in Nat
      BY <1>1
    <3>. QED
      BY <3>1 DEF Records
  <2>5. e.landed <= Len(e.handed) /\ HeaderOut(d)
    BY <1>1, <2>1, <2>4 DEF HeaderOut
  <2>6. ~(stage \in {"walking", "signed"} /\ k = Len(deployments))
    BY <1>1, <1>2, <2>1
  <2>. HIDE DEF e
  <2>. QED
    BY <1>1, <2>1, <2>3, <2>4, <2>5, <2>6, QuieterKeeps
<1>4. ASSUME NEW status \in {"sign_again", "expired"}, Stops(k, status), log' = log,
             d.handed # <<>>, d.nonce => status # "sign_again",
             stage \in {"walking", "signed"} /\ k = Len(deployments) => status = "expired",
             Create
      PROVE  IInv'
  <2>. DEFINE e == [d EXCEPT !.status = status,
                             !.handed = IF d.nonce THEN @ ELSE SubSeq(@, 1, d.landed)]
  <2>1. deployments' = [deployments EXCEPT ![k] = e]
    BY <1>1, <1>4 DEF Stops, Records
  <2>2. /\ SubSeq(d.handed, 1, d.landed) \in Seq(Mine)
        /\ Len(SubSeq(d.handed, 1, d.landed)) = d.landed
    BY <1>1, SubSeqProperties
  <2>3. /\ e \in Records /\ e.landed = d.landed /\ e.nonce = d.nonce /\ e.status = status
        /\ e.handed = IF d.nonce THEN d.handed ELSE SubSeq(d.handed, 1, d.landed)
    BY <1>1, <2>2 DEF Records
  <2>4. e.landed <= Len(e.handed) /\ (HeaderOut(e) => HeaderOut(d))
    BY <1>1, <1>4, <2>2, <2>3 DEF HeaderOut
  <2>5. stage \in {"walking", "signed"} /\ k = Len(deployments) =>
          e.landed = Current.landed /\ e.status \in {"sign_again", "expired"} /\ ~e.nonce
    BY <1>2, <1>4, <2>3 DEF Current
  <2>. HIDE DEF e
  <2>. QED
    BY <1>1, <1>4, <2>1, <2>3, <2>4, <2>5, QuieterKeeps
<1>5. CASE Expire(k)
  <2>1. d.status = "pending" /\ ~d.nonce /\ d.landed < Len(d.handed) /\ Create
        /\ Stops(k, "sign_again") /\ log' = log
    BY <1>5 DEF Expire
  <2>2. d.handed # <<>> /\ ~(stage \in {"walking", "signed"} /\ k = Len(deployments))
    BY <1>1, <1>2, <2>1
  <2>. QED
    BY <1>4, <2>1, <2>2
<1>6. CASE GiveUp(k)
  BY <1>4, <1>6 DEF GiveUp
<1>7. CASE KeeperCompletes(k)
  <2>. DEFINE e == [d EXCEPT !.status = "live"]
  <2>1. /\ d.handed # <<>> /\ d.status = "pending" /\ log' = log
        /\ deployments' = [deployments EXCEPT ![k] = e]
    BY <1>1, <1>7 DEF KeeperCompletes, Records
  <2>2. /\ e \in Records /\ e.landed = d.landed /\ e.handed = d.handed /\ e.nonce = d.nonce
        /\ e.status = "live"
    BY <1>1 DEF Records
  <2>3. HeaderOut(d) /\ ~(stage \in {"walking", "signed"} /\ k = Len(deployments))
    BY <1>2, <2>1 DEF HeaderOut
  <2>. HIDE DEF e
  <2>. QED
    BY <1>1, <2>1, <2>2, <2>3, QuieterKeeps
<1>. QED
  BY <1>3, <1>5, <1>6, <1>7

LEMMA StutterKeeps ==
  ASSUME IInv, UNCHANGED vars
  PROVE  IInv'
<1>1. Asked' /\ Stages' /\ Frozen'
  BY DEF IInv, vars, Asked, Stages, Frozen, Create, Current
<1>2. RunShape'
  BY DEF IInv, vars, RunShape, CreateWalk, Mine, Create
<1>3. Kept' /\ OnlyLastOut'
  BY DEF IInv, vars, Kept, Records, Mine, OnlyLastOut
<1>4. (Fresh => NoneOut)' /\ CleanRun'
  BY DEF IInv, vars, Fresh, NoneOut, CleanRun, CleanExit, Create
<1>. QED
  BY <1>1, <1>2, <1>3, <1>4 DEF IInv

LEMMA StepKeeps ==
  ASSUME IInv, [Next]_vars
  PROVE  IInv'
<1>1. CASE Process
  BY <1>1, StartKeeps, BuildKeeps, JudgeKeeps, ConcludeKeeps, SendKeeps, PollKeeps, SignAgainKeeps
  DEF Process
<1>2. CASE Elsewhere
  BY <1>2, RunAgainKeeps, ResumeKeeps, KillKeeps, ChainKeeps DEF Elsewhere
<1>3. CASE UNCHANGED vars
  BY <1>3, StutterKeeps
<1>. QED
  BY <1>1, <1>2, <1>3 DEF Next

THEOREM SigningInvariant == Spec => []IInv
<1>1. IInv /\ [Next]_vars => IInv'
  BY StepKeeps
<1>. QED
  BY <1>1, InitKeeps, PTL DEF Spec

(* Every variable of a run is what its type says, whoever the operator is  *)
(* and whatever the api offers.                                            *)
THEOREM TypeCorrect == Spec => []TypeOK
<1>1. IInv => TypeOK
  <2>. SUFFICES ASSUME IInv PROVE TypeOK
    OBVIOUS
  <2>1. /\ \A i \in DOMAIN run.presented : run.presented[i] \in Offers[expect.verb]
        /\ Len(run.presented) <= MaxTx
    BY DEF IInv, RunShape, Mine
  <2>2. \A n \in DOMAIN log : log[n] \in Offers[expect.verb]
    BY DEF IInv, Kept, Mine
  <2>3. \A k \in DOMAIN deployments :
          /\ deployments[k].landed \in 0 .. Len(deployments[k].handed)
          /\ deployments[k].status \in {"pending", "live", "expired", "sign_again"}
    <3>. SUFFICES ASSUME NEW k \in DOMAIN deployments
                  PROVE  /\ deployments[k].landed \in 0 .. Len(deployments[k].handed)
                         /\ deployments[k].status \in {"pending", "live", "expired", "sign_again"}
      OBVIOUS
    <3>1. deployments[k] \in Records /\ deployments[k].landed <= Len(deployments[k].handed)
      BY DEF IInv, Kept
    <3>. QED
      BY <3>1 DEF Records
  <2>. QED
    BY <2>1, <2>2, <2>3 DEF IInv, Asked, RunShape, Kept, Stages, TypeOK
<1>. QED
  BY <1>1, SigningInvariant, PTL

(* At most one create is out, over every run, resume, re-sign, silence and *)
(* crash, when the operator reads what an exit 2 says of a deployment      *)
(* (create_portfolio.mjs:441-450).                                         *)
THEOREM OneCreate == ~Scripted => (Spec => []OneHeaderOut)
<1>. SUFFICES ASSUME ~Scripted PROVE Spec => []OneHeaderOut
  OBVIOUS
<1>1. IInv => OneHeaderOut
  BY DEF IInv, OnlyLastOut, OneHeaderOut
<1>. QED
  BY <1>1, SigningInvariant, PTL

(* The exit table's promise of codes 1 and 2: nothing is out.              *)
THEOREM ExitIsClean == ~Scripted => (Spec => []CleanExit)
<1>. SUFFICES ASSUME ~Scripted PROVE Spec => []CleanExit
  OBVIOUS
<1>1. IInv => CleanExit
  BY DEF IInv, CleanRun
<1>. QED
  BY <1>1, SigningInvariant, PTL

(***************************************************************************)
(* What a transaction the decoder accepts may do.                          *)
(***************************************************************************)
Sound(ix) == Refinement!OnOwnBook(ix) /\ Refinement!AsAsked(ix)
SoundTx(tx) == \A i \in Refinement!Does(tx) : Sound(tx.ixs[i])

LEMMA Doings ==
  ASSUME NEW verb \in DOMAIN ExpectedSteps,
         NEW step \in ExpectedSteps[verb].pre \union {ExpectedSteps[verb].primary}, NEW op,
         op \in AlwaysAllowed \union StepRules[step].required \union StepRules[step].optional,
         op \notin Refinement!Harmless
  PROVE  \/ op = Refinement!Main[verb] /\ op # "create_ata" /\ op \in DOMAIN Accounts
         \/ /\ op = "create_ata" /\ verb \in {"apply", "deposit", "withdraw"}
            /\ step = "create_custody" <=> verb = "apply"
<1>1. op \in StepRules[step].required \union StepRules[step].optional
  BY DEF AlwaysAllowed, Refinement!Harmless
<1>2. CASE verb \in {"propose", "cancel", "rotateCurator", "setDelay", "setMetadata"}
  BY <1>1, <1>2 DEF ExpectedSteps, Verb, StepRules, Rule, Paged, Refinement!Main, Accounts
<1>3. CASE verb = "apply"
  BY <1>1, <1>3 DEF ExpectedSteps, Verb, StepRules, Rule, Paged, Refinement!Main, Accounts
<1>4. CASE verb = "deposit"
  BY <1>1, <1>4 DEF ExpectedSteps, Verb, StepRules, Rule, Paged, Refinement!Main, Accounts,
     Refinement!Harmless, NavCranks
<1>5. CASE verb = "withdraw"
  BY <1>1, <1>5 DEF ExpectedSteps, Verb, StepRules, Rule, Paged, Refinement!Main, Accounts,
     Refinement!Harmless, NavCranks
<1>6. CASE verb = "refreshNav"
  BY <1>1, <1>6 DEF ExpectedSteps, Verb, StepRules, Rule, Paged, Refinement!Main, Accounts,
     Refinement!Harmless
<1>. QED
  BY <1>2, <1>3, <1>4, <1>5, <1>6 DEF ExpectedSteps

LEMMA SignersRoles ==
  ASSUME NEW op \in DOMAIN Accounts \ {"crank_nav_page"}, NEW role \in DOMAIN Accounts[op]
  PROVE  /\ role = "portfolio" => Accounts[op][role] = "portfolio"
         /\ role = "vault" => Accounts[op][role] = "vault"
         /\ role \in {"curator", "caller", "signer", "user", "creator", "from",
                      "underlying", "shares", "beneficiary"} => Accounts[op][role] = "me"
         /\ Accounts[op][role] # Unresolved
<1>1. CASE op \in {"propose_targets", "cancel_targets", "propose_curator", "update_delay", "set_metadata"}
  BY <1>1 DEF Accounts, Factory, Unresolved
<1>2. CASE op = "apply_targets"
  BY <1>2 DEF Accounts, Unresolved
<1>3. CASE op = "deposit"
  BY <1>3 DEF Accounts, Unresolved
<1>4. CASE op = "withdraw_request"
  BY <1>4 DEF Accounts, Unresolved
<1>. QED
  BY <1>1, <1>2, <1>3, <1>4 DEF Accounts

LEMMA WriteIsSound ==
  ASSUME AllocatorPinned, Asked, ~Create, NEW tx \in Mine, NEW w, NEW fresh,
         Accepts(w, tx, expect, fresh)
  PROVE  SoundTx(tx)
<1>. DEFINE verb == expect.verb
<1>1. verb \in DOMAIN ExpectedSteps
  BY DEF Asked, Create
<1>2. tx.step \in ExpectedSteps[verb].pre \union {ExpectedSteps[verb].primary}
  BY DEF Accepts, InPlace
<1>. SUFFICES ASSUME NEW i \in Refinement!Does(tx) PROVE Sound(tx.ixs[i])
  BY DEF SoundTx
<1>. DEFINE ix == tx.ixs[i]
<1>3. i \in DOMAIN tx.ixs /\ ix.op \notin Refinement!Harmless
  BY DEF Refinement!Does
<1>4. /\ ix.op \in AlwaysAllowed \union StepRules[tx.step].required \union StepRules[tx.step].optional
      /\ RightAccounts(ix, fresh) /\ RightArguments(ix, expect) /\ RightRent(ix, tx.step, fresh)
      /\ DOMAIN ix.acct = Layout(ix.op)
  <2>1. ix.program = "known"
    BY <1>3 DEF Accepts, Decodes
  <2>. QED
    BY <1>1, <1>3, <2>1, OffersAssumption DEF Accepts, CarriesItsStep, Fits, Mine
<1>5. \/ ix.op = Refinement!Main[verb] /\ ix.op # "create_ata" /\ ix.op \in DOMAIN Accounts
      \/ /\ ix.op = "create_ata" /\ verb \in {"apply", "deposit", "withdraw"}
         /\ tx.step = "create_custody" <=> verb = "apply"
  BY <1>1, <1>2, <1>3, <1>4, Doings
<1>. HIDE DEF ix, verb
<1>6. CASE ix.op \in DOMAIN Accounts /\ ix.op = Refinement!Main[verb] /\ ix.op # "create_ata"
  <2>1. DOMAIN ix.acct = DOMAIN Accounts[ix.op] /\ ix.op # "crank_nav_page"
    BY <1>3, <1>4, <1>6 DEF Layout, Refinement!Harmless
  <2>2. \A role \in DOMAIN ix.acct : ix.acct[role] = Accounts[ix.op][role]
    <3>. SUFFICES ASSUME NEW role \in DOMAIN ix.acct PROVE ix.acct[role] = Accounts[ix.op][role]
      OBVIOUS
    <3>1. Sees(ix, role, fresh) = Accounts[ix.op][role]
      BY <1>4, <1>6, <2>1 DEF RightAccounts
    <3>2. Accounts[ix.op][role] # Unresolved
      BY <1>6, <2>1, SignersRoles
    <3>. QED
      BY <3>1, <3>2 DEF Sees
  <2>3. Refinement!OnOwnBook(ix)
    BY <1>6, <2>1, <2>2, SignersRoles DEF Refinement!OnOwnBook
  <2>4. ix.op \notin {"create_ata", "transfer", "create_portfolio_page"}
    BY <1>6 DEF Accounts
  <2>5. verb = "propose" => ix.legs = expect.legs
    BY <1>4, <1>6 DEF RightArguments, Refinement!Main
  <2>6. verb \notin {"propose", "apply", "cancel"} => ix.arg = expect.arg
    <3>1. verb \in {"deposit", "withdraw", "rotateCurator", "setDelay", "setMetadata", "refreshNav",
                    "propose", "apply", "cancel"}
      BY <1>1 DEF ExpectedSteps, verb
    <3>2. verb # "refreshNav"
      BY <1>6, <2>1 DEF Refinement!Main
    <3>. QED
      BY <1>4, <1>6, <3>1, <3>2 DEF RightArguments, Refinement!Main
  <2>7. Refinement!AsAsked(ix)
    BY <1>6, <2>4, <2>5, <2>6 DEF Refinement!AsAsked, verb
  <2>. QED
    BY <2>3, <2>7 DEF Sound, ix
<1>7. CASE ix.op = "create_ata" /\ verb \in {"apply", "deposit", "withdraw"}
           /\ (tx.step = "create_custody" <=> verb = "apply")
  <2>1. DOMAIN ix.acct = {"payer", "derived", "owner"}
    BY <1>4, <1>7 DEF Layout, Accounts
  <2>2. /\ Sees(ix, "payer", fresh) = "me" /\ Sees(ix, "derived", fresh) = "yes"
        /\ Sees(ix, "owner", fresh) = IF verb = "apply" THEN "custodian" ELSE "me"
    BY <1>4, <1>7 DEF RightRent
  <2>3. /\ ix.acct.payer = "me" /\ ix.acct.derived = "yes"
        /\ ix.acct.owner = IF verb = "apply" THEN "custodian" ELSE "me"
    BY <2>2 DEF Sees, Unresolved
  <2>4. Refinement!OnOwnBook(ix)
    BY <2>1 DEF Refinement!OnOwnBook
  <2>5. Refinement!AsAsked(ix)
    BY <1>7, <2>3 DEF Refinement!AsAsked, verb
  <2>. QED
    BY <2>4, <2>5 DEF Sound, ix
<1>. QED
  BY <1>5, <1>6, <1>7

LEMMA CreateIsSound ==
  ASSUME Asked, Create, NEW tx \in Mine, NEW w, NEW fresh, AcceptsCreator(w, tx, expect, fresh)
  PROVE  SoundTx(tx)
<1>. SUFFICES ASSUME NEW i \in Refinement!Does(tx) PROVE Sound(tx.ixs[i])
  BY DEF SoundTx
<1>. DEFINE ix == tx.ixs[i]
<1>1. i \in DOMAIN tx.ixs /\ ix.op \notin Refinement!Harmless
  BY DEF Refinement!Does
<1>2. /\ ix.op \in AlwaysAllowed \union StepRules[tx.step].required \union StepRules[tx.step].optional
      /\ RightHeader(ix, expect, fresh) /\ RightPage(ix, tx, expect, fresh)
      /\ RightTransfer(ix, expect, fresh)
      /\ DOMAIN ix.acct = Layout(ix.op) /\ tx.step \in CreatorSteps
  <2>1. ix.program = "known"
    BY <1>1 DEF AcceptsCreator, Decodes
  <2>. QED
    BY <1>1, <2>1, OffersAssumption DEF AcceptsCreator, CarriesItsStep, FitsCreate, Mine, Create
<1>3. ix.op \in {"create_portfolio", "create_portfolio_page", "transfer"}
  BY <1>1, <1>2 DEF AlwaysAllowed, Refinement!Harmless, CreatorSteps, StepRules, Rule
<1>. HIDE DEF ix
<1>4. CASE ix.op \in {"create_portfolio", "create_portfolio_page"}
  <2>1. DOMAIN ix.acct = {"creator", "book"}
    BY <1>2, <1>4 DEF Layout, Accounts
  <2>2. ix.acct.creator = "me"
    BY <1>2, <1>4 DEF RightHeader, RightPage, SameBook, Sees, Unresolved
  <2>3. Refinement!OnOwnBook(ix)
    BY <2>1, <2>2 DEF Refinement!OnOwnBook
  <2>4. ix.op = "create_portfolio" => ix.arg = expect.arg
    BY <1>2 DEF RightHeader
  <2>5. Refinement!AsAsked(ix)
    BY <1>4, <2>4 DEF Refinement!AsAsked, Refinement!Main, Create
  <2>. QED
    BY <2>3, <2>5 DEF Sound, ix
<1>5. CASE ix.op = "transfer"
  <2>1. DOMAIN ix.acct = {"from", "to"}
    BY <1>2, <1>5 DEF Layout, Accounts
  <2>2. ix.acct.from = "me" /\ ix.acct.to = "keeper"
    BY <1>2, <1>5 DEF RightTransfer, Sees, Unresolved
  <2>3. Refinement!OnOwnBook(ix) /\ Refinement!AsAsked(ix)
    BY <1>5, <2>1, <2>2 DEF Refinement!OnOwnBook, Refinement!AsAsked, Create
  <2>. QED
    BY <2>3 DEF Sound, ix
<1>. QED
  BY <1>3, <1>4, <1>5

(***************************************************************************)
(* Nothing but sound transactions is signed, handed over or executed.      *)
(***************************************************************************)
GoodTx == {tx \in Mine : SoundTx(tx)}
AllGood ==
  /\ run.walk.mine \in Seq(GoodTx)
  /\ \A k \in DOMAIN deployments : deployments[k].handed \in Seq(GoodTx)
  /\ log \in Seq(GoodTx)

LEMMA SameGood ==
  ASSUME expect'.verb = expect.verb, expect'.legs = expect.legs, expect'.arg = expect.arg
  PROVE  GoodTx' = GoodTx
<1>1. Mine' = Mine
  BY DEF Mine
<1>2. \A tx : SoundTx(tx)' <=> SoundTx(tx)
  BY DEF SoundTx, Sound, Refinement!OnOwnBook, Refinement!AsAsked, Refinement!Does
<1>. QED
  BY <1>1, <1>2 DEF GoodTx

LEMMA AskUnchanged ==
  ASSUME IInv, [Next]_vars
  PROVE  /\ expect'.verb = expect.verb /\ expect'.legs = expect.legs /\ expect'.arg = expect.arg
         /\ expect'.maxLamports = expect.maxLamports /\ expect'.maxPriority = expect.maxPriority
         /\ expect' # expect => Build
<1>1. CASE Build
  <2>1. PICK echo, quote : expect' = [expect EXCEPT !.echo = echo, !.quote = quote]
    BY <1>1 DEF Build
  <2>. QED
    BY <1>1, <2>1 DEF IInv, Asked
<1>2. CASE ~Build
  <2>1. expect' = expect
    BY <1>2 DEF Next, Process, Elsewhere, StartWrite, ReadFails, Judge, Conclude, SignFails, Send,
       Accepted, Answered4xx, NoAnswer, PollLive, PollDeadline, PollExpired, PollSignAgain,
       PollFails, RunAgain, Resume, Kill, Land, Expire, GiveUp, KeeperCompletes, vars
  <2>. QED
    BY <1>2, <2>1
<1>. QED
  BY <1>1, <1>2

(* The walk of a step: kept, started afresh, or one transaction on.        *)
LEMMA WalkMoves ==
  ASSUME IInv, Next
  PROVE  \/ run'.walk = run.walk
         \/ Create /\ run'.walk = StartCreate
         \/ \E tx \in Offered : \E fresh \in TableRead(tx) :
              stage = "walking" /\ Passes(tx, fresh) /\ run'.walk = Taken(tx, fresh)
<1>1. ASSUME NEW tx \in Offered, stage = "walking", Judge(tx)
      PROVE  \/ run'.walk = run.walk
             \/ \E fresh \in TableRead(tx) : Passes(tx, fresh) /\ run'.walk = Taken(tx, fresh)
  <2>1. PICK fresh \in TableRead(tx) :
          LET judged == [run EXCEPT !.fresh = fresh, !.presented = Append(@, tx)]
          IN  IF Passes(tx, fresh)
              THEN run' = [judged EXCEPT !.walk = Taken(tx, fresh)] /\ UNCHANGED <<stage, exit>>
              ELSE run' = [judged EXCEPT !.verdict = "refused"] /\ Ends(Refusal)
    BY <1>1 DEF Judge
  <2>2. run'.walk = IF Passes(tx, fresh) THEN Taken(tx, fresh) ELSE run.walk
    BY <2>1 DEF IInv, RunShape
  <2>. QED
    BY <2>2
<1>2. CASE StartWrite \/ ReadFails \/ Build \/ SignFails \/ Send \/ PollLive \/ PollDeadline
           \/ PollExpired \/ PollFails
  BY <1>2 DEF StartWrite, ReadFails, Build, SignFails, Send, PollLive, PollDeadline,
     PollExpired, PollFails
<1>3. CASE Conclude
  BY <1>3 DEF Conclude, IInv, RunShape
<1>4. CASE Accepted \/ Answered4xx \/ NoAnswer \/ Kill
  <2>1. run' \in {Dropped, [Dropped EXCEPT !.answered = TRUE]} /\ Create
    BY <1>4 DEF Accepted, Answered4xx, NoAnswer, Kill
  <2>2. run'.walk = StartCreate
    BY <2>1 DEF Dropped, IInv, RunShape
  <2>. QED
    BY <2>1, <2>2
<1>5. CASE PollSignAgain
  <2>1. Create
    BY <1>5 DEF PollSignAgain, IInv, Stages
  <2>2. run'.walk \in {run.walk, StartCreate}
    BY <1>5 DEF PollSignAgain, IInv, RunShape
  <2>. QED
    BY <2>1, <2>2
<1>6. CASE RunAgain \/ Resume
  BY <1>6, StartShape DEF RunAgain, Resume
<1>7. ASSUME NEW k \in DOMAIN deployments,
             Land(k) \/ Expire(k) \/ GiveUp(k) \/ KeeperCompletes(k)
      PROVE  run'.walk = run.walk
  BY <1>7 DEF Land, Expire, GiveUp, KeeperCompletes
<1>. QED
  BY <1>1, <1>2, <1>3, <1>4, <1>5, <1>6, <1>7 DEF Next, Process, Elsewhere

LEMMA WalkStaysGood ==
  ASSUME AllocatorPinned, IInv, AllGood, Next
  PROVE  run'.walk.mine \in Seq(GoodTx)
<1>1. CASE run'.walk = run.walk
  BY <1>1 DEF AllGood
<1>2. CASE run'.walk = StartCreate
  BY <1>2 DEF StartCreate
<1>3. ASSUME NEW tx \in Offered, NEW fresh, Passes(tx, fresh), run'.walk = Taken(tx, fresh)
      PROVE  run'.walk.mine \in Seq(GoodTx)
  <2>1. tx \in Mine
    BY DEF Offered, Mine
  <2>2. CASE Create
    <3>1. AcceptsCreate(run.walk, tx, expect, fresh) /\ CreateWalk(run.walk)
      BY <1>3, <2>2 DEF Passes, IInv, RunShape
    <3>2. CASE tx.step \in KeeperSteps
      <4>1. Taken(tx, fresh).mine = run.walk.mine
        BY <2>2, <3>1, <3>2 DEF Taken, AfterCreate, CreateWalk
      <4>. QED
        BY <1>3, <4>1 DEF AllGood
    <3>3. CASE tx.step \notin KeeperSteps
      <4>1. SoundTx(tx)
        BY <2>1, <2>2, <3>1, <3>3, CreateIsSound DEF AcceptsCreate, AcceptsKeeper, IInv
      <4>2. Taken(tx, fresh).mine \in {run.walk.mine, Append(run.walk.mine, tx)}
        BY <2>1, <2>2, <3>1, WalkKeepsShape DEF Taken
      <4>3. tx \in GoodTx
        BY <2>1, <4>1 DEF GoodTx
      <4>4. run.walk.mine \in Seq(GoodTx) /\ Append(run.walk.mine, tx) \in Seq(GoodTx)
        BY <4>3, AppendProperties DEF AllGood
      <4>5. run'.walk.mine \in {run.walk.mine, Append(run.walk.mine, tx)}
        BY <1>3, <4>2
      <4>. QED
        BY Zenon, <4>4, <4>5
    <3>. QED
      BY <3>2, <3>3
  <2>3. CASE ~Create
    <3>1. SoundTx(tx)
      BY <1>3, <2>1, <2>3, WriteIsSound DEF Passes, IInv
    <3>2. Taken(tx, fresh).mine = Append(run.walk.mine, tx)
      BY <2>3 DEF Taken, After
    <3>3. tx \in GoodTx
      BY <2>1, <3>1 DEF GoodTx
    <3>. QED
      BY <1>3, <3>2, <3>3, AppendProperties DEF AllGood
  <2>. QED
    BY <2>2, <2>3
<1>. QED
  BY <1>1, <1>2, <1>3, WalkMoves

LEMMA RestStaysGood ==
  ASSUME IInv, AllGood, Next
  PROVE  /\ \A k \in DOMAIN deployments' : deployments'[k].handed \in Seq(GoodTx)
         /\ log' \in Seq(GoodTx)
<1>. DEFINE Handed == \A k \in DOMAIN deployments' : deployments'[k].handed \in Seq(GoodTx)
<1>1. deployments \in Seq(Records) /\ DOMAIN deployments = 1 .. Len(deployments)
      /\ Len(deployments) \in Nat
  BY DEF IInv, Kept
<1>2. ASSUME NEW k \in DOMAIN deployments, NEW e, deployments' = [deployments EXCEPT ![k] = e],
             e.handed \in Seq(GoodTx)
      PROVE  Handed
  <2>1. DOMAIN deployments' = DOMAIN deployments
        /\ \A j \in DOMAIN deployments : deployments'[j] = IF j = k THEN e ELSE deployments[j]
    BY <1>1, <1>2
  <2>. QED
    BY <1>2, <2>1 DEF AllGood
<1>3. ASSUME HandOver, deployments # <<>> PROVE Handed
  <2>1. PICK nonce \in BOOLEAN : deployments' = [deployments EXCEPT ![Len(deployments)] =
          [Current EXCEPT !.handed = run.walk.mine, !.status = "pending", !.nonce = nonce,
                          !.books = IF Create THEN @ \union {run.walk.book} ELSE @]]
    BY <1>3 DEF HandOver, SetCurrent
  <2>2. Current \in Records /\ Len(deployments) \in DOMAIN deployments
    BY <1>3, CurrentIsRecord DEF IInv
  <2>3. [Current EXCEPT !.handed = run.walk.mine, !.status = "pending", !.nonce = nonce,
                        !.books = IF Create THEN @ \union {run.walk.book} ELSE @].handed
          = run.walk.mine
    BY <2>2 DEF Records
  <2>. QED
    BY <1>2, <2>1, <2>2, <2>3 DEF AllGood
<1>4. CASE UNCHANGED <<deployments, log>>
  BY <1>4 DEF AllGood
<1>5. CASE StartWrite \/ Build
  <2>1. deployments' = <<NewDeployment>> \/ deployments' = Append(deployments, NewDeployment)
    BY <1>5 DEF StartWrite, Build
  <2>2. NewDeployment.handed = <<>>
    BY DEF NewDeployment
  <2>3. \A k \in DOMAIN deployments' :
          \/ deployments'[k] = NewDeployment
          \/ k \in DOMAIN deployments /\ deployments'[k] = deployments[k]
    BY <1>1, <2>1, NewIsRecord, AppendProperties
  <2>4. <<>> \in Seq(GoodTx)
    OBVIOUS
  <2>5. log' = log
    BY <1>5 DEF StartWrite, Build
  <2>. QED
    BY <2>2, <2>3, <2>4, <2>5 DEF AllGood
<1>6. CASE Send \/ Accepted \/ Answered4xx \/ NoAnswer
  <2>1. (HandOver \/ UNCHANGED deployments) /\ log' = log /\ deployments # <<>>
    BY <1>6 DEF Send, Accepted, Answered4xx, NoAnswer, IInv, Stages
  <2>. QED
    BY <1>3, <1>4, <2>1 DEF AllGood
<1>7. ASSUME NEW k \in DOMAIN deployments,
             Land(k) \/ Expire(k) \/ GiveUp(k) \/ KeeperCompletes(k)
      PROVE  Handed /\ log' \in Seq(GoodTx)
  <2>. DEFINE d == deployments[k]
  <2>1. d \in Records /\ d.handed \in Seq(GoodTx) /\ d.landed <= Len(d.handed)
    BY DEF IInv, Kept, AllGood
  <2>2. d.landed \in Nat
    BY <2>1 DEF Records
  <2>3. CASE Land(k)
    <3>1. /\ d.landed < Len(d.handed)
          /\ deployments' = [deployments EXCEPT ![k] = [d EXCEPT !.landed = @ + 1]]
          /\ log' = Append(log, d.handed[d.landed + 1])
      BY <1>1, <2>1, <2>3 DEF Land
    <3>2. [d EXCEPT !.landed = @ + 1].handed = d.handed
      BY <2>1 DEF Records
    <3>3. d.handed[d.landed + 1] \in GoodTx
      BY <2>1, <2>2, <3>1
    <3>4. log \in Seq(GoodTx)
      BY DEF AllGood
    <3>5. log' \in Seq(GoodTx)
      BY <3>1, <3>3, <3>4, AppendProperties
    <3>. QED
      BY <1>2, <2>1, <3>1, <3>2, <3>5
  <2>4. ASSUME NEW status, Stops(k, status), log' = log
        PROVE  Handed /\ log' \in Seq(GoodTx)
    <3>. DEFINE e == [d EXCEPT !.status = status,
                               !.handed = IF d.nonce THEN @ ELSE SubSeq(@, 1, d.landed)]
    <3>1. deployments' = [deployments EXCEPT ![k] = e]
      BY <1>1, <2>1, <2>4 DEF Stops, Records
    <3>2. SubSeq(d.handed, 1, d.landed) \in Seq(GoodTx)
      BY <2>1, <2>2, SubSeqProperties
    <3>3. e.handed = IF d.nonce THEN d.handed ELSE SubSeq(d.handed, 1, d.landed)
      BY <2>1 DEF Records
    <3>4. e.handed \in Seq(GoodTx)
      BY <2>1, <3>2, <3>3
    <3>. HIDE DEF e
    <3>. QED
      BY <1>2, <2>4, <3>1, <3>4 DEF AllGood
  <2>5. CASE Expire(k) \/ GiveUp(k)
    BY <2>4, <2>5 DEF Expire, GiveUp
  <2>6. CASE KeeperCompletes(k)
    <3>1. deployments' = [deployments EXCEPT ![k] = [d EXCEPT !.status = "live"]] /\ log' = log
      BY <1>1, <2>1, <2>6 DEF KeeperCompletes, Records
    <3>2. [d EXCEPT !.status = "live"].handed = d.handed
      BY <2>1 DEF Records
    <3>. QED
      BY <1>2, <2>1, <3>1, <3>2 DEF AllGood
  <2>. QED
    BY <1>7, <2>3, <2>5, <2>6
<1>8. CASE ~(StartWrite \/ Build \/ Send \/ Accepted \/ Answered4xx \/ NoAnswer
             \/ \E k \in DOMAIN deployments : Land(k) \/ Expire(k) \/ GiveUp(k) \/ KeeperCompletes(k))
  <2>1. UNCHANGED <<deployments, log>>
    BY <1>8 DEF Next, Process, Elsewhere, ReadFails, Judge, Conclude, SignFails, PollLive,
       PollDeadline, PollExpired, PollSignAgain, PollFails, RunAgain, Resume, Kill
  <2>. QED
    BY <1>4, <2>1
<1>. QED
  BY <1>5, <1>6, <1>7, <1>8

LEMMA GoodIsKept ==
  ASSUME AllocatorPinned, IInv, AllGood, [Next]_vars
  PROVE  AllGood'
<1>1. GoodTx' = GoodTx
  BY AskUnchanged, SameGood
<1>2. CASE Next
  BY <1>1, <1>2, WalkStaysGood, RestStaysGood DEF AllGood
<1>3. CASE UNCHANGED vars
  BY <1>1, <1>3 DEF AllGood, vars
<1>. QED
  BY <1>2, <1>3

(* Whatever payload the api builds, nothing the chain executes in the      *)
(* operator's name is on another book, to another account or with another  *)
(* argument than the intent asked for (decode.js:977-1105), when the       *)
(* manifest pins the allocator.                                            *)
THEOREM AllAsAsked == AllocatorPinned => (Spec => []Refinement!OnlyWhatWasAsked)
<1>. SUFFICES ASSUME AllocatorPinned PROVE Spec => []Refinement!OnlyWhatWasAsked
  OBVIOUS
<1>1. Init => AllGood
  BY DEF Init, AllGood, StartRun, StartCreate, StartWalk
<1>2. IInv /\ AllGood /\ [Next]_vars => AllGood'
  BY GoodIsKept
<1>3. AllGood => Refinement!OnlyWhatWasAsked
  <2>. SUFFICES ASSUME AllGood, NEW n \in DOMAIN log, NEW i \in Refinement!Does(log[n])
                PROVE  Refinement!OnOwnBook(log[n].ixs[i]) /\ Refinement!AsAsked(log[n].ixs[i])
    BY DEF Refinement!OnlyWhatWasAsked
  <2>1. log[n] \in GoodTx
    BY DEF AllGood
  <2>. QED
    BY <2>1 DEF GoodTx, SoundTx, Sound
<1>. QED
  BY <1>1, <1>2, <1>3, SigningInvariant, PTL DEF Spec

(***************************************************************************)
(* What the run reports: the book of its first walk is the one it signed   *)
(* for, and a rebuild is signed only for the book the build named.         *)
(***************************************************************************)
Signing == Create /\ stage \in {"walking", "signed"}
Echoes ==
  Create /\ expect.echo # "absent" =>
    /\ run.walk.mine # <<>> => run.walk.book = expect.echo
    /\ deployments # <<>> => Current.books \subseteq {expect.echo}
FirstTime ==
  /\ stage = "reading" => run.walk.mine = <<>> /\ run.resigned = 0
  /\ Signing /\ run.resigned = 0 => Current.books = {}
  /\ Signing /\ run.resigned = 0 /\ stage = "signed" => run.book = run.walk.book
SignedFor ==
  (Signing /\ run.resigned # 0) \/ (stage = "polling" /\ run.mode # "resume") =>
    run.book \in Current.books
Ended ==
  run.mode = "create" /\ exit \in {"ok", "timeout"} =>
    /\ Create /\ deployments # <<>>
    /\ Current.books # {} => run.book \in Current.books
Reporting ==
  /\ ~Create => run.mode = "write"
  /\ Echoes /\ FirstTime /\ SignedFor /\ Ended

LEMMA HeaderIsEcho ==
  ASSUME NEW tx, NEW fresh, NEW w, Create, CreateWalk(w), AcceptsCreate(w, tx, expect, fresh),
         expect.echo # "absent", w.mine # <<>> => w.book = expect.echo,
         AfterCreate(w, tx, fresh).mine # <<>>
  PROVE  AfterCreate(w, tx, fresh).book = expect.echo
<1>1. CASE tx.step \in KeeperSteps
  <2>1. AfterCreate(w, tx, fresh) = [w EXCEPT !.at = @ + 1, !.keeper = TRUE]
    BY <1>1 DEF AfterCreate
  <2>2. AfterCreate(w, tx, fresh).book = w.book /\ AfterCreate(w, tx, fresh).mine = w.mine
    BY <2>1 DEF CreateWalk
  <2>. QED
    BY <2>2
<1>2. CASE tx.step \notin KeeperSteps
  <2>. DEFINE c == Carried(w, tx, fresh)
              j == CHOOSE i \in DOMAIN tx.ixs : tx.ixs[i].op = "create_portfolio"
  <2>1. CarriesItsStep(tx) /\ CreatorInPlace(w, tx.step) /\ FitsCreate(tx, expect, fresh)
    BY <1>2 DEF AcceptsCreate, AcceptsKeeper, AcceptsCreator
  <2>2. AfterCreate(w, tx, fresh).book = c.book
    <3>1. c = [at |-> c.at, keeper |-> c.keeper, funded |-> c.funded, book |-> c.book,
               legs |-> c.legs, pages |-> c.pages, totals |-> c.totals,
               transfers |-> c.transfers, outlay |-> c.outlay, mine |-> c.mine]
      <4>1. CASE tx.step = "create_portfolio"
        BY <4>1 DEF Carried, CreateWalk
      <4>2. CASE tx.step = "create_portfolio_page"
        BY <4>2 DEF Carried, CreateWalk
      <4>3. CASE tx.step \notin {"create_portfolio", "create_portfolio_page"}
        BY <4>3 DEF Carried, CreateWalk
      <4>. QED
        BY <4>1, <4>2, <4>3
    <3>. HIDE DEF c
    <3>2. AfterCreate(w, tx, fresh) =
            [c EXCEPT !.at = @ + 1, !.funded = @ \/ tx.step = "fund_operator",
                      !.transfers = @ + Transfers(tx),
                      !.outlay = @ + (IF Transfers(tx) > 0 THEN Only(tx, "transfer").n ELSE 0),
                      !.mine = Append(@, tx)]
      BY <1>2 DEF AfterCreate, c
    <3>. QED
      BY <3>1, <3>2
  <2>3. CASE tx.step = "create_portfolio"
    <3>1. CountOf(tx, "create_portfolio") = 1
      BY <2>1, <2>3 DEF CarriesItsStep, StepRules, Rule
    <3>2. j \in DOMAIN tx.ixs /\ tx.ixs[j].op = "create_portfolio"
      BY <3>1, Present
    <3>. HIDE DEF j
    <3>3. Sees(tx.ixs[j], "book", fresh) = expect.echo
      BY <2>1, <3>2 DEF FitsCreate, RightHeader, SameBook
    <3>4. c.book = Sees(tx.ixs[j], "book", fresh)
      BY <2>3 DEF Carried, Only, CreateWalk, j
    <3>. QED
      BY <2>2, <3>3, <3>4
  <2>4. CASE tx.step # "create_portfolio"
    <3>1. w.mine # <<>>
      BY <2>1, <2>4 DEF CreatorInPlace, CreateWalk
    <3>2. c.book = w.book
      <4>1. CASE tx.step = "create_portfolio_page"
        BY <4>1 DEF Carried, CreateWalk
      <4>2. CASE tx.step # "create_portfolio_page"
        BY <2>4, <4>2 DEF Carried
      <4>. QED
        BY <4>1, <4>2
    <3>. QED
      BY <2>2, <3>1, <3>2
  <2>. QED
    BY <2>3, <2>4
<1>. QED
  BY <1>1, <1>2

LEMMA JudgeReports ==
  ASSUME IInv, Reporting, stage = "walking", NEW tx \in Offered, Judge(tx)
  PROVE  Reporting'
<1>1. PICK fresh \in TableRead(tx) :
        LET judged == [run EXCEPT !.fresh = fresh, !.presented = Append(@, tx)]
        IN  IF Passes(tx, fresh)
            THEN run' = [judged EXCEPT !.walk = Taken(tx, fresh)] /\ UNCHANGED <<stage, exit>>
            ELSE run' = [judged EXCEPT !.verdict = "refused"] /\ Ends(Refusal)
  BY DEF Judge
<1>2. UNCHANGED <<expect, deployments, log>> /\ Create' = Create /\ Current' = Current
  BY DEF Judge, Create, Current
<1>3. stage # "over" /\ exit \notin Codes /\ deployments # <<>>
  BY DEF IInv, Stages
<1>4. CASE Passes(tx, fresh)
  <2>1. /\ run' = [run EXCEPT !.fresh = fresh, !.presented = Append(@, tx), !.walk = Taken(tx, fresh)]
        /\ UNCHANGED <<stage, exit>>
    BY <1>1, <1>4
  <2>2. /\ run'.mode = run.mode /\ run'.resigned = run.resigned /\ run'.book = run.book
        /\ run'.walk = Taken(tx, fresh)
    BY <2>1 DEF IInv, RunShape
  <2>3. ASSUME Create, expect.echo # "absent", run'.walk.mine # <<>>
        PROVE  run'.walk.book = expect.echo
    <3>1. CreateWalk(run.walk) /\ AcceptsCreate(run.walk, tx, expect, fresh)
      BY <1>4, <2>3 DEF Passes, IInv, RunShape
    <3>2. run'.walk = AfterCreate(run.walk, tx, fresh)
      BY <2>2, <2>3 DEF Taken
    <3>3. run.walk.mine # <<>> => run.walk.book = expect.echo
      BY <2>3 DEF Reporting, Echoes
    <3>. QED
      BY <2>3, <3>1, <3>2, <3>3, HeaderIsEcho
  <2>4. Echoes'
    BY <1>2, <2>3 DEF Reporting, Echoes
  <2>5. (~Create => run.mode = "write")' /\ FirstTime' /\ SignedFor' /\ Ended'
    BY <1>2, <1>3, <2>1, <2>2 DEF Reporting, FirstTime, SignedFor, Ended, Signing, Codes
  <2>. QED
    BY <2>4, <2>5 DEF Reporting
<1>5. CASE ~Passes(tx, fresh)
  <2>1. /\ run' = [run EXCEPT !.fresh = fresh, !.presented = Append(@, tx), !.verdict = "refused"]
        /\ stage' = "over" /\ exit' = Refusal
    BY <1>1, <1>5 DEF Ends
  <2>2. /\ run'.mode = run.mode /\ run'.resigned = run.resigned /\ run'.book = run.book
        /\ run'.walk = run.walk
    BY <2>1 DEF IInv, RunShape
  <2>3. Echoes' /\ (~Create => run.mode = "write")'
    BY <1>2, <2>2 DEF Reporting, Echoes
  <2>4. FirstTime' /\ SignedFor'
    BY <2>1 DEF FirstTime, SignedFor, Signing
  <2>5. Ended'
    BY <1>2, <1>3, <2>1, <2>2 DEF Reporting, SignedFor, Signing, Ended, Refusal
  <2>. QED
    BY <2>3, <2>4, <2>5 DEF Reporting
<1>. QED
  BY <1>4, <1>5

LEMMA ConcludeReports ==
  ASSUME IInv, Reporting, Conclude
  PROVE  Reporting'
<1>1. stage = "walking" /\ UNCHANGED <<expect, deployments, log>> /\ Create' = Create
      /\ Current' = Current /\ deployments # <<>> /\ exit \notin Codes
  BY DEF Conclude, Create, Current, IInv, Stages
<1>. DEFINE first == Create /\ run.resigned = 0
<1>2. PICK dry \in BOOLEAN :
        /\ dry => first /\ Whole
        /\ run' = [run EXCEPT !.verdict = IF Whole THEN "verified" ELSE "incomplete",
                              !.book = IF first THEN run.walk.book ELSE @,
                              !.mode = IF dry THEN "dry" ELSE @]
        /\ IF ~Whole THEN Ends(Refusal)
           ELSE IF dry THEN Ends("ok")
           ELSE stage' = "signed" /\ UNCHANGED exit
  BY DEF Conclude
<1>3. /\ run'.mode = IF dry THEN "dry" ELSE run.mode
      /\ run'.book = IF first THEN run.walk.book ELSE run.book
      /\ run'.resigned = run.resigned /\ run'.walk = run.walk
  BY <1>2 DEF IInv, RunShape
<1>4. (~Create => run.mode = "write")' /\ Echoes'
  BY <1>1, <1>2, <1>3 DEF Reporting, Echoes
<1>5. CASE stage' = "signed"
  <2>1. exit' = exit /\ ~dry
    BY <1>2, <1>5 DEF Ends
  <2>. QED
    BY <1>1, <1>3, <1>4, <1>5, <2>1 DEF Reporting, FirstTime, SignedFor, Ended, Signing, Codes
<1>6. CASE stage' # "signed"
  <2>1. stage' = "over" /\ (exit' = Refusal \/ run'.mode = "dry")
    BY <1>2, <1>3, <1>6 DEF Ends
  <2>2. FirstTime' /\ SignedFor'
    BY <2>1 DEF FirstTime, SignedFor, Signing
  <2>3. Ended'
    BY <1>1, <1>3, <2>1 DEF Reporting, SignedFor, Signing, Ended, Refusal
  <2>. QED
    BY <1>4, <2>2, <2>3 DEF Reporting
<1>. QED
  BY <1>5, <1>6

(* Signed, and handed over or not: the book of the walk is the run's.      *)
LEMMA SentReports ==
  ASSUME IInv, Reporting, Send \/ SignFails \/ Accepted \/ Answered4xx \/ NoAnswer
  PROVE  Reporting'
<1>. DEFINE n == Len(deployments)
<1>1. stage = "signed" /\ expect' = expect /\ Create' = Create /\ deployments # <<>>
      /\ exit \notin Codes
  BY DEF Send, SignFails, Accepted, Answered4xx, NoAnswer, Create, IInv, Stages
<1>2. /\ run'.mode = run.mode /\ run'.resigned = run.resigned /\ run'.book = run.book
      /\ run'.walk \in {run.walk, StartCreate}
  <2>1. run' \in {run, Dropped, [Dropped EXCEPT !.answered = TRUE]}
    BY DEF Send, SignFails, Accepted, Answered4xx, NoAnswer
  <2>. QED
    BY <2>1 DEF Dropped, IInv, RunShape
<1>3. StartCreate.mine = <<>>
  BY DEF StartCreate
<1>4. HandOver \/ deployments' = deployments
  BY DEF Send, SignFails, Accepted, Answered4xx, NoAnswer
<1>5. /\ deployments' # <<>>
      /\ Create => Current'.books \in {Current.books, Current.books \union {run.walk.book}}
      /\ Create /\ HandOver => run.walk.book \in Current'.books
  <2>1. CASE deployments' = deployments /\ ~HandOver
    BY <1>1, <2>1 DEF Current
  <2>2. CASE HandOver
    <3>1. PICK nonce \in BOOLEAN : deployments' = [deployments EXCEPT ![n] =
            [Current EXCEPT !.handed = run.walk.mine, !.status = "pending", !.nonce = nonce,
                            !.books = IF Create THEN @ \union {run.walk.book} ELSE @]]
      BY <2>2 DEF HandOver, SetCurrent
    <3>. DEFINE d == [Current EXCEPT !.handed = run.walk.mine, !.status = "pending", !.nonce = nonce,
                                     !.books = IF Create THEN @ \union {run.walk.book} ELSE @]
    <3>2. Current \in Records /\ n \in DOMAIN deployments /\ deployments \in Seq(Records)
      BY <1>1, CurrentIsRecord DEF IInv, Kept
    <3>3. d.books = IF Create THEN Current.books \union {run.walk.book} ELSE Current.books
      BY <3>2 DEF Records
    <3>. HIDE DEF d
    <3>4. deployments' = [deployments EXCEPT ![n] = d]
      BY <3>1 DEF d
    <3>5. Len(deployments') = n /\ deployments'[n] = d
      BY <3>2, <3>4
    <3>6. Current' = d /\ deployments' # <<>>
      BY <1>1, <3>2, <3>5 DEF Current
    <3>. QED
      BY <3>3, <3>6
  <2>. QED
    BY <1>4, <2>1, <2>2
<1>6. Create => run.walk.mine # <<>>
  BY <1>1 DEF IInv, Frozen
<1>7. (~Create => run.mode = "write")' /\ Echoes'
  BY <1>1, <1>2, <1>3, <1>5, <1>6 DEF Reporting, Echoes
<1>8. Create /\ run.resigned = 0 => Current.books = {} /\ run.book = run.walk.book
  BY <1>1 DEF Reporting, FirstTime, Signing
<1>9. Create /\ run.resigned # 0 => run.book \in Current.books
  BY <1>1 DEF Reporting, SignedFor, Signing
<1>10. Create => \/ run.book \in Current'.books
                 \/ ~HandOver /\ run.resigned = 0 /\ Current'.books = {}
  <2>1. ASSUME Create, ~HandOver PROVE Current'.books = Current.books
    BY <1>4, <2>1 DEF Current
  <2>. QED
    BY <1>5, <1>8, <1>9, <2>1
<1>11. CASE Send \/ SignFails
  <2>1. stage' = "over" /\ (exit' = Refusal \/ ~Create)
    BY <1>11 DEF Send, SignFails, Ends
  <2>2. FirstTime' /\ SignedFor'
    BY <2>1 DEF FirstTime, SignedFor, Signing
  <2>3. Ended'
    BY <1>1, <1>2, <1>5, <1>7, <1>10, <2>1 DEF Ended, Refusal
  <2>. QED
    BY <1>7, <2>2, <2>3 DEF Reporting
<1>12. CASE Accepted
  <2>1. stage' = "polling" /\ exit' = exit /\ HandOver /\ Create
    BY <1>12 DEF Accepted
  <2>. QED
    BY <1>1, <1>2, <1>7, <1>10, <2>1 DEF Reporting, FirstTime, SignedFor, Ended, Signing, Codes
<1>13. CASE Answered4xx \/ NoAnswer
  <2>1. stage' = "over" /\ Create
    BY <1>13 DEF Answered4xx, NoAnswer, Ends
  <2>2. FirstTime' /\ SignedFor'
    BY <2>1 DEF FirstTime, SignedFor, Signing
  <2>3. Ended'
    BY <1>1, <1>2, <1>5, <1>10, <2>1 DEF Ended
  <2>. QED
    BY <1>7, <2>2, <2>3 DEF Reporting
<1>. QED
  BY <1>11, <1>12, <1>13

(* Before the build, and in the polls.                                     *)
LEMMA StartReports ==
  ASSUME IInv, Reporting, StartWrite \/ ReadFails \/ Build \/ RunAgain \/ Resume
  PROVE  Reporting'
<1>1. CASE StartWrite
  <2>1. ~Create /\ ~Create' /\ stage' = "walking" /\ run' = run /\ exit' = exit /\ stage = "ready"
    BY <1>1 DEF StartWrite, Create
  <2>. QED
    BY <2>1 DEF Reporting, Echoes, FirstTime, SignedFor, Ended, Signing
<1>2. CASE ReadFails
  <2>1. stage' = "over" /\ exit' \in {"error", "refused"} /\ UNCHANGED <<expect, run, deployments>>
    BY <1>2 DEF ReadFails, Ends
  <2>2. FirstTime' /\ SignedFor' /\ Ended'
    BY <2>1 DEF FirstTime, SignedFor, Ended, Signing
  <2>3. Echoes' /\ (~Create => run.mode = "write")'
    BY <2>1 DEF Reporting, Echoes, Create, Current
  <2>. QED
    BY <2>2, <2>3 DEF Reporting
<1>3. CASE Build
  <2>1. PICK echo \in {"absent", Books[Len(deployments) + 1]}, quote \in Quotes \union {NoQuote} :
          /\ expect' = [expect EXCEPT !.echo = echo, !.quote = quote]
          /\ deployments' = Append(deployments, NewDeployment)
          /\ IF quote = NoQuote THEN Ends("refused") ELSE stage' = "walking" /\ UNCHANGED exit
    BY <1>3 DEF Build
  <2>2. stage = "reading" /\ run' = run /\ deployments \in Seq(Records) /\ Create
        /\ exit \notin Codes
    BY <1>3 DEF Build, IInv, Stages, Kept
  <2>3. Create'
    BY <2>1, <2>2 DEF IInv, Asked, Create
  <2>4. run'.walk.mine = <<>> /\ run'.resigned = 0
    BY <2>2 DEF Reporting, FirstTime
  <2>5. deployments' # <<>> /\ Current' = NewDeployment
    BY <2>1, <2>2, NewIsRecord, AppendProperties DEF Current
  <2>6. Current'.books = {}
    BY <2>5 DEF NewDeployment
  <2>7. stage' \in {"walking", "over"} /\ exit' \notin {"ok", "timeout"}
    BY <2>1, <2>2 DEF Ends, Codes
  <2>. QED
    BY <2>3, <2>4, <2>6, <2>7 DEF Reporting, Echoes, FirstTime, SignedFor, Ended, Signing
<1>4. CASE RunAgain \/ Resume
  <2>1. PICK mode \in {"create", "resume"} :
          /\ run' = StartRun(mode) /\ stage' = IF mode = "create" THEN "reading" ELSE "polling"
          /\ exit' = "none" /\ Create /\ UNCHANGED <<expect, deployments>>
    BY <1>4 DEF RunAgain, Resume
  <2>2. run'.mode = mode /\ run'.resigned = 0 /\ run'.walk.mine = <<>>
    BY <2>1, StartShape
  <2>3. Create' /\ Current' = Current
    BY <2>1 DEF Create, Current
  <2>. QED
    BY <2>1, <2>2, <2>3 DEF Reporting, Echoes, FirstTime, SignedFor, Ended, Signing
<1>. QED
  BY <1>1, <1>2, <1>3, <1>4

LEMMA PollReports ==
  ASSUME IInv, Reporting,
         PollLive \/ PollDeadline \/ PollExpired \/ PollSignAgain \/ PollFails \/ Kill
  PROVE  Reporting'
<1>1. UNCHANGED <<expect, deployments>> /\ Create /\ Create' /\ Current' = Current
      /\ (stage = "polling" \/ Kill)
  BY DEF PollLive, PollDeadline, PollExpired, PollSignAgain, PollFails, Kill, Create, Current,
     IInv, Stages
<1>2. StartCreate.mine = <<>>
  BY DEF StartCreate
<1>3. CASE stage' = "over" /\ run' = run /\ stage = "polling"
  <2>1. deployments # <<>>
    BY <1>3 DEF IInv, Stages
  <2>. QED
    BY <1>1, <1>3, <2>1 DEF Reporting, Echoes, FirstTime, SignedFor, Ended, Signing
<1>4. CASE PollSignAgain /\ stage' # "over"
  <2>1. /\ run.mode # "resume" /\ stage' = "walking" /\ exit' = exit /\ stage = "polling"
        /\ run' = [run EXCEPT !.resigned = Resigned(run), !.walk = StartCreate,
                              !.presented = <<>>, !.verdict = "open"]
    BY <1>4 DEF PollSignAgain, Ends
  <2>2. /\ run'.mode = run.mode /\ run'.resigned = run.resigned + 1 /\ run'.book = run.book
        /\ run'.walk = StartCreate /\ run.resigned \in Nat
    BY <2>1, BoundsAssumption DEF IInv, RunShape, Resigned
  <2>3. exit' \notin Codes
    BY <2>1 DEF IInv, Stages
  <2>. QED
    BY <1>1, <1>2, <2>1, <2>2, <2>3
    DEF Reporting, Echoes, FirstTime, SignedFor, Ended, Signing, Codes
<1>5. CASE Kill
  <2>1. stage' = "over" /\ exit' = "killed" /\ run' = Dropped
    BY <1>5 DEF Kill, Ends
  <2>2. run'.walk = StartCreate
    BY <2>1 DEF Dropped, IInv, RunShape
  <2>. QED
    BY <1>1, <1>2, <2>1, <2>2 DEF Reporting, Echoes, FirstTime, SignedFor, Ended, Signing
<1>6. \/ Kill
      \/ PollSignAgain /\ stage' # "over"
      \/ stage' = "over" /\ run' = run /\ stage = "polling"
  BY DEF PollLive, PollDeadline, PollExpired, PollSignAgain, PollFails, Ends
<1>. QED
  BY <1>3, <1>4, <1>5, <1>6

(* The api and the chain sign nothing.                                     *)
LEMMA ChainReports ==
  ASSUME IInv, Reporting, NEW k \in DOMAIN deployments,
         Land(k) \/ Expire(k) \/ GiveUp(k) \/ KeeperCompletes(k)
  PROVE  Reporting'
<1>. DEFINE d == deployments[k]
            n == Len(deployments)
<1>1. deployments \in Seq(Records) /\ d \in Records /\ n \in DOMAIN deployments
      /\ deployments # <<>>
  BY DEF IInv, Kept
<1>2. UNCHANGED <<expect, stage, run, exit>>
  BY DEF Land, Expire, GiveUp, KeeperCompletes
<1>3. \E e : deployments' = [deployments EXCEPT ![k] = e] /\ e.books = d.books
  <2>1. CASE Land(k)
    <3>1. deployments' = [deployments EXCEPT ![k] = [d EXCEPT !.landed = @ + 1]]
      BY <1>1, <2>1 DEF Land
    <3>2. [d EXCEPT !.landed = @ + 1].books = d.books
      BY <1>1 DEF Records
    <3>. QED
      BY <3>1, <3>2
  <2>2. CASE Expire(k) \/ GiveUp(k)
    <3>1. PICK status : Stops(k, status)
      BY <2>2 DEF Expire, GiveUp
    <3>. DEFINE e == [d EXCEPT !.status = status,
                               !.handed = IF d.nonce THEN @ ELSE SubSeq(@, 1, d.landed)]
    <3>2. deployments' = [deployments EXCEPT ![k] = e]
      BY <1>1, <3>1 DEF Stops, Records
    <3>3. e.books = d.books
      BY <1>1 DEF Records
    <3>. HIDE DEF e
    <3>. QED
      BY <3>2, <3>3
  <2>3. CASE KeeperCompletes(k)
    <3>1. deployments' = [deployments EXCEPT ![k] = [d EXCEPT !.status = "live"]]
      BY <1>1, <2>3 DEF KeeperCompletes, Records
    <3>2. [d EXCEPT !.status = "live"].books = d.books
      BY <1>1 DEF Records
    <3>. QED
      BY <3>1, <3>2
  <2>. QED
    BY <2>1, <2>2, <2>3
<1>4. PICK e : deployments' = [deployments EXCEPT ![k] = e] /\ e.books = d.books
  BY <1>3
<1>5. Len(deployments') = n /\ deployments'[n].books = deployments[n].books
      /\ deployments' # <<>>
  BY <1>1, <1>4
<1>6. Current'.books = Current.books
  BY <1>5 DEF Current
<1>. QED
  BY <1>1, <1>2, <1>5, <1>6 DEF Reporting, Echoes, FirstTime, SignedFor, Ended, Signing, Create

(* The book a run reports is one the treasury signed for, and the only one *)
(* when the build named its book, over every re-sign, silence and crash    *)
(* (create_portfolio.mjs:588-597).                                         *)
THEOREM ReportsAreSigned == Spec => []ReportedIsSigned
<1>1. Init => Reporting
  <2>. SUFFICES ASSUME Init PROVE Reporting
    OBVIOUS
  <2>1. PICK i \in Intents : expect = i
    BY DEF Init
  <2>2. expect.echo = "absent"
    BY <2>1, IntentsAssumption
  <2>3. stage = "ready" /\ exit = "none" /\ run = StartRun(IF Create THEN "create" ELSE "write")
    BY DEF Init
  <2>4. ~Create => run.mode = "write"
    BY <2>3 DEF StartRun
  <2>. QED
    BY <2>2, <2>3, <2>4 DEF Reporting, Echoes, FirstTime, SignedFor, Ended, Signing
<1>2. IInv /\ Reporting /\ [Next]_vars => Reporting'
  <2>. SUFFICES ASSUME IInv, Reporting, [Next]_vars PROVE Reporting'
    OBVIOUS
  <2>1. CASE UNCHANGED vars
    BY <2>1 DEF vars, Reporting, Echoes, FirstTime, SignedFor, Ended, Signing, Create, Current
  <2>2. CASE Process
    BY <2>2, JudgeReports, ConcludeReports, SentReports, StartReports, PollReports DEF Process
  <2>3. CASE Elsewhere
    BY <2>3, StartReports, PollReports, ChainReports DEF Elsewhere
  <2>. QED
    BY <2>1, <2>2, <2>3 DEF Next
<1>3. Reporting => ReportedIsSigned
  <2>. SUFFICES ASSUME Reporting, run.mode = "create", exit \in {"ok", "timeout"},
                       Current.books # {}
                PROVE  /\ run.book \in Current.books
                       /\ expect.echo # "absent" => Current.books = {run.book}
    BY DEF ReportedIsSigned
  <2>1. Create /\ deployments # <<>> /\ run.book \in Current.books
    BY DEF Reporting, Ended
  <2>2. expect.echo # "absent" => Current.books \subseteq {expect.echo}
    BY <2>1 DEF Reporting, Echoes
  <2>. QED
    BY <2>1, <2>2
<1>. QED
  BY <1>1, <1>2, <1>3, SigningInvariant, PTL DEF Spec

(***************************************************************************)
(* The run implements Approved.  What Approved says of the log is said of  *)
(* any list of transactions first: it holds of a walk that came to its     *)
(* end, of what is handed over, and of every beginning of that, which is   *)
(* what the chain executes.                                                *)
(***************************************************************************)
SpotsIn(s) == UNION {{n} \X DOMAIN s[n].ixs : n \in DOMAIN s}
ItemAt(s, p) == s[p[1]].ixs[p[2]]
PlacesIn(s, op) == {p \in SpotsIn(s) : ItemAt(s, p).op = op}
Before(s, p, op) == {q \in PlacesIn(s, op) : q[1] < p[1]}
SpendIn(s) == PlacesIn(s, "create_portfolio") \union PlacesIn(s, "transfer")

SpendsAtMost(s, P, most) ==
  /\ \A p \in P : ItemAt(s, p).n <= most
  /\ \A p, q \in P : p # q => ItemAt(s, p).n + ItemAt(s, q).n <= most
ChargedWithin(s) == \A n \in DOMAIN s : Refinement!Charged(s[n]) <= expect.maxPriority
Approves(s) ==
  /\ s \in Seq(GoodTx) /\ IsFiniteSet(SpotsIn(s))
  /\ expect.verb \notin {"apply", "refreshNav"} =>
       Cardinality(PlacesIn(s, Refinement!Main[expect.verb])) <= 1
  /\ Cardinality(PlacesIn(s, "transfer")) <= 1
  /\ \A op \in {"apply_targets", "create_portfolio_page"} : \A p \in PlacesIn(s, op) :
       ItemAt(s, p).page = Cardinality(Before(s, p, op))
  /\ Create => SpendsAtMost(s, SpendIn(s), expect.maxLamports) /\ ChargedWithin(s)

(* The walk counts along: the pages in their order, the transfers, what    *)
(* the header and they cost.                                               *)
Numbered(s, pages, op) ==
  /\ pages \in Seq(Nat) /\ Len(pages) = Cardinality(PlacesIn(s, op))
  /\ \A p \in PlacesIn(s, op) :
       /\ Cardinality(Before(s, p, op)) + 1 \in DOMAIN pages
       /\ pages[Cardinality(Before(s, p, op)) + 1] = ItemAt(s, p).page
CreateCounts(w) ==
  /\ w.at = 0 => w.mine = <<>>
  /\ w.transfers \in Nat /\ w.outlay \in Nat /\ IsFiniteSet(SpotsIn(w.mine))
  /\ Cardinality(PlacesIn(w.mine, "create_portfolio")) <= 1
  /\ Cardinality(PlacesIn(w.mine, "transfer")) <= w.transfers /\ w.transfers <= 1
  /\ Numbered(w.mine, w.pages, "create_portfolio_page")
  /\ SpendsAtMost(w.mine, SpendIn(w.mine), w.outlay)
  /\ ChargedWithin(w.mine)
WriteCounts(w) ==
  /\ w.primaries \in Nat /\ IsFiniteSet(SpotsIn(w.mine))
  /\ expect.verb \notin {"apply", "refreshNav"} =>
       /\ Cardinality(PlacesIn(w.mine, Refinement!Main[expect.verb])) <= w.primaries
       /\ w.primaries <= 1
  /\ expect.verb = "apply" => Numbered(w.mine, w.pages, "apply_targets")

Counted(w) == (Create => CreateCounts(w)) /\ (~Create => WriteCounts(w))

(* What every deployment is one of, and what the log is: what has landed   *)
(* of the last.                                                            *)
AllIn(records, Ok) == \A k \in DOMAIN records : records[k].handed \in Ok
Beginnings(Ok) == <<>> \in Ok /\ \A s \in Ok : \A m \in 0 .. Len(s) : SubSeq(s, 1, m) \in Ok
Ledger(records, done) ==
  done = IF records = <<>> THEN <<>>
         ELSE SubSeq(records[Len(records)].handed, 1, records[Len(records)].landed)

Approvable == {s \in Seq(GoodTx) : Approves(s)}
Promised ==
  /\ Counted(run.walk)
  /\ stage = "signed" => Whole
  /\ AllIn(deployments, Approvable) /\ Ledger(deployments, log)

(* What the offers are made of.                                            *)
LEMMA MineHasNumbers ==
  ASSUME Asked, NEW tx \in Mine
  PROVE  /\ Len(tx.ixs) \in Nat /\ DOMAIN tx.ixs = 1 .. Len(tx.ixs)
         /\ \A i \in DOMAIN tx.ixs : tx.ixs[i].n \in Nat /\ tx.ixs[i].page \in Nat
         /\ \A op : IsFiniteSet(Holding(tx, op)) /\ Cardinality(Holding(tx, op)) \in Nat
                    /\ CountOf(tx, op) = Cardinality(Holding(tx, op))
<1>1. /\ Len(tx.ixs) \in Nat /\ DOMAIN tx.ixs = 1 .. Len(tx.ixs)
      /\ \A i \in DOMAIN tx.ixs : tx.ixs[i].n \in Nat /\ tx.ixs[i].page \in Nat
  BY OffersAssumption DEF Mine, Asked
<1>2. IsFiniteSet(DOMAIN tx.ixs)
  BY <1>1, FS_Interval
<1>. SUFFICES ASSUME NEW op
              PROVE  /\ IsFiniteSet(Holding(tx, op)) /\ Cardinality(Holding(tx, op)) \in Nat
                     /\ CountOf(tx, op) = Cardinality(Holding(tx, op))
  BY <1>1
<1>3. Holding(tx, op) \in SUBSET DOMAIN tx.ixs
  BY DEF Holding
<1>. QED
  BY <1>2, <1>3, FS_Subset, FS_CardinalityType DEF Holding, CountOf

LEMMA OnlyOne ==
  ASSUME Asked, NEW tx \in Mine, NEW op, CountOf(tx, op) = 1
  PROVE  \E j \in DOMAIN tx.ixs : Holding(tx, op) = {j} /\ Only(tx, op) = tx.ixs[j]
<1>1. IsFiniteSet(Holding(tx, op)) /\ Cardinality(Holding(tx, op)) = 1
  BY MineHasNumbers
<1>2. PICK j : Holding(tx, op) = {j}
  BY <1>1, FS_Singleton
<1>3. j \in DOMAIN tx.ixs /\ \A i \in DOMAIN tx.ixs : tx.ixs[i].op = op <=> i = j
  BY <1>2 DEF Holding
<1>4. Only(tx, op) = tx.ixs[j]
  BY <1>3 DEF Only
<1>. QED
  BY <1>2, <1>3, <1>4

LEMMA NoneOf ==
  ASSUME Asked, NEW tx \in Mine, NEW op, CountOf(tx, op) = 0
  PROVE  Holding(tx, op) = {}
BY MineHasNumbers, FS_EmptySet

(* A list that one transaction is added to.                                *)
LEMMA Grown ==
  ASSUME Asked, NEW s \in Seq(Mine), NEW tx \in Mine, IsFiniteSet(SpotsIn(s))
  PROVE  /\ IsFiniteSet(SpotsIn(Append(s, tx))) /\ Len(s) \in Nat
         /\ \A p \in SpotsIn(s) : p[1] \in 1 .. Len(s) /\ ItemAt(Append(s, tx), p) = ItemAt(s, p)
         /\ \A i \in DOMAIN tx.ixs : ItemAt(Append(s, tx), <<Len(s) + 1, i>>) = tx.ixs[i]
         /\ \A op : PlacesIn(Append(s, tx), op)
                      = PlacesIn(s, op) \union ({Len(s) + 1} \X Holding(tx, op))
<1>. DEFINE t == Append(s, tx)
<1>1. /\ DOMAIN t = DOMAIN s \union {Len(s) + 1} /\ DOMAIN s = 1 .. Len(s) /\ Len(s) \in Nat
      /\ \A n \in DOMAIN s : t[n] = s[n]
      /\ t[Len(s) + 1] = tx /\ Len(s) + 1 \notin DOMAIN s
  BY AppendProperties
<1>. HIDE DEF t
<1>2. SpotsIn(t) = SpotsIn(s) \union ({Len(s) + 1} \X DOMAIN tx.ixs)
  BY <1>1 DEF SpotsIn
<1>3. IsFiniteSet({Len(s) + 1} \X DOMAIN tx.ixs)
  <2>1. Len(tx.ixs) \in Nat /\ DOMAIN tx.ixs = 1 .. Len(tx.ixs)
    BY MineHasNumbers
  <2>2. IsFiniteSet(1 .. Len(tx.ixs))
    BY <2>1, FS_Interval
  <2>3. IsFiniteSet({Len(s) + 1}) /\ IsFiniteSet(DOMAIN tx.ixs)
    BY <2>1, <2>2, FS_Singleton
  <2>. QED
    BY <2>3, FS_Product
<1>4. \A p \in SpotsIn(s) : p[1] \in DOMAIN s /\ ItemAt(t, p) = ItemAt(s, p)
  BY <1>1 DEF SpotsIn, ItemAt
<1>5. \A i \in DOMAIN tx.ixs : ItemAt(t, <<Len(s) + 1, i>>) = tx.ixs[i]
  BY <1>1 DEF ItemAt
<1>6. ASSUME NEW op
      PROVE  PlacesIn(t, op) = PlacesIn(s, op) \union ({Len(s) + 1} \X Holding(tx, op))
  <2>1. ASSUME NEW p \in SpotsIn(s)
        PROVE  p \in PlacesIn(t, op) <=> p \in PlacesIn(s, op) \union ({Len(s) + 1} \X Holding(tx, op))
    <3>1. p \notin {Len(s) + 1} \X Holding(tx, op)
      BY <1>1, <1>4
    <3>. QED
      BY <1>2, <1>4, <3>1 DEF PlacesIn
  <2>2. ASSUME NEW p \in {Len(s) + 1} \X DOMAIN tx.ixs
        PROVE  p \in PlacesIn(t, op) <=> p \in PlacesIn(s, op) \union ({Len(s) + 1} \X Holding(tx, op))
    <3>1. PICK i \in DOMAIN tx.ixs : p = <<Len(s) + 1, i>>
      OBVIOUS
    <3>2. p \notin SpotsIn(s)
      BY <1>1, <1>4, <3>1
    <3>. QED
      BY <1>2, <1>5, <3>1, <3>2 DEF PlacesIn, Holding
  <2>3. PlacesIn(t, op) \subseteq SpotsIn(t) /\ PlacesIn(s, op) \subseteq SpotsIn(s)
        /\ {Len(s) + 1} \X Holding(tx, op) \subseteq {Len(s) + 1} \X DOMAIN tx.ixs
    BY DEF PlacesIn, Holding
  <2>. QED
    BY <1>2, <2>1, <2>2, <2>3
<1>7. IsFiniteSet(SpotsIn(s) \union ({Len(s) + 1} \X DOMAIN tx.ixs))
  BY <1>3, FS_Union
<1>8. \A p \in SpotsIn(s) : p[1] \in 1 .. Len(s) /\ ItemAt(t, p) = ItemAt(s, p)
  BY <1>1, <1>4
<1>. QED
  BY <1>1, <1>2, <1>5, <1>6, <1>7, <1>8 DEF t

LEMMA PlacesAreFinite ==
  ASSUME NEW s, IsFiniteSet(SpotsIn(s)), NEW op
  PROVE  /\ IsFiniteSet(PlacesIn(s, op)) /\ Cardinality(PlacesIn(s, op)) \in Nat
         /\ PlacesIn(s, op) \subseteq SpotsIn(s)
<1>1. PlacesIn(s, op) \in SUBSET SpotsIn(s)
  BY DEF PlacesIn
<1>. QED
  BY <1>1, FS_Subset, FS_CardinalityType

LEMMA CountGrows ==
  ASSUME Asked, NEW s \in Seq(Mine), NEW tx \in Mine, IsFiniteSet(SpotsIn(s)), NEW op
  PROVE  Cardinality(PlacesIn(Append(s, tx), op)) = Cardinality(PlacesIn(s, op)) + CountOf(tx, op)
<1>. DEFINE New == {Len(s) + 1} \X Holding(tx, op)
            Old == PlacesIn(s, op)
<1>1. PlacesIn(Append(s, tx), op) = Old \union New
  BY Grown
<1>2. Old \intersect New = {}
  <2>1. \A p \in Old : p[1] \in 1 .. Len(s)
    BY Grown, PlacesAreFinite
  <2>2. \A p \in New : p[1] = Len(s) + 1
    OBVIOUS
  <2>. QED
    BY <2>1, <2>2
<1>3. IsFiniteSet(New) /\ Cardinality(New) = CountOf(tx, op)
  <2>1. IsFiniteSet({Len(s) + 1}) /\ Cardinality({Len(s) + 1}) = 1
    BY FS_Singleton
  <2>2. IsFiniteSet(Holding(tx, op)) /\ CountOf(tx, op) = Cardinality(Holding(tx, op))
        /\ Cardinality(Holding(tx, op)) \in Nat
    BY MineHasNumbers
  <2>3. IsFiniteSet(New) /\ Cardinality(New) = Cardinality({Len(s) + 1}) * Cardinality(Holding(tx, op))
    BY <2>1, <2>2, FS_Product
  <2>. QED
    BY <2>1, <2>2, <2>3
<1>. HIDE DEF New, Old
<1>4. IsFiniteSet(Old) /\ Cardinality(Old) \in Nat
  BY PlacesAreFinite DEF Old
<1>5. Cardinality(Old \union New) = Cardinality(Old) + Cardinality(New) - Cardinality(Old \intersect New)
  BY <1>3, <1>4, FS_Union
<1>6. Cardinality(Old \intersect New) = 0 /\ CountOf(tx, op) \in Nat
  BY <1>2, FS_EmptySet, MineHasNumbers
<1>. QED
  BY <1>1, <1>3, <1>4, <1>5, <1>6 DEF Old

(* The pages read stay in step with the pages there are.                   *)
LEMMA NumberedOn ==
  ASSUME Asked, NEW s \in Seq(Mine), NEW tx \in Mine, IsFiniteSet(SpotsIn(s)), NEW pages, NEW op,
         Numbered(s, pages, op)
  PROVE  /\ CountOf(tx, op) = 0 => Numbered(Append(s, tx), pages, op)
         /\ \A j \in DOMAIN tx.ixs : Holding(tx, op) = {j} =>
              Numbered(Append(s, tx), Append(pages, tx.ixs[j].page), op)
<1>. DEFINE t == Append(s, tx)
            k == Cardinality(PlacesIn(s, op))
<1>1. /\ \A p \in SpotsIn(s) : p[1] \in 1 .. Len(s) /\ ItemAt(t, p) = ItemAt(s, p)
      /\ \A i \in DOMAIN tx.ixs : ItemAt(t, <<Len(s) + 1, i>>) = tx.ixs[i]
      /\ PlacesIn(t, op) = PlacesIn(s, op) \union ({Len(s) + 1} \X Holding(tx, op))
  BY Grown
<1>2. Len(s) \in Nat /\ k \in Nat /\ PlacesIn(s, op) \subseteq SpotsIn(s)
  BY PlacesAreFinite
<1>3. Cardinality(PlacesIn(t, op)) = k + CountOf(tx, op)
  BY CountGrows
<1>. HIDE DEF t, k
<1>4. ASSUME NEW p \in PlacesIn(s, op) PROVE Before(t, p, op) = Before(s, p, op)
  <2>1. p[1] \in 1 .. Len(s)
    BY <1>1, <1>2
  <2>2. \A q \in {Len(s) + 1} \X Holding(tx, op) : ~(q[1] < p[1])
    BY <1>2, <2>1
  <2>. QED
    BY <1>1, <2>2 DEF Before
<1>5. ASSUME CountOf(tx, op) = 0 PROVE Numbered(t, pages, op)
  <2>1. PlacesIn(t, op) = PlacesIn(s, op)
    BY <1>1, <1>5, NoneOf
  <2>2. \A p \in PlacesIn(s, op) : ItemAt(t, p) = ItemAt(s, p)
    BY <1>1, <1>2
  <2>. QED
    BY <1>4, <2>1, <2>2 DEF Numbered
<1>6. ASSUME NEW j \in DOMAIN tx.ixs, Holding(tx, op) = {j}
      PROVE  Numbered(t, Append(pages, tx.ixs[j].page), op)
  <2>. DEFINE more == Append(pages, tx.ixs[j].page)
              new == <<Len(s) + 1, j>>
  <2>1. CountOf(tx, op) = 1
    BY <1>6, MineHasNumbers, FS_Singleton
  <2>2. pages \in Seq(Nat) /\ Len(pages) = k /\ tx.ixs[j].page \in Nat
    BY MineHasNumbers DEF Numbered, k
  <2>3. /\ more \in Seq(Nat) /\ Len(more) = k + 1 /\ DOMAIN more = 1 .. k + 1
        /\ DOMAIN pages = 1 .. k
        /\ \A i \in 1 .. k : more[i] = pages[i]
        /\ more[k + 1] = tx.ixs[j].page
    BY <1>2, <2>2, AppendProperties
  <2>4. PlacesIn(t, op) = PlacesIn(s, op) \union {new}
    BY <1>1, <1>6
  <2>5. Before(t, new, op) = PlacesIn(s, op)
    <3>1. \A q \in PlacesIn(s, op) : q[1] < new[1]
      BY <1>1, <1>2
    <3>2. ~(new[1] < new[1])
      BY <1>2
    <3>. QED
      BY <2>4, <3>1, <3>2 DEF Before
  <2>6. ItemAt(t, new) = tx.ixs[j]
    BY <1>1
  <2>. HIDE DEF more, new
  <2>7. ASSUME NEW p \in PlacesIn(t, op)
        PROVE  /\ Cardinality(Before(t, p, op)) + 1 \in DOMAIN more
               /\ more[Cardinality(Before(t, p, op)) + 1] = ItemAt(t, p).page
    <3>1. CASE p = new
      BY <1>2, <2>3, <2>5, <2>6, <3>1 DEF k
    <3>2. CASE p \in PlacesIn(s, op)
      <4>1. /\ Cardinality(Before(s, p, op)) + 1 \in DOMAIN pages
            /\ pages[Cardinality(Before(s, p, op)) + 1] = ItemAt(s, p).page
        BY <3>2 DEF Numbered
      <4>2. Before(t, p, op) = Before(s, p, op) /\ ItemAt(t, p) = ItemAt(s, p)
        BY <1>1, <1>2, <1>4, <3>2
      <4>. QED
        BY <1>2, <2>3, <4>1, <4>2
    <3>. QED
      BY <2>4, <2>7, <3>1, <3>2
  <2>8. Len(more) = Cardinality(PlacesIn(t, op))
    BY <1>3, <2>1, <2>3
  <2>. QED
    BY <2>3, <2>7, <2>8 DEF Numbered, more
<1>. QED
  BY <1>5, <1>6 DEF t

(* What an instruction says it spends is a natural number.                 *)
LEMMA SpentIsNat ==
  ASSUME Asked, NEW s \in Seq(Mine), NEW p \in SpendIn(s)
  PROVE  ItemAt(s, p).n \in Nat /\ p \in SpotsIn(s)
<1>1. p \in SpotsIn(s)
  BY DEF SpendIn, PlacesIn
<1>2. PICK n \in DOMAIN s : p \in {n} \X DOMAIN s[n].ixs
  BY <1>1 DEF SpotsIn
<1>3. s[n] \in Mine /\ p[1] = n /\ p[2] \in DOMAIN s[n].ixs
  BY <1>2
<1>. QED
  BY <1>1, <1>3, MineHasNumbers DEF ItemAt

(* What is spent, when a transaction adds the places N and the sum inc.    *)
LEMMA SpendsOn ==
  ASSUME Asked, NEW s \in Seq(Mine), NEW tx \in Mine, IsFiniteSet(SpotsIn(s)),
         NEW most \in Nat, NEW inc \in Nat, SpendsAtMost(s, SpendIn(s), most),
         SpendsAtMost(Append(s, tx),
                      {Len(s) + 1} \X (Holding(tx, "create_portfolio") \union Holding(tx, "transfer")), inc)
  PROVE  SpendsAtMost(Append(s, tx), SpendIn(Append(s, tx)), most + inc)
<1>. DEFINE t == Append(s, tx)
            Ops == Holding(tx, "create_portfolio") \union Holding(tx, "transfer")
            New == {Len(s) + 1} \X Ops
            Old == SpendIn(s)
<1>1. /\ \A p \in SpotsIn(s) : p[1] \in 1 .. Len(s) /\ ItemAt(t, p) = ItemAt(s, p)
      /\ \A i \in DOMAIN tx.ixs : ItemAt(t, <<Len(s) + 1, i>>) = tx.ixs[i]
      /\ \A op : PlacesIn(t, op) = PlacesIn(s, op) \union ({Len(s) + 1} \X Holding(tx, op))
  BY Grown
<1>2. SpendIn(t) = Old \union New
  BY <1>1 DEF SpendIn
<1>4. \A p \in Old : ItemAt(t, p) = ItemAt(s, p) /\ ItemAt(s, p).n \in Nat
  BY <1>1, SpentIsNat
<1>5. \A p \in New : ItemAt(t, p).n \in Nat
  <2>1. Ops \subseteq DOMAIN tx.ixs
    BY DEF Holding
  <2>2. \A p \in New : \E i \in DOMAIN tx.ixs : p = <<Len(s) + 1, i>>
    BY <2>1
  <2>. QED
    BY <1>1, <2>2, MineHasNumbers
<1>. HIDE DEF t, New, Old
<1>6. SpendsAtMost(s, Old, most) /\ SpendsAtMost(t, New, inc)
  BY DEF t, Old, New
<1>7. \A p \in Old : ItemAt(t, p).n <= most
  BY <1>4, <1>6 DEF SpendsAtMost
<1>8. \A p \in New : ItemAt(t, p).n <= inc
  BY <1>6 DEF SpendsAtMost
<1>9. \A p, q \in Old : p # q => ItemAt(t, p).n + ItemAt(t, q).n <= most
  BY <1>4, <1>6 DEF SpendsAtMost
<1>10. \A p, q \in New : p # q => ItemAt(t, p).n + ItemAt(t, q).n <= inc
  BY <1>6 DEF SpendsAtMost
<1>11. ASSUME NEW p \in Old \union New PROVE ItemAt(t, p).n <= most + inc /\ ItemAt(t, p).n \in Nat
  BY <1>4, <1>5, <1>7, <1>8
<1>12. ASSUME NEW p \in Old \union New, NEW q \in Old \union New, p # q
       PROVE  ItemAt(t, p).n + ItemAt(t, q).n <= most + inc
  <2>1. ItemAt(t, p).n \in Nat /\ ItemAt(t, q).n \in Nat
    BY <1>11
  <2>2. CASE p \in Old /\ q \in Old
    BY <1>9, <1>12, <2>1, <2>2
  <2>3. CASE p \in New /\ q \in New
    BY <1>10, <1>12, <2>1, <2>3
  <2>4. CASE p \in Old /\ q \in New
    BY <1>7, <1>8, <2>1, <2>4
  <2>5. CASE p \in New /\ q \in Old
    BY <1>7, <1>8, <2>1, <2>5
  <2>. QED
    BY <2>2, <2>3, <2>4, <2>5
<1>. QED
  BY <1>2, <1>11, <1>12 DEF SpendsAtMost, t

(***************************************************************************)
(* Priority fees: the decoder's estimate is never below what the runtime   *)
(* charges, whichever of two limits counts and whatever units it assumes.  *)
(***************************************************************************)
LEMMA LeastOf ==
  ASSUME NEW T \in SUBSET Nat, T # {}
  PROVE  \E x \in T : \A y \in T : x <= y
<1>. DEFINE R == OpToRel(<, Nat)
<1>1. IsWellFoundedOn(R, Nat) /\ \A x, y \in Nat : y < x => <<y, x>> \in R
  BY NatLessThanWellFounded DEF OpToRel
<1>. HIDE DEF R
<1>2. PICK x \in T : \A y \in T : ~ (<<y, x>> \in R)
  BY <1>1, WFMin
<1>3. \A y \in T : ~ (y < x)
  BY <1>1, <1>2
<1>. QED
  BY <1>3

LEMMA LargestOf ==
  ASSUME NEW n \in Nat, NEW f, \A i \in 1 .. n : f[i] \in Nat,
         NEW S \in SUBSET ({0} \union {f[i] : i \in 1 .. n}), S # {}
  PROVE  \E m \in S : \A x \in S : x <= m
<1>. DEFINE Bounds(k) == {b \in Nat : \A i \in 1 .. k : f[i] <= b}
            Bad == {k \in 0 .. n : Bounds(k) = {}}
            Upper == {b \in Nat : \A x \in S : x <= b}
<1>1. Bad = {}
  <2>. SUFFICES ASSUME Bad # {} PROVE FALSE
    OBVIOUS
  <2>1. PICK k \in Bad : \A y \in Bad : k <= y
    <3>. HIDE DEF Bad
    <3>1. Bad \in SUBSET Nat
      BY DEF Bad
    <3>. QED
      BY <3>1, LeastOf
  <2>2. k # 0
    <3>1. 0 \in Bounds(0)
      OBVIOUS
    <3>. QED
      BY <3>1
  <2>3. PICK b \in Nat : \A i \in 1 .. k - 1 : f[i] <= b
    <3>1. k - 1 \in 0 .. n /\ ~(k <= k - 1)
      BY <2>2
    <3>2. k - 1 \notin Bad
      BY <2>1, <3>1
    <3>. QED
      BY <3>1, <3>2
  <2>4. f[k] \in Nat /\ k \in 1 .. n
    BY <2>2
  <2>5. b + f[k] \in Bounds(k)
    <3>1. b + f[k] \in Nat /\ b <= b + f[k] /\ f[k] <= b + f[k]
      BY <2>4
    <3>2. ASSUME NEW i \in 1 .. k PROVE f[i] <= b + f[k]
      <4>1. i = k \/ i \in 1 .. k - 1
        BY <2>4
      <4>2. CASE i = k
        BY <3>1, <4>2
      <4>3. CASE i \in 1 .. k - 1
        <5>1. f[i] <= b /\ f[i] \in Nat
          BY <2>3, <2>4, <4>3
        <5>. QED
          BY <3>1, <5>1
      <4>. QED
        BY <4>1, <4>2, <4>3
    <3>. QED
      BY <3>1, <3>2
  <2>. QED
    BY <2>5
<1>2. PICK b \in Nat : \A i \in 1 .. n : f[i] <= b
  <2>1. n \in 0 .. n /\ n \notin Bad
    BY <1>1
  <2>. QED
    BY <2>1
<1>3. S \in SUBSET Nat /\ b \in Upper
  BY <1>2
<1>4. PICK u \in Upper : \A y \in Upper : u <= y
  <2>. HIDE DEF Upper
  <2>1. Upper \in SUBSET Nat /\ Upper # {}
    BY <1>3 DEF Upper
  <2>. QED
    BY <2>1, LeastOf
<1>5. ASSUME u \notin S PROVE FALSE
  <2>1. PICK x \in S : x <= u /\ x # u
    BY <1>3, <1>5
  <2>2. u - 1 \in Upper
    BY <1>3, <1>5, <2>1
  <2>. QED
    BY <1>4, <2>2
<1>. QED
  BY <1>3, <1>5

LEMMA TimesUp == \A a, b, k \in Nat : a <= b => a * k <= b * k
BY Z3

LEMMA DividesUp ==
  ASSUME NEW a \in Nat, NEW b \in Nat, NEW c \in Nat \ {0}, a <= b
  PROVE  a \div c <= b \div c /\ a \div c \in Int /\ b \div c \in Int
<1>1. /\ a = c * (a \div c) + (a % c) /\ a % c \in 0 .. c - 1 /\ a \div c \in Int
      /\ b = c * (b \div c) + (b % c) /\ b % c \in 0 .. c - 1 /\ b \div c \in Int
  OBVIOUS
<1>2. ASSUME NEW x \in Int, NEW y \in Int, NEW r \in 0 .. c - 1, NEW q \in 0 .. c - 1,
             c * x + r <= c * y + q
      PROVE  x <= y
  BY <1>2, Z3
<1>. QED
  BY <1>1, <1>2

LEMMA ChargesNoMore ==
  ASSUME Asked, NEW tx \in Mine
  PROVE  /\ Refinement!Charged(tx) <= PriorityFee(tx)
         /\ Refinement!Charged(tx) \in Int /\ PriorityFee(tx) \in Int
<1>. DEFINE limits == Holding(tx, "set_limit")
            sizes == Values(tx, "set_limit")
            prices == {0} \union Values(tx, "set_price")
            n == Len(tx.ixs)
            f == [i \in 1 .. n |-> tx.ixs[i].n]
            units == Refinement!Units(tx)
            guess == IF sizes = {} THEN ComputeCap ELSE Least(Largest(sizes), ComputeCap)
            price == Refinement!Price(tx)
            top == Largest(prices)
<1>1. n \in Nat /\ DOMAIN tx.ixs = 1 .. n /\ \A i \in 1 .. n : f[i] \in Nat /\ f[i] = tx.ixs[i].n
  BY MineHasNumbers
<1>2. /\ sizes = {f[i] : i \in limits} /\ limits \subseteq 1 .. n
      /\ prices \subseteq {0} \union {f[i] : i \in 1 .. n} /\ 0 \in prices
      /\ sizes \subseteq {0} \union {f[i] : i \in 1 .. n}
  BY <1>1 DEF Values, Holding
<1>. HIDE DEF f, n
<1>3. top \in prices /\ top \in Nat /\ \A x \in prices : x <= top
  <2>1. PICK m \in prices : \A x \in prices : x <= m
    <3>1. prices \in SUBSET ({0} \union {f[i] : i \in 1 .. n}) /\ prices # {}
      BY <1>2
    <3>2. n \in Nat /\ \A i \in 1 .. n : f[i] \in Nat
      BY <1>1
    <3>. HIDE DEF prices
    <3>. QED
      BY <3>1, <3>2, LargestOf
  <2>2. top \in prices /\ \A x \in prices : x <= top
    <3>. HIDE DEF prices
    <3>. QED
      BY <2>1 DEF Largest
  <2>3. \A x \in prices : x \in Nat
    BY <1>1, <1>2
  <2>. HIDE DEF prices, top
  <2>. QED
    BY <2>2, <2>3
<1>3a. ASSUME sizes # {} PROVE \E m \in sizes : \A x \in sizes : x <= m
  <2>1. sizes \in SUBSET ({0} \union {f[i] : i \in 1 .. n})
    BY <1>2
  <2>2. n \in Nat /\ \A i \in 1 .. n : f[i] \in Nat
    BY <1>1
  <2>. HIDE DEF sizes
  <2>. QED
    BY <1>3a, <2>1, <2>2, LargestOf
<1>4. price \in Nat /\ price <= top
  <2>1. price = CHOOSE x \in prices : \A y \in prices : x >= y
    BY DEF Refinement!Price, Refinement!Max, Values
  <2>2. \A y \in prices : y \in Nat
    BY <1>1, <1>2
  <2>3. price \in prices
    <3>1. \A y \in prices : top >= y
      BY <1>3, <2>2
    <3>. QED
      BY <1>3, <2>1, <3>1
  <2>. QED
    BY <1>3, <2>2, <2>3
<1>5. units \in Nat /\ guess \in Nat /\ units <= guess
  <2>1. ASSUME NEW a \in Nat
        PROVE  Refinement!Min({a, ComputeCap}) = Least(a, ComputeCap)
               /\ Least(a, ComputeCap) \in Nat /\ Least(a, ComputeCap) <= ComputeCap
    <3>1. ComputeCap \in Nat
      BY SizesAssumption
    <3>. QED
      BY <3>1 DEF Refinement!Min, Least
  <2>2. CASE limits = {}
    <3>1. sizes = {} /\ n * DefaultUnits \in Nat
      BY <1>1, <1>2, <2>2, BoundsAssumption
    <3>2. units = Refinement!Min({n * DefaultUnits, ComputeCap})
      BY <2>2 DEF Refinement!Units, Holding, n
    <3>. QED
      BY <2>1, <3>1, <3>2, SizesAssumption
  <2>3. CASE limits # {}
    <3>. DEFINE k == Refinement!Max(limits)
                big == Largest(sizes)
    <3>1. k \in limits
      <4>1. PICK m \in limits : \A x \in limits : x <= m
        <5>. DEFINE g == [i \in 1 .. n |-> i]
        <5>1. \A i \in 1 .. n : g[i] \in Nat
          BY <1>1
        <5>2. limits \subseteq {0} \union {g[i] : i \in 1 .. n}
          BY <1>2
        <5>. HIDE DEF g, limits
        <5>. QED
          BY <1>1, <2>3, <5>1, <5>2, LargestOf
      <4>2. \A x \in limits : x \in Nat
        BY <1>1, <1>2
      <4>3. \A x \in limits : m >= x
        BY <4>1, <4>2
      <4>. HIDE DEF limits
      <4>. QED
        BY <4>1, <4>3 DEF Refinement!Max
    <3>2. units = Refinement!Min({f[k], ComputeCap})
      <4>1. units = Refinement!Min({tx.ixs[k].n, ComputeCap})
        BY <2>3 DEF Refinement!Units, Holding
      <4>2. k \in 1 .. n
        BY <1>2, <3>1
      <4>. QED
        BY <1>1, <4>1, <4>2
    <3>3. sizes # {} /\ f[k] \in sizes /\ f[k] \in Nat
      BY <1>1, <1>2, <3>1
    <3>4. big \in sizes /\ \A x \in sizes : x <= big
      <4>. HIDE DEF sizes
      <4>. QED
        BY <1>3a, <3>3 DEF Largest
    <3>5. big \in Nat
      BY <1>1, <1>2, <3>4
    <3>6. guess = Least(big, ComputeCap)
      BY <3>3
    <3>. HIDE DEF k, big, sizes, limits, units, guess
    <3>7. units = Least(f[k], ComputeCap) /\ Least(f[k], ComputeCap) \in Nat
          /\ Least(big, ComputeCap) \in Nat
      BY <2>1, <3>2, <3>3, <3>5
    <3>8. Least(f[k], ComputeCap) <= Least(big, ComputeCap)
      BY <3>3, <3>4, <3>5, SizesAssumption DEF Least
    <3>. QED
      BY <3>6, <3>7, <3>8
  <2>. QED
    BY <2>2, <2>3
<1>6. /\ Refinement!Charged(tx) = (units * price + MicroLamports - 1) \div MicroLamports
      /\ PriorityFee(tx) = (guess * top + MicroLamports - 1) \div MicroLamports
  BY DEF Refinement!Charged, PriorityFee
<1>. HIDE DEF units, price, guess, top
<1>7. units * price <= guess * top /\ units * price \in Nat /\ guess * top \in Nat
  <2>1. units * price <= guess * price
    BY <1>4, <1>5, TimesUp
  <2>2. price * guess <= top * guess
    BY <1>3, <1>4, <1>5, TimesUp
  <2>3. price * guess = guess * price /\ top * guess = guess * top
        /\ units * price \in Nat /\ guess * top \in Nat /\ guess * price \in Nat
    BY <1>3, <1>4, <1>5, Z3
  <2>. QED
    BY <2>1, <2>2, <2>3
<1>8. MicroLamports \in Nat \ {0}
  BY SizesAssumption
<1>9. /\ units * price + MicroLamports - 1 \in Nat /\ guess * top + MicroLamports - 1 \in Nat
      /\ units * price + MicroLamports - 1 <= guess * top + MicroLamports - 1
  <2>. DEFINE x == units * price
              y == guess * top
  <2>. HIDE DEF x, y
  <2>1. x \in Nat /\ y \in Nat /\ x <= y
    BY <1>7 DEF x, y
  <2>2. x + MicroLamports - 1 \in Nat /\ y + MicroLamports - 1 \in Nat
        /\ x + MicroLamports - 1 <= y + MicroLamports - 1
    BY <1>8, <2>1
  <2>. QED
    BY <2>2 DEF x, y
<1>10. /\ (units * price + MicroLamports - 1) \div MicroLamports
            <= (guess * top + MicroLamports - 1) \div MicroLamports
       /\ (units * price + MicroLamports - 1) \div MicroLamports \in Int
       /\ (guess * top + MicroLamports - 1) \div MicroLamports \in Int
  BY <1>8, <1>9, DividesUp
<1>. QED
  BY <1>6, <1>10

(***************************************************************************)
(* The walk keeps its counts.                                              *)
(***************************************************************************)
LEMMA CreatorFields ==
  ASSUME NEW tx, NEW fresh, NEW w, CreateWalk(w), tx.step \in CreatorSteps
  PROVE  LET a == AfterCreate(w, tx, fresh)
         IN  /\ a.at = w.at + 1 /\ a.mine = Append(w.mine, tx)
             /\ a.transfers = w.transfers + Transfers(tx)
             /\ a.pages = IF tx.step = "create_portfolio_page"
                          THEN Append(w.pages, Only(tx, "create_portfolio_page").page) ELSE w.pages
             /\ a.outlay = (IF tx.step = "create_portfolio"
                            THEN w.outlay + Only(tx, "create_portfolio").n ELSE w.outlay)
                           + (IF Transfers(tx) > 0 THEN Only(tx, "transfer").n ELSE 0)
<1>. DEFINE c == Carried(w, tx, fresh)
            a == AfterCreate(w, tx, fresh)
<1>1. /\ c = [at |-> c.at, keeper |-> c.keeper, funded |-> c.funded, book |-> c.book, legs |-> c.legs,
              pages |-> c.pages, totals |-> c.totals, transfers |-> c.transfers,
              outlay |-> c.outlay, mine |-> c.mine]
      /\ c.at = w.at /\ c.mine = w.mine /\ c.transfers = w.transfers
      /\ c.pages = IF tx.step = "create_portfolio_page"
                   THEN Append(w.pages, Only(tx, "create_portfolio_page").page) ELSE w.pages
      /\ c.outlay = IF tx.step = "create_portfolio"
                    THEN w.outlay + Only(tx, "create_portfolio").n ELSE w.outlay
  <2>1. CASE tx.step = "create_portfolio"
    BY <2>1 DEF Carried, CreateWalk
  <2>2. CASE tx.step = "create_portfolio_page"
    BY <2>2 DEF Carried, CreateWalk
  <2>3. CASE tx.step \notin {"create_portfolio", "create_portfolio_page"}
    BY <2>3 DEF Carried, CreateWalk
  <2>. QED
    BY <2>1, <2>2, <2>3
<1>. HIDE DEF c
<1>2. tx.step \notin KeeperSteps
  BY DEF CreatorSteps, KeeperSteps
<1>3. a = [c EXCEPT !.at = @ + 1, !.funded = @ \/ tx.step = "fund_operator",
                    !.transfers = @ + Transfers(tx),
                    !.outlay = @ + (IF Transfers(tx) > 0 THEN Only(tx, "transfer").n ELSE 0),
                    !.mine = Append(@, tx)]
  BY <1>2 DEF AfterCreate, c
<1>. HIDE DEF a
<1>4. /\ a.at = w.at + 1 /\ a.mine = Append(w.mine, tx)
      /\ a.transfers = w.transfers + Transfers(tx) /\ a.pages = c.pages
      /\ a.outlay = c.outlay + (IF Transfers(tx) > 0 THEN Only(tx, "transfer").n ELSE 0)
  BY <1>1, <1>3
<1>. QED
  BY <1>1, <1>4 DEF a

(* How often a step of the signer's carries each thing that is counted.    *)
LEMMA CreatorCarries ==
  ASSUME Asked, NEW tx \in Mine, tx.step \in CreatorSteps, CarriesItsStep(tx)
  PROVE  /\ CountOf(tx, "create_portfolio") = IF tx.step = "create_portfolio" THEN 1 ELSE 0
         /\ CountOf(tx, "create_portfolio_page") = IF tx.step = "create_portfolio_page" THEN 1 ELSE 0
         /\ Transfers(tx) \in Nat
<1>. DEFINE rule == StepRules[tx.step]
<1>1. /\ \A i \in DOMAIN tx.ixs :
           tx.ixs[i].op \in AlwaysAllowed \union rule.required \union rule.optional
      /\ \A op \in rule.required : CountOf(tx, op) = 1
  BY DEF CarriesItsStep
<1>2. ASSUME NEW op, op \notin AlwaysAllowed \union rule.required \union rule.optional
      PROVE  CountOf(tx, op) = 0
  <2>1. Holding(tx, op) = {}
    BY <1>1, <1>2 DEF Holding
  <2>. QED
    BY <2>1, MineHasNumbers, FS_EmptySet
<1>3. Transfers(tx) \in Nat
  BY MineHasNumbers DEF Transfers
<1>4. CASE tx.step = "create_portfolio"
  <2>1. rule.required = {"create_portfolio"} /\ rule.optional = {"transfer"}
    BY <1>4 DEF StepRules, Rule
  <2>2. "create_portfolio_page" \notin AlwaysAllowed \union rule.required \union rule.optional
    BY <2>1 DEF AlwaysAllowed
  <2>. HIDE DEF rule
  <2>3. CountOf(tx, "create_portfolio_page") = 0
    BY <1>2, <2>2
  <2>4. CountOf(tx, "create_portfolio") = 1
    BY <1>1, <2>1
  <2>. QED
    BY <1>3, <1>4, <2>3, <2>4
<1>5. CASE tx.step = "create_portfolio_page"
  <2>1. rule.required = {"create_portfolio_page"} /\ rule.optional = {}
    BY <1>5 DEF StepRules, Rule
  <2>2. "create_portfolio" \notin AlwaysAllowed \union rule.required \union rule.optional
    BY <2>1 DEF AlwaysAllowed
  <2>. HIDE DEF rule
  <2>3. CountOf(tx, "create_portfolio") = 0
    BY <1>2, <2>2
  <2>4. CountOf(tx, "create_portfolio_page") = 1
    BY <1>1, <2>1
  <2>. QED
    BY <1>3, <1>5, <2>3, <2>4
<1>6. CASE tx.step = "fund_operator"
  <2>1. rule.required = {"transfer"} /\ rule.optional = {}
    BY <1>6 DEF StepRules, Rule
  <2>. HIDE DEF rule
  <2>. QED
    BY <1>1, <1>2, <1>3, <1>6, <2>1 DEF AlwaysAllowed
<1>. QED
  BY <1>4, <1>5, <1>6 DEF CreatorSteps

LEMMA CreateCounted ==
  ASSUME Asked, Create, NEW tx \in Mine, NEW fresh, NEW w, CreateWalk(w), CreateCounts(w),
         AcceptsCreate(w, tx, expect, fresh)
  PROVE  CreateCounts(AfterCreate(w, tx, fresh))
<1>. DEFINE a == AfterCreate(w, tx, fresh)
<1>1. CASE tx.step \in KeeperSteps
  <2>1. a = [w EXCEPT !.at = @ + 1, !.keeper = TRUE]
    BY <1>1 DEF AfterCreate
  <2>. HIDE DEF a
  <2>2. /\ a.at = w.at + 1 /\ a.mine = w.mine /\ a.transfers = w.transfers
        /\ a.outlay = w.outlay /\ a.pages = w.pages /\ a.at # 0
    BY <2>1 DEF CreateWalk
  <2>3. CreateCounts(a)
    BY <2>2 DEF CreateCounts
  <2>. QED
    BY <2>3 DEF a
<1>2. CASE tx.step \notin KeeperSteps
  <2>. DEFINE s == w.mine
              header == Only(tx, "create_portfolio").n
              gift == Only(tx, "transfer").n
              ask == (IF tx.step = "create_portfolio" THEN header ELSE 0)
                     + (IF Transfers(tx) > 0 THEN gift ELSE 0)
  <2>1. AcceptsCreator(w, tx, expect, fresh)
    BY <1>2 DEF AcceptsCreate, AcceptsKeeper
  <2>2. tx.step \in CreatorSteps /\ CarriesItsStep(tx) /\ CreatorInPlace(w, tx.step)
        /\ w.transfers + Transfers(tx) <= 1 /\ PriorityFee(tx) <= expect.maxPriority
    BY <2>1 DEF AcceptsCreator
  <2>3. /\ a.at = w.at + 1 /\ a.mine = Append(s, tx)
        /\ a.transfers = w.transfers + Transfers(tx)
        /\ a.pages = IF tx.step = "create_portfolio_page"
                     THEN Append(w.pages, Only(tx, "create_portfolio_page").page) ELSE w.pages
        /\ a.outlay = (IF tx.step = "create_portfolio" THEN w.outlay + header ELSE w.outlay)
                      + (IF Transfers(tx) > 0 THEN gift ELSE 0)
    BY <2>2, CreatorFields
  <2>4. /\ CountOf(tx, "create_portfolio") = IF tx.step = "create_portfolio" THEN 1 ELSE 0
        /\ CountOf(tx, "create_portfolio_page") = IF tx.step = "create_portfolio_page" THEN 1 ELSE 0
        /\ Transfers(tx) \in Nat /\ Transfers(tx) = CountOf(tx, "transfer")
    BY <2>2, CreatorCarries DEF Transfers
  <2>5. s \in Seq(Mine) /\ w.at \in Nat
    BY DEF CreateWalk
  <2>6. /\ w.transfers \in Nat /\ w.outlay \in Nat /\ IsFiniteSet(SpotsIn(s))
        /\ Cardinality(PlacesIn(s, "create_portfolio")) <= 1
        /\ Cardinality(PlacesIn(s, "transfer")) <= w.transfers
        /\ Numbered(s, w.pages, "create_portfolio_page")
        /\ SpendsAtMost(s, SpendIn(s), w.outlay) /\ ChargedWithin(s)
        /\ w.at = 0 => s = <<>>
    BY DEF CreateCounts
  <2>. HIDE DEF a, s
  <2>7. IsFiniteSet(SpotsIn(a.mine))
    BY <2>3, <2>5, <2>6, Grown
  <2>8. /\ tx.step = "create_portfolio" => header \in Nat
        /\ Transfers(tx) = 1 => gift \in Nat
    BY <2>4, OnlyOne, MineHasNumbers
  <2>9. Transfers(tx) \in {0, 1}
    BY <2>2, <2>4, <2>6
  <2>. HIDE DEF header, gift
  <2>10. ask \in Nat /\ a.outlay = w.outlay + ask /\ a.transfers \in Nat /\ a.transfers <= 1
         /\ a.outlay \in Nat
    BY <2>2, <2>3, <2>6, <2>8, <2>9
  <2>11. Cardinality(PlacesIn(a.mine, "create_portfolio")) <= 1
    <3>1. Cardinality(PlacesIn(a.mine, "create_portfolio"))
            = Cardinality(PlacesIn(s, "create_portfolio")) + CountOf(tx, "create_portfolio")
      BY <2>3, <2>5, <2>6, CountGrows
    <3>2. Cardinality(PlacesIn(s, "create_portfolio")) \in Nat
      BY <2>6, PlacesAreFinite
    <3>3. CASE tx.step = "create_portfolio"
      <4>1. s = <<>>
        BY <2>2, <2>6, <3>3 DEF CreatorInPlace
      <4>2. PlacesIn(s, "create_portfolio") = {}
        BY <4>1 DEF PlacesIn, SpotsIn
      <4>3. Cardinality(PlacesIn(s, "create_portfolio")) = 0
        BY <4>2, FS_EmptySet
      <4>. QED
        BY <2>4, <3>1, <3>3, <4>3
    <3>4. CASE tx.step # "create_portfolio"
      BY <2>4, <2>6, <3>1, <3>2, <3>4
    <3>. QED
      BY <3>3, <3>4
  <2>12. Cardinality(PlacesIn(a.mine, "transfer")) <= a.transfers
    <3>1. Cardinality(PlacesIn(a.mine, "transfer"))
            = Cardinality(PlacesIn(s, "transfer")) + CountOf(tx, "transfer")
      BY <2>3, <2>5, <2>6, CountGrows
    <3>2. Cardinality(PlacesIn(s, "transfer")) \in Nat
      BY <2>6, PlacesAreFinite
    <3>. QED
      BY <2>3, <2>4, <2>6, <3>1, <3>2
  <2>13. Numbered(a.mine, a.pages, "create_portfolio_page")
    <3>1. CASE tx.step = "create_portfolio_page"
      <4>1. PICK j \in DOMAIN tx.ixs :
              Holding(tx, "create_portfolio_page") = {j} /\ Only(tx, "create_portfolio_page") = tx.ixs[j]
        BY <2>4, <3>1, OnlyOne
      <4>2. Numbered(Append(s, tx), Append(w.pages, tx.ixs[j].page), "create_portfolio_page")
        BY <2>5, <2>6, <4>1, NumberedOn
      <4>. QED
        BY <2>3, <3>1, <4>1, <4>2
    <3>2. CASE tx.step # "create_portfolio_page"
      BY <2>3, <2>4, <2>5, <2>6, <3>2, NumberedOn
    <3>. QED
      BY <3>1, <3>2
  <2>14. SpendsAtMost(a.mine, SpendIn(a.mine), a.outlay)
    <3>. DEFINE t == Append(s, tx)
                Heads == Holding(tx, "create_portfolio")
                Gifts == Holding(tx, "transfer")
                New == {Len(s) + 1} \X (Heads \union Gifts)
    <3>1. ASSUME NEW i \in Heads PROVE Heads = {i} /\ tx.ixs[i].n = header /\ tx.step = "create_portfolio"
      <4>1. CountOf(tx, "create_portfolio") # 0
        BY <3>1, NoneOf
      <4>2. tx.step = "create_portfolio" /\ CountOf(tx, "create_portfolio") = 1
        BY <2>4, <4>1
      <4>. QED
        BY <3>1, <4>2, OnlyOne DEF header
    <3>2. ASSUME NEW i \in Gifts PROVE Gifts = {i} /\ tx.ixs[i].n = gift /\ Transfers(tx) = 1
      <4>1. CountOf(tx, "transfer") # 0
        BY <3>2, NoneOf
      <4>2. Transfers(tx) = 1 /\ CountOf(tx, "transfer") = 1
        BY <2>4, <2>9, <4>1
      <4>. QED
        BY <3>2, <4>2, OnlyOne DEF gift
    <3>3. \A i \in Heads \union Gifts : i \in DOMAIN tx.ixs /\ ItemAt(t, <<Len(s) + 1, i>>) = tx.ixs[i]
      <4>1. Heads \union Gifts \subseteq DOMAIN tx.ixs
        BY DEF Holding
      <4>. QED
        BY <2>5, <2>6, <4>1, Grown
    <3>. HIDE DEF Heads, Gifts, t
    <3>4. ASSUME NEW p \in New
          PROVE  \E i \in Heads \union Gifts : p = <<Len(s) + 1, i>> /\ ItemAt(t, p).n = tx.ixs[i].n
      BY <3>3
    <3>5. ASSUME NEW i \in Heads \union Gifts PROVE tx.ixs[i].n <= ask
      BY <2>8, <2>9, <3>1, <3>2
    <3>6. ASSUME NEW i \in Heads \union Gifts, NEW j \in Heads \union Gifts, i # j
          PROVE  tx.ixs[i].n + tx.ixs[j].n <= ask
      BY <2>8, <2>9, <3>1, <3>2, <3>6
    <3>7. SpendsAtMost(t, New, ask)
      BY <3>4, <3>5, <3>6 DEF SpendsAtMost
    <3>8. SpendsAtMost(t, SpendIn(t), w.outlay + ask)
      BY <2>5, <2>6, <2>10, <3>7, SpendsOn DEF t, Heads, Gifts
    <3>. QED
      BY <2>3, <2>10, <3>8 DEF t
  <2>15. ChargedWithin(a.mine)
    <3>1. Refinement!Charged(tx) <= expect.maxPriority
      <4>1. expect.maxPriority \in Nat
        BY IntentsAssumption DEF Asked
      <4>. QED
        BY <2>2, <4>1, ChargesNoMore
    <3>2. \A n \in DOMAIN Append(s, tx) :
            Append(s, tx)[n] = tx \/ (n \in DOMAIN s /\ Append(s, tx)[n] = s[n])
      <4>. SUFFICES ASSUME NEW n \in DOMAIN Append(s, tx), n # Len(s) + 1
                    PROVE  n \in DOMAIN s /\ Append(s, tx)[n] = s[n]
        BY <2>5, AppendProperties
      <4>. QED
        BY <2>5, AppendProperties
    <3>. QED
      BY <2>3, <2>6, <3>1, <3>2 DEF ChargedWithin
  <2>16. a.at # 0
    BY <2>3, <2>5
  <2>17. CreateCounts(a)
    BY <2>7, <2>10, <2>11, <2>12, <2>13, <2>14, <2>15, <2>16 DEF CreateCounts
  <2>. QED
    BY <2>17 DEF a
<1>. QED
  BY <1>1, <1>2

LEMMA WriteCarries ==
  ASSUME NEW verb \in DOMAIN ExpectedSteps,
         NEW step \in ExpectedSteps[verb].pre \union {ExpectedSteps[verb].primary}
  PROVE  LET rule == StepRules[step]
             may  == AlwaysAllowed \union rule.required \union rule.optional
         IN  /\ verb \notin {"apply", "refreshNav"} =>
                  /\ step = ExpectedSteps[verb].primary /\ ~ExpectedSteps[verb].paged
                  /\ ExpectedSteps[verb].pre = {} /\ rule.required = {Refinement!Main[verb]}
             /\ verb = "apply" =>
                  IF step = ExpectedSteps[verb].primary
                  THEN rule.paged /\ rule.required = {"apply_targets"}
                  ELSE ~rule.paged /\ "apply_targets" \notin may
<1>1. CASE verb \in {"propose", "cancel", "rotateCurator", "setDelay", "setMetadata", "deposit", "withdraw"}
  BY <1>1 DEF ExpectedSteps, Verb, StepRules, Rule, Paged, Refinement!Main
<1>2. CASE verb = "apply"
  BY <1>2 DEF ExpectedSteps, Verb, StepRules, Rule, Paged, AlwaysAllowed
<1>3. CASE verb = "refreshNav"
  BY <1>3
<1>. QED
  BY <1>1, <1>2, <1>3 DEF ExpectedSteps

LEMMA WriteCounted ==
  ASSUME Asked, ~Create, NEW tx \in Mine, NEW fresh, NEW w, w.mine \in Seq(Mine), WriteCounts(w),
         Accepts(w, tx, expect, fresh)
  PROVE  WriteCounts(After(w, tx, expect))
<1>. DEFINE a == After(w, tx, expect)
            verb == ExpectedSteps[expect.verb]
            rule == StepRules[tx.step]
            main == Refinement!Main[expect.verb]
            s == w.mine
<1>1. /\ a.primaries = w.primaries + (IF tx.step = verb.primary THEN 1 ELSE 0)
      /\ a.pages = IF rule.paged THEN Append(w.pages, PageOf(tx)) ELSE w.pages
      /\ a.mine = Append(s, tx)
  BY DEF After
<1>2. expect.verb \in DOMAIN ExpectedSteps
  BY DEF Asked, Create
<1>3. /\ tx.step \in verb.pre \union {verb.primary}
      /\ tx.step \in verb.pre \/ verb.paged \/ w.primaries = 0
      /\ \A i \in DOMAIN tx.ixs :
           tx.ixs[i].op \in AlwaysAllowed \union rule.required \union rule.optional
      /\ \A op \in rule.required : CountOf(tx, op) = 1
  BY DEF Accepts, InPlace, CarriesItsStep
<1>4. /\ expect.verb \notin {"apply", "refreshNav"} =>
           tx.step = verb.primary /\ ~verb.paged /\ verb.pre = {} /\ rule.required = {main}
      /\ expect.verb = "apply" =>
           IF tx.step = verb.primary THEN rule.paged /\ rule.required = {"apply_targets"}
           ELSE ~rule.paged
                /\ "apply_targets" \notin AlwaysAllowed \union rule.required \union rule.optional
  BY <1>2, <1>3, WriteCarries
<1>5. w.primaries \in Nat /\ IsFiniteSet(SpotsIn(s))
  BY DEF WriteCounts
<1>6. \A op : Cardinality(PlacesIn(s, op)) \in Nat /\ CountOf(tx, op) \in Nat
  BY <1>5, PlacesAreFinite, MineHasNumbers
<1>. HIDE DEF a, verb, main, s
<1>7. s \in Seq(Mine)
  BY DEF s
<1>8. a.primaries \in Nat /\ IsFiniteSet(SpotsIn(a.mine))
  BY <1>1, <1>5, <1>7, Grown
<1>9. ASSUME expect.verb \notin {"apply", "refreshNav"}
      PROVE  Cardinality(PlacesIn(a.mine, main)) <= a.primaries /\ a.primaries <= 1
  <2>1. w.primaries = 0 /\ a.primaries = 1 /\ CountOf(tx, main) = 1
    BY <1>1, <1>3, <1>4, <1>9
  <2>2. Cardinality(PlacesIn(s, main)) <= w.primaries
    BY <1>9 DEF WriteCounts, main, s
  <2>3. Cardinality(PlacesIn(a.mine, main)) = Cardinality(PlacesIn(s, main)) + CountOf(tx, main)
    BY <1>1, <1>5, <1>7, CountGrows
  <2>. QED
    BY <1>6, <2>1, <2>2, <2>3
<1>10. ASSUME expect.verb = "apply" PROVE Numbered(a.mine, a.pages, "apply_targets")
  <2>1. Numbered(s, w.pages, "apply_targets")
    BY <1>10 DEF WriteCounts, s
  <2>2. CASE tx.step = verb.primary
    <3>1. rule.paged /\ rule.required = {"apply_targets"} /\ CountOf(tx, "apply_targets") = 1
      BY <1>3, <1>4, <1>10, <2>2
    <3>2. PICK j \in DOMAIN tx.ixs : Holding(tx, "apply_targets") = {j}
      BY <3>1, OnlyOne
    <3>3. \A i \in DOMAIN tx.ixs : tx.ixs[i].op \in rule.required <=> i = j
      BY <3>1, <3>2 DEF Holding
    <3>4. PageOf(tx) = tx.ixs[j].page
      BY <3>3 DEF PageOf
    <3>5. Numbered(Append(s, tx), Append(w.pages, tx.ixs[j].page), "apply_targets")
      BY <1>5, <1>7, <2>1, <3>2, NumberedOn
    <3>. QED
      BY <1>1, <3>1, <3>4, <3>5
  <2>3. CASE tx.step # verb.primary
    <3>1. Holding(tx, "apply_targets") = {}
      BY <1>3, <1>4, <1>10, <2>3 DEF Holding
    <3>2. CountOf(tx, "apply_targets") = 0
      BY <3>1, MineHasNumbers, FS_EmptySet
    <3>3. ~rule.paged
      BY <1>4, <1>10, <2>3
    <3>. QED
      BY <1>1, <1>5, <1>7, <2>1, <3>2, <3>3, NumberedOn
  <2>. QED
    BY <2>2, <2>3
<1>. QED
  BY <1>8, <1>9, <1>10 DEF WriteCounts, a, main

(***************************************************************************)
(* A walk that came to its end holds what Approved allows, and so does     *)
(* every beginning of it.                                                  *)
(***************************************************************************)
LEMMA GoodPlaces ==
  ASSUME NEW s \in Seq(GoodTx), NEW op, op \notin Refinement!Harmless, NEW p \in PlacesIn(s, op)
  PROVE  Refinement!AsAsked(ItemAt(s, p)) /\ ItemAt(s, p).op = op
<1>1. PICK n \in DOMAIN s : p \in {n} \X DOMAIN s[n].ixs
  BY DEF PlacesIn, SpotsIn
<1>2. s[n] \in GoodTx /\ p[1] = n /\ p[2] \in DOMAIN s[n].ixs
  BY <1>1
<1>3. ItemAt(s, p).op = op /\ ItemAt(s, p) = s[n].ixs[p[2]]
  BY <1>2 DEF PlacesIn, ItemAt
<1>4. p[2] \in Refinement!Does(s[n])
  BY <1>2, <1>3 DEF Refinement!Does
<1>. QED
  BY <1>2, <1>3, <1>4 DEF GoodTx, SoundTx, Sound

LEMMA NotAskedFor ==
  ASSUME Asked, NEW s \in Seq(GoodTx)
  PROVE  /\ ~Create => PlacesIn(s, "transfer") = {} /\ PlacesIn(s, "create_portfolio_page") = {}
         /\ expect.verb # "apply" => PlacesIn(s, "apply_targets") = {}
<1>1. \A op \in {"transfer", "create_portfolio_page", "apply_targets"} :
        \A p \in PlacesIn(s, op) : Refinement!AsAsked(ItemAt(s, p)) /\ ItemAt(s, p).op = op
  BY GoodPlaces DEF Refinement!Harmless
<1>2. ASSUME ~Create, NEW op \in {"transfer", "create_portfolio_page"}, NEW p \in PlacesIn(s, op)
      PROVE  FALSE
  BY <1>1, <1>2 DEF Refinement!AsAsked, Create
<1>3. ASSUME expect.verb # "apply", NEW p \in PlacesIn(s, "apply_targets") PROVE FALSE
  <2>1. Refinement!Main[expect.verb] = "apply_targets"
    BY <1>1, <1>3 DEF Refinement!AsAsked
  <2>2. expect.verb \in {"propose", "apply", "cancel", "deposit", "withdraw", "refreshNav",
                         "rotateCurator", "setDelay", "setMetadata", "create"}
    BY DEF Asked, ExpectedSteps
  <2>. QED
    BY <1>3, <2>1, <2>2 DEF Refinement!Main
<1>. QED
  BY <1>2, <1>3

LEMMA InOrder ==
  ASSUME NEW s, NEW pages, NEW op, IsFiniteSet(SpotsIn(s)), Numbered(s, pages, op), InSequence(pages)
  PROVE  \A p \in PlacesIn(s, op) : ItemAt(s, p).page = Cardinality(Before(s, p, op))
<1>. SUFFICES ASSUME NEW p \in PlacesIn(s, op)
              PROVE  ItemAt(s, p).page = Cardinality(Before(s, p, op))
  OBVIOUS
<1>1. Cardinality(Before(s, p, op)) \in Nat
  <2>1. Before(s, p, op) \in SUBSET PlacesIn(s, op)
    BY DEF Before
  <2>. QED
    BY <2>1, PlacesAreFinite, FS_Subset, FS_CardinalityType
<1>. DEFINE k == Cardinality(Before(s, p, op))
<1>2. k + 1 \in DOMAIN pages /\ pages[k + 1] = ItemAt(s, p).page
  BY DEF Numbered
<1>. HIDE DEF k
<1>3. pages[k + 1] = (k + 1) - 1
  BY <1>2 DEF InSequence
<1>. QED
  BY <1>1, <1>2, <1>3 DEF k

LEMMA WholeApproves ==
  ASSUME Asked, Whole, run.walk.mine \in Seq(GoodTx),
         Create => CreateCounts(run.walk), ~Create => WriteCounts(run.walk)
  PROVE  Approves(run.walk.mine)
<1>. DEFINE s == run.walk.mine
<1>1. CASE Create
  <2>1. /\ IsFiniteSet(SpotsIn(s)) /\ run.walk.transfers \in Nat /\ run.walk.outlay \in Nat
        /\ Cardinality(PlacesIn(s, "create_portfolio")) <= 1
        /\ Cardinality(PlacesIn(s, "transfer")) <= run.walk.transfers /\ run.walk.transfers <= 1
        /\ Numbered(s, run.walk.pages, "create_portfolio_page")
        /\ SpendsAtMost(s, SpendIn(s), run.walk.outlay) /\ ChargedWithin(s)
    BY <1>1 DEF CreateCounts
  <2>2. /\ run.walk.outlay <= expect.maxLamports
        /\ run.walk.pages = <<>> \/ InSequence(run.walk.pages)
    BY <1>1 DEF Whole, CompleteCreate
  <2>3. InSequence(run.walk.pages)
    BY <2>2 DEF InSequence
  <2>4. \A p \in PlacesIn(s, "create_portfolio_page") :
          ItemAt(s, p).page = Cardinality(Before(s, p, "create_portfolio_page"))
    BY <2>1, <2>3, InOrder
  <2>5. PlacesIn(s, "apply_targets") = {}
    BY <1>1, NotAskedFor DEF Create
  <2>6. Refinement!Main[expect.verb] = "create_portfolio"
    BY <1>1 DEF Refinement!Main, Create
  <2>7. Cardinality(PlacesIn(s, "transfer")) <= 1
    <3>1. Cardinality(PlacesIn(s, "transfer")) \in Nat
      BY <2>1, PlacesAreFinite
    <3>. QED
      BY <2>1, <3>1
  <2>8. SpendsAtMost(s, SpendIn(s), expect.maxLamports)
    <3>. DEFINE P == SpendIn(s)
    <3>1. \A p \in P : ItemAt(s, p).n \in Nat
      <4>1. s \in Seq(Mine)
        BY DEF GoodTx
      <4>. QED
        BY <4>1, SpentIsNat
    <3>2. expect.maxLamports \in Nat
      BY IntentsAssumption DEF Asked
    <3>. HIDE DEF P
    <3>3. \A p \in P : ItemAt(s, p).n <= run.walk.outlay
      BY <2>1 DEF SpendsAtMost, P
    <3>4. \A p, q \in P : p # q => ItemAt(s, p).n + ItemAt(s, q).n <= run.walk.outlay
      BY <2>1 DEF SpendsAtMost, P
    <3>5. \A p \in P : ItemAt(s, p).n <= expect.maxLamports
      BY <2>1, <2>2, <3>1, <3>2, <3>3
    <3>6. \A p, q \in P : p # q => ItemAt(s, p).n + ItemAt(s, q).n <= expect.maxLamports
      BY <2>1, <2>2, <3>1, <3>2, <3>4
    <3>. QED
      BY <3>5, <3>6 DEF SpendsAtMost, P
  <2>. QED
    BY <2>1, <2>4, <2>5, <2>6, <2>7, <2>8 DEF Approves
<1>2. CASE ~Create
  <2>1. /\ IsFiniteSet(SpotsIn(s)) /\ run.walk.primaries \in Nat
        /\ expect.verb \notin {"apply", "refreshNav"} =>
             /\ Cardinality(PlacesIn(s, Refinement!Main[expect.verb])) <= run.walk.primaries
             /\ run.walk.primaries <= 1
        /\ expect.verb = "apply" => Numbered(s, run.walk.pages, "apply_targets")
    BY <1>2 DEF WriteCounts
  <2>2. InSequence(run.walk.pages)
    BY <1>2 DEF Whole, Complete
  <2>3. PlacesIn(s, "transfer") = {} /\ PlacesIn(s, "create_portfolio_page") = {}
        /\ (expect.verb # "apply" => PlacesIn(s, "apply_targets") = {})
    BY <1>2, NotAskedFor
  <2>4. Cardinality(PlacesIn(s, "transfer")) <= 1
    <3>1. Cardinality(PlacesIn(s, "transfer")) = 0
      BY <2>3, FS_EmptySet
    <3>. QED
      BY <3>1
  <2>5. \A p \in PlacesIn(s, "apply_targets") :
          ItemAt(s, p).page = Cardinality(Before(s, p, "apply_targets"))
    BY <2>1, <2>2, <2>3, InOrder
  <2>6. expect.verb \notin {"apply", "refreshNav"} =>
          Cardinality(PlacesIn(s, Refinement!Main[expect.verb])) <= 1
    <3>1. Cardinality(PlacesIn(s, Refinement!Main[expect.verb])) \in Nat
      BY <2>1, PlacesAreFinite
    <3>. QED
      BY <2>1, <3>1
  <2>. QED
    BY <1>2, <2>1, <2>3, <2>4, <2>5, <2>6 DEF Approves
<1>. QED
  BY <1>1, <1>2

LEMMA BeginningApproves ==
  ASSUME Asked, NEW s, Approves(s), NEW m \in 0 .. Len(s)
  PROVE  Approves(SubSeq(s, 1, m))
<1>. DEFINE t == SubSeq(s, 1, m)
<1>1. s \in Seq(GoodTx) /\ IsFiniteSet(SpotsIn(s)) /\ Len(s) \in Nat /\ m \in Nat
  BY DEF Approves
<1>2. /\ t \in Seq(GoodTx) /\ DOMAIN t = 1 .. m /\ \A n \in 1 .. m : t[n] = s[n]
      /\ DOMAIN s = 1 .. Len(s)
  BY <1>1, SubSeqProperties
<1>. HIDE DEF t
<1>3. SpotsIn(t) = {p \in SpotsIn(s) : p[1] <= m}
  BY <1>1, <1>2 DEF SpotsIn
<1>4. \A p \in SpotsIn(t) : ItemAt(t, p) = ItemAt(s, p)
  BY <1>2 DEF SpotsIn, ItemAt
<1>5. \A op : PlacesIn(t, op) = {p \in PlacesIn(s, op) : p[1] <= m}
  BY <1>3, <1>4 DEF PlacesIn
<1>6. ASSUME NEW op
      PROVE  IsFiniteSet(PlacesIn(s, op)) /\ PlacesIn(t, op) \in SUBSET PlacesIn(s, op)
             /\ PlacesIn(t, op) \subseteq SpotsIn(t)
  <2>1. IsFiniteSet(PlacesIn(s, op))
    BY <1>1, PlacesAreFinite
  <2>2. PlacesIn(t, op) \in SUBSET PlacesIn(s, op)
    BY <1>5
  <2>3. PlacesIn(t, op) \subseteq SpotsIn(t)
    BY DEF PlacesIn
  <2>. QED
    BY <2>1, <2>2, <2>3
<1>7. IsFiniteSet(SpotsIn(t))
  <2>1. SpotsIn(t) \in SUBSET SpotsIn(s)
    BY <1>3
  <2>. QED
    BY <1>1, <2>1, FS_Subset
<1>8. \A op : Cardinality(PlacesIn(s, op)) <= 1 => Cardinality(PlacesIn(t, op)) <= 1
  <2>. SUFFICES ASSUME NEW op, Cardinality(PlacesIn(s, op)) <= 1
                PROVE  Cardinality(PlacesIn(t, op)) <= 1
    OBVIOUS
  <2>1. Cardinality(PlacesIn(t, op)) <= Cardinality(PlacesIn(s, op))
    BY <1>6, FS_Subset
  <2>2. Cardinality(PlacesIn(t, op)) \in Nat /\ Cardinality(PlacesIn(s, op)) \in Nat
    BY <1>1, <1>7, PlacesAreFinite
  <2>. QED
    BY <2>1, <2>2
<1>9. ASSUME NEW op \in {"apply_targets", "create_portfolio_page"}, NEW p \in PlacesIn(t, op)
      PROVE  ItemAt(t, p).page = Cardinality(Before(t, p, op))
  <2>1. p \in PlacesIn(s, op) /\ p[1] <= m /\ ItemAt(t, p) = ItemAt(s, p)
    BY <1>4, <1>5, <1>6
  <2>2. \A q \in SpotsIn(s) : q[1] \in Nat
    BY <1>1 DEF SpotsIn
  <2>3. Before(t, p, op) = Before(s, p, op)
    <3>1. p[1] \in Nat /\ \A q \in PlacesIn(s, op) : q[1] \in Nat
      BY <1>1, <2>1, <2>2, PlacesAreFinite
    <3>2. \A q \in PlacesIn(s, op) : q[1] < p[1] => q[1] <= m
      BY <1>1, <2>1, <3>1
    <3>. QED
      BY <1>5, <3>2 DEF Before
  <2>. QED
    BY <2>1, <2>3 DEF Approves
<1>10. ASSUME Create
       PROVE  SpendsAtMost(t, SpendIn(t), expect.maxLamports) /\ ChargedWithin(t)
  <2>1. SpendsAtMost(s, SpendIn(s), expect.maxLamports) /\ ChargedWithin(s)
    BY <1>10 DEF Approves
  <2>2. SpendIn(t) \subseteq SpendIn(s) /\ SpendIn(t) \subseteq SpotsIn(t)
    BY <1>6 DEF SpendIn
  <2>3. SpendsAtMost(t, SpendIn(t), expect.maxLamports)
    BY <1>4, <2>1, <2>2 DEF SpendsAtMost
  <2>4. ChargedWithin(t)
    BY <1>1, <1>2, <2>1 DEF ChargedWithin
  <2>. QED
    BY <2>3, <2>4
<1>. QED
  BY <1>2, <1>7, <1>8, <1>9, <1>10 DEF Approves, t

LEMMA SameCount == \A S : Refinement!Cardinality(S) = Cardinality(S)
BY DEF Refinement!Cardinality, Cardinality

LEMMA ApprovedLog ==
  ASSUME Approves(log)
  PROVE  Refinement!Kept
<1>1. \A op : Refinement!Places(op) = PlacesIn(log, op)
  BY DEF Refinement!Places, Refinement!Spots, Refinement!At, PlacesIn, SpotsIn, ItemAt
<1>2. \A p : Refinement!At(p) = ItemAt(log, p)
  BY DEF Refinement!At, ItemAt
<1>3. \A p, op : Refinement!Earlier(p, op) = Before(log, p, op)
  BY <1>1 DEF Refinement!Earlier, Before
<1>4. Refinement!OnlyWhatWasAsked
  <2>. SUFFICES ASSUME NEW n \in DOMAIN log, NEW i \in Refinement!Does(log[n])
                PROVE  Refinement!OnOwnBook(log[n].ixs[i]) /\ Refinement!AsAsked(log[n].ixs[i])
    BY DEF Refinement!OnlyWhatWasAsked
  <2>1. log[n] \in GoodTx
    BY DEF Approves
  <2>. QED
    BY <2>1 DEF GoodTx, SoundTx, Sound
<1>5. Refinement!Once
  <2>1. Refinement!Places(Refinement!Main[expect.verb]) = PlacesIn(log, Refinement!Main[expect.verb])
    BY Zenon, <1>1
  <2>2. Refinement!Places("transfer") = PlacesIn(log, "transfer")
    BY Zenon, <1>1
  <2>3. expect.verb \notin {"apply", "refreshNav"} =>
          Cardinality(Refinement!Places(Refinement!Main[expect.verb])) <= 1
    BY <2>1 DEF Approves
  <2>4. Cardinality(Refinement!Places("transfer")) <= 1
    BY <2>2 DEF Approves
  <2>. QED
    BY <2>3, <2>4, SameCount DEF Refinement!Once
<1>6. Refinement!PagesInOrder
  <2>. SUFFICES ASSUME NEW op \in {"apply_targets", "create_portfolio_page"},
                       NEW p \in Refinement!Places(op)
                PROVE  Refinement!At(p).page = Cardinality(Refinement!Earlier(p, op))
    BY SameCount DEF Refinement!PagesInOrder
  <2>1. Refinement!Places(op) = PlacesIn(log, op)
    BY Zenon, <1>1
  <2>2. p \in PlacesIn(log, op)
    BY Zenon, <2>1
  <2>3. ItemAt(log, p).page = Cardinality(Before(log, p, op))
    BY <2>2 DEF Approves
  <2>4. Refinement!At(p) = ItemAt(log, p) /\ Refinement!Earlier(p, op) = Before(log, p, op)
    BY Zenon, <1>2, <1>3
  <2>. QED
    BY <2>3, <2>4
<1>7. Refinement!SpentWithin
  <2>1. Refinement!Spending = SpendIn(log)
    BY <1>1 DEF Refinement!Spending, SpendIn
  <2>. QED
    BY <1>2, <2>1 DEF Approves, Refinement!SpentWithin, SpendsAtMost, ChargedWithin, Create
<1>. QED
  BY <1>4, <1>5, <1>6, <1>7 DEF Refinement!Kept

(***************************************************************************)
(* Every step keeps the promise.                                           *)
(***************************************************************************)
SameAsk ==
  /\ expect'.verb = expect.verb /\ expect'.legs = expect.legs /\ expect'.arg = expect.arg
  /\ expect'.maxLamports = expect.maxLamports /\ expect'.maxPriority = expect.maxPriority

LEMMA SameApproves ==
  ASSUME SameAsk
  PROVE  \A s : Approves(s)' <=> Approves(s)
<1>1. GoodTx' = GoodTx
  BY SameGood DEF SameAsk
<1>2. ASSUME NEW s PROVE ChargedWithin(s)' <=> ChargedWithin(s)
  BY DEF ChargedWithin, SameAsk, Refinement!Charged, Refinement!Units, Refinement!Price
<1>. QED
  BY <1>1, <1>2 DEF Approves, SameAsk, Create

LEMMA CountsStart == CreateCounts(StartCreate) /\ WriteCounts(StartWalk)
<1>. DEFINE s == <<>>
<1>1. DOMAIN s = {} /\ Len(s) = 0
  OBVIOUS
<1>. HIDE DEF s
<1>2. SpotsIn(s) = {}
  BY <1>1 DEF SpotsIn
<1>3. \A op : PlacesIn(s, op) = {}
  BY <1>2 DEF PlacesIn
<1>4. IsFiniteSet({}) /\ Cardinality({}) = 0
  BY FS_EmptySet
<1>5. \A op : Cardinality(PlacesIn(s, op)) = 0
  BY <1>3, <1>4
<1>6. \A op : Numbered(s, s, op)
  <2>1. s \in Seq(Nat)
    BY DEF s
  <2>. QED
    BY <1>1, <1>3, <1>5, <2>1 DEF Numbered
<1>7. SpendIn(s) = {} /\ ChargedWithin(s)
  BY <1>1, <1>3 DEF SpendIn, ChargedWithin
<1>8. CreateCounts(StartCreate)
  <2>. DEFINE w == StartCreate
  <2>. HIDE DEF w
  <2>1. w.mine = s /\ w.pages = s /\ w.at = 0 /\ w.transfers = 0 /\ w.outlay = 0
    BY DEF StartCreate, s, w
  <2>2. SpendsAtMost(s, SpendIn(s), 0)
    BY <1>7 DEF SpendsAtMost
  <2>3. /\ Cardinality(PlacesIn(s, "create_portfolio")) <= 1
        /\ Cardinality(PlacesIn(s, "transfer")) <= 0
    BY <1>5
  <2>4. s = <<>>
    BY DEF s
  <2>5. Numbered(s, s, "create_portfolio_page") /\ IsFiniteSet(SpotsIn(s))
    BY <1>2, <1>4, <1>6
  <2>6. CreateCounts(w)
    BY <1>7, <2>1, <2>2, <2>3, <2>4, <2>5 DEF CreateCounts
  <2>. QED
    BY <2>6 DEF w
<1>9. WriteCounts(StartWalk)
  <2>1. StartWalk.mine = s /\ StartWalk.pages = s /\ StartWalk.primaries = 0
    BY DEF StartWalk, s
  <2>2. \A op : Cardinality(PlacesIn(s, op)) <= 0
    BY <1>5
  <2>. QED
    BY <1>2, <1>4, <1>6, <2>1, <2>2 DEF WriteCounts
<1>. QED
  BY <1>8, <1>9

LEMMA CountsKeep ==
  ASSUME IInv, Next, Counted(run.walk)
  PROVE  Counted(run'.walk)
<1>1. CASE run'.walk = run.walk
  BY <1>1
<1>2. CASE Create /\ run'.walk = StartCreate
  BY <1>2, CountsStart DEF Counted
<1>3. ASSUME NEW tx \in Offered, NEW fresh \in TableRead(tx), Passes(tx, fresh),
             run'.walk = Taken(tx, fresh)
      PROVE  Counted(run'.walk)
  <2>1. tx \in Mine /\ Asked /\ run.walk.mine \in Seq(Mine)
    BY DEF Offered, Mine, IInv, RunShape
  <2>2. CASE Create
    <3>1. AcceptsCreate(run.walk, tx, expect, fresh) /\ CreateWalk(run.walk)
          /\ CreateCounts(run.walk)
      BY <1>3, <2>2 DEF Passes, IInv, RunShape, Counted
    <3>2. CreateCounts(AfterCreate(run.walk, tx, fresh))
      BY <2>1, <2>2, <3>1, CreateCounted
    <3>. QED
      BY <1>3, <2>2, <3>2 DEF Taken, Counted
  <2>3. CASE ~Create
    <3>1. Accepts(run.walk, tx, expect, fresh) /\ WriteCounts(run.walk)
      BY <1>3, <2>3 DEF Passes, Counted
    <3>2. WriteCounts(After(run.walk, tx, expect))
      BY <2>1, <2>3, <3>1, WriteCounted
    <3>. QED
      BY <1>3, <2>3, <3>2 DEF Taken, Counted
  <2>. QED
    BY <2>2, <2>3
<1>. QED
  BY <1>1, <1>2, <1>3, WalkMoves

LEMMA CountedPrimed ==
  ASSUME SameAsk, Counted(run'.walk)
  PROVE  Counted(run.walk)'
<1>1. ASSUME NEW s PROVE ChargedWithin(s)' <=> ChargedWithin(s)
  BY DEF ChargedWithin, SameAsk, Refinement!Charged, Refinement!Units, Refinement!Price
<1>. QED
  BY <1>1 DEF Counted, CreateCounts, WriteCounts, SameAsk, Create

LEMMA BeginningGrows ==
  ASSUME NEW S, NEW s \in Seq(S), NEW m \in Nat, m < Len(s)
  PROVE  Append(SubSeq(s, 1, m), s[m + 1]) = SubSeq(s, 1, m + 1)
<1>. DEFINE t == SubSeq(s, 1, m)
            u == SubSeq(s, 1, m + 1)
            v == Append(t, s[m + 1])
<1>1. Len(s) \in Nat /\ m \in 0 .. Len(s) /\ m + 1 \in 1 .. Len(s)
  OBVIOUS
<1>2. t \in Seq(S) /\ Len(t) = m /\ \A i \in 1 .. m : t[i] = s[i]
  BY <1>1, SubSeqProperties
<1>3. u \in Seq(S) /\ Len(u) = m + 1 /\ \A i \in 1 .. m + 1 : u[i] = s[i]
  BY <1>1, SubSeqProperties
<1>4. s[m + 1] \in S
  BY <1>1
<1>. HIDE DEF t, u
<1>5. v \in Seq(S) /\ Len(v) = m + 1 /\ v[m + 1] = s[m + 1] /\ \A i \in 1 .. m : v[i] = t[i]
  BY <1>2, <1>4, AppendProperties
<1>. HIDE DEF v
<1>6. \A i \in 1 .. m + 1 : v[i] = u[i]
  <2>. SUFFICES ASSUME NEW i \in 1 .. m + 1 PROVE v[i] = u[i]
    OBVIOUS
  <2>1. i = m + 1 \/ i \in 1 .. m
    OBVIOUS
  <2>. QED
    BY <1>2, <1>3, <1>5, <2>1
<1>7. v = u
  BY <1>3, <1>5, <1>6, SeqEqual
<1>. QED
  BY <1>7 DEF t, u, v

LEMMA BeginningAgain ==
  ASSUME NEW S, NEW s \in Seq(S), NEW m \in 0 .. Len(s)
  PROVE  /\ SubSeq(SubSeq(s, 1, m), 1, m) = SubSeq(s, 1, m)
         /\ SubSeq(s, 1, 0) = <<>>
<1>. DEFINE t == SubSeq(s, 1, m)
            u == SubSeq(t, 1, m)
<1>1. t \in Seq(S) /\ Len(t) = m /\ m \in Nat
  BY SubSeqProperties
<1>2. SubSeq(s, 1, 0) = <<>>
  OBVIOUS
<1>. HIDE DEF t
<1>3. u \in Seq(S) /\ Len(u) = m /\ \A i \in 1 .. m : u[i] = t[i]
  BY <1>1, SubSeqProperties
<1>. HIDE DEF u
<1>4. u = t
  BY <1>1, <1>3, SeqEqual
<1>. QED
  BY <1>2, <1>4 DEF t, u

LEMMA NothingApproves == Asked => Approves(<<>>)
<1>. DEFINE s == <<>>
<1>1. DOMAIN s = {} /\ s \in Seq(GoodTx)
  OBVIOUS
<1>. HIDE DEF s
<1>2. SpotsIn(s) = {}
  BY <1>1 DEF SpotsIn
<1>3. \A op : PlacesIn(s, op) = {}
  BY <1>2 DEF PlacesIn
<1>4. IsFiniteSet({}) /\ Cardinality({}) = 0
  BY FS_EmptySet
<1>5. \A op : Cardinality(PlacesIn(s, op)) <= 1
  BY <1>3, <1>4
<1>6. SpendIn(s) = {} /\ ChargedWithin(s)
  BY <1>1, <1>3 DEF SpendIn, ChargedWithin
<1>7. SpendsAtMost(s, SpendIn(s), expect.maxLamports)
  BY <1>6 DEF SpendsAtMost
<1>8. Approves(s)
  BY <1>1, <1>2, <1>3, <1>4, <1>5, <1>6, <1>7 DEF Approves
<1>. QED
  BY <1>8 DEF s

(* One deployment changes.                                                 *)
LEMMA OneChanges ==
  ASSUME Kept, NEW Ok, AllIn(deployments, Ok), NEW k \in DOMAIN deployments, NEW e,
         deployments' = [deployments EXCEPT ![k] = e], e.handed \in Ok,
         k = Len(deployments) => log' = SubSeq(e.handed, 1, e.landed),
         k # Len(deployments) => Ledger(deployments, log) /\ log' = log
  PROVE  AllIn(deployments', Ok) /\ Ledger(deployments', log')
<1>1. deployments \in Seq(Records) /\ DOMAIN deployments = 1 .. Len(deployments)
      /\ Len(deployments) \in Nat /\ Len(deployments) \in DOMAIN deployments /\ deployments # <<>>
  BY DEF Kept
<1>2. /\ DOMAIN deployments' = DOMAIN deployments /\ Len(deployments') = Len(deployments)
      /\ \A j \in DOMAIN deployments : deployments'[j] = IF j = k THEN e ELSE deployments[j]
      /\ deployments' # <<>>
  BY <1>1
<1>3. AllIn(deployments', Ok)
  BY <1>2 DEF AllIn
<1>4. CASE k = Len(deployments)
  BY <1>1, <1>2, <1>3, <1>4 DEF Ledger
<1>5. CASE k # Len(deployments)
  BY <1>1, <1>2, <1>3, <1>5 DEF Ledger
<1>. QED
  BY <1>4, <1>5

LEMMA NothingLanded ==
  ASSUME Kept, Ledger(deployments, log), deployments # <<>>, Current.landed = 0
  PROVE  log = <<>>
<1>1. Current \in Records
  BY CurrentIsRecord
<1>2. SubSeq(Current.handed, 1, 0) = <<>>
  <2>1. Current.handed \in Seq(Mine) /\ 0 \in 0 .. Len(Current.handed)
    BY <1>1 DEF Records
  <2>. QED
    BY <2>1, BeginningAgain
<1>. QED
  BY <1>2 DEF Ledger, Current

(* Before a build nothing has landed, of an operator who reads.            *)
LEMMA BuildsAfresh ==
  ASSUME IInv, Ledger(deployments, log), ~Scripted, Build
  PROVE  log = <<>>
<1>1. stage = "reading" /\ NoneOut
  BY DEF Build, IInv, Fresh
<1>2. CASE deployments = <<>>
  BY <1>2 DEF Ledger
<1>3. CASE deployments # <<>>
  <2>1. Current \in Records /\ ~HeaderOut(Current) /\ Current.landed <= Len(Current.handed)
    BY <1>1, <1>3, CurrentIsRecord DEF NoneOut, IInv, Kept
  <2>2. Current.landed \in Nat /\ (Current.handed = <<>> \/ ~(Current.landed > 0))
    BY <2>1 DEF HeaderOut, Records
  <2>3. Current.landed = 0
    BY <2>1, <2>2
  <2>. QED
    BY <1>3, <2>3, NothingLanded DEF IInv
<1>. QED
  BY <1>2, <1>3

(* What is handed over is what was signed, or a beginning of it; the log   *)
(* is what has landed of the last deployment.                              *)
LEMMA LedgerKeeps ==
  ASSUME IInv, ~Scripted, Next, NEW Ok, Beginnings(Ok),
         AllIn(deployments, Ok), Ledger(deployments, log),
         stage = "signed" => run.walk.mine \in Ok
  PROVE  AllIn(deployments', Ok) /\ Ledger(deployments', log')
<1>. DEFINE Goal == AllIn(deployments', Ok) /\ Ledger(deployments', log')
            new == NewDeployment
<1>1. deployments \in Seq(Records) /\ DOMAIN deployments = 1 .. Len(deployments)
      /\ Len(deployments) \in Nat /\ Kept
  BY DEF IInv, Kept
<1>2. CASE UNCHANGED <<deployments, log>>
  BY <1>1, <1>2
<1>3. ASSUME log = <<>>, log' = log, deployments' = Append(deployments, new)
      PROVE  Goal
  <2>1. new \in Records /\ new.handed = <<>> /\ new.landed = 0
    BY NewIsRecord DEF NewDeployment
  <2>. HIDE DEF new
  <2>2. /\ DOMAIN deployments' = DOMAIN deployments \union {Len(deployments) + 1}
        /\ Len(deployments') = Len(deployments) + 1 /\ deployments' # <<>>
        /\ deployments'[Len(deployments) + 1] = new
        /\ \A k \in DOMAIN deployments : deployments'[k] = deployments[k]
    BY <1>1, <1>3, <2>1, AppendProperties
  <2>3. AllIn(deployments', Ok)
    BY <2>1, <2>2 DEF AllIn, Beginnings
  <2>4. SubSeq(new.handed, 1, new.landed) = <<>>
    BY <2>1
  <2>. QED
    BY <1>3, <2>2, <2>3, <2>4 DEF Ledger
<1>4. CASE StartWrite
  <2>1. deployments = <<>> /\ deployments' = <<new>> /\ log' = log
    BY <1>4 DEF StartWrite, IInv, Stages
  <2>2. log = <<>>
    BY <1>1, <2>1 DEF Ledger
  <2>3. deployments' = Append(deployments, new)
    BY <2>1
  <2>. QED
    BY <1>3, <2>1, <2>2, <2>3
<1>5. CASE Build
  <2>1. log = <<>> /\ log' = log /\ deployments' = Append(deployments, new)
    BY <1>5, BuildsAfresh DEF Build
  <2>. QED
    BY <1>3, <2>1
<1>6. CASE (Send \/ Accepted \/ Answered4xx \/ NoAnswer) /\ HandOver
  <2>1. stage = "signed" /\ log' = log /\ deployments # <<>>
    BY <1>6 DEF Send, Accepted, Answered4xx, NoAnswer, IInv, Stages
  <2>2. Current \in Records /\ Len(deployments) \in DOMAIN deployments
    BY <1>1, <2>1, CurrentIsRecord
  <2>3. Current.landed = 0
    BY <2>1, <2>2 DEF IInv, Frozen
  <2>4. log = <<>>
    BY <1>1, <2>1, <2>3, NothingLanded
  <2>5. run.walk.mine \in Ok /\ run.walk.mine \in Seq(Mine)
    BY <2>1 DEF IInv, RunShape
  <2>6. PICK nonce \in BOOLEAN : deployments' = [deployments EXCEPT ![Len(deployments)] =
          [Current EXCEPT !.handed = run.walk.mine, !.status = "pending", !.nonce = nonce,
                          !.books = IF Create THEN @ \union {run.walk.book} ELSE @]]
    BY <1>6 DEF HandOver, SetCurrent
  <2>. DEFINE e == [Current EXCEPT !.handed = run.walk.mine, !.status = "pending", !.nonce = nonce,
                                   !.books = IF Create THEN @ \union {run.walk.book} ELSE @]
  <2>7. e.handed = run.walk.mine /\ e.landed = 0
    BY <2>2, <2>3 DEF Records
  <2>8. deployments' = [deployments EXCEPT ![Len(deployments)] = e]
    BY <2>6
  <2>. HIDE DEF e
  <2>9. SubSeq(e.handed, 1, e.landed) = <<>>
    <3>1. e.handed \in Seq(Mine) /\ 0 \in 0 .. Len(e.handed)
      BY <2>5, <2>7
    <3>. QED
      BY <2>7, <3>1, BeginningAgain
  <2>. QED
    BY <1>1, <2>1, <2>2, <2>4, <2>5, <2>7, <2>8, <2>9, OneChanges
<1>7. ASSUME NEW k \in DOMAIN deployments,
             Land(k) \/ Expire(k) \/ GiveUp(k) \/ KeeperCompletes(k)
      PROVE  Goal
  <2>. DEFINE d == deployments[k]
  <2>1. d \in Records /\ d.handed \in Seq(Mine) /\ d.landed \in Nat /\ d.landed <= Len(d.handed)
        /\ d.handed \in Ok
    <3>1. d.handed \in Ok
      BY DEF AllIn
    <3>2. d \in Records /\ d.landed <= Len(d.handed)
      BY <1>1 DEF Kept
    <3>. QED
      BY <3>1, <3>2 DEF Records
  <2>2. d.landed \in 0 .. Len(d.handed) /\ deployments # <<>>
    <3>1. Len(deployments) # 0
      BY <1>1
    <3>2. Len(d.handed) \in Nat
      BY <2>1
    <3>. QED
      BY <2>1, <3>1, <3>2
  <2>3. CASE Land(k)
    <3>. DEFINE e == [d EXCEPT !.landed = @ + 1]
    <3>1. /\ d.landed < Len(d.handed) /\ (d.nonce \/ d.status = "pending")
          /\ deployments' = [deployments EXCEPT ![k] = e]
          /\ log' = Append(log, d.handed[d.landed + 1])
      BY <1>1, <2>1, <2>3 DEF Land
    <3>2. e.handed = d.handed /\ e.landed = d.landed + 1
      BY <2>1 DEF Records
    <3>3. HeaderOut(d)
      BY <2>1, <3>1 DEF HeaderOut
    <3>4. k = Len(deployments)
      BY <3>3 DEF IInv, OnlyLastOut
    <3>5. log = SubSeq(d.handed, 1, d.landed)
      BY <1>1, <2>2, <3>4 DEF Ledger
    <3>6. log' = SubSeq(d.handed, 1, d.landed + 1)
      BY <2>1, <3>1, <3>5, BeginningGrows
    <3>. HIDE DEF e
    <3>7. log' = SubSeq(e.handed, 1, e.landed) /\ e.handed \in Ok
      BY <2>1, <3>2, <3>6
    <3>. QED
      BY <1>1, <3>1, <3>4, <3>7, OneChanges
  <2>4. ASSUME NEW e, deployments' = [deployments EXCEPT ![k] = e], log' = log,
               e.landed = d.landed, e.handed \in {d.handed, SubSeq(d.handed, 1, d.landed)}
        PROVE  Goal
    <3>1. SubSeq(d.handed, 1, d.landed) \in Ok
      BY <2>1, <2>2 DEF Beginnings
    <3>2. SubSeq(SubSeq(d.handed, 1, d.landed), 1, d.landed) = SubSeq(d.handed, 1, d.landed)
      BY <2>1, <2>2, BeginningAgain
    <3>3. e.handed \in Ok
      BY <2>1, <2>4, <3>1
    <3>4. SubSeq(e.handed, 1, e.landed) = SubSeq(d.handed, 1, d.landed)
      BY <2>4, <3>2
    <3>5. k = Len(deployments) => log' = SubSeq(e.handed, 1, e.landed)
      BY <1>1, <2>2, <2>4, <3>4 DEF Ledger
    <3>. QED
      BY <1>1, <2>4, <3>3, <3>5, OneChanges
  <2>5. ASSUME NEW status, Stops(k, status), log' = log PROVE Goal
    <3>. DEFINE e == [d EXCEPT !.status = status,
                               !.handed = IF d.nonce THEN @ ELSE SubSeq(@, 1, d.landed)]
    <3>1. deployments' = [deployments EXCEPT ![k] = e]
      BY <1>1, <2>1, <2>5 DEF Stops, Records
    <3>2. e.handed = (IF d.nonce THEN d.handed ELSE SubSeq(d.handed, 1, d.landed))
          /\ e.landed = d.landed
      BY <2>1 DEF Records
    <3>. HIDE DEF e
    <3>. QED
      BY <2>4, <2>5, <3>1, <3>2
  <2>6. CASE Expire(k) \/ GiveUp(k)
    BY <2>5, <2>6 DEF Expire, GiveUp
  <2>7. CASE KeeperCompletes(k)
    <3>. DEFINE e == [d EXCEPT !.status = "live"]
    <3>1. deployments' = [deployments EXCEPT ![k] = e] /\ log' = log
      BY <1>1, <2>1, <2>7 DEF KeeperCompletes, Records
    <3>2. e.handed = d.handed /\ e.landed = d.landed
      BY <2>1 DEF Records
    <3>. HIDE DEF e
    <3>. QED
      BY <2>4, <3>1, <3>2
  <2>. QED
    BY <1>7, <2>3, <2>6, <2>7
<1>8. CASE ~(StartWrite \/ Build \/ ((Send \/ Accepted \/ Answered4xx \/ NoAnswer) /\ HandOver)
             \/ \E k \in DOMAIN deployments : Land(k) \/ Expire(k) \/ GiveUp(k) \/ KeeperCompletes(k))
  <2>1. UNCHANGED <<deployments, log>>
    BY <1>8 DEF Next, Process, Elsewhere, ReadFails, Judge, Conclude, SignFails, PollLive,
       PollDeadline, PollExpired, PollSignAgain, PollFails, RunAgain, Resume, Kill,
       Send, Accepted, Answered4xx, NoAnswer
  <2>. QED
    BY <1>2, <2>1
<1>. QED
  BY <1>4, <1>5, <1>6, <1>7, <1>8

LEMMA ApprovedBeginnings == Asked => Beginnings(Approvable)
<1>. SUFFICES ASSUME Asked PROVE Beginnings(Approvable)
  OBVIOUS
<1>1. <<>> \in Approvable
  BY NothingApproves DEF Approvable
<1>2. ASSUME NEW s \in Approvable, NEW m \in 0 .. Len(s) PROVE SubSeq(s, 1, m) \in Approvable
  <2>1. Approves(s)
    BY DEF Approvable
  <2>2. Approves(SubSeq(s, 1, m))
    BY <2>1, BeginningApproves
  <2>. QED
    BY <2>2 DEF Approvable, Approves
<1>. QED
  BY <1>1, <1>2 DEF Beginnings

LEMMA SignedIsWhole ==
  ASSUME IInv, Promised, [Next]_vars
  PROVE  (stage = "signed" => Whole)'
<1>. SUFFICES ASSUME stage' = "signed" PROVE Whole'
  OBVIOUS
<1>1. Whole /\ run'.walk = run.walk /\ expect' = expect
  <2>1. CASE Conclude
    <3>1. run'.walk = run.walk /\ expect' = expect
      BY <2>1 DEF Conclude, IInv, RunShape
    <3>2. Whole
      BY <2>1 DEF Conclude, Ends
    <3>. QED
      BY <3>1, <3>2
  <2>2. CASE ~Conclude /\ Next
    <3>1. stage = "signed" /\ UNCHANGED <<run, expect>>
      BY <2>2 DEF Next, Process, Elsewhere, StartWrite, ReadFails, Build, Judge, SignFails, Send,
         Accepted, Answered4xx, NoAnswer, PollLive, PollDeadline, PollExpired, PollSignAgain,
         PollFails, RunAgain, Resume, Kill, Land, Expire, GiveUp, KeeperCompletes, Ends
    <3>. QED
      BY <3>1 DEF Promised
  <2>3. CASE UNCHANGED vars
    BY <2>3 DEF vars, Promised
  <2>. QED
    BY <2>1, <2>2, <2>3
<1>. QED
  BY <1>1 DEF Whole, Create, CompleteCreate, Complete, HeaderLegs

LEMMA PromiseKeeps ==
  ASSUME IInv, AllGood, Promised, ~Scripted, [Next]_vars
  PROVE  Promised'
<1>1. SameAsk
  BY AskUnchanged DEF SameAsk
<1>2. Counted(run.walk)'
  <2>1. Counted(run'.walk)
    BY CountsKeep DEF Promised, vars
  <2>. QED
    BY <1>1, <2>1, CountedPrimed
<1>3. AllIn(deployments', Approvable) /\ Ledger(deployments', log')
  <2>1. stage = "signed" => run.walk.mine \in Approvable
    BY WholeApproves DEF Promised, Counted, AllGood, Approvable, IInv
  <2>2. AllIn(deployments, Approvable) /\ Ledger(deployments, log)
    BY DEF Promised
  <2>. QED
    BY <2>1, <2>2, LedgerKeeps, ApprovedBeginnings DEF IInv, vars
<1>4. AllIn(deployments, Approvable)' /\ Ledger(deployments, log)'
  <2>1. Approvable' = Approvable
    BY <1>1, SameGood, SameApproves DEF Approvable, SameAsk
  <2>. QED
    BY <1>3, <2>1 DEF AllIn, Ledger
<1>. QED
  BY <1>2, <1>4, SignedIsWhole DEF Promised

LEMMA PromiseStarts == Init => Promised
<1>. SUFFICES ASSUME Init PROVE Promised
  OBVIOUS
<1>1. run = StartRun(IF Create THEN "create" ELSE "write") /\ stage = "ready"
      /\ deployments = <<>> /\ log = <<>>
  BY DEF Init
<1>2. run.walk = IF Create THEN StartCreate ELSE StartWalk
  BY <1>1 DEF StartRun
<1>3. Counted(run.walk)
  BY <1>2, CountsStart DEF Counted
<1>4. AllIn(deployments, Approvable) /\ Ledger(deployments, log)
  BY <1>1 DEF AllIn, Ledger
<1>. QED
  BY <1>1, <1>3, <1>4 DEF Promised

(* What has landed is a beginning of what was handed over.                 *)
LEMMA PromiseIsKept ==
  ASSUME IInv, Promised
  PROVE  Refinement!Kept
<1>1. Approves(log)
  <2>1. CASE deployments = <<>>
    BY <2>1, NothingApproves DEF IInv, Promised, Ledger
  <2>2. CASE deployments # <<>>
    <3>1. Current \in Records /\ Len(deployments) \in DOMAIN deployments
          /\ Current = deployments[Len(deployments)]
      BY <2>2, CurrentIsRecord DEF IInv
    <3>2. Current.landed \in 0 .. Len(Current.handed) /\ Approves(Current.handed)
      <4>1. Approves(Current.handed)
        BY <3>1 DEF Promised, AllIn, Approvable
      <4>2. Current.landed \in Nat /\ Current.landed <= Len(Current.handed)
            /\ Current.handed \in Seq(Mine)
        BY <3>1 DEF Records, IInv, Kept
      <4>. QED
        BY <4>1, <4>2
    <3>3. log = SubSeq(Current.handed, 1, Current.landed)
      BY <2>2, <3>1 DEF Promised, Ledger
    <3>. QED
      BY <3>2, <3>3, BeginningApproves DEF IInv
  <2>. QED
    BY <2>1, <2>2
<1>. QED
  BY <1>1, ApprovedLog

LEMMA StepRefines ==
  ASSUME IInv, Promised, ~Scripted, Refinement!Kept', [Next]_vars
  PROVE  [Refinement!Next]_<<expect, log>>
<1>1. ASSUME NEW k \in DOMAIN deployments, Land(k)
      PROVE  Refinement!Execute
  <2>. DEFINE tx == deployments[k].handed[deployments[k].landed + 1]
  <2>1. log' = Append(log, tx) /\ expect' = expect
    BY <1>1 DEF Land
  <2>2. log \in Seq(Mine) /\ tx \in Mine
    <3>1. deployments[k] \in Records /\ deployments[k].landed < Len(deployments[k].handed)
      BY <1>1 DEF IInv, Kept, Land
    <3>2. deployments[k].handed \in Seq(Mine) /\ deployments[k].landed \in Nat
      BY <3>1 DEF Records
    <3>3. deployments[k].landed + 1 \in 1 .. Len(deployments[k].handed)
      BY <3>1, <3>2
    <3>. QED
      BY <3>2, <3>3 DEF IInv, Kept
  <2>. HIDE DEF tx
  <2>3. Len(log') = Len(log) + 1 /\ SubSeq(log', 1, Len(log)) = log
    BY <2>1, <2>2
  <2>. QED
    BY <2>1, <2>3 DEF Refinement!Execute
<1>2. CASE Build
  <2>1. log = <<>> /\ log' = log
    BY <1>2, BuildsAfresh DEF Build, Promised
  <2>. QED
    BY <2>1 DEF Refinement!Next, Refinement!AskAgain
<1>3. CASE ~Build /\ ~(\E k \in DOMAIN deployments : Land(k))
  <2>1. UNCHANGED <<expect, log>>
    BY <1>3 DEF Next, Process, Elsewhere, StartWrite, ReadFails, Judge, Conclude, SignFails, Send,
       Accepted, Answered4xx, NoAnswer, PollLive, PollDeadline, PollExpired, PollSignAgain,
       PollFails, RunAgain, Resume, Kill, Expire, GiveUp, KeeperCompletes, vars
  <2>. QED
    BY <2>1
<1>. QED
  BY <1>1, <1>2, <1>3 DEF Refinement!Next

(* Whatever the api builds, the chain executes in the operator's name only *)
(* what the intent asks for, once, in order and within the ceiling: the    *)
(* run of an operator who reads the message of an exit 2 implements        *)
(* Approved (verbs.js:630-660, create_portfolio.mjs:546), when the         *)
(* manifest pins the allocator.                                            *)
THEOREM RunImplementsApproved ==
  AllocatorPinned /\ ~Scripted => (Spec => LandsAsApproved)
<1>. SUFFICES ASSUME AllocatorPinned, ~Scripted PROVE Spec => LandsAsApproved
  OBVIOUS
<1>. DEFINE K == Refinement!Kept
<1>1. Init => AllGood /\ Refinement!Init
  BY DEF Init, AllGood, StartRun, StartCreate, StartWalk, Refinement!Init
<1>2. IInv /\ AllGood /\ [Next]_vars => AllGood'
  BY GoodIsKept
<1>3. IInv /\ AllGood /\ Promised /\ [Next]_vars => Promised'
  BY PromiseKeeps
<1>4. IInv /\ Promised => K
  BY PromiseIsKept
<1>5. IInv /\ Promised /\ K' /\ [Next]_vars => [Refinement!Next]_<<expect, log>>
  BY StepRefines
<1>. QED
  BY <1>1, <1>2, <1>3, <1>4, <1>5, PromiseStarts, SigningInvariant, PTL
     DEF Spec, LandsAsApproved, Refinement!Spec

(***************************************************************************)
(* The header is the first of what the run signs, so it is executed at     *)
(* most once, whatever allocator the manifest names.                       *)
(***************************************************************************)
Headed == {s \in Seq(Mine) : \A n \in DOMAIN s : IsHeader(s[n]) => n = 1}
Booked ==
  /\ Counted(run.walk) /\ run.walk.mine \in Headed
  /\ AllIn(deployments, Headed) /\ Ledger(deployments, log)

LEMMA HeadedBeginnings == Beginnings(Headed)
<1>1. <<>> \in Headed
  BY DEF Headed
<1>2. ASSUME NEW s \in Headed, NEW m \in 0 .. Len(s) PROVE SubSeq(s, 1, m) \in Headed
  <2>1. s \in Seq(Mine) /\ m \in Nat /\ \A n \in DOMAIN s : IsHeader(s[n]) => n = 1
    BY DEF Headed
  <2>. DEFINE t == SubSeq(s, 1, m)
  <2>2. t \in Seq(Mine) /\ DOMAIN t = 1 .. m /\ \A n \in 1 .. m : t[n] = s[n] /\ n \in DOMAIN s
    BY <2>1, SubSeqProperties
  <2>. HIDE DEF t
  <2>3. t \in Headed
    BY <2>1, <2>2 DEF Headed
  <2>. QED
    BY <2>3 DEF t
<1>. QED
  BY <1>1, <1>2 DEF Beginnings

LEMMA HeadFirst ==
  ASSUME IInv, Booked, Next
  PROVE  run'.walk.mine \in Headed
<1>1. CASE run'.walk = run.walk
  BY <1>1 DEF Booked
<1>2. CASE run'.walk = StartCreate
  BY <1>2 DEF StartCreate, Headed
<1>3. ASSUME NEW tx \in Offered, NEW fresh, Passes(tx, fresh), run'.walk = Taken(tx, fresh)
      PROVE  run'.walk.mine \in Headed
  <2>1. tx \in Mine /\ run.walk.mine \in Seq(Mine)
        /\ \A n \in DOMAIN run.walk.mine : IsHeader(run.walk.mine[n]) => n = 1
    BY DEF Offered, Mine, Booked, Headed
  <2>2. CASE run'.walk.mine = run.walk.mine
    BY <2>2 DEF Booked
  <2>3. ASSUME run'.walk.mine = Append(run.walk.mine, tx), IsHeader(tx) => run.walk.mine = <<>>
        PROVE  run'.walk.mine \in Headed
    <3>. DEFINE t == Append(run.walk.mine, tx)
    <3>1. /\ t \in Seq(Mine) /\ DOMAIN t = 1 .. Len(run.walk.mine) + 1
          /\ t[Len(run.walk.mine) + 1] = tx /\ Len(run.walk.mine) \in Nat
          /\ DOMAIN run.walk.mine = 1 .. Len(run.walk.mine)
          /\ \A n \in DOMAIN run.walk.mine : t[n] = run.walk.mine[n]
      BY <2>1, AppendProperties
    <3>2. IsHeader(tx) => Len(run.walk.mine) = 0
      BY <2>3
    <3>. HIDE DEF t
    <3>3. ASSUME NEW n \in DOMAIN t, IsHeader(t[n]) PROVE n = 1
      <4>1. n \in DOMAIN run.walk.mine \/ n = Len(run.walk.mine) + 1
        BY <3>1
      <4>2. CASE n \in DOMAIN run.walk.mine
        BY <2>1, <3>1, <3>3, <4>2
      <4>3. CASE n = Len(run.walk.mine) + 1
        BY <3>1, <3>2, <3>3, <4>3
      <4>. QED
        BY <4>1, <4>2, <4>3
    <3>. QED
      BY <2>3, <3>1, <3>3 DEF Headed, t
  <2>4. CASE Create
    <3>1. AcceptsCreate(run.walk, tx, expect, fresh) /\ CreateWalk(run.walk)
      BY <1>3, <2>4 DEF Passes, IInv, RunShape
    <3>2. run'.walk.mine \in {run.walk.mine, Append(run.walk.mine, tx)}
      BY <1>3, <2>1, <2>4, <3>1, WalkKeepsShape DEF Taken
    <3>3. IsHeader(tx) => run.walk.mine = <<>>
      <4>1. IsHeader(tx) => run.walk.at = 0
        BY <3>1 DEF AcceptsCreate, AcceptsKeeper, AcceptsCreator, CreatorInPlace, IsHeader, KeeperSteps
      <4>2. run.walk.at = 0 => run.walk.mine = <<>>
        BY <2>4 DEF Booked, Counted, CreateCounts
      <4>. QED
        BY <4>1, <4>2
    <3>. QED
      BY <2>2, <2>3, <3>2, <3>3
  <2>5. CASE ~Create
    <3>1. run'.walk.mine = Append(run.walk.mine, tx)
      BY <1>3, <2>5 DEF Taken, After
    <3>2. /\ tx.step \in ExpectedSteps[expect.verb].pre \union {ExpectedSteps[expect.verb].primary}
          /\ expect.verb \in DOMAIN ExpectedSteps
      BY <1>3, <2>5 DEF Passes, Accepts, InPlace, IInv, Asked, Create
    <3>3. ~IsHeader(tx)
      BY <3>2 DEF IsHeader, ExpectedSteps, Verb
    <3>. QED
      BY <2>3, <3>1, <3>3
  <2>. QED
    BY <2>4, <2>5
<1>. QED
  BY <1>1, <1>2, <1>3, WalkMoves

(* The operator pays for one book: over every run, resume, re-sign,        *)
(* silence and crash of one who reads the message of an exit 2, at most    *)
(* one header is executed (create_portfolio.mjs:441-445).                  *)
THEOREM OneBookPaid == ~Scripted => (Spec => []OneBook)
<1>. SUFFICES ASSUME ~Scripted PROVE Spec => []OneBook
  OBVIOUS
<1>1. Init => Booked
  <2>. SUFFICES ASSUME Init PROVE Booked
    OBVIOUS
  <2>1. run.walk = (IF Create THEN StartCreate ELSE StartWalk) /\ deployments = <<>> /\ log = <<>>
    BY DEF Init, StartRun
  <2>2. Counted(run.walk)
    BY <2>1, CountsStart DEF Counted
  <2>3. run.walk.mine \in Headed
    BY <2>1 DEF StartCreate, StartWalk, Headed
  <2>. QED
    BY <2>1, <2>2, <2>3 DEF Booked, AllIn, Ledger
<1>2. IInv /\ Booked /\ [Next]_vars => Booked'
  <2>. SUFFICES ASSUME IInv, Booked, [Next]_vars PROVE Booked'
    OBVIOUS
  <2>1. SameAsk
    BY AskUnchanged DEF SameAsk
  <2>2. Headed' = Headed
    BY <2>1 DEF Headed, Mine, SameAsk
  <2>3. Counted(run'.walk) /\ run'.walk.mine \in Headed
    BY CountsKeep, HeadFirst DEF Booked, vars
  <2>4. AllIn(deployments', Headed) /\ Ledger(deployments', log')
    <3>1. AllIn(deployments, Headed) /\ Ledger(deployments, log) /\ run.walk.mine \in Headed
      BY DEF Booked
    <3>. QED
      BY <3>1, LedgerKeeps, HeadedBeginnings DEF vars
  <2>5. Counted(run.walk)'
    BY <2>1, <2>3, CountedPrimed
  <2>. QED
    BY <2>2, <2>3, <2>4, <2>5 DEF Booked, AllIn, Ledger
<1>3. IInv /\ Booked => OneBook
  <2>. SUFFICES ASSUME IInv, Booked PROVE OneBook
    OBVIOUS
  <2>1. log \in Headed
    <3>1. CASE deployments = <<>>
      BY <3>1, HeadedBeginnings DEF Booked, Ledger, Beginnings
    <3>2. CASE deployments # <<>>
      <4>1. Current \in Records /\ Len(deployments) \in DOMAIN deployments
            /\ Current = deployments[Len(deployments)]
        BY <3>2, CurrentIsRecord DEF IInv
      <4>2. Current.handed \in Headed /\ Current.landed \in 0 .. Len(Current.handed)
        <5>1. Current.handed \in Headed
          BY <4>1 DEF Booked, AllIn
        <5>2. Current.landed \in Nat /\ Current.landed <= Len(Current.handed)
              /\ Current.handed \in Seq(Mine)
          BY <4>1 DEF Records, IInv, Kept
        <5>. QED
          BY <5>1, <5>2
      <4>3. log = SubSeq(Current.handed, 1, Current.landed)
        BY <3>2, <4>1 DEF Booked, Ledger
      <4>. QED
        BY <4>2, <4>3, HeadedBeginnings DEF Beginnings
    <3>. QED
      BY <3>1, <3>2
  <2>2. {n \in DOMAIN log : IsHeader(log[n])} \in SUBSET {1}
    BY <2>1 DEF Headed
  <2>3. IsFiniteSet({1}) /\ Cardinality({1}) = 1
    BY FS_Singleton
  <2>. DEFINE H == {n \in DOMAIN log : IsHeader(log[n])}
  <2>. HIDE DEF H
  <2>4. Cardinality(H) <= 1
    <3>1. H \in SUBSET {1}
      BY <2>2 DEF H
    <3>2. Cardinality(H) <= Cardinality({1})
      BY <2>3, <3>1, FS_Subset
    <3>. QED
      BY <2>3, <3>2
  <2>. QED
    BY <2>4 DEF OneBook, H
<1>. QED
  BY <1>1, <1>2, <1>3, SigningInvariant, PTL DEF Spec

-----------------------------------------------------------------------------
(***************************************************************************)
(* No correct payload is refused.  What a correct transaction carries, in  *)
(* the decoder's words.                                                    *)
(***************************************************************************)
LEMMA HoldsOne ==
  ASSUME NEW tx, NEW op, HasOne(tx, op)
  PROVE  /\ CountOf(tx, op) = 1
         /\ \E j \in DOMAIN tx.ixs : Holding(tx, op) = {j} /\ Only(tx, op) = tx.ixs[j] /\ tx.ixs[j].op = op
<1>1. PICK j \in DOMAIN tx.ixs : Holding(tx, op) = {j}
  BY DEF HasOne
<1>2. CountOf(tx, op) = Cardinality(Holding(tx, op))
  BY DEF CountOf, Holding
<1>3. Cardinality({j}) = 1
  BY FS_Singleton
<1>4. tx.ixs[j].op = op /\ \A i \in DOMAIN tx.ixs : tx.ixs[i].op = op <=> i = j
  BY <1>1 DEF Holding
<1>5. Only(tx, op) = tx.ixs[j]
  BY <1>4 DEF Only
<1>. QED
  BY <1>1, <1>2, <1>3, <1>4, <1>5

LEMMA InstructionsOf ==
  ASSUME NEW tx, Encoded(tx)
  PROVE  /\ Len(tx.ixs) \in Nat /\ DOMAIN tx.ixs = 1 .. Len(tx.ixs)
         /\ \A i \in DOMAIN tx.ixs : tx.ixs[i] \in Range(tx.ixs)
         /\ Parses(tx)
         /\ \A fresh : fresh \/ tx.tables = {} =>
              \A ix \in Range(tx.ixs) : \A role : Sees(ix, role, fresh) = ix.acct[role]
<1>1. tx.ixs \in Seq(Range(tx.ixs))
  BY DEF Encoded, IsList
<1>2. Parses(tx)
  BY DEF Encoded, Parses
<1>3. ASSUME NEW fresh, fresh \/ tx.tables = {}, NEW ix \in Range(tx.ixs), NEW role
      PROVE  Sees(ix, role, fresh) = ix.acct[role]
  BY <1>3 DEF Encoded, Sees
<1>. QED
  BY <1>1, <1>2, <1>3 DEF Range

(* What every transaction of the operator's is accepted for, the table     *)
(* read or not.                                                            *)
LEMMA FormedPasses ==
  ASSUME NEW tx, Formed(tx)
  PROVE  Decodes(tx) /\ PaidByMe(tx) /\ CarriesItsStep(tx)
<1>. DEFINE rule == StepRules[tx.step]
<1>1. Encoded(tx) /\ Parses(tx) /\ \A i \in DOMAIN tx.ixs : tx.ixs[i] \in Range(tx.ixs)
  BY InstructionsOf DEF Formed
<1>2. \A i \in DOMAIN tx.ixs :
        /\ tx.ixs[i].program = "known"
        /\ tx.ixs[i].op \in AlwaysAllowed \union rule.required \union rule.optional
  BY <1>1 DEF Formed
<1>3. \A op \in rule.required : CountOf(tx, op) = 1
  BY HoldsOne DEF Formed
<1>4. tx.step = "create_custody" => CountOf(tx, "create_ata") > 0
  <2>. SUFFICES ASSUME tx.step = "create_custody" PROVE CountOf(tx, "create_ata") > 0
    OBVIOUS
  <2>1. CountOf(tx, "create_ata") = Cardinality(Holding(tx, "create_ata"))
    BY DEF CountOf, Holding
  <2>2. IsFiniteSet(Holding(tx, "create_ata"))
    <3>1. Holding(tx, "create_ata") \in SUBSET (1 .. Len(tx.ixs)) /\ Len(tx.ixs) \in Nat
      BY <1>1, InstructionsOf DEF Holding
    <3>2. IsFiniteSet(1 .. Len(tx.ixs))
      BY <3>1, FS_Interval
    <3>. QED
      BY <3>1, <3>2, FS_Subset
  <2>3. Holding(tx, "create_ata") # {}
    BY DEF Formed
  <2>. QED
    BY <2>1, <2>2, <2>3, FS_EmptySet, FS_CardinalityType
<1>5. CarriesItsStep(tx)
  BY <1>2, <1>3, <1>4 DEF CarriesItsStep
<1>6. PaidByMe(tx)
  BY DEF Formed, PaidByMe
<1>. QED
  BY <1>1, <1>2, <1>5, <1>6 DEF Decodes, Allowed

(* The same of its accounts and arguments, with the table.                 *)
LEMMA WriteFits ==
  ASSUME NEW tx, Formed(tx), NEW ask, \A ix \in Range(tx.ixs) : Carries(ix, tx.step, ask),
         NEW fresh, fresh \/ tx.tables = {}
  PROVE  Fits(tx, ask, fresh)
<1>. SUFFICES ASSUME NEW i \in DOMAIN tx.ixs
              PROVE  /\ RightAccounts(tx.ixs[i], fresh) /\ RightArguments(tx.ixs[i], ask)
                     /\ RightRent(tx.ixs[i], tx.step, fresh)
  BY DEF Fits
<1>. DEFINE ix == tx.ixs[i]
<1>1. ix \in Range(tx.ixs) /\ \A role : Sees(ix, role, fresh) = ix.acct[role]
  BY InstructionsOf DEF Formed
<1>2. Carries(ix, tx.step, ask)
  BY <1>1
<1>. HIDE DEF ix
<1>3. RightAccounts(ix, fresh)
  BY <1>1, <1>2 DEF RightAccounts, Carries
<1>4. RightArguments(ix, ask)
  BY <1>2 DEF RightArguments, Carries, Accounts
<1>5. RightRent(ix, tx.step, fresh)
  BY <1>1, <1>2 DEF RightRent, Carries, Unresolved
<1>. QED
  BY <1>3, <1>4, <1>5 DEF ix

LEMMA PageIsNumber ==
  ASSUME NEW tx, Formed(tx), NEW page, NumberedAs(tx, page), NEW op, StepRules[tx.step].required = {op}
  PROVE  PageOf(tx) = page /\ NamesItsPage(tx) /\ Only(tx, op).page = page
<1>1. PICK j \in DOMAIN tx.ixs : Holding(tx, op) = {j} /\ Only(tx, op) = tx.ixs[j] /\ tx.ixs[j].op = op
  <2>1. HasOne(tx, op)
    BY DEF Formed
  <2>. QED
    BY <2>1, HoldsOne
<1>2. tx.ixs[j] \in Range(tx.ixs)
  BY <1>1, InstructionsOf DEF Formed
<1>3. tx.ixs[j].page = page
  BY <1>1, <1>2 DEF NumberedAs
<1>4. \A i \in DOMAIN tx.ixs : tx.ixs[i].op \in StepRules[tx.step].required <=> i = j
  BY <1>1 DEF Holding
<1>5. PageOf(tx) = page
  BY <1>1, <1>3, <1>4 DEF PageOf
<1>6. NamesItsPage(tx)
  BY <1>5 DEF NamesItsPage, NumberedAs
<1>. QED
  BY <1>1, <1>3, <1>5, <1>6

(***************************************************************************)
(* How far the walk of a write verb's correct payload p has come with its  *)
(* first n transactions, `before` of p being preparatory.                  *)
(***************************************************************************)
WriteWalked(ask, w, p, before, n) ==
  LET verb == ExpectedSteps[ask.verb]
  IN  /\ w.primaries = IF n <= before THEN 0 ELSE n - before
      /\ n <= before => w.pre = {p[i].step : i \in 1 .. n}
      /\ w.pages = IF verb.paged THEN [i \in 1 .. w.primaries |-> i - 1] ELSE <<>>

LEMMA VerbsTable ==
  ASSUME NEW name \in DOMAIN ExpectedSteps
  PROVE  LET verb == ExpectedSteps[name]
         IN  /\ verb.primary \notin verb.pre
             /\ verb.paged = StepRules[verb.primary].paged
             /\ verb.paged => \E op : StepRules[verb.primary].required = {op}
             /\ \A step \in verb.pre : ~StepRules[step].paged
<1>. DEFINE verb == ExpectedSteps[name]
            rule == StepRules[verb.primary]
<1>1. CASE name \in {"propose", "cancel", "rotateCurator", "setDelay", "setMetadata", "deposit", "withdraw"}
  <2>1. verb.pre = {} /\ verb.paged = FALSE /\ rule.paged = FALSE
    BY <1>1 DEF ExpectedSteps, Verb, StepRules, Rule, Paged
  <2>. QED
    BY <2>1
<1>2. CASE name = "apply"
  <2>1. /\ verb.pre = {"create_custody"} /\ verb.primary = "apply_targets"
        /\ verb.paged = TRUE /\ rule.paged = TRUE /\ rule.required = {"apply_targets"}
        /\ StepRules["create_custody"].paged = FALSE
    BY <1>2 DEF ExpectedSteps, Verb, StepRules, Rule, Paged
  <2>. QED
    BY <2>1
<1>3. CASE name = "refreshNav"
  <2>1. /\ verb.pre = {} /\ verb.paged = TRUE /\ rule.paged = TRUE
        /\ rule.required = {"crank_nav_page"}
    BY <1>3 DEF ExpectedSteps, Verb, StepRules, Rule, Paged
  <2>. QED
    BY <2>1
<1>. QED
  BY <1>1, <1>2, <1>3 DEF ExpectedSteps

LEMMA PagesOn ==
  ASSUME NEW n \in Nat
  PROVE  Append([i \in 1 .. n |-> i - 1], n) = [i \in 1 .. n + 1 |-> i - 1]
<1>. DEFINE s == [i \in 1 .. n |-> i - 1]
            t == [i \in 1 .. n + 1 |-> i - 1]
<1>1. s \in Seq(Int) /\ Len(s) = n
  OBVIOUS
<1>2. /\ Append(s, n) \in Seq(Int) /\ Len(Append(s, n)) = n + 1
      /\ \A i \in 1 .. n : Append(s, n)[i] = i - 1
      /\ Append(s, n)[n + 1] = n
  BY <1>1, AppendProperties
<1>3. t \in Seq(Int) /\ Len(t) = n + 1
  OBVIOUS
<1>. HIDE DEF s
<1>4. ASSUME NEW i \in 1 .. n + 1 PROVE Append(s, n)[i] = t[i]
  <2>1. i \in 1 .. n \/ i = n + 1
    OBVIOUS
  <2>. QED
    BY <1>2, <2>1
<1>5. Append(s, n) = t
  <2>. HIDE DEF t
  <2>. QED
    BY <1>2, <1>3, <1>4, SeqEqual
<1>. QED
  BY <1>5 DEF s, t

LEMMA WriteStarts ==
  ASSUME NEW p, NEW ask, NEW before \in Nat
  PROVE  WriteWalked(ask, StartWalk, p, before, 0)
<1>1. {p[i].step : i \in 1 .. 0} = {} /\ [i \in 1 .. 0 |-> i - 1] = <<>>
  OBVIOUS
<1>. QED
  BY <1>1 DEF WriteWalked, StartWalk

LEMMA WriteOn ==
  ASSUME Asked, ~Create, NEW p, IsList(p), WellBuiltWrite(p, expect),
         NEW before \in 0 .. Len(p) - 1, PreThenPrimary(p, ExpectedSteps[expect.verb], before),
         NEW n \in 0 .. Len(p) - 1, NEW w, WriteWalked(expect, w, p, before, n), NEW fresh
  PROVE  /\ fresh \/ p[n + 1].tables = {} =>
              Verifiable(expect) /\ Accepts(w, p[n + 1], expect, fresh)
         /\ WriteWalked(expect, After(w, p[n + 1], expect), p, before, n + 1)
<1>. DEFINE verb == ExpectedSteps[expect.verb]
            tx == p[n + 1]
            a == After(w, tx, expect)
<1>1. expect.verb \in DOMAIN ExpectedSteps
  BY DEF Asked, Create
<1>2. /\ verb.primary \notin verb.pre
      /\ verb.paged = StepRules[verb.primary].paged
      /\ verb.paged => \E op : StepRules[verb.primary].required = {op}
      /\ \A step \in verb.pre : ~StepRules[step].paged
  BY <1>1, VerbsTable
<1>3. Len(p) \in Nat /\ DOMAIN p = 1 .. Len(p) /\ n + 1 \in DOMAIN p /\ n \in Nat /\ before \in Nat
  BY DEF IsList
<1>4. Formed(tx) /\ \A ix \in Range(tx.ixs) : Carries(ix, tx.step, expect)
  BY <1>3 DEF WellBuiltWrite
<1>5. /\ \A i \in 1 .. before : p[i].step \in verb.pre
      /\ \A i, j \in 1 .. before : p[i].step = p[j].step => i = j
      /\ \A i \in before + 1 .. Len(p) : p[i].step = verb.primary
      /\ verb.paged => \A i \in before + 1 .. Len(p) : NumberedAs(p[i], i - before - 1)
      /\ ~verb.paged => Len(p) = before + 1
  BY DEF PreThenPrimary
<1>6. /\ w.primaries = IF n <= before THEN 0 ELSE n - before
      /\ n <= before => w.pre = {p[i].step : i \in 1 .. n}
      /\ w.pages = IF verb.paged THEN [i \in 1 .. w.primaries |-> i - 1] ELSE <<>>
  BY DEF WriteWalked
<1>7. /\ a.primaries = w.primaries + (IF tx.step = verb.primary THEN 1 ELSE 0)
      /\ a.pre = w.pre \union ({tx.step} \intersect verb.pre)
      /\ a.pages = IF StepRules[tx.step].paged THEN Append(w.pages, PageOf(tx)) ELSE w.pages
  BY DEF After
<1>8. Decodes(tx) /\ PaidByMe(tx) /\ CarriesItsStep(tx)
  BY <1>4, FormedPasses
<1>9. fresh \/ tx.tables = {} => Fits(tx, expect, fresh)
  BY <1>4, WriteFits
<1>10. Verifiable(expect)
  BY DEF Verifiable, WellBuiltWrite
<1>. HIDE DEF a, tx, verb
<1>11. CASE n + 1 <= before
  <2>1. tx.step \in verb.pre /\ tx.step # verb.primary /\ ~StepRules[tx.step].paged
    BY <1>2, <1>3, <1>5, <1>11 DEF tx
  <2>2. n <= before /\ w.primaries = 0 /\ w.pre = {p[i].step : i \in 1 .. n}
    BY <1>3, <1>6, <1>11
  <2>3. tx.step \notin w.pre
    <3>1. ASSUME NEW i \in 1 .. n PROVE p[i].step # p[n + 1].step
      <4>1. i \in 1 .. before /\ n + 1 \in 1 .. before /\ i # n + 1
        BY <1>3, <1>11
      <4>. QED
        BY <1>5, <4>1
    <3>. QED
      BY <2>2, <3>1 DEF tx
  <2>4. InPlace(w, tx.step, verb) /\ NamesItsPage(tx)
    BY <2>1, <2>2, <2>3 DEF InPlace, NamesItsPage
  <2>5. a.pre = {p[i].step : i \in 1 .. n + 1}
    <3>1. a.pre = {p[i].step : i \in 1 .. n} \union {tx.step}
      BY <1>7, <2>1, <2>2
    <3>2. 1 .. n + 1 = 1 .. n \union {n + 1}
      BY <1>3
    <3>. QED
      BY <3>1, <3>2 DEF tx
  <2>6. a.primaries = 0 /\ a.pages = w.pages
    BY <1>7, <2>1, <2>2
  <2>7. WriteWalked(expect, a, p, before, n + 1)
    BY <1>6, <1>11, <2>2, <2>5, <2>6 DEF WriteWalked, verb
  <2>. QED
    BY <1>8, <1>9, <1>10, <2>4, <2>7 DEF Accepts, a, tx, verb
<1>12. CASE ~(n + 1 <= before)
  <2>1. n + 1 \in before + 1 .. Len(p) /\ n - before \in Nat
    BY <1>3, <1>12
  <2>2. tx.step = verb.primary /\ w.primaries = n - before /\ a.primaries = n + 1 - before
    <3>1. tx.step = verb.primary
      BY <1>5, <2>1 DEF tx
    <3>2. w.primaries = n - before
      <4>1. n <= before => n - before = 0
        BY <1>3, <1>12
      <4>. QED
        BY <1>6, <4>1
    <3>3. a.primaries = w.primaries + 1
      BY <1>7, <3>1
    <3>. QED
      BY <1>3, <3>1, <3>2, <3>3
  <2>3. CASE verb.paged
    <3>1. NumberedAs(tx, n - before)
      <4>1. n + 1 - before - 1 = n - before
        BY <1>3
      <4>. QED
        BY <1>5, <2>1, <2>3, <4>1 DEF tx
    <3>2. PageOf(tx) = n - before /\ NamesItsPage(tx)
      BY <1>2, <1>4, <2>2, <2>3, <3>1, PageIsNumber
    <3>3. InPlace(w, tx.step, verb)
      BY <2>2, <2>3 DEF InPlace
    <3>4. a.pages = Append([i \in 1 .. n - before |-> i - 1], n - before)
      BY <1>2, <1>6, <1>7, <2>2, <2>3, <3>2
    <3>5. a.pages = [i \in 1 .. a.primaries |-> i - 1]
      <4>1. n - before + 1 = a.primaries
        BY <1>3, <2>2
      <4>. QED
        BY <2>1, <3>4, <4>1, PagesOn
    <3>6. WriteWalked(expect, a, p, before, n + 1)
      BY <1>12, <2>2, <2>3, <3>5 DEF WriteWalked, verb
    <3>. QED
      BY <1>8, <1>9, <1>10, <3>2, <3>3, <3>6 DEF Accepts, a, tx, verb
  <2>4. CASE ~verb.paged
    <3>1. n = before /\ w.primaries = 0
      <4>1. Len(p) = before + 1
        BY <1>5, <2>4
      <4>2. n = before
        BY <1>3, <1>12, <2>1, <4>1
      <4>. QED
        BY <1>3, <2>2, <4>2
    <3>2. InPlace(w, tx.step, verb) /\ NamesItsPage(tx)
      BY <1>2, <2>2, <2>4, <3>1 DEF InPlace, NamesItsPage
    <3>3. a.pages = <<>>
      BY <1>2, <1>6, <1>7, <2>2, <2>4
    <3>4. WriteWalked(expect, a, p, before, n + 1)
      BY <1>12, <2>2, <2>4, <3>3 DEF WriteWalked, verb
    <3>. QED
      BY <1>8, <1>9, <1>10, <3>2, <3>4 DEF Accepts, a, tx, verb
  <2>. QED
    BY <2>3, <2>4
<1>. QED
  BY <1>11, <1>12

LEMMA WriteEnds ==
  ASSUME NEW p, IsList(p), NEW before \in 0 .. Len(p) - 1, NEW w,
         WriteWalked(expect, w, p, before, Len(p))
  PROVE  Complete(w, expect)
<1>1. Len(p) \in Nat /\ ~(Len(p) <= before)
  BY DEF IsList
<1>2. w.primaries = Len(p) - before
  BY <1>1 DEF WriteWalked
<1>3. w.pages = [i \in 1 .. w.primaries |-> i - 1] \/ w.pages = <<>>
  <2>. DEFINE v == ExpectedSteps[expect.verb]
  <2>1. w.pages = IF v.paged THEN [i \in 1 .. w.primaries |-> i - 1] ELSE <<>>
    BY DEF WriteWalked
  <2>. HIDE DEF v
  <2>. QED
    BY <2>1
<1>4. InSequence(w.pages)
  <2>1. CASE w.pages = <<>>
    BY <2>1 DEF InSequence
  <2>2. CASE w.pages = [i \in 1 .. w.primaries |-> i - 1]
    <3>1. DOMAIN w.pages = 1 .. w.primaries /\ \A i \in 1 .. w.primaries : w.pages[i] = i - 1
      BY <2>2
    <3>. QED
      BY <3>1 DEF InSequence
  <2>. QED
    BY <1>3, <2>1, <2>2
<1>. QED
  BY <1>1, <1>2, <1>4 DEF Complete

(***************************************************************************)
(* A create.  Its fee, its accounts, its legs put together.                *)
(***************************************************************************)
LEMMA AskIsIntent ==
  ASSUME Asked
  PROVE  \E i \in Intents :
           /\ i.verb = expect.verb /\ i.legs = expect.legs /\ i.arg = expect.arg
           /\ i.maxLamports = expect.maxLamports /\ i.maxPriority = expect.maxPriority
           /\ IsList(i.legs) /\ i.maxLamports \in Nat /\ i.maxPriority \in Nat
<1>1. PICK i \in Intents : expect = [i EXCEPT !.echo = expect.echo, !.quote = expect.quote]
  BY DEF Asked
<1>2. /\ i = [verb |-> i.verb, legs |-> i.legs, arg |-> i.arg, echo |-> "absent", quote |-> NoQuote,
              maxLamports |-> i.maxLamports, maxPriority |-> i.maxPriority]
      /\ i.maxLamports \in Nat /\ i.maxPriority \in Nat /\ IsList(i.legs)
  BY IntentsAssumption
<1>3. /\ i.verb = expect.verb /\ i.legs = expect.legs /\ i.arg = expect.arg
      /\ i.maxLamports = expect.maxLamports /\ i.maxPriority = expect.maxPriority
  BY <1>1, <1>2
<1>. QED
  BY <1>2, <1>3

LEMMA CeilingFits ==
  ASSUME NEW x \in Nat, NEW most \in Nat, NEW c \in Nat \ {0}, x <= most * c
  PROVE  (x + c - 1) \div c <= most
<1>. DEFINE z == x + c - 1
            q == z \div c
            r == z % c
            mc == most * c
<1>1. z \in Nat
  OBVIOUS
<1>2. mc \in Nat /\ x <= mc
  OBVIOUS
<1>3. z <= mc + c - 1
  <2>. HIDE DEF mc
  <2>. QED
    BY <1>2
<1>. HIDE DEF z
<1>4. z = c * q + r /\ r \in 0 .. c - 1 /\ q \in Int
  BY <1>1
<1>5. c * q <= mc + c - 1
  <2>. DEFINE cq == c * q
  <2>1. cq \in Int /\ z = cq + r /\ r \in Nat
    BY <1>4
  <2>. HIDE DEF cq, r, mc
  <2>2. cq <= mc + c - 1
    BY <1>1, <1>2, <1>3, <2>1
  <2>. QED
    BY <2>2 DEF cq
<1>. HIDE DEF q
<1>6. q <= most
  BY <1>4, <1>5, Z3
<1>. QED
  BY <1>6 DEF q, z

LEMMA FeeFits ==
  ASSUME Asked, NEW tx \in Mine, Budgeted(tx, expect)
  PROVE  PriorityFee(tx) <= expect.maxPriority
<1>. DEFINE prices == Values(tx, "set_price")
            limits == Values(tx, "set_limit")
            n == Len(tx.ixs)
            f == [i \in 1 .. n |-> tx.ixs[i].n]
            units == IF limits = {} THEN ComputeCap ELSE Least(Largest(limits), ComputeCap)
            top == Largest({0} \union prices)
            most == expect.maxPriority
<1>1. n \in Nat /\ DOMAIN tx.ixs = 1 .. n /\ \A i \in 1 .. n : f[i] \in Nat /\ f[i] = tx.ixs[i].n
  BY MineHasNumbers
<1>2. most \in Nat /\ MicroLamports \in Nat \ {0} /\ ComputeCap \in Nat
  BY AskIsIntent, SizesAssumption
<1>3. PriorityFee(tx) = (units * top + MicroLamports - 1) \div MicroLamports
  BY DEF PriorityFee
<1>4. units \in Nat
  <2>1. CASE limits = {}
    BY <1>2, <2>1
  <2>2. CASE limits # {}
    <3>1. limits \in SUBSET ({0} \union {f[i] : i \in 1 .. n})
      BY <1>1 DEF Values
    <3>2. \A x \in limits : x \in Nat
      BY <1>1 DEF Values
    <3>3. PICK m \in limits : \A x \in limits : x <= m
      <4>1. n \in Nat /\ \A i \in 1 .. n : f[i] \in Nat
        BY <1>1
      <4>. HIDE DEF limits, f, n
      <4>. QED
        BY <2>2, <3>1, <4>1, LargestOf
    <3>4. Largest(limits) \in limits
      <4>. HIDE DEF limits
      <4>. QED
        BY <3>3 DEF Largest
    <3>5. Largest(limits) \in Nat
      <4>. HIDE DEF limits
      <4>. QED
        BY <3>2, <3>4
    <3>6. Least(Largest(limits), ComputeCap) \in Nat
      <4>. HIDE DEF limits
      <4>. QED
        BY <1>2, <3>5 DEF Least
    <3>. QED
      BY <2>2, <3>6
  <2>. QED
    BY <2>1, <2>2
<1>5. units * top <= most * MicroLamports /\ units * top \in Nat
  <2>1. CASE Holding(tx, "set_price") = {}
    <3>1. prices = {}
      BY <2>1 DEF Values, Holding
    <3>2. top = 0
      BY <3>1 DEF Largest
    <3>. HIDE DEF units, top, most
    <3>3. units * top = 0
      BY <1>4, <3>2
    <3>4. most * MicroLamports \in Nat
      BY <1>2
    <3>. QED
      BY <3>3, <3>4
  <2>2. CASE Holding(tx, "set_price") # {}
    <3>1. PICK i \in Holding(tx, "set_price"), j \in Holding(tx, "set_limit") :
            /\ Holding(tx, "set_price") = {i} /\ Holding(tx, "set_limit") = {j}
            /\ Least(tx.ixs[j].n, ComputeCap) * tx.ixs[i].n <= most * MicroLamports
      BY <2>2 DEF Budgeted
    <3>2. tx.ixs[i].n \in Nat /\ tx.ixs[j].n \in Nat
      BY <1>1 DEF Holding
    <3>3. prices = {tx.ixs[i].n} /\ limits = {tx.ixs[j].n}
      BY <3>1 DEF Values, Holding
    <3>4. top = tx.ixs[i].n
      <4>. DEFINE x == tx.ixs[i].n
                  S == {0, x}
      <4>1. top = CHOOSE m \in S : \A y \in S : y <= m
        BY <3>3 DEF Largest
      <4>2. x \in Nat
        BY <3>2
      <4>. HIDE DEF x, top
      <4>3. \A m \in S : (\A y \in S : y <= m) => m = x
        BY <4>2
      <4>4. x \in S /\ \A y \in S : y <= x
        BY <4>2
      <4>. HIDE DEF S
      <4>5. top = x
        BY <4>1, <4>3, <4>4
      <4>. QED
        BY <4>5 DEF x
    <3>5. units = Least(tx.ixs[j].n, ComputeCap)
      <4>1. Largest({tx.ixs[j].n}) = tx.ixs[j].n
        BY <3>2 DEF Largest
      <4>. QED
        BY <3>3, <4>1
    <3>6. units * top \in Nat
      <4>. HIDE DEF units, top
      <4>. QED
        BY <1>4, <3>2, <3>4
    <3>. QED
      BY <3>1, <3>4, <3>5, <3>6
  <2>. QED
    BY <2>1, <2>2
<1>6. (units * top + MicroLamports - 1) \div MicroLamports <= most
  <2>. DEFINE x == units * top
  <2>1. x \in Nat /\ x <= most * MicroLamports
    BY <1>5
  <2>. HIDE DEF x, most
  <2>2. (x + MicroLamports - 1) \div MicroLamports <= most
    BY <1>2, <2>1, CeilingFits
  <2>. QED
    BY <2>2 DEF x
<1>. HIDE DEF units, top
<1>. QED
  BY <1>3, <1>6

LEMMA CreatorOps ==
  ASSUME NEW step \in CreatorSteps, NEW op,
         op \in AlwaysAllowed \union StepRules[step].required \union StepRules[step].optional
  PROVE  /\ op = "create_portfolio" => step = "create_portfolio"
         /\ op = "create_portfolio_page" => step = "create_portfolio_page"
         /\ op = "transfer" => step \in {"create_portfolio", "fund_operator"}
         /\ StepRules["create_portfolio"].required = {"create_portfolio"}
         /\ StepRules["create_portfolio_page"].required = {"create_portfolio_page"}
         /\ StepRules["fund_operator"].required = {"transfer"}
BY DEF CreatorSteps, AlwaysAllowed, StepRules, Rule

LEMMA CreateFits ==
  ASSUME NEW tx, Formed(tx), tx.step \in CreatorSteps, NEW header,
         \A ix \in Range(tx.ixs) : CarriesCreate(ix, header, expect),
         expect.echo \in {"absent", header.acct.book},
         tx.step = "create_portfolio" =>
           \A i \in Holding(tx, "create_portfolio") : tx.ixs[i].n = expect.quote.rent,
         \A i \in Holding(tx, "transfer") : tx.ixs[i].n = expect.quote.keeper,
         tx.step = "create_portfolio_page" => \E page : NumberedAs(tx, page),
         NEW fresh, fresh \/ tx.tables = {}
  PROVE  FitsCreate(tx, expect, fresh)
<1>. SUFFICES ASSUME NEW i \in DOMAIN tx.ixs
              PROVE  /\ RightHeader(tx.ixs[i], expect, fresh)
                     /\ RightPage(tx.ixs[i], tx, expect, fresh)
                     /\ RightTransfer(tx.ixs[i], expect, fresh)
  BY DEF FitsCreate
<1>. DEFINE ix == tx.ixs[i]
<1>1. ix \in Range(tx.ixs) /\ \A role : Sees(ix, role, fresh) = ix.acct[role]
  BY InstructionsOf DEF Formed
<1>2. CarriesCreate(ix, header, expect)
  BY <1>1
<1>3. /\ ix.op = "create_portfolio" => tx.step = "create_portfolio"
      /\ ix.op = "create_portfolio_page" => tx.step = "create_portfolio_page"
      /\ StepRules["create_portfolio_page"].required = {"create_portfolio_page"}
  BY <1>1, CreatorOps DEF Formed
<1>4. /\ ix.op = "create_portfolio" => ix.n = expect.quote.rent
      /\ ix.op = "transfer" => ix.n = expect.quote.keeper
  BY <1>3 DEF Holding
<1>5. ix.op = "create_portfolio_page" => tx.pageIndex \in {-1, ix.page}
  <2>. SUFFICES ASSUME ix.op = "create_portfolio_page" PROVE tx.pageIndex \in {-1, ix.page}
    OBVIOUS
  <2>1. tx.step = "create_portfolio_page"
    BY <1>3
  <2>2. PICK page : NumberedAs(tx, page)
    BY <2>1
  <2>3. ix.op \in StepRules[tx.step].required
    BY <1>3, <2>1
  <2>. QED
    BY <1>1, <2>2, <2>3 DEF NumberedAs
<1>. HIDE DEF ix
<1>6. ix.op \in {"create_portfolio", "create_portfolio_page"} => SameBook(ix, expect, fresh)
  BY <1>1, <1>2 DEF CarriesCreate, SameBook
<1>7. RightHeader(ix, expect, fresh)
  BY <1>2, <1>4, <1>6 DEF RightHeader, CarriesCreate
<1>8. RightPage(ix, tx, expect, fresh)
  BY <1>5, <1>6 DEF RightPage
<1>9. RightTransfer(ix, expect, fresh)
  BY <1>1, <1>2, <1>4 DEF RightTransfer, CarriesCreate
<1>. QED
  BY <1>7, <1>8, <1>9 DEF ix

LEMMA CutGrows ==
  ASSUME NEW s, IsList(s), NEW a \in 0 .. Len(s), NEW b \in 0 .. Len(s), a <= b
  PROVE  SubSeq(s, 1, a) \o SubSeq(s, a + 1, b) = SubSeq(s, 1, b)
<1>. DEFINE S == Range(s)
            x == SubSeq(s, 1, a)
            y == SubSeq(s, a + 1, b)
            z == SubSeq(s, 1, b)
<1>1. s \in Seq(S) /\ Len(s) \in Nat /\ a \in Nat /\ b \in Nat
  BY DEF IsList
<1>2. x \in Seq(S) /\ Len(x) = a /\ \A i \in 1 .. a : x[i] = s[i]
  BY <1>1
<1>3. y \in Seq(S) /\ Len(y) = b - a /\ \A i \in 1 .. b - a : y[i] = s[a + i]
  BY <1>1
<1>4. z \in Seq(S) /\ Len(z) = b /\ \A i \in 1 .. b : z[i] = s[i]
  BY <1>1
<1>. HIDE DEF x, y, z, S
<1>5. x \o y \in Seq(S) /\ Len(x \o y) = b
  BY <1>1, <1>2, <1>3, ConcatProperties
<1>6. ASSUME NEW i \in 1 .. b PROVE (x \o y)[i] = z[i]
  <2>1. CASE i <= a
    <3>1. i \in 1 .. a
      BY <1>1, <2>1
    <3>2. (x \o y)[i] = x[i]
      BY <1>1, <1>2, <1>3, <3>1, ConcatProperties
    <3>. QED
      BY <1>2, <1>4, <3>1, <3>2
  <2>2. CASE ~(i <= a)
    <3>1. i - a \in 1 .. b - a /\ a + (i - a) = i
      BY <1>1, <2>2
    <3>2. (x \o y)[i] = y[i - a]
      BY <1>1, <1>2, <1>3, <2>2, ConcatProperties
    <3>. QED
      BY <1>3, <1>4, <3>1, <3>2
  <2>. QED
    BY <2>1, <2>2
<1>7. x \o y = z
  BY <1>4, <1>5, <1>6, SeqEqual
<1>. QED
  BY <1>7 DEF x, y, z

(***************************************************************************)
(* How far the walk of a create's correct payload p has come with its      *)
(* first n transactions: of the header, k pages and f reimbursements, then *)
(* of the keeper's.                                                        *)
(***************************************************************************)
Taking(k, n) == IF n <= 1 THEN 0 ELSE IF n <= k + 1 THEN n - 1 ELSE k
HeaderOf(p) == Only(p[1], "create_portfolio")
Tallied(w, p, m, n) ==
  /\ n = 0 => w.transfers = 0 /\ w.outlay = 0
  /\ n > 0 /\ (\A a \in Paid(p, m) : a[1] > n) => w.transfers = 0 /\ w.outlay = HeaderOf(p).n
  /\ \A a \in Paid(p, m) : a[1] <= n =>
       w.transfers = 1 /\ w.outlay = HeaderOf(p).n + p[a[1]].ixs[a[2]].n
CreateWalked(ask, w, p, k, f, cuts, n) ==
  /\ w.at = n /\ w.keeper = (n > 1 + k + f) /\ w.funded = (f = 1 /\ n >= k + 2)
  /\ n = 0 => w.mine = <<>>
  /\ n > 0 => w.book = HeaderOf(p).acct.book /\ w.mine # <<>> /\ w.mine[1] = p[1]
  /\ w.legs = IF n = 0 THEN <<>>
              ELSE IF k = 0 THEN ask.legs ELSE SubSeq(ask.legs, 1, cuts[Taking(k, n)])
  /\ w.pages = [i \in 1 .. Taking(k, n) |-> i - 1]
  /\ w.totals = IF Taking(k, n) = 0 THEN {} ELSE {Len(ask.legs)}
  /\ Tallied(w, p, 1 + k + f, n)

LEMMA CreateStarts ==
  ASSUME NEW p, NEW ask, NEW k \in Nat, NEW f \in {0, 1}, NEW cuts
  PROVE  CreateWalked(ask, StartCreate, p, k, f, cuts, 0)
<1>1. Tallied(StartCreate, p, 1 + k + f, 0)
  <2>1. \A a \in Paid(p, 1 + k + f) : ~(a[1] <= 0)
    BY DEF Paid
  <2>. QED
    BY <2>1 DEF Tallied, StartCreate
<1>2. Taking(k, 0) = 0 /\ [i \in 1 .. 0 |-> i - 1] = <<>>
  BY DEF Taking
<1>3. (0 > 1 + k + f) = FALSE /\ (f = 1 /\ 0 >= k + 2) = FALSE
  OBVIOUS
<1>4. /\ StartCreate.at = 0 /\ StartCreate.legs = <<>> /\ StartCreate.pages = <<>> /\ StartCreate.mine = <<>>
      /\ StartCreate.totals = {} /\ StartCreate.keeper = FALSE /\ StartCreate.funded = FALSE
  BY DEF StartCreate
<1>5. StartCreate.keeper = (0 > 1 + k + f) /\ StartCreate.funded = (f = 1 /\ 0 >= k + 2)
  BY Zenon, <1>3, <1>4
<1>6. ~(0 > 0)
  OBVIOUS
<1>. QED
  BY Zenon, <1>1, <1>2, <1>4, <1>5, <1>6 DEF CreateWalked

LEMMA TransfersOf ==
  ASSUME Asked, NEW p, NEW m \in Nat, NEW i \in 1 .. m, p[i] \in Mine,
         \A a, b \in Paid(p, m) : a = b
  PROVE  \/ Transfers(p[i]) = 0 /\ \A a \in Paid(p, m) : a[1] # i
         \/ /\ Transfers(p[i]) = 1
            /\ \E j : /\ Paid(p, m) = {<<i, j>>} /\ j \in DOMAIN p[i].ixs
                      /\ Only(p[i], "transfer") = p[i].ixs[j] /\ p[i].ixs[j].n \in Nat
<1>. DEFINE tx == p[i]
            H == Holding(tx, "transfer")
<1>1. Transfers(tx) = Cardinality(H)
  BY DEF Transfers, CountOf, Holding
<1>2. \A j \in H : <<i, j>> \in Paid(p, m)
  BY DEF Paid
<1>3. ASSUME NEW a \in Paid(p, m), a[1] = i PROVE a[2] \in H
  BY <1>3 DEF Paid
<1>4. CASE H = {}
  <2>1. Transfers(tx) = 0
    BY <1>1, <1>4, FS_EmptySet
  <2>. QED
    BY <1>3, <1>4, <2>1
<1>5. CASE H # {}
  <2>1. PICK j : j \in H
    BY <1>5
  <2>2. Paid(p, m) = {<<i, j>>}
    BY <1>2, <2>1
  <2>3. \A x \in H : x = j
    <3>. SUFFICES ASSUME NEW x \in H PROVE x = j
      OBVIOUS
    <3>1. <<i, x>> = <<i, j>>
      BY <1>2, <2>2
    <3>. QED
      BY <3>1
  <2>4. HasOne(tx, "transfer")
    BY <2>1, <2>3 DEF HasOne, Holding
  <2>5. PICK y \in DOMAIN tx.ixs : H = {y} /\ Only(tx, "transfer") = tx.ixs[y]
    BY <2>4, HoldsOne
  <2>6. y = j /\ CountOf(tx, "transfer") = 1
    BY <2>1, <2>4, <2>5, HoldsOne
  <2>7. tx.ixs[j].n \in Nat
    BY <2>5, <2>6, MineHasNumbers
  <2>. QED
    BY <2>2, <2>5, <2>6, <2>7 DEF Transfers
<1>. QED
  BY <1>4, <1>5

LEMMA TalliedOn ==
  ASSUME Asked, NEW p, NEW m \in Nat, \A a, b \in Paid(p, m) : a = b,
         NEW n \in 0 .. m - 1, \A i \in 1 .. n + 1 : p[i] \in Mine, HeaderOf(p).n \in Nat,
         NEW w, Tallied(w, p, m, n), NEW a,
         a.transfers = w.transfers + Transfers(p[n + 1]),
         a.outlay = (IF n = 0 THEN w.outlay + HeaderOf(p).n ELSE w.outlay)
                    + (IF Transfers(p[n + 1]) > 0 THEN Only(p[n + 1], "transfer").n ELSE 0)
  PROVE  Tallied(a, p, m, n + 1) /\ w.transfers + Transfers(p[n + 1]) <= 1
<1>. DEFINE base == HeaderOf(p).n
            P == Paid(p, m)
<1>1. \A x \in P : x[1] \in 1 .. m
  BY DEF Paid
<1>2. /\ n = 0 => w.transfers = 0 /\ w.outlay = 0
      /\ n > 0 /\ (\A x \in P : x[1] > n) => w.transfers = 0 /\ w.outlay = base
      /\ \A x \in P : x[1] <= n => w.transfers = 1 /\ w.outlay = base + p[x[1]].ixs[x[2]].n
  BY DEF Tallied
<1>3. n \in Nat /\ n + 1 \in 1 .. m /\ n + 1 > 0 /\ n + 1 # 0
  OBVIOUS
<1>4. CASE Transfers(p[n + 1]) = 0 /\ \A x \in P : x[1] # n + 1
  <2>1. \A x \in P : (x[1] <= n + 1 <=> x[1] <= n) /\ (x[1] > n + 1 => x[1] > n)
    BY <1>1, <1>3, <1>4
  <2>2. \A x \in P : x[1] <= n =>
          a.transfers = 1 /\ a.outlay = base + p[x[1]].ixs[x[2]].n /\ w.transfers + Transfers(p[n + 1]) <= 1
    <3>. SUFFICES ASSUME NEW x \in P, x[1] <= n
                  PROVE  /\ a.transfers = 1 /\ a.outlay = base + p[x[1]].ixs[x[2]].n
                         /\ w.transfers + Transfers(p[n + 1]) <= 1
      OBVIOUS
    <3>1. n # 0
      BY <1>1
    <3>2. w.transfers = 1 /\ w.outlay = base + p[x[1]].ixs[x[2]].n
      BY <1>2
    <3>3. p[x[1]].ixs[x[2]].n \in Nat
      <4>1. p[x[1]] \in Mine /\ x[2] \in DOMAIN p[x[1]].ixs
        BY <1>1, <1>3 DEF Paid, Holding
      <4>. QED
        BY <4>1, MineHasNumbers
    <3>. QED
      BY <1>4, <3>1, <3>2, <3>3
  <2>3. (\A x \in P : x[1] > n) =>
          a.transfers = 0 /\ a.outlay = base /\ w.transfers + Transfers(p[n + 1]) <= 1
    BY <1>2, <1>3, <1>4
  <2>4. w.transfers + Transfers(p[n + 1]) <= 1
    BY <1>1, <1>3, <2>2, <2>3
  <2>. QED
    BY <1>3, <2>1, <2>2, <2>3, <2>4 DEF Tallied
<1>5. CASE /\ Transfers(p[n + 1]) = 1
           /\ \E j : /\ Paid(p, m) = {<<n + 1, j>>} /\ j \in DOMAIN p[n + 1].ixs
                     /\ Only(p[n + 1], "transfer") = p[n + 1].ixs[j] /\ p[n + 1].ixs[j].n \in Nat
  <2>1. PICK j : /\ P = {<<n + 1, j>>} /\ Only(p[n + 1], "transfer") = p[n + 1].ixs[j]
                 /\ p[n + 1].ixs[j].n \in Nat
    BY <1>5
  <2>2. \A x \in P : x[1] > n
    BY <1>3, <2>1
  <2>3. w.transfers = 0 /\ (n = 0 => w.outlay = 0) /\ (n > 0 => w.outlay = base)
    BY <1>2, <1>3, <2>2
  <2>4. a.transfers = 1 /\ a.outlay = base + p[n + 1].ixs[j].n
    BY <1>3, <1>5, <2>1, <2>3
  <2>. QED
    BY <1>3, <1>5, <2>1, <2>3, <2>4 DEF Tallied
<1>. QED
  BY <1>3, <1>4, <1>5, TransfersOf

LEMMA CreatorTakes ==
  ASSUME NEW tx, NEW fresh, NEW w, CreateWalk(w), tx.step \in CreatorSteps
  PROVE  LET a == AfterCreate(w, tx, fresh)
         IN  /\ a.keeper = w.keeper
             /\ a.funded = (w.funded \/ tx.step = "fund_operator")
             /\ a.book = IF tx.step = "create_portfolio"
                         THEN Sees(Only(tx, "create_portfolio"), "book", fresh) ELSE w.book
             /\ a.legs = IF tx.step = "create_portfolio" THEN Only(tx, "create_portfolio").legs
                         ELSE IF tx.step = "create_portfolio_page"
                         THEN w.legs \o Only(tx, "create_portfolio_page").legs ELSE w.legs
             /\ a.totals = IF tx.step = "create_portfolio_page"
                           THEN w.totals \union {Only(tx, "create_portfolio_page").total} ELSE w.totals
<1>. DEFINE c == Carried(w, tx, fresh)
            a == AfterCreate(w, tx, fresh)
            h == Only(tx, "create_portfolio")
            g == Only(tx, "create_portfolio_page")
<1>1. /\ c = [at |-> c.at, keeper |-> c.keeper, funded |-> c.funded, book |-> c.book, legs |-> c.legs,
              pages |-> c.pages, totals |-> c.totals, transfers |-> c.transfers,
              outlay |-> c.outlay, mine |-> c.mine]
      /\ c.keeper = w.keeper /\ c.funded = w.funded
      /\ c.book = IF tx.step = "create_portfolio" THEN Sees(h, "book", fresh) ELSE w.book
      /\ c.legs = IF tx.step = "create_portfolio" THEN h.legs
                  ELSE IF tx.step = "create_portfolio_page" THEN w.legs \o g.legs ELSE w.legs
      /\ c.totals = IF tx.step = "create_portfolio_page" THEN w.totals \union {g.total} ELSE w.totals
  <2>1. CASE tx.step = "create_portfolio"
    BY <2>1 DEF Carried, CreateWalk
  <2>2. CASE tx.step = "create_portfolio_page"
    BY <2>2 DEF Carried, CreateWalk
  <2>3. CASE tx.step \notin {"create_portfolio", "create_portfolio_page"}
    BY <2>3 DEF Carried, CreateWalk
  <2>. QED
    BY <2>1, <2>2, <2>3
<1>. HIDE DEF c, g, h
<1>2. tx.step \notin KeeperSteps
  BY DEF CreatorSteps, KeeperSteps
<1>3. a = [c EXCEPT !.at = @ + 1, !.funded = @ \/ tx.step = "fund_operator",
                    !.transfers = @ + Transfers(tx),
                    !.outlay = @ + (IF Transfers(tx) > 0 THEN Only(tx, "transfer").n ELSE 0),
                    !.mine = Append(@, tx)]
  BY <1>2 DEF AfterCreate, c
<1>. HIDE DEF a
<1>4. /\ a.keeper = c.keeper /\ a.funded = (c.funded \/ tx.step = "fund_operator")
      /\ a.book = c.book /\ a.legs = c.legs /\ a.totals = c.totals
  BY <1>1, <1>3
<1>. QED
  BY <1>1, <1>4 DEF a, g, h

(* What every transaction of the treasury's is accepted for, wherever it   *)
(* stands.                                                                 *)
LEMMA CreatorPasses ==
  ASSUME Asked, Create, NEW p, IsList(p), NEW k \in 0 .. Len(p) - 1, NEW f \in {0, 1}, NEW cuts,
         CreateOf(p, expect, k, f, cuts), BuiltRight(p),
         NEW i \in 1 .. 1 + k + f, p[i] \in Mine
  PROVE  /\ p[i].step = IF i = 1 THEN "create_portfolio"
                        ELSE IF i <= k + 1 THEN "create_portfolio_page" ELSE "fund_operator"
         /\ p[i].step \in CreatorSteps /\ p[i].signer \in {"absent", "creator"}
         /\ Formed(p[i]) /\ PriorityFee(p[i]) <= expect.maxPriority
         /\ \A fresh : fresh \/ p[i].tables = {} => FitsCreate(p[i], expect, fresh)
<1>. DEFINE tx == p[i]
            header == HeaderOf(p)
<1>1. Len(p) \in Nat /\ DOMAIN p = 1 .. Len(p) /\ k \in Nat /\ 1 + k + f <= Len(p) /\ i \in DOMAIN p
  BY DEF IsList, CreateOf, HeaderPagesFund
<1>2. Formed(tx) /\ Budgeted(tx, expect) /\ tx.signer \in {"absent", "creator"}
      /\ \A ix \in Range(tx.ixs) : CarriesCreate(ix, header, expect)
  BY DEF CreateOf, HeaderOf
<1>3. /\ p[1].step = "create_portfolio"
      /\ \A j \in 2 .. k + 1 : p[j].step = "create_portfolio_page" /\ NumberedAs(p[j], j - 2)
      /\ f = 1 => p[k + 2].step = "fund_operator"
  BY DEF CreateOf, HeaderPagesFund
<1>4. tx.step = IF i = 1 THEN "create_portfolio"
                ELSE IF i <= k + 1 THEN "create_portfolio_page" ELSE "fund_operator"
  <2>1. CASE i = 1
    BY <1>3, <2>1
  <2>2. CASE i # 1 /\ i <= k + 1
    <3>1. i \in 2 .. k + 1
      BY <1>1, <2>2
    <3>. QED
      BY <1>3, <2>2, <3>1
  <2>3. CASE i # 1 /\ ~(i <= k + 1)
    <3>1. f = 1 /\ i = k + 2
      BY <1>1, <2>3
    <3>. QED
      BY <1>3, <2>3, <3>1
  <2>. QED
    BY <2>1, <2>2, <2>3
<1>5. tx.step \in CreatorSteps
  BY <1>4 DEF CreatorSteps
<1>6. PriorityFee(tx) <= expect.maxPriority
  BY <1>2, FeeFits
<1>7. /\ expect.echo \in {"absent", header.acct.book} /\ header.n = expect.quote.rent
      /\ \A j \in Holding(tx, "transfer") : tx.ixs[j].n = expect.quote.keeper
  BY <1>1, <1>5 DEF BuiltRight, HeaderOf
<1>8. tx.step = "create_portfolio" =>
        \A j \in Holding(tx, "create_portfolio") : tx.ixs[j].n = expect.quote.rent
  <2>. SUFFICES ASSUME tx.step = "create_portfolio", NEW j \in Holding(tx, "create_portfolio")
                PROVE  tx.ixs[j].n = expect.quote.rent
    OBVIOUS
  <2>1. i = 1
    BY <1>4
  <2>2. "create_portfolio" \in StepRules[tx.step].required
    BY CreatorOps DEF StepRules, Rule
  <2>3. HasOne(tx, "create_portfolio")
    BY <1>2, <2>2 DEF Formed
  <2>4. Only(tx, "create_portfolio") = tx.ixs[j]
    BY <2>3, HoldsOne
  <2>. QED
    BY <1>7, <2>1, <2>4 DEF HeaderOf
<1>9. tx.step = "create_portfolio_page" => \E page : NumberedAs(tx, page)
  <2>. SUFFICES ASSUME tx.step = "create_portfolio_page" PROVE NumberedAs(tx, i - 2)
    OBVIOUS
  <2>1. i \in 2 .. k + 1
    BY <1>1, <1>4
  <2>. QED
    BY <1>3, <2>1
<1>10. ASSUME NEW fresh, fresh \/ tx.tables = {} PROVE FitsCreate(tx, expect, fresh)
  <2>. HIDE DEF tx, header
  <2>. QED
    BY <1>2, <1>5, <1>7, <1>8, <1>9, <1>10, CreateFits
<1>. QED
  BY <1>2, <1>4, <1>5, <1>6, <1>10

LEMMA CreatorOn ==
  ASSUME Asked, Create, NEW p, IsList(p), NEW k \in 0 .. Len(p) - 1, NEW f \in {0, 1},
         NEW cuts \in [0 .. k -> 0 .. Len(expect.legs)], CreateOf(p, expect, k, f, cuts), BuiltRight(p),
         NEW n \in 0 .. k + f, \A i \in 1 .. n + 1 : p[i] \in Mine,
         NEW w, CreateWalk(w), CreateWalked(expect, w, p, k, f, cuts, n), NEW fresh
  PROVE  /\ fresh \/ p[n + 1].tables = {} => AcceptsCreate(w, p[n + 1], expect, fresh)
         /\ CreateWalked(expect, AfterCreate(w, p[n + 1], fresh), p, k, f, cuts, n + 1)
<1>. DEFINE tx == p[n + 1]
            a == AfterCreate(w, tx, fresh)
            m == 1 + k + f
            header == HeaderOf(p)
            legs == expect.legs
<1>1. k \in Nat /\ n \in Nat /\ m \in Nat /\ n + 1 \in 1 .. m /\ n \in 0 .. m - 1 /\ tx \in Mine
  <2>1. Len(p) \in Nat
    BY DEF IsList
  <2>. QED
    BY <2>1
<1>2. /\ tx.step = IF n + 1 = 1 THEN "create_portfolio"
                   ELSE IF n + 1 <= k + 1 THEN "create_portfolio_page" ELSE "fund_operator"
      /\ tx.step \in CreatorSteps /\ tx.signer \in {"absent", "creator"}
      /\ Formed(tx) /\ PriorityFee(tx) <= expect.maxPriority
      /\ fresh \/ tx.tables = {} => FitsCreate(tx, expect, fresh)
  BY <1>1, CreatorPasses
<1>3. tx.step = IF n = 0 THEN "create_portfolio"
                ELSE IF n <= k THEN "create_portfolio_page" ELSE "fund_operator"
  BY <1>1, <1>2
<1>4. Decodes(tx) /\ PaidByMe(tx) /\ CarriesItsStep(tx)
  BY <1>2, FormedPasses
<1>5. p[1] \in Mine /\ p[1].step = "create_portfolio" /\ Formed(p[1])
  BY <1>1, CreatorPasses
<1>6. PICK j \in DOMAIN p[1].ixs : header = p[1].ixs[j] /\ p[1].ixs[j].op = "create_portfolio"
  <2>1. HasOne(p[1], "create_portfolio")
    BY <1>5 DEF Formed, StepRules, Rule
  <2>. QED
    BY <2>1, HoldsOne DEF HeaderOf
<1>7. header.n \in Nat
  BY <1>5, <1>6, MineHasNumbers
<1>8. /\ \A x, y \in Paid(p, m) : x = y
      /\ IF k = 0 THEN header.legs = legs ELSE header.legs = <<>> /\ Cut(p, expect, k, cuts)
  BY DEF CreateOf, HeaderOf
<1>9. /\ w.at = n /\ w.keeper = (n > m) /\ w.funded = (f = 1 /\ n >= k + 2)
      /\ n = 0 => w.mine = <<>>
      /\ n > 0 => w.book = header.acct.book /\ w.mine # <<>> /\ w.mine[1] = p[1]
      /\ w.legs = IF n = 0 THEN <<>>
                  ELSE IF k = 0 THEN legs ELSE SubSeq(legs, 1, cuts[Taking(k, n)])
      /\ w.pages = [i \in 1 .. Taking(k, n) |-> i - 1]
      /\ w.totals = IF Taking(k, n) = 0 THEN {} ELSE {Len(legs)}
      /\ Tallied(w, p, m, n)
  BY DEF CreateWalked
<1>10. ~w.keeper /\ ~w.funded
  <2>1. ~(n > m) /\ ~(n >= k + 2)
    BY <1>1
  <2>. QED
    BY <1>9, <2>1
<1>11. CreatorInPlace(w, tx.step)
  BY <1>1, <1>3, <1>9, <1>10 DEF CreatorInPlace
<1>12. /\ a.at = w.at + 1 /\ a.mine = Append(w.mine, tx)
       /\ a.transfers = w.transfers + Transfers(tx)
       /\ a.pages = IF tx.step = "create_portfolio_page"
                    THEN Append(w.pages, Only(tx, "create_portfolio_page").page) ELSE w.pages
       /\ a.outlay = (IF tx.step = "create_portfolio"
                      THEN w.outlay + Only(tx, "create_portfolio").n ELSE w.outlay)
                     + (IF Transfers(tx) > 0 THEN Only(tx, "transfer").n ELSE 0)
  BY <1>2, CreatorFields
<1>13. /\ a.keeper = w.keeper
       /\ a.funded = (w.funded \/ tx.step = "fund_operator")
       /\ a.book = IF tx.step = "create_portfolio"
                   THEN Sees(Only(tx, "create_portfolio"), "book", fresh) ELSE w.book
       /\ a.legs = IF tx.step = "create_portfolio" THEN Only(tx, "create_portfolio").legs
                   ELSE IF tx.step = "create_portfolio_page"
                   THEN w.legs \o Only(tx, "create_portfolio_page").legs ELSE w.legs
       /\ a.totals = IF tx.step = "create_portfolio_page"
                     THEN w.totals \union {Only(tx, "create_portfolio_page").total} ELSE w.totals
  BY <1>2, CreatorTakes
<1>14. n = 0 => Only(tx, "create_portfolio") = header
  BY DEF HeaderOf
<1>. HIDE DEF a, header, legs
<1>15. Tallied(a, p, m, n + 1) /\ w.transfers + Transfers(tx) <= 1
  <2>1. a.outlay = (IF n = 0 THEN w.outlay + header.n ELSE w.outlay)
                   + (IF Transfers(tx) > 0 THEN Only(tx, "transfer").n ELSE 0)
    BY <1>3, <1>12, <1>14
  <2>. QED
    BY <1>1, <1>7, <1>8, <1>9, <1>12, <2>1, TalliedOn DEF header
<1>16. fresh \/ tx.tables = {} => AcceptsCreate(w, tx, expect, fresh)
  BY <1>2, <1>4, <1>11, <1>15 DEF AcceptsCreate, AcceptsCreator
<1>17. a.mine # <<>> /\ a.mine[1] = p[1] /\ a.book = header.acct.book
  <2>1. w.mine \in Seq(Mine)
    BY DEF CreateWalk
  <2>2. a.mine # <<>> /\ (w.mine = <<>> => a.mine[1] = tx) /\ (w.mine # <<>> => a.mine[1] = w.mine[1])
    <3>1. /\ Len(a.mine) = Len(w.mine) + 1 /\ Len(w.mine) \in Nat
          /\ a.mine[Len(w.mine) + 1] = tx
          /\ \A i \in 1 .. Len(w.mine) : a.mine[i] = w.mine[i]
      BY <1>1, <1>12, <2>1, AppendProperties
    <3>2. a.mine # <<>> /\ (w.mine = <<>> <=> Len(w.mine) = 0)
      BY <2>1, <3>1
    <3>. QED
      BY <3>1, <3>2
  <2>3. n = 0 => w.mine = <<>>
    BY <1>9
  <2>4. n = 0 => a.book = header.acct.book
    <3>1. header \in Range(p[1].ixs)
      BY <1>5, <1>6, InstructionsOf DEF Formed
    <3>2. CarriesCreate(header, header, expect)
      <4>1. 1 \in 1 .. m
        BY <1>1
      <4>. QED
        BY <3>1, <4>1 DEF CreateOf, HeaderOf, header
    <3>3. "book" \notin header.late
      BY <1>6, <3>2 DEF CarriesCreate
    <3>. QED
      BY <1>3, <1>13, <1>14, <3>3 DEF Sees
  <2>5. n # 0 => n > 0 /\ a.book = w.book
    BY <1>1, <1>3, <1>13
  <2>6. CASE n = 0
    BY <2>2, <2>3, <2>4, <2>6
  <2>7. CASE n # 0
    BY <1>9, <2>2, <2>5, <2>7
  <2>. QED
    BY <2>6, <2>7
<1>18. a.at = n + 1 /\ a.keeper = (n + 1 > m) /\ a.funded = (f = 1 /\ n + 1 >= k + 2)
  <2>1. (n + 1 > m) = FALSE /\ a.at = n + 1
    BY <1>1, <1>9, <1>12
  <2>2. a.keeper = FALSE
    <3>1. (n > m) = FALSE
      BY <1>1
    <3>. QED
      BY Zenon, <1>9, <1>13, <3>1
  <2>3. a.funded = (tx.step = "fund_operator")
    BY <1>9, <1>10, <1>13
  <2>4. (tx.step = "fund_operator") = (f = 1 /\ n + 1 >= k + 2)
    BY <1>1, <1>3
  <2>. QED
    BY <2>1, <2>2, <2>3, <2>4
<1>19. /\ a.legs = IF k = 0 THEN legs ELSE SubSeq(legs, 1, cuts[Taking(k, n + 1)])
       /\ a.pages = [i \in 1 .. Taking(k, n + 1) |-> i - 1]
       /\ a.totals = IF Taking(k, n + 1) = 0 THEN {} ELSE {Len(legs)}
  <2>1. CASE n = 0
    <3>1. Taking(k, n) = 0 /\ Taking(k, n + 1) = 0
      BY <2>1 DEF Taking
    <3>2. a.legs = header.legs /\ a.pages = w.pages /\ a.totals = w.totals
      BY <1>3, <1>12, <1>13, <1>14, <2>1
    <3>3. k # 0 => SubSeq(legs, 1, cuts[0]) = <<>>
      <4>. SUFFICES ASSUME k # 0 PROVE SubSeq(legs, 1, cuts[0]) = <<>>
        OBVIOUS
      <4>1. cuts[0] = 0
        BY <1>8 DEF Cut
      <4>2. legs \in Seq(Range(legs))
        BY AskIsIntent DEF IsList, legs
      <4>. QED
        BY <4>1, <4>2
    <3>. QED
      BY <1>8, <1>9, <3>1, <3>2, <3>3
  <2>2. CASE n # 0 /\ n <= k
    <3>. DEFINE page == Only(tx, "create_portfolio_page")
    <3>1. Taking(k, n) = n - 1 /\ Taking(k, n + 1) = n /\ k # 0 /\ n \in 1 .. k /\ n + 1 \in 2 .. k + 1
          /\ n - 1 \in Nat
      BY <1>1, <2>2 DEF Taking
    <3>2. tx.step = "create_portfolio_page" /\ NumberedAs(tx, n - 1)
      <4>1. n + 1 - 2 = n - 1
        BY <1>1
      <4>. QED
        BY <3>1, <4>1 DEF CreateOf, HeaderPagesFund
    <3>3. StepRules[tx.step].required = {"create_portfolio_page"}
      BY <3>2 DEF StepRules, Rule
    <3>4. page.page = n - 1
      BY <1>2, <3>2, <3>3, PageIsNumber
    <3>5. page \in Range(tx.ixs) /\ page.op = "create_portfolio_page"
      <4>1. HasOne(tx, "create_portfolio_page")
        BY <1>2, <3>3 DEF Formed
      <4>2. PICK i \in DOMAIN tx.ixs : page = tx.ixs[i] /\ tx.ixs[i].op = "create_portfolio_page"
        BY <4>1, HoldsOne
      <4>. QED
        BY <1>2, <4>2, InstructionsOf DEF Formed
    <3>6. /\ cuts[n - 1] <= cuts[n] /\ page.total = Len(legs)
          /\ page.legs = SubSeq(legs, cuts[n - 1] + 1, cuts[n])
      BY <1>8, <3>1, <3>5 DEF Cut, legs
    <3>. HIDE DEF page
    <3>7. IsList(legs) /\ cuts[n - 1] \in 0 .. Len(legs) /\ cuts[n] \in 0 .. Len(legs)
      BY <3>1, AskIsIntent DEF legs
    <3>8. a.legs = SubSeq(legs, 1, cuts[n])
      <4>1. a.legs = SubSeq(legs, 1, cuts[n - 1]) \o SubSeq(legs, cuts[n - 1] + 1, cuts[n])
        BY <1>9, <1>13, <2>2, <3>1, <3>2, <3>6 DEF page
      <4>. QED
        BY <3>6, <3>7, <4>1, CutGrows
    <3>9. a.pages = [i \in 1 .. n |-> i - 1]
      <4>1. a.pages = Append([i \in 1 .. n - 1 |-> i - 1], n - 1)
        BY <1>9, <1>12, <3>1, <3>2, <3>4 DEF page
      <4>2. n - 1 + 1 = n
        BY <1>1
      <4>. QED
        BY <3>1, <4>1, <4>2, PagesOn
    <3>10. a.totals = {Len(legs)}
      BY <1>9, <1>13, <3>1, <3>2, <3>6 DEF page
    <3>. QED
      BY <2>2, <3>1, <3>8, <3>9, <3>10
  <2>3. CASE n # 0 /\ ~(n <= k)
    <3>1. Taking(k, n) = k /\ Taking(k, n + 1) = k
      BY <1>1, <2>3 DEF Taking
    <3>2. a.legs = w.legs /\ a.pages = w.pages /\ a.totals = w.totals
      BY <1>3, <1>12, <1>13, <2>3
    <3>. QED
      BY <1>9, <2>3, <3>1, <3>2
  <2>. QED
    BY <2>1, <2>2, <2>3
<1>20. CreateWalked(expect, a, p, k, f, cuts, n + 1)
  <2>1. n + 1 # 0
    BY <1>1
  <2>. QED
    BY <1>15, <1>17, <1>18, <1>19, <2>1 DEF CreateWalked, header, legs
<1>. QED
  BY <1>16, <1>20 DEF a

LEMMA TakenAll ==
  ASSUME NEW k \in Nat, NEW n \in Nat, n >= k + 1
  PROVE  Taking(k, n) = k
<1>1. CASE n <= 1
  BY <1>1 DEF Taking
<1>2. CASE ~(n <= 1) /\ n <= k + 1
  <2>1. n - 1 = k
    BY <1>2
  <2>. QED
    BY <1>2, <2>1 DEF Taking
<1>3. CASE ~(n <= 1) /\ ~(n <= k + 1)
  BY <1>3 DEF Taking
<1>. QED
  BY <1>1, <1>2, <1>3

LEMMA KeeperOn ==
  ASSUME Asked, Create, NEW p, IsList(p), NEW k \in 0 .. Len(p) - 1, NEW f \in {0, 1}, NEW cuts,
         CreateOf(p, expect, k, f, cuts), NEW n \in 1 + k + f .. Len(p) - 1,
         NEW w, CreateWalk(w), CreateWalked(expect, w, p, k, f, cuts, n), NEW fresh
  PROVE  /\ AcceptsCreate(w, p[n + 1], expect, fresh)
         /\ CreateWalked(expect, AfterCreate(w, p[n + 1], fresh), p, k, f, cuts, n + 1)
<1>. DEFINE tx == p[n + 1]
            a == AfterCreate(w, tx, fresh)
            m == 1 + k + f
<1>1. Len(p) \in Nat /\ k \in Nat /\ n \in Nat /\ m \in Nat /\ m <= n /\ n >= k + 1 /\ n + 1 >= k + 1
      /\ n + 1 \in k + f + 2 .. Len(p)
  <2>1. Len(p) \in Nat
    BY DEF IsList
  <2>. QED
    BY <2>1
<1>2. KeepersOwn(tx)
  BY <1>1 DEF CreateOf, HeaderPagesFund
<1>3. tx.step \in KeeperSteps /\ AcceptsKeeper(tx)
  <2>1. Encoded(tx) /\ \A ix \in Range(tx.ixs) : ix.program # "foreign"
    BY <1>2 DEF KeepersOwn
  <2>2. Parses(tx) /\ Allowed(tx)
    BY <2>1, InstructionsOf DEF Allowed
  <2>. QED
    BY <1>2, <2>2 DEF KeepersOwn, AcceptsKeeper
<1>. HIDE DEF tx
<1>4. a = [w EXCEPT !.at = @ + 1, !.keeper = TRUE]
  BY <1>3 DEF AfterCreate
<1>. HIDE DEF a
<1>5. /\ a.at = w.at + 1 /\ a.keeper = TRUE /\ a.funded = w.funded /\ a.book = w.book /\ a.legs = w.legs
      /\ a.pages = w.pages /\ a.totals = w.totals /\ a.transfers = w.transfers
      /\ a.outlay = w.outlay /\ a.mine = w.mine
  BY <1>4 DEF CreateWalk
<1>6. Taking(k, n) = k /\ Taking(k, n + 1) = k
  BY <1>1, TakenAll
<1>7. Tallied(a, p, m, n + 1)
  <2>1. \A x \in Paid(p, m) : x[1] <= n /\ x[1] <= n + 1 /\ ~(x[1] > n) /\ ~(x[1] > n + 1)
    BY <1>1 DEF Paid
  <2>2. n > 0 /\ n + 1 # 0
    BY <1>1
  <2>3. Tallied(w, p, m, n)
    BY DEF CreateWalked
  <2>. QED
    BY <1>5, <2>1, <2>2, <2>3 DEF Tallied
<1>8. (n + 1 > m) = TRUE /\ (f = 1 /\ n + 1 >= k + 2) = (f = 1 /\ n >= k + 2)
  BY <1>1
<1>9. /\ w.at = n /\ w.funded = (f = 1 /\ n >= k + 2)
      /\ w.book = HeaderOf(p).acct.book /\ w.mine # <<>> /\ w.mine[1] = p[1]
      /\ w.legs = IF k = 0 THEN expect.legs ELSE SubSeq(expect.legs, 1, cuts[Taking(k, n)])
      /\ w.pages = [i \in 1 .. Taking(k, n) |-> i - 1]
      /\ w.totals = IF Taking(k, n) = 0 THEN {} ELSE {Len(expect.legs)}
  <2>1. n > 0 /\ n # 0
    BY <1>1
  <2>. QED
    BY <2>1 DEF CreateWalked
<1>10. a.keeper = (n + 1 > m) /\ a.funded = (f = 1 /\ n + 1 >= k + 2)
  BY Zenon, <1>5, <1>8, <1>9
<1>11. CreateWalked(expect, a, p, k, f, cuts, n + 1)
  <2>1. n + 1 # 0
    BY <1>1
  <2>. QED
    BY <1>5, <1>6, <1>7, <1>9, <1>10, <2>1 DEF CreateWalked
<1>. QED
  BY <1>3, <1>11 DEF a, tx, AcceptsCreate

LEMMA CreateEnds ==
  ASSUME Asked, NEW p, IsList(p), NEW k \in 0 .. Len(p) - 1, NEW f \in {0, 1},
         NEW cuts, CreateOf(p, expect, k, f, cuts),
         NEW w, CreateWalked(expect, w, p, k, f, cuts, Len(p))
  PROVE  CompleteCreate(w, expect) /\ w.book # Unresolved
<1>. DEFINE n == Len(p)
            m == 1 + k + f
            header == HeaderOf(p)
            legs == expect.legs
<1>1. n \in Nat /\ k \in Nat /\ m <= n /\ n >= k + 1 /\ n > 0 /\ n # 0
  BY DEF IsList, CreateOf, HeaderPagesFund
<1>2. Taking(k, n) = k
  BY <1>1, TakenAll
<1>3. /\ w.book = header.acct.book /\ w.mine # <<>> /\ w.mine[1] = p[1]
      /\ w.legs = IF k = 0 THEN legs ELSE SubSeq(legs, 1, cuts[k])
      /\ w.pages = [i \in 1 .. k |-> i - 1]
      /\ w.totals = IF k = 0 THEN {} ELSE {Len(legs)}
      /\ Tallied(w, p, m, n)
  BY <1>1, <1>2 DEF CreateWalked
<1>4. /\ header.acct.book # Unresolved
      /\ IF k = 0 THEN header.legs = legs /\ legs # <<>>
                  ELSE header.legs = <<>> /\ cuts[k] = Len(legs)
      /\ header.n <= expect.maxLamports
      /\ \A a \in Paid(p, m) : header.n + p[a[1]].ixs[a[2]].n <= expect.maxLamports
  BY DEF CreateOf, HeaderOf, Cut
<1>5. HeaderLegs(w) = header.legs
  BY <1>3 DEF HeaderLegs, HeaderOf
<1>6. w.outlay <= expect.maxLamports
  <2>1. CASE Paid(p, m) = {}
    BY <1>1, <1>3, <1>4, <2>1 DEF Tallied
  <2>2. CASE Paid(p, m) # {}
    <3>1. PICK a : a \in Paid(p, m)
      BY <2>2
    <3>2. a[1] <= n
      BY <1>1, <3>1 DEF Paid
    <3>. QED
      BY <1>3, <1>4, <3>1, <3>2 DEF Tallied
  <2>. QED
    BY <2>1, <2>2
<1>7. CASE k = 0
  <2>1. w.pages = <<>>
    BY <1>3, <1>7
  <2>. QED
    BY <1>3, <1>4, <1>5, <1>6, <1>7, <2>1 DEF CompleteCreate
<1>8. CASE k # 0
  <2>1. w.pages # <<>> /\ InSequence(w.pages)
    <3>1. DOMAIN w.pages = 1 .. k /\ 1 \in 1 .. k /\ \A i \in 1 .. k : w.pages[i] = i - 1
      BY <1>1, <1>3, <1>8
    <3>2. DOMAIN <<>> = {}
      OBVIOUS
    <3>. QED
      BY <3>1, <3>2 DEF InSequence
  <2>2. w.legs = legs
    <3>1. legs \in Seq(Range(legs))
      BY AskIsIntent DEF IsList
    <3>. HIDE DEF legs
    <3>2. SubSeq(legs, 1, Len(legs)) = legs
      BY <3>1
    <3>. QED
      BY <1>3, <1>4, <1>8, <3>2
  <2>. QED
    BY <1>3, <1>4, <1>5, <1>6, <1>8, <2>1, <2>2 DEF CompleteCreate
<1>. QED
  BY <1>7, <1>8

(***************************************************************************)
(* The walk of a run that has been given a beginning of a correct payload  *)
(* is where that payload puts it.                                          *)
(***************************************************************************)
Walked(w, p, n) ==
  IF Create
  THEN \A k \in 0 .. Len(p) - 1, f \in {0, 1} : \A cuts \in [0 .. k -> 0 .. Len(expect.legs)] :
         CreateOf(p, expect, k, f, cuts) => CreateWalked(expect, w, p, k, f, cuts, n)
  ELSE \A before \in 0 .. Len(p) - 1 :
         PreThenPrimary(p, ExpectedSteps[expect.verb], before) => WriteWalked(expect, w, p, before, n)
Begins(s, p) == Len(s) <= Len(p) /\ SubSeq(p, 1, Len(s)) = s
Followed == \A p \in Correct : Begins(run.presented, p) => Walked(run.walk, p, Len(run.presented))

(* Inductive: a walk follows every correct payload it may still turn out   *)
(* to be given, and only a run that is over has judged against one.        *)
Fair ==
  /\ stage = "walking" => Followed
  /\ stage \in {"ready", "reading"} =>
       run.presented = <<>> /\ run.walk = IF Create THEN StartCreate ELSE StartWalk
  /\ stage # "over" => run.verdict \notin {"refused", "incomplete"}
  /\ NoFalseRefusal

LEMMA CorrectIsBuilt ==
  ASSUME Asked, NEW p \in Correct
  PROVE  /\ IsList(p) /\ BuiltRight(p) /\ Len(p) \in Nat
         /\ Create => WellBuiltCreate(p, expect)
         /\ ~Create => WellBuiltWrite(p, expect)
<1>1. p \in Honest[expect.verb] /\ BuiltRight(p)
  BY DEF Correct
<1>2. PICK i \in Intents :
        /\ i.verb = expect.verb /\ i.legs = expect.legs /\ i.arg = expect.arg
        /\ i.maxLamports = expect.maxLamports /\ i.maxPriority = expect.maxPriority
  BY AskIsIntent
<1>3. WellBuilt(p, i)
  BY <1>1, <1>2, HonestAssumption
<1>4. IsList(p) /\ Len(p) \in Nat
  BY <1>3 DEF WellBuilt, IsList
<1>5. CASE Create
  <2>1. WellBuiltCreate(p, i)
    BY <1>2, <1>3, <1>5 DEF WellBuilt, Create
  <2>2. /\ \A tx : Budgeted(tx, i) <=> Budgeted(tx, expect)
        /\ \A ix, header : CarriesCreate(ix, header, i) <=> CarriesCreate(ix, header, expect)
        /\ \A k, cuts : Cut(p, i, k, cuts) <=> Cut(p, expect, k, cuts)
    BY <1>2 DEF Budgeted, CarriesCreate, Cut
  <2>3. \A k, f, cuts : CreateOf(p, i, k, f, cuts) <=> CreateOf(p, expect, k, f, cuts)
    BY <1>2, <2>2 DEF CreateOf
  <2>4. WellBuiltCreate(p, expect)
    BY <1>2, <2>1, <2>3 DEF WellBuiltCreate
  <2>. QED
    BY <1>1, <1>4, <1>5, <2>4
<1>6. CASE ~Create
  <2>1. WellBuiltWrite(p, i)
    BY <1>2, <1>3, <1>6 DEF WellBuilt, Create
  <2>2. \A ix, step : Carries(ix, step, i) <=> Carries(ix, step, expect)
    BY <1>2 DEF Carries
  <2>3. WellBuiltWrite(p, expect)
    BY <1>2, <2>1, <2>2 DEF WellBuiltWrite
  <2>. QED
    BY <1>1, <1>4, <1>6, <2>3
<1>. QED
  BY <1>5, <1>6

LEMMA StartsWalked ==
  ASSUME NEW p, Len(p) \in Nat, NEW w, w = IF Create THEN StartCreate ELSE StartWalk
  PROVE  Walked(w, p, 0)
<1>1. CASE Create
  BY <1>1, CreateStarts DEF Walked
<1>2. CASE ~Create
  BY <1>2, WriteStarts DEF Walked
<1>. QED
  BY <1>1, <1>2

(* One transaction on: it passes, with the table, and the walk follows.    *)
LEMMA WalksOn ==
  ASSUME IInv, stage = "walking", Followed, NEW tx \in Mine, NEW fresh,
         NEW p \in Correct, Begins(Append(run.presented, tx), p)
  PROVE  /\ fresh \/ tx.tables = {} => Passes(tx, fresh)
         /\ Walked(Taken(tx, fresh), p, Len(run.presented) + 1)
<1>. DEFINE s == run.presented
            n == Len(s)
            w == run.walk
<1>1. IsList(p) /\ BuiltRight(p) /\ Len(p) \in Nat /\ Asked /\ RunShape
  BY CorrectIsBuilt DEF IInv
<1>2. s \in Seq(Mine) /\ n \in Nat
  BY DEF IInv, RunShape
<1>. HIDE DEF s
<1>3. /\ Len(Append(s, tx)) = n + 1 /\ Append(s, tx)[n + 1] = tx
      /\ \A i \in 1 .. n : Append(s, tx)[i] = s[i] /\ s[i] \in Mine
  BY <1>2, AppendProperties
<1>4. n + 1 <= Len(p) /\ SubSeq(p, 1, n + 1) = Append(s, tx) /\ n \in 0 .. Len(p) - 1
  BY <1>1, <1>2, <1>3 DEF Begins, s
<1>5. \A i \in 1 .. n + 1 : p[i] = Append(s, tx)[i]
  <2>1. p \in Seq(Range(p))
    BY <1>1 DEF IsList
  <2>2. \A i \in 1 .. n + 1 : SubSeq(p, 1, n + 1)[i] = p[i]
    BY <1>2, <1>4, <2>1
  <2>. QED
    BY <1>4, <2>2
<1>6. p[n + 1] = tx /\ \A i \in 1 .. n + 1 : p[i] \in Mine
  <2>1. n + 1 \in 1 .. n + 1 /\ \A i \in 1 .. n + 1 : i \in 1 .. n \/ i = n + 1
    BY <1>2
  <2>. QED
    BY <1>3, <1>5, <2>1
<1>7. Begins(s, p)
  <2>1. SubSeq(p, 1, n) \in Seq(Range(p)) /\ Len(SubSeq(p, 1, n)) = n
        /\ \A i \in 1 .. n : SubSeq(p, 1, n)[i] = p[i]
    BY <1>1, <1>2, <1>4 DEF IsList
  <2>2. \A i \in 1 .. n : i \in 1 .. n + 1
    BY <1>2
  <2>3. \A i \in 1 .. n : SubSeq(p, 1, n)[i] = s[i]
    BY <1>3, <1>5, <2>1, <2>2
  <2>4. SubSeq(p, 1, n) = s
    BY <1>2, <2>1, <2>3, SeqEqual
  <2>. QED
    BY <1>2, <1>4, <2>4 DEF Begins
<1>8. Walked(w, p, n)
  BY <1>7 DEF Followed, s
<1>9. CASE Create
  <2>1. CreateWalk(w)
    BY <1>1, <1>9 DEF RunShape
  <2>2. ASSUME NEW k \in 0 .. Len(p) - 1, NEW f \in {0, 1},
               NEW cuts \in [0 .. k -> 0 .. Len(expect.legs)], CreateOf(p, expect, k, f, cuts)
        PROVE  /\ fresh \/ tx.tables = {} => AcceptsCreate(w, tx, expect, fresh)
               /\ CreateWalked(expect, AfterCreate(w, tx, fresh), p, k, f, cuts, n + 1)
    <3>1. CreateWalked(expect, w, p, k, f, cuts, n)
      BY <1>8, <1>9, <2>2 DEF Walked
    <3>. HIDE DEF w, n
    <3>2. CASE n \in 0 .. k + f
      BY <1>1, <1>6, <1>9, <2>1, <2>2, <3>1, <3>2, CreatorOn
    <3>3. CASE n \in 1 + k + f .. Len(p) - 1
      BY <1>1, <1>6, <1>9, <2>1, <2>2, <3>1, <3>3, KeeperOn
    <3>4. n \in 0 .. k + f \/ n \in 1 + k + f .. Len(p) - 1
      BY <1>1, <1>4
    <3>. QED
      BY <3>2, <3>3, <3>4
  <2>3. WellBuiltCreate(p, expect)
    BY <1>1, <1>9, CorrectIsBuilt
  <2>4. fresh \/ tx.tables = {} => AcceptsCreate(w, tx, expect, fresh)
    BY <2>2, <2>3 DEF WellBuiltCreate
  <2>. QED
    BY <1>9, <2>2, <2>4 DEF Passes, Taken, Walked, s
<1>10. CASE ~Create
  <2>1. WellBuiltWrite(p, expect)
    BY <1>1, <1>10, CorrectIsBuilt
  <2>2. ASSUME NEW before \in 0 .. Len(p) - 1, PreThenPrimary(p, ExpectedSteps[expect.verb], before)
        PROVE  /\ fresh \/ tx.tables = {} => Verifiable(expect) /\ Accepts(w, tx, expect, fresh)
               /\ WriteWalked(expect, After(w, tx, expect), p, before, n + 1)
    <3>1. WriteWalked(expect, w, p, before, n)
      BY <1>8, <1>10, <2>2 DEF Walked
    <3>. HIDE DEF w, n
    <3>. QED
      BY <1>1, <1>4, <1>6, <1>10, <2>1, <2>2, <3>1, WriteOn
  <2>3. fresh \/ tx.tables = {} => Verifiable(expect) /\ Accepts(w, tx, expect, fresh)
    BY <2>1, <2>2 DEF WellBuiltWrite
  <2>. QED
    BY <1>10, <2>2, <2>3 DEF Passes, Taken, Walked, s
<1>. QED
  BY <1>9, <1>10

LEMMA WholeWhenWalked ==
  ASSUME IInv, stage = "walking", Followed, run.presented \in Correct
  PROVE  Whole
<1>. DEFINE p == run.presented
<1>1. IsList(p) /\ BuiltRight(p) /\ Len(p) \in Nat /\ Asked
  BY CorrectIsBuilt DEF IInv
<1>2. Begins(p, p)
  <2>1. p \in Seq(Range(p))
    BY <1>1 DEF IsList
  <2>. HIDE DEF p
  <2>2. SubSeq(p, 1, Len(p)) = p /\ Len(p) <= Len(p)
    BY <1>1, <2>1
  <2>. QED
    BY <2>2 DEF Begins
<1>3. Walked(run.walk, p, Len(p))
  BY <1>2 DEF Followed
<1>4. CASE Create
  <2>1. PICK k \in 0 .. Len(p) - 1, f \in {0, 1} :
          \E cuts \in [0 .. k -> 0 .. Len(expect.legs)] : CreateOf(p, expect, k, f, cuts)
    BY <1>1, <1>4, CorrectIsBuilt DEF WellBuiltCreate
  <2>2. PICK cuts \in [0 .. k -> 0 .. Len(expect.legs)] : CreateOf(p, expect, k, f, cuts)
    BY <2>1
  <2>3. CreateWalked(expect, run.walk, p, k, f, cuts, Len(p))
    BY <1>3, <1>4, <2>2 DEF Walked
  <2>. HIDE DEF p
  <2>. QED
    BY <1>1, <1>4, <2>2, <2>3, CreateEnds DEF Whole
<1>5. CASE ~Create
  <2>1. PICK before \in 0 .. Len(p) - 1 : PreThenPrimary(p, ExpectedSteps[expect.verb], before)
    BY <1>1, <1>5, CorrectIsBuilt DEF WellBuiltWrite
  <2>2. WriteWalked(expect, run.walk, p, before, Len(p))
    BY <1>3, <1>5, <2>1 DEF Walked
  <2>. HIDE DEF p
  <2>. QED
    BY <1>1, <1>5, <2>2, WriteEnds DEF Whole
<1>. QED
  BY <1>4, <1>5

LEMMA HonestLists ==
  ASSUME NEW i \in Intents, NEW p \in Honest[i.verb]
  PROVE  IsList(p) /\ Len(p) \in Nat
<1>1. WellBuilt(p, i)
  BY HonestAssumption
<1>2. IsList(p)
  BY <1>1 DEF WellBuilt
<1>. QED
  BY <1>2 DEF IsList

(* A walk that starts follows every correct build.                         *)
LEMMA StartFollows ==
  ASSUME IInv', run'.presented = <<>>, run'.walk = IF Create' THEN StartCreate ELSE StartWalk
  PROVE  Followed'
<1>1. PICK i \in Intents : i.verb = expect'.verb
  <2>1. PICK i \in Intents : expect' = [i EXCEPT !.echo = expect'.echo, !.quote = expect'.quote]
    BY DEF IInv, Asked
  <2>2. i = [verb |-> i.verb, legs |-> i.legs, arg |-> i.arg, echo |-> "absent", quote |-> NoQuote,
             maxLamports |-> i.maxLamports, maxPriority |-> i.maxPriority]
    BY IntentsAssumption
  <2>3. i.verb = expect'.verb
    BY <2>1, <2>2
  <2>. QED
    BY <2>3
<1>2. Len(run'.presented) = 0
  OBVIOUS
<1>3. ASSUME NEW p \in Correct'
      PROVE  Walked(run.walk, p, 0)'
  <2>1. p \in Honest[i.verb]
    BY <1>1, <1>3 DEF Correct
  <2>2. Len(p) \in Nat
    BY <2>1, HonestLists
  <2>3. CASE Create'
    <3>1. run'.walk = StartCreate
      BY <2>3
    <3>2. \A k \in 0 .. Len(p) - 1 : k \in Nat
      BY <2>2
    <3>3. \A k \in 0 .. Len(p) - 1, f \in {0, 1} : \A cuts :
            CreateWalked(expect', run'.walk, p, k, f, cuts, 0)
      BY <3>1, <3>2, CreateStarts
    <3>. QED
      BY <2>3, <3>3 DEF Walked
  <2>4. CASE ~Create'
    <3>1. run'.walk = StartWalk
      BY <2>4
    <3>2. \A before \in 0 .. Len(p) - 1 : before \in Nat
      BY <2>2
    <3>3. \A before \in 0 .. Len(p) - 1 : WriteWalked(expect', run'.walk, p, before, 0)
      BY <3>1, <3>2, WriteStarts
    <3>. QED
      BY <2>4, <3>3 DEF Walked
  <2>. QED
    BY <2>3, <2>4
<1>. QED
  BY <1>2, <1>3 DEF Followed

(* What is correct, and what a walk follows, depend on the intent alone.   *)
LEMMA SameCorrect ==
  ASSUME expect' = expect
  PROVE  /\ Correct' = Correct /\ Create' = Create
         /\ \A w, p, n : Walked(w, p, n) => Walked(w, p, n)'
<1>1. Create' = Create
  BY DEF Create
<1>2. \A p : BuiltRight(p)' = BuiltRight(p)
  BY <1>1 DEF BuiltRight
<1>3. Correct' = Correct
  BY <1>2 DEF Correct
<1>. QED
  BY <1>1, <1>3 DEF Walked

LEMMA FairKept ==   \* nothing of it moves
  ASSUME Fair, UNCHANGED <<expect, run>>, stage' = stage \/ stage' = "over"
  PROVE  Fair'
<1>1. Create' = Create /\ (Followed <=> Followed') /\ (NoFalseRefusal <=> NoFalseRefusal')
  <2>1. Correct' = Correct /\ Create' = Create
    BY SameCorrect
  <2>2. \A w, p, n : Walked(w, p, n) <=> Walked(w, p, n)'
    BY <2>1 DEF Walked
  <2>. QED
    BY <2>1, <2>2 DEF Followed, NoFalseRefusal, StartsOne, HasTable
<1>. QED
  BY <1>1 DEF Fair

LEMMA OpenIsFair ==   \* no verdict against it, and no walk
  ASSUME stage' \notin {"ready", "reading", "walking"}, run'.verdict \notin {"refused", "incomplete"}
  PROVE  Fair'
BY DEF Fair, NoFalseRefusal

LEMMA StartIsFair ==
  ASSUME IInv', run'.presented = <<>>, run'.walk = IF Create' THEN StartCreate ELSE StartWalk,
         run'.verdict \notin {"refused", "incomplete"}
  PROVE  Fair'
<1>1. Followed'
  BY StartFollows
<1>. QED
  BY <1>1 DEF Fair, NoFalseRefusal

LEMMA InitIsFair == Init => Fair
<1>. SUFFICES ASSUME Init PROVE Fair
  OBVIOUS
<1>1. run = StartRun(IF Create THEN "create" ELSE "write") /\ stage = "ready"
  BY DEF Init
<1>2. /\ run.verdict = "open" /\ run.presented = <<>>
      /\ run.walk = IF Create THEN StartCreate ELSE StartWalk
  BY <1>1 DEF StartRun
<1>. QED
  BY <1>1, <1>2 DEF Fair, NoFalseRefusal

LEMMA JudgeIsFair ==
  ASSUME IInv, Fair, stage = "walking", NEW tx \in Offered, Judge(tx)
  PROVE  Fair'
<1>1. PICK fresh \in TableRead(tx) :
        LET judged == [run EXCEPT !.fresh = fresh, !.presented = Append(@, tx)]
        IN  IF Passes(tx, fresh)
            THEN run' = [judged EXCEPT !.walk = Taken(tx, fresh)] /\ UNCHANGED <<stage, exit>>
            ELSE run' = [judged EXCEPT !.verdict = "refused"] /\ Ends(Refusal)
  BY DEF Judge
<1>. DEFINE s == Append(run.presented, tx)
<1>2. expect' = expect /\ tx \in Mine /\ Followed
  BY DEF Judge, Offered, Mine, Fair
<1>3. /\ Len(run.presented) \in Nat /\ Len(s) = Len(run.presented) + 1
      /\ Len(s) \in DOMAIN s /\ s[Len(s)] = tx
  BY <1>2, AppendProperties DEF IInv, RunShape
<1>4. /\ Correct' = Correct /\ Create' = Create
      /\ \A w, p, n : Walked(w, p, n) => Walked(w, p, n)'
  BY <1>2, SameCorrect
<1>5. \A p \in Correct : Begins(s, p) =>
        /\ fresh \/ tx.tables = {} => Passes(tx, fresh)
        /\ Walked(Taken(tx, fresh), p, Len(s))
  BY <1>2, <1>3, WalksOn
<1>6. CASE Passes(tx, fresh)
  <2>1. /\ run' = [run EXCEPT !.fresh = fresh, !.presented = Append(@, tx), !.walk = Taken(tx, fresh)]
        /\ stage' = stage
    BY <1>1, <1>6
  <2>2. run'.presented = s /\ run'.walk = Taken(tx, fresh) /\ run'.verdict = run.verdict
    BY <2>1 DEF IInv, RunShape
  <2>3. Followed'
    <3>1. ASSUME NEW p \in Correct', Begins(run'.presented, p)
          PROVE  Walked(run.walk, p, Len(run.presented))'
      <4>1. Walked(Taken(tx, fresh), p, Len(s))
        BY <1>4, <1>5, <2>2, <3>1
      <4>. HIDE DEF s
      <4>2. Walked(Taken(tx, fresh), p, Len(s)) => Walked(run.walk, p, Len(run.presented))'
        BY <1>4, <2>2 DEF Walked
      <4>. QED
        BY <4>1, <4>2
    <3>. QED
      BY <3>1 DEF Followed
  <2>. QED
    BY <2>1, <2>2, <2>3 DEF Fair, NoFalseRefusal
<1>7. CASE ~Passes(tx, fresh)
  <2>1. /\ run' = [run EXCEPT !.fresh = fresh, !.presented = Append(@, tx), !.verdict = "refused"]
        /\ stage' = "over"
    BY <1>1, <1>7 DEF Ends
  <2>2. run'.presented = s /\ run'.fresh = fresh /\ run'.verdict = "refused"
    BY <2>1 DEF IInv, RunShape
  <2>3. HasTable' => fresh \/ tx.tables = {}
    BY <1>3, <2>2 DEF HasTable
  <2>4. HasTable' => \A p \in Correct : ~Begins(s, p)
    BY <1>5, <1>7, <2>3
  <2>5. HasTable' => ~StartsOne'
    BY <1>4, <2>2, <2>4 DEF StartsOne, Begins
  <2>. QED
    BY <2>1, <2>2, <2>5 DEF Fair, NoFalseRefusal
<1>. QED
  BY <1>6, <1>7

LEMMA ConcludeIsFair ==
  ASSUME IInv, Fair, Conclude
  PROVE  Fair'
<1>1. PICK dry \in BOOLEAN :
        /\ run' = [run EXCEPT !.verdict = IF Whole THEN "verified" ELSE "incomplete",
                              !.book = IF Create /\ run.resigned = 0 THEN run.walk.book ELSE @,
                              !.mode = IF dry THEN "dry" ELSE @]
        /\ IF ~Whole THEN Ends(Refusal)
           ELSE IF dry THEN Ends("ok") ELSE stage' = "signed" /\ UNCHANGED exit
  BY DEF Conclude
<1>2. /\ run'.presented = run.presented
      /\ run'.verdict = IF Whole THEN "verified" ELSE "incomplete"
  BY <1>1 DEF IInv, RunShape
<1>3. expect' = expect /\ stage = "walking" /\ Followed
  BY DEF Conclude, Fair
<1>4. CASE Whole
  <2>1. stage' \notin {"ready", "reading", "walking"}
    BY <1>1, <1>4 DEF Ends
  <2>. QED
    BY <1>2, <1>4, <2>1, OpenIsFair
<1>5. CASE ~Whole
  <2>1. run.presented \notin Correct
    BY <1>3, <1>5, WholeWhenWalked
  <2>2. run'.presented \notin Correct' /\ stage' = "over" /\ run'.verdict = "incomplete"
    BY <1>1, <1>2, <1>3, <1>5, <2>1, SameCorrect DEF Ends
  <2>. QED
    BY <2>2 DEF Fair, NoFalseRefusal
<1>. QED
  BY <1>4, <1>5

LEMMA StepIsFair ==
  ASSUME IInv, Fair, IInv', [Next]_vars
  PROVE  Fair'
<1>1. CASE StartWrite
  <2>1. run' = run /\ Create' = Create /\ stage = "ready"
    BY <1>1 DEF StartWrite, Create
  <2>2. /\ run.presented = <<>> /\ run.verdict \notin {"refused", "incomplete"}
        /\ run.walk = IF Create THEN StartCreate ELSE StartWalk
    BY <2>1 DEF Fair
  <2>. QED
    BY <2>1, <2>2, StartIsFair
<1>2. CASE Build
  <2>1. run' = run /\ stage = "reading" /\ Create
    BY <1>2 DEF Build, IInv, Stages
  <2>2. /\ run.presented = <<>> /\ run.verdict \notin {"refused", "incomplete"}
        /\ run.walk = StartCreate
    BY <2>1 DEF Fair
  <2>3. Create'
    BY <1>2, <2>1 DEF Build, IInv, Asked, Create
  <2>. QED
    BY <2>1, <2>2, <2>3, StartIsFair
<1>3. CASE RunAgain \/ Resume
  <2>1. PICK mode \in {"create", "resume"} : run' = StartRun(mode) /\ expect' = expect /\ Create
    BY <1>3 DEF RunAgain, Resume
  <2>2. run'.verdict = "open" /\ run'.presented = <<>> /\ run'.walk = StartCreate /\ Create'
    BY <2>1 DEF StartRun, Create
  <2>. QED
    BY <2>2, StartIsFair
<1>4. CASE PollSignAgain /\ stage' # "over"
  <2>1. /\ run' = [run EXCEPT !.resigned = Resigned(run), !.walk = StartCreate,
                              !.presented = <<>>, !.verdict = "open"]
        /\ expect' = expect /\ Create
    BY <1>4 DEF PollSignAgain, Ends, IInv, Stages
  <2>2. run'.verdict = "open" /\ run'.presented = <<>> /\ run'.walk = StartCreate /\ Create'
    BY <2>1 DEF IInv, RunShape, Create
  <2>. QED
    BY <2>2, StartIsFair
<1>5. CASE stage = "walking" /\ \E tx \in Offered : Judge(tx)
  BY <1>5, JudgeIsFair
<1>6. CASE Conclude
  BY <1>6, ConcludeIsFair
<1>7. CASE Accepted \/ Answered4xx \/ NoAnswer \/ Kill
  <2>1. /\ stage # "over" /\ stage' \in {"polling", "over"}
        /\ run' = Dropped \/ run' = [Dropped EXCEPT !.answered = TRUE]
    BY <1>7 DEF Accepted, Answered4xx, NoAnswer, Kill, Ends
  <2>2. run'.verdict = run.verdict
    BY <2>1 DEF Dropped, IInv, RunShape
  <2>. QED
    BY <2>1, <2>2, OpenIsFair DEF Fair
<1>8. CASE /\ UNCHANGED <<expect, run>>
           /\ stage' = stage \/ stage' = "over"
  BY <1>8, FairKept
<1>9. \/ StartWrite \/ Build \/ RunAgain \/ Resume \/ Conclude
      \/ PollSignAgain /\ stage' # "over"
      \/ stage = "walking" /\ \E tx \in Offered : Judge(tx)
      \/ Accepted \/ Answered4xx \/ NoAnswer \/ Kill
      \/ UNCHANGED <<expect, run>> /\ (stage' = stage \/ stage' = "over")
  <2>1. CASE Process
    BY <2>1 DEF Process, ReadFails, SignFails, Send, PollLive, PollDeadline, PollExpired,
       PollSignAgain, PollFails, Ends
  <2>2. CASE Elsewhere
    BY <2>2 DEF Elsewhere, Land, Expire, GiveUp, KeeperCompletes
  <2>3. CASE UNCHANGED vars
    BY <2>3 DEF vars
  <2>. QED
    BY <2>1, <2>2, <2>3 DEF Next
<1>. QED
  BY <1>1, <1>2, <1>3, <1>4, <1>5, <1>6, <1>7, <1>8, <1>9

(* A payload built as HonestBuild describes is never refused by a decoder  *)
(* that has its lookup table, in any run, re-sign or resume: no correct    *)
(* transaction fails the walk, and no correct payload is found incomplete  *)
(* (decode.js:977-1105, create_portfolio.mjs:546).                         *)
THEOREM HonestIsSigned == Spec => []NoFalseRefusal
<1>1. IInv /\ Fair /\ [Next]_vars => Fair'
  BY StepKeeps, StepIsFair
<1>2. Fair => NoFalseRefusal
  BY DEF Fair
<1>. QED
  BY <1>1, <1>2, InitIsFair, SigningInvariant, PTL DEF Spec

-----------------------------------------------------------------------------
(***************************************************************************)
(* A run has only so many steps: signatures it may still be asked for,     *)
(* then the stages before it, then the transactions to be judged.          *)
(***************************************************************************)
Rank == [over |-> 0, polling |-> 1, signed |-> 2, walking |-> 3, reading |-> 4, ready |-> 5]
Rounds == 6 * (MaxResign - run.resigned) + Rank[stage]
Left == Rounds * (MaxTx + 1) + (MaxTx - Len(run.presented))
Running == stage \in {"reading", "walking", "signed", "polling"}
WindsDown == Running => Left' <= Left /\ (Process => Left' < Left)

LEMMA Carry ==
  ASSUME NEW a \in Nat, NEW b \in Nat, a < b, NEW t \in Nat, NEW c \in 0 .. t, NEW d \in 0 .. t
  PROVE  a * (t + 1) + c < b * (t + 1) + d
<1>1. PICK e \in Nat : b = a + 1 + e
  <2>1. b - a - 1 \in Nat /\ b = a + 1 + (b - a - 1)
    OBVIOUS
  <2>. QED
    BY <2>1
<1>2. b * (t + 1) = a * (t + 1) + (t + 1) + e * (t + 1)
  BY <1>1
<1>3. e * (t + 1) \in Nat /\ a * (t + 1) \in Nat
  BY <1>1
<1>. QED
  BY <1>2, <1>3

LEMMA LeftIsNat ==
  ASSUME IInv
  PROVE  /\ Rounds \in Nat /\ Left \in Nat /\ MaxTx - Len(run.presented) \in 0 .. MaxTx
         /\ run.resigned \in Nat /\ MaxResign - run.resigned \in Nat /\ MaxTx \in Nat
<1>1. /\ MaxResign \in Nat /\ MaxTx \in Nat /\ run.resigned \in 0 .. MaxResign
      /\ run.presented \in Seq(Mine) /\ Len(run.presented) <= MaxTx
  BY BoundsAssumption DEF IInv, RunShape
<1>2. Rank[stage] \in Nat
  BY DEF IInv, Stages, Rank
<1>3. Rounds \in Nat /\ MaxTx - Len(run.presented) \in 0 .. MaxTx
  BY <1>1, <1>2 DEF Rounds
<1>4. Rounds * (MaxTx + 1) \in Nat
  BY <1>1, <1>3
<1>. QED
  BY <1>1, <1>3, <1>4 DEF Left

(* Another round, or another stage, counts for more than any transactions. *)
LEMMA RoundsLead ==
  ASSUME IInv, IInv', Rounds' < Rounds
  PROVE  Left' < Left
<1>1. /\ Rounds' \in Nat /\ (MaxTx - Len(run.presented))' \in 0 .. MaxTx
      /\ Left' = Rounds' * (MaxTx + 1) + (MaxTx - Len(run'.presented))
  <2>1. /\ MaxResign \in Nat /\ MaxTx \in Nat /\ run'.resigned \in 0 .. MaxResign
        /\ run'.presented \in Seq(Mine') /\ Len(run'.presented) <= MaxTx
    BY BoundsAssumption DEF IInv, RunShape
  <2>2. Rank[stage'] \in Nat
    BY DEF IInv, Stages, Rank
  <2>. QED
    BY <2>1, <2>2 DEF Rounds, Left
<1>2. Rounds \in Nat /\ MaxTx - Len(run.presented) \in 0 .. MaxTx /\ MaxTx \in Nat
  BY LeftIsNat
<1>. QED
  BY <1>1, <1>2, Carry DEF Left

LEMMA ProcessWinds ==
  ASSUME IInv, IInv', Running, Process
  PROVE  Left' < Left
<1>1. run.resigned \in Nat /\ MaxResign - run.resigned \in Nat /\ MaxResign \in Nat
  BY LeftIsNat, BoundsAssumption
<1>2. CASE stage = "walking" /\ \E tx \in Offered : Judge(tx)
  <2>. PICK tx \in Offered : Judge(tx)
    BY <1>2
  <2>1. PICK fresh \in TableRead(tx) :
          LET judged == [run EXCEPT !.fresh = fresh, !.presented = Append(@, tx)]
          IN  IF Passes(tx, fresh)
              THEN run' = [judged EXCEPT !.walk = Taken(tx, fresh)] /\ UNCHANGED <<stage, exit>>
              ELSE run' = [judged EXCEPT !.verdict = "refused"] /\ Ends(Refusal)
    BY DEF Judge
  <2>2. run'.presented = Append(run.presented, tx) /\ run'.resigned = run.resigned
    BY <2>1 DEF IInv, RunShape
  <2>3. CASE stage' = stage
    <3>1. Rounds' = Rounds
      BY <2>2, <2>3 DEF Rounds
    <3>2. Len(run'.presented) = Len(run.presented) + 1 /\ Len(run.presented) \in Nat
      BY <2>2 DEF IInv, RunShape
    <3>3. MaxTx \in Nat /\ Rounds * (MaxTx + 1) \in Nat
      BY LeftIsNat
    <3>. QED
      BY <3>1, <3>2, <3>3 DEF Left
  <2>4. CASE stage' # stage
    <3>1. stage' = "over"
      BY <2>1, <2>4 DEF Ends
    <3>. QED
      BY <1>1, <1>2, <2>2, <3>1, RoundsLead DEF Rounds, Rank
  <2>. QED
    BY <2>3, <2>4
<1>3. CASE PollSignAgain /\ stage' # "over"
  <2>1. /\ run' = [run EXCEPT !.resigned = Resigned(run), !.walk = StartCreate,
                              !.presented = <<>>, !.verdict = "open"]
        /\ stage = "polling" /\ stage' = "walking"
    BY <1>3 DEF PollSignAgain, Ends
  <2>2. run'.resigned = run.resigned + 1
    BY <2>1 DEF IInv, RunShape, Resigned
  <2>. QED
    BY <1>1, <2>1, <2>2, RoundsLead DEF Rounds, Rank
<1>4. CASE run'.resigned = run.resigned /\ Rank[stage'] < Rank[stage]
  <2>1. Rank[stage] \in Nat /\ Rank[stage'] \in Nat
    BY DEF IInv, Stages, Rank
  <2>. QED
    BY <1>1, <1>4, <2>1, RoundsLead DEF Rounds
<1>5. \/ stage = "walking" /\ \E tx \in Offered : Judge(tx)
      \/ PollSignAgain /\ stage' # "over"
      \/ run'.resigned = run.resigned /\ Rank[stage'] < Rank[stage]
  <2>1. CASE ReadFails \/ Build \/ SignFails \/ Send \/ PollLive \/ PollDeadline \/ PollExpired \/ PollFails
    <3>1. /\ run' = run /\ stage \in {"reading", "signed", "polling"}
          /\ stage' = "over" \/ (stage = "reading" /\ stage' = "walking")
      BY <2>1 DEF ReadFails, Build, SignFails, Send, PollLive, PollDeadline, PollExpired, PollFails, Ends
    <3>. QED
      BY <3>1 DEF Rank
  <2>2. CASE Conclude
    <3>1. stage = "walking" /\ stage' \in {"signed", "over"}
      BY <2>2 DEF Conclude, Ends
    <3>2. run'.resigned = run.resigned
      BY <2>2 DEF Conclude, IInv, RunShape
    <3>. QED
      BY <3>1, <3>2 DEF Rank
  <2>3. CASE Accepted \/ Answered4xx \/ NoAnswer
    <3>1. stage = "signed" /\ stage' \in {"polling", "over"}
      BY <2>3 DEF Accepted, Answered4xx, NoAnswer, Ends
    <3>2. run'.resigned = run.resigned
      BY <2>3 DEF Accepted, Answered4xx, NoAnswer, Dropped, IInv, RunShape
    <3>. QED
      BY <3>1, <3>2 DEF Rank
  <2>4. CASE PollSignAgain /\ stage' = "over"
    <3>1. stage = "polling" /\ run' = run
      BY <2>4 DEF PollSignAgain
    <3>. QED
      BY <2>4, <3>1 DEF Rank
  <2>5. ~StartWrite
    BY DEF Running, StartWrite
  <2>. QED
    BY <2>1, <2>2, <2>3, <2>4, <2>5 DEF Process
<1>. QED
  BY <1>2, <1>3, <1>4, <1>5

LEMMA ElsewhereWinds ==
  ASSUME IInv, IInv', Running, Elsewhere \/ UNCHANGED vars
  PROVE  Left' <= Left
<1>1. Left \in Nat
  BY LeftIsNat
<1>2. CASE UNCHANGED <<stage, run>>
  BY <1>1, <1>2 DEF Left, Rounds
<1>3. CASE Kill
  <2>1. stage' = "over" /\ run'.resigned = run.resigned
    BY <1>3 DEF Kill, Ends, Dropped, IInv, RunShape
  <2>2. run.resigned \in Nat /\ MaxResign - run.resigned \in Nat /\ MaxResign \in Nat
    BY LeftIsNat, BoundsAssumption
  <2>3. Rounds' < Rounds
    BY <2>1, <2>2 DEF Rounds, Rank, Running
  <2>4. Left' < Left
    BY <2>3, RoundsLead
  <2>5. Left' \in Int
    <3>1. /\ MaxResign \in Nat /\ MaxTx \in Nat /\ run'.resigned \in 0 .. MaxResign
          /\ run'.presented \in Seq(Mine')
      BY BoundsAssumption DEF IInv, RunShape
    <3>2. Rounds' \in Int
      BY <2>1, <3>1 DEF Rounds, Rank
    <3>. QED
      BY <3>1, <3>2 DEF Left
  <2>. QED
    BY <1>1, <2>4, <2>5
<1>4. UNCHANGED <<stage, run>> \/ Kill
  BY DEF Elsewhere, Running, RunAgain, Resume, Land, Expire, GiveUp, KeeperCompletes, vars
<1>. QED
  BY <1>2, <1>3, <1>4

(* A run that is under way has at most Left steps of its own before it,    *)
(* whatever the api and the chain do meanwhile and however often it is     *)
(* asked to sign again (create_portfolio.mjs:401, :641, :653).             *)
THEOREM RunsWindDown == Spec => [][WindsDown]_vars
<1>1. IInv /\ IInv' /\ [Next]_vars => [WindsDown]_vars
  <2>. SUFFICES ASSUME IInv, IInv', [Next]_vars, Running
                PROVE  Left' <= Left /\ (Process => Left' < Left)
    BY DEF WindsDown
  <2>1. Process => Left' < Left
    BY ProcessWinds
  <2>2. Elsewhere \/ UNCHANGED vars => Left' <= Left
    BY ElsewhereWinds
  <2>3. Left \in Nat /\ Left' \in Int
    <3>1. /\ MaxResign \in Nat /\ MaxTx \in Nat /\ run'.resigned \in 0 .. MaxResign
          /\ run'.presented \in Seq(Mine')
      BY BoundsAssumption DEF IInv, RunShape
    <3>2. Rank[stage'] \in Int
      BY DEF IInv, Stages, Rank
    <3>3. Rounds' \in Int
      BY <3>1, <3>2 DEF Rounds
    <3>4. Left' \in Int
      BY <3>1, <3>3 DEF Left
    <3>. QED
      BY <3>4, LeftIsNat
  <2>. QED
    BY <2>1, <2>2, <2>3 DEF Next
<1>. QED
  BY <1>1, SigningInvariant, PTL DEF Spec
=============================================================================
