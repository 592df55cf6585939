----------------------------- MODULE HomeProofs -----------------------------
(***************************************************************************)
(* Proofs about CuratorHome, for any presets, documents, notices, command  *)
(* lines and faults: the types, that a calm run which ends ok leaves a     *)
(* home without crosses, and that a run moves nothing of the owner's       *)
(* without the owner's consent.                                            *)
(***************************************************************************)
EXTENDS CuratorHome, TLAPS

(***************************************************************************)
(* The steps of a run, in the order init.mjs takes them.                   *)
(***************************************************************************)
Writing == {"policy", "signer token", "ops token", "signer env", "compose", "agent env"}
AfterPolicy == {"signer token", "ops token", "signer env", "compose", "agent env"}
HaveSignerToken == {"ops token", "signer env", "compose", "agent env"}
HaveTokens == {"signer env", "compose", "agent env"}
AfterEnv == {"compose", "agent env"}
AfterFacts == {"confirm"} \union Writing
Curated == {"reread", "facts"} \union AfterFacts
AfterFund == {"curation", "poll", "accept", "transfer", "send accept", "send transfer"} \union Curated
AfterKey == {"fund"} \union AfterFund
AfterHome == {"key"} \union AfterKey
AfterRow == {"home"} \union AfterHome
Steps == {"row"} \union AfterRow

(***************************************************************************)
(* The shape of the home, the containers, the chain and the run.           *)
(***************************************************************************)
Somebody == Wallets \union {None}
AgentFiles == [signer : Copies, notice : Notices \union {None}]
Homes ==
  [dir : {"absent", "foreign", "made"}, key : {None, Torn, Key},
   policy : PolicyFiles \union {None, Torn},
   signerToken : Tokens \union {None, Torn}, opsToken : Tokens \union {None, Torn},
   signerEnv : [signer : Copies, ops : Copies], compose : ComposeFiles \union {None, Torn},
   agentEnv : AgentFiles]
Stacks ==
  [signer : Containers \union {None}, process : Processes \union {None},
   agent : AgentFiles \union {None}, locked : BOOLEAN]
Chains ==
  [curator : Wallets, pending : {None, Other, Key}, notice : Notices, treasury : Addresses,
   guardian : Addresses, funded : BOOLEAN]
Rows == [curator : Wallets, pending : {None, Other, Key}, notice : Notices, treasury : Addresses]

RunShape ==
  /\ run = [at |-> run.at, opts |-> run.opts, row |-> run.row, read |-> run.read,
            guardian |-> run.guardian, said |-> run.said, calm |-> run.calm, last |-> run.last]
  /\ run.at \in Steps \union {"idle"} /\ run.said \in BOOLEAN /\ run.calm \in BOOLEAN
  /\ run.opts.policy \in Shipped \union {None}
  /\ run.read \in PolicyFiles \union {None, Torn}

Typed ==
  /\ files \in Homes /\ stack \in Stacks /\ chain \in Chains /\ shown \in Rows
  /\ RunShape /\ faults \in 0 .. MaxFaults
  /\ stack.process # None => stack.signer # None

(***************************************************************************)
(* What a run has behind it at a step, whoever else acts.                  *)
(***************************************************************************)
Overwrites == run.opts.policy # None /\ run.read # None
Behind ==
  /\ run.at \in AfterRow => run.row \in Rows
  /\ run.at \in AfterHome =>
       /\ run.opts.policy = None => run.read # Torn
       /\ (Overwrites /\ ~run.opts.yes) => run.read # Torn /\ run.read.doc \in Shipped
  /\ run.at \in {"send accept", "send transfer"} => run.said
  /\ run.at \in AfterFacts => run.guardian \in Addresses
  /\ run.at \in HaveSignerToken => files.signerToken \in Tokens
  /\ run.at \in HaveTokens => files.opsToken \in Tokens

(***************************************************************************)
(* What holds of a run nobody disturbs.                                    *)
(***************************************************************************)
RowFits(row) ==
  /\ row.notice = chain.notice /\ row.treasury = chain.treasury
  /\ row.curator = Key => chain.curator = Key

PolicyFits ==
  /\ files.policy \in PolicyFiles /\ files.policy.doc \in Admitting
  /\ files.policy.notice = chain.notice
EnvFits ==
  /\ files.signerToken \in Tokens /\ files.opsToken \in Tokens
  /\ files.signerToken # files.opsToken
  /\ files.signerEnv.signer = files.signerToken /\ files.signerEnv.ops = files.opsToken
ComposeFits ==
  files.compose = [treasury |-> chain.treasury, guardian |-> chain.guardian]
AgentFits == files.agentEnv.signer = files.signerToken /\ files.agentEnv.notice = chain.notice

CalmRun ==
  /\ RowFits(shown)
  /\ run.at \in AfterRow => RowFits(run.row)
  /\ run.at \in AfterHome => files.dir = "made"
  /\ run.at \in AfterHome \ AfterPolicy => run.read = files.policy
  /\ run.at \in AfterKey => files.key = Key
  /\ run.at \in AfterFund => chain.funded = TRUE
  /\ run.at \in Curated => chain.curator = Key
  /\ run.at \in AfterFacts => run.guardian = chain.guardian
  /\ run.at \in AfterPolicy => PolicyFits
  /\ run.at \in AfterEnv => EnvFits
  /\ run.at = "agent env" => ComposeFits
CalmEnd ==
  /\ run.last = "ok" /\ RowFits(shown)
  /\ files.dir = "made" /\ files.key = Key /\ chain.funded = TRUE /\ chain.curator = Key
  /\ PolicyFits /\ EnvFits /\ ComposeFits /\ AgentFits
Calm == run.calm => IF run.at = "idle" THEN CalmEnd ELSE CalmRun

IInv == Typed /\ Behind /\ Calm

(* The sets of steps are expanded everywhere.                              *)
USE DEF AfterRow, AfterHome, AfterKey, AfterFund, Curated, AfterFacts, HaveSignerToken, HaveTokens,
        Writing, AfterPolicy, AfterEnv, Steps

(* Nothing and a torn file are no record, token or key.                    *)
LEMMA Nothing ==
  /\ None # Torn /\ None \notin Tokens /\ Torn \notin Tokens
  /\ None \notin PolicyFiles /\ Torn \notin PolicyFiles
  /\ None \notin ComposeFiles /\ Torn \notin ComposeFiles
  /\ None \notin Containers /\ None \notin Processes
  BY FilesAssumption, NothingAssumption

LEMMA InitHolds == Init => IInv
  BY Nothing, HomeAssumption
  DEF Init, IInv, Typed, Behind, Calm, RunShape, Stopped, NoOptions, NoFiles, NoStack, NoAgentEnv,
     Homes, Stacks, Chains, Rows, RowOf, AgentFiles, Copies, Wallets

(***************************************************************************)
(* How a run goes on and how it ends.                                      *)
(***************************************************************************)
LEMMA GoesOn ==
  ASSUME RunShape, NEW step \in Steps, run' = [run EXCEPT !.at = step]
  PROVE  /\ RunShape' /\ run'.at = step /\ run'.opts = run.opts /\ run'.row = run.row
         /\ run'.read = run.read /\ run'.guardian = run.guardian /\ run'.said = run.said
         /\ run'.calm = run.calm
  BY DEF RunShape

LEMMA EndsBadly ==
  ASSUME IInv, NEW result, result # "ok", Ends(result),
         files' \in Homes, stack' = stack, chain' \in Chains, shown' = shown,
         faults' \in 0 .. MaxFaults
  PROVE  IInv'
<1>1. run'.at = "idle" /\ run'.calm = FALSE /\ RunShape'
  BY Nothing DEF Ends, Stopped, NoOptions, RunShape, IInv, Typed
<1>2. Typed'
  BY <1>1 DEF IInv, Typed
<1>3. Behind'
  BY <1>1 DEF Behind
<1> QED BY <1>1, <1>2, <1>3 DEF IInv, Calm

(***************************************************************************)
(* The steps of a run that wait or decide: the home and the chain stay.    *)
(***************************************************************************)
LEMMA OpenEnds ==
  ASSUME IInv, NEW result, result # "ok", Ends(result), UNCHANGED files, Outside
  PROVE  IInv'
  BY EndsBadly DEF IInv, Typed, Outside

LEMMA ReadRowHolds == ASSUME IInv, ReadRow PROVE IInv'
<1>1. ASSUME run' = [run EXCEPT !.at = "home", !.row = shown] PROVE IInv'
  <2>1. /\ run.at = "row" /\ run'.at = "home" /\ RunShape'
        /\ run'.opts = run.opts /\ run'.calm = run.calm /\ run'.read = run.read
        /\ run'.guardian = run.guardian /\ run'.said = run.said
        /\ run'.row = shown
    BY <1>1 DEF ReadRow, Goes, Asks, IInv, Typed, RunShape
  <2>2. UNCHANGED <<files, stack, chain, shown, faults>>
    BY DEF ReadRow, Outside, Asks
  <2>3. Typed'
    BY <2>1, <2>2 DEF IInv, Typed
  <2>4. Behind'
    BY <1>1, <2>1, <2>2 DEF IInv, Typed, Behind, Overwrites, Chains
  <2>5. Calm'
    BY <1>1, <2>1, <2>2 DEF IInv, Typed, Calm, CalmRun, RowFits, PolicyFits, EnvFits, ComposeFits
  <2> QED BY <2>3, <2>4, <2>5 DEF IInv
<1> QED BY <1>1 DEF ReadRow

LEMMA FundHolds == ASSUME IInv, Fund PROVE IInv'
<1>1. ASSUME chain.funded, Goes("curation") PROVE IInv'
  <2>1. /\ run.at = "fund" /\ run'.at = "curation" /\ RunShape'
        /\ run'.opts = run.opts /\ run'.calm = run.calm /\ run'.row = run.row
        /\ run'.read = run.read /\ run'.guardian = run.guardian /\ run'.said = run.said
    BY <1>1 DEF Fund, Goes, Asks, IInv, Typed, RunShape
  <2>2. UNCHANGED <<files, stack, chain, shown, faults>>
    BY DEF Fund, Outside, Asks
  <2>3. Typed'
    BY <2>1, <2>2 DEF IInv, Typed
  <2>4. Behind'
    BY <1>1, <2>1, <2>2 DEF IInv, Typed, Behind, Overwrites, Chains
  <2>5. Calm'
    BY <1>1, <2>1, <2>2 DEF IInv, Typed, Calm, CalmRun, RowFits, PolicyFits, EnvFits, ComposeFits
  <2> QED BY <2>3, <2>4, <2>5 DEF IInv
<1>2. ASSUME Ends("signer SOL") PROVE IInv'
  BY <1>2, OpenEnds DEF Fund
<1> QED BY <1>1, <1>2 DEF Fund

LEMMA CurationHolds == ASSUME IInv, Curation PROVE IInv'
<1>1. ASSUME run.row.curator = Key, Goes("facts") PROVE IInv'
  <2>1. /\ run.at = "curation" /\ run'.at = "facts" /\ RunShape'
        /\ run'.opts = run.opts /\ run'.calm = run.calm /\ run'.row = run.row
        /\ run'.read = run.read /\ run'.guardian = run.guardian /\ run'.said = run.said
    BY <1>1 DEF Curation, Goes, Asks, IInv, Typed, RunShape
  <2>2. UNCHANGED <<files, stack, chain, shown, faults>>
    BY DEF Curation, Outside, Asks
  <2>3. Typed'
    BY <2>1, <2>2 DEF IInv, Typed
  <2>4. Behind'
    BY <1>1, <2>1, <2>2 DEF IInv, Typed, Behind, Overwrites, Chains
  <2>5. Calm'
    BY <1>1, <2>1, <2>2 DEF IInv, Typed, Calm, CalmRun, RowFits, PolicyFits, EnvFits, ComposeFits
  <2> QED BY <2>3, <2>4, <2>5 DEF IInv
<1>2. ASSUME Goes("accept") PROVE IInv'
  <2>1. /\ run.at = "curation" /\ run'.at = "accept" /\ RunShape'
        /\ run'.opts = run.opts /\ run'.calm = run.calm /\ run'.row = run.row
        /\ run'.read = run.read /\ run'.guardian = run.guardian /\ run'.said = run.said
    BY <1>2 DEF Curation, Goes, Asks, IInv, Typed, RunShape
  <2>2. UNCHANGED <<files, stack, chain, shown, faults>>
    BY DEF Curation, Outside, Asks
  <2>3. Typed'
    BY <2>1, <2>2 DEF IInv, Typed
  <2>4. Behind'
    BY <1>2, <2>1, <2>2 DEF IInv, Typed, Behind, Overwrites, Chains
  <2>5. Calm'
    BY <1>2, <2>1, <2>2 DEF IInv, Typed, Calm, CalmRun, RowFits, PolicyFits, EnvFits, ComposeFits
  <2> QED BY <2>3, <2>4, <2>5 DEF IInv
<1>3. ASSUME Goes("poll") PROVE IInv'
  <2>1. /\ run.at = "curation" /\ run'.at = "poll" /\ RunShape'
        /\ run'.opts = run.opts /\ run'.calm = run.calm /\ run'.row = run.row
        /\ run'.read = run.read /\ run'.guardian = run.guardian /\ run'.said = run.said
    BY <1>3 DEF Curation, Goes, Asks, IInv, Typed, RunShape
  <2>2. UNCHANGED <<files, stack, chain, shown, faults>>
    BY DEF Curation, Outside, Asks
  <2>3. Typed'
    BY <2>1, <2>2 DEF IInv, Typed
  <2>4. Behind'
    BY <1>3, <2>1, <2>2 DEF IInv, Typed, Behind, Overwrites, Chains
  <2>5. Calm'
    BY <1>3, <2>1, <2>2 DEF IInv, Typed, Calm, CalmRun, RowFits, PolicyFits, EnvFits, ComposeFits
  <2> QED BY <2>3, <2>4, <2>5 DEF IInv
<1>4. ASSUME Goes("transfer") PROVE IInv'
  <2>1. /\ run.at = "curation" /\ run'.at = "transfer" /\ RunShape'
        /\ run'.opts = run.opts /\ run'.calm = run.calm /\ run'.row = run.row
        /\ run'.read = run.read /\ run'.guardian = run.guardian /\ run'.said = run.said
    BY <1>4 DEF Curation, Goes, Asks, IInv, Typed, RunShape
  <2>2. UNCHANGED <<files, stack, chain, shown, faults>>
    BY DEF Curation, Outside, Asks
  <2>3. Typed'
    BY <2>1, <2>2 DEF IInv, Typed
  <2>4. Behind'
    BY <1>4, <2>1, <2>2 DEF IInv, Typed, Behind, Overwrites, Chains
  <2>5. Calm'
    BY <1>4, <2>1, <2>2 DEF IInv, Typed, Calm, CalmRun, RowFits, PolicyFits, EnvFits, ComposeFits
  <2> QED BY <2>3, <2>4, <2>5 DEF IInv
<1>5. ASSUME Ends("curation") PROVE IInv'
  BY <1>5, OpenEnds DEF Curation
<1> QED BY <1>1, <1>2, <1>3, <1>4, <1>5 DEF Curation

LEMMA PollHolds == ASSUME IInv, Poll PROVE IInv'
<1>1. ASSUME shown.curator = Key, run' = [run EXCEPT !.at = "reread", !.row = shown] PROVE IInv'
  <2>1. /\ run.at = "poll" /\ run'.at = "reread" /\ RunShape'
        /\ run'.opts = run.opts /\ run'.calm = run.calm /\ run'.read = run.read
        /\ run'.guardian = run.guardian /\ run'.said = run.said
        /\ run'.row = shown
    BY <1>1 DEF Poll, Goes, Asks, IInv, Typed, RunShape
  <2>2. UNCHANGED <<files, stack, chain, shown, faults>>
    BY DEF Poll, Outside, Asks
  <2>3. Typed'
    BY <2>1, <2>2 DEF IInv, Typed
  <2>4. Behind'
    BY <1>1, <2>1, <2>2 DEF IInv, Typed, Behind, Overwrites, Chains
  <2>5. Calm'
    BY <1>1, <2>1, <2>2 DEF IInv, Typed, Calm, CalmRun, RowFits, PolicyFits, EnvFits, ComposeFits
  <2> QED BY <2>3, <2>4, <2>5 DEF IInv
<1>2. ASSUME run' = [run EXCEPT !.at = "accept", !.row = shown] PROVE IInv'
  <2>1. /\ run.at = "poll" /\ run'.at = "accept" /\ RunShape'
        /\ run'.opts = run.opts /\ run'.calm = run.calm /\ run'.read = run.read
        /\ run'.guardian = run.guardian /\ run'.said = run.said
        /\ run'.row = shown
    BY <1>2 DEF Poll, Goes, Asks, IInv, Typed, RunShape
  <2>2. UNCHANGED <<files, stack, chain, shown, faults>>
    BY DEF Poll, Outside, Asks
  <2>3. Typed'
    BY <2>1, <2>2 DEF IInv, Typed
  <2>4. Behind'
    BY <1>2, <2>1, <2>2 DEF IInv, Typed, Behind, Overwrites, Chains
  <2>5. Calm'
    BY <1>2, <2>1, <2>2 DEF IInv, Typed, Calm, CalmRun, RowFits, PolicyFits, EnvFits, ComposeFits
  <2> QED BY <2>3, <2>4, <2>5 DEF IInv
<1>3. ASSUME Ends("curation") PROVE IInv'
  BY <1>3, OpenEnds DEF Poll
<1> QED BY <1>1, <1>2, <1>3 DEF Poll

LEMMA AcceptHolds == ASSUME IInv, Accept PROVE IInv'
<1>1. ASSUME run' = [run EXCEPT !.at = "send accept", !.said = TRUE] PROVE IInv'
  <2>1. /\ run.at = "accept" /\ run'.at = "send accept" /\ RunShape'
        /\ run'.opts = run.opts /\ run'.calm = run.calm /\ run'.row = run.row
        /\ run'.read = run.read /\ run'.guardian = run.guardian
        /\ run'.said = TRUE
    BY <1>1 DEF Accept, Goes, Asks, IInv, Typed, RunShape
  <2>2. UNCHANGED <<files, stack, chain, shown, faults>>
    BY DEF Accept, Outside, Asks
  <2>3. Typed'
    BY <2>1, <2>2 DEF IInv, Typed
  <2>4. Behind'
    BY <1>1, <2>1, <2>2 DEF IInv, Typed, Behind, Overwrites, Chains
  <2>5. Calm'
    BY <1>1, <2>1, <2>2 DEF IInv, Typed, Calm, CalmRun, RowFits, PolicyFits, EnvFits, ComposeFits
  <2> QED BY <2>3, <2>4, <2>5 DEF IInv
<1>2. ASSUME Ends("curation") PROVE IInv'
  BY <1>2, OpenEnds DEF Accept, Asks
<1> QED BY <1>1, <1>2 DEF Accept, Asks

LEMMA TransferHolds == ASSUME IInv, Transfer PROVE IInv'
<1>1. ASSUME run' = [run EXCEPT !.at = "send transfer", !.said = TRUE] PROVE IInv'
  <2>1. /\ run.at = "transfer" /\ run'.at = "send transfer" /\ RunShape'
        /\ run'.opts = run.opts /\ run'.calm = run.calm /\ run'.row = run.row
        /\ run'.read = run.read /\ run'.guardian = run.guardian
        /\ run'.said = TRUE
    BY <1>1 DEF Transfer, Goes, Asks, IInv, Typed, RunShape
  <2>2. UNCHANGED <<files, stack, chain, shown, faults>>
    BY DEF Transfer, Outside, Asks
  <2>3. Typed'
    BY <2>1, <2>2 DEF IInv, Typed
  <2>4. Behind'
    BY <1>1, <2>1, <2>2 DEF IInv, Typed, Behind, Overwrites, Chains
  <2>5. Calm'
    BY <1>1, <2>1, <2>2 DEF IInv, Typed, Calm, CalmRun, RowFits, PolicyFits, EnvFits, ComposeFits
  <2> QED BY <2>3, <2>4, <2>5 DEF IInv
<1>2. ASSUME Ends("curation") PROVE IInv'
  BY <1>2, OpenEnds DEF Transfer, Asks
<1> QED BY <1>1, <1>2 DEF Transfer, Asks

LEMMA RereadHolds == ASSUME IInv, Reread PROVE IInv'
<1>1. ASSUME run' = [run EXCEPT !.at = "facts", !.row = shown] PROVE IInv'
  <2>1. /\ run.at = "reread" /\ run'.at = "facts" /\ RunShape'
        /\ run'.opts = run.opts /\ run'.calm = run.calm /\ run'.read = run.read
        /\ run'.guardian = run.guardian /\ run'.said = run.said
        /\ run'.row = shown
    BY <1>1 DEF Reread, Goes, Asks, IInv, Typed, RunShape
  <2>2. UNCHANGED <<files, stack, chain, shown, faults>>
    BY DEF Reread, Outside, Asks
  <2>3. Typed'
    BY <2>1, <2>2 DEF IInv, Typed
  <2>4. Behind'
    BY <1>1, <2>1, <2>2 DEF IInv, Typed, Behind, Overwrites, Chains
  <2>5. Calm'
    BY <1>1, <2>1, <2>2 DEF IInv, Typed, Calm, CalmRun, RowFits, PolicyFits, EnvFits, ComposeFits
  <2> QED BY <2>3, <2>4, <2>5 DEF IInv
<1> QED BY <1>1 DEF Reread

LEMMA FactsHolds == ASSUME IInv, Facts PROVE IInv'
<1>1. ASSUME run' = [run EXCEPT !.at = "confirm", !.guardian = chain.guardian] PROVE IInv'
  <2>1. /\ run.at = "facts" /\ run'.at = "confirm" /\ RunShape'
        /\ run'.opts = run.opts /\ run'.calm = run.calm /\ run'.row = run.row
        /\ run'.read = run.read /\ run'.said = run.said
        /\ run'.guardian = chain.guardian
    BY <1>1 DEF Facts, Goes, Asks, IInv, Typed, RunShape
  <2>2. UNCHANGED <<files, stack, chain, shown, faults>>
    BY DEF Facts, Outside, Asks
  <2>3. Typed'
    BY <2>1, <2>2 DEF IInv, Typed
  <2>4. Behind'
    BY <1>1, <2>1, <2>2 DEF IInv, Typed, Behind, Overwrites, Chains
  <2>5. Calm'
    BY <1>1, <2>1, <2>2 DEF IInv, Typed, Calm, CalmRun, RowFits, PolicyFits, EnvFits, ComposeFits
  <2> QED BY <2>3, <2>4, <2>5 DEF IInv
<1> QED BY <1>1 DEF Facts

LEMMA ConfirmHolds == ASSUME IInv, Confirm PROVE IInv'
<1>1. ASSUME Goes("policy") PROVE IInv'
  <2>1. /\ run.at = "confirm" /\ run'.at = "policy" /\ RunShape'
        /\ run'.opts = run.opts /\ run'.calm = run.calm /\ run'.row = run.row
        /\ run'.read = run.read /\ run'.guardian = run.guardian /\ run'.said = run.said
    BY <1>1 DEF Confirm, Goes, Asks, IInv, Typed, RunShape
  <2>2. UNCHANGED <<files, stack, chain, shown, faults>>
    BY DEF Confirm, Outside, Asks
  <2>3. Typed'
    BY <2>1, <2>2 DEF IInv, Typed
  <2>4. Behind'
    BY <1>1, <2>1, <2>2 DEF IInv, Typed, Behind, Overwrites, Chains
  <2>5. Calm'
    BY <1>1, <2>1, <2>2 DEF IInv, Typed, Calm, CalmRun, RowFits, PolicyFits, EnvFits, ComposeFits
  <2> QED BY <2>3, <2>4, <2>5 DEF IInv
<1>2. ASSUME Ends("confirm") PROVE IInv'
  BY <1>2, OpenEnds DEF Confirm
<1> QED BY <1>1, <1>2 DEF Confirm

(***************************************************************************)
(* The steps of a run that write to the home.                              *)
(***************************************************************************)
LEMMA OpenHomeHolds == ASSUME IInv, OpenHome PROVE IInv'
<1>1. ASSUME Ends("home"), UNCHANGED files PROVE IInv'
  BY <1>1, OpenEnds DEF OpenHome
<1>2. ASSUME Ends("policy file"), files' = [files EXCEPT !.dir = "made"] PROVE IInv'
  <2>1. files' \in Homes
    BY <1>2 DEF IInv, Typed, Homes
  <2> QED BY <1>2, <2>1, EndsBadly DEF OpenHome, Outside, IInv, Typed
<1>3. ASSUME run.opts.policy = None => files.policy # Torn,
             (run.opts.policy # None /\ files.policy # None /\ ~run.opts.yes)
               => files.policy # Torn /\ files.policy.doc \in Shipped,
             run' = [run EXCEPT !.at = "key", !.read = files.policy],
             files' = [files EXCEPT !.dir = "made"]
      PROVE  IInv'
  <2>1. /\ run.at = "home" /\ run'.at = "key" /\ RunShape'
        /\ run'.opts = run.opts /\ run'.calm = run.calm /\ run'.row = run.row
        /\ run'.guardian = run.guardian /\ run'.said = run.said /\ run'.read = files.policy
    BY <1>3 DEF OpenHome, Goes, IInv, Typed, RunShape, Homes
  <2>2. UNCHANGED <<stack, chain, shown, faults>>
    BY DEF OpenHome, Outside, Homes
  <2>3. /\ files'.dir = "made"
        /\ files'.key = files.key /\ files'.policy = files.policy
        /\ files'.signerToken = files.signerToken /\ files'.opsToken = files.opsToken
        /\ files'.signerEnv = files.signerEnv /\ files'.compose = files.compose
        /\ files'.agentEnv = files.agentEnv
        /\ files' \in Homes
    BY <1>3, <2>1, Nothing DEF IInv, Typed, Homes, Homes
  <2>4. Typed'
    BY <2>1, <2>2, <2>3 DEF IInv, Typed
  <2>5. Behind'
    BY <1>3, <2>1, <2>2, <2>3, Nothing DEF IInv, Typed, Behind, Overwrites, Chains, Homes
  <2>6. Calm'
    BY <1>3, <2>1, <2>2, <2>3, Nothing DEF IInv, Typed, Calm, CalmRun, RowFits, PolicyFits,
       EnvFits, ComposeFits, Homes
  <2> QED BY <2>4, <2>5, <2>6 DEF IInv
<1> QED BY <1>1, <1>2, <1>3 DEF OpenHome

LEMMA TakeKeyHolds == ASSUME IInv, TakeKey PROVE IInv'
<1>1. ASSUME Ends("curator key"), UNCHANGED files PROVE IInv'
  BY <1>1, OpenEnds DEF TakeKey
<1>2. ASSUME Goes("fund"),
             files' = [files EXCEPT !.key = Key]
      PROVE  IInv'
  <2>1. /\ run.at = "key" /\ run'.at = "fund" /\ RunShape'
        /\ run'.opts = run.opts /\ run'.calm = run.calm /\ run'.row = run.row
        /\ run'.read = run.read /\ run'.guardian = run.guardian /\ run'.said = run.said
    BY <1>2 DEF TakeKey, Goes, IInv, Typed, RunShape
  <2>2. UNCHANGED <<stack, chain, shown, faults>>
    BY DEF TakeKey, Outside
  <2>3. /\ files'.key = Key
        /\ files'.dir = files.dir /\ files'.policy = files.policy
        /\ files'.signerToken = files.signerToken /\ files'.opsToken = files.opsToken
        /\ files'.signerEnv = files.signerEnv /\ files'.compose = files.compose
        /\ files'.agentEnv = files.agentEnv
        /\ files' \in Homes
    BY <1>2, <2>1 DEF IInv, Typed, Homes
  <2>4. Typed'
    BY <2>1, <2>2, <2>3 DEF IInv, Typed
  <2>5. Behind'
    BY <1>2, <2>1, <2>2, <2>3 DEF IInv, Typed, Behind, Overwrites, Chains
  <2>6. Calm'
    BY <1>2, <2>1, <2>2, <2>3 DEF IInv, Typed, Calm, CalmRun, RowFits, PolicyFits, EnvFits,
       ComposeFits
  <2> QED BY <2>4, <2>5, <2>6 DEF IInv
<1> QED BY <1>1, <1>2 DEF TakeKey

LEMMA WritePolicyHolds == ASSUME IInv, WritePolicy PROVE IInv'
<1>1. ASSUME Ends("policy"), UNCHANGED files PROVE IInv'
  BY <1>1, OpenEnds DEF WritePolicy
<1>2. ASSUME run.at = "policy", Keeps(run) PROVE run.read \in PolicyFiles
  BY <1>2, Nothing DEF Keeps, IInv, Typed, RunShape, Behind
<1>3. ASSUME Document \in Admitting, Keeps(run), run.read.notice = run.row.notice,
             Goes("signer token"), UNCHANGED files PROVE IInv'
  <2>1. /\ run.at = "policy" /\ run'.at = "signer token" /\ RunShape'
        /\ run'.opts = run.opts /\ run'.calm = run.calm
        /\ run'.row = run.row /\ run'.read = run.read /\ run'.guardian = run.guardian
        /\ run'.said = run.said
    BY <1>3 DEF WritePolicy, Goes, IInv, Typed, RunShape, Document, Keeps
  <2>2. UNCHANGED <<files, stack, chain, shown, faults>>
    BY <1>3 DEF WritePolicy, Outside, Document, Keeps
  <2>3. Typed'
    BY <2>1, <2>2 DEF IInv, Typed
  <2>4. Behind'
    BY <1>3, <2>1, <2>2, <1>2 DEF IInv, Typed, Behind, Overwrites, Chains, Document, Keeps
  <2>5. Calm'
    BY <1>3, <2>1, <2>2, <1>2 DEF IInv, Typed, Calm, CalmRun, RowFits, PolicyFits, EnvFits,
       ComposeFits, Document, Keeps
  <2> QED BY <2>3, <2>4, <2>5 DEF IInv
<1> DEFINE written == [doc |-> Document, notice |-> run.row.notice]
<1>4. ASSUME run.at = "policy" PROVE written \in PolicyFiles /\ run.row \in Rows
  BY <1>4, Nothing, HomeAssumption
  DEF Document, Keeps, IInv, Typed, RunShape, Behind, PolicyFiles, Rows
<1> HIDE DEF written
<1>5. written.doc = Document /\ written.notice = run.row.notice
  BY DEF written
<1>6. ASSUME Document \in Admitting, Goes("signer token"),
             files' = [files EXCEPT !.policy = written]
      PROVE  IInv'
  <2>1. /\ run.at = "policy" /\ run'.at = "signer token" /\ RunShape'
        /\ run'.opts = run.opts /\ run'.calm = run.calm /\ run'.row = run.row
        /\ run'.read = run.read /\ run'.guardian = run.guardian /\ run'.said = run.said
    BY <1>6 DEF WritePolicy, Goes, IInv, Typed, RunShape
  <2>2. UNCHANGED <<stack, chain, shown, faults>>
    BY DEF WritePolicy, Outside
  <2>3. /\ files'.policy = written
        /\ files'.dir = files.dir /\ files'.key = files.key
        /\ files'.signerToken = files.signerToken /\ files'.opsToken = files.opsToken
        /\ files'.signerEnv = files.signerEnv /\ files'.compose = files.compose
        /\ files'.agentEnv = files.agentEnv
        /\ files' \in Homes
    BY <1>6, <2>1, <1>4, <1>5, Nothing DEF IInv, Typed, Homes
  <2>4. Typed'
    BY <2>1, <2>2, <2>3 DEF IInv, Typed
  <2>5. Behind'
    BY <1>6, <2>1, <2>2, <2>3, <1>4, <1>5, Nothing DEF IInv, Typed, Behind, Overwrites, Chains
  <2>6. Calm'
    BY <1>6, <2>1, <2>2, <2>3, <1>4, <1>5, Nothing DEF IInv, Typed, Calm, CalmRun, RowFits,
       PolicyFits, EnvFits, ComposeFits
  <2> QED BY <2>4, <2>5, <2>6 DEF IInv
<1> QED BY <1>1, <1>3, <1>6 DEF WritePolicy, written

LEMMA FreshToken == ASSUME Typed PROVE Fresh \in Tokens /\ Fresh \notin InUse
<1>1. \A t \in InUse : t \in Tokens \union {None, Torn}
  BY DEF Typed, Homes, AgentFiles, Copies, InUse
<1>2. Tokens \ InUse # {}
  BY <1>1, TokensAssumption DEF InUse
<1> QED BY <1>2 DEF Fresh

LEMMA SignerTokenHolds == ASSUME IInv, SignerToken PROVE IInv'
<1>1. ASSUME Ends("tokens"), UNCHANGED files PROVE IInv'
  BY <1>1, OpenEnds DEF SignerToken, TokenOf
<1>2. ASSUME files.signerToken \in Tokens, Goes("ops token"), UNCHANGED files PROVE IInv'
  <2>1. /\ run.at = "signer token" /\ run'.at = "ops token" /\ RunShape'
        /\ run'.opts = run.opts /\ run'.calm = run.calm
        /\ run'.row = run.row /\ run'.read = run.read /\ run'.guardian = run.guardian
        /\ run'.said = run.said
    BY <1>2 DEF SignerToken, Goes, IInv, Typed, RunShape, TokenOf
  <2>2. UNCHANGED <<files, stack, chain, shown, faults>>
    BY <1>2 DEF SignerToken, Outside, TokenOf
  <2>3. Typed'
    BY <2>1, <2>2 DEF IInv, Typed
  <2>4. Behind'
    BY <1>2, <2>1, <2>2, Nothing DEF IInv, Typed, Behind, Overwrites, Chains, TokenOf
  <2>5. Calm'
    BY <1>2, <2>1, <2>2, Nothing DEF IInv, Typed, Calm, CalmRun, RowFits, PolicyFits, EnvFits,
       ComposeFits, TokenOf
  <2> QED BY <2>3, <2>4, <2>5 DEF IInv
<1>3. ASSUME Goes("ops token"),
             files' = [files EXCEPT !.signerToken = Fresh]
      PROVE  IInv'
  <2>1. /\ run.at = "signer token" /\ run'.at = "ops token" /\ RunShape'
        /\ run'.opts = run.opts /\ run'.calm = run.calm /\ run'.row = run.row
        /\ run'.read = run.read /\ run'.guardian = run.guardian /\ run'.said = run.said
    BY <1>3 DEF SignerToken, Goes, IInv, Typed, RunShape, TokenOf
  <2>2. UNCHANGED <<stack, chain, shown, faults>>
    BY DEF SignerToken, Outside, TokenOf
  <2>3. /\ files'.signerToken = Fresh
        /\ files'.dir = files.dir /\ files'.key = files.key /\ files'.policy = files.policy
        /\ files'.opsToken = files.opsToken /\ files'.signerEnv = files.signerEnv
        /\ files'.compose = files.compose /\ files'.agentEnv = files.agentEnv
        /\ files' \in Homes
    BY <1>3, <2>1, FreshToken DEF IInv, Typed, Homes, TokenOf
  <2>4. Typed'
    BY <2>1, <2>2, <2>3 DEF IInv, Typed
  <2>5. Behind'
    BY <1>3, <2>1, <2>2, <2>3, FreshToken DEF IInv, Typed, Behind, Overwrites, Chains, TokenOf
  <2>6. Calm'
    BY <1>3, <2>1, <2>2, <2>3, FreshToken DEF IInv, Typed, Calm, CalmRun, RowFits, PolicyFits,
       EnvFits, ComposeFits, TokenOf
  <2> QED BY <2>4, <2>5, <2>6 DEF IInv
<1> QED BY <1>1, <1>2, <1>3 DEF SignerToken, TokenOf, ReadsToken

LEMMA OpsTokenHolds == ASSUME IInv, OpsToken PROVE IInv'
<1>1. ASSUME Ends("tokens"), UNCHANGED files PROVE IInv'
  BY <1>1, OpenEnds DEF OpsToken, TokenOf
<1>2. ASSUME files.opsToken \in Tokens, Goes("signer env"), UNCHANGED files PROVE IInv'
  <2>1. /\ run.at = "ops token" /\ run'.at = "signer env" /\ RunShape'
        /\ run'.opts = run.opts /\ run'.calm = run.calm
        /\ run'.row = run.row /\ run'.read = run.read /\ run'.guardian = run.guardian
        /\ run'.said = run.said
    BY <1>2 DEF OpsToken, Goes, IInv, Typed, RunShape, TokenOf
  <2>2. UNCHANGED <<files, stack, chain, shown, faults>>
    BY <1>2 DEF OpsToken, Outside, TokenOf
  <2>3. Typed'
    BY <2>1, <2>2 DEF IInv, Typed
  <2>4. Behind'
    BY <1>2, <2>1, <2>2, Nothing DEF IInv, Typed, Behind, Overwrites, Chains, TokenOf
  <2>5. Calm'
    BY <1>2, <2>1, <2>2, Nothing DEF IInv, Typed, Calm, CalmRun, RowFits, PolicyFits, EnvFits,
       ComposeFits, TokenOf
  <2> QED BY <2>3, <2>4, <2>5 DEF IInv
<1>3. ASSUME Goes("signer env"),
             files' = [files EXCEPT !.opsToken = Fresh]
      PROVE  IInv'
  <2>1. /\ run.at = "ops token" /\ run'.at = "signer env" /\ RunShape'
        /\ run'.opts = run.opts /\ run'.calm = run.calm /\ run'.row = run.row
        /\ run'.read = run.read /\ run'.guardian = run.guardian /\ run'.said = run.said
    BY <1>3 DEF OpsToken, Goes, IInv, Typed, RunShape, TokenOf
  <2>2. UNCHANGED <<stack, chain, shown, faults>>
    BY DEF OpsToken, Outside, TokenOf
  <2>3. /\ files'.opsToken = Fresh
        /\ files'.dir = files.dir /\ files'.key = files.key /\ files'.policy = files.policy
        /\ files'.signerToken = files.signerToken /\ files'.signerEnv = files.signerEnv
        /\ files'.compose = files.compose /\ files'.agentEnv = files.agentEnv
        /\ files' \in Homes
    BY <1>3, <2>1, FreshToken DEF IInv, Typed, Homes, TokenOf
  <2>4. Typed'
    BY <2>1, <2>2, <2>3 DEF IInv, Typed
  <2>5. Behind'
    BY <1>3, <2>1, <2>2, <2>3, FreshToken DEF IInv, Typed, Behind, Overwrites, Chains, TokenOf
  <2>6. Calm'
    BY <1>3, <2>1, <2>2, <2>3, FreshToken DEF IInv, Typed, Calm, CalmRun, RowFits, PolicyFits,
       EnvFits, ComposeFits, TokenOf
  <2> QED BY <2>4, <2>5, <2>6 DEF IInv
<1> QED BY <1>1, <1>2, <1>3 DEF OpsToken, TokenOf, ReadsToken

LEMMA WriteSignerEnvHolds == ASSUME IInv, WriteSignerEnv PROVE IInv'
<1>1. ASSUME Ends("tokens"), UNCHANGED files PROVE IInv'
  BY <1>1, OpenEnds DEF WriteSignerEnv
<1> DEFINE env == [signer |-> files.signerToken, ops |-> files.opsToken]
<1>2. env.signer = files.signerToken /\ env.ops = files.opsToken
  OBVIOUS
<1>3. ASSUME run.at = "signer env"
      PROVE  files.signerToken \in Tokens /\ files.opsToken \in Tokens
             /\ env \in [signer : Copies, ops : Copies]
  BY <1>3 DEF IInv, Behind, Copies
<1> HIDE DEF env
<1>4. ASSUME files.signerToken # files.opsToken, Goes("compose"),
             files' = [files EXCEPT !.signerEnv = env]
      PROVE  IInv'
  <2>1. /\ run.at = "signer env" /\ run'.at = "compose" /\ RunShape'
        /\ run'.opts = run.opts /\ run'.calm = run.calm /\ run'.row = run.row
        /\ run'.read = run.read /\ run'.guardian = run.guardian /\ run'.said = run.said
    BY <1>4 DEF WriteSignerEnv, Goes, IInv, Typed, RunShape
  <2>2. UNCHANGED <<stack, chain, shown, faults>>
    BY DEF WriteSignerEnv, Outside
  <2>3. /\ files'.signerEnv = env
        /\ files'.dir = files.dir /\ files'.key = files.key /\ files'.policy = files.policy
        /\ files'.signerToken = files.signerToken /\ files'.opsToken = files.opsToken
        /\ files'.compose = files.compose /\ files'.agentEnv = files.agentEnv
        /\ files' \in Homes
    BY <1>4, <2>1, <1>3, <1>2 DEF IInv, Typed, Homes
  <2>4. Typed'
    BY <2>1, <2>2, <2>3 DEF IInv, Typed
  <2>5. Behind'
    BY <1>4, <2>1, <2>2, <2>3, <1>3, <1>2 DEF IInv, Typed, Behind, Overwrites, Chains
  <2>6. Calm'
    BY <1>4, <2>1, <2>2, <2>3, <1>3, <1>2 DEF IInv, Typed, Calm, CalmRun, RowFits, PolicyFits,
       EnvFits, ComposeFits
  <2> QED BY <2>4, <2>5, <2>6 DEF IInv
<1> QED BY <1>1, <1>4 DEF WriteSignerEnv, env

LEMMA WriteComposeHolds == ASSUME IInv, WriteCompose PROVE IInv'
<1> DEFINE addresses == [treasury |-> run.row.treasury, guardian |-> run.guardian]
<1>1. ASSUME run.at = "compose" PROVE addresses \in ComposeFiles
  <2>1. run.row \in Rows /\ run.guardian \in Addresses
    BY <1>1 DEF IInv, Behind
  <2> QED BY <2>1 DEF ComposeFiles, Rows
<1>2. ASSUME run.at = "compose", run.calm
      PROVE  addresses = [treasury |-> chain.treasury, guardian |-> chain.guardian]
  BY <1>2 DEF IInv, Calm, CalmRun, RowFits
<1> HIDE DEF addresses
<1>3. ASSUME Goes("agent env"),
             files' = [files EXCEPT !.compose = addresses]
      PROVE  IInv'
  <2>1. /\ run.at = "compose" /\ run'.at = "agent env" /\ RunShape'
        /\ run'.opts = run.opts /\ run'.calm = run.calm /\ run'.row = run.row
        /\ run'.read = run.read /\ run'.guardian = run.guardian /\ run'.said = run.said
    BY <1>3 DEF WriteCompose, Goes, IInv, Typed, RunShape
  <2>2. UNCHANGED <<stack, chain, shown, faults>>
    BY DEF WriteCompose, Outside
  <2>3. /\ files'.compose = addresses
        /\ files'.dir = files.dir /\ files'.key = files.key /\ files'.policy = files.policy
        /\ files'.signerToken = files.signerToken /\ files'.opsToken = files.opsToken
        /\ files'.signerEnv = files.signerEnv /\ files'.agentEnv = files.agentEnv
        /\ files' \in Homes
    BY <1>3, <2>1, <1>1, <1>2 DEF IInv, Typed, Homes
  <2>4. Typed'
    BY <2>1, <2>2, <2>3 DEF IInv, Typed
  <2>5. Behind'
    BY <1>3, <2>1, <2>2, <2>3, <1>1, <1>2 DEF IInv, Typed, Behind, Overwrites, Chains
  <2>6. Calm'
    BY <1>3, <2>1, <2>2, <2>3, <1>1, <1>2 DEF IInv, Typed, Calm, CalmRun, RowFits, PolicyFits,
       EnvFits, ComposeFits
  <2> QED BY <2>4, <2>5, <2>6 DEF IInv
<1> QED BY <1>3 DEF WriteCompose, addresses

LEMMA WriteAgentEnvHolds == ASSUME IInv, WriteAgentEnv PROVE IInv'
<1> DEFINE env == [signer |-> files.signerToken, notice |-> run.row.notice]
<1>1. run.at = "agent env" /\ files' = [files EXCEPT !.agentEnv = env]
  BY DEF WriteAgentEnv
<1>2. run.row \in Rows /\ files.signerToken \in Tokens
  BY <1>1 DEF IInv, Behind
<1>3. env \in AgentFiles /\ env.signer = files.signerToken /\ env.notice = run.row.notice
  BY <1>2 DEF AgentFiles, Copies, Rows
<1> HIDE DEF env
<1>4. /\ run'.at = "idle" /\ run'.calm = run.calm /\ run'.last = "ok" /\ RunShape'
  BY Nothing DEF WriteAgentEnv, Ends, Stopped, NoOptions, RunShape, IInv, Typed
<1>5. /\ files'.dir = files.dir /\ files'.key = files.key /\ files'.policy = files.policy
      /\ files'.signerToken = files.signerToken /\ files'.opsToken = files.opsToken
      /\ files'.signerEnv = files.signerEnv /\ files'.compose = files.compose
      /\ files'.agentEnv = env /\ files' \in Homes
  BY <1>1, <1>3 DEF IInv, Typed, Homes
<1>6. UNCHANGED <<stack, chain, shown, faults>>
  BY DEF WriteAgentEnv, Outside
<1>7. Typed'
  BY <1>4, <1>5, <1>6 DEF IInv, Typed
<1>8. Behind'
  BY <1>4 DEF Behind
<1>9. ASSUME run.calm PROVE CalmEnd'
  <2>1. CalmRun
    BY <1>1, <1>9 DEF IInv, Calm
  <2>2. /\ RowFits(shown) /\ RowFits(run.row) /\ files.dir = "made" /\ files.key = Key
        /\ chain.funded = TRUE /\ chain.curator = Key /\ PolicyFits /\ EnvFits /\ ComposeFits
    BY <1>1, <2>1 DEF CalmRun
  <2>3. RowFits(shown)' /\ PolicyFits' /\ EnvFits' /\ ComposeFits' /\ AgentFits'
    BY <1>3, <1>5, <1>6, <2>2 DEF RowFits, PolicyFits, EnvFits, ComposeFits, AgentFits
  <2> QED BY <1>4, <1>5, <1>6, <2>2, <2>3 DEF CalmEnd
<1> QED BY <1>4, <1>7, <1>8, <1>9 DEF IInv, Calm

(***************************************************************************)
(* The steps of a run that sign.                                           *)
(***************************************************************************)
LEMMA OneMoreFault ==
  ASSUME IInv, faults' = faults \/ (faults < MaxFaults /\ faults' = faults + 1)
  PROVE  faults' \in 0 .. MaxFaults
  BY HomeAssumption DEF IInv, Typed
LEMMA OneMore == ASSUME IInv, Fault PROVE faults' \in 0 .. MaxFaults
  BY OneMoreFault DEF Fault

LEMMA SendHolds ==
  ASSUME IInv, NEW at \in {"send accept", "send transfer"}, NEW STATE lands, NEW STATE after, after \in Chains,
         NEW next \in {"reread", "poll"}, Sends(at, lands, after, next),
         RowFits(shown) => after.notice = chain.notice /\ after.treasury = chain.treasury,
         after.guardian = chain.guardian, after.funded = chain.funded,
         chain.curator = Key \/ next = "reread" => after.curator = Key
  PROVE  IInv'
<1>1. UNCHANGED <<files, stack, shown>> /\ (faults' = faults \/ (faults < MaxFaults /\ faults' = faults + 1))
  BY DEF Sends
<1>2. faults' \in 0 .. MaxFaults
  BY <1>1, OneMoreFault
<1>3. ASSUME Ends("curation"), chain' \in {chain, after} PROVE IInv'
  BY <1>3, <1>1, <1>2, EndsBadly DEF IInv, Typed
<1>4. ASSUME chain' = after, run' = [run EXCEPT !.at = next, !.said = FALSE] PROVE IInv'
  <2>1. /\ run.at = at /\ run'.at = next /\ RunShape' /\ run'.opts = run.opts /\ run'.calm = run.calm
        /\ run'.row = run.row /\ run'.read = run.read /\ run'.guardian = run.guardian
    BY <1>4 DEF Sends, IInv, Typed, RunShape
  <2>2. UNCHANGED <<files, stack, shown>> /\ faults' \in 0 .. MaxFaults
    BY <1>1, <1>2
  <2>3. Typed'
    BY <1>4, <2>1, <2>2 DEF IInv, Typed
  <2>4. Behind'
    BY <2>1, <2>2 DEF IInv, Behind, Overwrites
  <2>5. ASSUME run.calm PROVE CalmRun'
    <3>1. CalmRun
      BY <2>1, <2>5 DEF IInv, Calm
    <3>2. /\ RowFits(shown) /\ RowFits(run.row) /\ files.dir = "made" /\ files.key = Key
          /\ chain.funded = TRUE /\ run.read = files.policy
      BY <2>1, <3>1 DEF CalmRun
    <3>3. RowFits(shown)' /\ RowFits(run.row)'
      BY <1>4, <2>1, <2>2, <3>2 DEF RowFits
    <3>4. chain'.funded = TRUE /\ (next = "reread" => chain'.curator = Key)
      BY <1>4, <3>2
    <3> QED BY <2>1, <2>2, <3>2, <3>3, <3>4 DEF CalmRun
  <2> QED BY <2>1, <2>3, <2>4, <2>5 DEF IInv, Calm
<1> QED BY <1>3, <1>4 DEF Sends

LEMMA SendAcceptHolds == ASSUME IInv, SendAccept PROVE IInv'
<1>1. /\ Accepted \in Chains /\ Accepted.curator = Key
      /\ Accepted.notice = chain.notice /\ Accepted.treasury = chain.treasury
      /\ Accepted.guardian = chain.guardian /\ Accepted.funded = chain.funded
  BY DEF IInv, Typed, Accepted, Chains, Wallets
<1> QED BY <1>1, SendHolds DEF SendAccept

LEMMA SendTransferHolds == ASSUME IInv, SendTransfer PROVE IInv'
<1>1. /\ Handed \in Chains /\ Handed.curator = chain.curator
      /\ Handed.notice = chain.notice /\ Handed.treasury = chain.treasury
      /\ Handed.guardian = chain.guardian /\ Handed.funded = chain.funded
  BY DEF IInv, Typed, Handed, Chains
<1> QED BY <1>1, SendHolds DEF SendTransfer

LEMMA StepHolds == ASSUME IInv, Step PROVE IInv'
  BY ReadRowHolds, OpenHomeHolds, TakeKeyHolds, FundHolds, CurationHolds, PollHolds, AcceptHolds,
     TransferHolds, SendAcceptHolds, SendTransferHolds, RereadHolds, FactsHolds, ConfirmHolds,
     WritePolicyHolds, SignerTokenHolds, OpsTokenHolds, WriteSignerEnvHolds, WriteComposeHolds,
     WriteAgentEnvHolds DEF Step

(***************************************************************************)
(* A run begins, fails or is killed.                                       *)
(***************************************************************************)
LEMMA BeginHolds ==
  ASSUME IInv, NEW opts, opts.policy \in Shipped \union {None}, Begin(opts), faults' \in 0 .. MaxFaults
  PROVE  IInv'
<1>1. /\ run'.at = "row" /\ run'.opts = opts /\ run'.calm = (shown = RowOf(chain))
      /\ run' = [at |-> run'.at, opts |-> run'.opts, row |-> run'.row, read |-> run'.read,
                 guardian |-> run'.guardian, said |-> run'.said, calm |-> run'.calm, last |-> run'.last]
      /\ run'.said \in BOOLEAN /\ run'.read = None
  BY DEF Begin, Stopped
<1>2. RunShape'
  BY <1>1 DEF RunShape
<1>3. UNCHANGED <<files, stack, chain, shown>>
  BY DEF Begin
<1>4. Typed'
  BY <1>2, <1>3 DEF IInv, Typed
<1>5. Behind'
  BY <1>1 DEF Behind
<1>6. ASSUME run'.calm PROVE CalmRun'
  <2>1. shown = RowOf(chain)
    BY <1>1, <1>6
  <2>2. RowFits(shown)'
    BY <1>3, <2>1 DEF RowFits, RowOf
  <2> QED BY <1>1, <2>2 DEF CalmRun
<1> QED BY <1>1, <1>4, <1>5, <1>6 DEF IInv, Calm

LEMMA FailsHolds == ASSUME IInv, Fails PROVE IInv'
  BY OneMore, EndsBadly DEF Fails, IInv, Typed

LEMMA KilledHolds == ASSUME IInv, Killed PROVE IInv'
<1>1. files' \in Homes
  <2>1. files \in Homes
    BY DEF IInv, Typed
  <2>2. {[files EXCEPT !.dir = d] : d \in {"foreign", "made"}} \subseteq Homes
    BY <2>1 DEF Homes
  <2>3. /\ [files EXCEPT !.key = Torn] \in Homes /\ [files EXCEPT !.policy = Torn] \in Homes
        /\ [files EXCEPT !.signerToken = Torn] \in Homes /\ [files EXCEPT !.opsToken = Torn] \in Homes
        /\ [files EXCEPT !.compose = Torn] \in Homes
    BY <2>1 DEF Homes
  <2>4. /\ [files EXCEPT !.signerEnv = [signer |-> None, ops |-> None]] \in Homes
        /\ [files EXCEPT !.agentEnv = NoAgentEnv] \in Homes
    BY <2>1 DEF Homes, NoAgentEnv, AgentFiles, Copies
  <2>5. HalfWritten \subseteq Homes
    BY <2>2, <2>3, <2>4, Zenon DEF HalfWritten, Half
  <2> QED BY <2>1, <2>5 DEF Killed
<1> QED BY <1>1, OneMore, EndsBadly DEF Killed, IInv, Typed

(***************************************************************************)
(* The others.                                                             *)
(***************************************************************************)
LEMMA DisturbedHolds ==
  ASSUME IInv, run' = [run EXCEPT !.calm = FALSE],
         files' \in Homes, chain' \in Chains, stack' = stack, shown' = shown,
         faults' \in 0 .. MaxFaults,
         run.at \in Awaits \union {"idle"} \/ files' = files
  PROVE  IInv'
<1>1. /\ run'.at = run.at /\ run'.opts = run.opts /\ run'.row = run.row /\ run'.read = run.read
      /\ run'.guardian = run.guardian /\ run'.said = run.said /\ run'.calm = FALSE /\ RunShape'
  BY DEF IInv, Typed, RunShape
<1>2. Typed'
  BY <1>1 DEF IInv, Typed
<1>3. Behind'
  BY <1>1 DEF IInv, Behind, Overwrites, Awaits
<1> QED BY <1>1, <1>2, <1>3 DEF IInv, Calm

LEMMA EditPolicyHolds == ASSUME IInv, EditPolicy PROVE IInv'
<1>1. PICK d \in Edited : files' = [files EXCEPT !.policy.doc = d]
  BY DEF EditPolicy
<1>2. files.policy \in PolicyFiles
  BY DEF EditPolicy, IInv, Typed, Homes, ReadsPolicy
<1>3. [files.policy EXCEPT !.doc = d] \in PolicyFiles
  BY <1>1, <1>2 DEF PolicyFiles
<1>4. files' = [files EXCEPT !.policy = [files.policy EXCEPT !.doc = d]]
  BY <1>1
<1>5. files' \in Homes
  BY <1>3, <1>4 DEF IInv, Typed, Homes
<1> QED BY <1>5, OneMore, DisturbedHolds DEF EditPolicy, Disturbs, IInv, Typed

LEMMA TouchFilesHolds == ASSUME IInv, TouchFiles PROVE IInv'
<1>1. \A t \in InUse \union {Fresh, None} : t \in Tokens \union {None, Torn}
  BY FreshToken DEF IInv, Typed, Homes, AgentFiles, Copies, InUse
<1>2. files' \in Homes
  <2>1. ASSUME NEW t \in InUse \union {Fresh, None}, files' = [files EXCEPT !.signerToken = t]
        PROVE  files' \in Homes
    BY <1>1, <2>1 DEF IInv, Typed, Homes
  <2>2. ASSUME NEW t \in InUse \union {Fresh, None}, files' = [files EXCEPT !.opsToken = t]
        PROVE  files' \in Homes
    BY <1>1, <2>2 DEF IInv, Typed, Homes
  <2>3. ASSUME files' = [files EXCEPT !.policy = None] PROVE files' \in Homes
    BY <2>3 DEF IInv, Typed, Homes
  <2>4. ASSUME files' = [files EXCEPT !.agentEnv = NoAgentEnv] PROVE files' \in Homes
    BY <2>4 DEF IInv, Typed, Homes, NoAgentEnv, AgentFiles, Copies
  <2>5. ASSUME files' = [files EXCEPT !.compose = None] PROVE files' \in Homes
    BY <2>5 DEF IInv, Typed, Homes
  <2> QED BY <2>1, <2>2, <2>3, <2>4, <2>5 DEF TouchFiles
<1> QED BY <1>2, OneMore, DisturbedHolds DEF TouchFiles, Disturbs, IInv, Typed

LEMMA ChainMovesHolds == ASSUME IInv, ChainMoves PROVE IInv'
<1>1. chain' \in Chains
  BY DEF ChainMoves, IInv, Typed, Chains
<1> QED BY <1>1, OneMore, DisturbedHolds DEF ChainMoves, Disturbs, IInv, Typed

LEMMA OtherAcceptsHolds == ASSUME IInv, OtherAccepts PROVE IInv'
<1>1. chain' \in Chains
  BY DEF OtherAccepts, IInv, Typed, Chains, Wallets
<1> QED BY <1>1, DisturbedHolds DEF OtherAccepts, IInv, Typed

LEMMA ApiCatchesUpHolds == ASSUME IInv, ApiCatchesUp PROVE IInv'
<1>1. shown' = RowOf(chain) /\ UNCHANGED <<files, stack, chain, run, faults>>
  BY DEF ApiCatchesUp
<1>2. shown' \in Rows /\ RowFits(shown)'
  BY <1>1 DEF IInv, Typed, RowOf, Rows, Chains, RowFits
<1>3. Typed'
  BY <1>1, <1>2 DEF IInv, Typed, RunShape
<1>4. Behind'
  BY <1>1 DEF IInv, Behind, Overwrites
<1>5. Calm'
  BY <1>1, <1>2 DEF IInv, Calm, CalmRun, CalmEnd, RowFits, PolicyFits, EnvFits, ComposeFits,
     AgentFits
<1> QED BY <1>3, <1>4, <1>5 DEF IInv

LEMMA StackHolds ==
  ASSUME IInv, UNCHANGED <<files, chain, shown, run, faults>>, stack' \in Stacks,
         stack'.process # None => stack'.signer # None
  PROVE  IInv'
<1>1. Typed'
  BY DEF IInv, Typed, RunShape
<1>2. Behind'
  BY DEF IInv, Behind, Overwrites
<1>3. Calm'
  BY DEF IInv, Calm, CalmRun, CalmEnd, RowFits, PolicyFits, EnvFits, ComposeFits, AgentFits
<1> QED BY <1>1, <1>2, <1>3 DEF IInv

LEMMA BootHolds == ASSUME IInv, Boot PROVE IInv'
<1>1. files.policy \in PolicyFiles /\ stack.signer # None
  BY DEF Boot, MayBoot, ReadsPolicy, IInv, Typed, Homes
<1>2. [policy |-> files.policy, paused |-> TRUE] \in Processes
  BY <1>1 DEF Processes
<1>3. stack' \in Stacks /\ stack'.signer = stack.signer
  BY <1>2 DEF Boot, Booted, IInv, Typed, Stacks
<1> QED BY <1>1, <1>3, StackHolds DEF Boot, StackMoves

LEMMA LocksHolds == ASSUME IInv, Locks PROVE IInv'
<1>1. stack' \in Stacks /\ stack'.signer = stack.signer /\ stack'.process = stack.process
  BY DEF Locks, IInv, Typed, Stacks
<1> QED BY <1>1, StackHolds DEF Locks, StackMoves, IInv, Typed

(***************************************************************************)
(* What the owner is told to do.                                           *)
(***************************************************************************)
LEMMA ComposeUpHolds == ASSUME IInv, ComposeUp PROVE IInv'
<1>1. files.compose \in ComposeFiles
  BY DEF ComposeUp, ComposeCross, IInv, Typed, Homes
<1>2. EnvOf(files) \in Containers /\ files.agentEnv \in AgentFiles
  BY <1>1 DEF EnvOf, Containers, ComposeFiles, IInv, Typed, Homes
<1>3. stack' = Composed(stack, files)
  BY DEF ComposeUp
<1>4. /\ stack' \in Stacks /\ stack'.signer = EnvOf(files)
      /\ stack'.process \in {stack.process, None}
  BY <1>2, <1>3 DEF Composed, IInv, Typed, Stacks
<1> QED BY <1>2, <1>4, Nothing, StackHolds DEF ComposeUp, Operates, Done

LEMMA RestartSignerHolds == ASSUME IInv, RestartSigner PROVE IInv'
<1>1. stack' \in Stacks /\ stack'.process = None
  BY DEF RestartSigner, IInv, Typed, Stacks
<1> QED BY <1>1, StackHolds DEF RestartSigner, Operates, Done

LEMMA ResumeHolds == ASSUME IInv, Resume PROVE IInv'
<1> DEFINE process == [stack.process EXCEPT !.paused = FALSE]
<1>1. stack.process \in Processes /\ stack.signer # None
  BY DEF Resume, OpsAccepted, Up, IInv, Typed, Stacks
<1>2. process \in Processes
  BY <1>1 DEF Processes
<1>3. stack' = [stack EXCEPT !.process = process]
  BY DEF Resume
<1> HIDE DEF process
<1>4. stack' \in Stacks /\ stack'.signer = stack.signer
  BY <1>2, <1>3 DEF IInv, Typed, Stacks
<1> QED BY <1>1, <1>4, StackHolds DEF Resume, Operates, Done

LEMMA UnlockHolds == ASSUME IInv, Unlock PROVE IInv'
<1>1. stack' \in Stacks /\ stack'.signer = stack.signer /\ stack'.process = stack.process
  BY DEF Unlock, IInv, Typed, Stacks
<1> QED BY <1>1, StackHolds DEF Unlock, Operates, Done, IInv, Typed

(* An owner's step between runs: after a calm run that ended ok, no file   *)
(* and no fact the crosses read is changed.                                *)
LEMMA OwnerHolds ==
  ASSUME IInv, Idle, UNCHANGED <<run, stack, shown, faults>>, files' \in Homes, chain' \in Chains,
         \/ run.last # "ok"
         \/ /\ files' = files /\ chain'.notice = chain.notice /\ chain'.treasury = chain.treasury
            /\ chain'.guardian = chain.guardian /\ chain'.curator = chain.curator
            /\ chain.funded = TRUE => chain'.funded = TRUE
  PROVE  IInv'
<1>1. Typed'
  BY DEF IInv, Typed, RunShape
<1>2. Behind'
  BY DEF IInv, Behind, Idle
<1>3. Calm'
  BY DEF IInv, Calm, Idle, CalmEnd, RowFits, PolicyFits, EnvFits, ComposeFits, AgentFits
<1> QED BY <1>1, <1>2, <1>3 DEF IInv

LEMMA FundKeyHolds == ASSUME IInv, FundKey PROVE IInv'
<1>1. /\ chain' \in Chains /\ chain'.notice = chain.notice /\ chain'.treasury = chain.treasury
      /\ chain'.guardian = chain.guardian /\ chain'.curator = chain.curator /\ chain'.funded = TRUE
  BY DEF FundKey, IInv, Typed, Chains
<1> QED BY <1>1, OwnerHolds DEF FundKey, Mends, Done, IInv, Typed

LEMMA HandOverHolds == ASSUME IInv, HandOver PROVE IInv'
<1>1. chain' \in Chains
  BY DEF HandOver, Handed, IInv, Typed, Chains
<1> QED BY <1>1, OwnerHolds DEF HandOver, Mends, Done, IInv, Typed

LEMMA CancelHandoverHolds == ASSUME IInv, CancelHandover PROVE IInv'
<1>1. /\ chain' \in Chains /\ chain'.notice = chain.notice /\ chain'.treasury = chain.treasury
      /\ chain'.guardian = chain.guardian /\ chain'.curator = chain.curator /\ chain'.funded = chain.funded
  BY DEF CancelHandover, IInv, Typed, Chains
<1> QED BY <1>1, OwnerHolds DEF CancelHandover, Mends, Done, IInv, Typed

LEMMA MoveAsideHolds == ASSUME IInv, MoveAside PROVE IInv'
<1>1. files' \in Homes
  BY DEF MoveAside, IInv, Typed, Homes
<1> QED BY <1>1, OwnerHolds DEF MoveAside, Mends, Done, IInv, Typed

LEMMA WriteTokenHolds ==
  ASSUME IInv, WriteToken("signerToken") \/ WriteToken("opsToken") PROVE IInv'
<1>1. files' \in Homes
  BY FreshToken DEF WriteToken, IInv, Typed, Homes
<1> QED BY <1>1, OwnerHolds DEF WriteToken, Mends, Done, IInv, Typed

LEMMA DropCopiesHolds == ASSUME IInv, DropCopies PROVE IInv'
<1> DEFINE drop(file, copy) == IF files[file] = None THEN None ELSE copy
<1> DEFINE env == [signer |-> drop("signerToken", files.signerEnv.signer),
                   ops |-> drop("opsToken", files.signerEnv.ops)]
<1> DEFINE agent == [files.agentEnv EXCEPT !.signer = drop("signerToken", files.agentEnv.signer)]
<1>1. env \in [signer : Copies, ops : Copies] /\ agent \in AgentFiles
  BY DEF IInv, Typed, Homes, AgentFiles, Copies
<1>2. files' = [files EXCEPT !.signerEnv = env, !.agentEnv = agent]
  BY DEF DropCopies, IInv, Typed, Homes
<1> HIDE DEF env, agent
<1>3. files' \in Homes
  BY <1>1, <1>2 DEF IInv, Typed, Homes
<1> QED BY <1>3, OwnerHolds DEF DropCopies, Mends, Done, IInv, Typed

LEMMA RerunHolds == ASSUME IInv, Rerun PROVE IInv'
<1>1. PICK d \in Shipped : d \in Admitting
  BY HomeAssumption
<1>2. Advised.policy \in Shipped \union {None}
  BY <1>1 DEF Advised
<1> QED BY <1>2, BeginHolds DEF Rerun, IInv, Typed

LEMMA NextHolds == ASSUME IInv, [Next]_vars PROVE IInv'
<1>1. ASSUME NEW opts \in Options, Fault, Begin(opts) PROVE IInv'
  BY <1>1, HomeAssumption, OneMore, BeginHolds
<1>2. ASSUME Fixes PROVE IInv'
  BY <1>2, ComposeUpHolds, RestartSignerHolds, ResumeHolds, UnlockHolds, FundKeyHolds, HandOverHolds,
     CancelHandoverHolds, MoveAsideHolds, DropCopiesHolds, WriteTokenHolds DEF Fixes
<1>3. ASSUME UNCHANGED vars PROVE IInv'
  BY <1>3, StackHolds DEF vars, IInv, Typed
<1> QED BY <1>1, <1>2, <1>3, StepHolds, FailsHolds, KilledHolds, EditPolicyHolds, TouchFilesHolds,
           ChainMovesHolds, OtherAcceptsHolds, ApiCatchesUpHolds, BootHolds, LocksHolds, RerunHolds
        DEF Next

LEMMA Invariant == Spec => []IInv
  BY InitHolds, NextHolds, PTL DEF Spec

(***************************************************************************)
(* What follows.                                                           *)
(***************************************************************************)
(* Whatever the owner, the api and the faults do, every file holds nothing,*)
(* half of it or what its writer puts there, and a process runs in a       *)
(* container (home.mjs, init.mjs, curator.yml).                            *)
THEOREM TypesCorrect == Spec => []TypeOK
<1>1. IInv => TypeOK
  BY DEF IInv, Typed, TypeOK, Homes, Stacks, Chains, AgentFiles
<1> QED BY <1>1, Invariant, PTL

(* A run that ends ok, and that nobody disturbed, leaves nothing for the   *)
(* doctor to say but about a handover or a row that lags (init.mjs:317-498,*)
(* doctor.mjs:91-296).                                                     *)
THEOREM OkIsGreen == Spec => []GreenAfterInit
<1>1. ASSUME IInv, Idle, run.last = "ok", run.calm
      PROVE  /\ HomeCrosses \subseteq {"curator"}
             /\ (shown = RowOf(chain) /\ chain.pending = None) => HomeCrosses = {}
  <2>1. CalmEnd
    BY <1>1 DEF IInv, Calm, Idle
  <2>2. /\ files.dir = "made" /\ ReadsKey(files) /\ ReadsPolicy(files) /\ chain.funded
        /\ ~TokensCross(files)
    BY <2>1, Nothing DEF CalmEnd, PolicyFits, EnvFits, AgentFits, ReadsKey, ReadsPolicy,
       TokensCross,
                         ReadsToken
  <2>3. ~ComposeCross(files) /\ files.compose.treasury = chain.treasury /\ files.compose.guardian = chain.guardian
    <3>1. [treasury |-> chain.treasury, guardian |-> chain.guardian] \in ComposeFiles
      BY <1>1 DEF IInv, Typed, Chains, ComposeFiles
    <3> QED BY <2>1, <3>1, Nothing DEF CalmEnd, ComposeFits, ComposeCross
  <2>4. /\ files.policy.notice = shown.notice /\ files.policy.doc \in Admitting
        /\ files.compose.treasury = shown.treasury /\ files.agentEnv.notice = shown.notice
    BY <2>1, <2>3 DEF CalmEnd, PolicyFits, AgentFits, RowFits
  <2>5. HomeCrosses = When(CuratorCross(files, shown), "curator")
    BY <2>2, <2>3, <2>4 DEF HomeCrosses, Doctor, RowCrosses, When
  <2>6. (shown = RowOf(chain) /\ chain.pending = None) => ~CuratorCross(files, shown)
    BY <2>1 DEF CalmEnd, CuratorCross, RowOf
  <2> QED BY <2>5, <2>6 DEF When
<1>2. IInv => GreenAfterInit
  BY <1>1 DEF GreenAfterInit
<1> QED BY <1>2, Invariant, PTL

(***************************************************************************)
(* What a run moves of the owner's.                                        *)
(***************************************************************************)
(* Only a run's own steps take it from one step to another.                *)
LEMMA OwnSteps ==
  ASSUME IInv, Next, run.at # "idle", run'.at # run.at
  PROVE  Step \/ Fails \/ Killed
<1>1. ASSUME run' = [run EXCEPT !.calm = FALSE] PROVE FALSE
  BY <1>1 DEF IInv, Typed, RunShape
<1>2. ~(EditPolicy \/ TouchFiles \/ ChainMoves \/ OtherAccepts)
  BY <1>1 DEF EditPolicy, TouchFiles, ChainMoves, OtherAccepts, Disturbs
<1>3. ~(ApiCatchesUp \/ Boot \/ Locks)
  BY DEF ApiCatchesUp, Boot, Locks, StackMoves
<1>4. ~Fixes
  BY DEF Fixes, ComposeUp, RestartSigner, Resume, Unlock, FundKey, HandOver, CancelHandover,
     MoveAside,
         DropCopies, WriteToken, Idle
<1>5. ~Rerun /\ ~\E opts \in Options : Begin(opts)
  BY DEF Rerun, Idle, Begin
<1> QED BY <1>2, <1>3, <1>4, <1>5 DEF Next

LEMMA OnlyWritePolicy ==
  ASSUME IInv, Step, ~WritePolicy
  PROVE  files'.policy = files.policy
<1>1. ASSUME OpenHome \/ TakeKey PROVE files'.policy = files.policy
  BY <1>1 DEF OpenHome, TakeKey, IInv, Typed, Homes
<1>2. ASSUME SignerToken \/ OpsToken PROVE files'.policy = files.policy
  BY <1>2 DEF SignerToken, OpsToken, TokenOf, IInv, Typed, Homes
<1>3. ASSUME WriteSignerEnv \/ WriteCompose \/ WriteAgentEnv PROVE files'.policy = files.policy
  BY <1>3 DEF WriteSignerEnv, WriteCompose, WriteAgentEnv, IInv, Typed, Homes
<1>4. ASSUME ReadRow \/ Fund \/ Curation \/ Poll \/ Accept \/ Transfer \/ SendAccept \/ SendTransfer
               \/ Reread \/ Facts \/ Confirm
      PROVE  files' = files
  BY <1>4 DEF ReadRow, Fund, Curation, Poll, Accept, Transfer, Asks, SendAccept, SendTransfer,
     Sends,
              Reread, Facts, Confirm
<1> QED BY <1>1, <1>2, <1>3, <1>4 DEF Step

LEMMA OnlySends ==
  ASSUME Step, ~SendAccept, ~SendTransfer
  PROVE  chain' = chain
<1>1. ASSUME SignerToken \/ OpsToken PROVE chain' = chain
  BY <1>1 DEF SignerToken, OpsToken, TokenOf, Outside
<1>2. ASSUME OpenHome \/ TakeKey \/ WritePolicy \/ WriteSignerEnv \/ WriteCompose \/ WriteAgentEnv
      PROVE  chain' = chain
  BY <1>2 DEF OpenHome, TakeKey, WritePolicy, WriteSignerEnv, WriteCompose, WriteAgentEnv, Outside
<1>3. ASSUME ReadRow \/ Fund \/ Curation \/ Poll \/ Accept \/ Transfer \/ Reread \/ Facts \/ Confirm
      PROVE  chain' = chain
  BY <1>3 DEF ReadRow, Fund, Curation, Poll, Accept, Transfer, Asks, Reread, Facts, Confirm, Outside
<1> QED BY <1>1, <1>2, <1>3 DEF Step

LEMMA EditsKept ==
  ASSUME IInv, Step \/ Fails \/ Killed
  PROVE  EditKept
<1>1. SUFFICES ASSUME ReadsPolicy(files), files.policy.doc \in Edited, files'.policy # files.policy,
                      files'.policy # Torn, run.read = files.policy,
                      ~(run.opts.policy # None /\ run.opts.yes)
               PROVE  files'.policy.doc = files.policy.doc
  BY DEF EditKept
<1>2. ASSUME Fails \/ Killed PROVE FALSE
  <2>1. files' \in {files} \union HalfWritten
    BY <1>2 DEF Fails, Killed
  <2>2. \A half \in HalfWritten : half.policy \in {files.policy, Torn}
    <3>1. files \in Homes
      BY DEF IInv, Typed
    <3>2. \A d \in {"foreign", "made"} : [files EXCEPT !.dir = d].policy = files.policy
      BY <3>1 DEF Homes
    <3>3. /\ [files EXCEPT !.key = Torn].policy = files.policy
          /\ [files EXCEPT !.policy = Torn].policy = Torn
          /\ [files EXCEPT !.signerToken = Torn].policy = files.policy
          /\ [files EXCEPT !.opsToken = Torn].policy = files.policy
          /\ [files EXCEPT !.compose = Torn].policy = files.policy
          /\ [files EXCEPT !.signerEnv = [signer |-> None, ops |-> None]].policy = files.policy
          /\ [files EXCEPT !.agentEnv = NoAgentEnv].policy = files.policy
      BY <3>1 DEF Homes
    <3> QED BY <3>2, <3>3, Zenon DEF HalfWritten, Half
  <2> QED BY <1>1, <2>1, <2>2
<1>3. ASSUME Step PROVE WritePolicy
  BY <1>1, <1>3, OnlyWritePolicy
<1>4. ASSUME WritePolicy PROVE files'.policy.doc = files.policy.doc
  <2>1. run.at = "policy" /\ run.opts.policy \in Shipped \union {None} /\ files.policy \in PolicyFiles
    BY <1>1, <1>4 DEF WritePolicy, IInv, Typed, RunShape, Homes, ReadsPolicy
  <2>2. ASSUME ~Keeps(run) PROVE FALSE
    <3>1. run.opts.policy # None /\ run.read # None /\ ~run.opts.yes
      BY <1>1, <2>2 DEF Keeps, ReadsPolicy
    <3>2. run.read.doc \in Shipped
      BY <2>1, <3>1 DEF IInv, Behind, Overwrites
    <3> QED BY <1>1, <3>2, HomeAssumption
  <2>3. files'.policy.doc = run.read.doc
    <3>1. files' = [files EXCEPT !.policy = [doc |-> run.read.doc, notice |-> run.row.notice]]
      BY <1>1, <1>4, <2>2 DEF WritePolicy, Document
    <3> QED BY <3>1 DEF IInv, Typed, Homes
  <2> QED BY <1>1, <2>3
<1> QED BY <1>2, <1>3, <1>4

LEMMA MovesWithYes ==
  ASSUME IInv, Step \/ Fails \/ Killed
  PROVE  MovedWithYes
<1>1. SUFFICES ASSUME chain' # chain PROVE MovedWithYes
  BY DEF MovedWithYes
<1>2. ~Fails /\ ~Killed
  BY <1>1 DEF Fails, Killed
<1>3. ASSUME SendAccept PROVE MovedWithYes
  <2>1. run.at = "send accept" /\ chain.pending = Key /\ chain' = Accepted
    BY <1>1, <1>3 DEF SendAccept, Sends
  <2>2. run.said
    BY <2>1 DEF IInv, Behind
  <2> QED BY <2>1, <2>2 DEF MovedWithYes
<1>4. ASSUME SendTransfer PROVE MovedWithYes
  <2>1. run.at = "send transfer" /\ chain' = Handed
    BY <1>1, <1>4 DEF SendTransfer, Sends
  <2>2. run.said
    BY <2>1 DEF IInv, Behind
  <2>3. Handed.curator = chain.curator
    BY DEF Handed, IInv, Typed, Chains
  <2> QED BY <2>1, <2>2, <2>3 DEF MovedWithYes
<1> QED BY <1>1, <1>2, <1>3, <1>4, OnlySends

(* A document edited by hand that a run found is there afterwards, unless  *)
(* the run was told to write over it or was killed while it wrote, and a   *)
(* run moves curation only after a yes to that signing, towards its own    *)
(* key (init.mjs:132-152, 218-234).                                        *)
THEOREM MovesByConsent == Spec => OnlyByConsent
<1>1. ASSUME IInv, [Next]_vars
      PROVE  [(run.at # "idle" /\ run'.at # run.at) => EditKept /\ MovedWithYes]_vars
  BY <1>1, OwnSteps, EditsKept, MovesWithYes DEF vars
<1> QED BY <1>1, Invariant, PTL DEF Spec, OnlyByConsent
=============================================================================
