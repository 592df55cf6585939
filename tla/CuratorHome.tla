----------------------------- MODULE CuratorHome -----------------------------
(***************************************************************************)
(* weavr-curator init (lib/curator/init.mjs) over the home HomeFiles       *)
(* describes: the run from the portfolio's row to the agent's env file,    *)
(* killed or failing anywhere, run again over what it left, while the      *)
(* owner edits the home, curation and the chain facts move, and the api    *)
(* answers a row that lags behind the chain.                               *)
(*                                                                         *)
(* `run.at` is the step the run is about to take.  It waits for the api,   *)
(* the chain or the owner up to "confirm" and for nobody afterwards, so    *)
(* others act on the home only before.  What the doctor and a failed run   *)
(* tell the owner to do is an action of the owner each.                    *)
(***************************************************************************)
EXTENDS RunningStack, Integers

CONSTANTS
  Owner, Other,   \* the wallet that curates at first, and somebody else's
  Shipped,        \* the presets, "standard" among them
  Edited,         \* documents that match no preset
  Notices, Addresses,   \* rebalance_delay_secs; treasuries and guardians
  Options,        \* command lines: policy, yes, wait, wallet
  MaxFaults       \* bound: faults, edits and command lines nobody advised

(* What the files, the containers and the api's row hold when they hold    *)
(* something.                                                              *)
Wallets == {Owner, Other, Key}
PolicyFiles == [doc : Shipped \union Edited, notice : Notices]
ComposeFiles == [treasury : Addresses, guardian : Addresses]
Copies == Tokens \union {None}
Containers == [signer : Copies, ops : Copies, treasury : Addresses, guardian : Addresses]
Processes == [policy : PolicyFiles, paused : BOOLEAN]

ASSUME HomeAssumption ==
  /\ "standard" \in Shipped /\ None \notin Shipped \union Edited
  /\ Shipped \intersect Edited = {}
  /\ Shipped \intersect Admitting # {}      \* some preset admits the book
  /\ MaxFaults \in Nat
  /\ \A opts \in Options :
       /\ opts = [policy |-> opts.policy, yes |-> opts.yes, wait |-> opts.wait, wallet |-> opts.wallet]
       /\ opts.policy \in Shipped \union {None}
ASSUME NothingAssumption ==   \* nothing and half a file are not mistaken for something
  {None, Torn} \intersect (PolicyFiles \union ComposeFiles \union Containers \union Processes) = {}
ASSUME TokensAssumption ==    \* a token nobody uses is always to be had
  \A a, b, c, d, e \in Tokens \union {None, Torn} : Tokens \ {a, b, c, d, e} # {}

VARIABLES
  files,    \* the home
  stack,    \* the containers that run from it
  chain,    \* curation, the facts init copies, and is the key funded?
  shown,    \* the row the api answers
  run,      \* the run of init, and how the last one ended
  faults

vars == <<files, stack, chain, shown, run, faults>>

RowOf(c) == [curator |-> c.curator, pending |-> c.pending, notice |-> c.notice, treasury |-> c.treasury]
NoOptions == [policy |-> None, yes |-> FALSE, wait |-> FALSE, wallet |-> "none"]
Stopped ==
  [at |-> "idle", opts |-> NoOptions, row |-> None, read |-> None, guardian |-> None,
   said |-> FALSE, calm |-> FALSE, last |-> None]

Init ==
  /\ files = NoFiles /\ stack = NoStack
  /\ chain \in [curator : {Owner}, pending : {None}, notice : Notices, treasury : Addresses,
                guardian : Addresses, funded : BOOLEAN]
  /\ shown = RowOf(chain)
  /\ run = Stopped /\ faults = 0

-----------------------------------------------------------------------------
(* How a run goes on and how it ends: ok, a cross by its name, killed.     *)
Goes(step) == run' = [run EXCEPT !.at = step]
Ends(result) == run' = [Stopped EXCEPT !.last = result, !.calm = run.calm /\ result = "ok"]
Outside == UNCHANGED <<stack, chain, shown, faults>>

Begin(opts) ==   \* calm: the row is as new as the chain
  /\ run.at = "idle"
  /\ run' = [Stopped EXCEPT !.at = "row", !.opts = opts,
               !.calm = shown = RowOf(chain)]
  /\ UNCHANGED <<files, stack, chain, shown>>

ReadRow ==
  /\ run.at = "row"
  /\ run' = [run EXCEPT !.at = "home", !.row = shown]
  /\ UNCHANGED files /\ Outside

(* The directory, then the policy found in it.  A file that cannot be kept *)
(* stops the run, and one --policy would write over does without --yes.    *)
Keeps(r) == r.opts.policy = None /\ r.read # None
OpenHome_Mutant ==
  /\ run.at = "home"
  /\ IF files.dir = "foreign" /\ ~run.opts.yes
     THEN Ends("home") /\ UNCHANGED files
     ELSE /\ files' = [files EXCEPT !.dir = "made"]
          /\ IF run.opts.policy = None /\ files.policy = Torn
             THEN Ends("policy file")
             ELSE run' = [run EXCEPT !.at = "key", !.read = files.policy]
  /\ Outside
OpenHome ==
  /\ run.at = "home"
  /\ IF files.dir = "foreign" /\ ~run.opts.yes
     THEN Ends("home") /\ UNCHANGED files
     ELSE /\ files' = [files EXCEPT !.dir = "made"]
          /\ IF \/ run.opts.policy = None /\ files.policy = Torn
                \/ /\ run.opts.policy # None /\ files.policy # None /\ ~run.opts.yes
                   /\ files.policy = Torn \/ files.policy.doc \notin Shipped
             THEN Ends("policy file")
             ELSE run' = [run EXCEPT !.at = "key", !.read = files.policy]
  /\ Outside

TakeKey ==   \* generated once, wx
  /\ run.at = "key"
  /\ IF files.key = Torn THEN Ends("curator key") /\ UNCHANGED files
     ELSE Goes("fund") /\ files' = [files EXCEPT !.key = Key]
  /\ Outside

Fund ==   \* --wait polls: others act before the step is taken
  /\ run.at = "fund"
  /\ IF chain.funded THEN Goes("curation") ELSE Ends("signer SOL")
  /\ UNCHANGED files /\ Outside

-----------------------------------------------------------------------------
(* The handover, judged on the row this run holds.                         *)
Curation ==
  /\ run.at = "curation"
  /\ IF run.row.curator = Key THEN Goes("facts")
     ELSE IF run.row.pending = Key THEN Goes("accept")
     ELSE IF run.opts.wallet = "none"
          THEN IF run.opts.wait THEN Goes("poll") ELSE Ends("curation")
     ELSE IF run.row.curator # Owner THEN Ends("curation") ELSE Goes("transfer")
  /\ UNCHANGED files /\ Outside

Poll ==
  /\ run.at = "poll"
  /\ IF shown.curator = Key THEN run' = [run EXCEPT !.at = "reread", !.row = shown]
     ELSE IF shown.pending = Key THEN run' = [run EXCEPT !.at = "accept", !.row = shown]
     ELSE Ends("curation")
  /\ UNCHANGED files /\ Outside

(* Nothing is signed before the owner's --yes, or a y at the prompt.       *)
Asks(at, next) ==
  /\ run.at = at
  /\ \/ run' = [run EXCEPT !.at = next, !.said = TRUE]
     \/ ~run.opts.yes /\ Ends("curation")
  /\ UNCHANGED files /\ Outside
Accept_Mutant == run.at = "accept" /\ Goes("send accept") /\ UNCHANGED files /\ Outside
Accept == Asks("accept", "send accept")
Transfer == Asks("transfer", "send transfer")

Accepted == [chain EXCEPT !.curator = Key, !.pending = None]
Handed == [chain EXCEPT !.pending = Key]
Sends(at, lands, after, next) ==   \* the last outcome: it landed and nobody said so
  /\ run.at = at
  /\ \/ lands /\ chain' = after /\ run' = [run EXCEPT !.at = next, !.said = FALSE] /\ UNCHANGED faults
     \/ ~lands /\ Ends("curation") /\ UNCHANGED <<chain, faults>>
     \/ /\ lands /\ faults < MaxFaults
        /\ Ends("curation") /\ faults' = faults + 1 /\ chain' \in {chain, after}
  /\ UNCHANGED <<files, stack, shown>>
SendAccept == Sends("send accept", chain.pending = Key, Accepted, "reread")
SendTransfer == Sends("send transfer", chain.curator = Owner, Handed, "poll")

Reread ==
  /\ run.at = "reread"
  /\ run' = [run EXCEPT !.at = "facts", !.row = shown]
  /\ UNCHANGED files /\ Outside

Facts ==
  /\ run.at = "facts"
  /\ run' = [run EXCEPT !.at = "confirm", !.guardian = chain.guardian]
  /\ UNCHANGED files /\ Outside

Confirm ==
  /\ run.at = "confirm"
  /\ Goes("policy") \/ (~run.opts.yes /\ Ends("confirm"))
  /\ UNCHANGED files /\ Outside

-----------------------------------------------------------------------------
(* The policy: the document read at the start, the notice from the chain.  *)
Document == IF Keeps(run) THEN run.read.doc
            ELSE IF run.opts.policy # None THEN run.opts.policy ELSE "standard"
WritePolicy_Mutant ==   \* a preset keeps the notice it was shipped with
  /\ run.at = "policy"
  /\ IF Document \notin Admitting THEN Ends("policy") /\ UNCHANGED files
     ELSE /\ Goes("signer token")
          /\ IF Keeps(run) THEN UNCHANGED files
             ELSE files' = [files EXCEPT !.policy = [doc |-> Document, notice |-> None]]
  /\ Outside
WritePolicy ==
  /\ run.at = "policy"
  /\ IF Document \notin Admitting THEN Ends("policy") /\ UNCHANGED files
     ELSE /\ Goes("signer token")
          /\ IF Keeps(run) /\ run.read.notice = run.row.notice THEN UNCHANGED files
             ELSE files' = [files EXCEPT !.policy = [doc |-> Document, notice |-> run.row.notice]]
  /\ Outside

(* A token is read from its file, never adopted from a copy, and made only *)
(* when neither the file nor a copy is there.                              *)
InUse == {files.signerToken, files.opsToken, files.signerEnv.signer, files.signerEnv.ops,
          files.agentEnv.signer}
Fresh == CHOOSE t \in Tokens : t \notin InUse   \* generateToken: 32 random bytes
TokenOf(at, file, copies, next) ==
  /\ run.at = at
  /\ IF ReadsToken(files[file]) THEN Goes(next) /\ UNCHANGED files
     ELSE IF files[file] = None /\ copies = {None}
          THEN Goes(next) /\ files' = [files EXCEPT ![file] = Fresh]
     ELSE Ends("tokens") /\ UNCHANGED files
  /\ Outside
SignerToken ==
  TokenOf("signer token", "signerToken", {files.signerEnv.signer, files.agentEnv.signer}, "ops token")
OpsToken == TokenOf("ops token", "opsToken", {files.signerEnv.ops}, "signer env")

WriteSignerEnv_Mutant ==   \* the copy a previous run wrote is kept
  /\ run.at = "signer env"
  /\ IF files.signerToken = files.opsToken THEN Ends("tokens") /\ UNCHANGED files
     ELSE /\ Goes("compose")
          /\ IF files.signerEnv.signer # None THEN UNCHANGED files
             ELSE files' = [files EXCEPT !.signerEnv = [signer |-> files.signerToken, ops |-> files.opsToken]]
  /\ Outside
WriteSignerEnv ==
  /\ run.at = "signer env"
  /\ IF files.signerToken = files.opsToken THEN Ends("tokens") /\ UNCHANGED files
     ELSE /\ Goes("compose")
          /\ files' = [files EXCEPT !.signerEnv = [signer |-> files.signerToken, ops |-> files.opsToken]]
  /\ Outside

WriteCompose ==
  /\ run.at = "compose" /\ Goes("agent env")
  /\ files' = [files EXCEPT !.compose = [treasury |-> run.row.treasury, guardian |-> run.guardian]]
  /\ Outside

WriteAgentEnv ==
  /\ run.at = "agent env" /\ Ends("ok")
  /\ files' = [files EXCEPT !.agentEnv = [signer |-> files.signerToken, notice |-> run.row.notice]]
  /\ Outside

Step ==
  \/ ReadRow \/ OpenHome \/ TakeKey \/ Fund \/ Curation \/ Poll \/ Accept \/ Transfer
  \/ SendAccept \/ SendTransfer \/ Reread \/ Facts \/ Confirm
  \/ WritePolicy \/ SignerToken \/ OpsToken \/ WriteSignerEnv \/ WriteCompose \/ WriteAgentEnv

-----------------------------------------------------------------------------
(* Faults.  A call of the api or the chain fails; the process is killed,   *)
(* in the middle of a write too.                                           *)
Fault == faults < MaxFaults /\ faults' = faults + 1
Awaits == {"row", "fund", "poll", "accept", "transfer", "send accept", "send transfer", "reread",
           "facts", "confirm"}
Fails ==
  /\ Fault /\ run.at \in Awaits
  /\ Ends("init")
  /\ UNCHANGED <<files, stack, chain, shown>>

Half(at, could, halves) == IF run.at = at /\ could THEN halves ELSE {}
HalfWritten ==
  Half("home", files.dir = "absent", {[files EXCEPT !.dir = d] : d \in {"foreign", "made"}})
  \union Half("key", files.key = None, {[files EXCEPT !.key = Torn]})
  \union Half("policy", TRUE, {[files EXCEPT !.policy = Torn]})
  \union Half("signer token", files.signerToken = None, {[files EXCEPT !.signerToken = Torn]})
  \union Half("ops token", files.opsToken = None, {[files EXCEPT !.opsToken = Torn]})
  \union Half("signer env", TRUE, {[files EXCEPT !.signerEnv = [signer |-> None, ops |-> None]]})
  \union Half("compose", TRUE, {[files EXCEPT !.compose = Torn]})
  \union Half("agent env", TRUE, {[files EXCEPT !.agentEnv = NoAgentEnv]})
Killed ==
  /\ Fault /\ run.at # "idle"
  /\ files' \in {files} \union HalfWritten
  /\ Ends("killed")
  /\ UNCHANGED <<stack, chain, shown>>

(* The owner's hands on the home, and what others do on chain, at a moment *)
(* the run waits or between runs.                                          *)
Disturbs == Fault /\ run.at \in Awaits \union {"idle"} /\ run' = [run EXCEPT !.calm = FALSE]
EditPolicy ==
  /\ Disturbs /\ ReadsPolicy(files)
  /\ \E d \in Edited \ {files.policy.doc} : files' = [files EXCEPT !.policy.doc = d]
  /\ UNCHANGED <<stack, chain, shown>>
TouchFiles ==   \* lost, rotated, or the same value twice
  /\ Disturbs
  /\ \/ files' = [files EXCEPT !.policy = None]
     \/ \E file \in {"signerToken", "opsToken"}, t \in InUse \union {Fresh, None} :
          files' = [files EXCEPT ![file] = t]
     \/ files' = [files EXCEPT !.agentEnv = NoAgentEnv]
     \/ files' = [files EXCEPT !.compose = None]
  /\ files' # files
  /\ UNCHANGED <<stack, chain, shown>>
ChainMoves ==
  /\ Disturbs
  /\ \/ \E n \in Notices : chain' = [chain EXCEPT !.notice = n]
     \/ \E a \in Addresses : chain' \in {[chain EXCEPT !.treasury = a], [chain EXCEPT !.guardian = a]}
     \/ chain' = [chain EXCEPT !.funded = FALSE]
     \/ chain.curator = Key /\ chain' = [chain EXCEPT !.pending = Other]
  /\ chain' # chain
  /\ UNCHANGED <<files, stack, shown>>
OtherAccepts ==
  /\ chain.pending = Other
  /\ chain' = [chain EXCEPT !.curator = Other, !.pending = None]
  /\ run' = [run EXCEPT !.calm = FALSE]
  /\ UNCHANGED <<files, stack, shown, faults>>

ApiCatchesUp ==
  /\ shown # RowOf(chain) /\ shown' = RowOf(chain)
  /\ UNCHANGED <<files, stack, chain, run, faults>>

-----------------------------------------------------------------------------
(* The running signer: docker starts it until it boots, and a tick that    *)
(* sees drift locks it.  A restart and an unlock are the owner's.          *)
StackMoves == UNCHANGED <<files, chain, shown, run, faults>>
Boot == MayBoot(stack, files) /\ stack' = Booted(stack, files) /\ StackMoves
Locks ==
  /\ Up(stack) /\ ~stack.locked /\ Drift(stack, chain)
  /\ stack' = [stack EXCEPT !.locked = TRUE]
  /\ StackMoves

-----------------------------------------------------------------------------
(* What the owner is told to do: by the run's last cross, and by the       *)
(* doctor, who reads the files, the api's row, the chain and the signer.   *)
HomeCrosses == Doctor(files, shown, chain)
Crosses == HomeCrosses \union StackCrosses(files, stack, chain)
Idle == run.at = "idle"
Done == UNCHANGED <<run, shown, faults>>
Mends == Done /\ UNCHANGED stack
Operates == Done /\ UNCHANGED <<files, chain>>

FundKey ==
  /\ Idle /\ ~chain.funded /\ (run.last = "signer SOL" \/ "signer SOL" \in Crosses)
  /\ chain' = [chain EXCEPT !.funded = TRUE]
  /\ UNCHANGED files /\ Mends
HandOver ==
  /\ Idle /\ run.last = "curation" /\ chain.curator # Key /\ chain.pending # Key
  /\ chain' = Handed
  /\ UNCHANGED files /\ Mends
CancelHandover ==
  /\ Idle /\ "curator" \in Crosses /\ chain.curator = Key /\ chain.pending # None
  /\ chain' = [chain EXCEPT !.pending = None]
  /\ UNCHANGED files /\ Mends
MoveAside ==   \* the file a cross named
  /\ Idle
  /\ \/ run.last = "policy file" /\ files.policy = Torn /\ files' = [files EXCEPT !.policy = None]
     \/ run.last = "curator key" /\ files.key = Torn /\ files' = [files EXCEPT !.key = None]
     \/ /\ run.last = "tokens" /\ files.signerToken = files.opsToken /\ ReadsToken(files.opsToken)
        /\ files' = [files EXCEPT !.opsToken = None]
  /\ UNCHANGED chain /\ Mends
WriteToken(file) ==   \* the new value in the file: a rotation
  /\ Idle /\ run.last = "tokens" /\ ~ReadsToken(files[file])
  /\ files' = [files EXCEPT ![file] = Fresh]
  /\ UNCHANGED chain /\ Mends
DropCopies ==   \* or no copy, so that init makes one
  /\ Idle /\ run.last = "tokens" /\ None \in {files.signerToken, files.opsToken}
  /\ LET drop(file, copy) == IF files[file] = None THEN None ELSE copy
     IN  files' = [files EXCEPT !.signerEnv = [signer |-> drop("signerToken", files.signerEnv.signer),
                                               ops |-> drop("opsToken", files.signerEnv.ops)],
                                !.agentEnv.signer = drop("signerToken", files.agentEnv.signer)]
  /\ files' # files
  /\ UNCHANGED chain /\ Mends

ComposeUp ==   \* the step init prints after ok, and the fix for a stack that is not up
  /\ Idle /\ ~ComposeCross(files)
  /\ run.last = "ok" \/ {"signer health", "signer status", "containers"} \intersect Crosses # {}
  /\ stack' = Composed(stack, files) /\ stack' # stack
  /\ Operates
RestartSigner ==
  /\ Idle /\ "signer policy" \in Crosses
  /\ stack' = [stack EXCEPT !.process = None]
  /\ Operates
OpsAccepted == Up(stack) /\ ReadsToken(files.opsToken) /\ files.opsToken = stack.signer.ops
Resume ==   \* weavr-curator ops, with the ops token's file
  /\ Idle /\ "signer paused" \in Crosses /\ OpsAccepted
  /\ stack' = [stack EXCEPT !.process.paused = FALSE]
  /\ Operates
Unlock ==   \* the signer refuses while the drift is there
  /\ Idle /\ "signer lock" \in Crosses /\ OpsAccepted /\ ~Drift(stack, chain)
  /\ stack' = [stack EXCEPT !.locked = FALSE]
  /\ Operates

Fixes ==
  \/ ComposeUp \/ RestartSigner \/ Resume \/ Unlock
  \/ FundKey \/ HandOver \/ CancelHandover \/ MoveAside \/ DropCopies
  \/ WriteToken("signerToken") \/ WriteToken("opsToken")
Advised ==
  [policy |-> IF run.last = "policy" THEN CHOOSE d \in Shipped : d \in Admitting ELSE None,
   yes |-> TRUE, wait |-> FALSE, wallet |-> "none"]
Unfinished == run.last \notin {None, "ok"}
InitMends == HomeCrosses # {}   \* each of their fixes ends in "run init again"
NothingElse == ~ENABLED Fixes   \* no other advice comes first
Rerun ==
  /\ Idle /\ (Unfinished \/ InitMends) /\ NothingElse
  /\ Begin(Advised) /\ UNCHANGED faults

Next ==
  \/ Step \/ Fails \/ Killed
  \/ EditPolicy \/ TouchFiles \/ ChainMoves \/ OtherAccepts \/ ApiCatchesUp
  \/ Boot \/ Locks \/ Fixes \/ Rerun
  \/ Fault /\ \E opts \in Options : Begin(opts)

Spec == Init /\ [][Next]_vars
FairSpec ==
  /\ Spec /\ WF_vars(Step) /\ WF_vars(ApiCatchesUp) /\ WF_vars(Boot)
  /\ WF_vars(Fixes) /\ WF_vars(Rerun)

-----------------------------------------------------------------------------
TypeOK ==
  /\ files.dir \in {"absent", "foreign", "made"} /\ files.key \in {None, Torn, Key}
  /\ files.policy \in PolicyFiles \union {None, Torn}
  /\ {files.signerToken, files.opsToken} \subseteq Tokens \union {None, Torn}
  /\ files.compose \in ComposeFiles \union {None, Torn}
  /\ {files.signerEnv.signer, files.signerEnv.ops, files.agentEnv.signer} \subseteq Copies
  /\ files.agentEnv.notice \in Notices \union {None}
  /\ stack.signer \in Containers \union {None} /\ stack.process \in Processes \union {None}
  /\ stack.process # None => stack.signer # None
  /\ chain.curator \in Wallets /\ chain.pending \in {None, Other, Key}
  /\ faults \in 0 .. MaxFaults

(* A run that ends ok leaves a home the doctor has nothing to say about,   *)
(* if nobody else touched the home or the chain since it began: every file *)
(* was written from the same row and the same token files.  Curation is    *)
(* the exception while the api's row lags or a handover away is pending    *)
(* (init.mjs:317-498, doctor.mjs:91-296).                                  *)
GreenAfterInit ==
  (Idle /\ run.last = "ok" /\ run.calm) =>
    /\ HomeCrosses \subseteq {"curator"}
    /\ (shown = RowOf(chain) /\ chain.pending = None) => HomeCrosses = {}

(* What is the owner's moves only by the owner's consent.  The document a  *)
(* run found in the home is still there afterwards, edits and all, unless  *)
(* the run was told to write a preset over it, or was killed while it      *)
(* wrote; an edit made while the run waits is not safe, as the run writes  *)
(* what it read.  A run moves curation only after a yes to that signing in *)
(* this run, and only towards its own key, from the wallet it named        *)
(* (init.mjs:132-152, 218-234).                                            *)
EditKept ==
  (ReadsPolicy(files) /\ files.policy.doc \in Edited /\ files'.policy # files.policy /\ files'.policy # Torn)
    => \/ files'.policy.doc = files.policy.doc
       \/ run.opts.policy # None /\ run.opts.yes
       \/ run.read # files.policy
MovedWithYes ==
  chain' # chain
    => /\ run.said
       /\ chain' \in {Accepted, Handed}
       /\ chain'.curator # chain.curator => chain.pending = Key
OnlyByConsent == [][(run.at # "idle" /\ run'.at # run.at) => EditKept /\ MovedWithYes]_vars

(* Whatever was lost, torn, rotated or moved, an owner who does what the   *)
(* crosses say, one after the other, ends up with a doctor that has none   *)
(* (init.mjs:501, doctor.mjs:91-296).                                      *)
FixesConverge == <>[](Crosses = {})
=============================================================================
