---------------------------- MODULE RunningStack ----------------------------
(***************************************************************************)
(* The two containers docker compose runs from a home, and what weavr-     *)
(* curator doctor says of them (doctor.mjs, "The signer" to "Docker").     *)
(*                                                                         *)
(* A container keeps the environment it was created with until `up -d`     *)
(* finds another one written for it; the signer reads the key and the      *)
(* policy, which are mounted, whenever its process starts.  A signer that  *)
(* refuses to boot is started again by docker, and init's compose.env has  *)
(* every boot paused.  The lock is in the journal, on a volume.  Images,   *)
(* providers, Telegram and the profile's jobs are left out.                *)
(***************************************************************************)
EXTENDS HomeFiles

NoStack == [signer |-> None, process |-> None, agent |-> None, locked |-> FALSE]

(* curator.yml: what a container of the signer is created with.            *)
EnvOf(files) ==
  [signer |-> files.signerEnv.signer, ops |-> files.signerEnv.ops,
   treasury |-> files.compose.treasury, guardian |-> files.compose.guardian]

Composed_Mutant(stack, files) ==   \* as `compose restart` would: the environment stays
  [stack EXCEPT !.signer = IF stack.signer = None THEN EnvOf(files) ELSE stack.signer,
                !.agent = files.agentEnv, !.process = None]
Composed(stack, files) ==
  [stack EXCEPT !.signer = EnvOf(files), !.agent = files.agentEnv,
                !.process = IF stack.signer = EnvOf(files) THEN stack.process ELSE None]

(* boot: the environment, then the policy, then the key.                   *)
MayBoot(stack, files) ==
  /\ stack.signer # None /\ stack.process = None
  /\ ReadsToken(stack.signer.signer) /\ ReadsToken(stack.signer.ops)
  /\ stack.signer.signer # stack.signer.ops
  /\ ReadsPolicy(files) /\ ReadsKey(files)
Booted(stack, files) ==
  [stack EXCEPT !.process = [policy |-> files.policy, paused |-> TRUE]]

(* checkInvariants, on the chain and not on the api's row.                 *)
Drift(stack, chain) ==
  \/ chain.curator # Key \/ chain.pending # None
  \/ stack.signer.treasury # chain.treasury
  \/ stack.signer.guardian # chain.guardian

Up(stack) == stack.process # None
Answers(stack, token) ==   \* authenticate: either token is let in to read
  Up(stack) /\ ReadsToken(token) /\ token \in {stack.signer.signer, stack.signer.ops}
Beats(stack) == stack.agent # None /\ stack.agent.signer = stack.signer.signer

StatusCrosses(files, stack, chain) ==
  When(stack.process.paused, "signer paused")
  \union When(stack.locked, "signer lock")
  \union When(Drift(stack, chain), "signer invariants")
  \union When(ReadsPolicy(files) /\ stack.process.policy # files.policy, "signer policy")

StackCrosses(files, stack, chain) ==
  When(~Up(stack), "signer health")
  \union When(Up(stack) /\ ReadsToken(files.signerToken) /\ ~Answers(stack, files.signerToken),
              "signer status")
  \union (IF Answers(stack, files.signerToken) THEN StatusCrosses(files, stack, chain) ELSE {})
  \union When(Up(stack) /\ ~Beats(stack), "agent heartbeat")
  \union When(files.compose = Torn \/ (files.compose # None /\ (~Up(stack) \/ stack.agent = None)),
              "containers")
=============================================================================
