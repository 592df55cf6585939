------------------------------ MODULE HomeFiles ------------------------------
(***************************************************************************)
(* The curator home, one directory per portfolio: what a reader finds in   *)
(* its files, and what weavr-curator doctor says of them, of the api's row *)
(* and of the chain (lib/curator/home.mjs, doctor.mjs).                    *)
(*                                                                         *)
(* A file is None when it is missing and Torn when a writer was killed     *)
(* after it truncated the file: fs.writeFileSync opens, truncates, then    *)
(* writes.  A policy file is a document and the notice written in it; an   *)
(* env file is the values other parts compare.  Modes and paths are left   *)
(* out.  A definition whose name ends in _Mutant is the next one with a    *)
(* bug the code could have.                                                *)
(***************************************************************************)
CONSTANTS
  None, Torn,
  Key,        \* the curator key
  Tokens,     \* token values
  Admitting   \* documents that admit the book as it stands

ASSUME FilesAssumption == None # Torn /\ {None, Torn} \intersect (Tokens \union {Key}) = {}

When(condition, check) == IF condition THEN {check} ELSE {}

NoAgentEnv == [signer |-> None, notice |-> None]

(* A new home: nothing in it.                                              *)
NoFiles ==
  [dir |-> "absent", key |-> None, policy |-> None, signerToken |-> None, opsToken |-> None,
   signerEnv |-> [signer |-> None, ops |-> None], compose |-> None,
   agentEnv |-> NoAgentEnv]

ReadsKey(files) == files.key = Key
ReadsPolicy(files) == files.policy \notin {None, Torn}
ReadsToken(value) == value \in Tokens    \* readTokenFile: 0600, 32 bytes, no whitespace

TokensCross(files) ==
  \/ ~ReadsToken(files.signerToken) \/ ~ReadsToken(files.opsToken)
  \/ files.signerToken = files.opsToken
  \/ files.signerEnv.signer # files.signerToken
  \/ files.signerEnv.ops # files.opsToken
  \/ files.agentEnv.signer # files.signerToken

(* compose.env is missing, or lacks what curator.yml references.           *)
ComposeCross(files) == files.compose \in {None, Torn}

(* A handover away from the key is a cross even while the key curates.     *)
CuratorCross(files, row) == ReadsKey(files) /\ (row.curator # Key \/ row.pending # None)

(* The mint the row is read for and the two addresses are compose.env's.   *)
RowCrosses(files, row) ==
  When(CuratorCross(files, row), "curator")
  \union When(ReadsPolicy(files) /\ files.policy.notice # row.notice, "notice")
  \union When(ReadsPolicy(files) /\ files.policy.doc \notin Admitting, "policy vs book")
  \union When(files.compose.treasury # row.treasury, "treasury")
  \union When(files.agentEnv.notice # row.notice, "agent env")

Doctor(files, row, chain) ==
  When(files.dir = "absent", "home")
  \union When(~ReadsKey(files), "key file")
  \union When(TokensCross(files), "tokens")
  \union When(~ReadsPolicy(files), "policy file")
  \union When(ComposeCross(files), "compose env")
  \union When(ReadsKey(files) /\ ReadsPolicy(files) /\ ~chain.funded, "signer SOL")
  \union (IF ComposeCross(files) THEN {}
          ELSE RowCrosses(files, row)
               \union When(files.compose.guardian # chain.guardian, "guardian"))
=============================================================================
