---------------------------- MODULE BuiltPayload ----------------------------
(***************************************************************************)
(* decode.js: what the signer makes of a payload the api built before it   *)
(* signs it.  verifyBuilt walks the transactions once, in order; here the  *)
(* walk is a record and each transaction either takes it one step further  *)
(* (Accepts, After) or ends it in a refusal.  The refusal codes are left   *)
(* out: the callers tell a refusal apart from an acceptance only, but for  *)
(* a miss on the lookup table (LookupMiss), which earns one retry.         *)
(*                                                                         *)
(* An account is the part it plays for the intent: "me" is expect.payer,   *)
(* "portfolio", "vault", "custodian" and "keeper" are the ones the intent  *)
(* names, an associated token account stands for its owner, and everybody  *)
(* else is a "stranger".  A definition whose name ends in _Mutant is the   *)
(* next one with a bug the code could have.                                *)
(***************************************************************************)
EXTENDS Integers, Sequences, FiniteSets

CONSTANTS
  PageLegs,        \* PROPOSE_MAX_LEGS
  ComputeCap,      \* CU_LIMIT_MAX
  MicroLamports,   \* MICRO_LAMPORTS_PER_LAMPORT
  AllocatorPinned  \* does the manifest pin portfolio_allocator?

ASSUME SizesAssumption ==
  /\ PageLegs \in Nat /\ ComputeCap \in Nat /\ MicroLamports \in Nat \ {0}
  /\ AllocatorPinned \in BOOLEAN

Unresolved == "unresolved"   \* an account this process's table does not hold

(***************************************************************************)
(* The tables: what each step may carry, and the steps of each verb.       *)
(***************************************************************************)
AlwaysAllowed ==
  {"set_limit", "set_price", "request_heap", "data_limit", "advance_nonce", "memo"}
NavCranks == {"crank_pool", "crank_nav_page"}

Rule(required, optional) == [required |-> required, optional |-> optional, paged |-> FALSE]
Paged(rule) == [rule EXCEPT !.paged = TRUE]
StepRules == [
  propose_targets       |-> Rule({"propose_targets"}, {}),
  create_custody        |-> Rule({}, {"create_ata"}),
  apply_targets         |-> Paged(Rule({"apply_targets"}, {})),
  cancel_targets        |-> Rule({"cancel_targets"}, {}),
  deposit               |-> Rule({"deposit"}, {"create_ata"} \union NavCranks),
  withdraw_request      |-> Rule({"withdraw_request"}, {"create_ata"} \union NavCranks),
  crank_nav             |-> Paged(Rule({"crank_nav_page"}, {"crank_pool"})),
  propose_curator       |-> Rule({"propose_curator"}, {}),
  update_delay          |-> Rule({"update_delay"}, {}),
  set_metadata          |-> Rule({"set_metadata"}, {}),
  create_portfolio      |-> Rule({"create_portfolio"}, {"transfer"}),
  create_portfolio_page |-> Rule({"create_portfolio_page"}, {}),
  fund_operator         |-> Rule({"transfer"}, {})]

Verb(primary, pre) ==
  [primary |-> primary, pre |-> pre, paged |-> StepRules[primary].paged]
ExpectedSteps == [
  propose       |-> Verb("propose_targets", {}),
  apply         |-> Verb("apply_targets", {"create_custody"}),
  cancel        |-> Verb("cancel_targets", {}),
  deposit       |-> Verb("deposit", {}),
  withdraw      |-> Verb("withdraw_request", {}),
  refreshNav    |-> Verb("crank_nav", {}),
  rotateCurator |-> Verb("propose_curator", {}),
  setDelay      |-> Verb("update_delay", {}),
  setMetadata   |-> Verb("set_metadata", {})]

CreatorSteps == {"create_portfolio", "create_portfolio_page", "fund_operator"}
KeeperSteps  == {"init_portfolio_shares", "init_custody", "init_vault_atas",
                 "whitelist_custodian", "crank_nav_page", "activate_portfolio"}

(***************************************************************************)
(* Parsing and classifying.  An instruction is "known", of a program that  *)
(* is allowed but cannot be decoded ("undecodable"), or of one that is not *)
(* allowed ("foreign").  `late` holds the accounts that lie in the part of *)
(* the NAV table the keeper added since this process last read it.         *)
(***************************************************************************)
Parses(tx) ==
  /\ tx.wire \in {"legacy", "v0"}
  /\ tx.wire = "v0" => tx.tables \subseteq {"nav"}
Allowed(tx) == \A i \in DOMAIN tx.ixs : tx.ixs[i].program # "foreign"
Decodes(tx) ==
  /\ Parses(tx) /\ Allowed(tx)
  /\ \A i \in DOMAIN tx.ixs : tx.ixs[i].program = "known"

Sees(ix, role, fresh) == IF role \in ix.late /\ ~fresh THEN Unresolved ELSE ix.acct[role]

(* Every instruction of a step is one the step may carry, and each it must *)
(* carry appears exactly once.                                             *)
CountOf(tx, op) == Cardinality({i \in DOMAIN tx.ixs : tx.ixs[i].op = op})
CarriesItsStep(tx) ==
  LET rule == StepRules[tx.step]
  IN  /\ \A i \in DOMAIN tx.ixs :
            tx.ixs[i].op \in AlwaysAllowed \union rule.required \union rule.optional
      /\ \A op \in rule.required : CountOf(tx, op) = 1
      /\ tx.step = "create_custody" => CountOf(tx, "create_ata") > 0

(***************************************************************************)
(* The accounts and the arguments an instruction must carry.               *)
(***************************************************************************)
Factory(signer) == [role \in {"portfolio", signer} |-> IF role = signer THEN "me" ELSE "portfolio"]
Accounts == [
  propose_targets  |-> Factory("curator"),
  apply_targets    |-> [portfolio |-> "portfolio", caller |-> "me", vault |-> "vault"],
  cancel_targets   |-> Factory("signer"),
  propose_curator  |-> Factory("signer"),
  update_delay     |-> Factory("curator"),
  set_metadata     |-> Factory("signer"),
  deposit          |-> [vault |-> "vault", user |-> "me", mint |-> "mint",
                        underlying |-> "me", shares |-> "me", beneficiary |-> "me"],
  withdraw_request |-> [vault |-> "vault", user |-> "me", mint |-> "mint", shares |-> "me"],
  crank_nav_page   |-> [payer |-> "me", vault |-> "vault"]]

RightAccounts(ix, fresh) ==
  ix.op \in DOMAIN Accounts =>
    \A role \in DOMAIN Accounts[ix.op] : Sees(ix, role, fresh) = Accounts[ix.op][role]

RightArguments(ix, intent) ==
  /\ ix.op = "propose_targets" => ix.legs = intent.legs
  /\ ix.op \in {"deposit", "withdraw_request", "propose_curator", "update_delay", "set_metadata"}
       => ix.arg = intent.arg

(* create_idempotent: paid by the signer, at the derived address, owned by *)
(* the signer or, in create_custody, by the custodian.  An allocator that  *)
(* is not pinned leaves the custodian unknown and the owner unchecked.     *)
RightRent(ix, step, fresh) ==
  ix.op = "create_ata" =>
    /\ Sees(ix, "payer", fresh) = "me"
    /\ Sees(ix, "derived", fresh) = "yes"
    /\ Sees(ix, "owner", fresh) # Unresolved
    /\ IF step = "create_custody"
       THEN AllocatorPinned => Sees(ix, "owner", fresh) = "custodian"
       ELSE Sees(ix, "owner", fresh) = "me"

Fits(tx, intent, fresh) ==
  \A i \in DOMAIN tx.ixs :
    /\ RightAccounts(tx.ixs[i], fresh)
    /\ RightArguments(tx.ixs[i], intent)
    /\ RightRent(tx.ixs[i], tx.step, fresh)

(***************************************************************************)
(* The walk of every verb but create: at most one transaction of each step *)
(* before the primary, one primary unless it is paged, the pages 0..n-1.   *)
(***************************************************************************)
PaidByMe_Mutant(tx) == tx.signerKey = "me" /\ tx.payer = "me"
PaidByMe(tx) == tx.signerKey \in {"absent", "me"} /\ tx.payer = "me"

PageOf(tx) ==
  LET i == CHOOSE j \in DOMAIN tx.ixs : tx.ixs[j].op \in StepRules[tx.step].required
  IN  tx.ixs[i].page
NamesItsPage(tx) == StepRules[tx.step].paged => tx.pageIndex \in {-1, PageOf(tx)}

InPlace_Mutant(walk, step, verb) == step \in verb.pre \union {verb.primary}
InPlace(walk, step, verb) ==
  \/ step \in verb.pre /\ walk.primaries = 0 /\ step \notin walk.pre
  \/ step = verb.primary /\ (verb.paged \/ walk.primaries = 0)

StartWalk == [primaries |-> 0, pre |-> {}, pages |-> <<>>, mine |-> <<>>]

Accepts(walk, tx, intent, fresh) ==
  /\ InPlace(walk, tx.step, ExpectedSteps[intent.verb])
  /\ Decodes(tx) /\ PaidByMe(tx)
  /\ CarriesItsStep(tx)
  /\ Fits(tx, intent, fresh)
  /\ NamesItsPage(tx)

After(walk, tx, intent) ==
  LET verb == ExpectedSteps[intent.verb]
  IN  [primaries |-> walk.primaries + (IF tx.step = verb.primary THEN 1 ELSE 0),
       pre   |-> walk.pre \union ({tx.step} \intersect verb.pre),
       pages |-> IF StepRules[tx.step].paged THEN Append(walk.pages, PageOf(tx)) ELSE walk.pages,
       mine  |-> Append(walk.mine, tx)]

InSequence(pages) == \A i \in DOMAIN pages : pages[i] = i - 1
Complete(walk, intent) == walk.primaries > 0 /\ InSequence(walk.pages)

(* verifyOrThrow refuses a proposal of too many legs before the walk.      *)
Verifiable(intent) == intent.verb = "propose" => Len(intent.legs) <= PageLegs

(* The refusal runWrite retries after one refresh of the table: an account *)
(* assertAccount needed was not in it.  A mint assertSelfAta cannot        *)
(* resolve, or an account of create_idempotent, is refused in words that   *)
(* do not name the table, and earns no retry.                              *)
LookupMiss(tx) ==
  \E i \in DOMAIN tx.ixs :
    LET ix == tx.ixs[i]
        missed == ix.late \intersect DOMAIN Accounts[ix.op]
    IN  /\ ix.op \in DOMAIN Accounts
        /\ missed # {}
        /\ "mint" \in missed => missed \intersect {"vault", "user"} # {}
=============================================================================
