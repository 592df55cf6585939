----------------------------- MODULE PolicyCheck -----------------------------
(***************************************************************************)
(* The policy before anything runs: the document the signer boots with     *)
(* (policy.js loadPolicy), and init's and the doctor's reading of the book *)
(* against it (lib/curator/policy-check.mjs), which is a second copy of    *)
(* the signer's rules on universe and shape.  A number a document lacks is *)
(* Unknown here, and no comparison with it holds.                          *)
(***************************************************************************)
EXTENDS PolicyRules

(* Every key of SCHEMA the rules read, each a non-negative number.         *)
Numbers ==
  {"maxTier", "maxLoss", "minLegs", "maxLegs", "pageLimit", "minLeg", "maxLeg", "stableMin",
   "stableMax", "categoryMax", "sum", "maxTurnover", "maxCost", "minGap", "maxProposals",
   "quotaWindow", "fromHour", "toHour"}
WholeHours(policy) == policy.fromHour < policy.toHour /\ policy.toHour <= policy.day
InOrder(policy) ==
  /\ policy.minLegs \in 1 .. policy.maxLegs
  /\ policy.minLeg <= policy.maxLeg /\ policy.stableMin <= policy.stableMax /\ policy.sum >= 1
Loads(policy) ==
  /\ \A field \in Numbers : policy[field] # Unknown
  /\ WholeHours(policy) /\ InOrder(policy)

-----------------------------------------------------------------------------
(* What init needs of a document: the numbers of shape and universe.       *)
BookNumbers ==
  {"maxTier", "maxLoss", "minLegs", "maxLegs", "minLeg", "maxLeg", "stableMin", "stableMax",
   "categoryMax"}
Over(value, limit) == limit # Unknown /\ value > limit

PoolItems(policy, row) ==
  When({row.tier, row.loss, row.cap} \intersect {Unknown} # {}, "INPUTS_INCOMPLETE")
  \union When(~row.chain, "CHAIN_DENIED")
  \union When(~row.active, "POOL_NOT_ACTIVE")
  \union When(Over(row.tier, policy.maxTier), "POOL_DENIED")
  \union When(Over(row.loss, policy.maxLoss), "POOL_COST_TOO_HIGH")
LegItems(policy, weight, row) ==
  When(~row.allowed \/ ~row.listed, "POOL_DENIED")
  \union (IF row.listed THEN PoolItems(policy, row) ELSE {})
  \union When(weight < policy.minLeg \/ Over(weight, Cap(policy, row)), "LEG_WEIGHT_CAP")

(* A leg counts for its symbol's category whether it is listed or not.     *)
Sleeve(targets, category) == Weight(targets, {p \in DOMAIN targets : CategoryOf[p] = category})
SleeveItems_Mutant(policy, targets) ==
  LET stable == Sleeve(targets, StablePools)
  IN  When(stable < policy.stableMin \/ Over(stable, policy.stableMax), "STABLE_BAND")
SleeveItems(policy, targets) ==
  LET stable == Sleeve(targets, StablePools)
  IN  When(stable < policy.stableMin \/ Over(stable, policy.stableMax), "STABLE_BAND")
      \union When(\E p \in DOMAIN targets :
                    Over(Sleeve(targets, CategoryOf[p]), policy.categoryMax), "CATEGORY_CAP")

BookItems(policy, targets, catalogue) ==
  When(\E field \in BookNumbers : policy[field] = Unknown, "INPUTS_INCOMPLETE")
  \union When(Cardinality(DOMAIN targets) < policy.minLegs, "MIN_LEGS")
  \union When(Over(Cardinality(DOMAIN targets), policy.maxLegs), "MAX_LEGS")
  \union (UNION {LegItems(policy, targets[p], catalogue[p]) : p \in DOMAIN targets})
  \union SleeveItems(policy, targets)
=============================================================================
