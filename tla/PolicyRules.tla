----------------------------- MODULE PolicyRules -----------------------------
(***************************************************************************)
(* policy.js: what a target set must look like (evaluateTargets), when one *)
(* may be proposed (evaluateProposal), and preflight.js: what the same     *)
(* rules say of the change pending on chain (changeBlocker).               *)
(*                                                                         *)
(* A target set is a function from pools to weights.  A catalogue gives    *)
(* each pool a row, an unlisted one included; a number a row may lack is   *)
(* Unknown.  A refusal is its code and whether only a missing input caused *)
(* it (`gaps`).  Labels and messages are left out.  A definition whose     *)
(* name ends in _Mutant is the next one with a bug the code could have.    *)
(***************************************************************************)
EXTENDS Integers, FiniteSets, FiniteSetsExt, Functions

CONSTANTS
  CategoryOf,   \* the category of each pool, its symbol's or ANY_POOL's
  StablePools   \* the category of the stable floor

Unknown == -1

Breach(code) == [code |-> code, gap |-> FALSE]
Gap(code) == [code |-> code, gap |-> TRUE]
When(condition, refusal) == IF condition THEN {refusal} ELSE {}

(***************************************************************************)
(* Universe.  A row that is not listed has nothing else to say; a chain or *)
(* a status the row does not know is a breach, a tier or a loss a gap.     *)
(***************************************************************************)
Universe(policy, row) ==
  IF ~row.listed THEN {Gap("POOL_DENIED")}
  ELSE When(~row.chain, Breach("CHAIN_DENIED"))
       \union When(~row.active, Breach("POOL_NOT_ACTIVE"))
       \union When(~row.allowed, Breach("POOL_DENIED"))
       \union When(row.tier = Unknown, Gap("POOL_DENIED"))
       \union When(row.tier > policy.maxTier, Breach("POOL_DENIED"))
       \union When(row.loss = Unknown, Gap("POOL_COST_TOO_HIGH"))
       \union When(row.loss > policy.maxLoss, Breach("POOL_COST_TOO_HIGH"))

(***************************************************************************)
(* Shape.  A pool the catalogue does not list has no cap of its own and no *)
(* category; the stable floor counts what it might be.                     *)
(***************************************************************************)
Smaller(a, b) == IF a < b THEN a ELSE b
Weight(targets, pools) == MapThenSumSet(LAMBDA p : targets[p], pools)
Cap(policy, row) ==
  IF row.listed /\ row.cap # Unknown THEN Smaller(policy.maxLeg, row.cap) ELSE policy.maxLeg

InCategory(targets, catalogue, category) ==
  Weight(targets, {p \in DOMAIN targets : catalogue[p].listed /\ CategoryOf[p] = category})
Uncategorised(targets, catalogue) ==
  Weight(targets, {p \in DOMAIN targets : ~catalogue[p].listed})

StableBand_Mutant(policy, targets, catalogue) ==
  LET stable == InCategory(targets, catalogue, StablePools)
  IN  When(stable < policy.stableMin, Breach("STABLE_BAND"))
      \union When(stable > policy.stableMax, Breach("STABLE_BAND"))
StableBand(policy, targets, catalogue) ==
  LET stable == InCategory(targets, catalogue, StablePools)
      below  == stable < policy.stableMin
      might  == stable + Uncategorised(targets, catalogue) >= policy.stableMin
  IN  When(below /\ might, Gap("STABLE_BAND"))
      \union When(below /\ ~might, Breach("STABLE_BAND"))
      \union When(stable > policy.stableMax, Breach("STABLE_BAND"))

Shape(policy, targets, catalogue, book) ==
  LET legs == Cardinality(DOMAIN targets)
  IN  When(legs < policy.minLegs, Breach("MIN_LEGS"))
      \union When(legs > policy.maxLegs, Breach("MAX_LEGS"))
      \union When(book.known /\ Cardinality(DOMAIN targets \union DOMAIN book.legs) > policy.pageLimit,
                  Breach("PAGE_LIMIT"))
      \union When(~book.known, Gap("INPUTS_INCOMPLETE"))
      \union When(\E p \in DOMAIN targets :
                    targets[p] < policy.minLeg \/ targets[p] > Cap(policy, catalogue[p]),
                  Breach("LEG_WEIGHT_CAP"))
      \union StableBand(policy, targets, catalogue)
      \union When(\E p \in DOMAIN targets :
                    InCategory(targets, catalogue, CategoryOf[p]) > policy.categoryMax,
                  Breach("CATEGORY_CAP"))
      \union When(Weight(targets, DOMAIN targets) # policy.sum, Breach("WEIGHTS_SUM"))

(***************************************************************************)
(* Turnover and cost, over held and new.  A leg that trades nothing needs  *)
(* no loss cap; the legs that can be priced may break the cap alone.       *)
(***************************************************************************)
WeightIn(f, p) == IF p \in DOMAIN f THEN f[p] ELSE 0
Moved(targets, book, p) ==
  LET d == WeightIn(targets, p) - WeightIn(book.legs, p) IN IF d < 0 THEN -d ELSE d
Trades(targets, book) ==
  {p \in DOMAIN targets \union DOMAIN book.legs :
     Moved(targets, book, p) > 0 /\ ~(WeightIn(targets, p) = 0 /\ p \in book.empty)}
Loss(catalogue, p) == IF catalogue[p].listed THEN catalogue[p].loss ELSE Unknown

CostCap(policy, targets, catalogue, book) ==
  LET priced == {p \in Trades(targets, book) : Loss(catalogue, p) # Unknown}
      cost   == MapThenSumSet(LAMBDA p : Moved(targets, book, p) * Loss(catalogue, p), priced)
  IN  When(cost > policy.maxCost, Breach("COST_CAP"))
      \union When(cost <= policy.maxCost /\ priced # Trades(targets, book), Gap("COST_CAP"))

Turnover(policy, targets, catalogue, book) ==
  IF ~book.known THEN {}
  ELSE When(MapThenSumSet(LAMBDA p : Moved(targets, book, p), DOMAIN targets \union DOMAIN book.legs)
              > 2 * policy.maxTurnover, Breach("TURNOVER_CAP"))
       \union CostCap(policy, targets, catalogue, book)

EvaluateTargets(policy, targets, catalogue, book) ==
  (UNION {Universe(policy, catalogue[p]) : p \in DOMAIN targets})
  \union Shape(policy, targets, catalogue, book)
  \union Turnover(policy, targets, catalogue, book)

(***************************************************************************)
(* The change pending on chain, under the policy this signer runs now.     *)
(* `targets` is the api row's; it may be unreadable there.                 *)
(***************************************************************************)
ChangeBlocker(policy, readable, targets, catalogue, book) ==
  LET refusals == EvaluateTargets(policy, targets, catalogue, book)
  IN  IF ~readable THEN "CHANGE_UNCHECKED"
      ELSE IF \E r \in refusals : ~r.gap THEN "CHANGE_OUTSIDE_POLICY"
      ELSE IF refusals # {} THEN "CHANGE_UNCHECKED"
      ELSE "passes"

(***************************************************************************)
(* Cadence and reason.  The quota counts the ledger's list and the count   *)
(* rolled up when the ledger was last rebuilt, and trusts the larger.      *)
(***************************************************************************)
RiskExit(policy, targets, book) ==
  /\ policy.riskExitExempt /\ book.known
  /\ DOMAIN targets \subseteq DOMAIN book.legs
  /\ \E p \in DOMAIN book.legs \ DOMAIN targets : book.legs[p] > 0

MissingInputs(policy, targets, catalogue, book) ==
  When(~RiskExit(policy, targets, book)
         /\ \E p \in DOMAIN targets :
              catalogue[p].listed /\ (~catalogue[p].inputs \/ catalogue[p].tier = Unknown),
       Gap("INPUTS_INCOMPLETE"))

InWindow(times, now, length) == {i \in DOMAIN times : times[i] > now - length /\ times[i] <= now}
Recent(policy, ledger, now) ==
  LET listed == Cardinality(InWindow(ledger.proposals, now, policy.quotaWindow))
  IN  IF ledger.rolled > listed THEN ledger.rolled ELSE listed

Hour(policy, now) == now % policy.day
InsideHours(policy, now) ==
  Hour(policy, now) >= policy.fromHour /\ Hour(policy, now) < policy.toHour
NextInside(policy, now) ==
  LET open == now - Hour(policy, now) + policy.fromHour
  IN  IF InsideHours(policy, now) THEN now
      ELSE IF now < open THEN open ELSE open + policy.day

Ready(policy, lastRebalance) ==   \* a book never rebalanced waits for nothing
  IF lastRebalance = Unknown THEN 0 ELSE lastRebalance + policy.minGap
TooSoon(policy, lastRebalance, now) == now < Ready(policy, lastRebalance)

(* What a proposer is told to wait for: the cadence, the quota's oldest    *)
(* proposal that counts, then the hours.                                   *)
Latest(a, b) == IF a > b THEN a ELSE b
QuotaFrees(policy, ledger, now) ==
  LET recent == InWindow(ledger.proposals, now, policy.quotaWindow)
      nth    == Cardinality(recent) - policy.maxProposals + 1
      Rank(i) == Cardinality({j \in recent : j <= i})
  IN  IF Recent(policy, ledger, now) < policy.maxProposals THEN now
      ELSE IF nth < 1 THEN now + policy.quotaWindow
      ELSE LET i == CHOOSE i \in recent : Rank(i) = nth IN ledger.proposals[i] + policy.quotaWindow
NextProposeAt_Mutant(policy, ledger, lastRebalance, now) ==
  NextInside(policy, Latest(now, Ready(policy, lastRebalance)))
NextProposeAt(policy, ledger, lastRebalance, now) ==
  NextInside(policy, Latest(Latest(now, Ready(policy, lastRebalance)),
                            QuotaFrees(policy, ledger, now)))

Cadence_Mutant(policy, ledger, lastRebalance, now) ==
  When(TooSoon(policy, lastRebalance, now), Breach("PROPOSAL_TOO_SOON"))
  \union When(Recent(policy, ledger, now) > policy.maxProposals, Breach("PROPOSAL_QUOTA"))
  \union When(~InsideHours(policy, now), Breach("OUTSIDE_WINDOW"))
Cadence(policy, ledger, lastRebalance, now) ==
  When(TooSoon(policy, lastRebalance, now), Breach("PROPOSAL_TOO_SOON"))
  \union When(Recent(policy, ledger, now) >= policy.maxProposals, Breach("PROPOSAL_QUOTA"))
  \union When(~InsideHours(policy, now), Breach("OUTSIDE_WINDOW"))

EvaluateProposal(policy, targets, catalogue, book, ledger, pending, lastRebalance, now) ==
  EvaluateTargets(policy, targets, catalogue, book)
  \union Cadence(policy, ledger, lastRebalance, now)
  \union When(pending, Breach("TARGETS_PENDING"))
  \union MissingInputs(policy, targets, catalogue, book)
=============================================================================
