---------------------------- MODULE MCProposals ----------------------------
(* Three pools, one of them stable, weights in quarters of the book, a day *)
(* of three hours.  The strict document admits no pool of tier 2.           *)
EXTENDS OwnFunds, TLC

McCategory == [s |-> "stable", a |-> "x", b |-> "x"]
Row(tier, loss, cap) ==
  [listed |-> TRUE, chain |-> TRUE, active |-> TRUE, allowed |-> TRUE, tier |-> tier,
   loss |-> loss, cap |-> cap, inputs |-> TRUE]
McGood == [s |-> Row(1, 1, 4), a |-> Row(1, 1, 3), b |-> Row(2, 2, 2)]
Unlisted == [Row(Unknown, Unknown, Unknown) EXCEPT !.listed = FALSE]
McVariants ==
  [p \in DOMAIN McGood |->
     LET good == McGood[p]
     IN  {Unlisted, [good EXCEPT !.tier = Unknown], [good EXCEPT !.loss = Unknown, !.inputs = FALSE],
          [good EXCEPT !.tier = 3], [good EXCEPT !.cap = Unknown], [good EXCEPT !.active = FALSE], [good EXCEPT !.loss = 3]}]

(* The portfolio's row: gone, without holdings, without either list, with   *)
(* a leg that lost its weight, its shares or its pool, and with a change    *)
(* that is unreadable or lost a weight.                                     *)
McAnswers ==
  {[WholeRow EXCEPT !.legs = "none", !.change = FALSE], [WholeRow EXCEPT !.legs = "targets"],
   [WholeRow EXCEPT !.legs = "none"], [WholeRow EXCEPT !.unweighed = {"s"}],
   [WholeRow EXCEPT !.unshared = {"a"}], [WholeRow EXCEPT !.unnamed = {"s"}],
   [WholeRow EXCEPT !.change = FALSE], [WholeRow EXCEPT !.blank = {"b"}]}

McCandidates == {[s |-> 2, b |-> 2], [s |-> 1, a |-> 3], [s |-> 2, a |-> 1, b |-> 1]}
McBook == [s |-> 2, a |-> 2]

Loose ==
  [maxTier |-> 2, maxLoss |-> 2, minLegs |-> 2, maxLegs |-> 3, pageLimit |-> 3, minLeg |-> 1,
   maxLeg |-> 3, stableMin |-> 1, stableMax |-> 3, categoryMax |-> 2, sum |-> 4,
   maxTurnover |-> 2, maxCost |-> 5, riskExitExempt |-> TRUE, minGap |-> 2,
   maxProposals |-> 1, quotaWindow |-> 4, day |-> 3, fromHour |-> 1, toHour |-> 3,
   depositCap |-> 100, launchCap |-> 300, launchDay |-> "past", requireFresh |-> TRUE,
   chatOnly |-> TRUE, withdrawCap |-> 300]
(* Two documents the signer boots with, and three it does not.              *)
McPolicies ==
  {Loose, [Loose EXCEPT !.maxTier = 1, !.maxCost = 3, !.categoryMax = 3, !.launchDay = "today"],
   [Loose EXCEPT !.categoryMax = Unknown], [Loose EXCEPT !.stableMin = 3, !.stableMax = 1], [Loose EXCEPT !.fromHour = 3]}

(* Own funds: a share is two base units, a basis point a twentieth; caps    *)
(* that shares, then idle funds, then the holder reaches, and none.         *)
McVaults ==
  [price : {0, 1, 2, 3, 5}, maxShares : {20, 200}, shares : {12}, maxPerUser : {15, 200}, maxIdle : {9, 200},
   idle : {5}, depositFee : {0, 3}, withdrawFee : {0, 3}]
McHoldings == {Unknown, 0, 7, 14, 90}
McAmounts == {0, 1, 2, 3, 4, 8, 15} \union 110 .. 125

AnyCaller == Permutations(Callers)
=============================================================================
