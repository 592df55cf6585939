------------------------------ MODULE OwnFunds ------------------------------
(***************************************************************************)
(* What the signer does with its own money: policy.js evaluateDeposit and  *)
(* evaluateWithdraw, with their rounding, against the vault they fill in   *)
(* the numbers for.  Dollars, base units and shares are integers; a dollar *)
(* amount has half a base unit as its unit, so that rounding it shows.     *)
(* How the daily caps hold under concurrent deposits is WritePipeline's;   *)
(* the document the signer runs, and the next one after a restart, is      *)
(* Proposals'.                                                             *)
(***************************************************************************)
EXTENDS Proposals

CONSTANTS
  BaseUnits,   \* BASE_UNITS: base units of a share
  Whole,       \* 10_000 basis points
  Tolerance,   \* MIN_OUT_TOLERANCE_BPS
  Vaults,      \* vault accounts a snapshot may hold
  Holdings,    \* the signer's shares
  Amounts      \* dollars asked for

ASSUME FundsAssumption ==
  /\ BaseUnits \in Nat \ {0} /\ Whole \in Nat \ {0} /\ Tolerance \in 0 .. Whole
  /\ Amounts \subseteq Int /\ Holdings \subseteq Nat \union {Unknown}
  /\ \A vault \in Vaults :
       /\ vault.price \in Nat /\ vault.depositFee \in 0 .. Whole /\ vault.withdrawFee \in 0 .. Whole
       /\ {vault.maxShares, vault.shares, vault.maxPerUser, vault.maxIdle, vault.idle} \subseteq Nat

OrZero(n) == IF n > 0 THEN n ELSE 0

(* parseAmount: Math.round rounds half up.                                 *)
BaseOf(usd) == (usd + 1) \div 2
Shares(base, price) == (base * BaseUnits) \div price
Worth(shares, price) == (shares * price) \div BaseUnits
After(gross, fee) == (gross * (Whole - fee)) \div Whole
FloorAfter_Mutant(gross, fee) == After(gross, fee)   \* the floor is the quote itself
FloorAfter(gross, fee) == After(gross, fee + Tolerance)

Refused(code) == [code |-> code, headroom |-> 0]
CapFor(rules, today) == IF rules.launchDay = today THEN rules.launchCap ELSE rules.depositCap

SharesRoom(vault, held) == Smaller(vault.maxShares - vault.shares, vault.maxPerUser - held)
IdleRoom(vault) == vault.maxIdle - vault.idle
Headroom_Mutant(vault, held) == OrZero(SharesRoom(vault, held) * vault.price)
Headroom(vault, held) ==
  Smaller(Worth(OrZero(SharesRoom(vault, held)), vault.price), OrZero(IdleRoom(vault)))

(* The first rule that refuses, in the code's order.  A vault account that *)
(* cannot be read refuses too and is left out.                             *)
EvaluateDeposit(rules, usd, soFar, today, fresh, vault, held) ==
  LET gross == Shares(BaseOf(usd), vault.price)
  IN  IF usd <= 0 THEN Refused("BAD_REQUEST")
      ELSE IF soFar = Unknown \/ soFar + usd > CapFor(rules, today) THEN Refused("DEPOSIT_DAILY_CAP")
      ELSE IF (rules.requireFresh /\ ~fresh) \/ vault.price <= 0 THEN Refused("BOOK_NOT_FRESH")
      ELSE IF held = Unknown THEN Refused("CAP_HEADROOM")
      ELSE IF gross > SharesRoom(vault, held) \/ BaseOf(usd) > IdleRoom(vault)
           THEN [code |-> "CAP_HEADROOM", headroom |-> Headroom(vault, held)]
      ELSE [code |-> "passes", amount |-> BaseOf(usd), minShares |-> FloorAfter(gross, vault.depositFee)]

EvaluateWithdraw(rules, usd, session, soFar, fresh, vault, held) ==
  LET shares == Shares(BaseOf(usd), vault.price)
  IN  IF rules.chatOnly /\ session # "chat" THEN Refused("WITHDRAW_CRON_BLOCKED")
      ELSE IF usd <= 0 THEN Refused("BAD_REQUEST")
      ELSE IF soFar = Unknown \/ soFar + usd > rules.withdrawCap THEN Refused("WITHDRAW_DAILY_CAP")
      ELSE IF ~fresh \/ vault.price <= 0 THEN Refused("BOOK_NOT_FRESH")
      ELSE IF held = Unknown \/ shares > held THEN Refused("INSUFFICIENT_SHARES")
      ELSE IF shares <= 0 THEN Refused("BAD_REQUEST")
      ELSE [code |-> "passes", shares |-> shares,
            minAmountOut |-> FloorAfter(BaseOf(usd), vault.withdrawFee)]

-----------------------------------------------------------------------------
(* The vault, at the price the request was judged at.                      *)
Minted(base, vault) == After(Shares(base, vault.price), vault.depositFee)
PaidOut(shares, vault) == After(Worth(shares, vault.price), vault.withdrawFee)
VaultTakes(base, minShares, vault, held) ==
  /\ Minted(base, vault) >= minShares
  /\ vault.shares + Minted(base, vault) <= vault.maxShares
  /\ held + Minted(base, vault) <= vault.maxPerUser
  /\ vault.idle + base <= vault.maxIdle

(* What the policy answers can be acted on, for every amount and vault,    *)
(* under any document the signer runs.  A deposit it passes is one the     *)
(* vault takes, at the price it was judged at.  The headroom a refusal     *)
(* names is deposited without being refused for headroom.  A holder may    *)
(* ask for all its shares are worth.  And the floor of a withdrawal is no  *)
(* more than the vault pays, once the tolerance is worth a share: below    *)
(* that, what rounding to whole shares takes off is more than the          *)
(* tolerance leaves (policy.js:756-866).                                   *)
DepositTaken(rules, usd, vault, held) ==
  LET answer == EvaluateDeposit(rules, usd, 0, "today", TRUE, vault, held)
      again  == EvaluateDeposit(rules, 2 * answer.headroom, 0, "today", TRUE, vault, held)
  IN  /\ answer.code = "passes" => VaultTakes(answer.amount, answer.minShares, vault, held)
      /\ (answer.code = "CAP_HEADROOM" /\ answer.headroom > 0) => again.code # "CAP_HEADROOM"
HolderPaid(rules, usd, vault, held) ==
  LET answer == EvaluateWithdraw(rules, usd, "chat", 0, TRUE, vault, held)
      all    == EvaluateWithdraw(rules, 2 * Worth(held, vault.price), "chat", 0, TRUE, vault, held)
      coarse == Whole * (vault.price \div BaseUnits + 3)   \* a share and two roundings
  IN  /\ answer.code = "passes" => Worth(answer.shares, vault.price) <= BaseOf(usd)
      /\ (answer.code = "passes" /\ Tolerance * BaseOf(usd) >= coarse)
           => PaidOut(answer.shares, vault) >= answer.minAmountOut
      /\ held # Unknown => all.code # "INSUFFICIENT_SHARES"
AddUp ==
  \A rules \in Policies, usd \in Amounts, vault \in Vaults, held \in Holdings :
    DepositTaken(rules, usd, vault, held) /\ HolderPaid(rules, usd, vault, held)
AmountsAddUp == policy \in Documents => AddUp
=============================================================================
