--------------------------- MODULE OwnFundsProofs ---------------------------
(***************************************************************************)
(* Proofs about OwnFunds, for every amount, price, fee, cap and holding:   *)
(* the roundings of a deposit and of a withdrawal add up.  They are facts  *)
(* of integer division, and of which rules an answer has come through.     *)
(***************************************************************************)
EXTENDS OwnFunds, TLAPS

(***************************************************************************)
(* Products and quotients.  A quotient by a positive number is the largest *)
(* integer whose product still fits.                                       *)
(***************************************************************************)
LEMMA TimesMonotone == \A a, b \in Int, k \in Nat : a <= b => a * k <= b * k
  BY Z3

LEMMA Quotient ==
  ASSUME NEW a \in Int, NEW c \in Nat \ {0}
  PROVE  a \div c \in Int /\ (a \div c) * c <= a /\ a < (a \div c) * c + c
  <1>1. a = (c * (a \div c)) + (a % c) /\ a % c \in 0 .. c - 1 /\ a \div c \in Int
    OBVIOUS
  <1> QED BY <1>1, Z3

LEMMA QuotientLeast ==
  ASSUME NEW a \in Int, NEW c \in Nat \ {0}, NEW n \in Int, n * c <= a
  PROVE  n <= a \div c
  <1>1. a \div c \in Int /\ a < (a \div c) * c + c
    BY Quotient
  <1>2. ASSUME n > a \div c PROVE FALSE
    <2>1. ((a \div c) + 1) * c <= n * c
      BY <1>1, <1>2, TimesMonotone
    <2>2. ((a \div c) + 1) * c = (a \div c) * c + c
      BY <1>1, Z3
    <2> QED BY <1>1, <2>1, <2>2, Z3
  <1> QED BY <1>1, <1>2

LEMMA QuotientMost ==
  ASSUME NEW a \in Int, NEW c \in Nat \ {0}, NEW n \in Int, a <= n * c
  PROVE  a \div c <= n
  <1>1. a \div c \in Int /\ (a \div c) * c <= a
    BY Quotient
  <1>2. ASSUME a \div c > n PROVE FALSE
    <2>1. (n + 1) * c <= (a \div c) * c
      BY <1>1, <1>2, TimesMonotone
    <2>2. (n + 1) * c = n * c + c
      BY Z3
    <2> QED BY <1>1, <2>1, <2>2, Z3
  <1> QED BY <1>1, <1>2

LEMMA QuotientMonotone ==
  ASSUME NEW a \in Int, NEW b \in Int, NEW c \in Nat \ {0}, a <= b
  PROVE  a \div c <= b \div c
  <1>1. a \div c \in Int /\ b \div c \in Int /\ (a \div c) * c <= a
    BY Quotient
  <1> QED BY <1>1, QuotientLeast, Z3

LEMMA QuotientNat ==
  ASSUME NEW a \in Nat, NEW c \in Nat \ {0}
  PROVE  a \div c \in Nat
  <1>1. a \div c \in Int /\ 0 * c <= a
    BY Quotient
  <1> QED BY <1>1, QuotientLeast

(***************************************************************************)
(* Fees.  What is left after a fee is no more than the whole, and the more *)
(* the fee the less of it.                                                 *)
(***************************************************************************)
Fees == 0 .. Whole

LEMMA AfterFee ==
  ASSUME NEW gross \in Nat, NEW fee \in Fees
  PROVE  After(gross, fee) \in Nat /\ After(gross, fee) <= gross
  <1> DEFINE rest == Whole - fee
  <1>1. Whole \in Nat \ {0} /\ rest \in Nat /\ rest <= Whole
    BY FundsAssumption DEF Fees
  <1>2. gross * rest \in Nat /\ rest * gross <= Whole * gross
    BY <1>1, TimesMonotone, Z3
  <1>3. gross * rest <= gross * Whole
    BY <1>1, <1>2, Z3
  <1>4. (gross * rest) \div Whole \in Nat /\ (gross * rest) \div Whole <= gross
    BY <1>1, <1>2, <1>3, QuotientNat, QuotientMost
  <1> QED BY <1>4 DEF After

LEMMA FloorUnderQuote ==
  ASSUME NEW gross \in Nat, NEW fee \in Fees
  PROVE  FloorAfter(gross, fee) <= After(gross, fee)
  <1> DEFINE less == Whole - (fee + Tolerance)
  <1> DEFINE rest == Whole - fee
  <1>1. Whole \in Nat \ {0} /\ rest \in Int /\ less \in Int /\ less <= rest
    BY FundsAssumption DEF Fees
  <1>2. less * gross <= rest * gross /\ gross * less \in Int /\ gross * rest \in Int
    BY <1>1, TimesMonotone, Z3
  <1>3. gross * less <= gross * rest
    BY <1>1, <1>2, Z3
  <1>4. (gross * less) \div Whole <= (gross * rest) \div Whole
    BY <1>1, <1>2, <1>3, QuotientMonotone
  <1> QED BY <1>4 DEF After, FloorAfter

(***************************************************************************)
(* Dollars, base units and shares.                                         *)
(***************************************************************************)
Prices == Nat \ {0}

LEMMA SharesOf ==
  ASSUME NEW base \in Nat, NEW price \in Prices
  PROVE  /\ Shares(base, price) \in Nat
         /\ Shares(base, price) * price <= base * BaseUnits
         /\ base * BaseUnits < Shares(base, price) * price + price
  <1>1. base * BaseUnits \in Nat
    BY FundsAssumption, Z3
  <1> QED BY <1>1, Quotient, QuotientNat DEF Shares, Prices

LEMMA WorthOf ==
  ASSUME NEW shares \in Nat, NEW price \in Prices
  PROVE  /\ Worth(shares, price) \in Nat
         /\ Worth(shares, price) * BaseUnits <= shares * price
         /\ shares * price < Worth(shares, price) * BaseUnits + BaseUnits
  <1>1. shares * price \in Nat /\ BaseUnits \in Nat \ {0}
    BY FundsAssumption, Z3 DEF Prices
  <1> QED BY <1>1, Quotient, QuotientNat DEF Worth

(* What is bought with what shares are worth is no more than those shares, *)
(* and what is paid for is worth no more than was paid.                    *)
LEMMA BuysNoMore ==
  ASSUME NEW shares \in Nat, NEW price \in Prices, NEW base \in Nat, base <= Worth(shares, price)
  PROVE  Shares(base, price) <= shares
  <1>1. BaseUnits \in Nat /\ Worth(shares, price) \in Nat
    BY FundsAssumption, WorthOf
  <1>2. base * BaseUnits <= Worth(shares, price) * BaseUnits
    BY <1>1, TimesMonotone
  <1>3. base * BaseUnits \in Int /\ shares * price \in Int
    BY <1>1, Z3 DEF Prices
  <1>4. base * BaseUnits <= shares * price
    BY <1>1, <1>2, <1>3, WorthOf, Z3
  <1> QED BY <1>3, <1>4, QuotientMost DEF Shares, Prices

LEMMA WorthNoMore ==
  ASSUME NEW base \in Nat, NEW price \in Prices
  PROVE  Worth(Shares(base, price), price) <= base
  <1>1. BaseUnits \in Nat \ {0} /\ Shares(base, price) \in Nat
    BY FundsAssumption, SharesOf
  <1>2. Shares(base, price) * price \in Int /\ Shares(base, price) * price <= base * BaseUnits
    BY <1>1, SharesOf, Z3 DEF Prices
  <1> QED BY <1>1, <1>2, QuotientMost DEF Worth

LEMMA BaseOfDollars ==
  /\ \A usd \in Nat : BaseOf(usd) \in Nat
  /\ \A n \in Nat : BaseOf(2 * n) = n
  BY DEF BaseOf

LEMMA FloorIsInt ==
  ASSUME NEW gross \in Nat, NEW fee \in Fees
  PROVE  FloorAfter(gross, fee) \in Int
  <1>1. Whole \in Nat \ {0} /\ gross * (Whole - (fee + Tolerance)) \in Int
    BY FundsAssumption, Z3 DEF Fees
  <1> QED BY <1>1, Quotient DEF FloorAfter, After

LEMMA WorthIsInt ==
  ASSUME NEW shares \in Nat, NEW price \in Nat
  PROVE  Worth(shares, price) \in Int
  <1>1. shares * price \in Int /\ BaseUnits \in Nat \ {0}
    BY FundsAssumption, Z3
  <1> QED BY <1>1, Quotient DEF Worth

LEMMA WorthOfNone ==
  ASSUME NEW price \in Prices
  PROVE  Worth(0, price) = 0
  <1>1. 0 * price = 0 /\ BaseUnits \in Nat \ {0}
    BY FundsAssumption, Z3 DEF Prices
  <1>2. 0 \div BaseUnits \in Int /\ 0 * BaseUnits <= 0
    BY <1>1, Quotient
  <1>3. 0 \div BaseUnits <= 0 /\ 0 <= 0 \div BaseUnits
    BY <1>1, <1>2, QuotientLeast, QuotientMost
  <1> QED BY <1>1, <1>2, <1>3 DEF Worth

(***************************************************************************)
(* What an answer has come through.                                        *)
(***************************************************************************)
LEMMA DepositPassed ==
  ASSUME NEW rules, NEW usd \in Int, NEW vault, NEW held,
         EvaluateDeposit(rules, usd, 0, "today", TRUE, vault, held).code = "passes"
  PROVE  LET answer == EvaluateDeposit(rules, usd, 0, "today", TRUE, vault, held)
             gross  == Shares(BaseOf(usd), vault.price)
         IN  /\ ~(usd <= 0) /\ ~(vault.price <= 0) /\ held # Unknown
             /\ ~(gross > SharesRoom(vault, held)) /\ ~(BaseOf(usd) > IdleRoom(vault))
             /\ answer.amount = BaseOf(usd)
             /\ answer.minShares = FloorAfter(gross, vault.depositFee)
  BY DEF EvaluateDeposit, Refused

LEMMA DepositNoRoom ==
  ASSUME NEW rules, NEW usd \in Int, NEW vault, NEW held,
         EvaluateDeposit(rules, usd, 0, "today", TRUE, vault, held).code = "CAP_HEADROOM",
         EvaluateDeposit(rules, usd, 0, "today", TRUE, vault, held).headroom > 0
  PROVE  /\ ~(vault.price <= 0) /\ held # Unknown
         /\ EvaluateDeposit(rules, usd, 0, "today", TRUE, vault, held).headroom
              = Headroom(vault, held)
  BY DEF EvaluateDeposit, Refused

LEMMA DepositFits ==
  ASSUME NEW rules, NEW usd \in Int, NEW vault, NEW held, held # Unknown,
         ~(Shares(BaseOf(usd), vault.price) > SharesRoom(vault, held)),
         ~(BaseOf(usd) > IdleRoom(vault))
  PROVE  EvaluateDeposit(rules, usd, 0, "today", TRUE, vault, held).code # "CAP_HEADROOM"
  BY DEF EvaluateDeposit, Refused

LEMMA WithdrawPassed ==
  ASSUME NEW rules, NEW usd \in Int, NEW vault, NEW held,
         EvaluateWithdraw(rules, usd, "chat", 0, TRUE, vault, held).code = "passes"
  PROVE  LET answer == EvaluateWithdraw(rules, usd, "chat", 0, TRUE, vault, held)
         IN  /\ ~(usd <= 0) /\ ~(vault.price <= 0)
             /\ answer.shares = Shares(BaseOf(usd), vault.price)
             /\ answer.minAmountOut = FloorAfter(BaseOf(usd), vault.withdrawFee)
  BY DEF EvaluateWithdraw, Refused

LEMMA WithdrawShort ==
  ASSUME NEW rules, NEW usd \in Int, NEW vault, NEW held, held # Unknown,
         EvaluateWithdraw(rules, usd, "chat", 0, TRUE, vault, held).code = "INSUFFICIENT_SHARES"
  PROVE  ~(vault.price <= 0) /\ Shares(BaseOf(usd), vault.price) > held
  BY DEF EvaluateWithdraw, Refused

(***************************************************************************)
(* The two sides of a request.                                             *)
(***************************************************************************)
LEMMA DepositsTaken ==
  ASSUME NEW rules, NEW usd \in Amounts, NEW vault \in Vaults, NEW held \in Holdings
  PROVE  DepositTaken(rules, usd, vault, held)
<1> DEFINE answer == EvaluateDeposit(rules, usd, 0, "today", TRUE, vault, held)
<1> DEFINE again == EvaluateDeposit(rules, 2 * answer.headroom, 0, "today", TRUE, vault, held)
<1> DEFINE room == SharesRoom(vault, held)
<1>1. /\ usd \in Int /\ vault.price \in Nat /\ vault.depositFee \in Fees
      /\ vault.maxShares \in Nat /\ vault.shares \in Nat /\ vault.maxPerUser \in Nat
      /\ vault.maxIdle \in Nat /\ vault.idle \in Nat
      /\ held # Unknown => held \in Nat
  BY FundsAssumption DEF Fees
<1>2. ASSUME answer.code = "passes"
      PROVE  VaultTakes(answer.amount, answer.minShares, vault, held)
  <2> DEFINE base == BaseOf(usd)
  <2> DEFINE gross == Shares(base, vault.price)
  <2> HIDE DEF base, gross
  <2>1. /\ ~(usd <= 0) /\ ~(vault.price <= 0) /\ held # Unknown
        /\ ~(gross > room) /\ ~(base > IdleRoom(vault))
        /\ answer.amount = base /\ answer.minShares = FloorAfter(gross, vault.depositFee)
    BY <1>1, <1>2, DepositPassed DEF base, gross
  <2>2. base \in Nat /\ vault.price \in Prices
    BY <1>1, <2>1, BaseOfDollars DEF base, Prices
  <2>3. gross \in Nat
    BY <2>2, SharesOf DEF gross
  <2>4. /\ After(gross, vault.depositFee) \in Nat /\ After(gross, vault.depositFee) <= gross
        /\ FloorAfter(gross, vault.depositFee) <= After(gross, vault.depositFee)
    BY <1>1, <2>3, AfterFee, FloorUnderQuote
  <2>5. gross <= vault.maxShares - vault.shares /\ gross <= vault.maxPerUser - held
    BY <1>1, <2>1, <2>3 DEF SharesRoom, Smaller
  <2>6. base <= vault.maxIdle - vault.idle
    BY <1>1, <2>1, <2>2 DEF IdleRoom
  <2>7. Minted(base, vault) = After(gross, vault.depositFee)
    BY DEF Minted, gross
  <2>8. VaultTakes(base, FloorAfter(gross, vault.depositFee), vault, held)
    <3> DEFINE minted == Minted(base, vault)
    <3>1. minted \in Nat /\ minted <= gross /\ FloorAfter(gross, vault.depositFee) <= minted
      BY <2>4, <2>7
    <3> HIDE DEF minted
    <3>2. /\ vault.shares + minted <= vault.maxShares /\ held + minted <= vault.maxPerUser
          /\ vault.idle + base <= vault.maxIdle
      BY <1>1, <2>1, <2>2, <2>3, <2>5, <2>6, <3>1
    <3>3. FloorAfter(gross, vault.depositFee) \in Int
      BY <1>1, <2>3, FloorIsInt
    <3>4. minted >= FloorAfter(gross, vault.depositFee)
      BY <3>1, <3>3
    <3> QED BY <3>2, <3>4 DEF VaultTakes, minted
  <2> QED BY <2>1, <2>8
<1>3. ASSUME answer.code = "CAP_HEADROOM", answer.headroom > 0
      PROVE  again.code # "CAP_HEADROOM"
  <2> DEFINE head == Headroom(vault, held)
  <2> HIDE DEF head
  <2>1. ~(vault.price <= 0) /\ held # Unknown /\ answer.headroom = head
    BY <1>1, <1>3, DepositNoRoom DEF head
  <2>2. vault.price \in Prices /\ room \in Int /\ IdleRoom(vault) \in Int
    BY <1>1, <2>1 DEF Prices, SharesRoom, Smaller, IdleRoom
  <2>3. OrZero(room) \in Nat /\ OrZero(IdleRoom(vault)) \in Nat
    BY <2>2 DEF OrZero
  <2>4. Worth(OrZero(room), vault.price) \in Nat
    BY <2>2, <2>3, WorthOf
  <2>5. head \in Nat /\ head <= Worth(OrZero(room), vault.price) /\ head <= OrZero(IdleRoom(vault))
    BY <2>3, <2>4 DEF head, Headroom, Smaller
  <2>6. head > 0
    BY <1>3, <2>1
  <2>7. Shares(head, vault.price) <= OrZero(room)
    BY <2>2, <2>3, <2>5, BuysNoMore
  <2>8. room > 0
    <3>1. ASSUME OrZero(room) = 0 PROVE FALSE
      <4>1. Worth(0, vault.price) = 0
        BY <2>2, FundsAssumption, WorthOfNone
      <4> QED BY <2>5, <2>6, <3>1, <4>1
    <3> QED BY <2>2, <3>1 DEF OrZero
  <2>9. OrZero(room) = room /\ OrZero(IdleRoom(vault)) = IdleRoom(vault)
    BY <2>2, <2>5, <2>6, <2>8 DEF OrZero
  <2>10. BaseOf(2 * head) = head /\ 2 * head \in Int
    BY <2>5, BaseOfDollars
  <2>11. Shares(head, vault.price) \in Nat
    BY <2>2, <2>5, SharesOf
  <2>12. ~(Shares(head, vault.price) > SharesRoom(vault, held)) /\ ~(head > IdleRoom(vault))
    BY <2>2, <2>5, <2>7, <2>9, <2>11
  <2>13. EvaluateDeposit(rules, 2 * head, 0, "today", TRUE, vault, held).code # "CAP_HEADROOM"
    BY <2>1, <2>10, <2>12, DepositFits
  <2> QED BY <2>1, <2>13
<1> QED BY <1>2, <1>3 DEF DepositTaken

(* A withdrawal's floor: rounding to whole shares takes off less than a    *)
(* share's worth and one more base unit, which the tolerance covers.       *)
LEMMA FloorPaid ==
  ASSUME NEW base \in Nat, NEW price \in Prices, NEW fee \in Fees,
         Tolerance * base >= Whole * (price \div BaseUnits + 3)
  PROVE  After(Worth(Shares(base, price), price), fee) >= FloorAfter(base, fee)
<1> DEFINE shares == Shares(base, price)
<1> DEFINE worth == Worth(shares, price)
<1> DEFINE step == price \div BaseUnits
<1> DEFINE rest == Whole - fee
<1> DEFINE less == Whole - (fee + Tolerance)
<1>1. /\ BaseUnits \in Nat \ {0} /\ Whole \in Nat \ {0} /\ Tolerance \in Nat
      /\ rest \in Nat /\ rest <= Whole /\ less \in Int /\ less = rest - Tolerance
  BY FundsAssumption DEF Fees
<1>2. step \in Nat /\ price < step * BaseUnits + BaseUnits /\ price \in Nat
  BY <1>1, Quotient, QuotientNat DEF Prices
<1>3. /\ shares \in Nat /\ base * BaseUnits < shares * price + price
  BY SharesOf
<1>4. worth \in Nat /\ shares * price < worth * BaseUnits + BaseUnits
  BY <1>3, WorthOf
<1>5. Tolerance * base >= Whole * (step + 3)
  OBVIOUS
<1> HIDE DEF shares, worth, step, rest, less
<1>6. base <= worth + step + 1
  <2>1. shares * price \in Int /\ base * BaseUnits \in Int /\ worth * BaseUnits \in Int /\ step * BaseUnits \in Int
    BY <1>1, <1>2, <1>3, <1>4, Z3
  <2>2. base * BaseUnits < worth * BaseUnits + step * BaseUnits + BaseUnits + BaseUnits
    BY <1>1, <1>2, <1>3, <1>4, <2>1
  <2>3. (worth + step + 2) * BaseUnits = worth * BaseUnits + step * BaseUnits + BaseUnits + BaseUnits
    BY <1>1, <1>2, <1>4, Z3
  <2>4. ASSUME base >= worth + step + 2 PROVE FALSE
    <3>1. (worth + step + 2) * BaseUnits <= base * BaseUnits
      BY <1>1, <1>2, <1>4, <2>4, TimesMonotone
    <3> QED BY <1>1, <2>1, <2>2, <2>3, <3>1
  <2> QED BY <1>2, <1>4, <2>4
<1>7. base * less <= worth * rest
  <2>1. base * rest <= (worth + step + 1) * rest
    BY <1>1, <1>2, <1>4, <1>6, TimesMonotone
  <2>2. (worth + step + 1) * rest = worth * rest + (step + 1) * rest
    BY <1>1, <1>2, <1>4, Z3
  <2>3. (step + 1) * rest <= (step + 3) * Whole
    <3>1. (step + 1) * rest <= (step + 3) * rest
      BY <1>1, <1>2, TimesMonotone
    <3>2. rest * (step + 3) <= Whole * (step + 3)
      BY <1>1, <1>2, TimesMonotone
    <3> QED BY <1>1, <1>2, <3>1, <3>2, Z3
  <2>4. base * less = base * rest - Tolerance * base
    BY <1>1, Z3
  <2>5. (step + 3) * Whole = Whole * (step + 3)
    BY <1>1, <1>2, Z3
  <2>6. /\ base * rest \in Int /\ worth * rest \in Int /\ (step + 1) * rest \in Int
        /\ Tolerance * base \in Int /\ Whole * (step + 3) \in Int
    BY <1>1, <1>2, <1>4, Z3
  <2> QED BY <1>5, <2>1, <2>2, <2>3, <2>4, <2>5, <2>6
<1>8. base * less \in Int /\ worth * rest \in Int
  BY <1>1, <1>4, Z3
<1>9. (base * less) \div Whole <= (worth * rest) \div Whole
  BY <1>1, <1>7, <1>8, QuotientMonotone
<1>10. (base * less) \div Whole \in Int /\ (worth * rest) \div Whole \in Int
  BY <1>1, <1>8, Quotient
<1>11. (worth * rest) \div Whole >= (base * less) \div Whole
  BY <1>9, <1>10
<1> QED BY <1>11 DEF After, FloorAfter, shares, worth, rest, less

LEMMA HoldersPaid ==
  ASSUME NEW rules, NEW usd \in Amounts, NEW vault \in Vaults, NEW held \in Holdings
  PROVE  HolderPaid(rules, usd, vault, held)
<1> DEFINE answer == EvaluateWithdraw(rules, usd, "chat", 0, TRUE, vault, held)
<1> DEFINE all == EvaluateWithdraw(rules, 2 * Worth(held, vault.price), "chat", 0, TRUE, vault, held)
<1>1. /\ usd \in Int /\ vault.price \in Nat /\ vault.withdrawFee \in Fees
      /\ held # Unknown => held \in Nat
  BY FundsAssumption DEF Fees
<1>2. ASSUME answer.code = "passes"
      PROVE  /\ Worth(answer.shares, vault.price) <= BaseOf(usd)
             /\ Tolerance * BaseOf(usd) >= Whole * (vault.price \div BaseUnits + 3)
                  => PaidOut(answer.shares, vault) >= answer.minAmountOut
  <2>1. /\ ~(usd <= 0) /\ ~(vault.price <= 0)
        /\ answer.shares = Shares(BaseOf(usd), vault.price)
        /\ answer.minAmountOut = FloorAfter(BaseOf(usd), vault.withdrawFee)
    BY <1>1, <1>2, WithdrawPassed
  <2>2. BaseOf(usd) \in Nat /\ vault.price \in Prices
    BY <1>1, <2>1, BaseOfDollars DEF Prices
  <2>3. Worth(Shares(BaseOf(usd), vault.price), vault.price) <= BaseOf(usd)
    BY <2>2, WorthNoMore
  <2>4. Tolerance * BaseOf(usd) >= Whole * (vault.price \div BaseUnits + 3)
          => PaidOut(Shares(BaseOf(usd), vault.price), vault)
               >= FloorAfter(BaseOf(usd), vault.withdrawFee)
    BY <1>1, <2>2, FloorPaid DEF PaidOut
  <2> QED BY <2>1, <2>3, <2>4
<1>3. ASSUME held # Unknown PROVE all.code # "INSUFFICIENT_SHARES"
  <2>1. SUFFICES ASSUME all.code = "INSUFFICIENT_SHARES" PROVE FALSE
    OBVIOUS
  <2> DEFINE worth == Worth(held, vault.price)
  <2>2. worth \in Int
    BY <1>1, <1>3, WorthIsInt
  <2> HIDE DEF worth
  <2>3. 2 * worth \in Int
    BY <2>2
  <2>4. ~(vault.price <= 0) /\ Shares(BaseOf(2 * worth), vault.price) > held
    BY <1>3, <2>1, <2>3, WithdrawShort DEF worth
  <2>5. vault.price \in Prices
    BY <1>1, <2>4 DEF Prices
  <2>6. worth \in Nat /\ BaseOf(2 * worth) = worth
    BY <1>1, <1>3, <2>5, WorthOf, BaseOfDollars DEF worth
  <2>7. Shares(worth, vault.price) \in Nat /\ Shares(worth, vault.price) <= held
    BY <1>1, <1>3, <2>5, <2>6, SharesOf, BuysNoMore DEF worth
  <2> QED BY <1>1, <1>3, <2>4, <2>6, <2>7
<1> QED BY <1>2, <1>3 DEF HolderPaid

(* For every document, amount, vault and holding: a deposit the policy     *)
(* passes is one the vault takes, the headroom a refusal names is not      *)
(* refused for headroom, a withdrawal is worth no more than was asked for  *)
(* and its floor no more than the vault pays, and a holder may ask for all *)
(* its shares are worth (policy.js evaluateDeposit, evaluateWithdraw).     *)
THEOREM FundsAddUp == Spec => []AmountsAddUp
<1>1. AddUp
  BY DepositsTaken, HoldersPaid DEF AddUp
<1>2. AmountsAddUp
  BY <1>1 DEF AmountsAddUp
<1> QED BY <1>2, PTL
=============================================================================
