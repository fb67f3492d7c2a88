----------------------------- MODULE FeeProofs -----------------------------
(***************************************************************************)
(* The laws of FeeSchedule hold of every positive quantity, in every state *)
(* and for every precision ONE, 2^64 among them.                           *)
(***************************************************************************)
EXTENDS FeeSchedule, Lemmas

\* The quantities of the model are positive, as those of the theorems.
LEMMA QuantitiesPositive == Quantities \subseteq Nat \ {0}
BY MaxQtyAssumption DEF Quantities

\* Every trade leaves the market a positive fee after the maker's rebate and
\* the referrer's share (fees.rs maker_rebate, taker_fee, referrer_rebate).
THEOREM FeesPositive ==
  /\ PositiveNetFees
  /\ \A tt, mt \in FeeTier, qty \in Nat \ {0} : NetFeePositive(tt, mt, qty)
<1>1. ASSUME NEW tt \in FeeTier, NEW mt \in FeeTier, NEW qty \in Nat \ {0}
      PROVE  NetFeePositive(tt, mt, qty)
  BY NetFee DEF NetFeePositive
<1> QED
  BY <1>1, QuantitiesPositive DEF PositiveNetFees

\* A bid that sets the fee of its remainder aside can always pay the fee of
\* what it trades (fees.rs remove_taker_fee, matching.rs new_bid).
THEOREM FeesCoverTrades ==
  /\ MarketOrderCannotCheat
  /\ \A tt \in FeeTier, qty \in Nat : FeeCoversTrade(tt, qty)
<1>1. ASSUME NEW tt \in FeeTier, NEW qty \in Nat
      PROVE  FeeCoversTrade(tt, qty)
  BY SetAside DEF FeeCoversTrade
<1> QED
  BY <1>1, QuantitiesPositive DEF MarketOrderCannotCheat

\* A limit bid locks exactly what lets it trade its whole value at its limit
\* (state.rs process_new_order, fees.rs remove_taker_fee).
THEOREM FeesInvertible ==
  /\ AddRemoveFees
  /\ \A tt \in FeeTier, qty \in Nat : FeeInvertible(tt, qty)
<1>1. ASSUME NEW tt \in FeeTier, NEW qty \in Nat
      PROVE  FeeInvertible(tt, qty)
  BY AddRemove DEF FeeInvertible
<1> QED
  BY <1>1, QuantitiesPositive DEF AddRemoveFees

-----------------------------------------------------------------------------
(* The tiers                                                               *)

\* The thresholds of SRM are in order.
LEMMA TiersInOrder ==
  ASSUME NEW srm \in Nat, NEW more_srm \in Nat, srm <= more_srm,
         NEW msrm \in Nat, NEW more_msrm \in Nat, msrm <= more_msrm
  PROVE  /\ from_srm_and_msrm_balances(srm, msrm) \in FeeTier
         /\ from_srm_and_msrm_balances(more_srm, more_msrm) \in FeeTier
         /\ taker_bps(from_srm_and_msrm_balances(srm, msrm)) \in Nat
         /\ taker_bps(from_srm_and_msrm_balances(more_srm, more_msrm)) \in Nat
         /\ taker_bps(from_srm_and_msrm_balances(more_srm, more_msrm))
              <= taker_bps(from_srm_and_msrm_balances(srm, msrm))
  BY DEF from_srm_and_msrm_balances, FeeTier, taker_bps

\* The rate of a basis point more is not lower.
LEMMA RateMonotone ==
  ASSUME NEW a \in Nat, NEW b \in Nat, a <= b
  PROVE  /\ fee_bps(a) \in Int /\ fee_bps(b) \in Int
         /\ fee_bps(a) <= fee_bps(b)
<1>1. a * ONE <= b * ONE /\ a * ONE \in Int /\ b * ONE \in Int
  BY OneAssumption, ProductMonotone
<1> DEFINE A == a * ONE
           B == b * ONE
<1> HIDE DEF A, B
<1>2. A \in Int /\ B \in Int /\ A <= B
  BY <1>1 DEF A, B
<1>3. A \div 10000 \in Int /\ B \div 10000 \in Int /\ A \div 10000 <= B \div 10000
  BY <1>2
<1> QED
  BY <1>3 DEF fee_bps, A, B

\* Who holds more SRM or MSRM never pays a higher fee for a trade, in spite of
\* the rounding: no trader is better off showing less
\* (FeeTier::from_srm_and_msrm_balances, MarketState::load_fee_tier).
THEOREM HoldingMoreNeverCosts ==
  ASSUME NEW srm \in Nat, NEW more_srm \in Nat, srm <= more_srm,
         NEW msrm \in Nat, NEW more_msrm \in Nat, msrm <= more_msrm, NEW q \in Nat
  PROVE  taker_fee(from_srm_and_msrm_balances(more_srm, more_msrm), q)
           <= taker_fee(from_srm_and_msrm_balances(srm, msrm), q)
<1> DEFINE t == from_srm_and_msrm_balances(srm, msrm)
           better == from_srm_and_msrm_balances(more_srm, more_msrm)
<1>1. /\ t \in FeeTier /\ better \in FeeTier
      /\ taker_bps(better) \in Nat /\ taker_bps(t) \in Nat
      /\ taker_bps(better) <= taker_bps(t)
  BY TiersInOrder
<1> HIDE DEF t, better
<1>2. /\ taker_rate(better) \in Int /\ taker_rate(t) \in Int
      /\ taker_rate(better) <= taker_rate(t)
  BY <1>1, RateMonotone DEF taker_rate
<1>3. taker_rate(better) * q <= taker_rate(t) * q
  BY <1>2, ProductMonotone
<1>4. /\ taker_fee(better, q) \in Int /\ taker_fee(t, q) \in Int
      /\ taker_fee(better, q) * ONE < taker_rate(better) * q + ONE
      /\ taker_rate(t) * q <= taker_fee(t, q) * ONE
  BY <1>1, TakerFee
<1>5. taker_fee(better, q) * ONE < (taker_fee(t, q) + 1) * ONE
  BY <1>2, <1>3, <1>4, OneAssumption
<1>6. taker_fee(better, q) < taker_fee(t, q) + 1
  BY <1>4, <1>5, ProductStrict, OneAssumption
<1> QED
  BY <1>4, <1>6 DEF t, better
=============================================================================
