---------------------------- MODULE FeeSchedule ----------------------------
(***************************************************************************)
(* What the market relies on in the arithmetic of the fee schedule, for    *)
(* every pair of fee tiers and every quantity, as the property tests of    *)
(* dex/src/fees.rs draw them.  Each law is an operator on tiers and a      *)
(* quantity, the same in every state of the market; what TLC checks of it  *)
(* is asked of the initial state, before the first order, and so once.     *)
(***************************************************************************)
EXTENDS Market

CONSTANT MaxQty   \* bound of the model: the largest quantity

ASSUME MaxQtyAssumption == MaxQty \in Nat

\* The pc quantities of trades and of locked funds.
Quantities == 1 .. MaxQty

NetFeePositive(tt, mt, qty) ==
  LET fee == taker_fee(tt, qty)
  IN  fee > maker_rebate(mt, qty) + referrer_rebate(fee)

FeeCoversTrade(tt, qty) ==
  LET rest == remove_taker_fee(tt, qty)
  IN  (qty - rest) - taker_fee(tt, rest) \in {0, 1}

FeeInvertible(tt, qty) ==
  remove_taker_fee(tt, qty + taker_fee(tt, qty)) = qty

\* A fee always pays for the rebate of the maker and the share of the
\* referrer with something left for the market, whatever the tiers and the
\* rounding: the subtractions of new_ask and new_bid do not wrap
\* (the test positive_net_fees, dex/src/fees.rs:135).
PositiveNetFees ==
  Init => \A tt, mt \in FeeTier, qty \in Quantities : NetFeePositive(tt, mt, qty)

\* What remove_taker_fee sets aside of an amount is the fee of the rest, or
\* one unit more: a bid can pay the fee of what it trades and no taker is
\* charged for more (market_order_cannot_cheat, dex/src/fees.rs:156).
MarketOrderCannotCheat ==
  Init => \A tt \in FeeTier, qty \in Quantities : FeeCoversTrade(tt, qty)

\* Setting the fee aside is the inverse of adding it, exactly: a limit bid that
\* locks its value and the fee can trade all of its value at its limit
\* (test_add_remove_fees, dex/src/fees.rs:166, allows to be one off).
AddRemoveFees ==
  Init => \A tt \in FeeTier, qty \in Quantities : FeeInvertible(tt, qty)
=============================================================================
