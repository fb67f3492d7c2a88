------------------------------ MODULE MCMarket ------------------------------
(***************************************************************************)
(* Small instances of the market.  Prices and quantities of one or two     *)
(* lots are enough for an order to trade with several others, to fill      *)
(* partially and to rest; PcLot is large enough for fees, rebates and      *)
(* referrer rebates that are neither zero nor exact.  The laws of the fee  *)
(* schedule are checked beside them.                                       *)
(***************************************************************************)
EXTENDS MarketProperties, FeeSchedule, TLC

Order(side, price, qty, type, behavior, client_id) ==
  [side |-> side, limit_price |-> price, max_qty |-> qty, order_type |-> type,
   self_trade_behavior |-> behavior, client_id |-> client_id]

\* Limit orders that cross at two prices and fill each other partially.
LimitOrders ==
  {Order("Bid", 1, 1, "Limit", "DecrementTake", 0),
   Order("Bid", 2, 2, "Limit", "DecrementTake", 1),
   Order("Ask", 1, 2, "Limit", "DecrementTake", 1),
   Order("Ask", 2, 1, "Limit", "DecrementTake", 0)}

\* Every order type and both self-trade behaviours.
MixedOrders ==
  {Order("Bid", 2, 1, "PostOnly", "DecrementTake", 0),
   Order("Bid", 2, 2, "ImmediateOrCancel", "CancelProvide", 0),
   Order("Bid", 1, 2, "Limit", "CancelProvide", 1),
   Order("Ask", 1, 1, "PostOnly", "CancelProvide", 0),
   Order("Ask", 1, 2, "ImmediateOrCancel", "DecrementTake", 0),
   Order("Ask", 2, 2, "Limit", "CancelProvide", 0),
   Order("Ask", 1, 2, "Limit", "CancelProvide", 0)}

Symmetry == Permutations(Traders)
=============================================================================
