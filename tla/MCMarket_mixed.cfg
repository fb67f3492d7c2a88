\* Every order type and both self-trade behaviours, under the cranks: limit 2 as
\* match_orders sends it, and an event queue with room for the four events of
\* each of the two passes.
CONSTANTS
  ONE = 65536
  Traders = {t1, t2}
  MAX_SLOTS = 2
  CoinLot = 10
  PcLot = 3700
  ReqCap = 2
  EventCap = 8
  BookCap = 1
  SEQ_MASK = 7
  Free = Free
  Instructions <- MixedOrders
  FeeTiers = {"Base"}
  MatchLimits = {2}
  ConsumeLimits = {1}
  MaxSeq = 3
  MaxQty = 1
SPECIFICATION FairSpec
INVARIANTS
  LockedMatchesOrders
  OrderInOnePlace
PROPERTIES
  OrdersRespected
  RequestsServed
  LeavingOrdersLeave
CHECK_DEADLOCK FALSE
