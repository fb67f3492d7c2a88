\* Limit orders, cancels by id and by client id, batches of two; and the laws
\* of the fee schedule they rely on, for every quantity up to MaxQty.
CONSTANTS
  ONE = 65536
  Traders = {t1, t2}
  MAX_SLOTS = 2
  CoinLot = 10
  PcLot = 3700
  ReqCap = 2
  EventCap = 6
  BookCap = 2
  SEQ_MASK = 7
  Free = Free
  Instructions <- LimitOrders
  FeeTiers = {"Base", "MSRM"}
  MatchLimits = {1, 2}
  ConsumeLimits = {1}
  MaxSeq = 3
  MaxQty = 3000
SYMMETRY Symmetry
SPECIFICATION Spec
INVARIANTS
  TypeOK
  VaultsMatchBooks
  DepositsMatchAccounts
  LockedMatchesOrders
  NoUnderflow
  EventsConsumable
  OrderInOnePlace
  BookInOrder
  FillsWithinLimit
  OnePassFits
  PositiveNetFees
  MarketOrderCannotCheat
  AddRemoveFees
PROPERTIES
  PriceTimePriority
CHECK_DEADLOCK FALSE
