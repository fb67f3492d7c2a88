---------------------------- MODULE MarketProofs ----------------------------
(***************************************************************************)
(* The market: types, custody, and what MatchOrders does to orders, for    *)
(* any traders, instructions, limits, lot sizes, capacities and fee        *)
(* precision.  Lots may have no size, except where LotsHaveSize says that  *)
(* they have one.                                                          *)
(*                                                                         *)
(* TypeOK /\ VaultsMatchBooks is inductive (IInv): what a step does to     *)
(* the money is only known of typed amounts.                               *)
(*                                                                         *)
(* A pass of process_requests has few shapes, whatever the limits and the  *)
(* branches of new_bid and new_ask: it cancels, drops, posts, self-trades  *)
(* or trades (Pass).  It has one of them only because a bid that waits has *)
(* something left to pay with.  Hence the layers above IInv:               *)
(*                                                                         *)
(*   QInv  every bid that waits has funds left, and every fill that is     *)
(*         queued is within the limit of its order.                        *)
(*   BInv  no bid of the book meets an ask, and orders are in the order of *)
(*         age from the book to the end of the request queue.  The age of  *)
(*         an order is the sequence number in its id, which the ids of     *)
(*         bids complement.                                                *)
(*                                                                         *)
(* The action properties speak of whole batches of passes.  They follow    *)
(* from what holds of the records of a call from its first pass to its     *)
(* last (SoFar, Gone).  They compare ids of both sides, and assume that    *)
(* these do not meet (IdsApart).                                           *)
(***************************************************************************)
EXTENDS MarketProperties, Lemmas, SequenceTheorems

-----------------------------------------------------------------------------
(* Matching: what every operator preserves, which are the types of the     *)
(* accounts it works on, the capacities of the book and of the event       *)
(* queue, and the money on the books of the market.                        *)

Accounts ==
  [bids : SUBSET Leaf, asks : SUBSET Leaf, market : MarketRec,
   req_q : Seq(Request), event_q : Seq(Event), ok : BOOLEAN]

AccountsOK(m) ==
  /\ m \in Accounts
  /\ IsBook(m.bids) /\ IsBook(m.asks)
  /\ Len(m.req_q) <= ReqCap /\ Len(m.event_q) <= EventCap

PcBooks(mkt) ==
  mkt.pc_deposits_total + mkt.pc_fees_accrued + mkt.referrer_rebates_accrued

CoinBooks(mkt) == mkt.coin_deposits_total

\* From m to n types, capacities and money are kept.
KeepsBooks(m, n) ==
  /\ AccountsOK(n)
  /\ PcBooks(n.market) = PcBooks(m.market)
  /\ CoinBooks(n.market) = CoinBooks(m.market)

\* ... and the request at the front is still to be dealt with.
Keeps(m, n) == KeepsBooks(m, n) /\ n.req_q = m.req_q

\* ... and the book is not touched.
KeepsOrders(m, n) == Keeps(m, n) /\ n.bids = m.bids /\ n.asks = m.asks

\* What an event takes over from the request or the leaf it is about.
Identified(x) ==
  x.id \in OrderId /\ x.owner \in Traders /\ x.owner_slot \in Slots
  /\ x.client_id \in Nat

-----------------------------------------------------------------------------
(* Numbers                                                                 *)

LEMMA LeastOfTwo ==
  ASSUME NEW x \in Int, NEW y \in Int
  PROVE  Least(x, y) \in {x, y} /\ Least(x, y) <= x /\ Least(x, y) <= y
  BY DEF Least

\* Native amounts are integers.
LEMMA NativeType ==
  ASSUME NEW side \in Side, NEW quantity \in Int, NEW price \in Positive
  PROVE  /\ NativeLocked(side, quantity, price) \in Int
         /\ quantity * price * PcLot \in Int
         /\ quantity * CoinLot \in Int
  BY MatchingAssumption DEF NativeLocked, Positive

\* Fees and rebates are integers.
LEMMA FeeTypesOf ==
  ASSUME NEW t \in FeeTier, NEW q \in Int
  PROVE  /\ taker_fee(t, q) \in Int /\ maker_rebate(t, q) \in Int
         /\ remove_taker_fee(t, q) \in Int /\ referrer_rebate(q) \in Int
<1>1. maker_rate(t) * q \in Int /\ ONE \in Nat \ {0}
  BY RateBounds, OneAssumption
<1>2. (maker_rate(t) * q) \div ONE \in Int
  BY <1>1, Quotient
<1>3. referrer_rebate(q) \in Int
  BY DEF referrer_rebate
<1> QED BY <1>2, <1>3, TakerFee, RestBounds DEF maker_rebate

-----------------------------------------------------------------------------
(* Events and the event queue                                              *)

LEMMA FillEventType ==
  ASSUME NEW side \in Side, NEW maker \in BOOLEAN, NEW x, Identified(x),
         NEW coin_qty \in Int, NEW native_pc \in Int, NEW fee \in Int
  PROVE  FillEvent(side, maker, x, coin_qty, native_pc, fee) \in Event
<1>1. coin_qty * CoinLot \in Int
  BY MatchingAssumption
<1>2. native_pc + fee \in Int /\ native_pc - fee \in Int
  OBVIOUS
<1>3. \A a, b, c : a \in Int /\ b \in Int /\ c \in Int =>
        (IF side = "Bid" THEN a ELSE IF maker THEN b ELSE c) \in Int
  OBVIOUS
<1> QED BY <1>1, <1>2 DEF FillEvent, Event, Identified, Side

LEMMA OutEventType ==
  ASSUME NEW side \in Side, NEW x, Identified(x),
         NEW unlocked \in Int, NEW still_locked \in Int
  PROVE  OutEvent(side, x, unlocked, still_locked) \in Event
  BY DEF OutEvent, Event, Identified

LEMMA PushBack ==
  ASSUME NEW m, AccountsOK(m), NEW events \in Seq(Event)
  PROVE  KeepsOrders(m, push_back(m, events))
<1>1. CASE Len(m.event_q) + Len(events) <= EventCap
  <2>1. /\ m.event_q \o events \in Seq(Event)
        /\ Len(m.event_q \o events) = Len(m.event_q) + Len(events)
    BY ConcatProperties DEF AccountsOK, Accounts
  <2> QED BY <1>1, <2>1
        DEF push_back, KeepsOrders, Keeps, KeepsBooks, AccountsOK, Accounts
<1>2. CASE ~(Len(m.event_q) + Len(events) <= EventCap)
  BY <1>2 DEF push_back, KeepsOrders, Keeps, KeepsBooks, AccountsOK, Accounts
<1> QED BY <1>1, <1>2

LEMMA PushOne ==
  ASSUME NEW m, AccountsOK(m), NEW e \in Event
  PROVE  KeepsOrders(m, push_back(m, <<e>>))
<1>1. <<e>> \in Seq(Event)
  OBVIOUS
<1> QED BY <1>1, PushBack

-----------------------------------------------------------------------------
(* The book                                                                *)

LEMMA IdOrder ==
  ASSUME NEW x \in OrderId, NEW y \in OrderId, NEW z \in OrderId
  PROVE  /\ ~KeyLess(x, x)
         /\ KeyLess(x, y) /\ KeyLess(y, z) => KeyLess(x, z)
<1>1. /\ x.price \in Int /\ x.lower \in Int /\ y.price \in Int
      /\ y.lower \in Int /\ z.price \in Int /\ z.lower \in Int
  BY MarketAssumption DEF OrderId, Positive
<1> QED BY <1>1 DEF KeyLess

\* A side that is not empty has a best and a least aggressive order.
LEMMA BestExists ==
  ASSUME NEW leaves, IsBook(leaves), leaves # {}
  PROVE  /\ find_max(leaves) \in leaves /\ find_min(leaves) \in leaves
         /\ \A y \in leaves : /\ ~KeyLess(find_max(leaves).id, y.id)
                             /\ ~KeyLess(y.id, find_min(leaves).id)
<1>1. IsFiniteSet(leaves) /\ leaves \subseteq Leaf
  BY DEF IsBook
<1>2. \A x \in leaves : x.id \in OrderId
  BY <1>1 DEF Leaf
<1>3. \E x \in leaves : \A y \in leaves : ~KeyLess(x.id, y.id)
  <2> DEFINE R == {p \in leaves \X leaves : KeyLess(p[1].id, p[2].id)}
  <2>1. \A x, y \in leaves : <<x, y>> \in R <=> KeyLess(x.id, y.id)
    OBVIOUS
  <2> HIDE DEF R
  <2>2. \A x \in leaves : <<x, x>> \notin R
    BY <2>1, <1>2, IdOrder
  <2>3. \A x, y, z \in leaves :
          <<x, y>> \in R /\ <<y, z>> \in R => <<x, z>> \in R
    BY <2>1, <1>2, IdOrder
  <2>4. \E x \in leaves : \A y \in leaves : <<x, y>> \notin R
    BY <1>1, <2>2, <2>3, FiniteMaximal
  <2> QED BY <2>1, <2>4
<1>4. \E x \in leaves : \A y \in leaves : ~KeyLess(y.id, x.id)
  <2> DEFINE R == {p \in leaves \X leaves : KeyLess(p[2].id, p[1].id)}
  <2>1. \A x, y \in leaves : <<x, y>> \in R <=> KeyLess(y.id, x.id)
    OBVIOUS
  <2> HIDE DEF R
  <2>2. \A x \in leaves : <<x, x>> \notin R
    BY <2>1, <1>2, IdOrder
  <2>3. \A x, y, z \in leaves :
          <<x, y>> \in R /\ <<y, z>> \in R => <<x, z>> \in R
    BY <2>1, <1>2, IdOrder
  <2>4. \E x \in leaves : \A y \in leaves : <<x, y>> \notin R
    BY <1>1, <2>2, <2>3, FiniteMaximal
  <2> QED BY <2>1, <2>4
<1> QED BY <1>3, <1>4 DEF find_max, find_min

LEMMA LeafFields ==
  ASSUME NEW x \in Leaf
  PROVE  /\ Identified(x) /\ x.quantity \in Nat /\ x.fee_tier \in FeeTier
         /\ x.id.price \in Positive
  BY MarketAssumption DEF Leaf, Identified, OrderId
LEMMA Orders ==
  ASSUME NEW m, AccountsOK(m), NEW side \in Side, NEW leaves, IsBook(leaves)
  PROVE  /\ IsBook(orders(m, side))
         /\ Keeps(m, WithOrders(m, side, leaves))
<1>1. leaves \in SUBSET Leaf
  BY DEF IsBook
<1> QED BY <1>1 DEF orders, WithOrders, Keeps, KeepsBooks, AccountsOK, Accounts

\* A book without one of its leaves, and with another one in its place.
LEMMA ReplaceLeaf ==
  ASSUME NEW leaves, IsBook(leaves), NEW x \in leaves, NEW y \in Leaf
  PROVE  IsBook(leaves \ {x}) /\ IsBook((leaves \ {x}) \cup {y})
<1>1. leaves \subseteq Leaf /\ IsFiniteSet(leaves) /\ Cardinality(leaves) <= BookCap
  BY DEF IsBook
<1>2. /\ IsFiniteSet(leaves \ {x})
      /\ Cardinality(leaves \ {x}) = Cardinality(leaves) - 1
  BY <1>1, FS_RemoveElement
<1>3. /\ IsFiniteSet((leaves \ {x}) \cup {y})
      /\ Cardinality((leaves \ {x}) \cup {y})
           = IF y \in leaves \ {x} THEN Cardinality(leaves \ {x})
                                   ELSE Cardinality(leaves \ {x}) + 1
  BY <1>2, FS_AddElement
<1>4. Cardinality(leaves) \in Nat /\ BookCap \in Nat
  BY <1>1, FS_CardinalityType, MatchingAssumption
<1>5. /\ Cardinality(leaves \ {x}) <= BookCap
      /\ Cardinality((leaves \ {x}) \cup {y}) <= BookCap
  BY <1>1, <1>2, <1>3, <1>4
<1> QED BY <1>1, <1>2, <1>3, <1>5 DEF IsBook

LEMMA LeaveQuantityKeeps ==
  ASSUME NEW m, AccountsOK(m), NEW side \in Side, NEW x \in orders(m, side),
         NEW quantity \in Nat
  PROVE  Keeps(m, LeaveQuantity(m, side, x, quantity))
<1> DEFINE y == [x EXCEPT !.quantity = quantity]
<1>1. IsBook(orders(m, side))
  <2>1. IsBook({})
    BY FS_EmptySet, MatchingAssumption DEF IsBook
  <2> QED BY <2>1, Orders
<1>2. x \in Leaf
  BY <1>1 DEF IsBook
<1>3. y \in Leaf
  BY <1>2 DEF Leaf
<1>4. /\ IsBook(orders(m, side) \ {x})
      /\ IsBook((orders(m, side) \ {x}) \cup {y})
  BY <1>1, <1>3, ReplaceLeaf
<1>5. IsBook((orders(m, side) \ {x})
             \cup (IF quantity = 0 THEN {} ELSE {y}))
  <2>1. CASE quantity = 0
    <3>1. (orders(m, side) \ {x}) \cup {} = orders(m, side) \ {x}
      OBVIOUS
    <3> QED BY <2>1, <3>1, <1>4
  <2>2. CASE quantity # 0
    BY <2>2, <1>4
  <2> QED BY <2>1, <2>2
<1>6. Keeps(m, WithOrders(m, side, (orders(m, side) \ {x})
                \cup (IF quantity = 0 THEN {} ELSE {y})))
  BY <1>5, Orders
<1> QED BY <1>6 DEF LeaveQuantity

LEMMA InsertLeafKeeps ==
  ASSUME NEW m, AccountsOK(m), NEW side \in Side, NEW r \in NewOrderRequest,
         NEW quantity \in Nat
  PROVE  Keeps(m, insert_leaf(m, side, r, quantity))
<1> DEFINE leaf  == [id |-> r.id, owner |-> r.owner, owner_slot |-> r.owner_slot,
                     quantity |-> quantity, fee_tier |-> r.fee_tier,
                     client_id |-> r.client_id]
           book  == orders(m, side)
           worst == LeastAggressive(m, side)
<1>1. leaf \in Leaf
  BY DEF Leaf, NewOrderRequest
<1>2. IsBook(book)
  <2>1. IsBook({})
    BY FS_EmptySet, MatchingAssumption DEF IsBook
  <2> QED BY <2>1, Orders
<1>3. Cardinality(book) \in Nat /\ BookCap \in Nat \ {0}
  BY <1>2, FS_CardinalityType, MatchingAssumption DEF IsBook
<1>4. CASE Cardinality(book) < BookCap
  <2>1. /\ IsFiniteSet(book \cup {leaf})
        /\ Cardinality(book \cup {leaf}) <= BookCap
    <3>1. /\ IsFiniteSet(book \cup {leaf})
          /\ Cardinality(book \cup {leaf}) =
               IF leaf \in book THEN Cardinality(book) ELSE Cardinality(book) + 1
      <4> HIDE DEF leaf, book
      <4> QED BY <1>2, FS_AddElement DEF IsBook
    <3> HIDE DEF leaf, book
    <3> QED BY <3>1, <1>3, <1>4
  <2>2. IsBook(book \cup {leaf})
    <3> HIDE DEF leaf, book
    <3> QED BY <2>1, <1>1, <1>2 DEF IsBook
  <2>3. Keeps(m, WithOrders(m, side, book \cup {leaf}))
    BY <2>2, Orders
  <2> QED BY <2>3, <1>4 DEF insert_leaf
<1>5. CASE ~(Cardinality(book) < BookCap)
  <2>1. book # {}
    BY <1>3, <1>5, FS_EmptySet
  <2>2. worst \in book
    BY <2>1, <1>2, BestExists DEF LeastAggressive, orders
  <2>3. IsBook((book \ {worst}) \cup {leaf})
    <3> HIDE DEF leaf, book, worst
    <3> QED BY <1>1, <1>2, <2>2, ReplaceLeaf
  <2> DEFINE n == WithOrders(m, side, (book \ {worst}) \cup {leaf})
             e == OutEvent(side, worst,
                    NativeLocked(side, worst.quantity, worst.id.price), 0)
  <2>4. Keeps(m, n)
    BY <2>3, Orders
  <2>5. worst \in Leaf
    BY <2>2, <1>2 DEF IsBook
  <2>6. e \in Event
    <3> HIDE DEF worst
    <3>1. NativeLocked(side, worst.quantity, worst.id.price) \in Int
      BY <2>5, LeafFields, NativeType
    <3> QED BY <3>1, <2>5, LeafFields, OutEventType
  <2>7. KeepsOrders(n, push_back(n, <<e>>))
    <3> HIDE DEF n, e
    <3> QED BY <2>4, <2>6, PushOne DEF Keeps, KeepsBooks
  <2>8. Keeps(m, push_back(n, <<e>>))
    <3> HIDE DEF n, e
    <3> QED BY <2>4, <2>7 DEF Keeps, KeepsBooks, KeepsOrders
  <2> QED BY <2>8, <1>5 DEF insert_leaf
<1> QED BY <1>4, <1>5

-----------------------------------------------------------------------------
(* The money and the request queue                                         *)

\* What a fee takes off the deposits it adds to the fees and the rebates.
LEMMA AccruedBooks ==
  ASSUME NEW mkt \in MarketRec, NEW fee \in Int, NEW rebates \in Int
  PROVE  /\ Accrued(mkt, fee, rebates) \in MarketRec
         /\ PcBooks(Accrued(mkt, fee, rebates)) = PcBooks(mkt)
         /\ CoinBooks(Accrued(mkt, fee, rebates)) = CoinBooks(mkt)
<1> DEFINE referrer == referrer_rebate(fee)
           rebates_accrued == mkt.referrer_rebates_accrued + referrer
           fees_accrued == mkt.pc_fees_accrued + ((fee - rebates) - referrer)
           deposits == mkt.pc_deposits_total - (fee - rebates)
           new == [mkt EXCEPT !.referrer_rebates_accrued = rebates_accrued,
                              !.pc_fees_accrued = fees_accrued,
                              !.pc_deposits_total = deposits]
<1>1. referrer \in Int
  BY DEF referrer_rebate
<1>2. Accrued(mkt, fee, rebates) = new
  BY DEF Accrued
<1>3. /\ mkt.pc_deposits_total \in Int /\ mkt.pc_fees_accrued \in Int
      /\ mkt.referrer_rebates_accrued \in Int
  BY DEF MarketRec
<1>4. /\ rebates_accrued \in Int /\ fees_accrued \in Int /\ deposits \in Int
      /\ deposits + fees_accrued + rebates_accrued
           = mkt.pc_deposits_total + mkt.pc_fees_accrued
               + mkt.referrer_rebates_accrued
  <2> HIDE DEF referrer
  <2> QED BY <1>1, <1>3
<1>5. /\ new \in MarketRec
      /\ new.coin_deposits_total = mkt.coin_deposits_total
      /\ new.referrer_rebates_accrued = rebates_accrued
      /\ new.pc_fees_accrued = fees_accrued
      /\ new.pc_deposits_total = deposits
  <2> HIDE DEF rebates_accrued, fees_accrued, deposits
  <2> QED BY <1>4 DEF MarketRec
<1> HIDE DEF new, rebates_accrued, fees_accrued, deposits
<1> QED BY <1>2, <1>4, <1>5 DEF PcBooks, CoinBooks

LEMMA AccrueFeesKeeps ==
  ASSUME NEW m, AccountsOK(m), NEW fee \in Int, NEW rebates \in Int
  PROVE  KeepsOrders(m, AccrueFees(m, fee, rebates))
<1>1. m.market \in MarketRec
  BY DEF AccountsOK, Accounts
<1> DEFINE new == Accrued(m.market, fee, rebates)
<1>2. /\ new \in MarketRec
      /\ PcBooks(new) = PcBooks(m.market) /\ CoinBooks(new) = CoinBooks(m.market)
  BY <1>1, AccruedBooks
<1>3. AccrueFees(m, fee, rebates) = [m EXCEPT !.market = new]
  BY DEF AccrueFees
<1> HIDE DEF new
<1> QED BY <1>2, <1>3 DEF KeepsOrders, Keeps, KeepsBooks, AccountsOK, Accounts

LEMMA PopFrontKeeps ==
  ASSUME NEW m, AccountsOK(m), m.req_q # <<>>
  PROVE  KeepsBooks(m, pop_front(m))
<1>1. /\ Tail(m.req_q) \in Seq(Request)
      /\ Len(Tail(m.req_q)) = Len(m.req_q) - 1
  BY HeadTailProperties DEF AccountsOK, Accounts
<1>2. Len(m.req_q) \in Nat /\ ReqCap \in Nat
  BY LenProperties, MarketAssumption DEF AccountsOK, Accounts, Positive
<1>3. Len(Tail(m.req_q)) <= ReqCap
  BY <1>1, <1>2 DEF AccountsOK
<1> QED BY <1>1, <1>3 DEF pop_front, KeepsBooks, AccountsOK, Accounts

LEMMA RemainingKeeps ==
  ASSUME NEW m, AccountsOK(m), m.req_q # <<>>, m.req_q[1] \in NewOrderRequest,
         NEW coin_qty \in Nat, NEW native_pc \in Int
  PROVE  KeepsBooks(m, Remaining(m, coin_qty, native_pc))
<1> DEFINE r == [m.req_q[1] EXCEPT !.max_coin_qty = coin_qty,
                                   !.native_pc_qty_locked = native_pc]
           q == [m.req_q EXCEPT ![1] = r]
<1>1. r \in Request
  BY DEF NewOrderRequest, Request
<1>2. m.req_q \in Seq(Request) /\ 1 \in 1 .. Len(m.req_q)
  BY EmptySeq, LenProperties DEF AccountsOK, Accounts
<1>3. q \in Seq(Request) /\ Len(q) = Len(m.req_q)
  <2> HIDE DEF r
  <2> QED BY <1>1, <1>2, ExceptSeq
<1>4. Remaining(m, coin_qty, native_pc) = [m EXCEPT !.req_q = q]
  BY <1>2 DEF Remaining, AccountsOK, Accounts, NewOrderRequest
<1> HIDE DEF q
<1> QED BY <1>3, <1>4 DEF KeepsBooks, AccountsOK, Accounts

-----------------------------------------------------------------------------
(* The parts of a pass                                                     *)

LEMMA Transitive ==
  ASSUME NEW m, NEW n, NEW p, Keeps(m, n)
  PROVE  /\ Keeps(n, p) => Keeps(m, p)
         /\ KeepsOrders(n, p) => Keeps(m, p)
         /\ KeepsBooks(n, p) => KeepsBooks(m, p)
         /\ AccountsOK(n) /\ n.req_q = m.req_q
  BY DEF KeepsOrders, Keeps, KeepsBooks

LEMMA OrderFields ==
  ASSUME NEW r \in NewOrderRequest
  PROVE  /\ Identified(r) /\ r.max_coin_qty \in Nat
         /\ r.native_pc_qty_locked \in Int /\ r.fee_tier \in FeeTier
         /\ r.side \in Side /\ r.id.price \in Positive
         /\ Opposite(r.side) \in Side
         /\ r.side = "Bid" => PcLot \in Nat \ {0}
  BY MarketAssumption, MatchingAssumption
     DEF NewOrderRequest, AcceptedSide, Identified, OrderId, Opposite, Side

\* A resting order, its fields, and that it is still there after what does not
\* touch the book.
LEMMA Maker ==
  ASSUME NEW m, AccountsOK(m), NEW side \in Side, NEW maker \in orders(m, side)
  PROVE  /\ maker \in Leaf
         /\ \A n : KeepsOrders(m, n) => maker \in orders(n, side)
<1>1. maker \in Leaf
  BY DEF orders, AccountsOK, Accounts
<1>2. \A n : KeepsOrders(m, n) => maker \in orders(n, side)
  BY DEF KeepsOrders, orders
<1> QED BY <1>1, <1>2

LEMMA ProvideOutKeeps ==
  ASSUME NEW m, AccountsOK(m), NEW r \in NewOrderRequest,
         NEW maker \in orders(m, Opposite(r.side)),
         NEW trade_qty \in Int, trade_qty <= maker.quantity
  PROVE  Keeps(m, ProvideOut(m, r, maker, trade_qty))
<1> DEFINE side == Opposite(r.side)
           price == maker.id.price
           taken == CancelledProvide(r, maker, trade_qty)
           left == maker.quantity - taken
           e == OutEvent(side, maker, NativeLocked(side, taken, price),
                         NativeLocked(side, left, price))
           n == push_back(m, <<e>>)
<1>1. side \in Side
  BY OrderFields
<1>2. maker \in Leaf /\ maker.quantity \in Nat /\ price \in Positive
  BY <1>1, Maker, LeafFields
<1>3. taken \in Int /\ left \in Nat
  BY <1>2 DEF CancelledProvide
<1>4. e \in Event
  <2>1. NativeLocked(side, taken, price) \in Int /\ NativeLocked(side, left, price) \in Int
    <3> HIDE DEF side, price, taken, left
    <3> QED BY <1>1, <1>2, <1>3, NativeType
  <2> HIDE DEF side, price, taken, left
  <2> QED BY <1>1, <1>2, <2>1, LeafFields, OutEventType
<1>5. KeepsOrders(m, n)
  <2> HIDE DEF e
  <2> QED BY <1>4, PushOne
<1>6. maker \in orders(n, side)
  <2> HIDE DEF n
  <2> QED BY <1>1, <1>5, Maker
<1>7. Keeps(n, LeaveQuantity(n, side, maker, left))
  <2> HIDE DEF n, left, side
  <2> QED BY <1>1, <1>3, <1>5, <1>6, LeaveQuantityKeeps
        DEF KeepsOrders, Keeps, KeepsBooks
<1>8. ProvideOut(m, r, maker, trade_qty) = LeaveQuantity(n, side, maker, left)
  BY DEF ProvideOut
<1> HIDE DEF n
<1> QED BY <1>5, <1>7, <1>8, Transitive DEF KeepsOrders

\* The fills of a trade, and the Out of a maker that is filled completely.
LEMMA TradeEventsType ==
  ASSUME NEW r \in NewOrderRequest, NEW maker \in Leaf, NEW trade_qty \in Int,
         NEW native_pc \in Int, NEW fee \in Int, NEW rebate \in Int
  PROVE  TradeEvents(r, maker, trade_qty, native_pc, fee, rebate) \in Seq(Event)
<1> DEFINE side == Opposite(r.side)
           events == TradeEvents(r, maker, trade_qty, native_pc, fee, rebate)
           a == FillEvent(side, TRUE, maker, trade_qty, native_pc, rebate)
           b == OutEvent(side, maker, 0, 0)
           c == FillEvent(r.side, FALSE, r, trade_qty, native_pc, fee)
<1>0. side \in Side /\ r.side \in Side /\ Identified(r) /\ Identified(maker)
  BY OrderFields, LeafFields
<1>1. a \in Event /\ b \in Event /\ c \in Event
  <2> HIDE DEF side
  <2>1. TRUE \in BOOLEAN /\ FALSE \in BOOLEAN /\ 0 \in Int
    OBVIOUS
  <2>2. a \in Event
    BY <1>0, <2>1, FillEventType, Zenon
  <2>3. b \in Event
    BY <1>0, <2>1, OutEventType, Zenon
  <2>4. c \in Event
    BY <1>0, <2>1, FillEventType, Zenon
  <2> QED BY <2>2, <2>3, <2>4
<1>2. events = <<a>> \o (IF trade_qty = maker.quantity THEN <<b>> ELSE <<>>)
               \o <<c>>
  BY DEF TradeEvents
<1> HIDE DEF a, b, c, events
<1>3. /\ <<a>> \in Seq(Event) /\ <<b>> \in Seq(Event) /\ <<c>> \in Seq(Event)
      /\ <<>> \in Seq(Event)
  BY <1>1
<1>4. \A u, v, w \in Seq(Event) : u \o v \o w \in Seq(Event)
  BY ConcatProperties
<1>5. events \in Seq(Event)
  BY <1>2, <1>3, <1>4
<1> QED BY <1>5 DEF events

LEMMA TradeKeeps ==
  ASSUME NEW m, AccountsOK(m), NEW r \in NewOrderRequest,
         NEW maker \in orders(m, Opposite(r.side)),
         NEW trade_qty \in Int, trade_qty <= maker.quantity
  PROVE  Keeps(m, Trade(m, r, maker, trade_qty))
<1> DEFINE side == Opposite(r.side)
           native_pc == trade_qty * maker.id.price * PcLot
           fee == taker_fee(r.fee_tier, native_pc)
           rebate == maker_rebate(maker.fee_tier, native_pc)
           events == TradeEvents(r, maker, trade_qty, native_pc, fee, rebate)
           n == push_back(m, events)
           p == AccrueFees(n, fee, rebate)
<1>1. side \in Side /\ r.side \in Side /\ Identified(r)
  BY OrderFields
<1>2. maker \in Leaf /\ maker.quantity \in Nat /\ Identified(maker)
  BY <1>1, Maker, LeafFields
<1>3. native_pc \in Int
  BY <1>1, <1>2, LeafFields, NativeType
<1>4. fee \in Int /\ rebate \in Int
  <2> HIDE DEF native_pc
  <2> QED BY <1>2, <1>3, OrderFields, LeafFields, FeeTypesOf
<1> HIDE DEF native_pc, fee, rebate
<1>5. events \in Seq(Event)
  BY <1>2, <1>3, <1>4, TradeEventsType
<1> HIDE DEF events
<1>6. KeepsOrders(m, n)
  BY <1>5, PushBack
<1>7. KeepsOrders(n, p)
  <2> HIDE DEF n
  <2> QED BY <1>4, <1>6, AccrueFeesKeeps DEF KeepsOrders, Keeps, KeepsBooks
<1> HIDE DEF n, p
<1>8. KeepsOrders(m, p)
  BY <1>6, <1>7 DEF KeepsOrders, Keeps, KeepsBooks
<1>9. maker \in orders(p, side) /\ maker.quantity - trade_qty \in Nat
  <2>1. maker \in orders(m, side)
    OBVIOUS
  <2> HIDE DEF side
  <2> QED BY <1>1, <1>2, <1>8, <2>1, Maker
<1>10. Keeps(p, LeaveQuantity(p, side, maker, maker.quantity - trade_qty))
  <2> HIDE DEF side
  <2> QED BY <1>1, <1>8, <1>9, LeaveQuantityKeeps DEF KeepsOrders, Keeps, KeepsBooks
<1>11. Trade(m, r, maker, trade_qty)
         = LeaveQuantity(p, side, maker, maker.quantity - trade_qty)
  BY DEF Trade, native_pc, fee, rebate, events, n, p
<1> QED BY <1>8, <1>10, <1>11, Transitive DEF KeepsOrders

-----------------------------------------------------------------------------
(* The passes                                                              *)

AtFront(m, r) ==
  AccountsOK(m) /\ m.req_q # <<>> /\ m.req_q[1] = r /\ r \in NewOrderRequest

\* The ways a pass ends.
LEMMA Endings ==
  ASSUME NEW m, NEW r, AtFront(m, r), NEW n, Keeps(m, n)
  PROVE  /\ KeepsBooks(m, pop_front(n))
         /\ \A coin_qty \in Nat, native_pc \in Int :
              KeepsBooks(m, Remaining(n, coin_qty, native_pc))
         /\ \A e \in Event : Keeps(m, push_back(n, <<e>>))
<1>1. AccountsOK(n) /\ n.req_q # <<>> /\ n.req_q[1] \in NewOrderRequest
  BY DEF AtFront, Keeps, KeepsBooks
<1>2. KeepsBooks(n, pop_front(n))
  BY <1>1, PopFrontKeeps
<1>3. \A coin_qty \in Nat, native_pc \in Int :
        KeepsBooks(n, Remaining(n, coin_qty, native_pc))
  BY <1>1, RemainingKeeps
<1>4. \A e \in Event : KeepsOrders(n, push_back(n, <<e>>))
  BY <1>1, PushOne
<1> QED BY <1>2, <1>3, <1>4, Transitive

LEMMA AskSelfTradeKeeps ==
  ASSUME NEW m, NEW r, AtFront(m, r), r.side = "Ask", NEW bid \in orders(m, "Bid"),
         NEW trade_qty \in Int, trade_qty <= bid.quantity,
         trade_qty <= r.max_coin_qty
  PROVE  KeepsBooks(m, AskSelfTrade(m, r, bid, trade_qty))
<1> DEFINE taken == CancelledTake(r, trade_qty)
           unfilled == r.max_coin_qty - taken
           e == OutEvent("Ask", r, taken * CoinLot, unfilled)
           n == ProvideOut(m, r, bid, trade_qty)
           out == push_back(n, <<e>>)
<1>1. /\ r \in NewOrderRequest /\ Identified(r) /\ r.max_coin_qty \in Nat
      /\ AccountsOK(m) /\ Opposite(r.side) = "Bid"
  BY OrderFields DEF AtFront, Opposite
<1>2. taken \in Int /\ unfilled \in Nat
  BY <1>1 DEF CancelledTake
<1>3. e \in Event
  <2>1. "Ask" \in Side /\ taken * CoinLot \in Int /\ unfilled \in Int
    <3> HIDE DEF taken, unfilled
    <3> QED BY <1>2, MatchingAssumption DEF Side
  <2> HIDE DEF taken, unfilled
  <2> QED BY <1>1, <2>1, OutEventType
<1>4. Keeps(m, n)
  BY <1>1, ProvideOutKeeps
<1> HIDE DEF e, n
<1>5. Keeps(m, out)
  BY <1>3, <1>4, Endings
<1>6. AskSelfTrade(m, r, bid, trade_qty)
        = IF unfilled = 0 THEN pop_front(out) ELSE Remaining(out, unfilled, 0)
  BY DEF AskSelfTrade, e, n
<1> HIDE DEF out, unfilled
<1> QED BY <1>2, <1>5, <1>6, Endings

LEMMA AskTradeKeeps ==
  ASSUME NEW m, NEW r, AtFront(m, r), r.side = "Ask", NEW bid \in orders(m, "Bid"),
         NEW trade_qty \in Int, trade_qty <= bid.quantity,
         trade_qty <= r.max_coin_qty
  PROVE  KeepsBooks(m, AskTrade(m, r, bid, trade_qty))
<1> DEFINE unfilled == r.max_coin_qty - trade_qty
           n == Trade(m, r, bid, trade_qty)
           e == OutEvent("Ask", r, 0, 0)
           out == push_back(n, <<e>>)
<1>1. /\ r \in NewOrderRequest /\ Identified(r) /\ r.max_coin_qty \in Nat
      /\ AccountsOK(m) /\ Opposite(r.side) = "Bid"
  BY OrderFields DEF AtFront, Opposite
<1>2. unfilled \in Nat
  BY <1>1
<1>3. e \in Event
  BY <1>1, OutEventType DEF Side
<1>4. Keeps(m, n)
  BY <1>1, TradeKeeps
<1> HIDE DEF e, n
<1>5. Keeps(m, out)
  BY <1>3, <1>4, Endings
<1>6. AskTrade(m, r, bid, trade_qty)
        = IF unfilled = 0 THEN pop_front(out) ELSE Remaining(n, unfilled, 0)
  BY DEF AskTrade, e, n
<1> HIDE DEF out, unfilled
<1> QED BY <1>2, <1>4, <1>5, <1>6, Endings

LEMMA AskRestKeeps ==
  ASSUME NEW m, NEW r, AtFront(m, r), r.side = "Ask", NEW crossed
  PROVE  KeepsBooks(m, AskRest(m, r, crossed))
<1> DEFINE e == OutEvent("Ask", r, r.max_coin_qty * CoinLot, 0)
           rests == post_allowed(r) /\ ~crossed /\ r.max_coin_qty > 0
           put == insert_leaf(m, "Ask", r, r.max_coin_qty)
           out == push_back(m, <<e>>)
<1>1. /\ r \in NewOrderRequest /\ Identified(r) /\ r.max_coin_qty \in Nat
      /\ AccountsOK(m) /\ "Ask" \in Side
  BY OrderFields DEF AtFront, Side
<1>2. Keeps(m, put)
  BY <1>1, InsertLeafKeeps
<1>3. e \in Event
  <2>1. r.max_coin_qty * CoinLot \in Int
    BY <1>1, MatchingAssumption
  <2> QED BY <1>1, <2>1, OutEventType
<1>4. Keeps(m, out)
  <2>1. Keeps(m, m)
    BY <1>1 DEF Keeps, KeepsBooks
  <2> HIDE DEF e
  <2> QED BY <1>3, <2>1, Endings
<1>5. AskRest(m, r, crossed) = pop_front(IF rests THEN put ELSE out)
  BY DEF AskRest
<1> HIDE DEF put, out, rests
<1> QED BY <1>2, <1>4, <1>5, Endings

LEMMA NewAskKeeps ==
  ASSUME NEW m, NEW r, AtFront(m, r), r.side = "Ask"
  PROVE  KeepsBooks(m, new_ask(m, r))
<1> DEFINE bid       == find_bbo(m, "Bid")
           crossed   == m.bids # {} /\ r.id.price <= bid.id.price
           trade_qty == Least(bid.quantity, r.max_coin_qty)
<1>1. KeepsBooks(m, AskRest(m, r, crossed))
  BY AskRestKeeps
<1>2. ASSUME m.bids # {}
      PROVE  /\ KeepsBooks(m, AskSelfTrade(m, r, bid, trade_qty))
             /\ KeepsBooks(m, AskTrade(m, r, bid, trade_qty))
  <2>1. bid \in orders(m, "Bid")
    BY <1>2, BestExists DEF find_bbo, orders, AtFront, AccountsOK
  <2>2. bid.quantity \in Nat /\ r.max_coin_qty \in Nat
    BY <2>1, Maker, LeafFields, OrderFields DEF AtFront, Side
  <2>3. /\ trade_qty \in Int /\ trade_qty <= bid.quantity
        /\ trade_qty <= r.max_coin_qty
    BY <2>2, LeastOfTwo
  <2> HIDE DEF bid, trade_qty
  <2> QED BY <2>1, <2>3, AskSelfTradeKeeps, AskTradeKeeps
<1> DEFINE rest == AskRest(m, r, crossed)
           self == AskSelfTrade(m, r, bid, trade_qty)
           trade == AskTrade(m, r, bid, trade_qty)
<1>3. new_ask(m, r) = IF ~crossed \/ post_only(r) \/ trade_qty = 0 THEN rest
                      ELSE IF r.owner = bid.owner THEN self ELSE trade
  BY DEF new_ask
<1>4. crossed => m.bids # {}
  OBVIOUS
<1> HIDE DEF rest, self, trade, bid, crossed, trade_qty
<1>5. new_ask(m, r) = rest \/ (crossed /\ new_ask(m, r) \in {self, trade})
  BY <1>3
<1> USE DEF rest, self, trade
<1> QED BY <1>1, <1>2, <1>4, <1>5

LEMMA BidSelfTradeKeeps ==
  ASSUME NEW m, NEW r, AtFront(m, r), r.side = "Bid", NEW ask \in orders(m, "Ask"),
         NEW trade_qty \in Int, trade_qty <= ask.quantity,
         trade_qty <= r.max_coin_qty
  PROVE  KeepsBooks(m, BidSelfTrade(m, r, ask, trade_qty))
<1> DEFINE taken == CancelledTake(r, trade_qty)
           coin == r.max_coin_qty - taken
           unlocked == taken * ask.id.price * PcLot
           locked == r.native_pc_qty_locked - unlocked
           e == OutEvent("Bid", r, unlocked, locked)
           f == OutEvent("Bid", r, r.native_pc_qty_locked, 0)
           n == ProvideOut(m, r, ask, trade_qty)
           some == push_back(n, <<e>>)
           all == push_back(n, <<f>>)
<1>1. /\ r \in NewOrderRequest /\ Identified(r) /\ r.max_coin_qty \in Nat
      /\ r.native_pc_qty_locked \in Int
      /\ AccountsOK(m) /\ Opposite(r.side) = "Ask" /\ "Bid" \in Side
  BY OrderFields DEF AtFront, Opposite, Side
<1>2. ask.id.price \in Positive
  BY <1>1, Maker, LeafFields DEF Side
<1>3. taken \in Int /\ coin \in Nat
  BY <1>1 DEF CancelledTake
<1>4. unlocked \in Int /\ locked \in Int
  <2>1. unlocked \in Int
    <3> HIDE DEF taken
    <3> QED BY <1>1, <1>2, <1>3, NativeType
  <2> HIDE DEF unlocked
  <2> QED BY <2>1, <1>1
<1>5. e \in Event /\ f \in Event
  <2> HIDE DEF unlocked, locked
  <2> QED BY <1>1, <1>4, OutEventType
<1>6. Keeps(m, n)
  BY <1>1, ProvideOutKeeps
<1> HIDE DEF e, f, n
<1>7. Keeps(m, some) /\ Keeps(m, all)
  BY <1>5, <1>6, Endings
<1>8. BidSelfTrade(m, r, ask, trade_qty)
        = IF coin # 0 /\ locked # 0 THEN Remaining(some, coin, locked)
                                    ELSE pop_front(all)
  BY DEF BidSelfTrade, e, f, n
<1> HIDE DEF some, all, coin, locked
<1> QED BY <1>3, <1>4, <1>7, <1>8, Endings

LEMMA BidTradeKeeps ==
  ASSUME NEW m, NEW r, AtFront(m, r), r.side = "Bid", NEW ask \in orders(m, "Ask"),
         NEW trade_qty \in Int, trade_qty <= ask.quantity,
         trade_qty <= r.max_coin_qty
  PROVE  KeepsBooks(m, BidTrade(m, r, ask, trade_qty))
<1> DEFINE native_pc == trade_qty * ask.id.price * PcLot
           fee == taker_fee(r.fee_tier, native_pc)
           coin == r.max_coin_qty - trade_qty
           locked == r.native_pc_qty_locked - native_pc - fee
           e == OutEvent("Bid", r, locked, 0)
           n == Trade(m, r, ask, trade_qty)
           out == push_back(n, <<e>>)
<1>1. /\ r \in NewOrderRequest /\ Identified(r) /\ r.max_coin_qty \in Nat
      /\ r.native_pc_qty_locked \in Int /\ r.fee_tier \in FeeTier
      /\ AccountsOK(m) /\ Opposite(r.side) = "Ask" /\ "Bid" \in Side
  BY OrderFields DEF AtFront, Opposite, Side
<1>2. ask.id.price \in Positive
  BY <1>1, Maker, LeafFields DEF Side
<1>3. coin \in Nat
  BY <1>1
<1>4. native_pc \in Int
  BY <1>1, <1>2, NativeType
<1>5. fee \in Int
  <2> HIDE DEF native_pc
  <2> QED BY <1>1, <1>4, FeeTypesOf
<1>6. locked \in Int
  <2> HIDE DEF native_pc, fee
  <2> QED BY <1>1, <1>4, <1>5
<1>7. e \in Event
  <2> HIDE DEF locked
  <2> QED BY <1>1, <1>6, OutEventType
<1>8. Keeps(m, n)
  BY <1>1, TradeKeeps
<1>9. BidTrade(m, r, ask, trade_qty)
        = IF coin # 0 /\ locked # 0 THEN Remaining(n, coin, locked)
                                    ELSE pop_front(out)
  BY DEF BidTrade
<1> HIDE DEF e, n
<1>10. Keeps(m, out)
  BY <1>7, <1>8, Endings
<1> HIDE DEF out, coin, locked
<1> QED BY <1>3, <1>6, <1>8, <1>9, <1>10, Endings

\* A positive product of a number and a positive one has a positive factor.
LEMMA PositiveFactor ==
  ASSUME NEW x \in Int, NEW price \in Positive, x * price * PcLot > 0
  PROVE  x \in Nat
<1>1. PcLot \in Nat \ {0} /\ price \in Nat \ {0}
  BY MatchingAssumption DEF Positive
<1>2. x * price > 0
  BY <1>1
<1> QED BY <1>1, <1>2

LEMMA BidRestKeeps ==
  ASSUME NEW m, NEW r, AtFront(m, r), r.side = "Bid", NEW crossed
  PROVE  KeepsBooks(m, BidRest(m, r, crossed))
<1> DEFINE price == r.id.price
           posted == (r.native_pc_qty_locked \div PcLot) \div price
           to_post == IF post_allowed(r) /\ ~crossed
                      THEN Least(r.max_coin_qty, posted) ELSE 0
           keep == to_post * price * PcLot
           e == OutEvent("Bid", r, r.native_pc_qty_locked - keep, keep)
           out == push_back(m, <<e>>)
           put == insert_leaf(out, "Bid", r, to_post)
<1>1. /\ r \in NewOrderRequest /\ Identified(r) /\ r.max_coin_qty \in Nat
      /\ r.native_pc_qty_locked \in Int /\ price \in Positive
      /\ AccountsOK(m) /\ "Bid" \in Side /\ PcLot \in Nat \ {0}
  BY OrderFields DEF AtFront, Side
<1>2. posted \in Int
  <2>1. PcLot \in Nat \ {0} /\ price \in Nat \ {0}
    BY <1>1 DEF Positive
  <2>2. r.native_pc_qty_locked \div PcLot \in Int
    BY <1>1, <2>1, Quotient
  <2> HIDE DEF price
  <2> QED BY <2>1, <2>2, Quotient
<1>3. to_post \in Int
  <2> HIDE DEF posted
  <2> QED BY <1>1, <1>2, LeastOfTwo
<1>4. keep \in Int /\ (keep > 0 => to_post \in Nat)
  <2> HIDE DEF to_post, price
  <2> QED BY <1>1, <1>3, NativeType, PositiveFactor
<1>5. e \in Event
  <2> HIDE DEF keep
  <2>1. r.native_pc_qty_locked - keep \in Int
    BY <1>1, <1>4
  <2> QED BY <1>1, <1>4, <2>1, OutEventType
<1>6. Keeps(m, m)
  BY <1>1 DEF Keeps, KeepsBooks
<1>7. Keeps(m, out)
  <2> HIDE DEF e
  <2> QED BY <1>5, <1>6, Endings
<1>8. keep > 0 => Keeps(m, put)
  <2> SUFFICES ASSUME keep > 0 PROVE Keeps(m, put)
    OBVIOUS
  <2>1. to_post \in Nat
    BY <1>4
  <2> HIDE DEF out, to_post, keep
  <2>2. Keeps(out, put)
    BY <1>1, <1>7, <2>1, InsertLeafKeeps DEF Keeps, KeepsBooks
  <2> HIDE DEF put
  <2> QED BY <1>7, <2>2, Transitive
<1>9. BidRest(m, r, crossed) = pop_front(IF keep > 0 THEN put ELSE out)
  BY DEF BidRest
<1> HIDE DEF keep, put, out
<1> QED BY <1>7, <1>8, <1>9, Endings

LEMMA NewBidKeeps ==
  ASSUME NEW m, NEW r, AtFront(m, r), r.side = "Bid"
  PROVE  KeepsBooks(m, new_bid(m, r))
<1> DEFINE ask        == find_bbo(m, "Ask")
           max_pc_qty == remove_taker_fee(r.fee_tier, r.native_pc_qty_locked)
                           \div PcLot
           crossed    == m.asks # {} /\ r.id.price >= ask.id.price
           pays       == max_pc_qty \div ask.id.price
           trade_qty  == Least(Least(ask.quantity, r.max_coin_qty), pays)
           rest       == BidRest(m, r, crossed)
           self       == BidSelfTrade(m, r, ask, trade_qty)
           trade      == BidTrade(m, r, ask, trade_qty)
<1>1. KeepsBooks(m, rest)
  BY BidRestKeeps
<1>2. ASSUME m.asks # {}
      PROVE  KeepsBooks(m, self) /\ KeepsBooks(m, trade)
  <2>1. ask \in orders(m, "Ask")
    BY <1>2, BestExists DEF find_bbo, orders, AtFront, AccountsOK
  <2>2. ask.quantity \in Nat /\ ask.id.price \in Positive
    BY <2>1, Maker, LeafFields DEF AtFront, Side
  <2>3. /\ r.max_coin_qty \in Nat
        /\ remove_taker_fee(r.fee_tier, r.native_pc_qty_locked) \in Int
        /\ PcLot \in Nat \ {0}
    BY OrderFields, FeeTypesOf DEF AtFront
  <2>4. max_pc_qty \in Int
    BY <2>3, Quotient
  <2>5. pays \in Int
    <3> HIDE DEF max_pc_qty, ask
    <3> QED BY <2>2, <2>4, Quotient DEF Positive
  <2>6. /\ trade_qty \in Int /\ trade_qty <= ask.quantity
        /\ trade_qty <= r.max_coin_qty
    <3> HIDE DEF pays, ask
    <3>1. /\ Least(ask.quantity, r.max_coin_qty) \in Int
          /\ Least(ask.quantity, r.max_coin_qty) <= ask.quantity
          /\ Least(ask.quantity, r.max_coin_qty) <= r.max_coin_qty
      BY <2>2, <2>3, LeastOfTwo
    <3>2. /\ trade_qty \in Int
          /\ trade_qty <= Least(ask.quantity, r.max_coin_qty)
      BY <2>5, <3>1, LeastOfTwo
    <3> HIDE DEF trade_qty
    <3> QED BY <2>2, <2>3, <3>1, <3>2
  <2> HIDE DEF ask, trade_qty
  <2> QED BY <2>1, <2>6, BidSelfTradeKeeps, BidTradeKeeps
<1>3. new_bid(m, r) = IF ~crossed \/ post_only(r) \/ trade_qty = 0 THEN rest
                      ELSE IF r.owner = ask.owner THEN self ELSE trade
  BY DEF new_bid
<1>4. crossed => m.asks # {}
  OBVIOUS
<1> HIDE DEF rest, self, trade, ask, crossed, trade_qty
<1> QED BY <1>1, <1>2, <1>3, <1>4

LEMMA CancelKeeps ==
  ASSUME NEW m, AccountsOK(m), NEW r \in CancelRequest
  PROVE  Keeps(m, cancel_order(m, r))
<1> DEFINE book  == orders(m, r.side)
           found == {x \in book : x.id = r.id /\ x.owner = r.owner
                                  /\ x.owner_slot = r.owner_slot}
           leaf  == CHOOSE x \in found : TRUE
           e     == OutEvent(r.side, leaf,
                      NativeLocked(r.side, leaf.quantity, leaf.id.price), 0)
           n     == WithOrders(m, r.side, book \ {leaf})
<1>1. r.side \in Side
  BY DEF CancelRequest
<1>2. IsBook(book)
  <2>1. IsBook({})
    BY FS_EmptySet, MatchingAssumption DEF IsBook
  <2> QED BY <1>1, <2>1, Orders
<1>3. CASE found = {}
  BY <1>3 DEF cancel_order, Keeps, KeepsBooks
<1>4. CASE found # {}
  <2>1. leaf \in book
    BY <1>4
  <2>2. leaf \in Leaf
    <3> HIDE DEF leaf, book
    <3> QED BY <2>1, <1>2 DEF IsBook
  <2>3. IsBook(book \ {leaf})
    <3> HIDE DEF leaf, book
    <3> QED BY <2>1, <2>2, <1>2, ReplaceLeaf
  <2>4. e \in Event
    <3> HIDE DEF leaf
    <3>1. NativeLocked(r.side, leaf.quantity, leaf.id.price) \in Int
      BY <1>1, <2>2, LeafFields, NativeType
    <3> QED BY <1>1, <2>2, <3>1, LeafFields, OutEventType
  <2>5. Keeps(m, n)
    <3> HIDE DEF leaf, book
    <3> QED BY <1>1, <2>3, Orders
  <2>6. cancel_order(m, r) = push_back(n, <<e>>)
    BY <1>4 DEF cancel_order
  <2> HIDE DEF e, n
  <2>7. KeepsOrders(n, push_back(n, <<e>>))
    BY <2>4, <2>5, PushOne DEF Keeps, KeepsBooks
  <2> QED BY <2>5, <2>6, <2>7, Transitive
<1> QED BY <1>3, <1>4

\* One unit of the limit.
LEMMA ProcessRequestKeeps ==
  ASSUME NEW m, AccountsOK(m), m.req_q # <<>>
  PROVE  KeepsBooks(m, process_orderbook_request(m))
<1> DEFINE r == Head(m.req_q)
<1>1. r = m.req_q[1] /\ r \in Request
  BY HeadTailProperties, ElementOfSeq, EmptySeq DEF AccountsOK, Accounts
<1> HIDE DEF r
<1>2. CASE r.kind = "CancelOrder"
  <2>1. r \in CancelRequest
    BY <1>1, <1>2 DEF Request, NewOrderRequest
  <2>2. Keeps(m, cancel_order(m, r))
    BY <2>1, CancelKeeps
  <2>3. KeepsBooks(cancel_order(m, r), pop_front(cancel_order(m, r)))
    BY <2>2, PopFrontKeeps DEF Keeps, KeepsBooks
  <2> QED BY <1>2, <2>2, <2>3, Transitive DEF process_orderbook_request, r
<1>3. CASE r.kind # "CancelOrder"
  <2>1. r \in NewOrderRequest /\ r.side \in {"Bid", "Ask"}
    BY <1>1, <1>3 DEF Request, NewOrderRequest, AcceptedSide, CancelRequest, Side
  <2>2. AtFront(m, r)
    BY <1>1, <2>1 DEF AtFront
  <2>3. CASE r.side = "Ask"
    BY <1>3, <2>2, <2>3, NewAskKeeps DEF process_orderbook_request, r
  <2>4. CASE r.side = "Bid"
    BY <1>3, <2>2, <2>4, NewBidKeeps DEF process_orderbook_request, r
  <2> QED BY <2>1, <2>3, <2>4
<1> QED BY <1>2, <1>3

\* A unit of the limit, as long as there is something to do.
PassOrStop(n) ==
  IF n.ok /\ n.req_q # <<>> THEN process_orderbook_request(n) ELSE n

\* The passes of a call are a sequence, in any set that passes stay in.
LEMMA PassesOf ==
  ASSUME NEW S, NEW m \in S, NEW limit \in Nat,
         \A n \in S : n.ok /\ n.req_q # <<>> => process_orderbook_request(n) \in S
  PROVE  \E g : /\ g[0] = m /\ process_requests(m, limit) = g[limit]
                /\ \A n \in 0 .. limit : n + 1 \in 0 .. limit =>
                     g[n + 1] = PassOrStop(g[n])
<1> DEFINE Step(n) == PassOrStop(n)
           F == [n \in S |-> Step(n)]
           Runs(f) == f = [n \in 0 .. limit |->
                             IF n = 0 THEN m ELSE Step(f[n - 1])]
<1>1. ASSUME NEW n \in S PROVE Step(n) \in S
  BY DEF PassOrStop
<1>2. F \in [S -> S]
  <2> HIDE DEF Step
  <2> QED BY <1>1
<1>3. \E f : Runs(f)
  <2>1. PICK g \in [0 .. limit -> S] : Iterates(g, F, m, limit)
    <3> HIDE DEF F
    <3> QED BY <1>2, Iteration
  <2> HIDE DEF Step
  <2>2. \A n \in 0 .. limit : g[n] = IF n = 0 THEN m ELSE Step(g[n - 1])
    <3> TAKE n \in 0 .. limit
    <3>1. CASE n = 0
      BY <2>1, <3>1 DEF Iterates
    <3>2. CASE n # 0
      <4>1. n \in 1 .. limit /\ n - 1 \in 0 .. limit
        BY <3>2
      <4>2. g[n - 1] \in S
        BY <4>1
      <4> QED BY <2>1, <3>2, <4>1, <4>2 DEF Iterates
    <3> QED BY <3>1, <3>2
  <2>3. Runs(g)
    BY <2>2
  <2> QED BY <2>3
<1> DEFINE after == CHOOSE f : Runs(f)
<1>4. Runs(after)
  <2> HIDE DEF Runs
  <2> QED BY <1>3
<1>5. process_requests(m, limit) = after[limit]
  BY DEF process_requests, PassOrStop
<1> HIDE DEF after
<1>6. after[0] = m /\ \A n \in 0 .. limit : n + 1 \in 0 .. limit =>
                          after[n + 1] = Step(after[n])
  <2> HIDE DEF Step
  <2>1. \A n \in 0 .. limit : after[n] = IF n = 0 THEN m ELSE Step(after[n - 1])
    BY <1>4
  <2>2. 0 \in 0 .. limit
    OBVIOUS
  <2>3. \A n \in 0 .. limit : (n + 1) - 1 = n /\ n + 1 # 0
    OBVIOUS
  <2> QED BY <2>1, <2>2, <2>3
<1> QED BY <1>5, <1>6

\* What every pass keeps, the passes of a call keep.
LEMMA PassesKeep ==
  ASSUME NEW S, NEW m \in S, NEW limit \in Nat,
         \A n \in S : n.ok /\ n.req_q # <<>> => process_orderbook_request(n) \in S
  PROVE  process_requests(m, limit) \in S
<1>1. PICK g : /\ g[0] = m /\ process_requests(m, limit) = g[limit]
               /\ \A n \in 0 .. limit : n + 1 \in 0 .. limit =>
                    g[n + 1] = PassOrStop(g[n])
  BY PassesOf
<1> DEFINE T == {n \in 0 .. limit : g[n] \in S}
<1>2. \A n \in 0 .. limit : n \in T
  <2>1. 0 \in T
    BY <1>1
  <2>2. \A n \in 0 .. limit : n + 1 \in 0 .. limit /\ n \in T => n + 1 \in T
    BY <1>1 DEF PassOrStop
  <2> HIDE DEF T
  <2> QED BY <2>1, <2>2, UpTo
<1>3. limit \in 0 .. limit
  OBVIOUS
<1> QED BY <1>1, <1>2, <1>3

\* MatchOrders with any limit.
THEOREM ProcessRequestsKeeps ==
  ASSUME NEW m, AccountsOK(m), NEW limit \in Nat
  PROVE  KeepsBooks(m, process_requests(m, limit))
<1> DEFINE S == {n \in Accounts : KeepsBooks(m, n)}
<1>1. ASSUME NEW n \in S, n.ok /\ n.req_q # <<>>
      PROVE  process_orderbook_request(n) \in S
  <2>1. AccountsOK(n) /\ KeepsBooks(m, n)
    BY DEF KeepsBooks
  <2>2. KeepsBooks(n, process_orderbook_request(n))
    BY <1>1, <2>1, ProcessRequestKeeps
  <2>3. KeepsBooks(m, process_orderbook_request(n))
    BY <2>1, <2>2 DEF KeepsBooks
  <2>4. process_orderbook_request(n) \in Accounts
    BY <2>3 DEF KeepsBooks, AccountsOK
  <2> QED BY <2>3, <2>4
<1>2. m \in S
  BY DEF KeepsBooks, AccountsOK
<1>3. process_requests(m, limit) \in S
  <2> HIDE DEF S
  <2> QED BY <1>1, <1>2, PassesKeep
<1> QED BY <1>3

-----------------------------------------------------------------------------
(* The records of an account                                               *)

SlotsType == [Slots -> SlotRec \cup {Free}]

LEMMA AccountFields ==
  ASSUME NEW oo \in OpenOrdersRec
  PROVE  /\ oo.native_coin_free \in Int /\ oo.native_coin_total \in Int
         /\ oo.native_pc_free \in Int /\ oo.native_pc_total \in Int
         /\ oo.referrer_rebates_accrued \in Int /\ oo.orders \in SlotsType
         /\ oo.initialized \in BOOLEAN
  BY DEF OpenOrdersRec, SlotsType

LEMMA EventFields ==
  ASSUME NEW e \in Event
  PROVE  /\ e.native_qty_released \in Int /\ e.native_qty_paid \in Int
         /\ e.native_fee_or_rebate \in Int /\ e.owner \in Traders
         /\ e.owner_slot \in Slots
  BY DEF Event

LEMMA ApplyFillType ==
  ASSUME NEW oo \in OpenOrdersRec, NEW e \in Event
  PROVE  ApplyFill(oo, e) \in OpenOrdersRec
<1> DEFINE rebate == IF e.maker THEN 0 ELSE referrer_rebate(e.native_fee_or_rebate)
           accrued == oo.referrer_rebates_accrued + rebate
<1>1. rebate \in Int
  BY EventFields DEF referrer_rebate
<1>2. accrued \in Int
  <2> HIDE DEF rebate
  <2> QED BY <1>1, AccountFields
<1>3. CASE e.side = "Bid"
  <2> DEFINE pc_total == oo.native_pc_total - e.native_qty_paid
             coin_total == oo.native_coin_total + e.native_qty_released
             coin_free == oo.native_coin_free + e.native_qty_released
             pc_free == oo.native_pc_free
                          + (IF e.maker THEN e.native_fee_or_rebate ELSE 0)
  <2>1. /\ pc_total \in Int /\ coin_total \in Int /\ coin_free \in Int
        /\ pc_free \in Int
    BY AccountFields, EventFields
  <2>2. ApplyFill(oo, e) =
          [oo EXCEPT !.native_pc_total = pc_total,
                     !.native_coin_total = coin_total,
                     !.native_coin_free = coin_free,
                     !.native_pc_free = pc_free,
                     !.referrer_rebates_accrued = accrued]
    BY <1>3 DEF ApplyFill
  <2> HIDE DEF pc_total, coin_total, coin_free, pc_free, accrued
  <2> QED BY <2>1, <2>2, <1>2 DEF OpenOrdersRec
<1>4. CASE e.side # "Bid"
  <2> DEFINE coin_total == oo.native_coin_total - e.native_qty_paid
             pc_total == oo.native_pc_total + e.native_qty_released
             pc_free == oo.native_pc_free + e.native_qty_released
  <2>1. coin_total \in Int /\ pc_total \in Int /\ pc_free \in Int
    BY AccountFields, EventFields
  <2>2. ApplyFill(oo, e) =
          [oo EXCEPT !.native_coin_total = coin_total,
                     !.native_pc_total = pc_total,
                     !.native_pc_free = pc_free,
                     !.referrer_rebates_accrued = accrued]
    BY <1>4 DEF ApplyFill
  <2> HIDE DEF coin_total, pc_total, pc_free, accrued
  <2> QED BY <2>1, <2>2, <1>2 DEF OpenOrdersRec
<1> QED BY <1>3, <1>4

LEMMA ApplyOutType ==
  ASSUME NEW oo \in OpenOrdersRec, NEW e \in Event
  PROVE  ApplyOut(oo, e) \in OpenOrdersRec
<1> DEFINE pc_free == oo.native_pc_free
                        + (IF e.side = "Bid" THEN e.native_qty_released ELSE 0)
           coin_free == oo.native_coin_free
                          + (IF e.side = "Ask" THEN e.native_qty_released ELSE 0)
           slots == IF e.native_qty_paid = 0
                    THEN [oo.orders EXCEPT ![e.owner_slot] = Free]
                    ELSE oo.orders
<1>1. pc_free \in Int /\ coin_free \in Int
  BY AccountFields, EventFields
<1>2. slots \in SlotsType
  BY AccountFields, EventFields DEF SlotsType
<1>3. ApplyOut(oo, e) = [oo EXCEPT !.native_pc_free = pc_free,
                                   !.native_coin_free = coin_free,
                                   !.orders = slots]
  BY DEF ApplyOut
<1> HIDE DEF pc_free, coin_free, slots
<1> QED BY <1>1, <1>2, <1>3 DEF OpenOrdersRec, SlotsType

-----------------------------------------------------------------------------
(* ConsumeEvents                                                           *)

ConsumedRec ==
  [open_orders : [Traders -> OpenOrdersRec], event_q : Seq(Event), ok : BOOLEAN]

ConsumedOK(c) == c \in ConsumedRec /\ Len(c.event_q) <= EventCap

LEMMA ConsumeEventType ==
  ASSUME NEW c, ConsumedOK(c), c.event_q # <<>>
  PROVE  ConsumedOK(ConsumeEvent(c))
<1> DEFINE e  == Head(c.event_q)
           oo == c.open_orders[e.owner]
           to == IF e.kind = "Fill" THEN ApplyFill(oo, e) ELSE ApplyOut(oo, e)
           all == [c.open_orders EXCEPT ![e.owner] = to]
           rest == Tail(c.event_q)
<1>1. /\ e \in Event /\ rest \in Seq(Event) /\ Len(rest) = Len(c.event_q) - 1
      /\ Len(c.event_q) \in Nat
  BY HeadTailProperties, LenProperties DEF ConsumedOK, ConsumedRec
<1>2. oo \in OpenOrdersRec /\ c.open_orders \in [Traders -> OpenOrdersRec]
  <2> HIDE DEF e
  <2> QED BY <1>1, EventFields DEF ConsumedOK, ConsumedRec
<1>3. to \in OpenOrdersRec
  <2> HIDE DEF e, oo
  <2> QED BY <1>1, <1>2, ApplyFillType, ApplyOutType
<1>4. all \in [Traders -> OpenOrdersRec]
  <2> HIDE DEF e, oo, to
  <2> QED BY <1>1, <1>2, <1>3, EventFields
<1>5. Len(rest) <= EventCap
  <2> HIDE DEF rest
  <2> QED BY <1>1, MatchingAssumption DEF ConsumedOK
<1>6. \/ ConsumeEvent(c) = [c EXCEPT !.open_orders = all, !.event_q = rest]
      \/ ConsumeEvent(c) = [c EXCEPT !.ok = FALSE]
  BY DEF ConsumeEvent
<1> HIDE DEF all, rest
<1> QED BY <1>1, <1>4, <1>5, <1>6 DEF ConsumedOK, ConsumedRec

\* What the application of an event keeps, a call keeps.
LEMMA EventsKeep ==
  ASSUME NEW S, NEW c \in S, NEW limit \in Nat, NEW accounts,
         \A d \in S : d.ok /\ d.event_q # <<>> => ConsumeEvent(d) \in S
  PROVE  process_consume_events(c, limit, accounts) \in S
<1> DEFINE Step(d) == IF d.ok /\ d.event_q # <<>>
                           /\ Head(d.event_q).owner \in accounts
                      THEN ConsumeEvent(d) ELSE d
           F == [d \in S |-> Step(d)]
           Runs(f) == f = [n \in 0 .. limit |->
                             IF n = 0 THEN c ELSE Step(f[n - 1])]
<1>1. ASSUME NEW d \in S PROVE Step(d) \in S
  OBVIOUS
<1>2. F \in [S -> S]
  <2> HIDE DEF Step
  <2> QED BY <1>1
<1>3. \E f : Runs(f)
  <2>1. PICK g \in [0 .. limit -> S] : Iterates(g, F, c, limit)
    <3> HIDE DEF F
    <3> QED BY <1>2, Iteration
  <2> HIDE DEF Step
  <2>2. \A n \in 0 .. limit : g[n] = IF n = 0 THEN c ELSE Step(g[n - 1])
    <3> TAKE n \in 0 .. limit
    <3>1. CASE n = 0
      BY <2>1, <3>1 DEF Iterates
    <3>2. CASE n # 0
      <4>1. n \in 1 .. limit /\ n - 1 \in 0 .. limit
        BY <3>2
      <4>2. g[n - 1] \in S
        BY <4>1
      <4> QED BY <2>1, <3>2, <4>1, <4>2 DEF Iterates
    <3> QED BY <3>1, <3>2
  <2>3. Runs(g)
    BY <2>2
  <2> QED BY <2>3
<1> DEFINE after == CHOOSE f : Runs(f)
<1>4. Runs(after)
  <2> HIDE DEF Runs
  <2> QED BY <1>3
<1>5. process_consume_events(c, limit, accounts) = after[limit]
  BY DEF process_consume_events
<1> HIDE DEF after
<1>6. after[0] = c /\ \A n \in 0 .. limit : n + 1 \in 0 .. limit =>
                          after[n + 1] = Step(after[n])
  <2> HIDE DEF Step
  <2>1. \A n \in 0 .. limit : after[n] = IF n = 0 THEN c ELSE Step(after[n - 1])
    BY <1>4
  <2>2. 0 \in 0 .. limit
    OBVIOUS
  <2>3. \A n \in 0 .. limit : (n + 1) - 1 = n /\ n + 1 # 0
    OBVIOUS
  <2> QED BY <2>1, <2>2, <2>3
<1> DEFINE T == {n \in 0 .. limit : after[n] \in S}
<1>7. \A n \in 0 .. limit : n \in T
  <2>1. 0 \in T
    BY <1>2, <1>6
  <2>2. \A n \in 0 .. limit : n + 1 \in 0 .. limit /\ n \in T => n + 1 \in T
    <3> HIDE DEF Step
    <3> QED BY <1>1, <1>6
  <2> HIDE DEF T
  <2> QED BY <2>1, <2>2, UpTo
<1>8. after[limit] \in S
  <2>1. limit \in 0 .. limit
    OBVIOUS
  <2> QED BY <1>7, <2>1
<1> QED BY <1>5, <1>8

LEMMA ConsumeEventsType ==
  ASSUME NEW c, ConsumedOK(c), NEW limit \in Nat, NEW accounts
  PROVE  ConsumedOK(process_consume_events(c, limit, accounts))
<1> DEFINE S == {d \in ConsumedRec : ConsumedOK(d)}
<1>1. c \in S
  BY DEF ConsumedOK
<1>2. ASSUME NEW d \in S, d.ok /\ d.event_q # <<>> PROVE ConsumeEvent(d) \in S
  <2>1. ConsumedOK(ConsumeEvent(d))
    BY <1>2, ConsumeEventType
  <2> QED BY <2>1 DEF ConsumedOK
<1>3. process_consume_events(c, limit, accounts) \in S
  <2> HIDE DEF S
  <2> QED BY <1>1, <1>2, EventsKeep
<1> QED BY <1>3

-----------------------------------------------------------------------------
(* The instructions                                                        *)

IInv == TypeOK /\ VaultsMatchBooks

\* VaultsMatchBooks in the terms of PcBooks and CoinBooks.
LEMMA VaultsOf ==
  /\ VaultsMatchBooks <=> pc_vault = PcBooks(market) /\ coin_vault = CoinBooks(market)
  /\ VaultsMatchBooks' <=> pc_vault' = PcBooks(market')
                           /\ coin_vault' = CoinBooks(market')
  BY DEF VaultsMatchBooks, PcBooks, CoinBooks

LEMMA InitOK == Init => IInv
<1> SUFFICES ASSUME Init PROVE IInv
  OBVIOUS
<1> USE DEF Init
<1>1. market \in MarketRec
  BY DEF MarketRec
<1>2. open_orders \in [Traders -> OpenOrdersRec]
  BY DEF OpenOrdersRec
<1>3. req_q \in Seq(Request) /\ Len(req_q) <= ReqCap
  BY MarketAssumption DEF Positive
<1>4. event_q \in Seq(Event) /\ Len(event_q) <= EventCap
  BY MatchingAssumption
<1>5. IsBook(bids) /\ IsBook(asks)
  BY FS_EmptySet, MatchingAssumption DEF IsBook
<1>6. next_seq_num \in 0 .. MaxSeq
  BY MarketAssumption
<1>7. VaultsMatchBooks
  BY DEF VaultsMatchBooks
<1>8. coin_vault \in Int /\ pc_vault \in Int
  OBVIOUS
<1> HIDE DEF Init
<1> QED BY <1>1, <1>2, <1>3, <1>4, <1>5, <1>6, <1>7, <1>8 DEF IInv, TypeOK

LEMMA MatchOrdersOK ==
  ASSUME IInv, NEW limit \in MatchLimits, MatchOrders(limit)
  PROVE  IInv'
<1> DEFINE m == [bids |-> bids, asks |-> asks, market |-> market,
                 req_q |-> req_q, event_q |-> event_q, ok |-> TRUE]
           n == process_requests(m, limit)
<1>1. AccountsOK(m)
  BY DEF IInv, TypeOK, AccountsOK, Accounts, IsBook
<1>2. limit \in Nat
  BY MarketAssumption DEF Positive
<1>3. KeepsBooks(m, n)
  <2> HIDE DEF m
  <2> QED BY <1>1, <1>2, ProcessRequestsKeeps
<1>4. /\ bids' = n.bids /\ asks' = n.asks /\ market' = n.market
      /\ req_q' = n.req_q /\ event_q' = n.event_q
      /\ UNCHANGED <<open_orders, next_seq_num, coin_vault, pc_vault>>
  BY DEF MatchOrders
<1>5. m.market = market
  OBVIOUS
<1> HIDE DEF m, n
<1>6. TypeOK'
  <2>1. /\ market' \in MarketRec /\ req_q' \in Seq(Request) /\ Len(req_q') <= ReqCap
        /\ event_q' \in Seq(Event) /\ Len(event_q') <= EventCap
        /\ IsBook(bids') /\ IsBook(asks')
    BY <1>3, <1>4 DEF KeepsBooks, AccountsOK, Accounts
  <2> QED BY <2>1, <1>4 DEF IInv, TypeOK, IsBook
<1>7. VaultsMatchBooks'
  BY <1>3, <1>4, <1>5, VaultsOf DEF KeepsBooks, IInv
<1> QED BY <1>6, <1>7 DEF IInv

LEMMA ConsumeEventsOK ==
  ASSUME IInv, NEW limit \in ConsumeLimits, NEW accounts,
         ConsumeEvents(limit, accounts)
  PROVE  IInv'
<1> DEFINE c == [open_orders |-> open_orders, event_q |-> event_q, ok |-> TRUE]
           d == process_consume_events(c, limit, accounts)
<1>1. ConsumedOK(c)
  BY DEF IInv, TypeOK, ConsumedOK, ConsumedRec
<1>2. limit \in Nat
  BY MarketAssumption DEF Positive
<1>3. ConsumedOK(d)
  <2> HIDE DEF c
  <2> QED BY <1>1, <1>2, ConsumeEventsType
<1>4. /\ open_orders' = d.open_orders /\ event_q' = d.event_q
      /\ UNCHANGED <<market, req_q, next_seq_num, bids, asks, coin_vault,
                     pc_vault>>
  BY DEF ConsumeEvents
<1> HIDE DEF d
<1>5. /\ open_orders' \in [Traders -> OpenOrdersRec]
      /\ event_q' \in Seq(Event) /\ Len(event_q') <= EventCap
  BY <1>3, <1>4 DEF ConsumedOK, ConsumedRec
<1>6. TypeOK'
  BY <1>4, <1>5 DEF IInv, TypeOK, IsBook
<1>7. VaultsMatchBooks'
  BY <1>4 DEF IInv, VaultsMatchBooks
<1> QED BY <1>6, <1>7 DEF IInv

LEMMA RequestCancelOK ==
  ASSUME IInv, NEW t \in Traders, NEW side \in Side, NEW id \in OrderId,
         NEW slot \in Slots, NEW client_id \in Nat,
         RequestCancel(t, side, id, slot, client_id)
  PROVE  IInv'
<1> DEFINE r == [kind |-> "CancelOrder", side |-> side, id |-> id, owner |-> t,
                 owner_slot |-> slot, client_id |-> client_id]
<1>1. r \in Request
  BY DEF Request, CancelRequest
<1>2. /\ next_seq_num < MaxSeq /\ Len(req_q) < ReqCap
      /\ next_seq_num' = next_seq_num + 1 /\ req_q' = Append(req_q, r)
      /\ UNCHANGED <<market, open_orders, event_q, bids, asks, coin_vault,
                     pc_vault>>
  BY DEF RequestCancel
<1> HIDE DEF r
<1>3. req_q' \in Seq(Request) /\ Len(req_q') <= ReqCap
  <2>1. req_q \in Seq(Request) /\ Len(req_q) \in Nat /\ ReqCap \in Nat
    BY LenProperties, MarketAssumption DEF IInv, TypeOK, Positive
  <2>2. req_q' \in Seq(Request) /\ Len(req_q') = Len(req_q) + 1
    BY <1>1, <1>2, <2>1, AppendProperties
  <2> QED BY <1>2, <2>1, <2>2
<1>4. next_seq_num' \in 0 .. MaxSeq
  BY <1>2, MarketAssumption DEF IInv, TypeOK
<1>5. TypeOK'
  BY <1>2, <1>3, <1>4 DEF IInv, TypeOK, IsBook
<1>6. VaultsMatchBooks'
  BY <1>2 DEF IInv, VaultsMatchBooks
<1> QED BY <1>5, <1>6 DEF IInv

\* What a live slot holds.
LEMMA LiveSlot ==
  ASSUME TypeOK, NEW t \in Traders, NEW s \in Slots,
         open_orders[t].orders[s] # Free
  PROVE  open_orders[t].orders[s] \in SlotRec
<1>1. open_orders[t].orders \in SlotsType
  BY AccountFields DEF TypeOK
<1> QED BY <1>1 DEF SlotsType

LEMMA CancelOrderOK ==
  ASSUME IInv, NEW t \in Traders, NEW side \in Side, NEW id \in KnownIds,
         NEW slot \in Slots, CancelOrder(t, side, id, slot)
  PROVE  IInv'
<1>1. id \in OrderId
  <2>1. PICK u \in Traders, s \in Slots :
          open_orders[u].orders[s] # Free /\ id = open_orders[u].orders[s].id
    BY DEF KnownIds, LiveSlots
  <2>2. open_orders[u].orders[s] \in SlotRec
    BY <2>1, LiveSlot DEF IInv
  <2> QED BY <2>1, <2>2 DEF SlotRec
<1>2. RequestCancel(t, side, id, slot, 0)
  BY DEF CancelOrder
<1> QED BY <1>1, <1>2, RequestCancelOK

LEMMA CancelByClientIdOK ==
  ASSUME IInv, NEW t \in Traders, NEW client_id \in Nat,
         CancelOrderByClientId(t, client_id)
  PROVE  IInv'
<1> DEFINE slots == open_orders[t].orders
           found == {s \in Slots : slots[s] # Free
                                   /\ slots[s].client_id = client_id}
           slot  == CHOOSE s \in found : \A r \in found : s <= r
<1>1. found # {} /\ RequestCancel(t, slots[slot].side, slots[slot].id, slot, client_id)
  BY DEF CancelOrderByClientId
<1>2. slot \in found
  <2>1. found \subseteq Nat
    BY DEF Slots
  <2>2. \E s \in found : \A r \in found : s <= r
    <3> HIDE DEF found
    <3> QED BY <1>1, <2>1, LeastNat
  <2> HIDE DEF found
  <2> QED BY <2>2
<1> HIDE DEF slot
<1>3. slot \in Slots /\ slots[slot] \in SlotRec
  BY <1>2, LiveSlot DEF IInv
<1>4. slots[slot].side \in Side /\ slots[slot].id \in OrderId
  BY <1>3 DEF SlotRec
<1> QED BY <1>1, <1>3, <1>4, RequestCancelOK

LEMMA SweepFeesOK ==
  ASSUME IInv, SweepFees
  PROVE  IInv'
<1>1. /\ market \in MarketRec /\ pc_vault \in Int /\ coin_vault \in Int
      /\ pc_vault' = pc_vault - market.pc_fees_accrued
      /\ market' = [market EXCEPT !.pc_fees_accrued = 0]
      /\ UNCHANGED <<open_orders, req_q, next_seq_num, event_q, bids, asks,
                     coin_vault>>
  BY DEF SweepFees, IInv, TypeOK
<1>2. /\ market' \in MarketRec /\ market'.pc_fees_accrued = 0
      /\ market'.pc_deposits_total = market.pc_deposits_total
      /\ market'.coin_deposits_total = market.coin_deposits_total
      /\ market'.referrer_rebates_accrued = market.referrer_rebates_accrued
      /\ market.pc_fees_accrued \in Int /\ market.pc_deposits_total \in Int
      /\ market.referrer_rebates_accrued \in Int
  BY <1>1 DEF MarketRec
<1>3. pc_vault' \in Int
  BY <1>1, <1>2
<1>4. TypeOK'
  BY <1>1, <1>2, <1>3 DEF IInv, TypeOK, IsBook
<1>5. VaultsMatchBooks'
  BY <1>1, <1>2 DEF IInv, VaultsMatchBooks
<1> QED BY <1>4, <1>5 DEF IInv

LEMMA DisableMarketOK ==
  ASSUME IInv, DisableMarket
  PROVE  IInv'
<1>1. /\ market \in MarketRec
      /\ market' = [market EXCEPT !.disabled = TRUE]
      /\ UNCHANGED <<open_orders, req_q, next_seq_num, event_q, bids, asks,
                     coin_vault, pc_vault>>
  BY DEF DisableMarket, IInv, TypeOK
<1>2. /\ market' \in MarketRec
      /\ market'.pc_fees_accrued = market.pc_fees_accrued
      /\ market'.pc_deposits_total = market.pc_deposits_total
      /\ market'.coin_deposits_total = market.coin_deposits_total
      /\ market'.referrer_rebates_accrued = market.referrer_rebates_accrued
  BY <1>1 DEF MarketRec
<1>3. TypeOK'
  BY <1>1, <1>2 DEF IInv, TypeOK, IsBook
<1>4. VaultsMatchBooks'
  BY <1>1, <1>2 DEF IInv, VaultsMatchBooks
<1> QED BY <1>3, <1>4 DEF IInv

LEMMA SettledType ==
  ASSUME NEW oo \in OpenOrdersRec
  PROVE  Settled(oo) \in OpenOrdersRec
<1> DEFINE coin == oo.native_coin_total - oo.native_coin_free
           pc == oo.native_pc_total - oo.native_pc_free
           none == 0
<1>1. coin \in Int /\ pc \in Int /\ none \in Int
  BY AccountFields
<1>2. Settled(oo) = [oo EXCEPT !.native_coin_free = none,
                               !.native_coin_total = coin,
                               !.native_pc_free = none,
                               !.native_pc_total = pc,
                               !.referrer_rebates_accrued = none]
  BY DEF Settled
<1> HIDE DEF coin, pc, none
<1> QED BY <1>1, <1>2 DEF OpenOrdersRec

LEMMA SettleFundsOK ==
  ASSUME IInv, NEW t \in Traders, NEW with_referrer \in BOOLEAN,
         SettleFunds(t, with_referrer)
  PROVE  IInv'
<1> DEFINE oo == open_orders[t]
           rebates == oo.referrer_rebates_accrued
           to_referrer == IF with_referrer THEN rebates ELSE 0
           coin == market.coin_deposits_total - oo.native_coin_free
           pc == market.pc_deposits_total - oo.native_pc_free
           fees == market.pc_fees_accrued + (rebates - to_referrer)
           owed == market.referrer_rebates_accrued - rebates
           settled == Settled(oo)
<1>1. oo \in OpenOrdersRec /\ open_orders \in [Traders -> OpenOrdersRec]
  BY DEF IInv, TypeOK
<1>2. /\ oo.native_coin_free \in Int /\ oo.native_pc_free \in Int
      /\ rebates \in Int /\ to_referrer \in Int
  <2> HIDE DEF oo
  <2> QED BY <1>1, AccountFields
<1>3. /\ market \in MarketRec /\ pc_vault \in Int /\ coin_vault \in Int
      /\ market.coin_deposits_total \in Int /\ market.pc_deposits_total \in Int
      /\ market.pc_fees_accrued \in Int /\ market.referrer_rebates_accrued \in Int
  BY DEF IInv, TypeOK, MarketRec
<1>4. coin \in Int /\ pc \in Int /\ fees \in Int /\ owed \in Int
  <2> HIDE DEF oo, rebates, to_referrer
  <2> QED BY <1>2, <1>3
<1>5. /\ market' = [market EXCEPT !.coin_deposits_total = coin,
                                  !.pc_deposits_total = pc,
                                  !.pc_fees_accrued = fees,
                                  !.referrer_rebates_accrued = owed]
      /\ open_orders' = [open_orders EXCEPT ![t] = settled]
      /\ coin_vault' = coin_vault - oo.native_coin_free
      /\ pc_vault' = pc_vault - oo.native_pc_free - to_referrer
      /\ UNCHANGED <<req_q, next_seq_num, event_q, bids, asks>>
  BY DEF SettleFunds
<1>6. settled \in OpenOrdersRec
  <2> HIDE DEF oo
  <2> QED BY <1>1, SettledType
<1>7. /\ market' \in MarketRec
      /\ market'.coin_deposits_total = coin /\ market'.pc_deposits_total = pc
      /\ market'.pc_fees_accrued = fees
      /\ market'.referrer_rebates_accrued = owed
  <2> HIDE DEF coin, pc, fees, owed
  <2> QED BY <1>3, <1>4, <1>5 DEF MarketRec
<1>8. open_orders' \in [Traders -> OpenOrdersRec]
  <2> HIDE DEF settled
  <2> QED BY <1>1, <1>5, <1>6
<1>9. coin_vault' \in Int /\ pc_vault' \in Int
  <2> HIDE DEF oo, to_referrer
  <2> QED BY <1>2, <1>3, <1>5
<1>10. TypeOK'
  BY <1>5, <1>7, <1>8, <1>9 DEF IInv, TypeOK, IsBook
<1>11. VaultsMatchBooks'
  <2> HIDE DEF oo, rebates, to_referrer
  <2>1. /\ pc_vault = market.pc_deposits_total + market.pc_fees_accrued
                        + market.referrer_rebates_accrued
        /\ coin_vault = market.coin_deposits_total
    BY DEF IInv, VaultsMatchBooks
  <2>2. pc_vault' = pc + fees + owed /\ coin_vault' = coin
    BY <1>2, <1>3, <1>5, <2>1
  <2> HIDE DEF pc, fees, owed, coin
  <2> QED BY <1>7, <2>2 DEF VaultsMatchBooks
<1> QED BY <1>10, <1>11 DEF IInv

LEMMA LockFundsType ==
  ASSUME NEW oo \in OpenOrdersRec, NEW side, NEW lock_qty \in Int,
         NEW deposit \in Int
  PROVE  LockFunds(oo, side, lock_qty, deposit) \in OpenOrdersRec
<1> DEFINE pc_free == oo.native_pc_free - (lock_qty - deposit)
           pc_total == oo.native_pc_total + deposit
           coin_free == oo.native_coin_free - (lock_qty - deposit)
           coin_total == oo.native_coin_total + deposit
<1>1. /\ pc_free \in Int /\ pc_total \in Int
      /\ coin_free \in Int /\ coin_total \in Int
  BY AccountFields
<1>2. LockFunds(oo, side, lock_qty, deposit)
        = IF side = "Bid"
          THEN [oo EXCEPT !.native_pc_free = pc_free,
                          !.native_pc_total = pc_total]
          ELSE [oo EXCEPT !.native_coin_free = coin_free,
                          !.native_coin_total = coin_total]
  BY DEF LockFunds
<1> HIDE DEF pc_free, pc_total, coin_free, coin_total
<1> QED BY <1>1, <1>2 DEF OpenOrdersRec

LEMMA AddOrderType ==
  ASSUME NEW oo \in OpenOrdersRec, NEW slot \in Slots, NEW order \in SlotRec
  PROVE  add_order(oo, slot, order) \in OpenOrdersRec
<1> DEFINE slots == [oo.orders EXCEPT ![slot] = order]
<1>1. slots \in [Slots -> SlotRec \cup {Free}]
  BY AccountFields DEF SlotsType
<1>2. add_order(oo, slot, order)
        = [oo EXCEPT !.initialized = TRUE, !.orders = slots]
  BY DEF add_order
<1> HIDE DEF slots
<1> QED BY <1>1, <1>2 DEF OpenOrdersRec

\* In lots of no size there is nothing to lock.
LEMMA NothingLocked ==
  ASSUME NEW i, i.side = "Bid", i.max_qty \in Nat, i.limit_price \in Nat,
         NEW tier \in FeeTier, PcLot = 0
  PROVE  LockQtyNative(i, tier) = 0
<1> DEFINE before_fee == i.max_qty * i.limit_price * PcLot
           fee == taker_fee(tier, before_fee)
<1>1. LockQtyNative(i, tier) = before_fee + fee
  BY DEF LockQtyNative
<1>2. before_fee = 0
  <2> DEFINE lots == i.max_qty * i.limit_price
  <2>1. lots \in Nat
    OBVIOUS
  <2> HIDE DEF lots
  <2>2. lots * PcLot = 0
    BY <2>1
  <2> QED BY <2>2 DEF lots
<1> HIDE DEF before_fee
<1>3. ONE \in Nat \ {0} /\ taker_rate(tier) \in Nat /\ before_fee \in Int
  BY <1>2, OneAssumption, RateBounds
<1>4. /\ fee \in Int /\ taker_rate(tier) * before_fee <= fee * ONE
      /\ fee * ONE < taker_rate(tier) * before_fee + ONE
  BY <1>3, TakerFee
<1> HIDE DEF fee
<1>5. taker_rate(tier) * before_fee = 0
  BY <1>2, <1>3
<1>6. fee = 0
  <2>1. 0 <= fee * ONE /\ fee * ONE < ONE
    BY <1>3, <1>4, <1>5
  <2>2. fee = 0 \/ fee >= 1 \/ fee <= -1
    BY <1>4
  <2>3. fee >= 1 => 1 * ONE <= fee * ONE
    BY <1>3, <1>4, ProductMonotone
  <2>4. fee <= -1 => fee * ONE <= (-1) * ONE
    BY <1>3, <1>4, ProductMonotone
  <2>5. 1 * ONE = ONE /\ (-1) * ONE = 0 - ONE /\ fee * ONE \in Int
    BY <1>3, <1>4
  <2> QED BY <1>3, <2>1, <2>2, <2>3, <2>4, <2>5
<1> QED BY <1>1, <1>2, <1>6

LEMMA NewOrderOK ==
  ASSUME IInv, NEW t \in Traders, NEW i \in Instructions, NEW tier \in FeeTiers,
         NewOrder(t, i, tier)
  PROVE  IInv'
<1> DEFINE oo       == open_orders[t]
           lock_qty == LockQtyNative(i, tier)
           free     == IF i.side = "Bid" THEN oo.native_pc_free
                                         ELSE oo.native_coin_free
           deposit  == lock_qty - Least(lock_qty, free)
           id       == gen_order_id(i.limit_price, i.side)
           slot     == add_order_slot(oo.orders)
           order    == [id |-> id, side |-> i.side, client_id |-> i.client_id]
           locked   == LockFunds(oo, i.side, lock_qty, deposit)
           added    == add_order(locked, slot, order)
           r == [kind |-> "NewOrder", side |-> i.side,
                 order_type |-> i.order_type, id |-> id, owner |-> t,
                 owner_slot |-> slot, fee_tier |-> tier,
                 max_coin_qty |-> i.max_qty,
                 native_pc_qty_locked |-> IF i.side = "Bid" THEN lock_qty ELSE 0,
                 client_id |-> i.client_id,
                 self_trade_behavior |-> i.self_trade_behavior]
<1>1. /\ i.side \in Side /\ i.limit_price \in Positive /\ i.max_qty \in Nat
      /\ i.order_type \in OrderType /\ i.client_id \in Nat
      /\ i.self_trade_behavior \in SelfTradeBehavior /\ tier \in FeeTier
  BY MarketAssumption DEF NewOrderInstruction, Positive
<1>2. oo \in OpenOrdersRec /\ open_orders \in [Traders -> OpenOrdersRec]
  BY DEF IInv, TypeOK
<1>3. /\ i.side = "Bid" => lock_qty # 0
      /\ next_seq_num < MaxSeq /\ FreeSlots(oo.orders) # {}
      /\ Len(req_q) < ReqCap
      /\ open_orders' = [open_orders EXCEPT ![t] = added]
      /\ IF i.side = "Bid"
         THEN /\ market' = [market EXCEPT !.pc_deposits_total = @ + deposit]
              /\ pc_vault' = pc_vault + deposit
              /\ UNCHANGED coin_vault
         ELSE /\ market' = [market EXCEPT !.coin_deposits_total = @ + deposit]
              /\ coin_vault' = coin_vault + deposit
              /\ UNCHANGED pc_vault
      /\ next_seq_num' = next_seq_num + 1
      /\ req_q' = Append(req_q, r)
      /\ UNCHANGED <<event_q, bids, asks>>
  BY DEF NewOrder
<1>4. lock_qty \in Int
  <2> DEFINE before_fee == i.max_qty * i.limit_price * PcLot
  <2>1. before_fee \in Int /\ i.max_qty * CoinLot \in Int
    <3>1. i.max_qty \in Int
      BY <1>1
    <3> QED BY <1>1, <3>1, NativeType
  <2>2. taker_fee(tier, before_fee) \in Int
    <3> HIDE DEF before_fee
    <3> QED BY <1>1, <2>1, FeeTypesOf
  <2>3. lock_qty = IF i.side = "Bid"
                   THEN before_fee + taker_fee(tier, before_fee)
                   ELSE i.max_qty * CoinLot
    BY DEF LockQtyNative
  <2> HIDE DEF before_fee, lock_qty
  <2> QED BY <2>1, <2>2, <2>3
<1>5. deposit \in Int
  <2>1. free \in Int
    <3> HIDE DEF oo
    <3> QED BY <1>2, AccountFields
  <2> HIDE DEF lock_qty, free
  <2> QED BY <1>4, <2>1, LeastOfTwo
<1>6. id \in OrderId
  <2>1. next_seq_num \in 0 .. SEQ_MASK /\ SEQ_MASK - next_seq_num \in 0 .. SEQ_MASK
    BY <1>3, MarketAssumption DEF IInv, TypeOK
  <2> QED BY <1>1, <2>1 DEF gen_order_id, OrderId
<1>7. slot \in Slots
  <2>1. FreeSlots(oo.orders) \subseteq Nat
    BY DEF FreeSlots, Slots
  <2>2. \E s \in FreeSlots(oo.orders) : \A q \in FreeSlots(oo.orders) : s <= q
    <3> HIDE DEF oo
    <3> QED BY <1>3, <2>1, LeastNat
  <2>3. slot \in FreeSlots(oo.orders)
    <3> HIDE DEF oo
    <3> QED BY <2>2 DEF add_order_slot
  <2> QED BY <2>3 DEF FreeSlots
<1>8. order \in SlotRec
  <2> HIDE DEF id
  <2> QED BY <1>1, <1>6 DEF SlotRec
<1>9. added \in OpenOrdersRec
  <2>1. locked \in OpenOrdersRec
    <3> HIDE DEF oo, lock_qty, deposit
    <3> QED BY <1>2, <1>4, <1>5, LockFundsType
  <2> HIDE DEF locked, slot, order
  <2> QED BY <1>7, <1>8, <2>1, AddOrderType
<1>10. r \in Request
  <2>1. i.side \in AcceptedSide
    <3>1. i.limit_price \in Nat
      BY <1>1 DEF Positive
    <3> QED BY <1>1, <1>3, <3>1, NothingLocked DEF AcceptedSide
  <2> HIDE DEF id, slot, lock_qty
  <2> QED BY <1>1, <1>4, <1>6, <1>7, <2>1 DEF Request, NewOrderRequest
<1> HIDE DEF oo, lock_qty, free, deposit, id, slot, order, locked, added, r
<1>11. open_orders' \in [Traders -> OpenOrdersRec]
  BY <1>2, <1>3, <1>9
<1>12. req_q' \in Seq(Request) /\ Len(req_q') <= ReqCap
  <2>1. req_q \in Seq(Request) /\ Len(req_q) \in Nat /\ ReqCap \in Nat
    BY LenProperties, MarketAssumption DEF IInv, TypeOK, Positive
  <2>2. req_q' \in Seq(Request) /\ Len(req_q') = Len(req_q) + 1
    BY <1>3, <1>10, <2>1, AppendProperties
  <2> QED BY <1>3, <2>1, <2>2
<1>13. next_seq_num' \in 0 .. MaxSeq
  BY <1>3, MarketAssumption DEF IInv, TypeOK
<1>14. /\ market \in MarketRec /\ pc_vault \in Int /\ coin_vault \in Int
       /\ market.coin_deposits_total \in Int /\ market.pc_deposits_total \in Int
       /\ market.pc_fees_accrued \in Int
       /\ market.referrer_rebates_accrued \in Int
  BY DEF IInv, TypeOK, MarketRec
<1>15. /\ pc_vault = market.pc_deposits_total + market.pc_fees_accrued
                       + market.referrer_rebates_accrued
       /\ coin_vault = market.coin_deposits_total
  BY DEF IInv, VaultsMatchBooks
<1>16. /\ event_q' \in Seq(Event) /\ Len(event_q') <= EventCap
       /\ IsBook(bids)' /\ IsBook(asks)'
  BY <1>3 DEF IInv, TypeOK, IsBook
<1>17. CASE i.side = "Bid"
  <2>1. /\ market' \in MarketRec
        /\ market'.pc_deposits_total = market.pc_deposits_total + deposit
        /\ market'.coin_deposits_total = market.coin_deposits_total
        /\ market'.pc_fees_accrued = market.pc_fees_accrued
        /\ market'.referrer_rebates_accrued = market.referrer_rebates_accrued
    <3>1. market' = [market EXCEPT !.pc_deposits_total = @ + deposit]
      BY <1>3, <1>17
    <3>2. market.pc_deposits_total + deposit \in Int
      BY <1>5, <1>14
    <3> QED BY ONLY <1>14, <3>1, <3>2 DEF MarketRec
  <2>2. pc_vault' = pc_vault + deposit /\ coin_vault' = coin_vault
    BY <1>3, <1>17
  <2>3. TypeOK'
    <3>1. coin_vault' \in Int /\ pc_vault' \in Int
      BY <1>5, <1>14, <2>2
    <3> QED BY <1>11, <1>12, <1>13, <1>16, <2>1, <3>1 DEF TypeOK
  <2>4. VaultsMatchBooks'
    BY <1>5, <1>14, <1>15, <2>1, <2>2 DEF VaultsMatchBooks
  <2> QED BY <2>3, <2>4 DEF IInv
<1>18. CASE i.side # "Bid"
  <2>1. /\ market' \in MarketRec
        /\ market'.coin_deposits_total = market.coin_deposits_total + deposit
        /\ market'.pc_deposits_total = market.pc_deposits_total
        /\ market'.pc_fees_accrued = market.pc_fees_accrued
        /\ market'.referrer_rebates_accrued = market.referrer_rebates_accrued
    <3>1. market' = [market EXCEPT !.coin_deposits_total = @ + deposit]
      BY <1>3, <1>18
    <3>2. market.coin_deposits_total + deposit \in Int
      BY <1>5, <1>14
    <3> QED BY ONLY <1>14, <3>1, <3>2 DEF MarketRec
  <2>2. coin_vault' = coin_vault + deposit /\ pc_vault' = pc_vault
    BY <1>3, <1>18
  <2>3. TypeOK'
    <3>1. coin_vault' \in Int /\ pc_vault' \in Int
      BY <1>5, <1>14, <2>2
    <3> QED BY <1>11, <1>12, <1>13, <1>16, <2>1, <3>1 DEF TypeOK
  <2>4. VaultsMatchBooks'
    BY <1>5, <1>14, <1>15, <2>1, <2>2 DEF VaultsMatchBooks
  <2> QED BY <2>3, <2>4 DEF IInv
<1> QED BY <1>17, <1>18

-----------------------------------------------------------------------------
(* The theorems                                                            *)

LEMMA NextOK == IInv /\ [Next]_vars => IInv'
<1> SUFFICES ASSUME IInv, [Next]_vars PROVE IInv'
  OBVIOUS
<1>1. ASSUME NEW t \in Traders, NEW i \in Instructions, NEW tier \in FeeTiers,
             NewOrder(t, i, tier)
      PROVE  IInv'
  BY <1>1, NewOrderOK
<1>2. ASSUME NEW t \in Traders, NEW side \in Side, NEW id \in KnownIds,
             NEW slot \in Slots, CancelOrder(t, side, id, slot)
      PROVE  IInv'
  BY <1>2, CancelOrderOK
<1>3. ASSUME NEW t \in Traders, NEW i \in Instructions,
             CancelOrderByClientId(t, i.client_id)
      PROVE  IInv'
  <2>1. i.client_id \in Nat
    BY MarketAssumption DEF NewOrderInstruction
  <2> QED BY <1>3, <2>1, CancelByClientIdOK
<1>4. ASSUME NEW t \in Traders, NEW with_referrer \in BOOLEAN,
             SettleFunds(t, with_referrer)
      PROVE  IInv'
  BY <1>4, SettleFundsOK
<1>5. ASSUME NEW limit \in MatchLimits, MatchOrders(limit) PROVE IInv'
  BY <1>5, MatchOrdersOK
<1>6. ASSUME NEW limit \in ConsumeLimits, NEW accounts \in SUBSET Traders,
             ConsumeEvents(limit, accounts)
      PROVE  IInv'
  BY <1>6, ConsumeEventsOK
<1>7. CASE SweepFees
  BY <1>7, SweepFeesOK
<1>8. CASE DisableMarket
  BY <1>8, DisableMarketOK
<1>9. CASE UNCHANGED vars
  BY <1>9 DEF vars, IInv, TypeOK, IsBook, VaultsMatchBooks
<1> QED BY <1>1, <1>2, <1>3, <1>4, <1>5, <1>6, <1>7, <1>8, <1>9 DEF Next

LEMMA Inductive == Spec => []IInv
  BY InitOK, NextOK, PTL DEF Spec

\* Every account keeps its type and every queue and every side of the book
\* its capacity, whatever is placed, matched, booted, cancelled and consumed
\* (dex/src/state.rs, dex/src/matching.rs).
THEOREM TypeCorrect == Spec => []TypeOK
<1>1. IInv => TypeOK
  BY DEF IInv
<1> QED BY <1>1, Inductive, PTL

\* The vaults hold exactly what the books of the market say, always: fees,
\* rebates, deposits and withdrawals move money between the books but never
\* make or lose a unit (matching.rs new_ask and new_bid, state.rs
\* process_settle_funds, process_sweep_fees and process_new_order).
THEOREM CustodyOfVaults == Spec => []VaultsMatchBooks
<1>1. IInv => VaultsMatchBooks
  BY DEF IInv
<1> QED BY <1>1, Inductive, PTL

LEMMA PairOf ==
  ASSUME NEW S, NEW a \in S, NEW b \in S
  PROVE  <<a>> \o <<b>> = <<a, b>>
<1>1. <<a>> \in Seq(S) /\ <<b>> \in Seq(S) /\ <<a, b>> \in Seq(S)
  OBVIOUS
<1>2. Len(<<a>>) = 1 /\ Len(<<b>>) = 1 /\ Len(<<a, b>>) = 2
  OBVIOUS
<1>3. /\ <<a>> \o <<b>> \in Seq(S) /\ Len(<<a>> \o <<b>>) = 2
      /\ \A i \in 1 .. 2 : (<<a>> \o <<b>>)[i] = IF i <= 1 THEN <<a>>[i] ELSE <<b>>[i - 1]
  BY <1>1, <1>2, ConcatProperties
<1>4. \A i \in 1 .. 2 : (<<a>> \o <<b>>)[i] = <<a, b>>[i]
  BY <1>3
<1> QED BY <1>1, <1>2, <1>3, <1>4, SeqEqual

-----------------------------------------------------------------------------
(* What a pass does, as relations between the accounts before and after.   *)

\* Events are appended, if they fit.
Appends(m, n, events) ==
  /\ n.ok <=> (m.ok /\ Len(m.event_q) + Len(events) <= EventCap)
  /\ n.ok => n.event_q = m.event_q \o events

\* One side of the book becomes leaves, the other one stays.
Book(m, n, side, leaves) ==
  /\ orders(n, side) = leaves
  /\ orders(n, Opposite(side)) = orders(m, Opposite(side))

\* The maker's order is left with that quantity.
Left(m, side, x, quantity) ==
  (orders(m, side) \ {x})
  \cup (IF quantity = 0 THEN {} ELSE {[x EXCEPT !.quantity = quantity]})

\* Neither the money nor the requests change.
Aside(m, n) == n.market = m.market /\ n.req_q = m.req_q

Quiet(m, n) == n.ok = m.ok /\ n.event_q = m.event_q

LEMMA PushAppends ==
  ASSUME NEW m, AccountsOK(m), NEW events \in Seq(Event)
  PROVE  /\ Appends(m, push_back(m, events), events)
         /\ Aside(m, push_back(m, events))
         /\ KeepsOrders(m, push_back(m, events))
<1>1. KeepsOrders(m, push_back(m, events))
  BY PushBack
<1>2. m \in Accounts /\ m.ok \in BOOLEAN
  BY DEF AccountsOK, Accounts
<1>3. /\ Appends(m, push_back(m, events), events)
      /\ Aside(m, push_back(m, events))
  <2>1. CASE Len(m.event_q) + Len(events) <= EventCap
    BY <1>2, <2>1 DEF push_back, Appends, Aside, Accounts
  <2>2. CASE ~(Len(m.event_q) + Len(events) <= EventCap)
    BY <1>2, <2>2 DEF push_back, Appends, Aside, Accounts
  <2> QED BY <2>1, <2>2
<1> QED BY <1>1, <1>3

\* Appending nothing, and appending in two steps.
LEMMA AppendsNothing ==
  ASSUME NEW m, AccountsOK(m), NEW n, Quiet(m, n)
  PROVE  Appends(m, n, <<>>)
<1>1. /\ Len(m.event_q) <= EventCap /\ Len(m.event_q) \in Nat
      /\ m.event_q \in Seq(Event) /\ m.ok \in BOOLEAN
  BY LenProperties DEF AccountsOK, Accounts
<1>2. m.event_q \o <<>> = m.event_q /\ Len(<<>>) = 0
  BY <1>1
<1> QED BY <1>1, <1>2 DEF Appends, Quiet

LEMMA AppendsTwice ==
  ASSUME NEW m, AccountsOK(m), NEW n, NEW p,
         NEW a \in Seq(Event), NEW b \in Seq(Event),
         Appends(m, n, a), Appends(n, p, b)
  PROVE  Appends(m, p, a \o b)
<1> DEFINE q == m.event_q
<1>1. q \in Seq(Event) /\ EventCap \in Nat
  BY MatchingAssumption DEF AccountsOK, Accounts
<1>2. /\ n.ok <=> (m.ok /\ Len(q) + Len(a) <= EventCap)
      /\ n.ok => n.event_q = q \o a
      /\ p.ok <=> (n.ok /\ Len(n.event_q) + Len(b) <= EventCap)
      /\ p.ok => p.event_q = n.event_q \o b
  BY DEF Appends
<1> HIDE DEF q
<1>3. /\ Len(q) \in Nat /\ Len(a) \in Nat /\ Len(b) \in Nat
      /\ Len(a \o b) = Len(a) + Len(b) /\ Len(q \o a) = Len(q) + Len(a)
  BY <1>1, LenProperties, ConcatProperties
<1>4. (q \o a) \o b = q \o (a \o b)
  <2>1. \A S : \A s, t, u \in Seq(S) : (s \o t) \o u = s \o (t \o u)
    BY ConcatAssociative, Zenon
  <2> QED BY <1>1, <2>1
<1>5. /\ p.ok <=> (m.ok /\ Len(q) + Len(a \o b) <= EventCap)
      /\ p.ok => p.event_q = q \o (a \o b)
  <2>1. CASE n.ok
    <3>1. n.event_q = q \o a
      BY <1>2, <2>1
    <3>2. Len(n.event_q) = Len(q) + Len(a)
      BY <1>3, <3>1
    <3>3. p.ok <=> Len(q) + Len(a) + Len(b) <= EventCap
      BY <1>2, <2>1, <3>2
    <3>4. m.ok /\ (p.ok <=> Len(q) + Len(a \o b) <= EventCap)
      BY <1>2, <1>3, <2>1, <3>3
    <3>5. p.ok => p.event_q = q \o (a \o b)
      BY <1>2, <1>4, <3>1
    <3> QED BY <3>4, <3>5
  <2>2. CASE ~n.ok
    BY <1>1, <1>2, <1>3, <2>2
  <2> QED BY <2>1, <2>2
<1> QED BY <1>5 DEF Appends, q

LEMMA AppendsQuiet ==
  ASSUME NEW m, NEW n, NEW p, NEW a
  PROVE  /\ Appends(m, n, a) /\ Quiet(n, p) => Appends(m, p, a)
         /\ Quiet(m, n) /\ Appends(n, p, a) => Appends(m, p, a)
  BY DEF Appends, Quiet

\* What the ends of a pass leave alone.
Rested(m, n) ==
  n.bids = m.bids /\ n.asks = m.asks /\ n.market = m.market /\ Quiet(m, n)

LEMMA PopFrontDoes ==
  ASSUME NEW m, AccountsOK(m)
  PROVE  Rested(m, pop_front(m)) /\ pop_front(m).req_q = Tail(m.req_q)
  BY DEF AccountsOK, Accounts, Rested, Quiet, pop_front

\* A request with what is left of it.
Reduced(r, coin, pc) ==
  [r EXCEPT !.max_coin_qty = coin, !.native_pc_qty_locked = pc]

LEMMA RemainingDoes ==
  ASSUME NEW m, AccountsOK(m), m.req_q # <<>>, m.req_q[1] \in NewOrderRequest,
         NEW coin \in Nat, NEW pc \in Int
  PROVE  /\ Rested(m, Remaining(m, coin, pc))
         /\ Remaining(m, coin, pc).req_q
              = [m.req_q EXCEPT ![1] = Reduced(m.req_q[1], coin, pc)]
<1> DEFINE r == Reduced(m.req_q[1], coin, pc)
           q == [m.req_q EXCEPT ![1] = r]
<1>1. Remaining(m, coin, pc) = [m EXCEPT !.req_q = q]
  <2>1. m.req_q \in Seq(Request) /\ 1 \in DOMAIN m.req_q
    BY EmptySeq, LenProperties DEF AccountsOK, Accounts
  <2> QED BY <2>1 DEF Remaining, Reduced, AccountsOK, Accounts, NewOrderRequest
<1> HIDE DEF q
<1>2. Rested(m, Remaining(m, coin, pc)) /\ Remaining(m, coin, pc).req_q = q
  BY <1>1 DEF AccountsOK, Accounts, Rested, Quiet
<1> QED BY <1>2 DEF q

LEMMA WithOrdersDoes ==
  ASSUME NEW m, AccountsOK(m), NEW side \in Side, NEW leaves
  PROVE  /\ Book(m, WithOrders(m, side, leaves), side, leaves)
         /\ Aside(m, WithOrders(m, side, leaves))
         /\ Quiet(m, WithOrders(m, side, leaves))
  BY DEF AccountsOK, Accounts, WithOrders, Book, orders, Opposite, Side, Aside,
         Quiet

LEMMA LeaveQuantityDoes ==
  ASSUME NEW m, AccountsOK(m), NEW side \in Side, NEW x, NEW quantity
  PROVE  LET n == LeaveQuantity(m, side, x, quantity)
         IN  /\ Book(m, n, side, Left(m, side, x, quantity))
             /\ Aside(m, n) /\ Quiet(m, n)
<1> DEFINE leaves == Left(m, side, x, quantity)
<1>1. LeaveQuantity(m, side, x, quantity) = WithOrders(m, side, leaves)
  BY DEF LeaveQuantity, Left
<1> HIDE DEF leaves
<1>2. /\ Book(m, WithOrders(m, side, leaves), side, leaves)
      /\ Aside(m, WithOrders(m, side, leaves))
      /\ Quiet(m, WithOrders(m, side, leaves))
  BY WithOrdersDoes
<1> QED BY <1>1, <1>2 DEF leaves

\* What an operator does to one side of the book, the rest put aside.
Moves(m, n, side, leaves, events) ==
  Book(m, n, side, leaves) /\ Aside(m, n) /\ Appends(m, n, events)

LEMMA ProvideOutDoes ==
  ASSUME NEW m, AccountsOK(m), NEW r \in NewOrderRequest,
         NEW maker \in orders(m, Opposite(r.side)),
         NEW trade_qty \in Int, trade_qty <= maker.quantity,
         NEW side, side = Opposite(r.side),
         NEW taken, taken = CancelledProvide(r, maker, trade_qty)
  PROVE  Moves(m, ProvideOut(m, r, maker, trade_qty), side,
           Left(m, side, maker, maker.quantity - taken),
           <<OutEvent(side, maker, NativeLocked(side, taken, maker.id.price),
                      NativeLocked(side, maker.quantity - taken, maker.id.price))>>)
<1> DEFINE price == maker.id.price
           left == maker.quantity - taken
           e == OutEvent(side, maker, NativeLocked(side, taken, price),
                         NativeLocked(side, left, price))
           n == push_back(m, <<e>>)
           p == LeaveQuantity(n, side, maker, left)
<1>1. side \in Side
  BY OrderFields
<1>2. maker \in Leaf /\ maker.quantity \in Nat /\ price \in Positive
  BY <1>1, Maker, LeafFields
<1>3. taken \in Int /\ left \in Nat
  BY <1>2 DEF CancelledProvide
<1>4. e \in Event
  <2>1. NativeLocked(side, taken, price) \in Int /\ NativeLocked(side, left, price) \in Int
    <3> HIDE DEF price, left
    <3> QED BY <1>1, <1>2, <1>3, NativeType
  <2> HIDE DEF price, left
  <2> QED BY <1>1, <1>2, <2>1, LeafFields, OutEventType
<1>5. ProvideOut(m, r, maker, trade_qty) = p
  BY DEF ProvideOut
<1>6. Appends(m, n, <<e>>) /\ Aside(m, n) /\ KeepsOrders(m, n)
  <2> HIDE DEF e
  <2>1. <<e>> \in Seq(Event)
    BY <1>4
  <2> QED BY <2>1, PushAppends
<1>7. /\ Book(n, p, side, Left(n, side, maker, left))
      /\ Aside(n, p) /\ Quiet(n, p)
  <2> HIDE DEF n, left
  <2> QED BY <1>1, <1>6, LeaveQuantityDoes DEF KeepsOrders, Keeps, KeepsBooks
<1> HIDE DEF e, n, p, left
<1>8. Left(n, side, maker, left) = Left(m, side, maker, left)
  BY <1>6 DEF Left, orders, KeepsOrders
<1>9. Book(m, p, side, Left(m, side, maker, left))
  BY <1>6, <1>7, <1>8 DEF Book, orders, KeepsOrders
<1>10. Aside(m, p) /\ Appends(m, p, <<e>>)
  BY <1>6, <1>7, AppendsQuiet DEF Aside
<1> QED BY <1>5, <1>9, <1>10 DEF Moves, e, left

\* A trade of quantity lots at the price of the maker: native_pc, fee, rebate.
TradedPc(maker, quantity) == quantity * maker.id.price * PcLot

TradeFee(r, maker, quantity) ==
  taker_fee(r.fee_tier, TradedPc(maker, quantity))

TradeRebate(maker, quantity) ==
  maker_rebate(maker.fee_tier, TradedPc(maker, quantity))

FillsOf(r, maker, quantity) ==
  TradeEvents(r, maker, quantity, TradedPc(maker, quantity),
              TradeFee(r, maker, quantity), TradeRebate(maker, quantity))

LEMMA TradeTypes ==
  ASSUME NEW r \in NewOrderRequest, NEW maker \in Leaf, NEW quantity \in Int
  PROVE  /\ TradedPc(maker, quantity) \in Int
         /\ TradeFee(r, maker, quantity) \in Int
         /\ TradeRebate(maker, quantity) \in Int
         /\ FillsOf(r, maker, quantity) \in Seq(Event)
<1>1. TradedPc(maker, quantity) \in Int
  BY LeafFields, NativeType DEF TradedPc, Side
<1>2. TradeFee(r, maker, quantity) \in Int /\ TradeRebate(maker, quantity) \in Int
  BY <1>1, LeafFields, OrderFields, FeeTypesOf DEF TradeFee, TradeRebate
<1>3. FillsOf(r, maker, quantity) \in Seq(Event)
  BY <1>1, <1>2, TradeEventsType DEF FillsOf
<1> QED BY <1>1, <1>2, <1>3

LEMMA TradeDoes ==
  ASSUME NEW m, AccountsOK(m), NEW r \in NewOrderRequest,
         NEW maker \in orders(m, Opposite(r.side)),
         NEW quantity \in Int, quantity <= maker.quantity,
         NEW side, side = Opposite(r.side)
  PROVE  LET n == Trade(m, r, maker, quantity)
         IN  /\ Book(m, n, side, Left(m, side, maker, maker.quantity - quantity))
             /\ n.req_q = m.req_q
             /\ n.market = Accrued(m.market, TradeFee(r, maker, quantity),
                                   TradeRebate(maker, quantity))
             /\ Appends(m, n, FillsOf(r, maker, quantity))
<1> DEFINE fee == TradeFee(r, maker, quantity)
           rebate == TradeRebate(maker, quantity)
           events == FillsOf(r, maker, quantity)
           left == maker.quantity - quantity
           n == push_back(m, events)
           p == AccrueFees(n, fee, rebate)
           q == LeaveQuantity(p, side, maker, left)
<1>1. Trade(m, r, maker, quantity) = q
  BY DEF Trade, FillsOf, TradedPc, TradeFee, TradeRebate
<1>2. side \in Side /\ maker \in Leaf
  BY OrderFields, Maker
<1>3. fee \in Int /\ rebate \in Int /\ events \in Seq(Event)
  BY <1>2, TradeTypes
<1> HIDE DEF fee, rebate, events, left
<1>4. Appends(m, n, events) /\ Aside(m, n) /\ KeepsOrders(m, n) /\ AccountsOK(n)
  BY <1>3, PushAppends DEF KeepsOrders, Keeps, KeepsBooks
<1> HIDE DEF n
<1>5. KeepsOrders(n, p) /\ AccountsOK(p)
  BY <1>3, <1>4, AccrueFeesKeeps DEF KeepsOrders, Keeps, KeepsBooks
<1>6. Quiet(n, p) /\ p.market = Accrued(n.market, fee, rebate)
  BY <1>4 DEF AccrueFees, Quiet, AccountsOK, Accounts
<1> HIDE DEF p
<1>7. /\ Book(p, q, side, Left(p, side, maker, left))
      /\ Aside(p, q) /\ Quiet(p, q)
  BY <1>2, <1>5, LeaveQuantityDoes
<1> HIDE DEF q
<1>8. Left(p, side, maker, left) = Left(m, side, maker, left)
  BY <1>4, <1>5 DEF Left, orders, KeepsOrders
<1>9. Book(m, q, side, Left(m, side, maker, left))
  BY <1>4, <1>5, <1>7, <1>8 DEF Book, orders, KeepsOrders
<1>10. Appends(m, q, events)
  BY <1>4, <1>6, <1>7, AppendsQuiet
<1>11. q.req_q = m.req_q /\ q.market = Accrued(m.market, fee, rebate)
  BY <1>4, <1>5, <1>6, <1>7 DEF Aside, KeepsOrders, Keeps
<1> QED BY <1>1, <1>9, <1>10, <1>11 DEF fee, rebate, events, left

\* A request on its way to the book.
LeafOf(r, quantity) ==
  [id |-> r.id, owner |-> r.owner, owner_slot |-> r.owner_slot,
   quantity |-> quantity, fee_tier |-> r.fee_tier, client_id |-> r.client_id]

\* What a resting order holds of the funds of its owner.
Worth(side, x) == NativeLocked(side, x.quantity, x.id.price)

\* The Out of an order that leaves the book for good.
BootEvent(side, x) == OutEvent(side, x, Worth(side, x), 0)

LEMMA WorthType ==
  ASSUME NEW side \in Side, NEW x \in Leaf
  PROVE  Worth(side, x) \in Int /\ BootEvent(side, x) \in Event
<1>1. Worth(side, x) \in Int
  BY LeafFields, NativeType DEF Worth
<1> QED BY <1>1, LeafFields, OutEventType DEF BootEvent

LEMMA InsertLeafDoes ==
  ASSUME NEW m, AccountsOK(m), NEW side \in Side, NEW r \in NewOrderRequest,
         NEW quantity \in Nat
  PROVE  LET n == insert_leaf(m, side, r, quantity)
         IN  \/ Moves(m, n, side, orders(m, side) \cup {LeafOf(r, quantity)}, <<>>)
             \/ \E worst \in orders(m, side) :
                  Moves(m, n, side,
                    (orders(m, side) \ {worst}) \cup {LeafOf(r, quantity)},
                    <<BootEvent(side, worst)>>)
<1> DEFINE leaf  == LeafOf(r, quantity)
           book  == orders(m, side)
           worst == LeastAggressive(m, side)
           n == insert_leaf(m, side, r, quantity)
<1>1. leaf \in Leaf
  BY DEF Leaf, NewOrderRequest, LeafOf
<1>2. IsBook(book)
  <2>1. IsBook({})
    BY FS_EmptySet, MatchingAssumption DEF IsBook
  <2> QED BY <2>1, Orders
<1>3. Cardinality(book) \in Nat /\ BookCap \in Nat \ {0}
  BY <1>2, FS_CardinalityType, MatchingAssumption DEF IsBook
<1>4. CASE Cardinality(book) < BookCap
  <2> DEFINE leaves == book \cup {leaf}
  <2>1. n = WithOrders(m, side, leaves)
    BY <1>4 DEF insert_leaf, LeafOf
  <2> HIDE DEF leaves, n
  <2>2. Book(m, n, side, leaves) /\ Aside(m, n) /\ Quiet(m, n)
    BY <2>1, WithOrdersDoes
  <2>3. Moves(m, n, side, leaves, <<>>)
    BY <2>2, AppendsNothing DEF Moves
  <2> QED BY <2>3 DEF leaves, n
<1>5. CASE ~(Cardinality(book) < BookCap)
  <2>1. book # {}
    BY <1>3, <1>5, FS_EmptySet
  <2>2. worst \in book
    BY <2>1, <1>2, BestExists DEF LeastAggressive, orders
  <2>3. IsBook((book \ {worst}) \cup {leaf})
    <3> HIDE DEF leaf, book, worst
    <3> QED BY <1>1, <1>2, <2>2, ReplaceLeaf
  <2> DEFINE leaves == (book \ {worst}) \cup {leaf}
             p == WithOrders(m, side, leaves)
             e == BootEvent(side, worst)
  <2>4. n = push_back(p, <<e>>)
    BY <1>5 DEF insert_leaf, LeafOf, BootEvent, Worth
  <2>5. worst \in Leaf
    BY <2>2, <1>2 DEF IsBook
  <2>6. e \in Event
    <3> HIDE DEF worst
    <3> QED BY <2>5, WorthType
  <2> HIDE DEF leaves, e, n
  <2>7. Book(m, p, side, leaves) /\ Aside(m, p) /\ Quiet(m, p)
    BY WithOrdersDoes
  <2>8. AccountsOK(p)
    <3>1. IsBook(leaves)
      BY <2>3 DEF leaves
    <3> QED BY <3>1, Orders DEF Keeps, KeepsBooks
  <2> HIDE DEF p
  <2>9. Appends(p, n, <<e>>) /\ Aside(p, n) /\ KeepsOrders(p, n)
    <3>1. <<e>> \in Seq(Event)
      BY <2>6
    <3> QED BY <2>4, <2>8, <3>1, PushAppends
  <2>10. Book(m, n, side, leaves)
    BY <2>7, <2>9 DEF Book, orders, KeepsOrders
  <2>11. Moves(m, n, side, leaves, <<e>>)
    BY <2>7, <2>9, <2>10, AppendsQuiet DEF Moves, Aside
  <2> QED BY <2>2, <2>11 DEF leaves, n, e
<1> QED BY <1>4, <1>5

-----------------------------------------------------------------------------
(* The shapes of a pass                                                    *)

\* The locked funds that a request still holds.
HeldBy(r) ==
  IF r.side = "Bid" THEN r.native_pc_qty_locked ELSE r.max_coin_qty * CoinLot

\* A bid has something locked.
Pays(r) == r.side = "Bid" => r.native_pc_qty_locked > 0

\* The prices of a request and of a resting order meet.
Crosses(r, x) ==
  IF r.side = "Bid" THEN r.id.price >= x.id.price ELSE r.id.price <= x.id.price

\* The request is done with, or waits for another pass with what is left of it.
Served(m, n) == n.req_q = Tail(m.req_q)

Waits(m, n, r, coin, pc) ==
  /\ coin \in Nat /\ pc \in Int /\ Pays(Reduced(r, coin, pc))
  /\ n.req_q = [m.req_q EXCEPT ![1] = Reduced(r, coin, pc)]

\* A cancel takes an order of the account off the book, or finds none.
Cancels(m, n, r) ==
  /\ r \in CancelRequest /\ n.market = m.market /\ Served(m, n)
  /\ \/ n.bids = m.bids /\ n.asks = m.asks /\ Appends(m, n, <<>>)
     \/ \E x \in orders(m, r.side) :
          /\ x.id = r.id /\ x.owner = r.owner /\ x.owner_slot = r.owner_slot
          /\ Book(m, n, r.side, orders(m, r.side) \ {x})
          /\ Appends(m, n, <<BootEvent(r.side, x)>>)

\* An order that may not rest gives everything back.
Drops(m, n, r) ==
  /\ r \in NewOrderRequest /\ n.market = m.market /\ Served(m, n)
  /\ n.bids = m.bids /\ n.asks = m.asks
  /\ Appends(m, n, <<OutEvent(r.side, r, HeldBy(r), 0)>>)

\* A bid that rests keeps locked what the posted lots are worth.
PostEvents(r, quantity) ==
  IF r.side = "Bid"
  THEN <<OutEvent("Bid", r, HeldBy(r) - Worth("Bid", LeafOf(r, quantity)),
                  Worth("Bid", LeafOf(r, quantity)))>>
  ELSE <<>>

\* The rest of an order goes on the book; a full side boots an order for it.
Placed(m, n, side, leaf, events) ==
  /\ Served(m, n) /\ n.market = m.market
  /\ \/ /\ Book(m, n, side, orders(m, side) \cup {leaf})
        /\ Appends(m, n, events)
     \/ \E worst \in orders(m, side) :
          /\ Book(m, n, side, (orders(m, side) \ {worst}) \cup {leaf})
          /\ Appends(m, n, events \o <<BootEvent(side, worst)>>)

\* InitializeMarket does not ask whether lots have a size.
LotsHaveSize == CoinLot # 0 /\ PcLot # 0

\* What is posted meets no order of the other side, and is worth something.
Posts(m, n, r, quantity) ==
  /\ r \in NewOrderRequest /\ post_allowed(r)
  /\ \A y \in orders(m, Opposite(r.side)) : ~Crosses(r, y)
  /\ quantity \in Positive
  /\ Worth(r.side, LeafOf(r, quantity)) \in Nat
  /\ LotsHaveSize => Worth(r.side, LeafOf(r, quantity)) > 0
  /\ Worth(r.side, LeafOf(r, quantity)) <= HeldBy(r)
  /\ r.side = "Ask" => Worth(r.side, LeafOf(r, quantity)) = HeldBy(r)
  /\ Placed(m, n, r.side, LeafOf(r, quantity), PostEvents(r, quantity))

\* A maker that gives up taken lots in a self-trade.
ProvideEvent(side, x, taken) ==
  OutEvent(side, x, NativeLocked(side, taken, x.id.price),
           NativeLocked(side, x.quantity - taken, x.id.price))

SelfTrades(m, n, r, x, taken) ==
  /\ r \in NewOrderRequest /\ n.market = m.market
  /\ x \in orders(m, Opposite(r.side)) /\ x.owner = r.owner
  /\ taken \in Nat /\ taken <= x.quantity
  /\ Book(m, n, Opposite(r.side),
          Left(m, Opposite(r.side), x, x.quantity - taken))
  /\ \/ /\ Served(m, n)
        /\ Appends(m, n, <<ProvideEvent(Opposite(r.side), x, taken),
                           OutEvent(r.side, r, HeldBy(r), 0)>>)
     \/ \E coin \in Nat, pc \in Int, still \in Positive :
          /\ Waits(m, n, r, coin, pc)
          /\ HeldBy(Reduced(r, coin, pc)) <= HeldBy(r)
          /\ Appends(m, n, <<ProvideEvent(Opposite(r.side), x, taken),
                             OutEvent(r.side, r,
                               HeldBy(r) - HeldBy(Reduced(r, coin, pc)), still)>>)

\* What a trade takes off the funds that the taker holds.
Cost(r, x, quantity) ==
  IF r.side = "Bid" THEN TradedPc(x, quantity) + TradeFee(r, x, quantity)
                    ELSE quantity * CoinLot

Trades(m, n, r, x, quantity) ==
  /\ r \in NewOrderRequest /\ ~post_only(r)
  /\ x \in orders(m, Opposite(r.side)) /\ x.owner # r.owner
  /\ Crosses(r, x)
  /\ \A y \in orders(m, Opposite(r.side)) :
       ~MoreAggressive(Opposite(r.side), y, x)
  /\ quantity \in Positive /\ quantity <= x.quantity
  /\ Cost(r, x, quantity) <= HeldBy(r)
  /\ n.market = Accrued(m.market, TradeFee(r, x, quantity),
                        TradeRebate(x, quantity))
  /\ Book(m, n, Opposite(r.side),
          Left(m, Opposite(r.side), x, x.quantity - quantity))
  /\ \/ /\ Served(m, n)
        /\ Appends(m, n, FillsOf(r, x, quantity)
             \o <<OutEvent(r.side, r, HeldBy(r) - Cost(r, x, quantity), 0)>>)
     \/ \E coin \in Nat, pc \in Int :
          /\ Waits(m, n, r, coin, pc)
          /\ HeldBy(Reduced(r, coin, pc)) = HeldBy(r) - Cost(r, x, quantity)
          /\ Appends(m, n, FillsOf(r, x, quantity))

Pass(m, n, r) ==
  \/ Cancels(m, n, r)
  \/ Drops(m, n, r)
  \/ \E quantity \in Positive : Posts(m, n, r, quantity)
  \/ \E x \in orders(m, Opposite(r.side)), quantity \in Nat :
       SelfTrades(m, n, r, x, quantity) \/ Trades(m, n, r, x, quantity)

-----------------------------------------------------------------------------
(* Asks                                                                    *)

LEMMA ReducedFields ==
  ASSUME NEW r \in NewOrderRequest, NEW coin \in Nat, NEW pc \in Int
  PROVE  /\ Reduced(r, coin, pc) \in NewOrderRequest
         /\ Reduced(r, coin, pc).side = r.side /\ Reduced(r, coin, pc).id = r.id
         /\ Reduced(r, coin, pc).owner = r.owner
         /\ Reduced(r, coin, pc).owner_slot = r.owner_slot
         /\ Reduced(r, coin, pc).client_id = r.client_id
         /\ Reduced(r, coin, pc).order_type = r.order_type
         /\ Reduced(r, coin, pc).max_coin_qty = coin
         /\ Reduced(r, coin, pc).native_pc_qty_locked = pc
  BY DEF Reduced, NewOrderRequest

\* The ends of a pass: the request leaves, or it waits.
LEMMA PassEnds ==
  ASSUME NEW m, NEW r, AtFront(m, r), NEW n, Keeps(m, n)
  PROVE  /\ Rested(n, pop_front(n)) /\ Served(m, pop_front(n))
         /\ \A coin \in Nat, pc \in Int :
              /\ Rested(n, Remaining(n, coin, pc))
              /\ Pays(Reduced(r, coin, pc))
                   => Waits(m, Remaining(n, coin, pc), r, coin, pc)
<1>1. /\ AccountsOK(n) /\ n.req_q # <<>> /\ n.req_q[1] = r
      /\ n.req_q = m.req_q /\ r \in NewOrderRequest
  BY DEF AtFront, Keeps, KeepsBooks
<1>2. Rested(n, pop_front(n)) /\ pop_front(n).req_q = Tail(n.req_q)
  BY <1>1, PopFrontDoes
<1>3. \A coin \in Nat, pc \in Int :
        /\ Rested(n, Remaining(n, coin, pc))
        /\ Remaining(n, coin, pc).req_q
             = [n.req_q EXCEPT ![1] = Reduced(n.req_q[1], coin, pc)]
  BY <1>1, RemainingDoes
<1> QED BY <1>1, <1>2, <1>3 DEF Served, Waits

\* A rest changes nothing of what was done before it.
LEMMA RestedAfter ==
  ASSUME NEW m, NEW n, NEW p, Rested(n, p)
  PROVE  /\ \A a : Appends(m, n, a) => Appends(m, p, a)
         /\ \A side, leaves : Book(m, n, side, leaves) => Book(m, p, side, leaves)
         /\ p.market = n.market /\ p.bids = n.bids /\ p.asks = n.asks
  BY DEF Rested, Quiet, Appends, Book, orders

\* The two Outs of a self-trade.
SelfTraded(m, n, r, x, taken, unlocked, still) ==
  /\ Keeps(m, n) /\ n.market = m.market
  /\ Book(m, n, Opposite(r.side),
          Left(m, Opposite(r.side), x, x.quantity - taken))
  /\ Appends(m, n, <<ProvideEvent(Opposite(r.side), x, taken),
                     OutEvent(r.side, r, unlocked, still)>>)
  /\ taken \in Nat /\ taken <= x.quantity

LEMMA SelfTradeOuts ==
  ASSUME NEW m, NEW r, AtFront(m, r), NEW x \in orders(m, Opposite(r.side)),
         NEW quantity \in Nat, quantity <= x.quantity,
         NEW unlocked \in Int, NEW still \in Int,
         NEW taken, taken = CancelledProvide(r, x, quantity)
  PROVE  SelfTraded(m, push_back(ProvideOut(m, r, x, quantity),
                                 <<OutEvent(r.side, r, unlocked, still)>>),
                    r, x, taken, unlocked, still)
<1> DEFINE side == Opposite(r.side)
           a == ProvideEvent(side, x, taken)
           b == OutEvent(r.side, r, unlocked, still)
           n == ProvideOut(m, r, x, quantity)
           p == push_back(n, <<b>>)
           leaves == Left(m, side, x, x.quantity - taken)
<1>1. /\ r \in NewOrderRequest /\ AccountsOK(m) /\ r.side \in Side /\ side \in Side
      /\ Identified(r)
  BY OrderFields DEF AtFront
<1>2. x \in Leaf /\ x.quantity \in Nat /\ x.id.price \in Positive /\ Identified(x)
  BY <1>1, Maker, LeafFields
<1>3. taken \in Nat /\ taken <= x.quantity
  BY <1>2 DEF CancelledProvide
<1>4. Moves(m, n, side, leaves, <<a>>)
  BY <1>1, ProvideOutDoes DEF ProvideEvent
<1>5. Keeps(m, n)
  BY <1>1, ProvideOutKeeps
<1>6. a \in Event /\ b \in Event
  <2>1. b \in Event
    BY <1>1, OutEventType
  <2>2. /\ NativeLocked(side, taken, x.id.price) \in Int
        /\ NativeLocked(side, x.quantity - taken, x.id.price) \in Int
    <3> HIDE DEF side
    <3>1. taken \in Int /\ x.quantity - taken \in Int
      BY <1>2, <1>3
    <3> QED BY <1>1, <1>2, <3>1, NativeType
  <2>3. a \in Event
    <3> HIDE DEF side
    <3> QED BY <1>1, <1>2, <2>2, OutEventType DEF ProvideEvent
  <2> QED BY <2>1, <2>3
<1> HIDE DEF a, b, n, leaves
<1>7. Appends(n, p, <<b>>) /\ Aside(n, p) /\ KeepsOrders(n, p)
  <2>1. <<b>> \in Seq(Event) /\ AccountsOK(n)
    BY <1>5, <1>6 DEF Keeps, KeepsBooks
  <2> QED BY <2>1, PushAppends
<1>8. Appends(m, p, <<a, b>>)
  <2>1. Appends(m, p, <<a>> \o <<b>>)
    <3>1. <<a>> \in Seq(Event) /\ <<b>> \in Seq(Event) /\ Appends(m, n, <<a>>)
      BY <1>4, <1>6 DEF Moves
    <3> QED BY <1>1, <1>7, <3>1, AppendsTwice
  <2>2. <<a>> \o <<b>> = <<a, b>>
    BY <1>6, PairOf
  <2> QED BY <2>1, <2>2
<1> HIDE DEF p
<1>9. Book(m, p, side, leaves) /\ p.market = m.market /\ Keeps(m, p)
  <2>1. Keeps(m, p)
    BY <1>5, <1>7, Transitive
  <2> QED BY <2>1, <1>4, <1>7 DEF Moves, Book, orders, KeepsOrders, Aside
<1> QED BY <1>3, <1>8, <1>9 DEF SelfTraded, a, b, n, p, leaves

LEMMA AskSelfTradePass ==
  ASSUME NEW m, NEW r, AtFront(m, r), r.side = "Ask", NEW x \in orders(m, "Bid"),
         NEW quantity \in Nat, quantity <= x.quantity, quantity <= r.max_coin_qty,
         x.owner = r.owner
  PROVE  SelfTrades(m, AskSelfTrade(m, r, x, quantity), r, x,
                    CancelledProvide(r, x, quantity))
<1> DEFINE taken == CancelledTake(r, quantity)
           given == CancelledProvide(r, x, quantity)
           unfilled == r.max_coin_qty - taken
           unlocked == taken * CoinLot
           out == push_back(ProvideOut(m, r, x, quantity),
                            <<OutEvent("Ask", r, unlocked, unfilled)>>)
           n == AskSelfTrade(m, r, x, quantity)
<1>1. /\ r \in NewOrderRequest /\ r.max_coin_qty \in Nat /\ Opposite(r.side) = "Bid"
  BY OrderFields DEF AtFront, Opposite
<1>2. /\ taken \in Nat /\ unfilled \in Nat /\ unlocked \in Int
      /\ CoinLot \in Nat
  BY <1>1, MatchingAssumption DEF CancelledTake
<1>3. /\ Keeps(m, out) /\ out.market = m.market
      /\ Book(m, out, "Bid", Left(m, "Bid", x, x.quantity - given))
      /\ Appends(m, out, <<ProvideEvent("Bid", x, given),
                           OutEvent("Ask", r, unlocked, unfilled)>>)
      /\ given \in Nat /\ given <= x.quantity
  <2> HIDE DEF given, unlocked, unfilled
  <2>1. x \in orders(m, Opposite(r.side)) /\ given = CancelledProvide(r, x, quantity)
    BY <1>1 DEF given
  <2>2. unlocked \in Int /\ unfilled \in Int
    BY <1>2
  <2>3. SelfTraded(m, out, r, x, given, unlocked, unfilled)
    BY <1>1, <2>1, <2>2, SelfTradeOuts
  <2> HIDE DEF out
  <2> QED BY <1>1, <2>3 DEF SelfTraded
<1>4. n = IF unfilled = 0 THEN pop_front(out) ELSE Remaining(out, unfilled, 0)
  BY DEF AskSelfTrade
<1>5. HeldBy(r) = r.max_coin_qty * CoinLot
  BY DEF HeldBy
<1>6. Rested(out, n)
  <2> HIDE DEF out, unfilled, n
  <2> QED BY <1>2, <1>3, <1>4, PassEnds
<1>7. /\ n.market = m.market
      /\ Book(m, n, "Bid", Left(m, "Bid", x, x.quantity - given))
      /\ Appends(m, n, <<ProvideEvent("Bid", x, given),
                         OutEvent("Ask", r, unlocked, unfilled)>>)
  <2> HIDE DEF out, unfilled, n, unlocked, given
  <2> QED BY <1>3, <1>6, RestedAfter
<1>8. CASE unfilled = 0
  <2>1. Served(m, n)
    <3> HIDE DEF out, unfilled, n
    <3> QED BY <1>3, <1>4, <1>8, PassEnds
  <2>2. unlocked = HeldBy(r)
    <3>1. r.max_coin_qty = taken
      BY <1>1, <1>2, <1>8
    <3> QED BY <1>5, <3>1
  <2> HIDE DEF out, unfilled, n, unlocked, given
  <2> QED BY <1>1, <1>3, <1>7, <1>8, <2>1, <2>2 DEF SelfTrades, n, given
<1>9. CASE unfilled # 0
  <2> DEFINE rest == Reduced(r, unfilled, 0)
  <2>1. rest.side = "Ask" /\ rest.max_coin_qty = unfilled
    <3>1. 0 \in Int
      OBVIOUS
    <3> HIDE DEF unfilled
    <3> QED BY <1>1, <1>2, <3>1, ReducedFields
  <2>2. Pays(rest) /\ HeldBy(rest) = unfilled * CoinLot
    <3> HIDE DEF rest
    <3> QED BY <2>1 DEF Pays, HeldBy
  <2>3. unlocked = HeldBy(r) - HeldBy(rest) /\ HeldBy(rest) <= HeldBy(r)
    <3>1. unfilled * CoinLot = r.max_coin_qty * CoinLot - taken * CoinLot
      BY <1>1, <1>2
    <3>2. taken * CoinLot \in Nat /\ r.max_coin_qty * CoinLot \in Nat
      BY <1>1, <1>2
    <3> QED BY <1>5, <2>2, <3>1, <3>2
  <2>4. Waits(m, n, r, unfilled, 0)
    <3> HIDE DEF out, unfilled, n
    <3> QED BY <1>2, <1>3, <1>4, <1>9, <2>2, PassEnds
  <2>5. unfilled \in Positive
    BY <1>2, <1>9 DEF Positive
  <2>6. 0 \in Int
    OBVIOUS
  <2> HIDE DEF out, unfilled, n, unlocked, given
  <2> QED BY <1>1, <1>2, <1>3, <1>7, <1>9, <2>3, <2>4, <2>5, <2>6 DEF SelfTrades, n, given
<1> QED BY <1>8, <1>9

\* The fills of a trade and what may follow them.
LEMMA TradeFills ==
  ASSUME NEW m, NEW r, AtFront(m, r), NEW x \in orders(m, Opposite(r.side)),
         NEW quantity \in Nat, quantity <= x.quantity, NEW unlocked \in Int
  PROVE  LET n == Trade(m, r, x, quantity)
             p == push_back(n, <<OutEvent(r.side, r, unlocked, 0)>>)
         IN  /\ \A q \in {n, p} :
                  /\ Keeps(m, q)
                  /\ Book(m, q, Opposite(r.side),
                          Left(m, Opposite(r.side), x, x.quantity - quantity))
                  /\ q.market = Accrued(m.market, TradeFee(r, x, quantity),
                                        TradeRebate(x, quantity))
             /\ Appends(m, n, FillsOf(r, x, quantity))
             /\ Appends(m, p, FillsOf(r, x, quantity)
                                \o <<OutEvent(r.side, r, unlocked, 0)>>)
<1> DEFINE side == Opposite(r.side)
           events == FillsOf(r, x, quantity)
           b == OutEvent(r.side, r, unlocked, 0)
           n == Trade(m, r, x, quantity)
           p == push_back(n, <<b>>)
           leaves == Left(m, side, x, x.quantity - quantity)
           money == Accrued(m.market, TradeFee(r, x, quantity), TradeRebate(x, quantity))
<1>1. /\ r \in NewOrderRequest /\ AccountsOK(m) /\ r.side \in Side /\ side \in Side
      /\ Identified(r)
  BY OrderFields DEF AtFront
<1>2. x \in Leaf /\ quantity \in Int
  BY <1>1, Maker
<1>3. /\ Book(m, n, side, leaves) /\ n.req_q = m.req_q /\ n.market = money
      /\ Appends(m, n, events)
  BY <1>1, <1>2, TradeDoes
<1>4. Keeps(m, n)
  BY <1>1, <1>2, TradeKeeps
<1>5. events \in Seq(Event) /\ <<b>> \in Seq(Event)
  <2>1. b \in Event
    BY <1>1, OutEventType
  <2> HIDE DEF b
  <2> QED BY <1>1, <1>2, <2>1, TradeTypes
<1> HIDE DEF events, b, n, leaves, money, side
<1>6. Appends(n, p, <<b>>) /\ Aside(n, p) /\ KeepsOrders(n, p)
  BY <1>4, <1>5, PushAppends DEF Keeps, KeepsBooks
<1>7. Appends(m, p, events \o <<b>>)
  BY <1>1, <1>3, <1>5, <1>6, AppendsTwice
<1> HIDE DEF p
<1>8. Book(m, p, side, leaves) /\ p.market = money /\ Keeps(m, p)
  <2>1. Keeps(m, p)
    BY <1>4, <1>6, Transitive
  <2> QED BY <2>1, <1>3, <1>6 DEF Book, orders, KeepsOrders, Aside
<1> QED BY <1>3, <1>4, <1>7, <1>8 DEF events, b, n, p, leaves, money, side

LEMMA AskTradePass ==
  ASSUME NEW m, NEW r, AtFront(m, r), r.side = "Ask", NEW x \in orders(m, "Bid"),
         NEW quantity \in Positive, quantity <= x.quantity,
         quantity <= r.max_coin_qty, x.owner # r.owner, ~post_only(r),
         Crosses(r, x), \A y \in orders(m, "Bid") : ~MoreAggressive("Bid", y, x)
  PROVE  Trades(m, AskTrade(m, r, x, quantity), r, x, quantity)
<1> DEFINE unfilled == r.max_coin_qty - quantity
           traded == Trade(m, r, x, quantity)
           out == push_back(traded, <<OutEvent("Ask", r, 0, 0)>>)
           n == AskTrade(m, r, x, quantity)
           leaves == Left(m, "Bid", x, x.quantity - quantity)
           money == Accrued(m.market, TradeFee(r, x, quantity), TradeRebate(x, quantity))
           cost == quantity * CoinLot
           held == r.max_coin_qty * CoinLot
<1>1. /\ r \in NewOrderRequest /\ r.max_coin_qty \in Nat /\ Opposite(r.side) = "Bid"
  BY OrderFields DEF AtFront, Opposite
<1>2. unfilled \in Nat /\ CoinLot \in Nat /\ 0 \in Int /\ quantity \in Nat
  BY <1>1, MatchingAssumption DEF Positive
<1>3. /\ \A q \in {traded, out} :
           Keeps(m, q) /\ Book(m, q, "Bid", leaves) /\ q.market = money
      /\ Appends(m, traded, FillsOf(r, x, quantity))
      /\ Appends(m, out, FillsOf(r, x, quantity) \o <<OutEvent("Ask", r, 0, 0)>>)
  <2>1. x \in orders(m, Opposite(r.side))
    BY <1>1
  <2> QED BY <1>1, <1>2, <2>1, TradeFills
<1>4. n = IF unfilled = 0 THEN pop_front(out) ELSE Remaining(traded, unfilled, 0)
  BY DEF AskTrade
<1>5. /\ HeldBy(r) = held /\ Cost(r, x, quantity) = cost
      /\ held \in Nat /\ cost \in Nat /\ cost <= held
      /\ held - cost = unfilled * CoinLot
  <2>1. HeldBy(r) = held /\ Cost(r, x, quantity) = cost
    BY DEF HeldBy, Cost
  <2>2. held \in Nat /\ cost \in Nat /\ held - cost = unfilled * CoinLot
    BY <1>1, <1>2
  <2>3. unfilled * CoinLot \in Nat
    BY <1>2
  <2> HIDE DEF held, cost
  <2> QED BY <2>1, <2>2, <2>3
<1> HIDE DEF leaves, money, cost, held
<1>6. CASE unfilled = 0
  <2>1. Rested(out, n) /\ Served(m, n)
    <3> HIDE DEF out, traded, unfilled, n
    <3> QED BY <1>3, <1>4, <1>6, PassEnds
  <2>2. HeldBy(r) - Cost(r, x, quantity) = 0
    <3>1. unfilled * CoinLot = 0
      BY <1>2, <1>6
    <3> QED BY <1>5, <3>1
  <2> HIDE DEF out, traded, unfilled, n
  <2>3. /\ Book(m, n, "Bid", leaves) /\ n.market = money
        /\ Appends(m, n, FillsOf(r, x, quantity) \o <<OutEvent("Ask", r, 0, 0)>>)
    BY <1>3, <2>1, RestedAfter
  <2> QED BY <1>1, <1>5, <2>1, <2>2, <2>3 DEF Trades, n, leaves, money
<1>7. CASE unfilled # 0
  <2> DEFINE rest == Reduced(r, unfilled, 0)
  <2>1. rest.side = "Ask" /\ rest.max_coin_qty = unfilled
    <3> HIDE DEF unfilled
    <3> QED BY <1>1, <1>2, ReducedFields
  <2>2. Pays(rest) /\ HeldBy(rest) = unfilled * CoinLot
    <3> HIDE DEF rest
    <3> QED BY <2>1 DEF Pays, HeldBy
  <2>3. Rested(traded, n) /\ Waits(m, n, r, unfilled, 0)
    <3> HIDE DEF out, traded, unfilled, n
    <3> QED BY <1>2, <1>3, <1>4, <1>7, <2>2, PassEnds
  <2> HIDE DEF out, traded, unfilled, n
  <2>4. /\ Book(m, n, "Bid", leaves) /\ n.market = money
        /\ Appends(m, n, FillsOf(r, x, quantity))
    BY <1>3, <2>3, RestedAfter
  <2> QED BY <1>1, <1>2, <1>5, <2>2, <2>3, <2>4 DEF Trades, n, leaves, money
<1> QED BY <1>6, <1>7

LEMMA InsertPass ==
  ASSUME NEW m, NEW n, NEW r \in NewOrderRequest, NEW quantity \in Nat,
         AccountsOK(m), KeepsOrders(m, n), Aside(m, n),
         NEW events \in Seq(Event), Appends(m, n, events)
  PROVE  Placed(m, pop_front(insert_leaf(n, r.side, r, quantity)), r.side,
                LeafOf(r, quantity), events)
<1> DEFINE side == r.side
           put == insert_leaf(n, side, r, quantity)
           p == pop_front(put)
           leaf == LeafOf(r, quantity)
<1>1. AccountsOK(n) /\ side \in Side /\ m.req_q = n.req_q
  BY OrderFields DEF KeepsOrders, Keeps, KeepsBooks
<1>2. AccountsOK(put)
  <2>1. Keeps(n, put)
    BY <1>1, InsertLeafKeeps
  <2> QED BY <2>1 DEF Keeps, KeepsBooks
<1>3. orders(n, side) = orders(m, side) /\ orders(n, Opposite(side)) = orders(m, Opposite(side))
  BY DEF orders, KeepsOrders
<1> HIDE DEF side
<1>4. \/ Moves(n, put, side, orders(n, side) \cup {leaf}, <<>>)
      \/ \E worst \in orders(n, side) :
           Moves(n, put, side, (orders(n, side) \ {worst}) \cup {leaf},
                 <<BootEvent(side, worst)>>)
  BY <1>1, InsertLeafDoes
<1> HIDE DEF put, leaf
<1>5. Rested(put, p) /\ p.req_q = Tail(put.req_q)
  BY <1>2, PopFrontDoes
<1> HIDE DEF p
<1>6. CASE Moves(n, put, side, orders(n, side) \cup {leaf}, <<>>)
  <2>1. Book(m, put, side, orders(m, side) \cup {leaf}) /\ Aside(n, put)
    BY <1>3, <1>6 DEF Moves, Book
  <2>2. Appends(m, put, events)
    <3>1. Appends(m, put, events \o <<>>)
      <4>1. <<>> \in Seq(Event) /\ Appends(n, put, <<>>)
        BY <1>6 DEF Moves
      <4> QED BY <4>1, AppendsTwice
    <3>2. events \o <<>> = events
      OBVIOUS
    <3> QED BY <3>1, <3>2
  <2>3. /\ Book(m, p, side, orders(m, side) \cup {leaf}) /\ Appends(m, p, events)
        /\ p.market = put.market
    BY <1>5, <2>1, <2>2, RestedAfter
  <2>4. Served(m, p) /\ p.market = m.market
    BY <1>1, <1>5, <2>1, <2>3 DEF Served, Aside
  <2> QED BY <2>3, <2>4 DEF Placed, p, put, leaf, side
<1>7. ASSUME NEW worst \in orders(n, side),
             Moves(n, put, side, (orders(n, side) \ {worst}) \cup {leaf},
                   <<BootEvent(side, worst)>>)
      PROVE  /\ Served(m, p) /\ p.market = m.market
             /\ Book(m, p, side, (orders(m, side) \ {worst}) \cup {leaf})
             /\ Appends(m, p, events \o <<BootEvent(side, worst)>>)
  <2> DEFINE e == BootEvent(side, worst)
  <2>1. Book(m, put, side, (orders(m, side) \ {worst}) \cup {leaf}) /\ Aside(n, put)
    BY <1>3, <1>7 DEF Moves, Book
  <2>2. e \in Event
    BY <1>1, Maker, WorthType
  <2> HIDE DEF e
  <2>3. Appends(m, put, events \o <<e>>)
    <3>1. <<e>> \in Seq(Event) /\ Appends(n, put, <<e>>)
      BY <1>7, <2>2 DEF Moves, e
    <3> QED BY <3>1, AppendsTwice
  <2>4. /\ Book(m, p, side, (orders(m, side) \ {worst}) \cup {leaf})
        /\ Appends(m, p, events \o <<e>>) /\ p.market = put.market
    BY <1>5, <2>1, <2>3, RestedAfter
  <2>5. Served(m, p) /\ p.market = m.market
    BY <1>1, <1>5, <2>1, <2>4 DEF Served, Aside
  <2> QED BY <2>4, <2>5 DEF e
<1> QED BY <1>3, <1>4, <1>6, <1>7 DEF Placed, p, put, leaf, side

LEMMA AskRestPass ==
  ASSUME NEW m, NEW r, AtFront(m, r), r.side = "Ask", NEW crossed \in BOOLEAN,
         ~crossed => \A y \in orders(m, "Bid") : ~Crosses(r, y)
  PROVE  LET n == AskRest(m, r, crossed)
         IN  Drops(m, n, r) \/ Posts(m, n, r, r.max_coin_qty)
<1> DEFINE n == AskRest(m, r, crossed)
           quantity == r.max_coin_qty
           rests == post_allowed(r) /\ ~crossed /\ quantity > 0
<1>1. /\ r \in NewOrderRequest /\ quantity \in Nat /\ Opposite(r.side) = "Bid"
      /\ AccountsOK(m) /\ r.side \in Side /\ Identified(r) /\ r.id.price \in Positive
  BY OrderFields DEF AtFront, Opposite
<1>2. HeldBy(r) = quantity * CoinLot
  BY DEF HeldBy
<1>3. CASE rests
  <2>1. n = pop_front(insert_leaf(m, "Ask", r, quantity))
    BY <1>3 DEF AskRest
  <2>2. Appends(m, m, <<>>) /\ <<>> \in Seq(Event) /\ KeepsOrders(m, m) /\ Aside(m, m)
    BY <1>1, AppendsNothing DEF KeepsOrders, Keeps, KeepsBooks, Quiet, Aside
  <2>3. Placed(m, n, "Ask", LeafOf(r, quantity), <<>>)
    BY <1>1, <2>1, <2>2, InsertPass
  <2>4. PostEvents(r, quantity) = <<>>
    BY DEF PostEvents
  <2>5. /\ Worth("Ask", LeafOf(r, quantity)) = HeldBy(r)
        /\ HeldBy(r) \in Nat /\ quantity \in Positive
        /\ LotsHaveSize => HeldBy(r) > 0
    <3>1. Worth("Ask", LeafOf(r, quantity)) = HeldBy(r)
      BY <1>2 DEF Worth, NativeLocked, LeafOf
    <3>2. quantity * CoinLot \in Nat
      BY <1>1, MatchingAssumption
    <3>3. ASSUME LotsHaveSize PROVE quantity * CoinLot > 0
      <4>1. quantity \in Nat \ {0} /\ CoinLot \in Nat \ {0}
        BY <1>1, <1>3, <3>3, MatchingAssumption DEF LotsHaveSize
      <4> QED BY <4>1
    <3> QED BY <1>1, <1>2, <1>3, <3>1, <3>2, <3>3 DEF Positive
  <2>6. HeldBy(r) <= HeldBy(r)
    BY <2>5
  <2> HIDE DEF n, quantity
  <2>7. /\ post_allowed(r) /\ \A y \in orders(m, Opposite(r.side)) : ~Crosses(r, y)
    BY <1>1, <1>3
  <2>8. Posts(m, n, r, quantity)
    BY <1>1, <2>3, <2>4, <2>5, <2>6, <2>7 DEF Posts
  <2> QED BY <2>8 DEF n, quantity
<1>4. CASE ~rests
  <2> DEFINE e == OutEvent("Ask", r, quantity * CoinLot, 0)
             out == push_back(m, <<e>>)
  <2>1. n = pop_front(out)
    BY <1>4 DEF AskRest
  <2>2. e \in Event
    <3>1. quantity * CoinLot \in Int
      BY <1>1, MatchingAssumption
    <3> QED BY <1>1, <3>1, OutEventType
  <2> HIDE DEF e, n
  <2>3. Appends(m, out, <<e>>) /\ Aside(m, out) /\ KeepsOrders(m, out) /\ AccountsOK(out)
    <3>1. <<e>> \in Seq(Event)
      BY <2>2
    <3> QED BY <1>1, <3>1, PushAppends DEF KeepsOrders, Keeps, KeepsBooks
  <2> HIDE DEF out
  <2>4. Rested(out, n) /\ n.req_q = Tail(out.req_q)
    BY <2>1, <2>3, PopFrontDoes
  <2>5. /\ Appends(m, n, <<e>>) /\ Served(m, n) /\ n.market = m.market
        /\ n.bids = m.bids /\ n.asks = m.asks
    BY <2>3, <2>4, RestedAfter DEF Aside, KeepsOrders, Served
  <2> QED BY <1>1, <1>2, <2>5 DEF Drops, e, n
<1> QED BY <1>3, <1>4

\* The best order of a side is as aggressive as any, in price too.
LEMMA BestOfSide ==
  ASSUME NEW m, AccountsOK(m), NEW side \in Side, orders(m, side) # {}
  PROVE  /\ find_bbo(m, side) \in orders(m, side)
         /\ \A y \in orders(m, side) :
              /\ ~MoreAggressive(side, y, find_bbo(m, side))
              /\ side = "Bid" => y.id.price <= find_bbo(m, side).id.price
              /\ side = "Ask" => y.id.price >= find_bbo(m, side).id.price
<1> DEFINE book == orders(m, side)
           best == find_bbo(m, side)
<1>1. IsBook(book) /\ \A y \in book : y.id.price \in Int /\ y.id.lower \in Int
  <2>1. IsBook({})
    BY FS_EmptySet, MatchingAssumption DEF IsBook
  <2>2. IsBook(book)
    BY <2>1, Orders
  <2>3. \A y \in book : y.id \in OrderId
    BY <2>2 DEF IsBook, Leaf
  <2>4. \A id \in OrderId : id.price \in Int /\ id.lower \in Int
    BY MarketAssumption DEF OrderId, Positive
  <2> QED BY <2>2, <2>3, <2>4
<1>2. best = IF side = "Bid" THEN find_max(book) ELSE find_min(book)
  BY DEF find_bbo, orders
<1>3. best \in book /\ \A y \in book : ~MoreAggressive(side, y, best)
  <2> HIDE DEF book, best
  <2> QED BY <1>1, <1>2, BestExists DEF MoreAggressive, book
<1> HIDE DEF book, best
<1>4. \A y \in book : /\ side = "Bid" => y.id.price <= best.id.price
                      /\ side = "Ask" => y.id.price >= best.id.price
  BY <1>1, <1>3 DEF MoreAggressive, KeyLess
<1> QED BY <1>3, <1>4 DEF book, best

LEMMA NewAskPass ==
  ASSUME NEW m, NEW r, AtFront(m, r), r.side = "Ask"
  PROVE  Pass(m, new_ask(m, r), r)
<1> DEFINE bid       == find_bbo(m, "Bid")
           crossed   == m.bids # {} /\ r.id.price <= bid.id.price
           trade_qty == Least(bid.quantity, r.max_coin_qty)
           rest == AskRest(m, r, crossed)
           self == AskSelfTrade(m, r, bid, trade_qty)
           trade == AskTrade(m, r, bid, trade_qty)
           n == new_ask(m, r)
<1>1. /\ r \in NewOrderRequest /\ r.max_coin_qty \in Nat /\ r.id.price \in Int
      /\ AccountsOK(m) /\ Opposite(r.side) = "Bid" /\ orders(m, "Bid") = m.bids
  BY OrderFields DEF AtFront, Opposite, orders, Positive
<1>2. ASSUME m.bids # {}
      PROVE  /\ bid \in m.bids /\ bid \in Leaf
             /\ \A y \in m.bids : /\ y.id.price \in Int /\ y.id.price <= bid.id.price
                                  /\ ~MoreAggressive("Bid", y, bid)
             /\ trade_qty \in Nat /\ trade_qty <= bid.quantity
             /\ trade_qty <= r.max_coin_qty
  <2>1. /\ bid \in m.bids
        /\ \A y \in m.bids : /\ y.id.price <= bid.id.price
                             /\ ~MoreAggressive("Bid", y, bid)
    BY <1>1, <1>2, BestOfSide DEF Side
  <2>2. \A y \in m.bids : y \in Leaf /\ y.id.price \in Int /\ y.quantity \in Nat
    BY <1>1, Maker, LeafFields DEF Side, Positive
  <2>3. bid.quantity \in Nat /\ bid \in Leaf
    BY <2>1, <2>2
  <2>4. /\ trade_qty \in Nat /\ trade_qty <= bid.quantity
        /\ trade_qty <= r.max_coin_qty
    <3> HIDE DEF bid
    <3> QED BY <1>1, <2>3 DEF Least
  <2> QED BY <2>1, <2>2, <2>3, <2>4
<1>3. crossed \in BOOLEAN /\ (~crossed => \A y \in m.bids : ~Crosses(r, y))
  <2> SUFFICES ASSUME ~crossed, NEW y \in m.bids PROVE ~Crosses(r, y)
    OBVIOUS
  <2>1. /\ y.id.price \in Int /\ y.id.price <= bid.id.price /\ bid.id.price \in Int
        /\ ~(r.id.price <= bid.id.price)
    <3>1. m.bids # {}
      OBVIOUS
    <3>2. ~(r.id.price <= bid.id.price)
      BY <3>1
    <3> HIDE DEF bid, crossed, trade_qty
    <3> QED BY <1>2, <3>1, <3>2
  <2> HIDE DEF bid, crossed
  <2>2. ~(r.id.price <= y.id.price)
    BY <1>1, <2>1
  <2> QED BY <2>2 DEF Crosses
<1>4. n = IF ~crossed \/ post_only(r) \/ trade_qty = 0 THEN rest
          ELSE IF r.owner = bid.owner THEN self ELSE trade
  BY DEF new_ask
<1>5. CASE ~crossed \/ post_only(r) \/ trade_qty = 0
  <2>1. n = rest
    BY <1>4, <1>5
  <2>2. Drops(m, rest, r) \/ Posts(m, rest, r, r.max_coin_qty)
    <3> HIDE DEF crossed
    <3> QED BY <1>1, <1>3, AskRestPass
  <2>3. Posts(m, rest, r, r.max_coin_qty) => r.max_coin_qty \in Positive
    BY DEF Posts
  <2> HIDE DEF n, rest
  <2> QED BY <2>1, <2>2, <2>3 DEF Pass, n
<1>6. CASE crossed /\ ~post_only(r) /\ trade_qty # 0
  <2>1. m.bids # {} /\ r.id.price <= bid.id.price
    BY <1>6
  <2>2. Crosses(r, bid)
    BY <2>1 DEF Crosses
  <2> HIDE DEF bid, crossed, trade_qty
  <2>3. bid \in orders(m, "Bid") /\ trade_qty \in Positive
    BY <1>1, <1>2, <1>6, <2>1 DEF Positive
  <2>4. CASE r.owner = bid.owner
    <3>1. n = self
      BY <1>4, <1>6, <2>4
    <3>2. SelfTrades(m, self, r, bid, CancelledProvide(r, bid, trade_qty))
      BY <1>2, <2>1, <2>3, <2>4, AskSelfTradePass
    <3>3. CancelledProvide(r, bid, trade_qty) \in Nat
      BY <3>2 DEF SelfTrades
    <3> HIDE DEF n, self
    <3> QED BY <1>1, <2>3, <3>1, <3>2, <3>3 DEF Pass, n
  <2>5. CASE r.owner # bid.owner
    <3>1. n = trade
      BY <1>4, <1>6, <2>5
    <3>2. Trades(m, trade, r, bid, trade_qty)
      BY <1>1, <1>2, <1>6, <2>1, <2>2, <2>3, <2>5, AskTradePass
    <3>3. trade_qty \in Nat
      BY <2>3 DEF Positive
    <3> HIDE DEF n, trade
    <3> QED BY <1>1, <2>3, <3>1, <3>2, <3>3 DEF Pass, n
  <2> QED BY <2>4, <2>5
<1> HIDE DEF n
<1> QED BY <1>3, <1>5, <1>6 DEF n

-----------------------------------------------------------------------------
(* Bids                                                                    *)

\* What a bid may trade it can pay for, with the fee.
LEMMA BidAffords ==
  ASSUME NEW r \in NewOrderRequest, r.side = "Bid", NEW x \in Leaf,
         NEW quantity \in Nat,
         quantity <= (remove_taker_fee(r.fee_tier, r.native_pc_qty_locked)
                        \div PcLot) \div x.id.price
  PROVE  /\ TradedPc(x, quantity) \in Nat /\ TradeFee(r, x, quantity) \in Nat
         /\ TradedPc(x, quantity) + TradeFee(r, x, quantity)
              <= r.native_pc_qty_locked
<1> DEFINE rest == remove_taker_fee(r.fee_tier, r.native_pc_qty_locked)
           lots == rest \div PcLot
           price == x.id.price
           pays == lots \div price
           q == quantity * price
           pc == TradedPc(x, quantity)
<1>1. /\ rest \in Int /\ PcLot \in Nat \ {0} /\ price \in Nat \ {0}
      /\ r.native_pc_qty_locked \in Int /\ r.fee_tier \in FeeTier
  BY OrderFields, FeeTypesOf, LeafFields DEF Positive
<1>2. pc = q * PcLot
  BY DEF TradedPc
<1>3. lots \in Int /\ lots * PcLot <= rest
  <2> HIDE DEF rest
  <2> QED BY <1>1, Quotient
<1>4. pays \in Int /\ pays * price <= lots
  <2> HIDE DEF lots, price
  <2> QED BY <1>1, <1>3, Quotient
<1>5. quantity <= pays
  OBVIOUS
<1> HIDE DEF rest, lots, price, pays
<1>6. q \in Nat /\ q <= lots
  <2>1. q <= pays * price
    BY <1>1, <1>4, <1>5, ProductMonotone
  <2>2. q \in Nat /\ pays * price \in Int
    BY <1>1, <1>4
  <2> QED BY <1>3, <1>4, <2>1, <2>2
<1> HIDE DEF q
<1>7. pc \in Nat /\ pc <= rest
  <2>1. q * PcLot <= lots * PcLot
    BY <1>1, <1>3, <1>6, ProductMonotone
  <2>2. q * PcLot \in Nat /\ lots * PcLot \in Int
    BY <1>1, <1>3, <1>6
  <2> QED BY <1>1, <1>2, <1>3, <2>1, <2>2
<1> HIDE DEF pc
<1>8. pc + taker_fee(r.fee_tier, pc) <= r.native_pc_qty_locked
  <2>1. pc <= remove_taker_fee(r.fee_tier, r.native_pc_qty_locked) /\ pc \in Int
    BY <1>7 DEF rest
  <2> QED BY <1>1, <2>1, Affordable
<1>9. taker_fee(r.fee_tier, pc) \in Nat
  <2>1. pc \in Int /\ pc <= pc /\ pc >= 0
    BY <1>7
  <2>2. taker_fee(r.fee_tier, pc) \in Int
    BY <1>1, <2>1, TakerFee
  <2>3. taker_fee(r.fee_tier, pc) >= 0
    BY <1>1, <2>1, TakerFeeMonotone
  <2> QED BY <2>2, <2>3
<1> QED BY <1>7, <1>8, <1>9 DEF pc, TradeFee

\* A trade that a bid can pay for.
Affords(r, x, quantity) ==
  /\ TradedPc(x, quantity) \in Nat /\ TradeFee(r, x, quantity) \in Nat
  /\ TradedPc(x, quantity) + TradeFee(r, x, quantity) <= r.native_pc_qty_locked

LEMMA BidSelfTradePass ==
  ASSUME NEW m, NEW r, AtFront(m, r), r.side = "Bid", NEW x \in orders(m, "Ask"),
         NEW quantity \in Nat, quantity <= x.quantity, quantity <= r.max_coin_qty,
         x.owner = r.owner, Affords(r, x, quantity)
  PROVE  SelfTrades(m, BidSelfTrade(m, r, x, quantity), r, x,
                    CancelledProvide(r, x, quantity))
<1> DEFINE taken == CancelledTake(r, quantity)
           given == CancelledProvide(r, x, quantity)
           coin == r.max_coin_qty - taken
           unlocked == taken * x.id.price * PcLot
           locked == r.native_pc_qty_locked - unlocked
           all == r.native_pc_qty_locked
           e == OutEvent("Bid", r, unlocked, locked)
           f == OutEvent("Bid", r, all, 0)
           provided == ProvideOut(m, r, x, quantity)
           some == push_back(provided, <<e>>)
           none == push_back(provided, <<f>>)
           leaves == Left(m, "Ask", x, x.quantity - given)
           a == ProvideEvent("Ask", x, given)
           n == BidSelfTrade(m, r, x, quantity)
<1>1. /\ r \in NewOrderRequest /\ r.max_coin_qty \in Nat /\ Opposite(r.side) = "Ask"
      /\ all \in Int
  BY OrderFields DEF AtFront, Opposite
<1>2. unlocked \in Int /\ 0 <= unlocked /\ unlocked <= all
  <2>1. CASE taken = quantity
    <3>1. unlocked = TradedPc(x, quantity)
      BY <2>1 DEF TradedPc
    <3> HIDE DEF unlocked
    <3> QED BY <1>1, <3>1 DEF Affords
  <2>2. CASE taken = 0
    <3>1. unlocked = 0
      <4>1. x.id.price \in Nat \ {0} /\ PcLot \in Nat
        BY <1>1, Maker, LeafFields, MatchingAssumption DEF AtFront, Side, Positive
      <4> QED BY <2>2, <4>1
    <3> HIDE DEF unlocked
    <3> QED BY <1>1, <3>1 DEF Affords
  <2> QED BY <2>1, <2>2 DEF CancelledTake
<1>3. taken \in Nat /\ coin \in Nat
  BY <1>1 DEF CancelledTake
<1>4. locked \in Nat /\ locked <= all
  <2> HIDE DEF unlocked
  <2> QED BY <1>1, <1>2
<1>5. /\ SelfTraded(m, some, r, x, given, unlocked, locked)
      /\ SelfTraded(m, none, r, x, given, all, 0)
  <2> HIDE DEF given, unlocked, locked, all
  <2>1. x \in orders(m, Opposite(r.side)) /\ given = CancelledProvide(r, x, quantity)
    BY <1>1 DEF given
  <2>2. unlocked \in Int /\ locked \in Int /\ all \in Int /\ 0 \in Int
    BY <1>1, <1>2, <1>4
  <2> QED BY <1>1, <2>1, <2>2, SelfTradeOuts
<1>6. /\ \A q \in {some, none} :
           Keeps(m, q) /\ q.market = m.market /\ Book(m, q, "Ask", leaves)
      /\ Appends(m, some, <<a, e>>) /\ Appends(m, none, <<a, f>>)
      /\ given \in Nat /\ given <= x.quantity
  <2> HIDE DEF given, unlocked, locked, all, some, none
  <2> QED BY <1>1, <1>5 DEF SelfTraded
<1>7. n = IF coin # 0 /\ locked # 0 THEN Remaining(some, coin, locked)
                                    ELSE pop_front(none)
  BY DEF BidSelfTrade
<1>8. HeldBy(r) = all /\ x \in orders(m, Opposite(r.side))
  BY <1>1 DEF HeldBy
<1> HIDE DEF leaves, given, a, e, f
<1>9. CASE ~(coin # 0 /\ locked # 0)
  <2> HIDE DEF some, none, coin, locked, n, all
  <2>1. Rested(none, n) /\ Served(m, n)
    BY <1>6, <1>7, <1>9, PassEnds
  <2>2. /\ Book(m, n, "Ask", leaves) /\ n.market = m.market
        /\ Appends(m, n, <<a, f>>)
    BY <1>6, <2>1, RestedAfter
  <2> QED BY <1>1, <1>6, <1>8, <2>1, <2>2 DEF SelfTrades, n, leaves, given, a, f
<1>10. CASE coin # 0 /\ locked # 0
  <2> DEFINE rest == Reduced(r, coin, locked)
  <2>0. unlocked = all - locked
    <3> HIDE DEF unlocked, all
    <3>1. locked = all - unlocked
      BY DEF all
    <3> HIDE DEF locked
    <3> QED BY <1>1, <1>2, <3>1
  <2> HIDE DEF some, none, coin, locked, n, all, unlocked
  <2>1. locked \in Int /\ locked > 0 /\ locked \in Positive
    BY <1>4, <1>10 DEF Positive
  <2>2. rest.side = "Bid" /\ rest.native_pc_qty_locked = locked
    BY <1>1, <1>3, <2>1, ReducedFields
  <2>3. Pays(rest) /\ HeldBy(rest) = locked
    <3> HIDE DEF rest
    <3> QED BY <2>1, <2>2 DEF Pays, HeldBy
  <2>4. Rested(some, n) /\ Waits(m, n, r, coin, locked)
    BY <1>3, <1>6, <1>7, <1>10, <2>1, <2>3, PassEnds
  <2>5. /\ Book(m, n, "Ask", leaves) /\ n.market = m.market
        /\ Appends(m, n, <<a, e>>)
    BY <1>6, <2>4, RestedAfter
  <2>6. e = OutEvent(r.side, r, HeldBy(r) - HeldBy(rest), locked)
    BY <1>8, <2>0, <2>3 DEF e
  <2>7. /\ coin \in Nat /\ locked \in Int /\ locked \in Positive
        /\ Waits(m, n, r, coin, locked)
        /\ HeldBy(Reduced(r, coin, locked)) <= HeldBy(r)
        /\ Appends(m, n, <<ProvideEvent(Opposite(r.side), x, given),
                           OutEvent(r.side, r,
                             HeldBy(r) - HeldBy(Reduced(r, coin, locked)), locked)>>)
    BY <1>1, <1>3, <1>4, <1>8, <2>1, <2>3, <2>4, <2>5, <2>6 DEF a
  <2> QED BY <1>1, <1>6, <1>8, <2>5, <2>7 DEF SelfTrades, n, leaves, given
<1> QED BY <1>9, <1>10

LEMMA BidTradePass ==
  ASSUME NEW m, NEW r, AtFront(m, r), r.side = "Bid", NEW x \in orders(m, "Ask"),
         NEW quantity \in Positive, quantity <= x.quantity,
         quantity <= r.max_coin_qty, x.owner # r.owner, ~post_only(r),
         Affords(r, x, quantity),
         Crosses(r, x), \A y \in orders(m, "Ask") : ~MoreAggressive("Ask", y, x)
  PROVE  Trades(m, BidTrade(m, r, x, quantity), r, x, quantity)
<1> DEFINE coin == r.max_coin_qty - quantity
           all == r.native_pc_qty_locked
           pc == TradedPc(x, quantity)
           fee == TradeFee(r, x, quantity)
           locked == all - pc - fee
           traded == Trade(m, r, x, quantity)
           e == OutEvent("Bid", r, locked, 0)
           out == push_back(traded, <<e>>)
           n == BidTrade(m, r, x, quantity)
           leaves == Left(m, "Ask", x, x.quantity - quantity)
           money == Accrued(m.market, TradeFee(r, x, quantity), TradeRebate(x, quantity))
           events == FillsOf(r, x, quantity)
<1>1. /\ r \in NewOrderRequest /\ r.max_coin_qty \in Nat /\ Opposite(r.side) = "Ask"
      /\ all \in Int
  BY OrderFields DEF AtFront, Opposite
<1>2. coin \in Nat /\ quantity \in Nat
  BY <1>1 DEF Positive
<1>3. /\ locked \in Nat /\ Cost(r, x, quantity) = pc + fee /\ HeldBy(r) = all
      /\ locked = HeldBy(r) - Cost(r, x, quantity)
      /\ Cost(r, x, quantity) <= HeldBy(r)
  <2>1. pc \in Nat /\ fee \in Nat /\ pc + fee <= all
    BY DEF Affords
  <2>2. Cost(r, x, quantity) = pc + fee /\ HeldBy(r) = all
    BY DEF Cost, HeldBy
  <2> HIDE DEF pc, fee, all
  <2> QED BY <1>1, <2>1, <2>2
<1>4. n = IF coin # 0 /\ locked # 0 THEN Remaining(traded, coin, locked)
                                    ELSE pop_front(out)
  BY DEF BidTrade, TradedPc, TradeFee
<1> HIDE DEF locked
<1>5. /\ \A q \in {traded, out} :
           Keeps(m, q) /\ Book(m, q, "Ask", leaves) /\ q.market = money
      /\ Appends(m, traded, events)
      /\ Appends(m, out, events \o <<e>>)
  <2>1. x \in orders(m, Opposite(r.side)) /\ locked \in Int
    BY <1>1, <1>3
  <2> QED BY <1>1, <1>2, <2>1, TradeFills
<1> HIDE DEF leaves, money, e, events
<1>6. CASE ~(coin # 0 /\ locked # 0)
  <2> HIDE DEF out, traded, coin, n
  <2>1. Rested(out, n) /\ Served(m, n)
    BY <1>4, <1>5, <1>6, PassEnds
  <2>2. /\ Book(m, n, "Ask", leaves) /\ n.market = money
        /\ Appends(m, n, events \o <<e>>)
    BY <1>5, <2>1, RestedAfter
  <2>3. e = OutEvent(r.side, r, HeldBy(r) - Cost(r, x, quantity), 0)
    BY <1>3 DEF e
  <2> QED BY <1>1, <1>3, <2>1, <2>2, <2>3 DEF Trades, n, leaves, money, events
<1>7. CASE coin # 0 /\ locked # 0
  <2> DEFINE rest == Reduced(r, coin, locked)
  <2>1. locked \in Int /\ locked > 0
    BY <1>3, <1>7
  <2>2. rest.side = "Bid" /\ rest.native_pc_qty_locked = locked
    <3> HIDE DEF coin
    <3> QED BY <1>1, <1>2, <2>1, ReducedFields
  <2>3. Pays(rest) /\ HeldBy(rest) = locked
    <3> HIDE DEF rest
    <3> QED BY <2>1, <2>2 DEF Pays, HeldBy
  <2>4. Rested(traded, n) /\ Waits(m, n, r, coin, locked)
    <3> HIDE DEF out, traded, coin, n
    <3> QED BY <1>2, <1>4, <1>5, <1>7, <2>1, <2>3, PassEnds
  <2> HIDE DEF out, traded, coin, n
  <2>5. /\ Book(m, n, "Ask", leaves) /\ n.market = money
        /\ Appends(m, n, events)
    BY <1>5, <2>4, RestedAfter
  <2> QED BY <1>1, <1>2, <1>3, <2>1, <2>3, <2>4, <2>5 DEF Trades, n, leaves, money, events
<1> QED BY <1>6, <1>7

LEMMA BidRestPass ==
  ASSUME NEW m, NEW r, AtFront(m, r), r.side = "Bid", NEW crossed \in BOOLEAN,
         Pays(r), ~crossed => \A y \in orders(m, "Ask") : ~Crosses(r, y)
  PROVE  LET n == BidRest(m, r, crossed)
         IN  Drops(m, n, r) \/ \E quantity \in Positive : Posts(m, n, r, quantity)
<1> DEFINE price == r.id.price
           all == r.native_pc_qty_locked
           posted == (all \div PcLot) \div price
           to_post == IF post_allowed(r) /\ ~crossed
                      THEN Least(r.max_coin_qty, posted) ELSE 0
           keep == to_post * price * PcLot
           e == OutEvent("Bid", r, all - keep, keep)
           out == push_back(m, <<e>>)
           n == BidRest(m, r, crossed)
           leaf == LeafOf(r, to_post)
<1>1. /\ r \in NewOrderRequest /\ Identified(r) /\ r.max_coin_qty \in Nat
      /\ all \in Int /\ all > 0 /\ price \in Nat \ {0} /\ PcLot \in Nat \ {0}
      /\ AccountsOK(m) /\ "Bid" \in Side /\ Opposite(r.side) = "Ask"
  BY OrderFields DEF AtFront, Side, Opposite, Pays, Positive
<1>2. posted \in Int /\ posted * price * PcLot <= all /\ posted >= 0
  <2> DEFINE lots == all \div PcLot
  <2>1. lots \in Int /\ lots * PcLot <= all /\ all < lots * PcLot + PcLot
    BY <1>1, Quotient
  <2>2. lots >= 0
    <3> HIDE DEF lots, all
    <3>1. 0 < (lots + 1) * PcLot
      BY <1>1, <2>1
    <3>2. 0 * PcLot < (lots + 1) * PcLot /\ 0 \in Int /\ lots + 1 \in Int
      BY <1>1, <2>1, <3>1
    <3>3. 0 < lots + 1
      BY <1>1, <3>2, ProductStrict
    <3> QED BY <2>1, <3>3
  <2>3. posted = lots \div price
    OBVIOUS
  <2> HIDE DEF lots, posted, price
  <2>4. /\ posted \in Int /\ posted * price <= lots
        /\ lots < posted * price + price
    BY <1>1, <2>1, <2>3, Quotient
  <2>5. posted >= 0
    <3>1. 0 * price < (posted + 1) * price /\ 0 \in Int /\ posted + 1 \in Int
      BY <1>1, <2>1, <2>2, <2>4
    <3>2. 0 < posted + 1
      BY <1>1, <3>1, ProductStrict
    <3> QED BY <2>4, <3>2
  <2>6. posted * price * PcLot <= lots * PcLot
    <3> DEFINE q == posted * price
    <3>1. q \in Int /\ q <= lots
      BY <1>1, <2>4
    <3> HIDE DEF q
    <3>2. q * PcLot <= lots * PcLot
      BY <1>1, <2>1, <3>1, ProductMonotone
    <3> QED BY <3>2 DEF q
  <2>7. posted * price * PcLot \in Int /\ lots * PcLot \in Int
    BY <1>1, <2>1, <2>4
  <2> HIDE DEF all
  <2> QED BY <1>1, <2>1, <2>4, <2>5, <2>6, <2>7
<1> HIDE DEF posted
<1>3. /\ to_post \in Nat /\ to_post <= posted
      /\ to_post > 0 => post_allowed(r) /\ ~crossed
  BY <1>1, <1>2 DEF Least
<1> HIDE DEF to_post
<1>4. /\ keep \in Nat /\ keep <= all
      /\ (keep > 0 => to_post \in Positive) /\ (~(keep > 0) => keep = 0)
  <2> HIDE DEF all, price
  <2> DEFINE q == to_post * price
             w == posted * price
  <2>1. q \in Nat /\ w \in Int /\ q <= w
    BY <1>1, <1>2, <1>3, ProductMonotone
  <2>2. keep = q * PcLot /\ posted * price * PcLot = w * PcLot
    OBVIOUS
  <2>3. (q = 0 => keep = 0) /\ (to_post = 0 => q = 0)
    BY <1>1, <2>2
  <2> HIDE DEF q, w, keep
  <2>4. q * PcLot <= w * PcLot /\ q * PcLot \in Nat /\ w * PcLot \in Int
    BY <1>1, <2>1, ProductMonotone
  <2>5. keep \in Nat /\ keep <= all
    BY <1>1, <1>2, <2>2, <2>4
  <2> QED BY <1>3, <2>3, <2>5 DEF Positive
<1>5. keep = Worth("Bid", leaf) /\ HeldBy(r) = all
  BY DEF Worth, NativeLocked, LeafOf, HeldBy
<1>6. e \in Event
  <2>1. all - keep \in Int /\ keep \in Int
    <3> HIDE DEF keep, all
    <3> QED BY <1>1, <1>4
  <2> HIDE DEF keep, all
  <2> QED BY <1>1, <2>1, OutEventType
<1>7. n = pop_front(IF keep > 0 THEN insert_leaf(out, "Bid", r, to_post) ELSE out)
  BY DEF BidRest, to_post, posted
<1> HIDE DEF keep, all, leaf, n
<1>8. /\ Appends(m, out, <<e>>) /\ Aside(m, out) /\ KeepsOrders(m, out)
      /\ AccountsOK(out) /\ <<e>> \in Seq(Event)
  <2> HIDE DEF e
  <2>1. <<e>> \in Seq(Event)
    BY <1>6
  <2> QED BY <1>1, <2>1, PushAppends DEF KeepsOrders, Keeps, KeepsBooks
<1>9. CASE keep > 0
  <2>1. PostEvents(r, to_post) = <<e>>
    BY <1>5 DEF PostEvents, leaf, e
  <2> HIDE DEF e, out
  <2>2. n = pop_front(insert_leaf(out, r.side, r, to_post))
    BY <1>7, <1>9
  <2>3. Placed(m, n, r.side, leaf, <<e>>)
    BY <1>1, <1>3, <1>8, <2>2, InsertPass DEF leaf
  <2>4. /\ to_post \in Positive /\ keep \in Positive
        /\ post_allowed(r) /\ \A y \in orders(m, Opposite(r.side)) : ~Crosses(r, y)
    BY <1>1, <1>3, <1>4, <1>9 DEF Positive
  <2>5. Posts(m, n, r, to_post)
    BY <1>1, <1>4, <1>5, <1>9, <2>1, <2>3, <2>4 DEF Posts, leaf
  <2> QED BY <2>4, <2>5 DEF n
<1>10. CASE ~(keep > 0)
  <2>1. n = pop_front(out)
    BY <1>7, <1>10
  <2>2. e = OutEvent(r.side, r, HeldBy(r), 0)
    <3>1. all - keep = all /\ keep = 0
      BY <1>1, <1>4, <1>10
    <3> QED BY <1>5, <3>1 DEF e
  <2> HIDE DEF out, e
  <2>3. Rested(out, n) /\ n.req_q = Tail(out.req_q)
    BY <1>8, <2>1, PopFrontDoes
  <2>4. /\ Appends(m, n, <<e>>) /\ Served(m, n) /\ n.market = m.market
        /\ n.bids = m.bids /\ n.asks = m.asks
    BY <1>8, <2>3, RestedAfter DEF Aside, KeepsOrders, Served
  <2>5. Drops(m, n, r)
    BY <1>1, <2>2, <2>4 DEF Drops
  <2> QED BY <2>5 DEF n
<1> QED BY <1>9, <1>10

LEMMA NewBidPass ==
  ASSUME NEW m, NEW r, AtFront(m, r), r.side = "Bid", Pays(r)
  PROVE  Pass(m, new_bid(m, r), r)
<1> DEFINE ask        == find_bbo(m, "Ask")
           max_pc_qty == remove_taker_fee(r.fee_tier, r.native_pc_qty_locked)
                           \div PcLot
           crossed    == m.asks # {} /\ r.id.price >= ask.id.price
           pays       == max_pc_qty \div ask.id.price
           trade_qty  == Least(Least(ask.quantity, r.max_coin_qty), pays)
           rest       == BidRest(m, r, crossed)
           self       == BidSelfTrade(m, r, ask, trade_qty)
           trade      == BidTrade(m, r, ask, trade_qty)
           n == new_bid(m, r)
<1>1. /\ r \in NewOrderRequest /\ r.max_coin_qty \in Nat /\ r.id.price \in Int
      /\ AccountsOK(m) /\ Opposite(r.side) = "Ask" /\ orders(m, "Ask") = m.asks
      /\ PcLot \in Nat \ {0} /\ r.native_pc_qty_locked > 0
      /\ r.native_pc_qty_locked \in Int
  BY OrderFields DEF AtFront, Opposite, orders, Positive, Pays
<1>2. ASSUME m.asks # {}
      PROVE  /\ ask \in m.asks /\ ask \in Leaf
             /\ \A y \in m.asks : /\ y.id.price \in Int /\ y.id.price >= ask.id.price
                                  /\ ~MoreAggressive("Ask", y, ask)
             /\ trade_qty \in Int /\ trade_qty <= ask.quantity
             /\ trade_qty <= r.max_coin_qty /\ trade_qty <= pays
  <2>1. /\ ask \in m.asks
        /\ \A y \in m.asks : /\ y.id.price >= ask.id.price
                             /\ ~MoreAggressive("Ask", y, ask)
    BY <1>1, <1>2, BestOfSide DEF Side
  <2>2. \A y \in m.asks : y \in Leaf /\ y.id.price \in Nat \ {0} /\ y.quantity \in Nat
    BY <1>1, Maker, LeafFields DEF Side, Positive
  <2>3. ask.quantity \in Nat /\ ask \in Leaf /\ ask.id.price \in Nat \ {0}
    BY <2>1, <2>2
  <2>4. pays \in Int
    <3>1. remove_taker_fee(r.fee_tier, r.native_pc_qty_locked) \in Int
      BY <1>1, OrderFields, FeeTypesOf
    <3>2. max_pc_qty \in Int
      BY <1>1, <3>1, Quotient
    <3> HIDE DEF max_pc_qty, ask
    <3> QED BY <2>3, <3>2, Quotient
  <2>5. /\ trade_qty \in Int /\ trade_qty <= ask.quantity
        /\ trade_qty <= r.max_coin_qty /\ trade_qty <= pays
    <3> HIDE DEF ask, pays
    <3> QED BY <1>1, <2>3, <2>4 DEF Least
  <2> HIDE DEF ask, trade_qty, pays
  <2> QED BY <2>1, <2>2, <2>3, <2>5
<1>3. crossed \in BOOLEAN /\ (~crossed => \A y \in m.asks : ~Crosses(r, y))
  <2> SUFFICES ASSUME ~crossed, NEW y \in m.asks PROVE ~Crosses(r, y)
    OBVIOUS
  <2>1. /\ y.id.price \in Int /\ y.id.price >= ask.id.price /\ ask.id.price \in Int
        /\ ~(r.id.price >= ask.id.price)
    <3>1. m.asks # {}
      OBVIOUS
    <3>2. ~(r.id.price >= ask.id.price)
      BY <3>1
    <3> HIDE DEF ask, crossed, trade_qty
    <3> QED BY <1>2, <3>1, <3>2
  <2> HIDE DEF ask, crossed
  <2>2. ~(r.id.price >= y.id.price)
    BY <1>1, <2>1
  <2> QED BY <2>2 DEF Crosses
<1>4. n = IF ~crossed \/ post_only(r) \/ trade_qty = 0 THEN rest
          ELSE IF r.owner = ask.owner THEN self ELSE trade
  BY DEF new_bid
<1>5. CASE ~crossed \/ post_only(r) \/ trade_qty = 0
  <2>1. n = rest
    BY <1>4, <1>5
  <2>2. Drops(m, rest, r) \/ \E quantity \in Positive : Posts(m, rest, r, quantity)
    <3> HIDE DEF crossed
    <3> QED BY <1>1, <1>3, BidRestPass
  <2> HIDE DEF n, rest
  <2> QED BY <2>1, <2>2 DEF Pass, n
<1>6. CASE crossed /\ ~post_only(r) /\ trade_qty # 0
  <2>1. m.asks # {} /\ r.id.price >= ask.id.price
    BY <1>6
  <2>2. Crosses(r, ask)
    BY <2>1 DEF Crosses
  <2>3. trade_qty <= pays /\ ask \in Leaf /\ trade_qty \in Int
    <3> HIDE DEF ask, trade_qty, pays
    <3> QED BY <1>2, <2>1
  <2>4. trade_qty \in Nat
    \* Both quantities are natural, and so is what a positive bid pays for.
    <3>1. /\ ask.quantity \in Nat /\ ask.id.price \in Nat \ {0}
      <4> HIDE DEF ask
      <4> QED BY <2>3, LeafFields DEF Positive
    <3> DEFINE net == remove_taker_fee(r.fee_tier, r.native_pc_qty_locked)
    <3>2. net \in Int /\ net >= 0
      BY <1>1, OrderFields, RestNat
    <3>3. max_pc_qty \in Int /\ max_pc_qty >= 0
      <4>1. max_pc_qty = net \div PcLot
        OBVIOUS
      <4> HIDE DEF net
      <4> QED BY <1>1, <3>2, <4>1, QuotientAtLeast0
    <3>4. pays \in Int /\ pays >= 0
      <4> HIDE DEF max_pc_qty, ask
      <4> QED BY <3>1, <3>3, QuotientAtLeast0
    <3> HIDE DEF pays, ask
    <3> QED BY <1>1, <3>1, <3>4 DEF Least
  <2>5. Affords(r, ask, trade_qty)
    <3>1. trade_qty <= (remove_taker_fee(r.fee_tier, r.native_pc_qty_locked)
                          \div PcLot) \div ask.id.price
      BY <2>3
    <3> HIDE DEF trade_qty, ask
    <3> QED BY <1>1, <2>3, <2>4, <3>1, BidAffords DEF Affords
  <2> HIDE DEF ask, crossed, trade_qty, pays
  <2>6. ask \in orders(m, "Ask") /\ trade_qty \in Positive
    BY <1>1, <1>2, <1>6, <2>1, <2>4 DEF Positive
  <2>7. CASE r.owner = ask.owner
    <3>1. n = self
      BY <1>4, <1>6, <2>7
    <3>2. SelfTrades(m, self, r, ask, CancelledProvide(r, ask, trade_qty))
      BY <1>2, <2>1, <2>4, <2>5, <2>6, <2>7, BidSelfTradePass
    <3>3. CancelledProvide(r, ask, trade_qty) \in Nat
      BY <3>2 DEF SelfTrades
    <3> HIDE DEF n, self
    <3> QED BY <1>1, <2>6, <3>1, <3>2, <3>3 DEF Pass, n
  <2>8. CASE r.owner # ask.owner
    <3>1. n = trade
      BY <1>4, <1>6, <2>8
    <3>2. Trades(m, trade, r, ask, trade_qty)
      BY <1>1, <1>2, <1>6, <2>1, <2>2, <2>5, <2>6, <2>8, BidTradePass
    <3> HIDE DEF n, trade
    <3> QED BY <1>1, <2>4, <2>6, <3>1, <3>2 DEF Pass, n
  <2> QED BY <2>7, <2>8
<1> HIDE DEF n
<1> QED BY <1>3, <1>5, <1>6 DEF n

LEMMA CancelPass ==
  ASSUME NEW m, AccountsOK(m), m.req_q # <<>>, NEW r \in CancelRequest
  PROVE  Cancels(m, pop_front(cancel_order(m, r)), r)
<1> DEFINE book  == orders(m, r.side)
           found == {x \in book : x.id = r.id /\ x.owner = r.owner
                                  /\ x.owner_slot = r.owner_slot}
           leaf  == CHOOSE x \in found : TRUE
           e     == BootEvent(r.side, leaf)
           n     == WithOrders(m, r.side, book \ {leaf})
           c     == cancel_order(m, r)
           p     == pop_front(c)
<1>1. r.side \in Side
  BY DEF CancelRequest
<1>2. Keeps(m, c)
  BY CancelKeeps
<1>3. Rested(c, p) /\ p.req_q = Tail(c.req_q) /\ Served(m, p)
  <2> HIDE DEF c
  <2> QED BY <1>2, PopFrontDoes DEF Keeps, KeepsBooks, Served
<1>4. CASE found = {}
  <2>1. c = m
    BY <1>4 DEF cancel_order
  <2>2. Appends(m, c, <<>>)
    BY <2>1, AppendsNothing DEF Quiet
  <2> HIDE DEF c, p
  <2>3. Appends(m, p, <<>>) /\ p.market = m.market /\ p.bids = m.bids /\ p.asks = m.asks
    BY <1>3, <2>1, <2>2, RestedAfter
  <2> QED BY <1>3, <2>3 DEF Cancels, p, c
<1>5. CASE found # {}
  <2>1. /\ leaf \in book /\ leaf.id = r.id /\ leaf.owner = r.owner
        /\ leaf.owner_slot = r.owner_slot
    BY <1>5
  <2>2. c = push_back(n, <<e>>)
    BY <1>5 DEF cancel_order, BootEvent, Worth
  <2>3. leaf \in Leaf /\ e \in Event
    <3> HIDE DEF leaf
    <3> QED BY <1>1, <2>1, Maker, WorthType
  <2> HIDE DEF leaf, e
  <2>4. Book(m, n, r.side, book \ {leaf}) /\ Aside(m, n) /\ Quiet(m, n)
    <3> HIDE DEF book
    <3> QED BY <1>1, WithOrdersDoes
  <2>5. AccountsOK(n)
    <3>1. IsBook({})
      BY FS_EmptySet, MatchingAssumption DEF IsBook
    <3>2. IsBook(book)
      BY <1>1, <3>1, Orders
    <3>3. IsBook(book \ {leaf})
      <4> HIDE DEF book
      <4> QED BY <2>1, <2>3, <3>2, ReplaceLeaf
    <3>4. Keeps(m, n)
      <4> HIDE DEF book
      <4> QED BY <1>1, <3>3, Orders
    <3> QED BY <3>4 DEF Keeps, KeepsBooks
  <2> HIDE DEF n
  <2>6. Appends(n, c, <<e>>) /\ Aside(n, c) /\ KeepsOrders(n, c)
    <3>1. <<e>> \in Seq(Event)
      BY <2>3
    <3> QED BY <2>2, <2>5, <3>1, PushAppends
  <2> HIDE DEF c, book, p
  <2>7. /\ Appends(m, c, <<e>>) /\ Book(m, c, r.side, book \ {leaf})
        /\ c.market = m.market
    BY <2>4, <2>6, AppendsQuiet DEF Book, orders, KeepsOrders, Aside
  <2>8. /\ Appends(m, p, <<e>>) /\ Book(m, p, r.side, book \ {leaf})
        /\ p.market = m.market
    BY <1>3, <2>7, RestedAfter
  <2> QED BY <1>3, <2>1, <2>8 DEF Cancels, p, c, book, e
<1> QED BY <1>4, <1>5

\* One unit of the limit, whatever the request at the front asks for.
LEMMA PassDoes ==
  ASSUME NEW m, AccountsOK(m), m.req_q # <<>>,
         m.req_q[1] \in NewOrderRequest => Pays(m.req_q[1])
  PROVE  Pass(m, process_orderbook_request(m), m.req_q[1])
<1> DEFINE r == m.req_q[1]
<1>1. r = Head(m.req_q) /\ r \in Request
  BY HeadTailProperties, ElementOfSeq, EmptySeq DEF AccountsOK, Accounts
<1> HIDE DEF r
<1>2. CASE r.kind = "CancelOrder"
  <2>1. r \in CancelRequest
    BY <1>1, <1>2 DEF Request, NewOrderRequest
  <2>2. Cancels(m, pop_front(cancel_order(m, r)), r)
    BY <2>1, CancelPass
  <2> QED BY <1>1, <1>2, <2>2 DEF process_orderbook_request, Pass, r
<1>3. CASE r.kind # "CancelOrder"
  <2>1. r \in NewOrderRequest /\ r.side \in {"Bid", "Ask"}
    BY <1>1, <1>3 DEF Request, NewOrderRequest, AcceptedSide, CancelRequest, Side
  <2>2. AtFront(m, r) /\ Pays(r)
    BY <1>1, <2>1 DEF AtFront, r
  <2>3. CASE r.side = "Ask"
    BY <1>1, <1>3, <2>2, <2>3, NewAskPass DEF process_orderbook_request, r
  <2>4. CASE r.side = "Bid"
    BY <1>1, <1>3, <2>2, <2>4, NewBidPass DEF process_orderbook_request, r
  <2> QED BY <2>1, <2>3, <2>4
<1> QED BY <1>2, <1>3

-----------------------------------------------------------------------------
(* What is in a queue                                                      *)

Members(q) == {q[k] : k \in DOMAIN q}

LEMMA MembersType ==
  ASSUME NEW S, NEW q \in Seq(S)
  PROVE  Members(q) \subseteq S
<1> SUFFICES ASSUME NEW k \in DOMAIN q PROVE q[k] \in S
  BY DEF Members
<1> QED BY ElementOfSeq, LenProperties

LEMMA MembersConcat ==
  ASSUME NEW S, NEW a \in Seq(S), NEW b \in Seq(S)
  PROVE  Members(a \o b) = Members(a) \cup Members(b)
<1> DEFINE c == a \o b
<1>1. /\ c \in Seq(S) /\ Len(c) = Len(a) + Len(b)
      /\ Len(a) \in Nat /\ Len(b) \in Nat
      /\ DOMAIN a = 1 .. Len(a) /\ DOMAIN b = 1 .. Len(b) /\ DOMAIN c = 1 .. Len(c)
      /\ \A i \in 1 .. Len(a) + Len(b) :
           c[i] = IF i <= Len(a) THEN a[i] ELSE b[i - Len(a)]
  BY ConcatProperties, LenProperties
<1> HIDE DEF c
<1>2. ASSUME NEW k \in DOMAIN c PROVE c[k] \in Members(a) \cup Members(b)
  <2>1. CASE k <= Len(a)
    <3>1. k \in DOMAIN a /\ c[k] = a[k]
      BY <1>1, <2>1
    <3> QED BY <3>1 DEF Members
  <2>2. CASE ~(k <= Len(a))
    <3>1. k - Len(a) \in DOMAIN b /\ c[k] = b[k - Len(a)]
      BY <1>1, <2>2
    <3> QED BY <3>1 DEF Members
  <2> QED BY <2>1, <2>2
<1>3. ASSUME NEW k \in DOMAIN a PROVE a[k] \in Members(c)
  <2>1. k \in DOMAIN c /\ c[k] = a[k]
    BY <1>1
  <2> QED BY <2>1 DEF Members
<1>4. ASSUME NEW k \in DOMAIN b PROVE b[k] \in Members(c)
  <2>1. k + Len(a) \in DOMAIN c /\ ~(k + Len(a) <= Len(a)) /\ (k + Len(a)) - Len(a) = k
    BY <1>1
  <2>2. c[k + Len(a)] = b[k]
    BY <1>1, <2>1
  <2> QED BY <2>1, <2>2 DEF Members
<1> QED BY <1>2, <1>3, <1>4 DEF Members, c

LEMMA MembersFew ==
  /\ Members(<<>>) = {}
  /\ \A x : Members(<<x>>) = {x}
  /\ \A x, y : Members(<<x, y>>) = {x, y}
<1>1. Members(<<>>) = {}
  BY DEF Members
<1>2. ASSUME NEW x PROVE Members(<<x>>) = {x}
  <2>1. DOMAIN <<x>> = {1} /\ <<x>>[1] = x
    OBVIOUS
  <2> QED BY <2>1 DEF Members
<1>3. ASSUME NEW x, NEW y PROVE Members(<<x, y>>) = {x, y}
  <2>1. DOMAIN <<x, y>> = {1, 2} /\ <<x, y>>[1] = x /\ <<x, y>>[2] = y
    OBVIOUS
  <2> QED BY <2>1 DEF Members
<1> QED BY <1>1, <1>2, <1>3

LEMMA MembersTail ==
  ASSUME NEW S, NEW q \in Seq(S), q # <<>>
  PROVE  /\ Members(Tail(q)) \subseteq Members(q) /\ Head(q) \in Members(q)
         /\ q[1] = Head(q) /\ q[1] \in Members(q)
<1>1. /\ Tail(q) \in Seq(S) /\ Len(Tail(q)) = Len(q) - 1 /\ Len(q) \in Nat
      /\ \A i \in 1 .. Len(Tail(q)) : Tail(q)[i] = q[i + 1]
      /\ DOMAIN q = 1 .. Len(q) /\ DOMAIN Tail(q) = 1 .. Len(Tail(q))
      /\ Head(q) = q[1] /\ Len(q) > 0
  BY HeadTailProperties, LenProperties, EmptySeq
<1>2. ASSUME NEW k \in DOMAIN Tail(q) PROVE Tail(q)[k] \in Members(q)
  <2>1. k + 1 \in DOMAIN q /\ Tail(q)[k] = q[k + 1]
    BY <1>1
  <2> QED BY <2>1 DEF Members
<1>3. 1 \in DOMAIN q
  BY <1>1
<1> QED BY <1>1, <1>2, <1>3 DEF Members

LEMMA MembersReplaced ==
  ASSUME NEW S, NEW q \in Seq(S), NEW x
  PROVE  Members([q EXCEPT ![1] = x]) \subseteq Members(q) \cup {x}
<1>1. ASSUME NEW k \in DOMAIN q PROVE [q EXCEPT ![1] = x][k] \in {q[k], x}
  BY <1>1
<1> QED BY <1>1 DEF Members

-----------------------------------------------------------------------------
(* What a pass appends                                                     *)

\* The two fills of a trade.
MakerFill(r, x, quantity) ==
  FillEvent(Opposite(r.side), TRUE, x, quantity, TradedPc(x, quantity),
            TradeRebate(x, quantity))

TakerFill(r, x, quantity) ==
  FillEvent(r.side, FALSE, r, quantity, TradedPc(x, quantity),
            TradeFee(r, x, quantity))

\* The Out of a maker that is filled completely.
MakerOut(r, x) == OutEvent(Opposite(r.side), x, 0, 0)

LEMMA TripleOf ==
  ASSUME NEW S, NEW a \in S, NEW b \in S, NEW c \in S
  PROVE  /\ <<a>> \o <<b>> \o <<c>> = <<a, b, c>>
         /\ <<a>> \o <<>> \o <<c>> = <<a, c>>
<1>1. <<a>> \o <<b>> = <<a, b>> /\ <<a>> \o <<c>> = <<a, c>>
  BY PairOf
<1>2. <<a>> \o <<>> = <<a>>
  <2>1. <<a>> \in Seq(S)
    OBVIOUS
  <2> QED BY <2>1
<1>3. <<a, b>> \o <<c>> = <<a, b, c>>
  <2>1. <<a, b>> \in Seq(S) /\ <<c>> \in Seq(S) /\ <<a, b, c>> \in Seq(S)
    OBVIOUS
  <2>2. Len(<<a, b>>) = 2 /\ Len(<<c>>) = 1 /\ Len(<<a, b, c>>) = 3
    OBVIOUS
  <2>3. /\ <<a, b>> \o <<c>> \in Seq(S) /\ Len(<<a, b>> \o <<c>>) = 3
        /\ \A i \in 1 .. 3 : (<<a, b>> \o <<c>>)[i]
                               = IF i <= 2 THEN <<a, b>>[i] ELSE <<c>>[i - 2]
    BY <2>1, <2>2, ConcatProperties
  <2>4. \A i \in 1 .. 3 : (<<a, b>> \o <<c>>)[i] = <<a, b, c>>[i]
    BY <2>3
  <2> QED BY <2>1, <2>2, <2>3, <2>4, SeqEqual
<1> QED BY <1>1, <1>2, <1>3

LEMMA FillsShape ==
  ASSUME NEW r \in NewOrderRequest, NEW x \in Leaf, NEW quantity \in Int
  PROVE  /\ MakerFill(r, x, quantity) \in Event /\ TakerFill(r, x, quantity) \in Event
         /\ MakerOut(r, x) \in Event
         /\ FillsOf(r, x, quantity) =
              IF quantity = x.quantity
              THEN <<MakerFill(r, x, quantity), MakerOut(r, x), TakerFill(r, x, quantity)>>
              ELSE <<MakerFill(r, x, quantity), TakerFill(r, x, quantity)>>
<1> DEFINE a == MakerFill(r, x, quantity)
           b == MakerOut(r, x)
           c == TakerFill(r, x, quantity)
<1>1. /\ Opposite(r.side) \in Side /\ r.side \in Side /\ Identified(r) /\ Identified(x)
      /\ 0 \in Int
  BY OrderFields, LeafFields
<1>2. /\ TradedPc(x, quantity) \in Int /\ TradeFee(r, x, quantity) \in Int
      /\ TradeRebate(x, quantity) \in Int
  BY TradeTypes
<1>3. a \in Event
  BY <1>1, <1>2, FillEventType DEF MakerFill
<1>4. b \in Event
  BY <1>1, OutEventType DEF MakerOut
<1>5. c \in Event
  BY <1>1, <1>2, FillEventType DEF TakerFill
<1>6. FillsOf(r, x, quantity) =
        <<a>> \o (IF quantity = x.quantity THEN <<b>> ELSE <<>>) \o <<c>>
  BY DEF FillsOf, TradeEvents, MakerFill, MakerOut, TakerFill
<1> HIDE DEF a, b, c
<1>7. <<a>> \o <<b>> \o <<c>> = <<a, b, c>> /\ <<a>> \o <<>> \o <<c>> = <<a, c>>
  BY <1>3, <1>4, <1>5, TripleOf
<1> QED BY <1>3, <1>4, <1>5, <1>6, <1>7 DEF a, b, c

LEMMA FillsMembers ==
  ASSUME NEW r \in NewOrderRequest, NEW x \in Leaf, NEW quantity \in Int
  PROVE  /\ FillsOf(r, x, quantity) \in Seq(Event) /\ Len(FillsOf(r, x, quantity)) <= 3
         /\ Len(FillsOf(r, x, quantity)) \in Nat
         /\ Members(FillsOf(r, x, quantity)) \subseteq
              {MakerFill(r, x, quantity), MakerOut(r, x), TakerFill(r, x, quantity)}
<1> DEFINE a == MakerFill(r, x, quantity)
           b == MakerOut(r, x)
           c == TakerFill(r, x, quantity)
           q == FillsOf(r, x, quantity)
<1>1. /\ a \in Event /\ b \in Event /\ c \in Event
      /\ q = IF quantity = x.quantity THEN <<a, b, c>> ELSE <<a, c>>
  BY FillsShape
<1> HIDE DEF a, b, c, q
<1>2. CASE quantity = x.quantity
  <2>1. q = <<a, b, c>>
    BY <1>1, <1>2
  <2>2. /\ DOMAIN <<a, b, c>> = {1, 2, 3} /\ Len(<<a, b, c>>) = 3
        /\ <<a, b, c>>[1] = a /\ <<a, b, c>>[2] = b /\ <<a, b, c>>[3] = c
        /\ <<a, b, c>> \in Seq(Event)
    BY <1>1
  <2> QED BY <2>1, <2>2 DEF Members, a, b, c, q
<1>3. CASE quantity # x.quantity
  <2>1. q = <<a, c>>
    BY <1>1, <1>3
  <2>2. /\ Len(<<a, c>>) = 2 /\ <<a, c>> \in Seq(Event) /\ Members(<<a, c>>) = {a, c}
    BY <1>1, MembersFew
  <2> QED BY <2>1, <2>2 DEF a, b, c, q
<1> QED BY <1>2, <1>3

\* A fill of the trade of r with x.
FilledBy(m, r, e) ==
  \E x \in orders(m, Opposite(r.side)), quantity \in Positive :
    /\ r \in NewOrderRequest /\ ~post_only(r) /\ Crosses(r, x) /\ x.owner # r.owner
    /\ \A y \in orders(m, Opposite(r.side)) :
         ~MoreAggressive(Opposite(r.side), y, x)
    /\ e \in {MakerFill(r, x, quantity), TakerFill(r, x, quantity)}

\* The fill of a taker comes after one of a maker, of another account.
TakersFollow(events) ==
  /\ \A d, e \in Members(events) :
       IsFill(d) /\ d.maker /\ IsFill(e) /\ ~e.maker => d.owner # e.owner
  /\ \A k \in DOMAIN events :
       IsFill(events[k]) /\ ~events[k].maker => k # 1 /\ IsFill(events[1])

\* What a pass appends: four events at most, and no fill but those of a trade.
AppendsFew(m, n, r) ==
  \E events \in Seq(Event) :
    /\ Appends(m, n, events) /\ Len(events) <= 4
    /\ \A e \in Members(events) : IsFill(e) => FilledBy(m, r, e)
    /\ TakersFollow(events)

\* Outs of any kind.
LEMMA OutIsNoFill ==
  /\ \A side, x, unlocked, still : ~IsFill(OutEvent(side, x, unlocked, still))
  /\ \A side, x : ~IsFill(BootEvent(side, x))
  /\ \A side, x, taken : ~IsFill(ProvideEvent(side, x, taken))
  /\ \A r, x : ~IsFill(MakerOut(r, x))
  BY DEF OutEvent, BootEvent, ProvideEvent, MakerOut, IsFill

LEMMA AppendsOuts ==
  ASSUME NEW m, NEW n, NEW r, NEW events \in Seq(Event), Appends(m, n, events),
         Len(events) <= 4, \A e \in Members(events) : ~IsFill(e)
  PROVE  AppendsFew(m, n, r)
<1>1. \A k \in DOMAIN events : ~IsFill(events[k])
  BY DEF Members
<1> QED BY <1>1 DEF AppendsFew, TakersFollow

LEMMA HeldType ==
  ASSUME NEW r \in NewOrderRequest
  PROVE  HeldBy(r) \in Int
  BY OrderFields, MatchingAssumption DEF HeldBy

LEMMA NoAppend ==
  ASSUME NEW m, NEW n, NEW r, Appends(m, n, <<>>)
  PROVE  AppendsFew(m, n, r)
<1> DEFINE q == <<>>
<1>1. /\ q \in Seq(Event) /\ Len(q) <= 4 /\ (\A g \in Members(q) : ~IsFill(g))
      /\ Appends(m, n, q)
  BY MembersFew
<1> HIDE DEF q
<1> QED BY <1>1, AppendsOuts

LEMMA SingleAppend ==
  ASSUME NEW m, NEW n, NEW r, NEW e \in Event, ~IsFill(e), Appends(m, n, <<e>>)
  PROVE  AppendsFew(m, n, r)
<1>1. <<e>> \in Seq(Event) /\ Len(<<e>>) = 1 /\ Members(<<e>>) = {e}
  BY MembersFew
<1> DEFINE q == <<e>>
<1>2. q \in Seq(Event) /\ Len(q) <= 4 /\ (\A g \in Members(q) : ~IsFill(g))
      /\ Appends(m, n, q)
  BY <1>1
<1> HIDE DEF q
<1> QED BY <1>2, AppendsOuts

LEMMA DoubleAppend ==
  ASSUME NEW m, NEW n, NEW r, NEW e \in Event, ~IsFill(e), NEW f \in Event, ~IsFill(f),
         Appends(m, n, <<e, f>>)
  PROVE  AppendsFew(m, n, r)
<1>1. <<e, f>> \in Seq(Event) /\ Len(<<e, f>>) = 2 /\ Members(<<e, f>>) = {e, f}
  BY MembersFew
<1> DEFINE q == <<e, f>>
<1>2. q \in Seq(Event) /\ Len(q) <= 4 /\ (\A g \in Members(q) : ~IsFill(g))
      /\ Appends(m, n, q)
  BY <1>1
<1> HIDE DEF q
<1> QED BY <1>2, AppendsOuts

LEMMA TradeAppends ==
  ASSUME NEW m, AccountsOK(m), NEW n, NEW r \in NewOrderRequest,
         NEW x \in orders(m, Opposite(r.side)), NEW quantity \in Positive,
         ~post_only(r), Crosses(r, x), x.owner # r.owner, NEW unlocked \in Int,
         \A y \in orders(m, Opposite(r.side)) :
           ~MoreAggressive(Opposite(r.side), y, x),
         \/ Appends(m, n, FillsOf(r, x, quantity))
         \/ Appends(m, n, FillsOf(r, x, quantity)
                             \o <<OutEvent(r.side, r, unlocked, 0)>>)
  PROVE  AppendsFew(m, n, r)
<1> DEFINE q == FillsOf(r, x, quantity)
           o == OutEvent(r.side, r, unlocked, 0)
           all == {MakerFill(r, x, quantity), MakerOut(r, x), TakerFill(r, x, quantity), o}
<1>1. /\ x \in Leaf /\ quantity \in Int /\ r.side \in Side /\ Identified(r) /\ 0 \in Int
  BY OrderFields, Maker DEF Positive
<1>2. o \in Event /\ ~IsFill(o) /\ ~IsFill(MakerOut(r, x))
  BY <1>1, OutEventType, OutIsNoFill
<1>3. /\ q \in Seq(Event) /\ Len(q) <= 3 /\ Len(q) \in Nat
      /\ Members(q) \subseteq all
  BY <1>1, FillsMembers
<1>4. \A e \in all : IsFill(e) => FilledBy(m, r, e)
  BY <1>2 DEF FilledBy
<1>8. /\ \A e \in all : IsFill(e) => e.owner = IF e.maker THEN x.owner ELSE r.owner
      /\ IsFill(MakerFill(r, x, quantity)) /\ MakerFill(r, x, quantity).maker
      /\ Len(q) >= 2 /\ q[1] = MakerFill(r, x, quantity)
  <2> DEFINE a == MakerFill(r, x, quantity)
             b == MakerOut(r, x)
             c == TakerFill(r, x, quantity)
  <2>1. IsFill(a) /\ a.maker /\ a.owner = x.owner
    BY DEF MakerFill, FillEvent, IsFill
  <2>2. ~c.maker /\ c.owner = r.owner
    BY DEF TakerFill, FillEvent
  <2>3. ~IsFill(b) /\ ~IsFill(o)
    BY <1>2
  <2>4. q = IF quantity = x.quantity THEN <<a, b, c>> ELSE <<a, c>>
    BY <1>1, FillsShape
  <2> HIDE DEF a, b, c, q, o
  <2>5. Len(q) >= 2 /\ q[1] = a
    BY <2>4
  <2>6. \A e \in {a, b, c, o} : IsFill(e) => e.owner = IF e.maker THEN x.owner ELSE r.owner
    BY <2>1, <2>2, <2>3
  <2> QED BY <2>1, <2>5, <2>6 DEF a, b, c
<1> HIDE DEF q, o
<1>5. /\ q \o <<o>> \in Seq(Event) /\ Len(q \o <<o>>) <= 4
      /\ Members(q \o <<o>>) \subseteq all /\ (q \o <<o>>)[1] = q[1]
  <2>1. <<o>> \in Seq(Event) /\ Len(<<o>>) = 1 /\ Members(<<o>>) = {o}
    BY <1>2, MembersFew
  <2>2. o \in all
    BY DEF all
  <2> HIDE DEF all
  <2>3. Len(q \o <<o>>) = Len(q) + Len(<<o>>) /\ q \o <<o>> \in Seq(Event)
    BY <1>3, <2>1, ConcatProperties
  <2>4. (q \o <<o>>)[1] = q[1]
    <3>1. 1 \in 1 .. Len(q) + Len(<<o>>) /\ 1 <= Len(q)
      BY <1>3, <1>8, <2>1
    <3> QED BY <1>3, <2>1, <3>1, ConcatProperties
  <2>5. Members(q \o <<o>>) = Members(q) \cup {o}
    <3> DEFINE one == <<o>>
    <3>1. one \in Seq(Event) /\ Members(one) = {o}
      BY <2>1
    <3> HIDE DEF one
    <3>2. Members(q \o one) = Members(q) \cup Members(one)
      BY <1>3, <3>1, MembersConcat
    <3> QED BY <3>1, <3>2 DEF one
  <2>6. Len(q) + 1 <= 4
    BY <1>3
  <2> QED BY <1>3, <2>1, <2>2, <2>3, <2>4, <2>5, <2>6
<1> HIDE DEF all
<1>9. ASSUME NEW events, Members(events) \subseteq all, events[1] = q[1]
      PROVE  TakersFollow(events)
  <2>1. \A k \in DOMAIN events : events[k] \in all
    BY <1>9 DEF Members
  <2> QED BY <1>8, <1>9, <2>1 DEF TakersFollow
<1>6. CASE Appends(m, n, q)
  BY <1>3, <1>4, <1>6, <1>9 DEF AppendsFew
<1>7. CASE Appends(m, n, q \o <<o>>)
  BY <1>4, <1>5, <1>7, <1>9 DEF AppendsFew
<1> QED BY <1>6, <1>7 DEF q, o

\* Every pass.
LEMMA PassAppends ==
  ASSUME NEW m, AccountsOK(m), NEW n, NEW r, Pass(m, n, r)
  PROVE  AppendsFew(m, n, r)
<1>1. ASSUME NEW side \in Side, NEW x \in orders(m, side)
      PROVE  x \in Leaf /\ Identified(x) /\ x.quantity \in Nat /\ x.id.price \in Positive
             /\ BootEvent(side, x) \in Event /\ ~IsFill(BootEvent(side, x))
             /\ \A taken \in Nat : /\ ProvideEvent(side, x, taken) \in Event
                                   /\ ~IsFill(ProvideEvent(side, x, taken))
  <2>1. x \in Leaf /\ Identified(x) /\ x.quantity \in Nat /\ x.id.price \in Positive
    BY <1>1, Maker, LeafFields
  <2>2. BootEvent(side, x) \in Event /\ ~IsFill(BootEvent(side, x))
    BY <2>1, WorthType, OutIsNoFill
  <2>3. ASSUME NEW taken \in Nat
        PROVE  ProvideEvent(side, x, taken) \in Event /\ ~IsFill(ProvideEvent(side, x, taken))
    <3>1. /\ NativeLocked(side, taken, x.id.price) \in Int
          /\ NativeLocked(side, x.quantity - taken, x.id.price) \in Int
      <4>1. taken \in Int /\ x.quantity - taken \in Int
        BY <2>1
      <4> QED BY <2>1, <4>1, NativeType
    <3> QED BY <2>1, <3>1, OutEventType, OutIsNoFill DEF ProvideEvent
  <2> QED BY <2>1, <2>2, <2>3
<1>2. ASSUME r \in NewOrderRequest
      PROVE  /\ r.side \in Side /\ Opposite(r.side) \in Side /\ Identified(r)
             /\ HeldBy(r) \in Int /\ 0 \in Int
             /\ \A unlocked, still \in Int :
                  /\ OutEvent(r.side, r, unlocked, still) \in Event
                  /\ ~IsFill(OutEvent(r.side, r, unlocked, still))
  BY <1>2, OrderFields, HeldType, OutEventType, OutIsNoFill
<1>3. CASE Cancels(m, n, r)
  <2>1. r.side \in Side
    BY <1>3 DEF Cancels, CancelRequest
  <2>2. CASE Appends(m, n, <<>>)
    BY <2>2, NoAppend
  <2>3. CASE \E x \in orders(m, r.side) : Appends(m, n, <<BootEvent(r.side, x)>>)
    BY <1>1, <2>1, <2>3, SingleAppend
  <2> QED BY <1>3, <2>2, <2>3 DEF Cancels
<1>4. CASE Drops(m, n, r)
  <2>1. r \in NewOrderRequest /\ Appends(m, n, <<OutEvent(r.side, r, HeldBy(r), 0)>>)
    BY <1>4 DEF Drops
  <2> QED BY <1>2, <2>1, SingleAppend
<1>5. ASSUME NEW quantity \in Positive, Posts(m, n, r, quantity)
      PROVE  AppendsFew(m, n, r)
  <2> DEFINE w == Worth("Bid", LeafOf(r, quantity))
             o == OutEvent("Bid", r, HeldBy(r) - w, w)
  <2>1. r \in NewOrderRequest /\ Placed(m, n, r.side, LeafOf(r, quantity), PostEvents(r, quantity))
    BY <1>5 DEF Posts
  <2>2. r.side = "Bid" => o \in Event /\ ~IsFill(o)
    <3>1. r.side = "Bid" => w \in Int
      BY <1>5 DEF Posts, Positive
    <3>2. r.side = "Bid" => HeldBy(r) - w \in Int
      <4> HIDE DEF w
      <4> QED BY <1>2, <2>1, <3>1
    <3> HIDE DEF w
    <3> QED BY <1>2, <2>1, <3>1, <3>2
  <2>3. PostEvents(r, quantity) = IF r.side = "Bid" THEN <<o>> ELSE <<>>
    BY DEF PostEvents
  <2> HIDE DEF w, o
  <2>4. CASE r.side = "Bid" /\ Appends(m, n, <<o>>)
    BY <2>2, <2>4, SingleAppend
  <2>5. CASE Appends(m, n, <<>>)
    BY <2>5, NoAppend
  <2>6. ASSUME NEW worst \in orders(m, r.side),
               Appends(m, n, PostEvents(r, quantity) \o <<BootEvent(r.side, worst)>>)
        PROVE  AppendsFew(m, n, r)
    <3> DEFINE b == BootEvent(r.side, worst)
    <3>1. b \in Event /\ ~IsFill(b)
      BY <1>1, <1>2, <2>1
    <3> HIDE DEF b
    <3>2. CASE r.side = "Bid"
      <4>1. <<o>> \o <<b>> = <<o, b>>
        BY <2>2, <3>1, <3>2, PairOf
      <4>2. Appends(m, n, <<o, b>>)
        BY <2>3, <2>6, <3>2, <4>1 DEF b
      <4> QED BY <2>2, <3>1, <3>2, <4>2, DoubleAppend
    <3>3. CASE r.side # "Bid"
      <4>1. <<>> \o <<b>> = <<b>>
        <5>1. <<b>> \in Seq(Event)
          BY <3>1
        <5> QED BY <5>1
      <4>2. Appends(m, n, <<b>>)
        BY <2>3, <2>6, <3>3, <4>1 DEF b
      <4> QED BY <3>1, <4>2, SingleAppend
    <3> QED BY <3>2, <3>3
  <2> QED BY <2>1, <2>3, <2>4, <2>5, <2>6 DEF Placed
<1>6. ASSUME NEW x \in orders(m, Opposite(r.side)), NEW quantity \in Nat,
             SelfTrades(m, n, r, x, quantity)
      PROVE  AppendsFew(m, n, r)
  <2> DEFINE a == ProvideEvent(Opposite(r.side), x, quantity)
             o(u, s) == OutEvent(r.side, r, u, s)
  <2>1. r \in NewOrderRequest
    BY <1>6 DEF SelfTrades
  <2>2. a \in Event /\ ~IsFill(a)
    BY <1>1, <1>2, <2>1
  <2>3. \A u, s \in Int : o(u, s) \in Event /\ ~IsFill(o(u, s))
    BY <1>2, <2>1
  <2>4. \E u, s \in Int : Appends(m, n, <<a, o(u, s)>>)
    <3>1. CASE Appends(m, n, <<a, OutEvent(r.side, r, HeldBy(r), 0)>>)
      BY <1>2, <2>1, <3>1
    <3>2. ASSUME NEW coin \in Nat, NEW pc \in Int, NEW still \in Positive,
                 Appends(m, n, <<a, OutEvent(r.side, r,
                               HeldBy(r) - HeldBy(Reduced(r, coin, pc)), still)>>)
          PROVE  \E u, s \in Int : Appends(m, n, <<a, o(u, s)>>)
      <4>1. HeldBy(Reduced(r, coin, pc)) \in Int
        BY <2>1, ReducedFields, HeldType
      <4>2. HeldBy(r) - HeldBy(Reduced(r, coin, pc)) \in Int /\ still \in Int
        BY <1>2, <2>1, <4>1 DEF Positive
      <4> QED BY <3>2, <4>2
    <3> HIDE DEF a
    <3> QED BY <1>6, <3>1, <3>2 DEF SelfTrades, a
  <2> HIDE DEF a, o
  <2> QED BY <2>2, <2>3, <2>4, DoubleAppend
<1>7. ASSUME NEW x \in orders(m, Opposite(r.side)), NEW quantity \in Nat,
             Trades(m, n, r, x, quantity)
      PROVE  AppendsFew(m, n, r)
  <2>1. /\ r \in NewOrderRequest /\ ~post_only(r) /\ x.owner # r.owner /\ Crosses(r, x)
        /\ quantity \in Positive
        /\ \A y \in orders(m, Opposite(r.side)) :
             ~MoreAggressive(Opposite(r.side), y, x)
        /\ \/ Appends(m, n, FillsOf(r, x, quantity))
           \/ Appends(m, n, FillsOf(r, x, quantity)
                 \o <<OutEvent(r.side, r, HeldBy(r) - Cost(r, x, quantity), 0)>>)
    BY <1>7 DEF Trades
  <2>2. HeldBy(r) - Cost(r, x, quantity) \in Int
    <3>1. x \in Leaf
      BY <1>1, <1>2, <2>1
    <3>2. Cost(r, x, quantity) \in Int
      <4>1. TradedPc(x, quantity) \in Int /\ TradeFee(r, x, quantity) \in Int
        BY <2>1, <3>1, TradeTypes
      <4> QED BY <4>1, MatchingAssumption DEF Cost
    <3> QED BY <1>2, <2>1, <3>2
  <2> QED BY <2>1, <2>2, TradeAppends
<1> QED BY <1>3, <1>4, <1>5, <1>6, <1>7 DEF Pass

-----------------------------------------------------------------------------
(* What the actions do, in the same terms                                  *)

\* The parts of a NewOrder of t: what it locks, what it has to bring for that,
\* the slot, and what it writes there and into the request queue.
Locks(i, tier) == LockQtyNative(i, tier)

FreeOf(oo, side) ==
  IF side = "Bid" THEN oo.native_pc_free ELSE oo.native_coin_free

Brings(t, i, tier) ==
  Locks(i, tier) - Least(Locks(i, tier), FreeOf(open_orders[t], i.side))

SlotOf(t) == add_order_slot(open_orders[t].orders)

OrderOf(i) ==
  [id |-> gen_order_id(i.limit_price, i.side), side |-> i.side,
   client_id |-> i.client_id]

RequestOf(t, i, tier) ==
  [kind |-> "NewOrder", side |-> i.side, order_type |-> i.order_type,
   id |-> gen_order_id(i.limit_price, i.side), owner |-> t,
   owner_slot |-> SlotOf(t), fee_tier |-> tier, max_coin_qty |-> i.max_qty,
   native_pc_qty_locked |-> IF i.side = "Bid" THEN Locks(i, tier) ELSE 0,
   client_id |-> i.client_id, self_trade_behavior |-> i.self_trade_behavior]

Ordered(t, i, tier) ==
  add_order(LockFunds(open_orders[t], i.side, Locks(i, tier), Brings(t, i, tier)),
            SlotOf(t), OrderOf(i))

\* An order is worth something if its lots are: a bid that is not is refused.
LEMMA LocksPositive ==
  ASSUME NEW i \in Instructions, NEW tier \in FeeTiers
  PROVE  /\ i \in NewOrderInstruction /\ tier \in FeeTier
         /\ Locks(i, tier) \in Nat
         /\ i.side = "Bid" /\ Locks(i, tier) # 0 => PcLot # 0
         /\ LotsHaveSize => Locks(i, tier) > 0
<1>1. /\ i \in NewOrderInstruction /\ tier \in FeeTier
      /\ i.limit_price \in Nat \ {0} /\ i.max_qty \in Nat \ {0}
      /\ PcLot \in Nat /\ CoinLot \in Nat
  BY MarketAssumption, MatchingAssumption DEF NewOrderInstruction, Positive
<1> DEFINE lots == i.max_qty * i.limit_price
           fee_free == lots * PcLot
<1>2. /\ fee_free \in Nat /\ i.max_qty * CoinLot \in Nat
      /\ LotsHaveSize => fee_free > 0 /\ i.max_qty * CoinLot > 0
  <2>1. lots \in Nat \ {0}
    BY <1>1
  <2> HIDE DEF lots
  <2>2. fee_free \in Nat /\ i.max_qty * CoinLot \in Nat
    BY <1>1, <2>1
  <2>3. ASSUME LotsHaveSize PROVE fee_free > 0 /\ i.max_qty * CoinLot > 0
    <3>1. CoinLot \in Nat \ {0} /\ PcLot \in Nat \ {0}
      BY <1>1, <2>3 DEF LotsHaveSize
    <3> QED BY <1>1, <2>1, <3>1
  <2> QED BY <2>2, <2>3
<1>3. Locks(i, tier) = IF i.side = "Bid" THEN fee_free + taker_fee(tier, fee_free)
                       ELSE i.max_qty * CoinLot
  BY DEF Locks, LockQtyNative
<1> HIDE DEF fee_free
<1>4. taker_fee(tier, fee_free) \in Nat
  <2>1. fee_free \in Int /\ fee_free <= fee_free /\ fee_free >= 0
    BY <1>2
  <2>2. taker_fee(tier, fee_free) \in Int /\ taker_fee(tier, fee_free) >= 0
    BY <1>1, <2>1, TakerFee, TakerFeeMonotone
  <2> QED BY <2>2
<1>5. i.side = "Bid" /\ Locks(i, tier) # 0 => PcLot # 0
  BY <1>1, NothingLocked DEF Locks
<1> QED BY <1>1, <1>2, <1>3, <1>4, <1>5

LEMMA SlotIsFree ==
  ASSUME NEW t \in Traders, FreeSlots(open_orders[t].orders) # {}
  PROVE  SlotOf(t) \in Slots /\ open_orders[t].orders[SlotOf(t)] = Free
<1> DEFINE found == FreeSlots(open_orders[t].orders)
<1>1. found \subseteq Nat /\ found # {}
  BY DEF FreeSlots, Slots
<1>2. \E s \in found : \A q \in found : s <= q
  <2> HIDE DEF found
  <2> QED BY <1>1, LeastNat
<1>3. SlotOf(t) \in found
  BY <1>2 DEF add_order_slot, SlotOf
<1> QED BY <1>3 DEF FreeSlots

LEMMA NewOrderDoes ==
  ASSUME TypeOK, NEW t \in Traders, NEW i \in Instructions, NEW tier \in FeeTiers,
         NewOrder(t, i, tier)
  PROVE  /\ SlotOf(t) \in Slots /\ open_orders[t].orders[SlotOf(t)] = Free
         /\ RequestOf(t, i, tier) \in NewOrderRequest
         /\ OrderOf(i) \in SlotRec
         /\ Brings(t, i, tier) \in Int /\ Locks(i, tier) \in Nat
         /\ i.side = "Bid" \/ LotsHaveSize => Locks(i, tier) > 0
         /\ open_orders' = [open_orders EXCEPT ![t] = Ordered(t, i, tier)]
         /\ req_q' = Append(req_q, RequestOf(t, i, tier))
         /\ next_seq_num < MaxSeq /\ next_seq_num' = next_seq_num + 1
         /\ IF i.side = "Bid"
            THEN market' = [market EXCEPT !.pc_deposits_total = @ + Brings(t, i, tier)]
            ELSE market' = [market EXCEPT !.coin_deposits_total = @ + Brings(t, i, tier)]
         /\ UNCHANGED <<event_q, bids, asks>>
<1>1. /\ i.side \in Side /\ i.limit_price \in Positive /\ i.max_qty \in Nat
      /\ i.order_type \in OrderType /\ i.client_id \in Nat
      /\ i.self_trade_behavior \in SelfTradeBehavior /\ tier \in FeeTier
      /\ Locks(i, tier) \in Nat
      /\ LotsHaveSize => Locks(i, tier) > 0
      /\ i.side = "Bid" /\ Locks(i, tier) # 0 => PcLot # 0
  BY LocksPositive DEF NewOrderInstruction, Positive
<1>2. /\ i.side = "Bid" => Locks(i, tier) # 0
      /\ FreeSlots(open_orders[t].orders) # {}
      /\ open_orders' = [open_orders EXCEPT ![t] = Ordered(t, i, tier)]
      /\ IF i.side = "Bid"
         THEN market' = [market EXCEPT !.pc_deposits_total = @ + Brings(t, i, tier)]
         ELSE market' = [market EXCEPT !.coin_deposits_total = @ + Brings(t, i, tier)]
      /\ next_seq_num < MaxSeq /\ next_seq_num' = next_seq_num + 1
      /\ req_q' = Append(req_q, RequestOf(t, i, tier))
      /\ UNCHANGED <<event_q, bids, asks>>
  BY DEF NewOrder, Locks, FreeOf, Brings, SlotOf, OrderOf, RequestOf, Ordered
<1>3. SlotOf(t) \in Slots /\ open_orders[t].orders[SlotOf(t)] = Free
  BY <1>2, SlotIsFree
<1>4. gen_order_id(i.limit_price, i.side) \in OrderId
  <2>1. next_seq_num \in 0 .. SEQ_MASK /\ SEQ_MASK - next_seq_num \in 0 .. SEQ_MASK
    BY <1>2, MarketAssumption DEF TypeOK
  <2> QED BY <1>1, <2>1 DEF gen_order_id, OrderId
<1>5. OrderOf(i) \in SlotRec
  BY <1>1, <1>4 DEF SlotRec, OrderOf
<1>6. RequestOf(t, i, tier) \in NewOrderRequest
  <2>1. i.side \in AcceptedSide
    BY <1>1, <1>2 DEF AcceptedSide
  <2> QED BY <1>1, <1>3, <1>4, <2>1 DEF NewOrderRequest, RequestOf, Positive
<1>7. Brings(t, i, tier) \in Int
  <2>1. FreeOf(open_orders[t], i.side) \in Int
    BY AccountFields DEF TypeOK, FreeOf
  <2>2. Locks(i, tier) \in Int
    BY <1>1
  <2>3. Least(Locks(i, tier), FreeOf(open_orders[t], i.side)) \in Int
    BY <2>1, <2>2, LeastOfTwo
  <2> QED BY <2>2, <2>3 DEF Brings
<1> QED BY <1>1, <1>2, <1>3, <1>5, <1>6, <1>7

\* The request of a cancel.
CancelOf(t, side, id, slot, client_id) ==
  [kind |-> "CancelOrder", side |-> side, id |-> id, owner |-> t,
   owner_slot |-> slot, client_id |-> client_id]

LEMMA CancelDoes ==
  ASSUME TypeOK, NEW t \in Traders,
         \/ \E side \in Side, id \in KnownIds, slot \in Slots :
              CancelOrder(t, side, id, slot)
         \/ \E i \in Instructions : CancelOrderByClientId(t, i.client_id)
  PROVE  \E c \in CancelRequest :
           /\ req_q' = Append(req_q, c)
           /\ next_seq_num < MaxSeq /\ next_seq_num' = next_seq_num + 1
           /\ UNCHANGED <<market, open_orders, event_q, bids, asks>>
<1>1. ASSUME NEW side \in Side, NEW id \in OrderId, NEW slot \in Slots,
             NEW client_id \in Nat, RequestCancel(t, side, id, slot, client_id)
      PROVE  \E c \in CancelRequest :
               /\ req_q' = Append(req_q, c)
               /\ next_seq_num < MaxSeq /\ next_seq_num' = next_seq_num + 1
               /\ UNCHANGED <<market, open_orders, event_q, bids, asks>>
  <2> DEFINE c == CancelOf(t, side, id, slot, client_id)
  <2>1. c \in CancelRequest
    BY DEF CancelRequest, CancelOf
  <2>2. /\ req_q' = Append(req_q, c)
        /\ next_seq_num < MaxSeq /\ next_seq_num' = next_seq_num + 1
        /\ UNCHANGED <<market, open_orders, event_q, bids, asks>>
    BY <1>1 DEF RequestCancel, CancelOf
  <2> HIDE DEF c
  <2> QED BY <2>1, <2>2
<1>2. ASSUME NEW side \in Side, NEW id \in KnownIds, NEW slot \in Slots,
             CancelOrder(t, side, id, slot)
      PROVE  id \in OrderId /\ RequestCancel(t, side, id, slot, 0) /\ 0 \in Nat
  <2>1. PICK u \in Traders, s \in Slots :
          open_orders[u].orders[s] # Free /\ id = open_orders[u].orders[s].id
    BY DEF KnownIds, LiveSlots
  <2>2. open_orders[u].orders[s] \in SlotRec
    BY <2>1, LiveSlot
  <2> QED BY <1>2, <2>1, <2>2 DEF SlotRec, CancelOrder
<1>3. ASSUME NEW i \in Instructions, CancelOrderByClientId(t, i.client_id)
      PROVE  \E side \in Side, id \in OrderId, slot \in Slots, client_id \in Nat :
               RequestCancel(t, side, id, slot, client_id)
  <2> DEFINE slots == open_orders[t].orders
             found == {s \in Slots : slots[s] # Free
                                     /\ slots[s].client_id = i.client_id}
             slot  == CHOOSE s \in found : \A r \in found : s <= r
  <2>1. /\ found # {} /\ i.client_id \in Nat
        /\ RequestCancel(t, slots[slot].side, slots[slot].id, slot, i.client_id)
    BY <1>3, MarketAssumption DEF CancelOrderByClientId, NewOrderInstruction
  <2>2. slot \in found
    <3>1. found \subseteq Nat
      BY DEF Slots
    <3>2. \E s \in found : \A r \in found : s <= r
      <4> HIDE DEF found
      <4> QED BY <2>1, <3>1, LeastNat
    <3> HIDE DEF found
    <3> QED BY <3>2
  <2> HIDE DEF slot
  <2>3. slot \in Slots /\ slots[slot] \in SlotRec
    BY <2>2, LiveSlot
  <2>4. slots[slot].side \in Side /\ slots[slot].id \in OrderId
    BY <2>3 DEF SlotRec
  <2> QED BY <2>1, <2>3, <2>4
<1>4. CASE \E side \in Side, id \in KnownIds, slot \in Slots :
             CancelOrder(t, side, id, slot)
  BY <1>1, <1>2, <1>4
<1>5. CASE \E i \in Instructions : CancelOrderByClientId(t, i.client_id)
  BY <1>1, <1>3, <1>5
<1> QED BY <1>4, <1>5

-----------------------------------------------------------------------------
(* Invariants of the queues and the book                                   *)

\* What a state is to MatchOrders.
Queues == <<req_q, event_q, bids, asks, next_seq_num>>

\* How an action may change the queues and the book.
QueueStep ==
  \/ \E t \in Traders, i \in Instructions, tier \in FeeTiers : NewOrder(t, i, tier)
  \/ \E c \in CancelRequest :
       /\ req_q' = Append(req_q, c) /\ next_seq_num' = next_seq_num + 1
       /\ next_seq_num < MaxSeq /\ UNCHANGED <<event_q, bids, asks>>
  \/ \E limit \in MatchLimits : MatchOrders(limit)
  \/ \E limit \in ConsumeLimits, accounts \in SUBSET Traders :
       ConsumeEvents(limit, accounts)
  \/ UNCHANGED Queues

LEMMA StepsOfQueues ==
  ASSUME TypeOK, [Next]_vars
  PROVE  QueueStep
<1>1. ASSUME NEW t \in Traders,
             \/ \E side \in Side, id \in KnownIds, slot \in Slots :
                  CancelOrder(t, side, id, slot)
             \/ \E i \in Instructions : CancelOrderByClientId(t, i.client_id)
      PROVE  QueueStep
  <2>1. \E c \in CancelRequest :
           /\ req_q' = Append(req_q, c)
           /\ next_seq_num < MaxSeq /\ next_seq_num' = next_seq_num + 1
           /\ UNCHANGED <<market, open_orders, event_q, bids, asks>>
    BY <1>1, CancelDoes
  <2> QED BY <2>1 DEF QueueStep
<1>2. ASSUME NEW t \in Traders, NEW with_referrer \in BOOLEAN,
             SettleFunds(t, with_referrer)
      PROVE  QueueStep
  BY <1>2 DEF QueueStep, Queues, SettleFunds
<1>3. CASE SweepFees \/ DisableMarket \/ UNCHANGED vars
  BY <1>3 DEF QueueStep, Queues, SweepFees, DisableMarket, vars
<1>4. CASE \/ \E t \in Traders, i \in Instructions, tier \in FeeTiers : NewOrder(t, i, tier)
           \/ \E limit \in MatchLimits : MatchOrders(limit)
           \/ \E limit \in ConsumeLimits, accounts \in SUBSET Traders :
                ConsumeEvents(limit, accounts)
  BY <1>4 DEF QueueStep
<1> QED BY <1>1, <1>2, <1>3, <1>4 DEF Next

\* Every bid that waits has something left to pay with.
RequestsPay(q) == \A r \in Members(q) : r \in NewOrderRequest => Pays(r)

LEMMA PassPays ==
  ASSUME NEW m, AccountsOK(m), m.req_q # <<>>, RequestsPay(m.req_q), NEW n,
         Pass(m, n, m.req_q[1])
  PROVE  RequestsPay(n.req_q)
<1>1. \/ Served(m, n)
      \/ \E coin \in Nat, pc \in Int : Waits(m, n, m.req_q[1], coin, pc)
  BY DEF Pass, Cancels, Drops, Posts, Placed, SelfTrades, Trades
<1>2. m.req_q \in Seq(Request)
  BY DEF AccountsOK, Accounts
<1>3. CASE Served(m, n)
  BY <1>2, <1>3, MembersTail DEF Served, RequestsPay
<1>4. ASSUME NEW coin \in Nat, NEW pc \in Int, Waits(m, n, m.req_q[1], coin, pc)
      PROVE  RequestsPay(n.req_q)
  <2> DEFINE x == Reduced(m.req_q[1], coin, pc)
  <2>1. Pays(x) /\ n.req_q = [m.req_q EXCEPT ![1] = x]
    BY <1>4 DEF Waits
  <2> HIDE DEF x
  <2>2. Members(n.req_q) \subseteq Members(m.req_q) \cup {x}
    BY <1>2, <2>1, MembersReplaced
  <2> QED BY <2>1, <2>2 DEF RequestsPay
<1> QED BY <1>1, <1>3, <1>4

\* What the passes of a successful call keep.
LEMMA CallKeeps ==
  ASSUME NEW S, NEW m \in S, AccountsOK(m), RequestsPay(m.req_q), NEW limit \in Nat,
         \A n \in S, p \in Accounts :
           AccountsOK(n) /\ KeepsBooks(n, p) /\ RequestsPay(n.req_q) /\ n.ok /\ p.ok
             /\ n.req_q # <<>> /\ Pass(n, p, n.req_q[1]) => p \in S,
         process_requests(m, limit).ok
  PROVE  /\ process_requests(m, limit) \in S
         /\ RequestsPay(process_requests(m, limit).req_q)
<1> DEFINE U == {n \in Accounts : /\ AccountsOK(n) /\ RequestsPay(n.req_q)
                                 /\ (n.ok => n \in S)}
<1>1. m \in U
  BY DEF AccountsOK
<1>2. ASSUME NEW n \in U, n.ok, n.req_q # <<>>
      PROVE  process_orderbook_request(n) \in U
  <2> DEFINE p == process_orderbook_request(n)
  <2>1. AccountsOK(n) /\ RequestsPay(n.req_q) /\ n \in S
    BY <1>2
  <2>2. KeepsBooks(n, p)
    BY <1>2, <2>1, ProcessRequestKeeps
  <2>3. AccountsOK(p) /\ p \in Accounts
    BY <2>2 DEF KeepsBooks, AccountsOK
  <2>4. Pass(n, p, n.req_q[1])
    <3>1. n.req_q[1] \in NewOrderRequest => Pays(n.req_q[1])
      BY <1>2, <2>1, MembersTail DEF RequestsPay, AccountsOK, Accounts
    <3> QED BY <1>2, <2>1, <3>1, PassDoes
  <2> HIDE DEF p
  <2>5. RequestsPay(p.req_q)
    BY <1>2, <2>1, <2>4, PassPays
  <2>6. p.ok => p \in S
    BY <1>2, <2>1, <2>2, <2>3, <2>4
  <2>7. p \in U
    BY <2>3, <2>5, <2>6
  <2> QED BY <2>7 DEF p
<1>3. process_requests(m, limit) \in U
  <2> HIDE DEF U
  <2> QED BY <1>1, <1>2, PassesKeep
<1> QED BY <1>3

-----------------------------------------------------------------------------
(* Fills                                                                   *)

\* What FillsWithinLimit says of one fill.
WithinLimit(e) ==
  LET coin  == (IF e.side = "Bid" THEN e.native_qty_released
                                  ELSE e.native_qty_paid) \div CoinLot
      limit == coin * e.id.price * PcLot
      fee   == e.native_fee_or_rebate
  IN  CASE e.side = "Bid" /\ e.maker  -> e.native_qty_paid + fee = limit
        [] e.side = "Bid" /\ ~e.maker -> e.native_qty_paid - fee <= limit
        [] e.side = "Ask" /\ e.maker  -> e.native_qty_released - fee = limit
        [] OTHER                      -> e.native_qty_released + fee >= limit

\* WithinLimit tells the lots of a fill by the size of a lot.
FillsFair(q) == LotsHaveSize => \A e \in Members(q) : IsFill(e) => WithinLimit(e)

\* A quantity in native units tells the lots.
LEMMA LotsOf ==
  ASSUME NEW quantity \in Nat, NEW lot \in Nat \ {0}
  PROVE  (quantity * lot) \div lot = quantity
<1> DEFINE a == quantity * lot
<1>1. a \in Int /\ quantity * lot <= a /\ (quantity + 1) * lot = a + lot
  OBVIOUS
<1> HIDE DEF a
<1>2. a \div lot = quantity
  BY <1>1, QuotientUnique
<1> QED BY <1>2 DEF a

\* The limit of an order against the price of the maker.
LEMMA PriceOfTrade ==
  ASSUME NEW r \in NewOrderRequest, NEW x \in Leaf, NEW quantity \in Nat,
         Crosses(r, x)
  PROVE  LET limit == quantity * r.id.price * PcLot
         IN  /\ limit \in Int
             /\ r.side = "Bid" => TradedPc(x, quantity) <= limit
             /\ r.side = "Ask" => TradedPc(x, quantity) >= limit
<1> DEFINE mine == quantity * r.id.price
           theirs == quantity * x.id.price
           limit == mine * PcLot
<1>1. /\ r.id.price \in Nat /\ x.id.price \in Nat /\ PcLot \in Nat
      /\ r.side = "Bid" => x.id.price <= r.id.price
      /\ r.side = "Ask" => r.id.price <= x.id.price
  BY OrderFields, LeafFields, MatchingAssumption DEF Crosses, Positive, Side
<1>2. /\ mine \in Int /\ theirs \in Int
      /\ r.side = "Bid" => theirs <= mine
      /\ r.side = "Ask" => mine <= theirs
  <2>1. x.id.price <= r.id.price => x.id.price * quantity <= r.id.price * quantity
    BY <1>1, ProductMonotone
  <2>2. r.id.price <= x.id.price => r.id.price * quantity <= x.id.price * quantity
    BY <1>1, ProductMonotone
  <2>3. /\ mine = r.id.price * quantity /\ theirs = x.id.price * quantity
        /\ mine \in Int /\ theirs \in Int
    BY <1>1
  <2> HIDE DEF mine, theirs
  <2> QED BY <1>1, <2>1, <2>2, <2>3
<1>3. TradedPc(x, quantity) = theirs * PcLot
  BY DEF TradedPc
<1> HIDE DEF mine, theirs
<1>4. /\ limit \in Int
      /\ theirs <= mine => theirs * PcLot <= limit
      /\ mine <= theirs => limit <= theirs * PcLot
  BY <1>1, <1>2, ProductMonotone
<1>5. theirs * PcLot \in Int
  BY <1>1, <1>2
<1>6. /\ limit \in Int
      /\ r.side = "Bid" => TradedPc(x, quantity) <= limit
      /\ r.side = "Ask" => TradedPc(x, quantity) >= limit
  <2> HIDE DEF limit
  <2> QED BY <1>2, <1>3, <1>4, <1>5
<1> QED BY <1>6 DEF limit, mine

LEMMA TradeIsFair ==
  ASSUME NEW r \in NewOrderRequest, NEW x \in Leaf, NEW quantity \in Nat,
         Crosses(r, x), LotsHaveSize
  PROVE  /\ WithinLimit(MakerFill(r, x, quantity))
         /\ WithinLimit(TakerFill(r, x, quantity))
<1> DEFINE pc == TradedPc(x, quantity)
           fee == TradeFee(r, x, quantity)
           rebate == TradeRebate(x, quantity)
           coin == quantity * CoinLot
           limit == quantity * r.id.price * PcLot
           a == MakerFill(r, x, quantity)
           b == TakerFill(r, x, quantity)
<1>1. /\ pc \in Int /\ fee \in Int /\ rebate \in Int /\ coin \in Int
      /\ r.side \in Side /\ coin \div CoinLot = quantity
  BY OrderFields, TradeTypes, LotsOf, MatchingAssumption DEF LotsHaveSize
<1>2. /\ limit \in Int
      /\ r.side = "Bid" => pc <= limit
      /\ r.side = "Ask" => pc >= limit
  BY PriceOfTrade
<1>3. pc = quantity * x.id.price * PcLot
  BY DEF TradedPc
<1>4. /\ a.side = Opposite(r.side) /\ a.maker = TRUE /\ a.id = x.id
      /\ a.native_fee_or_rebate = rebate
      /\ a.native_qty_released = IF a.side = "Bid" THEN coin ELSE pc + rebate
      /\ a.native_qty_paid = IF a.side = "Bid" THEN pc - rebate ELSE coin
  BY <1>1 DEF MakerFill, FillEvent, Side, Opposite
<1>5. /\ b.side = r.side /\ b.maker = FALSE /\ b.id = r.id
      /\ b.native_fee_or_rebate = fee
      /\ b.native_qty_released = IF b.side = "Bid" THEN coin ELSE pc - fee
      /\ b.native_qty_paid = IF b.side = "Bid" THEN pc + fee ELSE coin
  BY <1>1 DEF TakerFill, FillEvent, Side
<1>6. WithinLimit(a)
  <2>1. CASE r.side = "Ask"
    <3>1. a.side = "Bid" /\ a.native_qty_paid + rebate = pc
      <4> HIDE DEF pc, rebate, a, coin
      <4> QED BY <1>1, <1>4, <2>1 DEF Opposite
    <3>2. (a.native_qty_released \div CoinLot) * a.id.price * PcLot = pc
      <4> HIDE DEF pc, rebate, a, coin
      <4> QED BY <1>1, <1>3, <1>4, <3>1
    <3> HIDE DEF pc, rebate, a, coin
    <3> QED BY <1>4, <3>1, <3>2 DEF WithinLimit
  <2>2. CASE r.side = "Bid"
    <3>1. a.side = "Ask" /\ a.native_qty_released - rebate = pc
      <4> HIDE DEF pc, rebate, a, coin
      <4> QED BY <1>1, <1>4, <2>2 DEF Opposite
    <3>2. (a.native_qty_paid \div CoinLot) * a.id.price * PcLot = pc
      <4> HIDE DEF pc, rebate, a, coin
      <4> QED BY <1>1, <1>3, <1>4, <3>1
    <3> HIDE DEF pc, rebate, a, coin
    <3> QED BY <1>4, <3>1, <3>2 DEF WithinLimit
  <2> QED BY <1>1, <2>1, <2>2 DEF Side
<1>7. WithinLimit(b)
  <2>1. CASE r.side = "Bid"
    <3>1. b.side = "Bid" /\ b.native_qty_paid - fee = pc /\ pc <= limit
      <4> HIDE DEF pc, fee, b, coin, limit
      <4> QED BY <1>1, <1>2, <1>5, <2>1
    <3>2. (b.native_qty_released \div CoinLot) * b.id.price * PcLot = limit
      <4>1. b.native_qty_released \div CoinLot = quantity
        <5> HIDE DEF pc, fee, b, coin, limit
        <5> QED BY <1>1, <1>5, <2>1
      <4> HIDE DEF b
      <4> QED BY <1>5, <4>1
    <3> HIDE DEF pc, fee, b, coin, limit
    <3> QED BY <1>5, <3>1, <3>2 DEF WithinLimit
  <2>2. CASE r.side = "Ask"
    <3>1. b.side = "Ask" /\ b.native_qty_released + fee = pc /\ pc >= limit
      <4> HIDE DEF pc, fee, b, coin, limit
      <4> QED BY <1>1, <1>2, <1>5, <2>2
    <3>2. (b.native_qty_paid \div CoinLot) * b.id.price * PcLot = limit
      <4>1. b.native_qty_paid \div CoinLot = quantity
        <5> HIDE DEF pc, fee, b, coin, limit
        <5> QED BY <1>1, <1>5, <2>2
      <4> HIDE DEF b
      <4> QED BY <1>5, <4>1
    <3> HIDE DEF pc, fee, b, coin, limit
    <3> QED BY <1>5, <3>1, <3>2 DEF WithinLimit
  <2> QED BY <1>1, <2>1, <2>2 DEF Side
<1> QED BY <1>6, <1>7

LEMMA PassFair ==
  ASSUME NEW m, AccountsOK(m), FillsFair(m.event_q), NEW n, n.ok, NEW r, Pass(m, n, r)
  PROVE  FillsFair(n.event_q)
<1>1. PICK events \in Seq(Event) :
        /\ Appends(m, n, events)
        /\ \A e \in Members(events) : IsFill(e) => FilledBy(m, r, e)
  BY PassAppends DEF AppendsFew
<1>2. n.event_q = m.event_q \o events /\ m.event_q \in Seq(Event)
  BY <1>1 DEF Appends, AccountsOK, Accounts
<1>3. Members(n.event_q) = Members(m.event_q) \cup Members(events)
  BY <1>2, MembersConcat
<1>4. ASSUME LotsHaveSize, NEW e \in Members(events), IsFill(e) PROVE WithinLimit(e)
  <2>1. FilledBy(m, r, e)
    BY <1>1, <1>4
  <2>2. PICK x \in orders(m, Opposite(r.side)), quantity \in Positive :
          /\ r \in NewOrderRequest /\ Crosses(r, x)
          /\ e \in {MakerFill(r, x, quantity), TakerFill(r, x, quantity)}
    BY <2>1 DEF FilledBy
  <2>3. x \in Leaf /\ quantity \in Nat
    BY <2>2, OrderFields, Maker DEF Positive
  <2>4. WithinLimit(MakerFill(r, x, quantity)) /\ WithinLimit(TakerFill(r, x, quantity))
    BY <1>4, <2>2, <2>3, TradeIsFair
  <2> QED BY <2>2, <2>4
<1> QED BY <1>3, <1>4 DEF FillsFair

\* Consuming only takes events off the queue.
LEMMA ConsumeTakes ==
  ASSUME NEW c, ConsumedOK(c), NEW limit \in Nat, NEW accounts
  PROVE  LET q == process_consume_events(c, limit, accounts).event_q
         IN  /\ q \in Seq(Event) /\ Len(q) <= Len(c.event_q)
             /\ Members(q) \subseteq Members(c.event_q)
<1> DEFINE Less(d) == /\ ConsumedOK(d) /\ Members(d.event_q) \subseteq Members(c.event_q)
                      /\ Len(d.event_q) <= Len(c.event_q)
           S == {d \in ConsumedRec : Less(d)}
<1>1. c \in S
  BY DEF ConsumedOK
<1>2. ASSUME NEW d \in S, d.ok, d.event_q # <<>> PROVE ConsumeEvent(d) \in S
  <2>1. /\ ConsumedOK(d) /\ d \in ConsumedRec /\ Members(d.event_q) \subseteq Members(c.event_q)
        /\ Len(d.event_q) <= Len(c.event_q) /\ d.event_q \in Seq(Event)
    BY <1>2 DEF ConsumedRec
  <2>2. ConsumedOK(ConsumeEvent(d))
    BY <1>2, <2>1, ConsumeEventType
  <2>3. ConsumeEvent(d).event_q \in {Tail(d.event_q), d.event_q}
    BY <2>1 DEF ConsumeEvent, ConsumedRec
  <2>4. Members(Tail(d.event_q)) \subseteq Members(d.event_q)
    BY <1>2, <2>1, MembersTail DEF ConsumedRec
  <2>5. Members(ConsumeEvent(d).event_q) \subseteq Members(c.event_q)
    BY <2>1, <2>3, <2>4
  <2>6. Len(ConsumeEvent(d).event_q) <= Len(c.event_q)
    <3>1. Len(Tail(d.event_q)) = Len(d.event_q) - 1 /\ Len(d.event_q) \in Nat
          /\ Len(c.event_q) \in Nat
      BY <1>2, <2>1, HeadTailProperties, LenProperties DEF ConsumedOK, ConsumedRec
    <3> QED BY <2>1, <2>3, <3>1
  <2> QED BY <2>2, <2>5, <2>6 DEF ConsumedOK
<1>3. process_consume_events(c, limit, accounts) \in S
  <2> HIDE DEF S
  <2> QED BY <1>1, <1>2, EventsKeep
<1> QED BY <1>3 DEF ConsumedRec

LEMMA AccountsOfState ==
  ASSUME TypeOK
  PROVE  AccountsOK(MarketAccounts) /\ MarketAccounts \in Accounts
  BY DEF TypeOK, AccountsOK, Accounts, IsBook, MarketAccounts

\* A call of MatchOrders, in terms of its passes.
LEMMA MatchOrdersDoes ==
  ASSUME TypeOK, RequestsPay(req_q), NEW limit \in MatchLimits, MatchOrders(limit),
         NEW S, MarketAccounts \in S,
         \A n \in S, p \in Accounts :
           AccountsOK(n) /\ KeepsBooks(n, p) /\ RequestsPay(n.req_q) /\ n.ok /\ p.ok
             /\ n.req_q # <<>> /\ Pass(n, p, n.req_q[1]) => p \in S
  PROVE  \E n \in S :
           /\ RequestsPay(n.req_q) /\ AccountsOK(n)
           /\ bids' = n.bids /\ asks' = n.asks /\ market' = n.market
           /\ req_q' = n.req_q /\ event_q' = n.event_q
           /\ UNCHANGED <<open_orders, next_seq_num>>
<1> DEFINE n == process_requests(MarketAccounts, limit)
<1>1. /\ n.ok /\ bids' = n.bids /\ asks' = n.asks /\ market' = n.market
      /\ req_q' = n.req_q /\ event_q' = n.event_q
      /\ UNCHANGED <<open_orders, next_seq_num>>
  BY DEF MatchOrders, MarketAccounts
<1>2. AccountsOK(MarketAccounts) /\ MarketAccounts.req_q = req_q /\ limit \in Nat
  BY AccountsOfState, MarketAssumption DEF MarketAccounts, Positive
<1>3. n \in S /\ RequestsPay(n.req_q)
  BY <1>1, <1>2, CallKeeps
<1>4. AccountsOK(n)
  BY <1>2, ProcessRequestsKeeps DEF KeepsBooks
<1> HIDE DEF n
<1> QED BY <1>1, <1>3, <1>4

LEMMA ConsumeEventsDoes ==
  ASSUME TypeOK, NEW limit \in ConsumeLimits, NEW accounts,
         ConsumeEvents(limit, accounts)
  PROVE  /\ Members(event_q') \subseteq Members(event_q)
         /\ event_q' \in Seq(Event) /\ Len(event_q') <= Len(event_q)
         /\ UNCHANGED <<req_q, next_seq_num, bids, asks, market>>
<1> DEFINE c == [open_orders |-> open_orders, event_q |-> event_q, ok |-> TRUE]
           d == process_consume_events(c, limit, accounts)
<1>1. ConsumedOK(c) /\ c.event_q = event_q
  BY DEF TypeOK, ConsumedOK, ConsumedRec
<1>2. limit \in Nat
  BY MarketAssumption DEF Positive
<1>3. event_q' = d.event_q /\ UNCHANGED <<req_q, next_seq_num, bids, asks, market>>
  BY DEF ConsumeEvents
<1> HIDE DEF c
<1>4. /\ Members(d.event_q) \subseteq Members(c.event_q)
      /\ d.event_q \in Seq(Event) /\ Len(d.event_q) <= Len(c.event_q)
  BY <1>1, <1>2, ConsumeTakes
<1> HIDE DEF d
<1> QED BY <1>1, <1>3, <1>4

\* What is appended to the queue of requests.
LEMMA AppendRequest ==
  ASSUME NEW q \in Seq(Request), NEW r \in Request
  PROVE  /\ Append(q, r) \in Seq(Request) /\ Len(Append(q, r)) = Len(q) + 1
         /\ Members(Append(q, r)) = Members(q) \cup {r}
         /\ \A k \in 1 .. Len(q) : Append(q, r)[k] = q[k]
         /\ Append(q, r)[Len(q) + 1] = r
<1>1. /\ Append(q, r) \in Seq(Request) /\ Len(Append(q, r)) = Len(q) + 1
      /\ \A k \in 1 .. Len(q) : Append(q, r)[k] = q[k]
      /\ Append(q, r)[Len(q) + 1] = r
  BY AppendProperties
<1>2. Append(q, r) = q \o <<r>>
  BY AppendIsConcat
<1>3. Members(Append(q, r)) = Members(q) \cup {r}
  <2>1. <<r>> \in Seq(Request) /\ Members(<<r>>) = {r}
    BY MembersFew
  <2>2. Members(q \o <<r>>) = Members(q) \cup Members(<<r>>)
    <3> DEFINE one == <<r>>
    <3> HIDE DEF one
    <3>1. Members(q \o one) = Members(q) \cup Members(one)
      BY <2>1, MembersConcat DEF one
    <3> QED BY <3>1 DEF one
  <2> QED BY <1>2, <2>1, <2>2
<1> QED BY <1>1, <1>3

-----------------------------------------------------------------------------

QInv == RequestsPay(req_q) /\ FillsFair(event_q)

LEMMA QInvInit == Init => QInv
  BY MembersFew DEF Init, QInv, RequestsPay, FillsFair

LEMMA QInvNext == IInv /\ QInv /\ [Next]_vars => QInv'
<1> SUFFICES ASSUME TypeOK, QInv, [Next]_vars PROVE QInv'
  BY DEF IInv
<1>1. QueueStep /\ req_q \in Seq(Request)
  BY StepsOfQueues DEF TypeOK
<1>2. ASSUME NEW t \in Traders, NEW i \in Instructions, NEW tier \in FeeTiers,
             NewOrder(t, i, tier)
      PROVE  QInv'
  <2> DEFINE r == RequestOf(t, i, tier)
  <2>1. /\ r \in NewOrderRequest /\ req_q' = Append(req_q, r) /\ event_q' = event_q
        /\ i.side = "Bid" => Locks(i, tier) > 0
    BY <1>2, NewOrderDoes
  <2>2. Pays(r)
    BY <2>1 DEF Pays, RequestOf
  <2> HIDE DEF r
  <2>3. Members(req_q') = Members(req_q) \cup {r}
    BY <1>1, <2>1, AppendRequest DEF Request
  <2> QED BY <2>1, <2>2, <2>3 DEF QInv, RequestsPay
<1>3. ASSUME NEW c \in CancelRequest, req_q' = Append(req_q, c), UNCHANGED event_q
      PROVE  QInv'
  <2>1. Members(req_q') = Members(req_q) \cup {c}
    BY <1>1, <1>3, AppendRequest DEF Request
  <2>2. c \notin NewOrderRequest
    BY DEF CancelRequest, NewOrderRequest
  <2> QED BY <1>3, <2>1, <2>2 DEF QInv, RequestsPay
<1>4. ASSUME NEW limit \in MatchLimits, MatchOrders(limit) PROVE QInv'
  <2> DEFINE S == {n \in Accounts : FillsFair(n.event_q)}
  <2>1. MarketAccounts \in S
    BY AccountsOfState DEF QInv, MarketAccounts
  <2>2. ASSUME NEW n \in S, NEW p \in Accounts, AccountsOK(n), p.ok,
               Pass(n, p, n.req_q[1])
        PROVE  p \in S
    BY <2>2, PassFair
  <2>3. \E n \in S : RequestsPay(n.req_q) /\ req_q' = n.req_q /\ event_q' = n.event_q
    <3> HIDE DEF S
    <3> QED BY <1>4, <2>1, <2>2, MatchOrdersDoes DEF QInv
  <2> QED BY <2>3 DEF QInv
<1>5. ASSUME NEW limit \in ConsumeLimits, NEW accounts \in SUBSET Traders,
             ConsumeEvents(limit, accounts)
      PROVE  QInv'
  <2>1. Members(event_q') \subseteq Members(event_q) /\ req_q' = req_q
    BY <1>5, ConsumeEventsDoes
  <2> QED BY <2>1 DEF QInv, FillsFair
<1>6. CASE UNCHANGED Queues
  BY <1>6 DEF Queues, QInv
<1> QED BY <1>1, <1>2, <1>3, <1>4, <1>5, <1>6 DEF QueueStep

LEMMA QInvHolds == Spec => []QInv
  BY Inductive, QInvInit, QInvNext, PTL DEF Spec

\* No fill is worse than the limit of its order: a taker gets the price of the
\* maker or a better one than its own, a maker exactly its own, whatever the
\* fees and the sizes of lots are, if they have a size (dex/src/matching.rs
\* new_ask and new_bid).
THEOREM LimitsHold == ASSUME LotsHaveSize PROVE Spec => []FillsWithinLimit
<1>1. QInv => FillsWithinLimit
  BY DEF QInv, FillsFair, Members, WithinLimit, FillsWithinLimit
<1> QED BY <1>1, QInvHolds, PTL

\* Room for four events is room for a pass: a call of MatchOrders with limit 1
\* does not fail (dex/src/matching.rs process_orderbook_request).
LEMMA OneMorePass ==
  ASSUME TypeOK, QInv
  PROVE  OnePassFits
<1> DEFINE m == MarketAccounts
           S == {n \in Accounts : AccountsOK(n)}
<1>1. /\ AccountsOK(m) /\ m \in S /\ m.ok = TRUE /\ m.req_q = req_q
      /\ m.event_q = event_q
  BY AccountsOfState DEF MarketAccounts
<1>2. ASSUME NEW n \in S, n.ok /\ n.req_q # <<>>
      PROVE  process_orderbook_request(n) \in S
  BY <1>2, ProcessRequestKeeps DEF KeepsBooks, AccountsOK
<1>3. process_requests(m, 1) = PassOrStop(m)
  <2> HIDE DEF m, S
  <2>1. 1 \in Nat
    OBVIOUS
  <2>2. PICK g : /\ g[0] = m /\ process_requests(m, 1) = g[1]
                 /\ \A n \in 0 .. 1 : n + 1 \in 0 .. 1 => g[n + 1] = PassOrStop(g[n])
    BY <1>1, <1>2, <2>1, PassesOf
  <2>3. g[0 + 1] = PassOrStop(g[0]) /\ 0 + 1 = 1
    BY <2>2
  <2> QED BY <2>2, <2>3
<1> HIDE DEF m
<1>4. SUFFICES ASSUME Len(event_q) + 4 <= EventCap PROVE PassOrStop(m).ok
  BY <1>3 DEF OnePassFits, m
<1>5. CASE m.req_q = <<>>
  BY <1>1, <1>5 DEF PassOrStop
<1>6. CASE m.req_q # <<>>
  <2> DEFINE p == process_orderbook_request(m)
  <2>1. PassOrStop(m) = p
    BY <1>1, <1>6 DEF PassOrStop
  <2>2. Pass(m, p, m.req_q[1])
    <3>1. m.req_q[1] \in NewOrderRequest => Pays(m.req_q[1])
      BY <1>1, <1>6, MembersTail DEF QInv, RequestsPay, AccountsOK, Accounts
    <3> QED BY <1>1, <1>6, <3>1, PassDoes
  <2> HIDE DEF p
  <2>3. PICK events \in Seq(Event) : Appends(m, p, events) /\ Len(events) <= 4
    BY <1>1, <2>2, PassAppends DEF AppendsFew
  <2>4. /\ Len(events) \in Nat /\ Len(event_q) \in Nat /\ EventCap \in Nat
    BY MatchingAssumption DEF TypeOK
  <2>5. p.ok
    BY <1>1, <1>4, <2>3, <2>4 DEF Appends
  <2> QED BY <2>1, <2>5
<1> QED BY <1>5, <1>6

\* The four events of a pass that OnePassFits speaks of are enough for any
\* orders, fees and lots, in every reachable state.
THEOREM PassesFit == Spec => []OnePassFits
<1>1. IInv /\ QInv => OnePassFits
  BY OneMorePass DEF IInv
<1> QED BY <1>1, Inductive, QInvHolds, PTL

-----------------------------------------------------------------------------
(* What a pass does to the book and to the requests                        *)

\* z is what is left of the order x.
RestOf(z, x) ==
  /\ z.id = x.id /\ z.owner = x.owner /\ z.owner_slot = x.owner_slot
  /\ z.client_id = x.client_id

\* The order that a pass posts, if it does.
Posted(m, n, r, side, z) ==
  /\ r \in NewOrderRequest /\ side = r.side /\ post_allowed(r) /\ Served(m, n)
  /\ z.id = r.id /\ z.owner = r.owner /\ z.owner_slot = r.owner_slot
  /\ z.client_id = r.client_id
  /\ \A y \in orders(m, Opposite(side)) : ~Crosses(r, y)

\* Two orders of a side have different ids.
IdsDiffer(leaves) == \A x, y \in leaves : x.id = y.id => x = y

\* The side keeps what is left of some of its orders.
Shrinks(old, new) ==
  /\ \A z \in new : \E x \in old : RestOf(z, x)
  /\ IdsDiffer(old) => IdsDiffer(new)

\* ... and may get the order of the request.
Grows(m, n, r, side) ==
  \E z \in orders(n, side) :
    /\ Posted(m, n, r, side, z)
    /\ Shrinks(orders(m, side), orders(n, side) \ {z})

BookAfter(m, n, r) ==
  \/ \A side \in Side : Shrinks(orders(m, side), orders(n, side))
  \/ /\ Grows(m, n, r, r.side)
     /\ Shrinks(orders(m, Opposite(r.side)), orders(n, Opposite(r.side)))

LEMMA ShrinksSubset ==
  ASSUME NEW old, NEW new \in SUBSET old
  PROVE  Shrinks(old, new)
  BY DEF Shrinks, RestOf, IdsDiffer

LEMMA ShrinksLeft ==
  ASSUME NEW m, NEW side, NEW x \in orders(m, side), NEW quantity, x \in Leaf
  PROVE  Shrinks(orders(m, side), Left(m, side, x, quantity))
<1> DEFINE z == [x EXCEPT !.quantity = quantity]
           old == orders(m, side)
           new == Left(m, side, x, quantity)
<1>1. RestOf(z, x) /\ z.id = x.id
  BY DEF Leaf, RestOf
<1>2. new \subseteq (old \ {x}) \cup {z}
  BY DEF Left
<1> HIDE DEF z, new, old
<1>3. \A y \in old : RestOf(y, y)
  BY DEF RestOf
<1>4. \A y \in new : \E w \in old : RestOf(y, w)
  BY <1>1, <1>2, <1>3 DEF old
<1>5. ASSUME IdsDiffer(old) PROVE IdsDiffer(new)
  <2> SUFFICES ASSUME NEW v \in new, NEW w \in new, v.id = w.id PROVE v = w
    BY DEF IdsDiffer
  <2>1. CASE v = z /\ w = z
    BY <2>1
  <2>2. CASE v # z /\ w # z
    BY <1>2, <1>5, <2>2 DEF IdsDiffer
  <2>3. CASE v = z /\ w # z
    <3>1. w \in old /\ w # x /\ w.id = x.id
      BY <1>1, <1>2, <2>3
    <3> QED BY <1>5, <3>1 DEF IdsDiffer, old
  <2>4. CASE v # z /\ w = z
    <3>1. v \in old /\ v # x /\ v.id = x.id
      BY <1>1, <1>2, <2>4
    <3> QED BY <1>5, <3>1 DEF IdsDiffer, old
  <2> QED BY <2>1, <2>2, <2>3, <2>4
<1> QED BY <1>4, <1>5 DEF Shrinks, old, new

\* A change of one side.
LEMMA OneSide ==
  ASSUME NEW m, NEW n, NEW side \in Side, NEW leaves, Book(m, n, side, leaves),
         Shrinks(orders(m, side), leaves)
  PROVE  \A s \in Side : Shrinks(orders(m, s), orders(n, s))
<1>1. /\ orders(n, side) = leaves
      /\ orders(n, Opposite(side)) = orders(m, Opposite(side))
  BY DEF Book
<1>2. \A s \in Side : s = side \/ s = Opposite(side)
  BY DEF Side, Opposite
<1>3. Shrinks(orders(m, Opposite(side)), orders(m, Opposite(side)))
  BY ShrinksSubset
<1> QED BY <1>1, <1>2, <1>3

LEMMA PassBook ==
  ASSUME NEW m, AccountsOK(m), NEW n, NEW r, Pass(m, n, r)
  PROVE  BookAfter(m, n, r)
<1>1. ASSUME n.bids = m.bids, n.asks = m.asks
      PROVE  BookAfter(m, n, r)
  <2>1. \A side \in Side : orders(n, side) = orders(m, side)
    BY <1>1 DEF orders
  <2> QED BY <2>1, ShrinksSubset DEF BookAfter
<1>2. CASE Cancels(m, n, r)
  <2>1. r.side \in Side
    BY <1>2 DEF Cancels, CancelRequest
  <2>2. ASSUME NEW x, Book(m, n, r.side, orders(m, r.side) \ {x})
        PROVE  BookAfter(m, n, r)
    <3>1. Shrinks(orders(m, r.side), orders(m, r.side) \ {x})
      BY ShrinksSubset
    <3> QED BY <2>1, <2>2, <3>1, OneSide DEF BookAfter
  <2> QED BY <1>1, <1>2, <2>2 DEF Cancels
<1>3. CASE Drops(m, n, r)
  BY <1>1, <1>3 DEF Drops
<1>4. ASSUME NEW quantity \in Positive, Posts(m, n, r, quantity)
      PROVE  BookAfter(m, n, r)
  <2> DEFINE z == LeafOf(r, quantity)
             old == orders(m, r.side)
  <2>1. /\ r \in NewOrderRequest /\ post_allowed(r)
        /\ \A y \in orders(m, Opposite(r.side)) : ~Crosses(r, y)
        /\ Placed(m, n, r.side, z, PostEvents(r, quantity))
    BY <1>4 DEF Posts
  <2>2. Served(m, n) /\ \E rest \in SUBSET old : Book(m, n, r.side, rest \cup {z})
    BY <2>1 DEF Placed
  <2>3. PICK rest \in SUBSET old : Book(m, n, r.side, rest \cup {z})
    BY <2>2
  <2>4. /\ z.id = r.id /\ z.owner = r.owner /\ z.owner_slot = r.owner_slot
        /\ z.client_id = r.client_id
    BY DEF LeafOf
  <2> HIDE DEF z, old
  <2>5. Posted(m, n, r, r.side, z)
    BY <2>1, <2>2, <2>4 DEF Posted
  <2>6. /\ orders(n, r.side) = rest \cup {z}
        /\ orders(n, Opposite(r.side)) = orders(m, Opposite(r.side))
    BY <2>3 DEF Book
  <2>7. Shrinks(old, orders(n, r.side) \ {z})
    <3>1. orders(n, r.side) \ {z} \in SUBSET old
      BY <2>6
    <3> QED BY <3>1, ShrinksSubset
  <2>8. Shrinks(orders(m, Opposite(r.side)), orders(n, Opposite(r.side)))
    BY <2>6, ShrinksSubset
  <2>9. Grows(m, n, r, r.side)
    BY <2>5, <2>6, <2>7 DEF Grows, old
  <2> QED BY <2>8, <2>9 DEF BookAfter
<1>5. ASSUME NEW x \in orders(m, Opposite(r.side)), NEW quantity \in Nat,
             SelfTrades(m, n, r, x, quantity) \/ Trades(m, n, r, x, quantity)
      PROVE  BookAfter(m, n, r)
  <2>1. /\ r \in NewOrderRequest
        /\ Book(m, n, Opposite(r.side),
                Left(m, Opposite(r.side), x, x.quantity - quantity))
    BY <1>5 DEF SelfTrades, Trades
  <2>2. Opposite(r.side) \in Side /\ x \in Leaf
    BY <2>1, OrderFields, Maker
  <2>3. Shrinks(orders(m, Opposite(r.side)),
                Left(m, Opposite(r.side), x, x.quantity - quantity))
    BY <2>2, ShrinksLeft
  <2> QED BY <2>1, <2>2, <2>3, OneSide DEF BookAfter
<1> QED BY <1>2, <1>3, <1>4, <1>5 DEF Pass

\* A request that waits stays what it is about.
RequestsAfter(m, n) ==
  \/ Served(m, n)
  \/ \E x \in NewOrderRequest :
       /\ m.req_q[1] \in NewOrderRequest
       /\ x.side = m.req_q[1].side /\ x.order_type = m.req_q[1].order_type
       /\ RestOf(x, m.req_q[1])
       /\ n.req_q = [m.req_q EXCEPT ![1] = x]

LEMMA PassRequests ==
  ASSUME NEW m, AccountsOK(m), m.req_q # <<>>, NEW n, Pass(m, n, m.req_q[1])
  PROVE  RequestsAfter(m, n)
<1> DEFINE r == m.req_q[1]
<1>1. \/ Served(m, n)
      \/ r \in NewOrderRequest /\ \E coin \in Nat, pc \in Int : Waits(m, n, r, coin, pc)
  BY DEF Pass, Cancels, Drops, Posts, Placed, SelfTrades, Trades
<1>2. ASSUME r \in NewOrderRequest, NEW coin \in Nat, NEW pc \in Int, Waits(m, n, r, coin, pc)
      PROVE  RequestsAfter(m, n)
  <2> DEFINE x == Reduced(r, coin, pc)
  <2>1. /\ x \in NewOrderRequest /\ x.side = r.side /\ x.order_type = r.order_type
        /\ RestOf(x, r)
    <3> HIDE DEF r
    <3> QED BY <1>2, ReducedFields DEF RestOf
  <2>2. n.req_q = [m.req_q EXCEPT ![1] = x]
    BY <1>2 DEF Waits
  <2> HIDE DEF x
  <2> QED BY <1>2, <2>1, <2>2 DEF RequestsAfter
<1> QED BY <1>1, <1>2 DEF RequestsAfter

-----------------------------------------------------------------------------
(* The order of the book                                                   *)

\* The sequence number in the id of an order.
Age(side, x) == IF side = "Bid" THEN SEQ_MASK - x.id.lower ELSE x.id.lower

IsOrder(r) == r \in NewOrderRequest

\* Orders are older the nearer they are to being matched: those of the book
\* than those that wait, and these in the order of the queue.
AgesInOrder(m, seq) ==
  /\ \A j, k \in DOMAIN m.req_q :
       IsOrder(m.req_q[j]) /\ IsOrder(m.req_q[k]) /\ j < k
         => Age(m.req_q[j].side, m.req_q[j]) < Age(m.req_q[k].side, m.req_q[k])
  /\ \A k \in DOMAIN m.req_q :
       IsOrder(m.req_q[k]) =>
         /\ Age(m.req_q[k].side, m.req_q[k]) < seq
         /\ \A side \in Side : \A x \in orders(m, side) :
              Age(side, x) < Age(m.req_q[k].side, m.req_q[k])
  /\ \A side \in Side : \A x \in orders(m, side) : Age(side, x) < seq

Uncrossed(m) == \A b \in m.bids, a \in m.asks : b.id.price < a.id.price

InOrder(m, seq) ==
  /\ AgesInOrder(m, seq) /\ Uncrossed(m)
  /\ \A side \in Side : IdsDiffer(orders(m, side))

LEMMA AgeType ==
  ASSUME NEW side, NEW x, x.id \in OrderId
  PROVE  Age(side, x) \in Int
  BY MarketAssumption DEF Age, OrderId

\* An order and what is left of it are of one age.
LEMMA SameAge ==
  ASSUME NEW z, NEW x, RestOf(z, x)
  PROVE  (\A side : Age(side, z) = Age(side, x)) /\ z.id.price = x.id.price
  BY DEF RestOf, Age

\* The requests that are left are those that were there, at the same place
\* or one place nearer to the front.
LEMMA RequestsThere ==
  ASSUME NEW m, AccountsOK(m), m.req_q # <<>>, NEW n, RequestsAfter(m, n)
  PROVE  \E d \in {0, 1} :
           /\ d = 1 <=> Served(m, n)
           /\ \A k \in DOMAIN n.req_q :
                /\ k \in Nat /\ k >= 1 /\ k + d \in DOMAIN m.req_q
                /\ IsOrder(n.req_q[k]) =>
                     /\ IsOrder(m.req_q[k + d])
                     /\ n.req_q[k].side = m.req_q[k + d].side
                     /\ n.req_q[k].order_type = m.req_q[k + d].order_type
                     /\ RestOf(n.req_q[k], m.req_q[k + d])
<1>1. /\ m.req_q \in Seq(Request) /\ Len(m.req_q) \in Nat /\ Len(m.req_q) >= 1
      /\ DOMAIN m.req_q = 1 .. Len(m.req_q)
  BY EmptySeq, LenProperties DEF AccountsOK, Accounts
<1>2. \A x : RestOf(x, x)
  BY DEF RestOf
<1>3. CASE Served(m, n)
  <2>1. /\ DOMAIN n.req_q = 1 .. Len(m.req_q) - 1
        /\ \A k \in 1 .. Len(m.req_q) - 1 : n.req_q[k] = m.req_q[k + 1]
    BY <1>1, <1>3, HeadTailProperties DEF Served
  <2>2. \A k \in DOMAIN n.req_q :
                /\ k \in Nat /\ k >= 1 /\ k + 1 \in DOMAIN m.req_q
                /\ IsOrder(n.req_q[k]) =>
                     /\ IsOrder(m.req_q[k + 1])
                     /\ n.req_q[k].side = m.req_q[k + 1].side
                     /\ n.req_q[k].order_type = m.req_q[k + 1].order_type
                     /\ RestOf(n.req_q[k], m.req_q[k + 1])
    BY <1>1, <1>2, <2>1
  <2> QED BY <1>3, <2>2
<1>4. CASE ~Served(m, n)
  <2>1. PICK x \in NewOrderRequest :
          /\ m.req_q[1] \in NewOrderRequest
          /\ x.side = m.req_q[1].side /\ RestOf(x, m.req_q[1])
          /\ x.order_type = m.req_q[1].order_type
          /\ n.req_q = [m.req_q EXCEPT ![1] = x]
    BY <1>4 DEF RequestsAfter
  <2>2. /\ DOMAIN n.req_q = 1 .. Len(m.req_q) /\ n.req_q[1] = x
        /\ \A k \in 2 .. Len(m.req_q) : n.req_q[k] = m.req_q[k]
    BY <1>1, <2>1
  <2>3. \A k \in DOMAIN n.req_q :
                /\ k \in Nat /\ k >= 1 /\ k + 0 \in DOMAIN m.req_q /\ k + 0 = k
                /\ IsOrder(n.req_q[k]) =>
                     /\ IsOrder(m.req_q[k])
                     /\ n.req_q[k].side = m.req_q[k].side
                     /\ n.req_q[k].order_type = m.req_q[k].order_type
                     /\ RestOf(n.req_q[k], m.req_q[k])
    <3> SUFFICES ASSUME NEW k \in DOMAIN n.req_q
                 PROVE  /\ k \in Nat /\ k >= 1 /\ k + 0 \in DOMAIN m.req_q /\ k + 0 = k
                        /\ IsOrder(n.req_q[k]) =>
                             /\ IsOrder(m.req_q[k])
                             /\ n.req_q[k].side = m.req_q[k].side
                     /\ n.req_q[k].order_type = m.req_q[k].order_type
                             /\ RestOf(n.req_q[k], m.req_q[k])
      OBVIOUS
    <3>1. CASE k = 1
      BY <1>1, <2>1, <2>2, <3>1 DEF IsOrder
    <3>2. CASE k # 1
      BY <1>1, <1>2, <2>2, <3>2
    <3> QED BY <3>1, <3>2
  <2> QED BY <1>4, <2>3
<1> QED BY <1>3, <1>4

\* Ages along a pass.
LEMMA PassAges ==
  ASSUME NEW m, AccountsOK(m), NEW n, AccountsOK(n), m.req_q # <<>>,
         BookAfter(m, n, m.req_q[1]), RequestsAfter(m, n),
         NEW seq \in Int, AgesInOrder(m, seq)
  PROVE  AgesInOrder(n, seq)
<1> DEFINE r == m.req_q[1]
<1>1. PICK d \in {0, 1} :
           /\ d = 1 <=> Served(m, n)
           /\ \A k \in DOMAIN n.req_q :
                /\ k \in Nat /\ k >= 1 /\ k + d \in DOMAIN m.req_q
                /\ IsOrder(n.req_q[k]) =>
                     /\ IsOrder(m.req_q[k + d])
                     /\ n.req_q[k].side = m.req_q[k + d].side
                     /\ n.req_q[k].order_type = m.req_q[k + d].order_type
                     /\ RestOf(n.req_q[k], m.req_q[k + d])
  BY RequestsThere
<1>2. \A k \in DOMAIN n.req_q : IsOrder(n.req_q[k]) =>
         /\ IsOrder(m.req_q[k + d])
         /\ Age(n.req_q[k].side, n.req_q[k]) = Age(m.req_q[k + d].side, m.req_q[k + d])
  BY <1>1, SameAge
\* What is on the book was there, or was at the front of the queue.
<1>3. ASSUME NEW side \in Side, NEW z \in orders(n, side)
      PROVE  \/ \E x \in orders(m, side) : Age(side, z) = Age(side, x)
             \/ Served(m, n) /\ IsOrder(r) /\ Age(side, z) = Age(r.side, r)
  <2>1. ASSUME NEW new, Shrinks(orders(m, side), new), z \in new
        PROVE  \E x \in orders(m, side) : Age(side, z) = Age(side, x)
    BY <2>1, SameAge DEF Shrinks
  <2>2. CASE \A s \in Side : Shrinks(orders(m, s), orders(n, s))
    BY <1>3, <2>1, <2>2
  <2>3. CASE Grows(m, n, r, r.side) /\ Shrinks(orders(m, Opposite(r.side)), orders(n, Opposite(r.side)))
    <3>1. PICK w \in orders(n, r.side) :
            /\ Posted(m, n, r, r.side, w)
            /\ Shrinks(orders(m, r.side), orders(n, r.side) \ {w})
      BY <2>3 DEF Grows
    <3>2. side = r.side \/ side = Opposite(r.side)
      BY <3>1 DEF Posted, NewOrderRequest, AcceptedSide, Side, Opposite
    <3>3. CASE side = r.side /\ z = w
      <4>1. RestOf(z, r) /\ Served(m, n) /\ IsOrder(r)
        BY <3>1, <3>3 DEF Posted, RestOf, IsOrder
      <4> QED BY <3>3, <4>1, SameAge
    <3>4. CASE side = r.side /\ z # w
      BY <1>3, <2>1, <3>1, <3>4
    <3>5. CASE side = Opposite(r.side)
      BY <1>3, <2>1, <2>3, <3>5
    <3> QED BY <3>2, <3>3, <3>4, <3>5
  <2> QED BY <2>2, <2>3 DEF BookAfter
<1>4. 1 \in DOMAIN m.req_q
  BY EmptySeq, LenProperties DEF AccountsOK, Accounts
<1>5. ASSUME NEW j \in DOMAIN n.req_q, NEW k \in DOMAIN n.req_q,
             IsOrder(n.req_q[j]), IsOrder(n.req_q[k]), j < k
      PROVE  Age(n.req_q[j].side, n.req_q[j]) < Age(n.req_q[k].side, n.req_q[k])
  <2>1. j + d < k + d /\ j + d \in DOMAIN m.req_q /\ k + d \in DOMAIN m.req_q
    BY <1>1, <1>5
  <2> QED BY <1>2, <1>5, <2>1 DEF AgesInOrder
<1>6. ASSUME NEW k \in DOMAIN n.req_q, IsOrder(n.req_q[k])
      PROVE  /\ Age(n.req_q[k].side, n.req_q[k]) < seq
             /\ \A side \in Side : \A z \in orders(n, side) :
                  Age(side, z) < Age(n.req_q[k].side, n.req_q[k])
  <2>1. k + d \in DOMAIN m.req_q /\ k \in Nat /\ k >= 1
    BY <1>1
  <2>2. ASSUME NEW side \in Side, NEW z \in orders(n, side)
        PROVE  Age(side, z) < Age(n.req_q[k].side, n.req_q[k])
    <3>1. CASE \E x \in orders(m, side) : Age(side, z) = Age(side, x)
      BY <1>2, <1>6, <2>1, <3>1 DEF AgesInOrder
    <3>2. CASE Served(m, n) /\ IsOrder(r) /\ Age(side, z) = Age(r.side, r)
      <4>1. d = 1 /\ 1 < k + d
        BY <1>1, <2>1, <3>2
      <4> QED BY <1>2, <1>4, <1>6, <2>1, <3>2, <4>1 DEF AgesInOrder
    <3> QED BY <1>3, <3>1, <3>2
  <2> QED BY <1>2, <1>6, <2>1, <2>2 DEF AgesInOrder
<1>7. ASSUME NEW side \in Side, NEW z \in orders(n, side)
      PROVE  Age(side, z) < seq
  BY <1>3, <1>4 DEF AgesInOrder
<1> QED BY <1>5, <1>6, <1>7 DEF AgesInOrder

LEMMA PassUncrossed ==
  ASSUME NEW m, AccountsOK(m), NEW n, AccountsOK(n), m.req_q # <<>>,
         BookAfter(m, n, m.req_q[1]), Uncrossed(m)
  PROVE  Uncrossed(n)
<1> DEFINE r == m.req_q[1]
<1>0. /\ "Bid" \in Side /\ "Ask" \in Side
      /\ \A p : orders(p, "Bid") = p.bids /\ orders(p, "Ask") = p.asks
      /\ Opposite("Bid") = "Ask" /\ Opposite("Ask") = "Bid"
  BY DEF Side, orders, Opposite
<1>1. SUFFICES ASSUME NEW b \in n.bids, NEW a \in n.asks
               PROVE  b.id.price < a.id.price
  BY DEF Uncrossed
<1>2. b.id.price \in Int /\ a.id.price \in Int
  BY <1>0, Maker, LeafFields DEF Positive
<1>3. ASSUME NEW old, NEW new, Shrinks(old, new), NEW z \in new
      PROVE  \E x \in old : z.id.price = x.id.price
  BY <1>3, SameAge DEF Shrinks
<1>4. CASE \A s \in Side : Shrinks(orders(m, s), orders(n, s))
  <2>1. Shrinks(m.bids, n.bids) /\ Shrinks(m.asks, n.asks)
    BY <1>0, <1>4
  <2>2. \E x \in m.bids : b.id.price = x.id.price
    BY <1>3, <2>1
  <2>3. \E y \in m.asks : a.id.price = y.id.price
    BY <1>3, <2>1
  <2> QED BY <2>2, <2>3 DEF Uncrossed
<1>5. CASE Grows(m, n, r, r.side) /\ Shrinks(orders(m, Opposite(r.side)), orders(n, Opposite(r.side)))
  <2>1. PICK w \in orders(n, r.side) :
          /\ Posted(m, n, r, r.side, w)
          /\ Shrinks(orders(m, r.side), orders(n, r.side) \ {w})
    BY <1>5 DEF Grows
  <2>2. /\ r.side \in {"Bid", "Ask"} /\ w.id = r.id /\ r.id.price \in Int
        /\ \A y \in orders(m, Opposite(r.side)) : ~Crosses(r, y)
    BY <2>1 DEF Posted, NewOrderRequest, AcceptedSide, Side, OrderId, Positive
  <2>3. CASE r.side = "Bid"
    <3>1. PICK y \in m.asks : a.id.price = y.id.price
      <4>1. Shrinks(m.asks, n.asks)
        BY <1>0, <1>5, <2>3
      <4> QED BY <1>3, <4>1
    <3>2. ~(r.id.price >= y.id.price)
      BY <1>0, <2>2, <2>3 DEF Crosses
    <3>3. CASE b = w
      BY <1>2, <2>2, <3>1, <3>2, <3>3
    <3>4. CASE b # w
      <4>1. Shrinks(m.bids, n.bids \ {w})
        BY <1>0, <2>1, <2>3
      <4>2. \E x \in m.bids : b.id.price = x.id.price
        <5>1. b \in n.bids \ {w}
          BY <3>4
        <5> QED BY <1>3, <4>1, <5>1
      <4> QED BY <3>1, <4>2 DEF Uncrossed
    <3> QED BY <3>3, <3>4
  <2>4. CASE r.side = "Ask"
    <3>1. PICK y \in m.bids : b.id.price = y.id.price
      <4>1. Shrinks(m.bids, n.bids)
        BY <1>0, <1>5, <2>4
      <4> QED BY <1>3, <4>1
    <3>2. ~(r.id.price <= y.id.price)
      BY <1>0, <2>2, <2>4 DEF Crosses
    <3>3. CASE a = w
      BY <1>2, <2>2, <3>1, <3>2, <3>3
    <3>4. CASE a # w
      <4>1. Shrinks(m.asks, n.asks \ {w})
        BY <1>0, <2>1, <2>4
      <4>2. \E x \in m.asks : a.id.price = x.id.price
        <5>1. a \in n.asks \ {w}
          BY <3>4
        <5> QED BY <1>3, <4>1, <5>1
      <4> QED BY <3>1, <4>2 DEF Uncrossed
    <3> QED BY <3>3, <3>4
  <2> QED BY <2>2, <2>3, <2>4
<1> QED BY <1>4, <1>5 DEF BookAfter

LEMMA PassIds ==
  ASSUME NEW m, AccountsOK(m), NEW n, AccountsOK(n), m.req_q # <<>>,
         BookAfter(m, n, m.req_q[1]), NEW seq \in Int, AgesInOrder(m, seq),
         \A side \in Side : IdsDiffer(orders(m, side))
  PROVE  \A side \in Side : IdsDiffer(orders(n, side))
<1> DEFINE r == m.req_q[1]
<1>1. ASSUME NEW old, NEW new, Shrinks(old, new), IdsDiffer(old)
      PROVE  IdsDiffer(new)
  BY <1>1 DEF Shrinks
<1>2. CASE \A s \in Side : Shrinks(orders(m, s), orders(n, s))
  BY <1>1, <1>2
<1>3. CASE Grows(m, n, r, r.side) /\ Shrinks(orders(m, Opposite(r.side)), orders(n, Opposite(r.side)))
  <2> DEFINE old == orders(m, r.side)
             new == orders(n, r.side)
  <2>1. PICK w \in new : Posted(m, n, r, r.side, w) /\ Shrinks(old, new \ {w})
    BY <1>3 DEF Grows
  <2>2. /\ IsOrder(r) /\ r.side \in Side /\ RestOf(w, r) /\ r.id \in OrderId
        /\ \A side \in Side : side = r.side \/ side = Opposite(r.side)
    BY <2>1 DEF Posted, RestOf, IsOrder, NewOrderRequest, AcceptedSide, Side, Opposite
  <2>3. Opposite(r.side) \in Side
    BY <2>2 DEF Side, Opposite
  <2>4. IdsDiffer(orders(n, Opposite(r.side)))
    BY <1>1, <1>3, <2>3
  <2>5. IdsDiffer(new \ {w})
    BY <1>1, <2>1, <2>2
  <2>6. 1 \in DOMAIN m.req_q
    BY EmptySeq, LenProperties DEF AccountsOK, Accounts
  <2>7. ASSUME NEW z \in new \ {w}
        PROVE  z.id # w.id
    <3>1. PICK x \in old : RestOf(z, x)
      BY <2>1, <2>7 DEF Shrinks
    <3>2. Age(r.side, x) < Age(r.side, r)
      BY <2>2, <2>6, <3>1 DEF AgesInOrder
    <3>3. x.id \in OrderId
      BY <2>2, <3>1, Maker DEF Leaf
    <3>4. Age(r.side, x) \in Int /\ Age(r.side, r) \in Int
      BY <2>2, <3>3, AgeType
    <3>5. x.id # r.id
      <4> HIDE DEF r
      <4> QED BY <3>2, <3>4 DEF Age
    <3> QED BY <2>2, <3>1, <3>5 DEF RestOf
  <2>8. IdsDiffer(new)
    <3> SUFFICES ASSUME NEW x \in new, NEW y \in new, x.id = y.id PROVE x = y
      BY DEF IdsDiffer
    <3> HIDE DEF new, old, r
    <3>1. CASE x = w \/ y = w
      BY <2>7, <3>1
    <3>2. CASE x # w /\ y # w
      BY <2>5, <3>2 DEF IdsDiffer
    <3> QED BY <3>1, <3>2
  <2> QED BY <2>2, <2>4, <2>8
<1> QED BY <1>2, <1>3 DEF BookAfter

LEMMA PassInOrder ==
  ASSUME NEW m, AccountsOK(m), NEW n, AccountsOK(n), m.req_q # <<>>,
         Pass(m, n, m.req_q[1]), NEW seq \in Int, InOrder(m, seq)
  PROVE  InOrder(n, seq)
<1>1. BookAfter(m, n, m.req_q[1]) /\ RequestsAfter(m, n)
  BY PassBook, PassRequests
<1>2. AgesInOrder(n, seq)
  BY <1>1, PassAges DEF InOrder
<1>3. Uncrossed(n)
  BY <1>1, PassUncrossed DEF InOrder
<1>4. \A side \in Side : IdsDiffer(orders(n, side))
  BY <1>1, PassIds DEF InOrder
<1> QED BY <1>2, <1>3, <1>4 DEF InOrder

\* A request joins the queue, the order of a NewOrder being the youngest.
LEMMA RequestJoins ==
  ASSUME NEW m, AccountsOK(m), NEW n, NEW seq \in Int, InOrder(m, seq),
         NEW r \in Request, IsOrder(r) => Age(r.side, r) = seq,
         n.bids = m.bids, n.asks = m.asks, n.req_q = Append(m.req_q, r)
  PROVE  InOrder(n, seq + 1)
<1> DEFINE q == m.req_q
           k0 == Len(q) + 1
<1>1. /\ q \in Seq(Request) /\ Len(q) \in Nat /\ DOMAIN q = 1 .. Len(q)
      /\ \A k \in DOMAIN q : q[k] \in Request
  BY LenProperties, ElementOfSeq DEF AccountsOK, Accounts
<1>2. \A side \in Side : orders(n, side) = orders(m, side)
  BY DEF orders
<1>3. /\ n.req_q \in Seq(Request) /\ Len(n.req_q) = Len(q) + 1
      /\ \A k \in 1 .. Len(q) : n.req_q[k] = q[k]
      /\ n.req_q[Len(q) + 1] = r
  BY <1>1, AppendRequest
<1>4. DOMAIN n.req_q = 1 .. k0
  BY <1>3, LenProperties
<1>5. /\ \A k \in DOMAIN n.req_q : (k \in DOMAIN q /\ n.req_q[k] = q[k]) \/ k = k0
      /\ n.req_q[k0] = r /\ \A k \in DOMAIN q : k < k0 /\ k \in Nat
      /\ k0 \in Nat
  BY <1>1, <1>3, <1>4
<1>6. ASSUME NEW k \in DOMAIN q, IsOrder(q[k])
      PROVE  Age(q[k].side, q[k]) \in Int /\ Age(q[k].side, q[k]) < seq
  <2>1. q[k].id \in OrderId
    BY <1>6 DEF IsOrder, NewOrderRequest
  <2>2. Age(q[k].side, q[k]) \in Int
    BY <2>1, AgeType
  <2> QED BY <1>6, <2>2 DEF InOrder, AgesInOrder
<1>7. ASSUME NEW side \in Side, NEW x \in orders(m, side)
      PROVE  Age(side, x) \in Int /\ Age(side, x) < seq
  <2>1. x.id \in OrderId
    BY Maker DEF Leaf
  <2>2. Age(side, x) \in Int
    BY <2>1, AgeType
  <2> QED BY <2>2 DEF InOrder, AgesInOrder
<1> HIDE DEF k0, q
<1>8. ASSUME NEW j \in DOMAIN n.req_q, NEW k \in DOMAIN n.req_q,
             IsOrder(n.req_q[j]), IsOrder(n.req_q[k]), j < k
      PROVE  Age(n.req_q[j].side, n.req_q[j]) < Age(n.req_q[k].side, n.req_q[k])
  <2>1. j \in DOMAIN q /\ n.req_q[j] = q[j]
    BY <1>5, <1>8
  <2>2. CASE k \in DOMAIN q /\ n.req_q[k] = q[k]
    BY <1>8, <2>1, <2>2 DEF InOrder, AgesInOrder, q
  <2>3. CASE k = k0
    BY <1>5, <1>6, <1>8, <2>1, <2>3
  <2> QED BY <1>5, <2>2, <2>3
<1>9. ASSUME NEW k \in DOMAIN n.req_q, IsOrder(n.req_q[k])
      PROVE  /\ Age(n.req_q[k].side, n.req_q[k]) < seq + 1
             /\ \A side \in Side : \A x \in orders(n, side) :
                  Age(side, x) < Age(n.req_q[k].side, n.req_q[k])
  <2>1. CASE k \in DOMAIN q /\ n.req_q[k] = q[k]
    <3>1. Age(q[k].side, q[k]) < seq + 1
      BY <1>6, <1>9, <2>1
    <3> QED BY <1>2, <1>9, <2>1, <3>1 DEF InOrder, AgesInOrder, q
  <2>2. CASE k = k0
    BY <1>2, <1>5, <1>7, <1>9, <2>2
  <2> QED BY <1>5, <2>1, <2>2
<1>10. ASSUME NEW side \in Side, NEW x \in orders(n, side)
       PROVE  Age(side, x) < seq + 1
  BY <1>2, <1>7
<1>11. AgesInOrder(n, seq + 1)
  BY <1>8, <1>9, <1>10 DEF AgesInOrder
<1>12. Uncrossed(n)
  BY DEF InOrder, Uncrossed
<1>13. \A side \in Side : IdsDiffer(orders(n, side))
  BY <1>2 DEF InOrder
<1> QED BY <1>11, <1>12, <1>13 DEF InOrder

-----------------------------------------------------------------------------

\* The order of the queue and of the book, between two instructions.
BInv == InOrder(MarketAccounts, next_seq_num)

LEMMA BInvInit == Init => BInv
<1> SUFFICES ASSUME Init PROVE BInv
  OBVIOUS
<1>1. /\ MarketAccounts.req_q = <<>> /\ DOMAIN MarketAccounts.req_q = {}
      /\ MarketAccounts.bids = {} /\ MarketAccounts.asks = {}
      /\ \A side \in Side : orders(MarketAccounts, side) = {}
  BY DEF Init, MarketAccounts, orders
<1> QED BY <1>1 DEF BInv, InOrder, AgesInOrder, Uncrossed, IdsDiffer

LEMMA InOrderSame ==
  ASSUME NEW m, NEW n, NEW seq, InOrder(m, seq), n.bids = m.bids, n.asks = m.asks,
         n.req_q = m.req_q
  PROVE  InOrder(n, seq)
<1>1. \A side : orders(n, side) = orders(m, side)
  BY DEF orders
<1> QED BY <1>1 DEF InOrder, AgesInOrder, Uncrossed

LEMMA BInvNext == IInv /\ QInv /\ BInv /\ [Next]_vars => BInv'
<1> SUFFICES ASSUME TypeOK, QInv, BInv, [Next]_vars PROVE BInv'
  BY DEF IInv
<1>1. QueueStep
  BY StepsOfQueues
<1> DEFINE m == MarketAccounts
           n == MarketAccounts'
           seq == next_seq_num
           next == next_seq_num'
<1>2. /\ AccountsOK(m) /\ InOrder(m, seq) /\ seq \in Int
      /\ m.bids = bids /\ m.asks = asks /\ m.req_q = req_q
      /\ n.bids = bids' /\ n.asks = asks' /\ n.req_q = req_q'
  BY AccountsOfState DEF BInv, TypeOK, MarketAccounts
<1>3. SUFFICES InOrder(n, next)
  BY DEF BInv
<1>4. ASSUME NEW t \in Traders, NEW i \in Instructions, NEW tier \in FeeTiers,
             NewOrder(t, i, tier)
      PROVE  InOrder(n, next)
  <2> DEFINE r == RequestOf(t, i, tier)
  <2>1. /\ r \in NewOrderRequest /\ req_q' = Append(req_q, r)
        /\ next = seq + 1 /\ bids' = bids /\ asks' = asks
    BY <1>4, NewOrderDoes
  <2>2. r.side = i.side /\ r.id = gen_order_id(i.limit_price, i.side)
    BY DEF RequestOf
  <2>3. Age(r.side, r) = seq
    BY <2>2, <1>2, MarketAssumption DEF gen_order_id, Age
  <2> HIDE DEF r, m, n, seq, next
  <2> QED BY <1>2, <2>1, <2>3, RequestJoins DEF Request
<1>5. ASSUME NEW c \in CancelRequest, req_q' = Append(req_q, c),
             next = seq + 1, UNCHANGED <<bids, asks>>
      PROVE  InOrder(n, next)
  <2>1. ~IsOrder(c)
    BY DEF CancelRequest, NewOrderRequest, IsOrder
  <2> HIDE DEF m, n, seq, next
  <2> QED BY <1>2, <1>5, <2>1, RequestJoins DEF Request
<1>6. ASSUME NEW limit \in MatchLimits, MatchOrders(limit)
      PROVE  InOrder(n, next)
  <2> DEFINE S == {p \in Accounts : InOrder(p, seq)}
  <2>1. m \in S
    BY <1>2, AccountsOfState
  <2>2. ASSUME NEW p \in S, NEW p2 \in Accounts, AccountsOK(p), KeepsBooks(p, p2),
               p.req_q # <<>>, Pass(p, p2, p.req_q[1])
        PROVE  p2 \in S
    <3>1. AccountsOK(p2)
      BY <2>2 DEF KeepsBooks
    <3> HIDE DEF seq
    <3> QED BY <1>2, <2>2, <3>1, PassInOrder
  <2>3. \E p \in S : /\ bids' = p.bids /\ asks' = p.asks /\ req_q' = p.req_q
                     /\ UNCHANGED next_seq_num
    <3> HIDE DEF S
    <3> QED BY <1>6, <2>1, <2>2, MatchOrdersDoes DEF QInv
  <2> HIDE DEF n
  <2> QED BY <1>2, <2>3, InOrderSame
<1>7. ASSUME NEW limit \in ConsumeLimits, NEW accounts \in SUBSET Traders,
             ConsumeEvents(limit, accounts)
      PROVE  InOrder(n, next)
  <2>1. UNCHANGED <<req_q, next_seq_num, bids, asks>>
    BY <1>7, ConsumeEventsDoes
  <2> HIDE DEF n, m
  <2> QED BY <1>2, <2>1, InOrderSame
<1>8. CASE UNCHANGED Queues
  <2>1. UNCHANGED <<req_q, next_seq_num, bids, asks>>
    BY <1>8 DEF Queues
  <2> HIDE DEF n, m
  <2> QED BY <1>2, <2>1, InOrderSame
<1> QED BY <1>1, <1>4, <1>5, <1>6, <1>7, <1>8 DEF QueueStep

LEMMA BInvHolds == Spec => []BInv
  BY Inductive, QInvHolds, BInvInit, BInvNext, PTL DEF Spec

LEMMA BookInOrderOf ==
  ASSUME TypeOK, BInv
  PROVE  BookInOrder
<1> DEFINE m == MarketAccounts
<1>1. /\ AccountsOK(m) /\ InOrder(m, next_seq_num) /\ req_q = m.req_q
      /\ bids = m.bids /\ asks = m.asks
  BY AccountsOfState DEF BInv, MarketAccounts
<1>2. BookNotCrossed
  BY <1>1 DEF BookNotCrossed, InOrder, Uncrossed
<1>3. ASSUME NEW side \in Side, NEW x, NEW y, x.id \in OrderId, y.id \in OrderId,
             Age(side, x) < Age(side, y), x.id.price = y.id.price
      PROVE  MoreAggressive(side, x, y)
  <2>1. x.id.lower \in Int /\ y.id.lower \in Int /\ SEQ_MASK \in Int
    BY <1>3, MarketAssumption DEF OrderId
  <2> QED BY <1>3, <2>1 DEF MoreAggressive, KeyLess, Age, Side
<1>4. ASSUME NEW l \in {k \in DOMAIN req_q : req_q[k].kind = "NewOrder"}
      PROVE  LET y == req_q[l]
                 older == (IF y.side = "Bid" THEN bids ELSE asks)
                          \cup {req_q[k] : k \in {j \in 1 .. l - 1 :
                                  req_q[j].kind = "NewOrder" /\ req_q[j].side = y.side}}
             IN  \A x \in older :
                   x.id.price = y.id.price => MoreAggressive(y.side, x, y)
  <2> DEFINE y == req_q[l]
  <2>1. /\ req_q \in Seq(Request) /\ DOMAIN req_q = 1 .. Len(req_q)
        /\ Len(req_q) \in Nat
    BY LenProperties DEF TypeOK
  <2>2. \A k \in DOMAIN req_q : req_q[k].kind = "NewOrder" =>
           /\ IsOrder(req_q[k]) /\ req_q[k].id \in OrderId /\ req_q[k].side \in Side
    <3>1. \A k \in DOMAIN req_q : req_q[k] \in Request
      BY <2>1, ElementOfSeq
    <3>2. ASSUME NEW r \in Request, r.kind = "NewOrder"
          PROVE  IsOrder(r) /\ r.id \in OrderId /\ r.side \in Side
      BY <3>2 DEF Request, NewOrderRequest, AcceptedSide, CancelRequest, IsOrder
    <3> QED BY <3>1, <3>2
  <2>3. ASSUME NEW x \in orders(m, y.side), x.id.price = y.id.price
        PROVE  MoreAggressive(y.side, x, y)
    <3>1. x.id \in OrderId
      BY <1>1, <2>2, <2>3, Maker DEF Leaf
    <3>2. Age(y.side, x) < Age(y.side, y)
      BY <1>1, <2>2, <2>3 DEF InOrder, AgesInOrder
    <3> QED BY <1>3, <2>2, <2>3, <3>1, <3>2
  <2>4. ASSUME NEW j \in 1 .. l - 1, req_q[j].kind = "NewOrder",
               req_q[j].side = y.side, req_q[j].id.price = y.id.price
        PROVE  MoreAggressive(y.side, req_q[j], y)
    <3>1. j \in DOMAIN req_q /\ j < l
      BY <2>1
    <3>2. Age(y.side, req_q[j]) < Age(y.side, y)
      BY <1>1, <2>2, <2>4, <3>1 DEF InOrder, AgesInOrder
    <3> QED BY <1>3, <2>2, <2>4, <3>1, <3>2
  <2>5. orders(m, y.side) = IF y.side = "Bid" THEN bids ELSE asks
    BY <1>1 DEF orders
  <2> HIDE DEF m
  <2> QED BY <2>3, <2>4, <2>5
<1> QED BY <1>2, <1>4 DEF BookInOrder, KeysOrderByAge

\* The book between two instructions, for any number of orders: no bid meets an
\* ask, and of two orders of one side at one price the older has the more
\* aggressive key (dex/src/matching.rs new_ask, new_bid, dex/src/state.rs
\* gen_order_id).
THEOREM BookStaysInOrder == Spec => []BookInOrder
<1>1. IInv /\ BInv => BookInOrder
  BY BookInOrderOf DEF IInv
<1> QED BY <1>1, Inductive, BInvHolds, PTL

-----------------------------------------------------------------------------
(* What orders do in the course of a call                                  *)

\* NoSelfTrade, of the events that a call has appended.
Followed(new) ==
  \A j, k \in DOMAIN new :
    (/\ j < k /\ IsFill(new[j]) /\ new[j].maker
     /\ IsFill(new[k]) /\ ~new[k].maker
     /\ \A l \in j + 1 .. k - 1 : ~IsFill(new[l]))
    => new[j].owner # new[k].owner

LEMMA FollowedGrows ==
  ASSUME NEW new \in Seq(Event), NEW events \in Seq(Event), Followed(new),
         TakersFollow(events)
  PROVE  Followed(new \o events)
<1> DEFINE q == new \o events
           L == Len(new)
           N == Len(events)
<1>1. /\ L \in Nat /\ N \in Nat /\ DOMAIN new = 1 .. L /\ DOMAIN events = 1 .. N
      /\ q \in Seq(Event) /\ Len(q) = L + N
      /\ \A i \in 1 .. L + N : q[i] = IF i <= L THEN new[i] ELSE events[i - L]
  BY LenProperties, ConcatProperties
<1>2. DOMAIN q = 1 .. L + N
  BY <1>1, LenProperties
<1> HIDE DEF q, L, N
<1>3. SUFFICES ASSUME NEW j \in DOMAIN q, NEW k \in DOMAIN q, j < k,
                      IsFill(q[j]), q[j].maker, IsFill(q[k]), ~q[k].maker,
                      \A l \in j + 1 .. k - 1 : ~IsFill(q[l])
               PROVE  q[j].owner # q[k].owner
  BY DEF Followed, q
<1>4. CASE k <= L
  <2>1. /\ j \in DOMAIN new /\ k \in DOMAIN new /\ q[j] = new[j] /\ q[k] = new[k]
        /\ \A l \in j + 1 .. k - 1 : q[l] = new[l]
    BY <1>1, <1>2, <1>3, <1>4
  <2> QED BY <1>3, <2>1 DEF Followed
<1>5. CASE k > L
  <2>1. k - L \in DOMAIN events /\ q[k] = events[k - L]
    BY <1>1, <1>2, <1>5
  <2>2. k - L # 1 /\ IsFill(events[1])
    BY <1>3, <2>1 DEF TakersFollow
  <2>3. L + 1 \in 1 .. L + N /\ L + 1 < k /\ q[L + 1] = events[1]
    BY <1>1, <1>2, <1>5, <2>1, <2>2
  <2>4. j > L
    <3> SUFFICES ASSUME ~(j > L) PROVE FALSE
      OBVIOUS
    <3>1. L + 1 \in j + 1 .. k - 1
      BY <1>1, <1>2, <2>3
    <3> QED BY <1>3, <2>2, <2>3, <3>1
  <2>5. j - L \in DOMAIN events /\ q[j] = events[j - L]
    BY <1>1, <1>2, <2>4
  <2>6. q[j] \in Members(events) /\ q[k] \in Members(events)
    BY <2>1, <2>5 DEF Members
  <2> QED BY <1>3, <2>6 DEF TakersFollow
<1> QED BY <1>1, <1>2, <1>4, <1>5

\* r is an order that waited when the call began, or what is left of one.
SameOrder(r, s) == r.id = s.id /\ r.side = s.side /\ r.order_type = s.order_type

Queued(m, r) == \E j \in DOMAIN m.req_q : IsOrder(m.req_q[j]) /\ SameOrder(r, m.req_q[j])

\* x rested when the call began, or is of an order that may rest.
Rests(m, side, x) ==
  \/ \E y \in orders(m, side) : x.id = y.id
  \/ \E r \in NewOrderRequest :
       Queued(m, r) /\ r.side = side /\ post_allowed(r) /\ x.id = r.id

\* The fill of an order that may take.
Takes(m, e) ==
  \E r \in NewOrderRequest : Queued(m, r) /\ ~post_only(r) /\ e.id = r.id

\* What a call that began with the accounts m has done so far.
SoFar(m, n, new) ==
  /\ new \in Seq(Event) /\ n.event_q = m.event_q \o new
  /\ Followed(new)
  /\ \A k \in DOMAIN n.req_q : IsOrder(n.req_q[k]) => Queued(m, n.req_q[k])
  /\ \A side \in Side : \A x \in orders(n, side) : Rests(m, side, x)
  /\ \A e \in Members(new) : IsFill(e) /\ ~e.maker => Takes(m, e)

LEMMA SoFarBegins ==
  ASSUME NEW m, AccountsOK(m)
  PROVE  SoFar(m, m, <<>>)
<1> DEFINE new == <<>>
<1>1. /\ new \in Seq(Event) /\ m.event_q = m.event_q \o new /\ DOMAIN new = {}
      /\ Members(new) = {}
  BY MembersFew DEF AccountsOK, Accounts
<1> HIDE DEF new
<1>2. Followed(new)
  BY <1>1 DEF Followed
<1>3. \A k \in DOMAIN m.req_q : IsOrder(m.req_q[k]) => Queued(m, m.req_q[k])
  BY DEF Queued, SameOrder
<1>4. \A side \in Side : \A x \in orders(m, side) : Rests(m, side, x)
  BY DEF Rests
<1> QED BY <1>1, <1>2, <1>3, <1>4 DEF SoFar, new

\* The rest of an order that rested rests.
LEMMA RestRests ==
  ASSUME NEW m, NEW side, NEW old, NEW new, Shrinks(old, new),
         \A x \in old : Rests(m, side, x)
  PROVE  \A z \in new : Rests(m, side, z)
<1> SUFFICES ASSUME NEW z \in new PROVE Rests(m, side, z)
  OBVIOUS
<1>1. PICK x \in old : RestOf(z, x)
  BY DEF Shrinks
<1> QED BY <1>1 DEF Rests, RestOf

LEMMA SoFarGoesOn ==
  ASSUME NEW m, AccountsOK(m), NEW n, AccountsOK(n), NEW new, SoFar(m, n, new),
         n.req_q # <<>>, NEW p, AccountsOK(p), p.ok, Pass(n, p, n.req_q[1])
  PROVE  \E events \in Seq(Event) :
           /\ SoFar(m, p, new \o events)
           /\ \A e \in Members(events) : IsFill(e) => FilledBy(n, n.req_q[1], e)
<1> DEFINE r == n.req_q[1]
<1>1. /\ BookAfter(n, p, r) /\ RequestsAfter(n, p)
      /\ 1 \in DOMAIN n.req_q
  <2>1. BookAfter(n, p, r) /\ RequestsAfter(n, p)
    BY PassBook, PassRequests
  <2>2. 1 \in DOMAIN n.req_q
    BY EmptySeq, LenProperties DEF AccountsOK, Accounts
  <2> QED BY <2>1, <2>2
<1>2. IsOrder(r) => Queued(m, r)
  BY <1>1 DEF SoFar
<1>3. PICK events \in Seq(Event) :
        /\ Appends(n, p, events)
        /\ \A e \in Members(events) : IsFill(e) => FilledBy(n, r, e)
        /\ TakersFollow(events)
  BY PassAppends DEF AppendsFew
<1> DEFINE more == new \o events
<1>4. /\ new \in Seq(Event) /\ n.event_q = m.event_q \o new
      /\ m.event_q \in Seq(Event) /\ p.event_q = n.event_q \o events
  BY <1>3 DEF SoFar, Appends, AccountsOK, Accounts
<1>5. more \in Seq(Event) /\ p.event_q = m.event_q \o more
  <2>1. \A S : \A s, t, u \in Seq(S) : (s \o t) \o u = s \o (t \o u)
    BY ConcatAssociative, Zenon
  <2> DEFINE a == m.event_q
  <2>3. a \in Seq(Event) /\ new \in Seq(Event)
    BY <1>4
  <2> HIDE DEF a
  <2>2. (a \o new) \o events = a \o (new \o events)
    BY <2>1, <2>3
  <2> QED BY <1>4, <2>2, ConcatProperties DEF a
<1>6. Followed(more)
  BY <1>3, FollowedGrows DEF SoFar
<1>7. Members(more) = Members(new) \cup Members(events)
  BY <1>4, MembersConcat
<1> HIDE DEF more
<1>8. ASSUME NEW k \in DOMAIN p.req_q, IsOrder(p.req_q[k])
      PROVE  Queued(m, p.req_q[k])
  <2>1. PICK d \in {0, 1} :
           \A i \in DOMAIN p.req_q :
                /\ i \in Nat /\ i >= 1 /\ i + d \in DOMAIN n.req_q
                /\ IsOrder(p.req_q[i]) =>
                     /\ IsOrder(n.req_q[i + d])
                     /\ p.req_q[i].side = n.req_q[i + d].side
                     /\ p.req_q[i].order_type = n.req_q[i + d].order_type
                     /\ RestOf(p.req_q[i], n.req_q[i + d])
    BY <1>1, RequestsThere
  <2>2. /\ k + d \in DOMAIN n.req_q /\ IsOrder(n.req_q[k + d])
        /\ SameOrder(p.req_q[k], n.req_q[k + d])
    BY <1>8, <2>1 DEF SameOrder, RestOf
  <2>3. Queued(m, n.req_q[k + d])
    BY <2>2 DEF SoFar
  <2> QED BY <2>2, <2>3 DEF Queued, SameOrder
<1>9. ASSUME NEW side \in Side, NEW z \in orders(p, side)
      PROVE  Rests(m, side, z)
  <2>0. \A s \in Side : \A x \in orders(n, s) : Rests(m, s, x)
    BY DEF SoFar
  <2>1. CASE \A s \in Side : Shrinks(orders(n, s), orders(p, s))
    BY <2>0, <2>1, RestRests
  <2>2. CASE Grows(n, p, r, r.side) /\ Shrinks(orders(n, Opposite(r.side)), orders(p, Opposite(r.side)))
    <3>1. PICK w \in orders(p, r.side) :
            /\ Posted(n, p, r, r.side, w)
            /\ Shrinks(orders(n, r.side), orders(p, r.side) \ {w})
      BY <2>2 DEF Grows
    <3>2. /\ r \in NewOrderRequest /\ r.side \in Side /\ post_allowed(r)
          /\ w.id = r.id /\ Queued(m, r)
      BY <1>2, <3>1 DEF Posted, NewOrderRequest, AcceptedSide, IsOrder
    <3>3. side = r.side \/ side = Opposite(r.side)
      BY <3>2 DEF Side, Opposite
    <3>4. CASE side = r.side /\ z = w
      BY <3>2, <3>4 DEF Rests
    <3>5. CASE side = r.side /\ z # w
      BY <1>9, <2>0, <3>1, <3>5, RestRests
    <3>6. CASE side = Opposite(r.side)
      BY <1>9, <2>0, <2>2, <3>6, RestRests
    <3> QED BY <3>3, <3>4, <3>5, <3>6
  <2> QED BY <1>1, <2>1, <2>2 DEF BookAfter
<1>10. ASSUME NEW e \in Members(more), IsFill(e), ~e.maker
       PROVE  Takes(m, e)
  <2>1. CASE e \in Members(new)
    BY <1>10, <2>1 DEF SoFar
  <2>2. CASE e \in Members(events)
    <3>1. PICK x, quantity :
            /\ r \in NewOrderRequest /\ ~post_only(r)
            /\ e \in {MakerFill(r, x, quantity), TakerFill(r, x, quantity)}
      BY <1>3, <1>10, <2>2 DEF FilledBy
    <3>2. e.id = r.id
      <4>1. MakerFill(r, x, quantity).maker
        BY DEF MakerFill, FillEvent
      <4>2. TakerFill(r, x, quantity).id = r.id
        BY DEF TakerFill, FillEvent
      <4> QED BY <1>10, <3>1, <4>1, <4>2
    <3> QED BY <1>2, <3>1, <3>2 DEF Takes, IsOrder
  <2> QED BY <1>7, <1>10, <2>1, <2>2
<1>11. SoFar(m, p, more)
  BY <1>5, <1>6, <1>8, <1>9, <1>10 DEF SoFar
<1> QED BY <1>3, <1>11 DEF more

-----------------------------------------------------------------------------
(* The steps of a market, as calls                                         *)

\* What an action has appended to the event queue, at most that of a call.
LEMMA NewEventsOf ==
  ASSUME TypeOK, NEW new \in Seq(Event), event_q' = event_q \o new
  PROVE  NewEvents = new
<1> DEFINE L == Len(event_q)
           N == Len(new)
<1>1. /\ event_q \in Seq(Event) /\ L \in Nat /\ N \in Nat
      /\ event_q' \in Seq(Event) /\ Len(event_q') = L + N
      /\ \A i \in 1 .. L + N : event_q'[i] = IF i <= L THEN event_q[i] ELSE new[i - L]
  BY ConcatProperties, LenProperties DEF TypeOK
<1>2. NewEvents = SubSeq(event_q', L + 1, L + N)
  BY <1>1 DEF NewEvents
<1>3. /\ NewEvents \in Seq(Event) /\ Len(NewEvents) = N
      /\ \A i \in 1 .. N : NewEvents[i] = new[i]
  <2> HIDE DEF L, N
  <2> DEFINE q == event_q'
  <2>1. q \in Seq(Event) /\ Len(q) = L + N
    BY <1>1
  <2>2. \A i \in 1 .. N : q[L + 1 + i - 1] = new[i]
    <3> TAKE i \in 1 .. N
    <3>1. L + 1 + i - 1 = L + i /\ L + i \in 1 .. L + N /\ ~(L + i <= L) /\ (L + i) - L = i
      BY <1>1
    <3> QED BY <1>1, <3>1
  <2> HIDE DEF q
  <2>3. SubSeq(q, L + 1, L + N) = [i \in 1 .. N |-> q[i + L]]
    <3>1. (1 .. (1 + (L + N) - (L + 1))) = 1 .. N
      BY <1>1
    <3>2. \A i \in 1 .. N : q[i + (L + 1) - 1] = q[i + L]
      BY <1>1
    <3> QED BY <3>1, <3>2, <1>1, <2>1
  <2>4. \A i \in 1 .. N : q[i + L] = new[i] /\ new[i] \in Event
    <3>1. \A i \in 1 .. N : L + 1 + i - 1 = i + L
      BY <1>1
    <3>2. \A i \in 1 .. N : new[i] \in Event
      BY ElementOfSeq, LenProperties DEF N
    <3> QED BY <2>2, <3>1, <3>2
  <2>5. [i \in 1 .. N |-> q[i + L]] \in Seq(Event)
    BY <1>1, <2>4
  <2>6. Len([i \in 1 .. N |-> q[i + L]]) = N
    BY <1>1, <2>5
  <2> QED BY <1>2, <2>3, <2>4, <2>5, <2>6 DEF q
<1> QED BY <1>1, <1>3, SeqEqual, LenProperties

\* The ids of bids and those of asks do not meet: fewer requests than half of
\* the sequence numbers have been made.
IdsApart == 2 * MaxSeq <= SEQ_MASK

LEMMA AgeApart ==
  ASSUME IdsApart, NEW seq \in 0 .. MaxSeq, NEW s \in Side, NEW t \in Side,
         NEW x, x.id \in OrderId, NEW y, y.id \in OrderId,
         Age(s, x) < seq, Age(t, y) < seq, x.id = y.id
  PROVE  s = t /\ Age(s, x) = Age(t, y)
<1>1. /\ SEQ_MASK \in Nat /\ MaxSeq \in Nat /\ x.id.lower \in 0 .. SEQ_MASK
      /\ x.id.lower = y.id.lower
  BY MarketAssumption DEF OrderId
<1>2. s = t
  BY <1>1 DEF IdsApart, Age, Side
<1> QED BY <1>1, <1>2 DEF Age

\* Ids of what is there when a call begins.
Known(m, seq) == InOrder(m, seq) /\ seq \in 0 .. MaxSeq

LEMMA QueuedIds ==
  ASSUME IdsApart, NEW m, AccountsOK(m), NEW seq, Known(m, seq),
         NEW r, IsOrder(r), Queued(m, r)
  PROVE  /\ \A s : Queued(m, s) /\ IsOrder(s) /\ s.id = r.id => SameOrder(s, r)
         /\ \A side \in Side : \A y \in orders(m, side) : y.id # r.id
         /\ r.side \in Side /\ r.id \in OrderId
         /\ \A y \in orders(m, r.side) : Age(r.side, y) < Age(r.side, r)
<1>1. seq \in Int /\ seq \in 0 .. MaxSeq
  BY DEF Known
<1>2. ASSUME NEW j \in DOMAIN m.req_q, IsOrder(m.req_q[j])
      PROVE  /\ m.req_q[j].id \in OrderId /\ m.req_q[j].side \in Side
             /\ Age(m.req_q[j].side, m.req_q[j]) < seq
             /\ Age(m.req_q[j].side, m.req_q[j]) \in Int
             /\ j \in Int
  <2>1. m.req_q[j].id \in OrderId /\ m.req_q[j].side \in Side
    BY <1>2 DEF IsOrder, NewOrderRequest, AcceptedSide
  <2>2. j \in Int
    BY LenProperties DEF AccountsOK, Accounts
  <2> QED BY <1>2, <2>1, <2>2, AgeType DEF Known, InOrder, AgesInOrder
<1>3. PICK j \in DOMAIN m.req_q : IsOrder(m.req_q[j]) /\ SameOrder(r, m.req_q[j])
  BY DEF Queued
<1> DEFINE a == m.req_q[j]
<1>4. /\ r.id = a.id /\ r.side = a.side /\ Age(r.side, r) = Age(a.side, a)
  BY <1>3 DEF SameOrder, Age
<1>5. ASSUME NEW s, Queued(m, s), IsOrder(s), s.id = r.id
      PROVE  SameOrder(s, r)
  <2>1. PICK k \in DOMAIN m.req_q : IsOrder(m.req_q[k]) /\ SameOrder(s, m.req_q[k])
    BY <1>5 DEF Queued
  <2> DEFINE b == m.req_q[k]
  <2>2. a.id = b.id
    BY <1>4, <1>5, <2>1 DEF SameOrder
  <2>3. a.side = b.side /\ Age(a.side, a) = Age(b.side, b)
    <3>1. /\ a.id \in OrderId /\ b.id \in OrderId /\ a.side \in Side /\ b.side \in Side
          /\ Age(a.side, a) < seq /\ Age(b.side, b) < seq
      BY <1>2, <1>3, <2>1
    <3> HIDE DEF a, b
    <3> QED BY <1>1, <2>2, <3>1, AgeApart
  <2>4. j = k
    <3>1. ~(j < k) /\ ~(k < j)
      <4>1. IsOrder(a) /\ IsOrder(b)
        BY <1>3, <2>1
      <4>2. (j < k => Age(a.side, a) < Age(b.side, b))
            /\ (k < j => Age(b.side, b) < Age(a.side, a))
        BY <4>1 DEF Known, InOrder, AgesInOrder
      <4>3. Age(a.side, a) \in Int /\ Age(b.side, b) \in Int
        BY <1>2, <1>3, <2>1
      <4> HIDE DEF a, b
      <4> QED BY <2>3, <4>2, <4>3
    <3>2. j \in Int /\ k \in Int
      BY <1>2, <1>3, <2>1
    <3> QED BY <3>1, <3>2
  <2> QED BY <1>3, <2>1, <2>4 DEF SameOrder
<1>6. ASSUME NEW side \in Side, NEW y \in orders(m, side)
      PROVE  y.id # r.id
  <2> SUFFICES ASSUME y.id = r.id PROVE FALSE
    OBVIOUS
  <2>1. /\ y.id \in OrderId /\ a.id \in OrderId /\ a.side \in Side
        /\ Age(side, y) < seq /\ Age(a.side, a) < seq /\ Age(side, y) < Age(a.side, a)
        /\ Age(a.side, a) \in Int
    BY <1>2, <1>3, <1>6, Maker DEF Known, InOrder, AgesInOrder, Leaf
  <2>2. y.id = a.id
    BY <1>4
  <2> HIDE DEF a
  <2>3. Age(side, y) = Age(a.side, a)
    BY <1>1, <2>1, <2>2, AgeApart
  <2> QED BY <2>1, <2>3
<1>7. \A y \in orders(m, r.side) : Age(r.side, y) < Age(r.side, r)
  <2>1. a.side \in Side /\ IsOrder(a)
    BY <1>2, <1>3
  <2>2. \A y \in orders(m, a.side) : Age(a.side, y) < Age(a.side, a)
    BY <2>1 DEF Known, InOrder, AgesInOrder
  <2> QED BY <1>4, <2>2
<1> QED BY <1>2, <1>3, <1>4, <1>5, <1>6, <1>7

\* What a call does to a request that waits when it begins.
LEMMA TypesOf ==
  ASSUME IdsApart, NEW m, AccountsOK(m), NEW seq, Known(m, seq),
         NEW n, AccountsOK(n), NEW new, SoFar(m, n, new),
         NEW r, IsOrder(r), Queued(m, r)
  PROVE  /\ r.order_type = "PostOnly" =>
              \A e \in Members(new) : IsFill(e) /\ ~e.maker => e.id # r.id
         /\ r.order_type = "ImmediateOrCancel" =>
              \A side \in Side : \A x \in orders(n, side) : x.id # r.id
<1>1. ASSUME r.order_type = "PostOnly", NEW e \in Members(new), IsFill(e), ~e.maker,
             e.id = r.id
      PROVE  FALSE
  <2>1. PICK s \in NewOrderRequest : Queued(m, s) /\ ~post_only(s) /\ e.id = s.id
    BY <1>1 DEF SoFar, Takes
  <2>2. SameOrder(s, r)
    BY <1>1, <2>1, QueuedIds DEF IsOrder
  <2> QED BY <1>1, <2>1, <2>2 DEF SameOrder, post_only
<1>2. ASSUME r.order_type = "ImmediateOrCancel", NEW side \in Side,
             NEW x \in orders(n, side), x.id = r.id
      PROVE  FALSE
  <2>1. Rests(m, side, x)
    BY <1>2 DEF SoFar
  <2>2. CASE \E y \in orders(m, side) : x.id = y.id
    BY <1>2, <2>2, QueuedIds
  <2>3. CASE \E s \in NewOrderRequest :
               Queued(m, s) /\ s.side = side /\ post_allowed(s) /\ x.id = s.id
    <3>1. PICK s \in NewOrderRequest : Queued(m, s) /\ post_allowed(s) /\ x.id = s.id
      BY <2>3
    <3>2. SameOrder(s, r)
      BY <1>2, <3>1, QueuedIds DEF IsOrder
    <3> QED BY <1>2, <3>1, <3>2 DEF SameOrder, post_allowed
  <2> QED BY <2>1, <2>2, <2>3 DEF Rests
<1> QED BY <1>1, <1>2

-----------------------------------------------------------------------------
(* Priority                                                                *)

\* PriceTimePriority, of what a call has done so far.
Gone(m, n, new) ==
  \A side \in Side : \A x, y \in orders(m, side) :
    (\E e \in Members(new) : Filled(e, y)) /\ MoreAggressive(side, x, y)
    => \A z \in orders(n, side) : z.id # x.id

\* No order comes back.
LEMMA StaysGone ==
  ASSUME IdsApart, NEW m, AccountsOK(m), NEW seq, Known(m, seq),
         NEW n, AccountsOK(n), NEW new, SoFar(m, n, new), n.req_q # <<>>,
         NEW p, AccountsOK(p), BookAfter(n, p, n.req_q[1]),
         NEW side \in Side, NEW x \in orders(m, side),
         \A z \in orders(n, side) : z.id # x.id
  PROVE  \A z \in orders(p, side) : z.id # x.id
<1> DEFINE r == n.req_q[1]
<1>1. 1 \in DOMAIN n.req_q
  BY EmptySeq, LenProperties DEF AccountsOK, Accounts
<1>2. IsOrder(r) => Queued(m, r)
  BY <1>1 DEF SoFar
<1>3. ASSUME NEW new2, Shrinks(orders(n, side), new2)
      PROVE  \A z \in new2 : z.id # x.id
  BY <1>3 DEF Shrinks, RestOf
<1>4. CASE \A s \in Side : Shrinks(orders(n, s), orders(p, s))
  BY <1>3, <1>4
<1>5. CASE Grows(n, p, r, r.side) /\ Shrinks(orders(n, Opposite(r.side)), orders(p, Opposite(r.side)))
  <2>1. PICK w \in orders(p, r.side) :
          /\ Posted(n, p, r, r.side, w)
          /\ Shrinks(orders(n, r.side), orders(p, r.side) \ {w})
    BY <1>5 DEF Grows
  <2>2. IsOrder(r) /\ w.id = r.id /\ r.side \in Side
    BY <2>1 DEF Posted, IsOrder, NewOrderRequest, AcceptedSide
  <2>3. w.id # x.id
    BY <1>2, <2>2, QueuedIds
  <2>4. side = r.side \/ side = Opposite(r.side)
    BY <2>2 DEF Side, Opposite
  <2>5. CASE side = r.side
    <3>1. \A z \in orders(p, side) \ {w} : z.id # x.id
      BY <1>3, <2>1, <2>5
    <3> QED BY <2>3, <3>1
  <2>6. CASE side = Opposite(r.side)
    BY <1>3, <1>5, <2>6
  <2> QED BY <2>4, <2>5, <2>6
<1> QED BY <1>4, <1>5 DEF BookAfter

\* The maker of a trade is the best order of its side.
LEMMA GoneGoesOn ==
  ASSUME IdsApart, NEW m, AccountsOK(m), NEW seq, Known(m, seq),
         NEW n, AccountsOK(n), NEW new, SoFar(m, n, new), Gone(m, n, new),
         n.req_q # <<>>, NEW p, AccountsOK(p), Pass(n, p, n.req_q[1]),
         NEW events \in Seq(Event),
         \A e \in Members(events) : IsFill(e) => FilledBy(n, n.req_q[1], e)
  PROVE  Gone(m, p, new \o events)
<1> DEFINE r == n.req_q[1]
<1>1. BookAfter(n, p, r)
  BY PassBook
<1>2. Members(new \o events) = Members(new) \cup Members(events)
  BY MembersConcat DEF SoFar
<1>3. ASSUME NEW side \in Side, NEW x \in orders(m, side), NEW y \in orders(m, side),
             NEW e \in Members(new \o events), Filled(e, y),
             MoreAggressive(side, x, y)
      PROVE  \A z \in orders(p, side) : z.id # x.id
  <2>1. \A z \in orders(n, side) : z.id # x.id
    <3>1. CASE e \in Members(new)
      BY <1>3, <3>1 DEF Gone
    <3>2. CASE e \in Members(events)
      <4> DEFINE other == Opposite(r.side)
      <4>1. PICK w \in orders(n, other), quantity \in Positive :
              /\ r \in NewOrderRequest
              /\ \A v \in orders(n, other) : ~MoreAggressive(other, v, w)
              /\ e \in {MakerFill(r, w, quantity), TakerFill(r, w, quantity)}
        BY <1>3, <3>2 DEF FilledBy, Filled
      <4>2. e.id = w.id
        <5>1. ~TakerFill(r, w, quantity).maker /\ MakerFill(r, w, quantity).id = w.id
          BY DEF TakerFill, MakerFill, FillEvent
        <5> QED BY <1>3, <4>1, <5>1 DEF Filled
      <4>3. w.id = y.id /\ other \in Side
        BY <1>3, <4>1, <4>2 DEF Filled, Opposite, Side
      <4> HIDE DEF other
      <4>4. Rests(m, other, w)
        BY <4>3 DEF SoFar
      <4>5. side = other
        <5>1. ASSUME NEW v \in orders(m, other), w.id = v.id
              PROVE  side = other
          <6>1. /\ v.id \in OrderId /\ y.id \in OrderId /\ v.id = y.id
                /\ Age(other, v) < seq /\ Age(side, y) < seq /\ seq \in 0 .. MaxSeq
            BY <1>3, <4>3, <5>1, Maker DEF Known, InOrder, AgesInOrder, Leaf
          <6> QED BY <4>3, <6>1, AgeApart
        <5>2. ASSUME NEW s \in NewOrderRequest, Queued(m, s), w.id = s.id
              PROVE  side = other
          BY <1>3, <4>3, <5>2, QueuedIds DEF IsOrder
        <5> QED BY <4>4, <5>1, <5>2 DEF Rests
      <4>6. ASSUME NEW z \in orders(n, side), z.id = x.id
            PROVE  FALSE
        <5>1. MoreAggressive(side, z, w)
          BY <1>3, <4>3, <4>6 DEF MoreAggressive
        <5> QED BY <4>1, <4>5, <5>1
      <4> QED BY <4>6
    <3> QED BY <1>2, <1>3, <3>1, <3>2
  <2> QED BY <1>1, <2>1, StaysGone
<1> QED BY <1>3 DEF Gone

-----------------------------------------------------------------------------

\* Every step, as a call of MatchOrders or one that does nothing.
LEMMA StepIsCall ==
  ASSUME IdsApart, TypeOK, QInv, BInv, [Next]_vars
  PROVE  \E n \in Accounts, new \in Seq(Event) :
           /\ SoFar(MarketAccounts, n, new) /\ Gone(MarketAccounts, n, new)
           /\ AccountsOK(n) /\ bids' = n.bids /\ asks' = n.asks /\ NewEvents = new
<1> DEFINE m == MarketAccounts
<1>1. /\ AccountsOK(m) /\ m \in Accounts /\ Known(m, next_seq_num)
      /\ bids = m.bids /\ asks = m.asks /\ event_q = m.event_q
      /\ m.event_q \in Seq(Event)
  BY AccountsOfState DEF BInv, TypeOK, Known, MarketAccounts
<1>2. SoFar(m, m, <<>>) /\ Gone(m, m, <<>>)
  <2>1. Members(<<>>) = {}
    BY MembersFew
  <2> QED BY <1>1, <2>1, SoFarBegins DEF Gone
<1>3. ASSUME bids' = bids, asks' = asks, NewEvents = <<>>
      PROVE  \E n \in Accounts, new \in Seq(Event) :
               /\ SoFar(m, n, new) /\ Gone(m, n, new)
               /\ AccountsOK(n) /\ bids' = n.bids /\ asks' = n.asks /\ NewEvents = new
  <2> HIDE DEF m
  <2>1. <<>> \in Seq(Event)
    OBVIOUS
  <2> QED BY <1>1, <1>2, <1>3, <2>1
<1>4. ASSUME event_q' \in Seq(Event), Len(event_q') <= Len(event_q)
      PROVE  NewEvents = <<>>
  <2>1. Len(event_q) \in Nat /\ Len(event_q') \in Nat
    BY <1>4, LenProperties DEF TypeOK
  <2>2. Len(event_q) + 1 \in Int /\ Len(event_q') \in Int /\ Len(event_q') < Len(event_q) + 1
    BY <1>4, <2>1
  <2> QED BY <2>2, SubSeqEmpty DEF NewEvents
<1>5. ASSUME UNCHANGED <<event_q, bids, asks>>
      PROVE  bids' = bids /\ asks' = asks /\ NewEvents = <<>>
  <2>1. event_q' \in Seq(Event) /\ Len(event_q') <= Len(event_q)
    BY <1>5, LenProperties DEF TypeOK
  <2> QED BY <1>4, <1>5, <2>1
<1>6. ASSUME NEW limit \in MatchLimits, MatchOrders(limit)
      PROVE  \E n \in Accounts, new \in Seq(Event) :
               /\ SoFar(m, n, new) /\ Gone(m, n, new)
               /\ AccountsOK(n) /\ bids' = n.bids /\ asks' = n.asks /\ NewEvents = new
  <2> DEFINE S == {n \in Accounts : \E new : SoFar(m, n, new) /\ Gone(m, n, new)}
  <2>1. m \in S
    BY <1>1, <1>2
  <2>2. ASSUME NEW n \in S, NEW p \in Accounts, AccountsOK(n), KeepsBooks(n, p), p.ok,
               n.req_q # <<>>, Pass(n, p, n.req_q[1])
        PROVE  p \in S
    <3> HIDE DEF m
    <3>1. AccountsOK(p)
      BY <2>2 DEF KeepsBooks
    <3>2. PICK new : SoFar(m, n, new) /\ Gone(m, n, new)
      BY <2>2
    <3>3. PICK events \in Seq(Event) :
            /\ SoFar(m, p, new \o events)
            /\ \A e \in Members(events) : IsFill(e) => FilledBy(n, n.req_q[1], e)
      BY <1>1, <2>2, <3>1, <3>2, SoFarGoesOn
    <3>4. Gone(m, p, new \o events)
      BY <1>1, <2>2, <3>1, <3>2, <3>3, GoneGoesOn
    <3> QED BY <3>3, <3>4
  <2>3. PICK n \in S : /\ AccountsOK(n)
                       /\ bids' = n.bids /\ asks' = n.asks /\ event_q' = n.event_q
    <3> HIDE DEF S
    <3> QED BY <1>6, <2>1, <2>2, MatchOrdersDoes DEF QInv
  <2> HIDE DEF m
  <2>4. PICK new : SoFar(m, n, new) /\ Gone(m, n, new)
    OBVIOUS
  <2>5. NewEvents = new
    <3>1. new \in Seq(Event) /\ event_q' = event_q \o new
      BY <1>1, <2>3, <2>4 DEF SoFar
    <3> QED BY <3>1, NewEventsOf
  <2>6. new \in Seq(Event)
    BY <2>4 DEF SoFar
  <2> QED BY <2>3, <2>4, <2>5, <2>6
<1>7. ASSUME NEW limit \in ConsumeLimits, NEW accounts \in SUBSET Traders,
             ConsumeEvents(limit, accounts)
      PROVE  bids' = bids /\ asks' = asks /\ NewEvents = <<>>
  <2>1. /\ event_q' \in Seq(Event) /\ Len(event_q') <= Len(event_q)
        /\ UNCHANGED <<bids, asks>>
    BY <1>7, ConsumeEventsDoes
  <2> QED BY <1>4, <2>1
<1>8. ASSUME NEW t \in Traders, NEW i \in Instructions, NEW tier \in FeeTiers,
             NewOrder(t, i, tier)
      PROVE  UNCHANGED <<event_q, bids, asks>>
  BY <1>8, NewOrderDoes
<1>9. CASE UNCHANGED Queues
  BY <1>3, <1>5, <1>9 DEF Queues
<1>10. QueueStep
  BY StepsOfQueues
<1> HIDE DEF m
<1> QED BY <1>3, <1>5, <1>6, <1>7, <1>8, <1>9, <1>10 DEF QueueStep, m

LEMMA OrdersRespectedOf ==
  ASSUME IdsApart, TypeOK, QInv, BInv, [Next]_vars
  PROVE  /\ \A r \in {req_q[k] : k \in {j \in DOMAIN req_q : req_q[j].kind = "NewOrder"}} :
              /\ r.order_type = "PostOnly" =>
                   ~ \E k \in DOMAIN NewEvents :
                       IsFill(NewEvents[k]) /\ ~NewEvents[k].maker
                       /\ NewEvents[k].id = r.id
              /\ r.order_type = "ImmediateOrCancel" =>
                   \A x \in bids' \cup asks' : x.id # r.id
         /\ \A j, k \in DOMAIN NewEvents :
              (/\ j < k /\ IsFill(NewEvents[j]) /\ NewEvents[j].maker
               /\ IsFill(NewEvents[k]) /\ ~NewEvents[k].maker
               /\ \A l \in j + 1 .. k - 1 : ~IsFill(NewEvents[l]))
              => NewEvents[j].owner # NewEvents[k].owner
         /\ \A side \in Side :
              LET before == IF side = "Bid" THEN bids ELSE asks
                  after  == IF side = "Bid" THEN bids' ELSE asks'
              IN  \A x, y \in before :
                    (/\ \E k \in DOMAIN NewEvents : Filled(NewEvents[k], y)
                     /\ MoreAggressive(side, x, y))
                    => \A z \in after : z.id # x.id
<1> DEFINE m == MarketAccounts
<1>1. /\ AccountsOK(m) /\ Known(m, next_seq_num) /\ req_q = m.req_q
      /\ bids = m.bids /\ asks = m.asks
  BY AccountsOfState DEF BInv, TypeOK, Known, MarketAccounts
<1> HIDE DEF m
<1>2. PICK n \in Accounts, new \in Seq(Event) :
        /\ SoFar(m, n, new) /\ Gone(m, n, new)
        /\ AccountsOK(n) /\ bids' = n.bids /\ asks' = n.asks /\ NewEvents = new
  BY StepIsCall DEF m
<1>3. /\ orders(n, "Bid") = bids' /\ orders(n, "Ask") = asks'
      /\ orders(m, "Bid") = bids /\ orders(m, "Ask") = asks
      /\ \A side \in Side : side = "Bid" \/ side = "Ask"
      /\ "Bid" \in Side /\ "Ask" \in Side
  BY <1>1, <1>2 DEF orders, Side
<1> DEFINE E == NewEvents
<1> HIDE DEF E
<1>4. E = new
  BY <1>2 DEF E
<1>5. ASSUME NEW j \in DOMAIN req_q, req_q[j].kind = "NewOrder"
      PROVE  /\ req_q[j].order_type = "PostOnly" =>
                  ~ \E k \in DOMAIN E :
                      IsFill(E[k]) /\ ~E[k].maker /\ E[k].id = req_q[j].id
             /\ req_q[j].order_type = "ImmediateOrCancel" =>
                  \A x \in bids' \cup asks' : x.id # req_q[j].id
  <2> DEFINE r == req_q[j]
  <2>1. r \in Request
    BY ElementOfSeq, LenProperties DEF TypeOK
  <2>2. IsOrder(r)
    BY <1>5, <2>1 DEF Request, NewOrderRequest, CancelRequest, IsOrder
  <2>3. Queued(m, r)
    BY <1>1, <2>2 DEF Queued, SameOrder
  <2> HIDE DEF r
  <2>4. /\ r.order_type = "PostOnly" =>
              \A e \in Members(new) : IsFill(e) /\ ~e.maker => e.id # r.id
        /\ r.order_type = "ImmediateOrCancel" =>
              \A side \in Side : \A x \in orders(n, side) : x.id # r.id
    BY <1>1, <1>2, <2>2, <2>3, TypesOf
  <2> QED BY <1>3, <1>4, <2>4 DEF Members, r
<1>6. Followed(E)
  BY <1>2, <1>4 DEF SoFar
<1>7. ASSUME NEW side \in Side, NEW x \in orders(m, side), NEW y \in orders(m, side),
             \E k \in DOMAIN E : Filled(E[k], y), MoreAggressive(side, x, y)
      PROVE  \A z \in orders(n, side) : z.id # x.id
  <2>1. \E e \in Members(new) : Filled(e, y)
    BY <1>4, <1>7 DEF Members
  <2> QED BY <1>2, <1>7, <2>1 DEF Gone
<1>8. /\ \A r \in {req_q[k] : k \in {j \in DOMAIN req_q : req_q[j].kind = "NewOrder"}} :
           /\ r.order_type = "PostOnly" =>
                ~ \E k \in DOMAIN E : IsFill(E[k]) /\ ~E[k].maker /\ E[k].id = r.id
           /\ r.order_type = "ImmediateOrCancel" =>
                \A x \in bids' \cup asks' : x.id # r.id
  BY <1>5
<1>9. \A side \in Side :
        \A x, y \in IF side = "Bid" THEN bids ELSE asks :
          (/\ \E k \in DOMAIN E : Filled(E[k], y)
           /\ MoreAggressive(side, x, y))
          => \A z \in IF side = "Bid" THEN bids' ELSE asks' : z.id # x.id
  BY <1>3, <1>7
<1>10. \A j, k \in DOMAIN E :
              (/\ j < k /\ IsFill(E[j]) /\ E[j].maker
               /\ IsFill(E[k]) /\ ~E[k].maker
               /\ \A l \in j + 1 .. k - 1 : ~IsFill(E[l]))
              => E[j].owner # E[k].owner
  BY <1>6, Zenon DEF Followed
<1> QED BY <1>8, <1>9, <1>10, Zenon DEF E

\* A post-only order never takes, an immediate-or-cancel order never rests and
\* nobody trades with itself, in calls of MatchOrders with any limit over any
\* number of requests (dex/src/matching.rs new_ask and new_bid).
THEOREM TypesAreRespected == ASSUME IdsApart PROVE Spec => OrdersRespected
<1>1. TypeOK /\ QInv /\ BInv /\ [Next]_vars =>
        [\A r \in {req_q[k] : k \in {j \in DOMAIN req_q : req_q[j].kind = "NewOrder"}} :
           /\ r.order_type = "PostOnly" =>
                ~ \E k \in DOMAIN NewEvents :
                    IsFill(NewEvents[k]) /\ ~NewEvents[k].maker
                    /\ NewEvents[k].id = r.id
           /\ r.order_type = "ImmediateOrCancel" =>
                \A x \in bids' \cup asks' : x.id # r.id]_vars
  BY OrdersRespectedOf, Zenon
<1>2. TypeOK /\ QInv /\ BInv /\ [Next]_vars =>
        [\A j, k \in DOMAIN NewEvents :
           (/\ j < k /\ IsFill(NewEvents[j]) /\ NewEvents[j].maker
            /\ IsFill(NewEvents[k]) /\ ~NewEvents[k].maker
            /\ \A l \in j + 1 .. k - 1 : ~IsFill(NewEvents[l]))
           => NewEvents[j].owner # NewEvents[k].owner]_vars
  BY OrdersRespectedOf, Zenon
<1>3. IInv => TypeOK
  BY DEF IInv
<1> QED
  BY <1>1, <1>2, <1>3, Inductive, QInvHolds, BInvHolds, PTL
     DEF Spec, OrdersRespected, OrderTypesRespected, NoSelfTrade

\* Price-time priority: no resting order is traded with while one of its side
\* that is ahead of it in price, or at its price in time, stays on the book
\* (dex/src/matching.rs find_bbo in new_ask and new_bid).
THEOREM PriorityHolds == ASSUME IdsApart PROVE Spec => PriceTimePriority
<1>1. TypeOK /\ QInv /\ BInv /\ [Next]_vars =>
        [\A side \in Side :
           LET before == IF side = "Bid" THEN bids ELSE asks
               after  == IF side = "Bid" THEN bids' ELSE asks'
           IN  \A x, y \in before :
                 (/\ \E k \in DOMAIN NewEvents : Filled(NewEvents[k], y)
                  /\ MoreAggressive(side, x, y))
                 => \A z \in after : z.id # x.id]_vars
  BY OrdersRespectedOf, Zenon
<1>2. IInv => TypeOK
  BY DEF IInv
<1> QED BY <1>1, <1>2, Inductive, QInvHolds, BInvHolds, PTL DEF Spec, PriceTimePriority
=============================================================================
