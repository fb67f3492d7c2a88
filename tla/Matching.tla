------------------------------ MODULE Matching ------------------------------
(***************************************************************************)
(* The order matching of one market (dex/src/matching.rs), as operators on *)
(* the accounts that MatchOrders writes: a record with                     *)
(*                                                                         *)
(*   bids, asks  the two sides of the book, as sets of leaves,             *)
(*   market      the MarketState,                                          *)
(*   req_q       the request queue,                                        *)
(*   event_q     the event queue,                                          *)
(*   ok          FALSE once an event found no room in the event queue: the *)
(*               instruction then fails and reverts everything it did.     *)
(*                                                                         *)
(* Order and request quantities are in lots, what an event carries is in   *)
(* native units.                                                           *)
(***************************************************************************)
EXTENDS Fees, Sequences, FiniteSets

CONSTANTS
  CoinLot,        \* coin_lot_size
  PcLot,          \* pc_lot_size
  EventCap,       \* length of the event queue
  BookCap         \* orders that the slab of one side has room for

ASSUME MatchingAssumption ==
  /\ CoinLot \in Nat /\ PcLot \in Nat
  /\ EventCap \in Nat \ {0} /\ BookCap \in Nat \ {0}

Side == {"Bid", "Ask"}

Opposite(side) == IF side = "Bid" THEN "Ask" ELSE "Bid"

OrderType == {"Limit", "ImmediateOrCancel", "PostOnly"}

SelfTradeBehavior == {"DecrementTake", "CancelProvide"}

Least(x, y) == IF x <= y THEN x ELSE y

\* Order ids are u128 numbers price << 64 | lower.
KeyLess(x, y) == x.price < y.price \/ (x.price = y.price /\ x.lower < y.lower)

-----------------------------------------------------------------------------
(* The book                                                                *)

orders(m, side) == IF side = "Bid" THEN m.bids ELSE m.asks

WithOrders(m, side, leaves) ==
  IF side = "Bid" THEN [m EXCEPT !.bids = leaves]
                  ELSE [m EXCEPT !.asks = leaves]

find_min(leaves) == CHOOSE x \in leaves : \A y \in leaves : ~KeyLess(y.id, x.id)

\* Mutant: the tree is searched by price alone.
find_max_ByPrice(leaves) ==
  CHOOSE x \in leaves : \A y \in leaves : x.id.price >= y.id.price

find_max(leaves) == CHOOSE x \in leaves : \A y \in leaves : ~KeyLess(x.id, y.id)

find_bbo(m, side) ==
  IF side = "Bid" THEN find_max(m.bids) ELSE find_min(m.asks)

\* The order that is booted when a side is full: the least aggressive one.
LeastAggressive(m, side) ==
  IF side = "Bid" THEN find_min(m.bids) ELSE find_max(m.asks)

\* What the quantity of an order is worth in the currency it locks.
NativeLocked(side, quantity, price) ==
  IF side = "Bid" THEN quantity * price * PcLot ELSE quantity * CoinLot

\* The maker keeps the rest of its quantity or leaves the book.
LeaveQuantity(m, side, leaf, quantity) ==
  WithOrders(m, side,
    (orders(m, side) \ {leaf}) \cup
    (IF quantity = 0 THEN {} ELSE {[leaf EXCEPT !.quantity = quantity]}))

-----------------------------------------------------------------------------
(* Events                                                                  *)

\* order is the request or the leaf the event is about; native_pc is the pc
\* value of the coin_qty lots that were traded, fee what a taker pays on top
\* of it or what a maker gets back.
FillEvent(side, maker, order, coin_qty, native_pc, fee) ==
  [kind |-> "Fill", side |-> side, maker |-> maker,
   native_qty_released |->
     CASE side = "Bid" -> coin_qty * CoinLot
       [] side = "Ask" /\ maker -> native_pc + fee
       [] OTHER -> native_pc - fee,
   native_qty_paid |->
     CASE side = "Ask" -> coin_qty * CoinLot
       [] side = "Bid" /\ maker -> native_pc - fee
       [] OTHER -> native_pc + fee,
   native_fee_or_rebate |-> fee, id |-> order.id, owner |-> order.owner,
   owner_slot |-> order.owner_slot, client_id |-> order.client_id]

OutEvent(side, order, unlocked, still_locked) ==
  [kind |-> "Out", side |-> side, maker |-> FALSE,
   native_qty_released |-> unlocked, native_qty_paid |-> still_locked,
   native_fee_or_rebate |-> 0, id |-> order.id, owner |-> order.owner,
   owner_slot |-> order.owner_slot, client_id |-> order.client_id]

\* Mutant: the check for room is one off.
push_back_OneTooMany(m, events) ==
  IF Len(m.event_q) + Len(events) <= EventCap + 1
  THEN [m EXCEPT !.event_q = @ \o events]
  ELSE [m EXCEPT !.ok = FALSE]

push_back(m, events) ==
  IF Len(m.event_q) + Len(events) <= EventCap
  THEN [m EXCEPT !.event_q = @ \o events]
  ELSE [m EXCEPT !.ok = FALSE]

-----------------------------------------------------------------------------
(* What becomes of the request at the front of the queue                   *)

pop_front(m) == [m EXCEPT !.req_q = Tail(@)]

\* OrderRemaining: the request stays at the front for what is left of it.
Remaining(m, coin_qty, native_pc) ==
  [m EXCEPT !.req_q[1].max_coin_qty = coin_qty,
            !.req_q[1].native_pc_qty_locked = native_pc]

\* Mutant: the market keeps the referrer's share too.
Accrued_ReferrerTwice(mkt, native_taker_fee, maker_rebates) ==
  LET net_before_referrer == native_taker_fee - maker_rebates
      referrer            == referrer_rebate(native_taker_fee)
  IN  [mkt EXCEPT !.referrer_rebates_accrued = @ + referrer,
                  !.pc_fees_accrued = @ + net_before_referrer,
                  !.pc_deposits_total = @ - net_before_referrer]

\* The fee of a trade leaves the deposits: the maker gets its rebate, the
\* referrer its share, and the rest is the market's.
Accrued(mkt, native_taker_fee, maker_rebates) ==
  LET net_before_referrer == native_taker_fee - maker_rebates
      referrer            == referrer_rebate(native_taker_fee)
  IN  [mkt EXCEPT !.referrer_rebates_accrued = @ + referrer,
                  !.pc_fees_accrued = @ + (net_before_referrer - referrer),
                  !.pc_deposits_total = @ - net_before_referrer]

AccrueFees(m, native_taker_fee, maker_rebates) ==
  [m EXCEPT !.market = Accrued(m.market, native_taker_fee, maker_rebates)]

\* The rest of an order goes on the book; a full side boots an order for it.
insert_leaf(m, side, r, quantity) ==
  LET leaf  == [id |-> r.id, owner |-> r.owner, owner_slot |-> r.owner_slot,
                quantity |-> quantity, fee_tier |-> r.fee_tier,
                client_id |-> r.client_id]
      worst == LeastAggressive(m, side)
  IN  IF Cardinality(orders(m, side)) < BookCap
      THEN WithOrders(m, side, orders(m, side) \cup {leaf})
      ELSE push_back(
             WithOrders(m, side, (orders(m, side) \ {worst}) \cup {leaf}),
             <<OutEvent(side, worst,
                 NativeLocked(side, worst.quantity, worst.id.price), 0)>>)

\* The quantities a self-trade takes off the maker and off the taker.
CancelledProvide(r, maker, trade_qty) ==
  IF r.self_trade_behavior = "DecrementTake" THEN trade_qty ELSE maker.quantity

CancelledTake(r, trade_qty) ==
  IF r.self_trade_behavior = "DecrementTake" THEN trade_qty ELSE 0

\* Mutant: the maker of a self-trade keeps its quantity on the book.
ProvideOut_LeavesMaker(m, r, maker, trade_qty) ==
  push_back(m, <<OutEvent(Opposite(r.side), maker,
    NativeLocked(Opposite(r.side), CancelledProvide(r, maker, trade_qty),
                 maker.id.price),
    NativeLocked(Opposite(r.side),
                 maker.quantity - CancelledProvide(r, maker, trade_qty),
                 maker.id.price))>>)

\* The maker's part of a self-trade.
ProvideOut(m, r, maker, trade_qty) ==
  LET side  == Opposite(r.side)
      price == maker.id.price
      taken == CancelledProvide(r, maker, trade_qty)
      left  == maker.quantity - taken
  IN  LeaveQuantity(
        push_back(m, <<OutEvent(side, maker,
                         NativeLocked(side, taken, price),
                         NativeLocked(side, left, price))>>),
        side, maker, left)

\* Mutant: the maker's Out comes before its Fill.
TradeEvents_OutFirst(r, maker, trade_qty, native_pc, fee, rebate) ==
  LET side == Opposite(r.side)
  IN  (IF trade_qty = maker.quantity THEN <<OutEvent(side, maker, 0, 0)>>
                                     ELSE <<>>)
      \o <<FillEvent(side, TRUE, maker, trade_qty, native_pc, rebate),
           FillEvent(r.side, FALSE, r, trade_qty, native_pc, fee)>>

\* Mutant: the taker gets an Out of its own for every maker it meets.
TradeEvents_TakerOut(r, maker, trade_qty, native_pc, fee, rebate) ==
  LET side == Opposite(r.side)
  IN  <<FillEvent(side, TRUE, maker, trade_qty, native_pc, rebate)>>
      \o (IF trade_qty = maker.quantity THEN <<OutEvent(side, maker, 0, 0)>>
                                        ELSE <<>>)
      \o <<FillEvent(r.side, FALSE, r, trade_qty, native_pc, fee),
           OutEvent(r.side, r, 0, 1)>>

\* The trade itself, with the Out of a maker that it fills completely.
TradeEvents(r, maker, trade_qty, native_pc, fee, rebate) ==
  LET side == Opposite(r.side)
  IN  <<FillEvent(side, TRUE, maker, trade_qty, native_pc, rebate)>>
      \o (IF trade_qty = maker.quantity THEN <<OutEvent(side, maker, 0, 0)>>
                                        ELSE <<>>)
      \o <<FillEvent(r.side, FALSE, r, trade_qty, native_pc, fee)>>

Trade(m, r, maker, trade_qty) ==
  LET native_pc == trade_qty * maker.id.price * PcLot
      fee       == taker_fee(r.fee_tier, native_pc)
      rebate    == maker_rebate(maker.fee_tier, native_pc)
  IN  LeaveQuantity(
        AccrueFees(
          push_back(m, TradeEvents(r, maker, trade_qty, native_pc, fee, rebate)),
          fee, rebate),
        Opposite(r.side), maker, maker.quantity - trade_qty)

\* Mutant: the post-only flag is lost on the way through the request queue.
post_only_Lost(r) == FALSE

post_only(r) == r.order_type = "PostOnly"

post_allowed(r) == r.order_type # "ImmediateOrCancel"

-----------------------------------------------------------------------------
(* One pass of new_ask: it trades with at most one resting bid.            *)

AskSelfTrade(m, r, bid, trade_qty) ==
  LET taken    == CancelledTake(r, trade_qty)
      unfilled == r.max_coin_qty - taken
      out      == push_back(ProvideOut(m, r, bid, trade_qty),
                    <<OutEvent("Ask", r, taken * CoinLot, unfilled)>>)
  IN  IF unfilled = 0 THEN pop_front(out) ELSE Remaining(out, unfilled, 0)

AskTrade(m, r, bid, trade_qty) ==
  LET unfilled == r.max_coin_qty - trade_qty
      traded   == Trade(m, r, bid, trade_qty)
  IN  IF unfilled = 0
      THEN pop_front(push_back(traded, <<OutEvent("Ask", r, 0, 0)>>))
      ELSE Remaining(traded, unfilled, 0)

\* Mutant: a request that does not rest stays at the front of the queue.
AskRest_Stays(m, r, crossed) ==
  IF post_allowed(r) /\ ~crossed /\ r.max_coin_qty > 0
  THEN pop_front(insert_leaf(m, "Ask", r, r.max_coin_qty))
  ELSE m

AskRest(m, r, crossed) ==
  pop_front(
    IF post_allowed(r) /\ ~crossed /\ r.max_coin_qty > 0
    THEN insert_leaf(m, "Ask", r, r.max_coin_qty)
    ELSE push_back(m, <<OutEvent("Ask", r, r.max_coin_qty * CoinLot, 0)>>))

\* Mutant: an ask does not meet a bid at its own price.
new_ask_StrictCross(m, r) ==
  LET bid       == find_bbo(m, "Bid")
      crossed   == m.bids # {} /\ r.id.price < bid.id.price
      trade_qty == Least(bid.quantity, r.max_coin_qty)
  IN  IF ~crossed \/ post_only(r) \/ trade_qty = 0
      THEN AskRest(m, r, crossed)
      ELSE IF r.owner = bid.owner THEN AskSelfTrade(m, r, bid, trade_qty)
                                  ELSE AskTrade(m, r, bid, trade_qty)

\* Mutant: an ask takes the best bid whatever its price.
new_ask_AnyPrice(m, r) ==
  LET bid       == find_bbo(m, "Bid")
      trade_qty == Least(bid.quantity, r.max_coin_qty)
  IN  IF m.bids = {} \/ post_only(r)
      THEN AskRest(m, r, m.bids # {})
      ELSE IF r.owner = bid.owner THEN AskSelfTrade(m, r, bid, trade_qty)
                                  ELSE AskTrade(m, r, bid, trade_qty)

new_ask(m, r) ==
  LET bid       == find_bbo(m, "Bid")
      crossed   == m.bids # {} /\ r.id.price <= bid.id.price
      trade_qty == Least(bid.quantity, r.max_coin_qty)
  IN  IF ~crossed \/ post_only(r) \/ trade_qty = 0
      THEN AskRest(m, r, crossed)
      ELSE IF r.owner = bid.owner THEN AskSelfTrade(m, r, bid, trade_qty)
                                  ELSE AskTrade(m, r, bid, trade_qty)

-----------------------------------------------------------------------------
(* One pass of new_bid: it trades with at most one resting ask, and with   *)
(* no more than its locked pc pays for, fee included.                      *)

BidSelfTrade(m, r, ask, trade_qty) ==
  LET taken    == CancelledTake(r, trade_qty)
      coin     == r.max_coin_qty - taken
      unlocked == taken * ask.id.price * PcLot
      locked   == r.native_pc_qty_locked - unlocked
      provided == ProvideOut(m, r, ask, trade_qty)
  IN  IF coin # 0 /\ locked # 0
      THEN Remaining(
             push_back(provided, <<OutEvent("Bid", r, unlocked, locked)>>),
             coin, locked)
      ELSE pop_front(push_back(provided,
             <<OutEvent("Bid", r, r.native_pc_qty_locked, 0)>>))

BidTrade(m, r, ask, trade_qty) ==
  LET native_pc == trade_qty * ask.id.price * PcLot
      coin      == r.max_coin_qty - trade_qty
      locked    == r.native_pc_qty_locked - native_pc
                     - taker_fee(r.fee_tier, native_pc)
      traded    == Trade(m, r, ask, trade_qty)
  IN  IF coin # 0 /\ locked # 0
      THEN Remaining(traded, coin, locked)
      ELSE pop_front(push_back(traded, <<OutEvent("Bid", r, locked, 0)>>))

\* The Out of a bid that is posted unlocks what the posted lots do not need,
\* the fee set aside included, and comes before that of a booted bid.
BidRest(m, r, crossed) ==
  LET price   == r.id.price
      to_post == IF post_allowed(r) /\ ~crossed
                 THEN Least(r.max_coin_qty,
                            (r.native_pc_qty_locked \div PcLot) \div price)
                 ELSE 0
      keep    == to_post * price * PcLot
      out     == push_back(m, <<OutEvent("Bid", r,
                                  r.native_pc_qty_locked - keep, keep)>>)
  IN  pop_front(IF keep > 0 THEN insert_leaf(out, "Bid", r, to_post) ELSE out)

new_bid(m, r) ==
  LET ask        == find_bbo(m, "Ask")
      max_pc_qty == remove_taker_fee(r.fee_tier, r.native_pc_qty_locked)
                      \div PcLot
      crossed    == m.asks # {} /\ r.id.price >= ask.id.price
      trade_qty  == Least(Least(ask.quantity, r.max_coin_qty),
                          max_pc_qty \div ask.id.price)
  IN  IF ~crossed \/ post_only(r) \/ trade_qty = 0
      THEN BidRest(m, r, crossed)
      ELSE IF r.owner = ask.owner THEN BidSelfTrade(m, r, ask, trade_qty)
                                  ELSE BidTrade(m, r, ask, trade_qty)

-----------------------------------------------------------------------------
(* A cancel names an order by its id; it counts only if the order is that  *)
(* of the account and of the slot that the request names.                  *)

\* Mutant: the slot of the request is believed.
cancel_order_AnySlot(m, r) ==
  LET found == {x \in orders(m, r.side) : x.id = r.id /\ x.owner = r.owner}
      leaf  == CHOOSE x \in found : TRUE
  IN  IF found = {}
      THEN m
      ELSE push_back(
             WithOrders(m, r.side, orders(m, r.side) \ {leaf}),
             <<OutEvent(r.side, r,
                 NativeLocked(r.side, leaf.quantity, leaf.id.price), 0)>>)

cancel_order(m, r) ==
  LET found == {x \in orders(m, r.side) :
                  x.id = r.id /\ x.owner = r.owner
                  /\ x.owner_slot = r.owner_slot}
      leaf  == CHOOSE x \in found : TRUE
  IN  IF found = {}
      THEN m
      ELSE push_back(
             WithOrders(m, r.side, orders(m, r.side) \ {leaf}),
             <<OutEvent(r.side, leaf,
                 NativeLocked(r.side, leaf.quantity, leaf.id.price), 0)>>)

\* What one unit of the limit pays for: a pass of an order or a cancel.
process_orderbook_request(m) ==
  LET r == Head(m.req_q)
  IN  IF r.kind = "CancelOrder"
      THEN pop_front(cancel_order(m, r))
      ELSE IF r.side = "Ask" THEN new_ask(m, r) ELSE new_bid(m, r)

\* MatchOrders(limit).  An order whose limit runs out stays at the front of
\* the queue with what is left of it, so that the passes of an order and the
\* requests are one sequence of at most limit steps.
process_requests(m, limit) ==
  LET after[n \in 0 .. limit] ==
        IF n = 0 THEN m
        ELSE LET p == after[n - 1]
             IN  IF p.ok /\ p.req_q # <<>> THEN process_orderbook_request(p)
                                           ELSE p
  IN  after[limit]
=============================================================================
