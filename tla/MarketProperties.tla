-------------------------- MODULE MarketProperties --------------------------
(***************************************************************************)
(* What a market promises its traders, as properties of module Market.     *)
(***************************************************************************)
EXTENDS Market, Sums

\* The events of trader t that still wait in the queue, by position.
PendingOf(t) == {k \in DOMAIN event_q : event_q[k].owner = t}

RequestsOf(t) ==
  {k \in DOMAIN req_q : req_q[k].kind = "NewOrder" /\ req_q[k].owner = t}

IsFill(e) == e.kind = "Fill"

FinalOut(e) == e.kind = "Out" /\ e.native_qty_paid = 0

-----------------------------------------------------------------------------
(* Custody                                                                 *)

\* The vaults hold exactly the deposits, the fees and the referrer rebates of
\* the books, through matching, settling and sweeping.  The fuzz target
\* asserts it of the vaults after it has drained the market
\* (dex/fuzz/fuzz_targets/multiple_orders.rs).
VaultsMatchBooks ==
  /\ pc_vault = market.pc_deposits_total + market.pc_fees_accrued
                  + market.referrer_rebates_accrued
  /\ coin_vault = market.coin_deposits_total

\* What the queued events will still do to a total of trader t.
PendingPc(t) ==
  Total({k \in PendingOf(t) : IsFill(event_q[k])},
        [k \in DOMAIN event_q |->
           IF event_q[k].side = "Bid" THEN -event_q[k].native_qty_paid
                                      ELSE event_q[k].native_qty_released])

PendingCoin(t) ==
  Total({k \in PendingOf(t) : IsFill(event_q[k])},
        [k \in DOMAIN event_q |->
           IF event_q[k].side = "Bid" THEN event_q[k].native_qty_released
                                      ELSE -event_q[k].native_qty_paid])

PendingReferrer(t) ==
  Total({k \in PendingOf(t) : IsFill(event_q[k]) /\ ~event_q[k].maker},
        [k \in DOMAIN event_q |-> referrer_rebate(event_q[k].native_fee_or_rebate)])

\* The deposits of the market are what the accounts own once the queued
\* events are applied, and its referrer rebates are what it owes their
\* referrers: MatchOrders moves the totals of the market, ConsumeEvents those
\* of the accounts, in other transactions and for one trader at a time.
DepositsMatchAccounts ==
  /\ market.pc_deposits_total =
       Total(Traders, [t \in Traders |->
                         open_orders[t].native_pc_total + PendingPc(t)])
  /\ market.coin_deposits_total =
       Total(Traders, [t \in Traders |->
                         open_orders[t].native_coin_total + PendingCoin(t)])
  /\ market.referrer_rebates_accrued =
       Total(Traders, [t \in Traders |->
                         open_orders[t].referrer_rebates_accrued + PendingReferrer(t)])

\* What an event takes off the locked funds of its account.
Unlocks(e) ==
  CASE e.kind = "Out" -> e.native_qty_released
    [] IsFill(e) /\ e.side = "Bid" /\ e.maker ->
         e.native_qty_paid + e.native_fee_or_rebate
    [] OTHER -> e.native_qty_paid

\* The funds that the orders of trader t on one side hold, wherever they are.
HeldByOrders(t, side) ==
  LET requests == {k \in RequestsOf(t) : req_q[k].side = side}
      leaves   == {x \in IF side = "Bid" THEN bids ELSE asks : x.owner = t}
      events   == {k \in PendingOf(t) : event_q[k].side = side}
  IN  Total(requests, [k \in requests |->
                         IF side = "Bid" THEN req_q[k].native_pc_qty_locked
                                         ELSE req_q[k].max_coin_qty * CoinLot])
      + Total(leaves, [x \in leaves |->
                         NativeLocked(side, x.quantity, x.id.price)])
      + Total(events, [k \in events |-> Unlocks(event_q[k])])

\* Not a unit is locked that no order of the account accounts for, nor held by
\* an order that the account does not have locked: partial fills, rounded
\* fees, self-trades, boots and cancels give back exactly what they free.
LockedMatchesOrders ==
  \A t \in Traders :
    LET oo == open_orders[t]
    IN  /\ oo.native_pc_total - oo.native_pc_free = HeldByOrders(t, "Bid")
        /\ oo.native_coin_total - oo.native_coin_free = HeldByOrders(t, "Ask")

\* None of the unchecked u64 subtractions of matching, consuming and settling
\* goes below zero.
NoUnderflow ==
  /\ market.coin_deposits_total >= 0 /\ market.pc_deposits_total >= 0
  /\ market.pc_fees_accrued >= 0 /\ market.referrer_rebates_accrued >= 0
  /\ \A t \in Traders :
       /\ 0 <= open_orders[t].native_pc_free
       /\ 0 <= open_orders[t].native_coin_free
       /\ FreeWithinTotal(open_orders[t])
  /\ \A k \in DOMAIN event_q :
       event_q[k].native_qty_released >= 0 /\ event_q[k].native_qty_paid >= 0
  /\ \A k \in DOMAIN req_q :
       req_q[k].kind = "NewOrder" /\ req_q[k].side = "Bid"
         => req_q[k].native_pc_qty_locked > 0

-----------------------------------------------------------------------------
(* Orders and events                                                       *)

\* The queue can always be drained: with all the accounts at hand no check of
\* ConsumeEvents fails for any queued event.  One that failed would stay at
\* the head and block the market for good.
EventsConsumable ==
  process_consume_events(
    [open_orders |-> open_orders, event_q |-> event_q, ok |-> TRUE],
    EventCap, Traders).ok

InRequests(t, s) == {k \in RequestsOf(t) : req_q[k].owner_slot = s}

InBook(t, s) == {x \in bids \cup asks : x.owner = t /\ x.owner_slot = s}

LeavingEvents(t, s) ==
  {k \in PendingOf(t) : event_q[k].owner_slot = s /\ FinalOut(event_q[k])}

\* What carries the id of an order agrees with the slot of that order on the
\* side and on the client id, which the debug assertions of cancel_order and
\* process_consume_events take for granted.
SlotsAgree ==
  LET Agrees(x, side) ==
        open_orders[x.owner].orders[x.owner_slot] =
          [id |-> x.id, side |-> side, client_id |-> x.client_id]
  IN  /\ \A x \in bids : Agrees(x, "Bid")
      /\ \A x \in asks : Agrees(x, "Ask")
      /\ \A k \in DOMAIN event_q : Agrees(event_q[k], event_q[k].side)
      /\ \A k \in DOMAIN req_q :
           req_q[k].kind = "NewOrder" => Agrees(req_q[k], req_q[k].side)

\* A live slot stands for one order, in one place: requested, on the book, or
\* leaving with the one Out that will free the slot; a free slot for none; and
\* all that carries the order's id agrees with its slot.  So no order is lost,
\* matched twice or freed twice, and no slot is freed for another order.
OrderInOnePlace ==
  /\ \A t \in Traders, s \in Slots :
       Cardinality(InRequests(t, s)) + Cardinality(InBook(t, s))
         + Cardinality(LeavingEvents(t, s))
       = IF open_orders[t].orders[s] = Free THEN 0 ELSE 1
  /\ SlotsAgree

\* Between two instructions no bid of the book meets an ask.
BookNotCrossed ==
  \A b \in bids, a \in asks : b.id.price < a.id.price

-----------------------------------------------------------------------------
(* Matching                                                                *)

\* The events that a step appends.
NewEvents == SubSeq(event_q', Len(event_q) + 1, Len(event_q'))

Filled(e, x) == IsFill(e) /\ e.maker /\ e.id = x.id

MoreAggressive(side, x, y) ==
  IF side = "Bid" THEN KeyLess(y.id, x.id) ELSE KeyLess(x.id, y.id)

\* Among orders of one side at one price the key of the older is the more
\* aggressive: an order of the book is older than any that still waits, and
\* the queue is in the order of age.  It is what complementing the sequence
\* number in the ids of bids is for.
KeysOrderByAge ==
  \A l \in {k \in DOMAIN req_q : req_q[k].kind = "NewOrder"} :
    LET y == req_q[l]
        older == (IF y.side = "Bid" THEN bids ELSE asks)
                 \cup {req_q[k] : k \in {j \in 1 .. l - 1 :
                         req_q[j].kind = "NewOrder" /\ req_q[j].side = y.side}}
    IN  \A x \in older :
          x.id.price = y.id.price => MoreAggressive(y.side, x, y)

\* The book between two instructions: no bid meets an ask, and the keys of the
\* orders, which new_order, insert_leaf and find_min or find_max go by, put the
\* older of two orders at one price first.
BookInOrder == BookNotCrossed /\ KeysOrderByAge

\* Price-time priority: a resting order trades only once every order of its
\* side with a more aggressive key is off the book.
PriceTimePriority ==
  [][\A side \in Side :
       LET before == IF side = "Bid" THEN bids ELSE asks
           after  == IF side = "Bid" THEN bids' ELSE asks'
       IN  \A x, y \in before :
             (/\ \E k \in DOMAIN NewEvents : Filled(NewEvents[k], y)
              /\ MoreAggressive(side, x, y))
             => \A z \in after : z.id # x.id]_vars

\* Nobody trades at a price worse than its limit, which is in the order id: a
\* taker gets the maker's price or better, a maker exactly its own.
FillsWithinLimit ==
  \A k \in {j \in DOMAIN event_q : IsFill(event_q[j])} :
    LET e     == event_q[k]
        coin  == (IF e.side = "Bid" THEN e.native_qty_released
                                    ELSE e.native_qty_paid) \div CoinLot
        limit == coin * e.id.price * PcLot
        fee   == e.native_fee_or_rebate
    IN  CASE e.side = "Bid" /\ e.maker  -> e.native_qty_paid + fee = limit
          [] e.side = "Bid" /\ ~e.maker -> e.native_qty_paid - fee <= limit
          [] e.side = "Ask" /\ e.maker  -> e.native_qty_released - fee = limit
          [] OTHER                      -> e.native_qty_released + fee >= limit

\* A post-only order never takes, and an immediate-or-cancel order never
\* rests, whatever the limits of the MatchOrders calls that process it.
OrderTypesRespected ==
  [][\A r \in {req_q[k] : k \in {j \in DOMAIN req_q : req_q[j].kind = "NewOrder"}} :
       /\ r.order_type = "PostOnly" =>
            ~ \E k \in DOMAIN NewEvents :
                IsFill(NewEvents[k]) /\ ~NewEvents[k].maker
                /\ NewEvents[k].id = r.id
       /\ r.order_type = "ImmediateOrCancel" =>
            \A x \in bids' \cup asks' : x.id # r.id]_vars

\* An account never trades with itself: of two consecutive fills the maker's
\* and the taker's belong to different accounts.
NoSelfTrade ==
  [][\A j, k \in DOMAIN NewEvents :
       (/\ j < k /\ IsFill(NewEvents[j]) /\ NewEvents[j].maker
        /\ IsFill(NewEvents[k]) /\ ~NewEvents[k].maker
        /\ \A l \in j + 1 .. k - 1 : ~IsFill(NewEvents[l]))
       => NewEvents[j].owner # NewEvents[k].owner]_vars

\* Through partial fills, passes and batches an order does what its type and
\* self-trade behaviour allow, and nothing else.
OrdersRespected == OrderTypesRespected /\ NoSelfTrade

\* What MatchOrders is given.
MarketAccounts ==
  [bids |-> bids, asks |-> asks, market |-> market, req_q |-> req_q,
   event_q |-> event_q, ok |-> TRUE]

\* With room for four events a call with limit 1 succeeds: the maker's Fill
\* and Out, the taker's Fill and Out are the most that one pass appends.
OnePassFits ==
  (Len(event_q) + 4 <= EventCap) => process_requests(MarketAccounts, 1).ok

-----------------------------------------------------------------------------
(* Progress                                                                *)

\* A crank consumes for the owner of the event at the head at least: it picks
\* the accounts of a call in the order of the queue.
ConsumeHead ==
  /\ event_q # <<>>
  /\ \E limit \in ConsumeLimits : ConsumeEvents(limit, {Head(event_q).owner})

\* It succeeds and changes something: ENABLED of the step that FairSpec asks for.
CanConsume ==
  /\ Loads /\ event_q # <<>>
  /\ LET c == [open_orders |-> open_orders, event_q |-> event_q, ok |-> TRUE]
     IN  \E limit \in ConsumeLimits :
           LET d == process_consume_events(c, limit, {Head(event_q).owner})
           IN  d.ok /\ d # c

\* MatchOrders succeeds and changes something, likewise.
CanMatch ==
  /\ Loads
  /\ \E limit \in MatchLimits :
       LET m == process_requests(MarketAccounts, limit)
       IN  m.ok /\ m # MarketAccounts

\* The operators of a market keep its cranks running (crank/src/lib.rs):
\* MatchOrders with the limit of match_orders, and the endless
\* consume_events_loop.  Nobody has to place, cancel, settle or sweep.  The
\* conjuncts are weak fairness of MatchOrders and of ConsumeHead with what
\* enables them spelled out, because ENABLED of a loop over passes or events is
\* more than TLC can afford.
FairSpec ==
  /\ Spec
  /\ <>[]CanMatch => []<><<\E limit \in MatchLimits : MatchOrders(limit)>>_vars
  /\ <>[]CanConsume => []<><<ConsumeHead>>_vars

\* An order does not stay in the request queue: its turn comes, and passes
\* over it end, whatever it crosses.
RequestsServed ==
  \A t \in Traders, s \in Slots :
    (InRequests(t, s) # {}) ~> (InRequests(t, s) = {} \/ market.disabled)

\* The slot and the funds of an order that has left the book come free.
LeavingOrdersLeave ==
  \A t \in Traders, s \in Slots :
    (LeavingEvents(t, s) # {}) ~> (LeavingEvents(t, s) = {} \/ market.disabled)
=============================================================================
