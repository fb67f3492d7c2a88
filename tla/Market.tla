------------------------------- MODULE Market -------------------------------
(***************************************************************************)
(* One market of the exchange (dex/src/state.rs, dex/src/matching.rs).     *)
(*                                                                         *)
(* Traders place and cancel orders; both only append a request to the      *)
(* request queue.  Anyone may then run MatchOrders, which takes requests   *)
(* from the front of that queue, matches them against the two sides of     *)
(* the book and appends events to the event queue, and ConsumeEvents,      *)
(* which applies the events to the OpenOrders accounts of the traders.     *)
(* SettleFunds pays out what an account has free.  Every instruction is a  *)
(* transaction: an error reverts everything it did, so an action of this   *)
(* module is a whole successful instruction and is disabled where the      *)
(* instruction fails.                                                      *)
(*                                                                         *)
(* Quantities in the requests and on the book are in lots, all the others  *)
(* in native units.  Native amounts are integers here: that none of the    *)
(* u64 subtractions of the code wraps is the invariant NoUnderflow.        *)
(***************************************************************************)
EXTENDS Matching

CONSTANTS
  Traders,        \* the OpenOrders accounts, by address: a finite set
  MAX_SLOTS,      \* order slots of an OpenOrders account: 128
  ReqCap,         \* length of the request queue
  SEQ_MASK,       \* 2^64 - 1: the complement of n is SEQ_MASK - n
  Instructions,   \* the NewOrder instructions that traders may send
  FeeTiers,       \* the fee tiers that traders may have
  MatchLimits,    \* the limits that MatchOrders is called with
  ConsumeLimits,  \* the limits that ConsumeEvents is called with
  Free,           \* a slot without an order
  MaxSeq          \* bound of the model: requests ever made

Slots == 0 .. MAX_SLOTS - 1

\* NonZeroU64: prices and quantities of an instruction are positive.
Positive == Nat \ {0}

NewOrderInstruction ==
  [side : Side, limit_price : Positive, max_qty : Positive,
   order_type : OrderType, client_id : Nat,
   self_trade_behavior : SelfTradeBehavior]

ASSUME MarketAssumption ==
  /\ MAX_SLOTS \in Positive /\ ReqCap \in Positive
  /\ SEQ_MASK \in Nat /\ MaxSeq \in Nat /\ MaxSeq <= SEQ_MASK
  /\ Instructions \subseteq NewOrderInstruction
  /\ FeeTiers \subseteq FeeTier
  /\ MatchLimits \subseteq Positive /\ ConsumeLimits \subseteq Positive
  /\ IsFiniteSet(Traders)

VARIABLES
  market,         \* MarketState: its running totals and the Disabled flag
  open_orders,    \* the OpenOrders account of each trader
  req_q,          \* the request queue
  next_seq_num,   \* of its header
  event_q,        \* the event queue
  bids, asks,     \* the two sides of the book, sets of leaves
  coin_vault, pc_vault  \* balances of the two token accounts

vars == <<market, open_orders, req_q, next_seq_num, event_q, bids, asks,
          coin_vault, pc_vault>>

-----------------------------------------------------------------------------
(* Records                                                                 *)

\* An order id is price << 64 | lower.
OrderId == [price : Positive, lower : 0 .. SEQ_MASK]

\* A slot holds the id, the side bit and the client id of a live order.
SlotRec == [id : OrderId, side : Side, client_id : Nat]

ASSUME FreeAssumption == Free \notin SlotRec

Leaf == [id : OrderId, owner : Traders, owner_slot : Slots,
         quantity : Nat, fee_tier : FeeTiers, client_id : Nat]

\* A bid that locks nothing is refused, which is every bid if PcLot is zero.
AcceptedSide == {side \in Side : side = "Bid" => PcLot # 0}

NewOrderRequest ==
  [kind : {"NewOrder"}, side : AcceptedSide, order_type : OrderType, id : OrderId,
   owner : Traders, owner_slot : Slots, fee_tier : FeeTiers,
   max_coin_qty : Nat, native_pc_qty_locked : Int, client_id : Nat,
   self_trade_behavior : SelfTradeBehavior]

CancelRequest ==
  [kind : {"CancelOrder"}, side : Side, id : OrderId, owner : Traders,
   owner_slot : Slots, client_id : Nat]

Request == NewOrderRequest \cup CancelRequest

\* The fields of an Event are shared by its two views: native_qty_released is
\* what a Fill received and an Out unlocked, native_qty_paid what a Fill paid
\* and an Out keeps locked.
Event ==
  [kind : {"Fill", "Out"}, side : Side, maker : BOOLEAN,
   native_qty_released : Int, native_qty_paid : Int,
   native_fee_or_rebate : Int, id : OrderId, owner : Traders,
   owner_slot : Slots, client_id : Nat]

OpenOrdersRec ==
  [initialized : BOOLEAN,
   native_coin_free : Int, native_coin_total : Int,
   native_pc_free : Int, native_pc_total : Int,
   referrer_rebates_accrued : Int, orders : [Slots -> SlotRec \cup {Free}]]

MarketRec ==
  [coin_deposits_total : Int, pc_deposits_total : Int,
   pc_fees_accrued : Int, referrer_rebates_accrued : Int,
   disabled : BOOLEAN]

\* One side of the book: no more leaves than its slab has room for.
IsBook(leaves) ==
  leaves \subseteq Leaf /\ IsFiniteSet(leaves) /\ Cardinality(leaves) <= BookCap

TypeOK ==
  /\ market \in MarketRec
  /\ open_orders \in [Traders -> OpenOrdersRec]
  /\ req_q \in Seq(Request) /\ Len(req_q) <= ReqCap
  /\ next_seq_num \in 0 .. MaxSeq
  /\ event_q \in Seq(Event) /\ Len(event_q) <= EventCap
  /\ IsBook(bids) /\ IsBook(asks)
  /\ coin_vault \in Int /\ pc_vault \in Int

Init ==
  /\ market = [coin_deposits_total |-> 0, pc_deposits_total |-> 0,
               pc_fees_accrued |-> 0, referrer_rebates_accrued |-> 0,
               disabled |-> FALSE]
  /\ open_orders = [t \in Traders |->
       [initialized |-> FALSE,
        native_coin_free |-> 0, native_coin_total |-> 0,
        native_pc_free |-> 0, native_pc_total |-> 0,
        referrer_rebates_accrued |-> 0, orders |-> [s \in Slots |-> Free]]]
  /\ req_q = <<>> /\ next_seq_num = 0 /\ event_q = <<>>
  /\ bids = {} /\ asks = {}
  /\ coin_vault = 0 /\ pc_vault = 0

\* MarketState::load demands the flags Initialized and Market and no other:
\* once the Disabled flag is set no instruction of the market gets past it.
Loads == ~market.disabled

-----------------------------------------------------------------------------
(* NewOrder, CancelOrder, CancelOrderByClientId                            *)

gen_order_id(limit_price, side) ==
  [price |-> limit_price,
   lower |-> IF side = "Bid" THEN SEQ_MASK - next_seq_num ELSE next_seq_num]

FreeSlots(slots) == {s \in Slots : slots[s] = Free}

\* The lowest free slot: free_slot_bits.trailing_zeros().
add_order_slot(slots) ==
  CHOOSE s \in FreeSlots(slots) : \A r \in FreeSlots(slots) : s <= r

add_order(oo, slot, order) ==
  [oo EXCEPT !.initialized = TRUE,
             !.orders = [oo.orders EXCEPT ![slot] = order]]

\* What an order locks: pc for a bid, with the fee it may have to pay, coin
\* for an ask.
LockQtyNative(i, tier) ==
  IF i.side = "Bid"
  THEN LET before_fee == i.max_qty * i.limit_price * PcLot
       IN  before_fee + taker_fee(tier, before_fee)
  ELSE i.max_qty * CoinLot

\* Free funds are locked first, the rest is deposited.
LockFunds(oo, side, lock_qty, deposit) ==
  IF side = "Bid"
  THEN [oo EXCEPT !.native_pc_free = @ - (lock_qty - deposit),
                  !.native_pc_total = @ + deposit]
  ELSE [oo EXCEPT !.native_coin_free = @ - (lock_qty - deposit),
                  !.native_coin_total = @ + deposit]

NewOrder(t, i, tier) ==
  LET oo       == open_orders[t]
      lock_qty == LockQtyNative(i, tier)
      free     == IF i.side = "Bid" THEN oo.native_pc_free
                                    ELSE oo.native_coin_free
      deposit  == lock_qty - Least(lock_qty, free)
      id       == gen_order_id(i.limit_price, i.side)
      slot     == add_order_slot(oo.orders)
  IN  /\ Loads /\ next_seq_num < MaxSeq
      /\ i.side = "Bid" => lock_qty # 0
      /\ FreeSlots(oo.orders) # {}
      /\ Len(req_q) < ReqCap
      /\ open_orders' = [open_orders EXCEPT ![t] =
           add_order(LockFunds(oo, i.side, lock_qty, deposit), slot,
                     [id |-> id, side |-> i.side, client_id |-> i.client_id])]
      /\ IF i.side = "Bid"
         THEN /\ market' = [market EXCEPT !.pc_deposits_total = @ + deposit]
              /\ pc_vault' = pc_vault + deposit
              /\ UNCHANGED coin_vault
         ELSE /\ market' = [market EXCEPT !.coin_deposits_total = @ + deposit]
              /\ coin_vault' = coin_vault + deposit
              /\ UNCHANGED pc_vault
      /\ next_seq_num' = next_seq_num + 1
      /\ req_q' = Append(req_q,
           [kind |-> "NewOrder", side |-> i.side, order_type |-> i.order_type,
            id |-> id, owner |-> t, owner_slot |-> slot, fee_tier |-> tier,
            max_coin_qty |-> i.max_qty,
            native_pc_qty_locked |-> IF i.side = "Bid" THEN lock_qty ELSE 0,
            client_id |-> i.client_id,
            self_trade_behavior |-> i.self_trade_behavior])
      /\ UNCHANGED <<event_q, bids, asks>>

RequestCancel(t, side, id, slot, client_id) ==
  /\ Loads /\ next_seq_num < MaxSeq
  /\ open_orders[t].initialized
  /\ Len(req_q) < ReqCap
  /\ next_seq_num' = next_seq_num + 1   \* the cancel_id
  /\ req_q' = Append(req_q,
       [kind |-> "CancelOrder", side |-> side, id |-> id, owner |-> t,
        owner_slot |-> slot, client_id |-> client_id])
  /\ UNCHANGED <<market, open_orders, event_q, bids, asks, coin_vault,
                 pc_vault>>

\* The side, the id and the slot are what the trader wrote in the
\* instruction: nothing compares them with the account.
CancelOrder(t, side, id, slot) == RequestCancel(t, side, id, slot, 0)

\* The first live slot with that client id.
CancelOrderByClientId(t, client_id) ==
  LET slots == open_orders[t].orders
      found == {s \in Slots : slots[s] # Free /\ slots[s].client_id = client_id}
      slot  == CHOOSE s \in found : \A r \in found : s <= r
  IN  /\ client_id # 0 /\ found # {}
      /\ RequestCancel(t, slots[slot].side, slots[slot].id, slot, client_id)

-----------------------------------------------------------------------------
(* MatchOrders, ConsumeEvents                                              *)

MatchOrders(limit) ==
  LET m == process_requests(
             [bids |-> bids, asks |-> asks, market |-> market,
              req_q |-> req_q, event_q |-> event_q, ok |-> TRUE], limit)
  IN  /\ Loads
      /\ m.ok
      /\ bids' = m.bids /\ asks' = m.asks /\ market' = m.market
      /\ req_q' = m.req_q /\ event_q' = m.event_q
      /\ UNCHANGED <<open_orders, next_seq_num, coin_vault, pc_vault>>

\* The two checks before an event is applied: its slot is live, on its side,
\* and holds its order.
EventMatchesSlot(oo, e) ==
  LET slot == oo.orders[e.owner_slot]
  IN  slot # Free /\ slot.side = e.side /\ slot.id = e.id

\* Mutant: the rebate of a maker is counted as a fee that has a referrer.
ApplyFill_MakerReferrer(oo, e) ==
  LET rebate == referrer_rebate(e.native_fee_or_rebate)
  IN  IF e.side = "Bid"
      THEN [oo EXCEPT
              !.native_pc_total = @ - e.native_qty_paid,
              !.native_coin_total = @ + e.native_qty_released,
              !.native_coin_free = @ + e.native_qty_released,
              !.native_pc_free = @ + (IF e.maker THEN e.native_fee_or_rebate
                                                 ELSE 0)]
      ELSE [oo EXCEPT
              !.native_coin_total = @ - e.native_qty_paid,
              !.native_pc_total = @ + e.native_qty_released,
              !.native_pc_free = @ + e.native_qty_released,
              !.referrer_rebates_accrued = @ + rebate]

ApplyFill(oo, e) ==
  LET rebate == IF e.maker THEN 0 ELSE referrer_rebate(e.native_fee_or_rebate)
  IN  IF e.side = "Bid"
      THEN [oo EXCEPT
              !.native_pc_total = @ - e.native_qty_paid,
              !.native_coin_total = @ + e.native_qty_released,
              !.native_coin_free = @ + e.native_qty_released,
              !.native_pc_free = @ + (IF e.maker THEN e.native_fee_or_rebate
                                                 ELSE 0),
              !.referrer_rebates_accrued = @ + rebate]
      ELSE [oo EXCEPT
              !.native_coin_total = @ - e.native_qty_paid,
              !.native_pc_total = @ + e.native_qty_released,
              !.native_pc_free = @ + e.native_qty_released,
              !.referrer_rebates_accrued = @ + rebate]

\* An Out that keeps nothing locked frees the slot.
ApplyOut(oo, e) ==
  [oo EXCEPT
     !.native_pc_free = @ + (IF e.side = "Bid" THEN e.native_qty_released
                                               ELSE 0),
     !.native_coin_free = @ + (IF e.side = "Ask" THEN e.native_qty_released
                                                 ELSE 0),
     !.orders = IF e.native_qty_paid = 0
                THEN [oo.orders EXCEPT ![e.owner_slot] = Free] ELSE @]

FreeWithinTotal(oo) == /\ oo.native_pc_free <= oo.native_pc_total
                       /\ oo.native_coin_free <= oo.native_coin_total

\* Mutant: an event that frees its slot is not taken off the queue.
ConsumeEvent_KeepsOut(c) ==
  LET e  == Head(c.event_q)
      oo == c.open_orders[e.owner]
      to == IF e.kind = "Fill" THEN ApplyFill(oo, e) ELSE ApplyOut(oo, e)
  IN  IF e.kind = "Fill" \/ e.native_qty_paid # 0
      THEN [c EXCEPT !.open_orders = [c.open_orders EXCEPT ![e.owner] = to],
                     !.event_q = Tail(@)]
      ELSE c

ConsumeEvent(c) ==
  LET e  == Head(c.event_q)
      oo == c.open_orders[e.owner]
      to == IF e.kind = "Fill" THEN ApplyFill(oo, e) ELSE ApplyOut(oo, e)
  IN  IF EventMatchesSlot(oo, e) /\ (e.kind = "Out" => FreeWithinTotal(to))
      THEN [c EXCEPT !.open_orders = [c.open_orders EXCEPT ![e.owner] = to],
                     !.event_q = Tail(@)]
      ELSE [c EXCEPT !.ok = FALSE]

\* ConsumeEvents(limit, accounts), on a record of the accounts it writes.  It
\* stops at the first event whose account was not passed to the instruction.
process_consume_events(c, limit, accounts) ==
  LET after[n \in 0 .. limit] ==
        IF n = 0 THEN c
        ELSE LET d == after[n - 1]
             IN  IF d.ok /\ d.event_q # <<>> /\ Head(d.event_q).owner \in accounts
                 THEN ConsumeEvent(d)
                 ELSE d
  IN  after[limit]

ConsumeEvents(limit, accounts) ==
  LET c == process_consume_events(
             [open_orders |-> open_orders, event_q |-> event_q, ok |-> TRUE],
             limit, accounts)
  IN  /\ Loads
      /\ c.ok
      /\ open_orders' = c.open_orders /\ event_q' = c.event_q
      /\ UNCHANGED <<market, req_q, next_seq_num, bids, asks, coin_vault,
                     pc_vault>>

-----------------------------------------------------------------------------
(* SettleFunds, SweepFees, DisableMarket                                   *)

Settled(oo) ==
  [oo EXCEPT !.native_coin_free = 0,
             !.native_coin_total = @ - oo.native_coin_free,
             !.native_pc_free = 0,
             !.native_pc_total = @ - oo.native_pc_free,
             !.referrer_rebates_accrued = 0]

\* Pays out what the account has free.  Its referrer rebates go to the wallet
\* of a referrer if the instruction names one, to the fees of the market if
\* not.
SettleFunds(t, with_referrer) ==
  LET oo      == open_orders[t]
      rebates == oo.referrer_rebates_accrued
      to_referrer == IF with_referrer THEN rebates ELSE 0
  IN  /\ Loads
      /\ oo.initialized
      /\ market' = [market EXCEPT
           !.coin_deposits_total = @ - oo.native_coin_free,
           !.pc_deposits_total = @ - oo.native_pc_free,
           !.pc_fees_accrued = @ + (rebates - to_referrer),
           !.referrer_rebates_accrued = @ - rebates]
      /\ open_orders' = [open_orders EXCEPT ![t] = Settled(oo)]
      /\ coin_vault >= oo.native_coin_free
      /\ coin_vault' = coin_vault - oo.native_coin_free
      /\ pc_vault >= oo.native_pc_free + to_referrer
      /\ pc_vault' = pc_vault - oo.native_pc_free - to_referrer
      /\ UNCHANGED <<req_q, next_seq_num, event_q, bids, asks>>

SweepFees ==
  /\ Loads
  /\ pc_vault >= market.pc_fees_accrued
  /\ pc_vault' = pc_vault - market.pc_fees_accrued
  /\ market' = [market EXCEPT !.pc_fees_accrued = 0]
  /\ UNCHANGED <<open_orders, req_q, next_seq_num, event_q, bids, asks,
                 coin_vault>>

DisableMarket ==
  /\ Loads
  /\ market' = [market EXCEPT !.disabled = TRUE]
  /\ UNCHANGED <<open_orders, req_q, next_seq_num, event_q, bids, asks,
                 coin_vault, pc_vault>>

-----------------------------------------------------------------------------
(* The ids that a cancel may name: those of the orders the traders know.   *)

LiveSlots(t) == {s \in Slots : open_orders[t].orders[s] # Free}

KnownIds ==
  UNION {{open_orders[t].orders[s].id : s \in LiveSlots(t)} : t \in Traders}

Next ==
  \/ \E t \in Traders :
       \/ \E i \in Instructions, tier \in FeeTiers : NewOrder(t, i, tier)
       \/ \E side \in Side, id \in KnownIds, slot \in Slots :
            CancelOrder(t, side, id, slot)
       \/ \E i \in Instructions : CancelOrderByClientId(t, i.client_id)
       \/ \E with_referrer \in BOOLEAN : SettleFunds(t, with_referrer)
  \/ \E limit \in MatchLimits : MatchOrders(limit)
  \/ \E limit \in ConsumeLimits, accounts \in SUBSET Traders :
       ConsumeEvents(limit, accounts)
  \/ SweepFees
  \/ DisableMarket

Spec == Init /\ [][Next]_vars
=============================================================================
