------------------------------ MODULE Encoding ------------------------------
(***************************************************************************)
(* How requests, events and instructions are written down: Request and     *)
(* Event of dex/src/state.rs, whose fields serve for several kinds of      *)
(* item, and MarketInstruction of dex/src/instruction.rs.  The modules     *)
(* Matching and Market keep views in their queues; that they may is what   *)
(* module StateProofs shows.                                               *)
(*                                                                         *)
(* A bit set is the set of its flags, an Option is a set of at most one    *)
(* value, and the bytes of an instruction are cut into the numbers that    *)
(* the layout of its fields makes of them.                                 *)
(***************************************************************************)
EXTENDS Fees

CONSTANT Pubkey

Below(bound) == {n \in Nat : n < bound}

U8 == Below(256)
U16 == Below(65536)
U32 == Below(4294967296)
U64 == Below(2^64)
U128 == Below(2^128)

NonZero == U64 \ {0}

Option(T) == {{}} \union {{x} : x \in T}

\* NonZeroU64::new
Nonzero(word) == {word} \ {0}

\* map_or(0, NonZeroU64::get)
OrZero(option) == IF option = {} THEN 0 ELSE CHOOSE x \in option : TRUE

\* The numbers of an enum, and back (try_from_primitive, bincode).
SideCode == [Bid |-> 0, Ask |-> 1]

OrderTypeCode == [Limit |-> 0, ImmediateOrCancel |-> 1, PostOnly |-> 2]

SelfTradeBehaviorCode == [DecrementTake |-> 0, CancelProvide |-> 1]

FeeTierCode ==
  [Base |-> 0, SRM2 |-> 1, SRM3 |-> 2, SRM4 |-> 3, SRM5 |-> 4, SRM6 |-> 5, MSRM |-> 6]

Decode(code, n) == {x \in DOMAIN code : code[x] = n}

Side == {"Bid", "Ask"}

OrderType == {"Limit", "ImmediateOrCancel", "PostOnly"}

SelfTradeBehavior == {"DecrementTake", "CancelProvide"}

SideFlag(side) == IF side = "Bid" THEN {"Bid"} ELSE {}

flags_to_side(flags) == IF "Bid" \in flags THEN "Bid" ELSE "Ask"

-----------------------------------------------------------------------------
(* Requests                                                                *)

NewOrderView ==
  [kind : {"NewOrder"}, side : Side, order_type : OrderType, owner_slot : U8,
   fee_tier : FeeTier, order_id : U128, max_coin_qty : NonZero,
   native_pc_qty_locked : Option(NonZero), owner : Pubkey,
   client_order_id : Option(NonZero), self_trade_behavior : SelfTradeBehavior]

CancelOrderView ==
  [kind : {"CancelOrder"}, side : Side, order_id : U128, cancel_id : U64,
   expected_owner_slot : U8, expected_owner : Pubkey, client_order_id : Option(NonZero)]

RequestView == NewOrderView \union CancelOrderView

OrderTypeFlag(order_type) ==
  CASE order_type = "PostOnly" -> {"PostOnly"}
    [] order_type = "ImmediateOrCancel" -> {"ImmediateOrCancel"}
    [] order_type = "Limit" -> {}

\* Request::new
NewRequest(view) ==
  IF view.kind = "NewOrder"
  THEN [request_flags |->
          {"NewOrder"} \union SideFlag(view.side) \union OrderTypeFlag(view.order_type),
        owner_slot |-> view.owner_slot, fee_tier |-> FeeTierCode[view.fee_tier],
        self_trade_behavior |-> SelfTradeBehaviorCode[view.self_trade_behavior],
        max_coin_qty_or_cancel_id |-> view.max_coin_qty,
        native_pc_qty_locked |-> OrZero(view.native_pc_qty_locked),
        order_id |-> view.order_id, owner |-> view.owner,
        client_order_id |-> OrZero(view.client_order_id)]
  ELSE [request_flags |-> {"CancelOrder"} \union SideFlag(view.side),
        owner_slot |-> view.expected_owner_slot, fee_tier |-> 0,
        self_trade_behavior |-> 0, max_coin_qty_or_cancel_id |-> view.cancel_id,
        native_pc_qty_locked |-> 0,
        order_id |-> view.order_id, owner |-> view.expected_owner,
        client_order_id |-> OrZero(view.client_order_id)]

\* Both flags at once are unreachable.
OrderTypesOf(flags) ==
  CASE {"PostOnly", "ImmediateOrCancel"} \subseteq flags -> {}
    [] "PostOnly" \in flags /\ "ImmediateOrCancel" \notin flags -> {"PostOnly"}
    [] "ImmediateOrCancel" \in flags /\ "PostOnly" \notin flags -> {"ImmediateOrCancel"}
    [] OTHER -> {"Limit"}

\* Request::as_view; no view where it fails.
RequestViews(r) ==
  IF "NewOrder" \in r.request_flags
  THEN {[kind |-> "NewOrder", side |-> flags_to_side(r.request_flags),
         order_type |-> order_type, owner_slot |-> r.owner_slot, fee_tier |-> fee_tier,
         order_id |-> r.order_id, max_coin_qty |-> max_coin_qty,
         native_pc_qty_locked |-> Nonzero(r.native_pc_qty_locked), owner |-> r.owner,
         client_order_id |-> Nonzero(r.client_order_id),
         self_trade_behavior |-> self_trade_behavior] :
           order_type \in {t \in OrderTypesOf(r.request_flags) :
             r.request_flags \subseteq {"NewOrder", "Bid", "PostOnly", "ImmediateOrCancel"}},
           fee_tier \in Decode(FeeTierCode, r.fee_tier),
           self_trade_behavior \in Decode(SelfTradeBehaviorCode, r.self_trade_behavior),
           max_coin_qty \in Nonzero(r.max_coin_qty_or_cancel_id)}
  ELSE {[kind |-> "CancelOrder", side |-> flags_to_side(flags), order_id |-> r.order_id,
         cancel_id |-> r.max_coin_qty_or_cancel_id,
         expected_owner_slot |-> r.owner_slot, expected_owner |-> r.owner,
         client_order_id |-> Nonzero(r.client_order_id)] :
           flags \in {f \in {r.request_flags} :
             "CancelOrder" \in f /\ f \subseteq {"CancelOrder", "Bid"}}}

-----------------------------------------------------------------------------
(* Events                                                                  *)

FillView ==
  [kind : {"Fill"}, side : Side, maker : BOOLEAN, native_qty_paid : U64,
   native_qty_received : U64, native_fee_or_rebate : U64, order_id : U128,
   owner : Pubkey, owner_slot : U8, fee_tier : FeeTier, client_order_id : Option(NonZero)]

OutView ==
  [kind : {"Out"}, side : Side, native_qty_unlocked : U64, native_qty_still_locked : U64,
   order_id : U128, owner : Pubkey, owner_slot : U8, client_order_id : Option(NonZero)]

EventView == FillView \union OutView

\* Event::new
NewEvent(view) ==
  IF view.kind = "Fill"
  THEN [event_flags |-> SideFlag(view.side) \union {"Fill"}
                          \union (IF view.maker THEN {"Maker"} ELSE {}),
        owner_slot |-> view.owner_slot, fee_tier |-> FeeTierCode[view.fee_tier],
        native_qty_released |-> view.native_qty_received,
        native_qty_paid |-> view.native_qty_paid,
        native_fee_or_rebate |-> view.native_fee_or_rebate,
        order_id |-> view.order_id, owner |-> view.owner,
        client_order_id |-> OrZero(view.client_order_id)]
  ELSE [event_flags |-> SideFlag(view.side) \union {"Out"},
        owner_slot |-> view.owner_slot, fee_tier |-> 0,
        native_qty_released |-> view.native_qty_unlocked,
        native_qty_paid |-> view.native_qty_still_locked,
        native_fee_or_rebate |-> 0,
        order_id |-> view.order_id, owner |-> view.owner,
        client_order_id |-> OrZero(view.client_order_id)]

\* Event::as_view; what is not a Fill is an Out, whether it says so or not.
EventViews(e) ==
  IF "Fill" \in e.event_flags
  THEN {[kind |-> "Fill", side |-> flags_to_side(e.event_flags),
         maker |-> "Maker" \in e.event_flags, native_qty_paid |-> e.native_qty_paid,
         native_qty_received |-> e.native_qty_released,
         native_fee_or_rebate |-> e.native_fee_or_rebate, order_id |-> e.order_id,
         owner |-> e.owner, owner_slot |-> e.owner_slot, fee_tier |-> fee_tier,
         client_order_id |-> Nonzero(e.client_order_id)] :
           fee_tier \in {t \in Decode(FeeTierCode, e.fee_tier) :
             e.event_flags \subseteq {"Fill", "Bid", "Maker"}}}
  ELSE {[kind |-> "Out", side |-> flags_to_side(flags),
         native_qty_unlocked |-> e.native_qty_released,
         native_qty_still_locked |-> e.native_qty_paid, order_id |-> e.order_id,
         owner |-> e.owner, owner_slot |-> e.owner_slot,
         client_order_id |-> Nonzero(e.client_order_id)] :
           flags \in {f \in {e.event_flags} : f \subseteq {"Out", "Bid", "Maker"}}}

-----------------------------------------------------------------------------
(* Instructions                                                            *)

Instruction ==
  [kind : {"InitializeMarket"}, coin_lot_size : U64, pc_lot_size : U64,
   fee_rate_bps : U16, vault_signer_nonce : U64, pc_dust_threshold : U64]
  \union [kind : {"NewOrder"}, side : Side, limit_price : NonZero, max_qty : NonZero,
          order_type : OrderType, client_id : U64]
  \union [kind : {"MatchOrders", "ConsumeEvents"}, limit : U16]
  \union [kind : {"CancelOrder"}, side : Side, order_id : U128, owner : Pubkey,
          owner_slot : U8]
  \union [kind : {"SettleFunds", "DisableMarket", "SweepFees"}]
  \union [kind : {"CancelOrderByClientId"}, client_id : U64]
  \union [kind : {"NewOrderV2"}, side : Side, limit_price : NonZero, max_qty : NonZero,
          order_type : OrderType, client_id : U64,
          self_trade_behavior : SelfTradeBehavior]

\* The place of each kind in the enum.
Discriminant ==
  [InitializeMarket |-> 0, NewOrder |-> 1, MatchOrders |-> 2, ConsumeEvents |-> 3,
   CancelOrder |-> 4, SettleFunds |-> 5, CancelOrderByClientId |-> 6,
   DisableMarket |-> 7, SweepFees |-> 8, NewOrderV2 |-> 9]

Fields(i) ==
  CASE i.kind = "InitializeMarket" ->
         <<i.coin_lot_size, i.pc_lot_size, i.fee_rate_bps, i.vault_signer_nonce,
           i.pc_dust_threshold>>
    [] i.kind = "NewOrder" ->
         <<SideCode[i.side], i.limit_price, i.max_qty, OrderTypeCode[i.order_type],
           i.client_id>>
    [] i.kind = "MatchOrders" -> <<i.limit>>
    [] i.kind = "ConsumeEvents" -> <<i.limit>>
    [] i.kind = "CancelOrder" -> <<SideCode[i.side], i.order_id, i.owner, i.owner_slot>>
    [] i.kind = "SettleFunds" -> <<>>
    [] i.kind = "CancelOrderByClientId" -> <<i.client_id>>
    [] i.kind = "DisableMarket" -> <<>>
    [] i.kind = "SweepFees" -> <<>>
    [] i.kind = "NewOrderV2" ->
         <<SideCode[i.side], i.limit_price, i.max_qty, OrderTypeCode[i.order_type],
           i.client_id, SelfTradeBehaviorCode[i.self_trade_behavior]>>

pack(i) == [version |-> 0, discrim |-> Discriminant[i.kind], data |-> Fields(i)]

\* The fields that data of the one length accepted for each number is cut into.
Layout(discrim) ==
  CASE discrim = 0 -> U64 \X U64 \X U16 \X U64 \X U64
    [] discrim = 1 -> U32 \X U64 \X U64 \X U32 \X U64
    [] discrim = 2 -> {<<limit>> : limit \in U16}
    [] discrim = 3 -> {<<limit>> : limit \in U16}
    [] discrim = 4 -> U32 \X U128 \X Pubkey \X U8
    [] discrim = 5 -> {<<>>}
    [] discrim = 6 -> {<<client_id>> : client_id \in U64}
    [] discrim = 7 -> {<<>>}
    [] discrim = 8 -> {<<>>}
    [] discrim = 9 -> U32 \X U64 \X U64 \X U32 \X U64 \X U32
    [] OTHER -> {}

\* MarketInstruction::unpack; nothing where it returns None.
unpack(b) ==
  LET d == b.data
      Read == CASE
        b.discrim = 0 ->
          {[kind |-> "InitializeMarket", coin_lot_size |-> d[1], pc_lot_size |-> d[2],
            fee_rate_bps |-> d[3], vault_signer_nonce |-> d[4],
            pc_dust_threshold |-> d[5]]}
        [] b.discrim = 1 ->
          {[kind |-> "NewOrder", side |-> side, limit_price |-> limit_price,
            max_qty |-> max_qty, order_type |-> order_type, client_id |-> d[5]] :
              side \in Decode(SideCode, d[1]), limit_price \in Nonzero(d[2]),
              max_qty \in Nonzero(d[3]), order_type \in Decode(OrderTypeCode, d[4])}
        [] b.discrim = 2 -> {[kind |-> "MatchOrders", limit |-> d[1]]}
        [] b.discrim = 3 -> {[kind |-> "ConsumeEvents", limit |-> d[1]]}
        [] b.discrim = 4 ->
          {[kind |-> "CancelOrder", side |-> side, order_id |-> d[2], owner |-> d[3],
            owner_slot |-> d[4]] : side \in Decode(SideCode, d[1])}
        [] b.discrim = 5 -> {[kind |-> "SettleFunds"]}
        [] b.discrim = 6 -> {[kind |-> "CancelOrderByClientId", client_id |-> d[1]]}
        [] b.discrim = 7 -> {[kind |-> "DisableMarket"]}
        [] b.discrim = 8 -> {[kind |-> "SweepFees"]}
        [] b.discrim = 9 ->
          {[kind |-> "NewOrderV2", side |-> side, limit_price |-> limit_price,
            max_qty |-> max_qty, order_type |-> order_type, client_id |-> d[5],
            self_trade_behavior |-> self_trade_behavior] :
              side \in Decode(SideCode, d[1]), limit_price \in Nonzero(d[2]),
              max_qty \in Nonzero(d[3]), order_type \in Decode(OrderTypeCode, d[4]),
              self_trade_behavior \in Decode(SelfTradeBehaviorCode, d[6])}
        [] OTHER -> {}
  IN  IF b.version = 0 /\ d \in Layout(b.discrim) THEN Read ELSE {}

\* NewOrder stands for NewOrderV2 with the older behaviour (State::process).
add_self_trade_behavior(i, behavior) ==
  [kind |-> "NewOrderV2", side |-> i.side, limit_price |-> i.limit_price,
   max_qty |-> i.max_qty, order_type |-> i.order_type, client_id |-> i.client_id,
   self_trade_behavior |-> behavior]
=============================================================================
