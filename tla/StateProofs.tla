------------------------------ MODULE StateProofs ------------------------------
(***************************************************************************)
(* The bytes of the accounts of the exchange (dex/src/state.rs), for every *)
(* size of an account and of its items, and the crank that reads them.     *)
(*                                                                         *)
(* What is written down can be read back: no kind of request, event or     *)
(* instruction is taken for another one, and no field is lost to a value   *)
(* that stands for nothing (module Encoding).                              *)
(*                                                                         *)
(* The header of a queue stays within its account, the ring buffer         *)
(* implements a bounded sequence, and the crank reads that sequence        *)
(* (module AccountQueue).  From the sequence the crank makes the list of   *)
(* accounts with which its workers consume the events (module Crank).      *)
(***************************************************************************)
EXTENDS Encoding, AccountQueue, Crank, Lemmas, SequenceTheorems

-----------------------------------------------------------------------------
(* Requests, events and instructions                                       *)

\* An Option survives being written as a number, of which 0 is None.
LEMMA OptionSurvives ==
  ASSUME NEW option \in Option(NonZero)
  PROVE  Nonzero(OrZero(option)) = option
  BY DEF Option, NonZero, Nonzero, OrZero

\* NonZeroU64::new takes every number but 0.
LEMMA NonzeroSurvives ==
  ASSUME NEW x \in NonZero
  PROVE  Nonzero(x) = {x}
  BY DEF NonZero, Nonzero

\* The variants of each enum have numbers of their own.
LEMMA SideSurvives ==
  ASSUME NEW x \in Side
  PROVE  Decode(SideCode, SideCode[x]) = {x}
  BY DEF Side, Decode, SideCode

LEMMA OrderTypeSurvives ==
  ASSUME NEW x \in OrderType
  PROVE  Decode(OrderTypeCode, OrderTypeCode[x]) = {x}
  BY DEF OrderType, Decode, OrderTypeCode

LEMMA SelfTradeBehaviorSurvives ==
  ASSUME NEW x \in SelfTradeBehavior
  PROVE  Decode(SelfTradeBehaviorCode, SelfTradeBehaviorCode[x]) = {x}
  BY DEF SelfTradeBehavior, Decode, SelfTradeBehaviorCode

LEMMA FeeTierSurvives ==
  ASSUME NEW x \in FeeTier
  PROVE  Decode(FeeTierCode, FeeTierCode[x]) = {x}
  BY DEF FeeTier, Decode, FeeTierCode

\* Every request that is queued is read as what was queued (Request::new,
\* Request::as_view): a cancel is never read as an order, and the field that
\* holds the quantity of the one and the cancel id of the other is not mixed up.
THEOREM RequestSurvives ==
  ASSUME NEW view \in RequestView
  PROVE  RequestViews(NewRequest(view)) = {view}
<1>1. CASE view \in NewOrderView
  <2> DEFINE r == NewRequest(view)
             flags == {"NewOrder"} \union SideFlag(view.side) \union OrderTypeFlag(view.order_type)
  <2>1. view.kind = "NewOrder" /\ view.side \in Side /\ view.order_type \in OrderType
    BY <1>1 DEF NewOrderView
  <2>2. r = [request_flags |-> flags,
             owner_slot |-> view.owner_slot, fee_tier |-> FeeTierCode[view.fee_tier],
             self_trade_behavior |-> SelfTradeBehaviorCode[view.self_trade_behavior],
             max_coin_qty_or_cancel_id |-> view.max_coin_qty,
             native_pc_qty_locked |-> OrZero(view.native_pc_qty_locked),
             order_id |-> view.order_id, owner |-> view.owner,
             client_order_id |-> OrZero(view.client_order_id)]
    BY <2>1 DEF NewRequest
  <2>3. /\ flags \subseteq {"NewOrder", "Bid", "PostOnly", "ImmediateOrCancel"}
        /\ "NewOrder" \in flags
        /\ flags_to_side(flags) = view.side
        /\ OrderTypesOf(flags) = {view.order_type}
    BY <2>1 DEF Side, OrderType, SideFlag, OrderTypeFlag, flags_to_side, OrderTypesOf
  <2>4. /\ Decode(FeeTierCode, FeeTierCode[view.fee_tier]) = {view.fee_tier}
        /\ Decode(SelfTradeBehaviorCode, SelfTradeBehaviorCode[view.self_trade_behavior])
             = {view.self_trade_behavior}
        /\ Nonzero(view.max_coin_qty) = {view.max_coin_qty}
        /\ Nonzero(OrZero(view.native_pc_qty_locked)) = view.native_pc_qty_locked
        /\ Nonzero(OrZero(view.client_order_id)) = view.client_order_id
    BY <1>1, FeeTierSurvives, SelfTradeBehaviorSurvives, NonzeroSurvives, OptionSurvives
       DEF NewOrderView
  <2>5. view = [kind |-> "NewOrder", side |-> view.side, order_type |-> view.order_type,
                owner_slot |-> view.owner_slot, fee_tier |-> view.fee_tier,
                order_id |-> view.order_id, max_coin_qty |-> view.max_coin_qty,
                native_pc_qty_locked |-> view.native_pc_qty_locked, owner |-> view.owner,
                client_order_id |-> view.client_order_id,
                self_trade_behavior |-> view.self_trade_behavior]
    BY <1>1 DEF NewOrderView
  <2> QED
    BY <2>2, <2>3, <2>4, <2>5 DEF RequestViews
<1>2. CASE view \in CancelOrderView
  <2> DEFINE r == NewRequest(view)
             flags == {"CancelOrder"} \union SideFlag(view.side)
  <2>1. view.kind = "CancelOrder" /\ view.side \in Side
    BY <1>2 DEF CancelOrderView
  <2>2. r = [request_flags |-> flags, owner_slot |-> view.expected_owner_slot,
             fee_tier |-> 0, self_trade_behavior |-> 0,
             max_coin_qty_or_cancel_id |-> view.cancel_id, native_pc_qty_locked |-> 0,
             order_id |-> view.order_id, owner |-> view.expected_owner,
             client_order_id |-> OrZero(view.client_order_id)]
    BY <2>1 DEF NewRequest
  <2>3. /\ "NewOrder" \notin flags /\ "CancelOrder" \in flags
        /\ flags \subseteq {"CancelOrder", "Bid"}
        /\ flags_to_side(flags) = view.side
    BY <2>1 DEF Side, SideFlag, flags_to_side
  <2>4. Nonzero(OrZero(view.client_order_id)) = view.client_order_id
    BY <1>2, OptionSurvives DEF CancelOrderView
  <2>5. view = [kind |-> "CancelOrder", side |-> view.side, order_id |-> view.order_id,
                cancel_id |-> view.cancel_id,
                expected_owner_slot |-> view.expected_owner_slot,
                expected_owner |-> view.expected_owner,
                client_order_id |-> view.client_order_id]
    BY <1>2 DEF CancelOrderView
  <2> QED
    BY <2>2, <2>3, <2>4, <2>5 DEF RequestViews
<1> QED
  BY <1>1, <1>2 DEF RequestView

\* Every event is read as what happened (Event::new, Event::as_view).
THEOREM EventSurvives ==
  ASSUME NEW view \in EventView
  PROVE  EventViews(NewEvent(view)) = {view}
<1>1. CASE view \in FillView
  <2> DEFINE e == NewEvent(view)
             flags == SideFlag(view.side) \union {"Fill"}
                        \union (IF view.maker THEN {"Maker"} ELSE {})
  <2>1. view.kind = "Fill" /\ view.side \in Side /\ view.maker \in BOOLEAN
    BY <1>1 DEF FillView
  <2>2. e = [event_flags |-> flags,
             owner_slot |-> view.owner_slot, fee_tier |-> FeeTierCode[view.fee_tier],
             native_qty_released |-> view.native_qty_received,
             native_qty_paid |-> view.native_qty_paid,
             native_fee_or_rebate |-> view.native_fee_or_rebate,
             order_id |-> view.order_id, owner |-> view.owner,
             client_order_id |-> OrZero(view.client_order_id)]
    BY <2>1 DEF NewEvent
  <2>3. /\ "Fill" \in flags /\ flags \subseteq {"Fill", "Bid", "Maker"}
        /\ flags_to_side(flags) = view.side
    BY <2>1 DEF Side, SideFlag, flags_to_side
  <2>4. ("Maker" \in flags) = view.maker
    BY <2>1 DEF SideFlag, Side
  <2>5. /\ Decode(FeeTierCode, FeeTierCode[view.fee_tier]) = {view.fee_tier}
        /\ Nonzero(OrZero(view.client_order_id)) = view.client_order_id
    BY <1>1, FeeTierSurvives, OptionSurvives DEF FillView
  <2>6. view = [kind |-> "Fill", side |-> view.side, maker |-> view.maker,
                native_qty_paid |-> view.native_qty_paid,
                native_qty_received |-> view.native_qty_received,
                native_fee_or_rebate |-> view.native_fee_or_rebate,
                order_id |-> view.order_id, owner |-> view.owner,
                owner_slot |-> view.owner_slot, fee_tier |-> view.fee_tier,
                client_order_id |-> view.client_order_id]
    BY <1>1 DEF FillView
  <2> QED
    BY <2>2, <2>3, <2>4, <2>5, <2>6 DEF EventViews
<1>2. CASE view \in OutView
  <2> DEFINE e == NewEvent(view)
             flags == SideFlag(view.side) \union {"Out"}
  <2>1. view.kind = "Out" /\ view.side \in Side
    BY <1>2 DEF OutView
  <2>2. e = [event_flags |-> flags, owner_slot |-> view.owner_slot, fee_tier |-> 0,
             native_qty_released |-> view.native_qty_unlocked,
             native_qty_paid |-> view.native_qty_still_locked,
             native_fee_or_rebate |-> 0,
             order_id |-> view.order_id, owner |-> view.owner,
             client_order_id |-> OrZero(view.client_order_id)]
    BY <2>1 DEF NewEvent
  <2>3. /\ "Fill" \notin flags /\ flags \subseteq {"Out", "Bid", "Maker"}
        /\ flags_to_side(flags) = view.side
    BY <2>1 DEF Side, SideFlag, flags_to_side
  <2>4. Nonzero(OrZero(view.client_order_id)) = view.client_order_id
    BY <1>2, OptionSurvives DEF OutView
  <2>5. view = [kind |-> "Out", side |-> view.side,
                native_qty_unlocked |-> view.native_qty_unlocked,
                native_qty_still_locked |-> view.native_qty_still_locked,
                order_id |-> view.order_id, owner |-> view.owner,
                owner_slot |-> view.owner_slot, client_order_id |-> view.client_order_id]
    BY <1>2 DEF OutView
  <2> QED
    BY <2>2, <2>3, <2>4, <2>5 DEF EventViews
<1> QED
  BY <1>1, <1>2 DEF EventView

-----------------------------------------------------------------------------
(* Instructions                                                            *)

\* The codes of the enums fit into the four bytes they are packed into.
LEMMA CodesFit ==
  /\ \A x \in Side : SideCode[x] \in U32
  /\ \A x \in OrderType : OrderTypeCode[x] \in U32
  /\ \A x \in SelfTradeBehavior : SelfTradeBehaviorCode[x] \in U32
<1>1. 0 \in U32 /\ 1 \in U32 /\ 2 \in U32
  BY SMT DEF U32, Below
<1> QED
  BY <1>1 DEF Side, SideCode, OrderType, OrderTypeCode, SelfTradeBehavior,
              SelfTradeBehaviorCode

\* Orders of both versions.
LEMMA NewOrderSurvives ==
  ASSUME NEW i \in Instruction, i.kind = "NewOrder"
  PROVE  unpack(pack(i)) = {i}
<1>1. /\ i.side \in Side /\ i.limit_price \in NonZero /\ i.max_qty \in NonZero
      /\ i.order_type \in OrderType /\ i.client_id \in U64
      /\ i = [kind |-> "NewOrder", side |-> i.side, limit_price |-> i.limit_price,
              max_qty |-> i.max_qty, order_type |-> i.order_type,
              client_id |-> i.client_id]
  BY DEF Instruction
<1> DEFINE d == <<SideCode[i.side], i.limit_price, i.max_qty, OrderTypeCode[i.order_type],
                  i.client_id>>
<1>2. pack(i) = [version |-> 0, discrim |-> 1, data |-> d]
  BY DEF pack, Fields, Discriminant
<1>3. d \in Layout(1)
  BY <1>1, CodesFit DEF Layout, NonZero
<1>4. /\ Decode(SideCode, d[1]) = {i.side} /\ Decode(OrderTypeCode, d[4]) = {i.order_type}
      /\ Nonzero(d[2]) = {i.limit_price} /\ Nonzero(d[3]) = {i.max_qty}
      /\ d[5] = i.client_id
  BY <1>1, SideSurvives, OrderTypeSurvives, NonzeroSurvives
<1> HIDE DEF d
<1> QED
  BY <1>1, <1>2, <1>3, <1>4 DEF unpack

LEMMA NewOrderV2Survives ==
  ASSUME NEW i \in Instruction, i.kind = "NewOrderV2"
  PROVE  unpack(pack(i)) = {i}
<1>1. /\ i.side \in Side /\ i.limit_price \in NonZero /\ i.max_qty \in NonZero
      /\ i.order_type \in OrderType /\ i.client_id \in U64
      /\ i.self_trade_behavior \in SelfTradeBehavior
      /\ i = [kind |-> "NewOrderV2", side |-> i.side, limit_price |-> i.limit_price,
              max_qty |-> i.max_qty, order_type |-> i.order_type,
              client_id |-> i.client_id, self_trade_behavior |-> i.self_trade_behavior]
  BY DEF Instruction
<1> DEFINE d == <<SideCode[i.side], i.limit_price, i.max_qty, OrderTypeCode[i.order_type],
                  i.client_id, SelfTradeBehaviorCode[i.self_trade_behavior]>>
<1>2. pack(i) = [version |-> 0, discrim |-> 9, data |-> d]
  BY DEF pack, Fields, Discriminant
<1>3. d \in Layout(9)
  BY <1>1, CodesFit DEF Layout, NonZero
<1>4. /\ Decode(SideCode, d[1]) = {i.side} /\ Decode(OrderTypeCode, d[4]) = {i.order_type}
      /\ Nonzero(d[2]) = {i.limit_price} /\ Nonzero(d[3]) = {i.max_qty}
      /\ d[5] = i.client_id
      /\ Decode(SelfTradeBehaviorCode, d[6]) = {i.self_trade_behavior}
  BY <1>1, SideSurvives, OrderTypeSurvives, NonzeroSurvives, SelfTradeBehaviorSurvives
<1> HIDE DEF d
<1> QED
  BY <1>1, <1>2, <1>3, <1>4 DEF unpack

LEMMA CancelOrderSurvives ==
  ASSUME NEW i \in Instruction, i.kind = "CancelOrder"
  PROVE  unpack(pack(i)) = {i}
<1>1. /\ i.side \in Side /\ i.order_id \in U128 /\ i.owner \in Pubkey /\ i.owner_slot \in U8
      /\ i = [kind |-> "CancelOrder", side |-> i.side, order_id |-> i.order_id,
              owner |-> i.owner, owner_slot |-> i.owner_slot]
  BY DEF Instruction
<1> DEFINE d == <<SideCode[i.side], i.order_id, i.owner, i.owner_slot>>
<1>2. pack(i) = [version |-> 0, discrim |-> 4, data |-> d]
  BY DEF pack, Fields, Discriminant
<1>3. d \in Layout(4)
  BY <1>1, CodesFit DEF Layout
<1>4. /\ Decode(SideCode, d[1]) = {i.side}
      /\ d[2] = i.order_id /\ d[3] = i.owner /\ d[4] = i.owner_slot
  BY <1>1, SideSurvives
<1> HIDE DEF d
<1> QED
  BY <1>1, <1>2, <1>3, <1>4 DEF unpack

LEMMA InitializeMarketSurvives ==
  ASSUME NEW i \in Instruction, i.kind = "InitializeMarket"
  PROVE  unpack(pack(i)) = {i}
<1>1. /\ i.coin_lot_size \in U64 /\ i.pc_lot_size \in U64 /\ i.fee_rate_bps \in U16
      /\ i.vault_signer_nonce \in U64 /\ i.pc_dust_threshold \in U64
      /\ i = [kind |-> "InitializeMarket", coin_lot_size |-> i.coin_lot_size,
              pc_lot_size |-> i.pc_lot_size, fee_rate_bps |-> i.fee_rate_bps,
              vault_signer_nonce |-> i.vault_signer_nonce,
              pc_dust_threshold |-> i.pc_dust_threshold]
  BY DEF Instruction
<1> DEFINE d == <<i.coin_lot_size, i.pc_lot_size, i.fee_rate_bps, i.vault_signer_nonce,
                  i.pc_dust_threshold>>
<1>2. pack(i) = [version |-> 0, discrim |-> 0, data |-> d]
  BY DEF pack, Fields, Discriminant
<1>3. d \in Layout(0)
  BY <1>1 DEF Layout
<1>4. /\ d[1] = i.coin_lot_size /\ d[2] = i.pc_lot_size /\ d[3] = i.fee_rate_bps
      /\ d[4] = i.vault_signer_nonce /\ d[5] = i.pc_dust_threshold
  OBVIOUS
<1> HIDE DEF d
<1> QED
  BY <1>1, <1>2, <1>3, <1>4 DEF unpack

LEMMA NumberSurvives ==
  ASSUME NEW i \in Instruction,
         i.kind \in {"MatchOrders", "ConsumeEvents", "CancelOrderByClientId"}
  PROVE  unpack(pack(i)) = {i}
<1>1. CASE i.kind = "MatchOrders"
  <2>1. i = [kind |-> "MatchOrders", limit |-> i.limit] /\ i.limit \in U16
    BY <1>1 DEF Instruction
  <2>2. pack(i) = [version |-> 0, discrim |-> 2, data |-> <<i.limit>>]
    BY <1>1 DEF pack, Fields, Discriminant
  <2> QED
    BY <2>1, <2>2 DEF unpack, Layout
<1>2. CASE i.kind = "ConsumeEvents"
  <2>1. i = [kind |-> "ConsumeEvents", limit |-> i.limit] /\ i.limit \in U16
    BY <1>2 DEF Instruction
  <2>2. pack(i) = [version |-> 0, discrim |-> 3, data |-> <<i.limit>>]
    BY <1>2 DEF pack, Fields, Discriminant
  <2> QED
    BY <2>1, <2>2 DEF unpack, Layout
<1>3. CASE i.kind = "CancelOrderByClientId"
  <2>1. i = [kind |-> "CancelOrderByClientId", client_id |-> i.client_id] /\ i.client_id \in U64
    BY <1>3 DEF Instruction
  <2>2. pack(i) = [version |-> 0, discrim |-> 6, data |-> <<i.client_id>>]
    BY <1>3 DEF pack, Fields, Discriminant
  <2> QED
    BY <2>1, <2>2 DEF unpack, Layout
<1> QED
  BY <1>1, <1>2, <1>3

LEMMA NameSurvives ==
  ASSUME NEW i \in Instruction, i.kind \in {"SettleFunds", "DisableMarket", "SweepFees"}
  PROVE  unpack(pack(i)) = {i}
<1>1. i = [kind |-> i.kind]
  BY DEF Instruction
<1>2. pack(i) = [version |-> 0, discrim |-> Discriminant[i.kind], data |-> <<>>]
  BY DEF pack, Fields
<1>3. CASE i.kind = "SettleFunds"
  BY <1>1, <1>2, <1>3 DEF unpack, Layout, Discriminant
<1>4. CASE i.kind = "DisableMarket"
  BY <1>1, <1>2, <1>4 DEF unpack, Layout, Discriminant
<1>5. CASE i.kind = "SweepFees"
  BY <1>1, <1>2, <1>5 DEF unpack, Layout, Discriminant
<1> QED
  BY <1>3, <1>4, <1>5

\* What a client packs is what the program unpacks, for every instruction and
\* all its arguments: test_pack_unpack_roundtrip of dex/src/instruction.rs.
THEOREM InstructionSurvives ==
  ASSUME NEW i \in Instruction
  PROVE  unpack(pack(i)) = {i}
<1>1. i.kind \in {"InitializeMarket", "NewOrder", "MatchOrders", "ConsumeEvents",
                  "CancelOrder", "SettleFunds", "CancelOrderByClientId", "DisableMarket",
                  "SweepFees", "NewOrderV2"}
  BY DEF Instruction
<1> QED
  BY <1>1, NewOrderSurvives, NewOrderV2Survives, CancelOrderSurvives,
     InitializeMarketSurvives, NumberSurvives, NameSurvives

\* Nothing else is an instruction: what the program unpacks packs to the very
\* bytes it was given (MarketInstruction::unpack), so that no two of them say
\* the same and none is read that a client could not have meant.
THEOREM OnlyPacked ==
  ASSUME NEW b, b = [version |-> b.version, discrim |-> b.discrim, data |-> b.data],
         NEW i \in unpack(b)
  PROVE  i \in Instruction /\ pack(i) = b
<1> DEFINE d == b.data
<1>1. b.version = 0 /\ d \in Layout(b.discrim) /\ b.discrim \in 0 .. 9
  BY DEF unpack, Layout
<1>2. CASE b.discrim = 0
  <2>1. /\ d = <<d[1], d[2], d[3], d[4], d[5]>>
        /\ d[1] \in U64 /\ d[2] \in U64 /\ d[3] \in U16 /\ d[4] \in U64 /\ d[5] \in U64
    BY <1>1, <1>2 DEF Layout
  <2>2. i = [kind |-> "InitializeMarket", coin_lot_size |-> d[1], pc_lot_size |-> d[2],
             fee_rate_bps |-> d[3], vault_signer_nonce |-> d[4], pc_dust_threshold |-> d[5]]
    BY <1>1, <1>2 DEF unpack
  <2>3. i \in Instruction
    BY <2>1, <2>2 DEF Instruction
  <2>4. pack(i) = [version |-> 0, discrim |-> 0, data |-> <<d[1], d[2], d[3], d[4], d[5]>>]
    BY <2>2 DEF pack, Fields, Discriminant
  <2> QED
    BY <1>1, <1>2, <2>1, <2>3, <2>4
<1>3. CASE b.discrim = 1
  <2>1. /\ d = <<d[1], d[2], d[3], d[4], d[5]>>
        /\ d[2] \in U64 /\ d[3] \in U64 /\ d[5] \in U64
    BY <1>1, <1>3 DEF Layout
  <2>2. PICK side \in Decode(SideCode, d[1]), limit_price \in Nonzero(d[2]),
             max_qty \in Nonzero(d[3]), order_type \in Decode(OrderTypeCode, d[4]) :
          i = [kind |-> "NewOrder", side |-> side, limit_price |-> limit_price,
               max_qty |-> max_qty, order_type |-> order_type, client_id |-> d[5]]
    BY <1>1, <1>3 DEF unpack
  <2>3. /\ side \in Side /\ SideCode[side] = d[1]
        /\ order_type \in OrderType /\ OrderTypeCode[order_type] = d[4]
        /\ limit_price = d[2] /\ limit_price \in NonZero
        /\ max_qty = d[3] /\ max_qty \in NonZero
    BY <2>1, <2>2 DEF Decode, SideCode, Side, OrderTypeCode, OrderType, Nonzero, NonZero
  <2>4. i \in Instruction
    BY <2>1, <2>2, <2>3 DEF Instruction
  <2>5. pack(i) = [version |-> 0, discrim |-> 1, data |-> <<d[1], d[2], d[3], d[4], d[5]>>]
    BY <2>2, <2>3 DEF pack, Fields, Discriminant
  <2> QED
    BY <1>1, <1>3, <2>1, <2>4, <2>5
<1>4. CASE b.discrim = 9
  <2>1. /\ d = <<d[1], d[2], d[3], d[4], d[5], d[6]>>
        /\ d[2] \in U64 /\ d[3] \in U64 /\ d[5] \in U64
    BY <1>1, <1>4 DEF Layout
  <2>2. PICK side \in Decode(SideCode, d[1]), limit_price \in Nonzero(d[2]),
             max_qty \in Nonzero(d[3]), order_type \in Decode(OrderTypeCode, d[4]),
             behavior \in Decode(SelfTradeBehaviorCode, d[6]) :
          i = [kind |-> "NewOrderV2", side |-> side, limit_price |-> limit_price,
               max_qty |-> max_qty, order_type |-> order_type, client_id |-> d[5],
               self_trade_behavior |-> behavior]
    BY <1>1, <1>4 DEF unpack
  <2>3. /\ side \in Side /\ SideCode[side] = d[1]
        /\ order_type \in OrderType /\ OrderTypeCode[order_type] = d[4]
        /\ limit_price = d[2] /\ limit_price \in NonZero
        /\ max_qty = d[3] /\ max_qty \in NonZero
        /\ behavior \in SelfTradeBehavior /\ SelfTradeBehaviorCode[behavior] = d[6]
    BY <2>1, <2>2 DEF Decode, SideCode, Side, OrderTypeCode, OrderType, Nonzero, NonZero,
                      SelfTradeBehavior, SelfTradeBehaviorCode
  <2>4. i \in Instruction
    BY <2>1, <2>2, <2>3 DEF Instruction
  <2>5. pack(i) = [version |-> 0, discrim |-> 9,
                   data |-> <<d[1], d[2], d[3], d[4], d[5], d[6]>>]
    BY <2>2, <2>3 DEF pack, Fields, Discriminant
  <2> QED
    BY <1>1, <1>4, <2>1, <2>4, <2>5
<1>5. CASE b.discrim = 4
  <2>1. /\ d = <<d[1], d[2], d[3], d[4]>>
        /\ d[2] \in U128 /\ d[3] \in Pubkey /\ d[4] \in U8
    BY <1>1, <1>5 DEF Layout
  <2>2. PICK side \in Decode(SideCode, d[1]) :
          i = [kind |-> "CancelOrder", side |-> side, order_id |-> d[2], owner |-> d[3],
               owner_slot |-> d[4]]
    BY <1>1, <1>5 DEF unpack
  <2>3. side \in Side /\ SideCode[side] = d[1]
    BY <2>2 DEF Decode, SideCode, Side
  <2>4. i \in Instruction
    BY <2>1, <2>2, <2>3 DEF Instruction
  <2>5. pack(i) = [version |-> 0, discrim |-> 4, data |-> <<d[1], d[2], d[3], d[4]>>]
    BY <2>2, <2>3 DEF pack, Fields, Discriminant
  <2> QED
    BY <1>1, <1>5, <2>1, <2>4, <2>5
<1>6. CASE b.discrim \in {2, 3}
  <2>1. d = <<d[1]>> /\ d[1] \in U16
    BY <1>1, <1>6 DEF Layout
  <2>2. i = [kind |-> IF b.discrim = 2 THEN "MatchOrders" ELSE "ConsumeEvents",
             limit |-> d[1]]
    BY <1>1, <1>6 DEF unpack
  <2>3. i \in Instruction
    BY <1>6, <2>1, <2>2 DEF Instruction
  <2>4. pack(i) = [version |-> 0, discrim |-> b.discrim, data |-> <<d[1]>>]
    BY <1>6, <2>2 DEF pack, Fields, Discriminant
  <2> QED
    BY <1>1, <2>1, <2>3, <2>4
<1>7. CASE b.discrim = 6
  <2>1. d = <<d[1]>> /\ d[1] \in U64
    BY <1>1, <1>7 DEF Layout
  <2>2. i = [kind |-> "CancelOrderByClientId", client_id |-> d[1]]
    BY <1>1, <1>7 DEF unpack
  <2>3. i \in Instruction
    BY <2>1, <2>2 DEF Instruction
  <2>4. pack(i) = [version |-> 0, discrim |-> 6, data |-> <<d[1]>>]
    BY <2>2 DEF pack, Fields, Discriminant
  <2> QED
    BY <1>1, <1>7, <2>1, <2>3, <2>4
<1>8. CASE b.discrim \in {5, 7, 8}
  <2>1. d = <<>>
    BY <1>1, <1>8 DEF Layout
  <2>2. i = [kind |-> CASE b.discrim = 5 -> "SettleFunds" [] b.discrim = 7 -> "DisableMarket"
                        [] b.discrim = 8 -> "SweepFees"]
    BY <1>1, <1>8 DEF unpack
  <2>3. i \in Instruction
    BY <1>8, <2>2 DEF Instruction
  <2>4. pack(i) = [version |-> 0, discrim |-> b.discrim, data |-> <<>>]
    BY <1>8, <2>2 DEF pack, Fields, Discriminant
  <2> QED
    BY <1>1, <2>1, <2>3, <2>4
<1> QED
  BY <1>1, <1>2, <1>3, <1>4, <1>5, <1>6, <1>7, <1>8

-----------------------------------------------------------------------------
(* Positions                                                               *)

\* An account that has room for an item has a last one.
LEMMA CapPositive == Cap \in Nat \ {0}
<1>1. Cap \in Int /\ BufWords < Cap * ItemWords + ItemWords
  BY QueueAssumption DEF Cap
<1>2. ASSUME Cap <= 0 PROVE FALSE
  <2>1. Cap * ItemWords <= 0
    BY <1>1, <1>2, QueueAssumption
  <2> QED BY <1>1, <2>1, QueueAssumption
<1> QED BY <1>1, <1>2

\* The remainder of a number that goes around at most once.
LEMMA Wrap ==
  \A n \in Nat \ {0}, a \in Nat :
    a < n + n => a % n = IF a < n THEN a ELSE a - n
  OBVIOUS

\* Where the k-th item is.
LEMMA PositionWraps ==
  ASSUME TypeOK, NEW k \in 0 .. Cap
  PROVE  /\ Position(k) \in Index
         /\ Position(k) = IF head + k < Cap THEN head + k ELSE (head + k) - Cap
<1>1. head + k \in Nat /\ head + k < Cap + Cap
  BY CapPositive DEF TypeOK, Index
<1>2. (head + k) % Cap = IF head + k < Cap THEN head + k ELSE (head + k) - Cap
  BY <1>1, CapPositive, Wrap, Zenon
<1> QED BY <1>1, <1>2, CapPositive DEF Position, Index

-----------------------------------------------------------------------------
(* The header and the array                                                *)

\* Every operation leaves the header and the array well formed.
LEMMA TypeStep == TypeOK /\ [Next]_vars => TypeOK'
<1> SUFFICES ASSUME TypeOK, [Next]_vars PROVE TypeOK'
  OBVIOUS
<1> USE CapPositive DEF TypeOK
<1>1. ASSUME NEW value \in Items, push_back(value) PROVE TypeOK'
  <2>1. Position(count) \in Index
    BY PositionWraps
  <2> QED BY <1>1, <2>1 DEF push_back, full
<1>2. ASSUME NEW value \in Items, peek_front_mut(value) PROVE TypeOK'
  BY <1>2 DEF peek_front_mut
<1>3. CASE pop_front
  <2>1. Position(1) \in Index
    BY PositionWraps
  <2> QED BY <1>3, <2>1 DEF pop_front, empty
<1>4. ASSUME NEW len \in 0 .. Cap, revert_pushes(len) PROVE TypeOK'
  BY <1>4 DEF revert_pushes
<1>5. CASE UNCHANGED vars
  BY <1>5 DEF vars
<1> QED BY <1>1, <1>2, <1>3, <1>4, <1>5 DEF Next

\* TypeOK is an invariant: whatever sequence of pushes, pops and reverts,
\* head and count describe items that are within the account.
THEOREM QueueTypeCorrect == Spec => []TypeOK
<1>1. Init => TypeOK
  BY CapPositive, QueueAssumption DEF Init, TypeOK, Index
<1> QED BY <1>1, TypeStep, PTL DEF Spec

-----------------------------------------------------------------------------
(* The queue that the program sees                                         *)

ContentsFollow ==
  /\ Contents \in Seq(Items) /\ Len(Contents) = count
  /\ \A i \in 1 .. count : Contents[i] = buf[Position(i - 1)]

\* Contents is a sequence of the items from head on.
LEMMA ContentsSeq == TypeOK => ContentsFollow
<1> SUFFICES ASSUME TypeOK PROVE ContentsFollow
  OBVIOUS
<1>1. \A i \in 1 .. count : i - 1 \in 0 .. Cap
  BY CapPositive DEF TypeOK
<1>2. \A i \in 1 .. count : buf[Position(i - 1)] \in Items
  BY <1>1, PositionWraps DEF TypeOK
<1>3. Contents \in [1 .. count -> Items]
  BY <1>2 DEF Contents
<1>4. count \in Nat
  BY CapPositive DEF TypeOK
<1> QED BY <1>3, <1>4, SeqDef DEF Contents, ContentsFollow

LEMMA ContentsSeqNext == TypeOK' => ContentsFollow'
  BY ContentsSeq, PTL

\* Items of one queue are in different places.
LEMMA PositionsDiffer ==
  ASSUME TypeOK, NEW j \in 0 .. Cap - 1, NEW k \in 0 .. Cap - 1, j # k
  PROVE  Position(j) # Position(k)
<1>1. j \in 0 .. Cap /\ k \in 0 .. Cap
  BY CapPositive
<1>2. /\ Position(j) = IF head + j < Cap THEN head + j ELSE (head + j) - Cap
      /\ Position(k) = IF head + k < Cap THEN head + k ELSE (head + k) - Cap
  BY <1>1, PositionWraps
<1> QED BY <1>2, CapPositive DEF TypeOK, Index

\* A push appends: it writes behind the last item, and nothing that is queued.
LEMMA PushAppends ==
  ASSUME TypeOK, TypeOK', NEW value \in Items, push_back(value)
  PROVE  Bounded!Push(value)
<1> USE CapPositive
<1>1. /\ count < Cap /\ count' = count + 1 /\ seq_num' = seq_num + 1
      /\ head' = head /\ buf' = [buf EXCEPT ![Position(count)] = value]
      /\ count \in 0 .. Cap - 1 /\ seq_num \in Nat
  BY DEF TypeOK, push_back, full
<1>2. \A k : Position(k)' = Position(k)
  BY <1>1 DEF Position
<1>3. /\ Contents \in Seq(Items) /\ Len(Contents) = count
      /\ \A i \in 1 .. count : Contents[i] = buf[Position(i - 1)]
  BY ContentsSeq DEF ContentsFollow
<1>4. /\ Contents' \in Seq(Items) /\ Len(Contents') = count + 1
      /\ \A i \in 1 .. count + 1 : Contents'[i] = buf'[Position(i - 1)]
  BY <1>1, <1>2, ContentsSeqNext DEF ContentsFollow
<1>5. /\ Append(Contents, value) \in Seq(Items)
      /\ Len(Append(Contents, value)) = count + 1
      /\ \A i \in 1 .. count : Append(Contents, value)[i] = Contents[i]
      /\ Append(Contents, value)[count + 1] = value
  BY <1>1, <1>3
<1>6. ASSUME NEW i \in 1 .. count + 1
      PROVE  Contents'[i] = Append(Contents, value)[i]
  <2>1. Position(count) \in Index /\ i - 1 \in 0 .. Cap - 1
    BY <1>1, PositionWraps
  <2>2. CASE i = count + 1
    BY <1>1, <1>4, <1>5, <2>1, <2>2 DEF TypeOK
  <2>3. CASE i # count + 1
    <3>1. i - 1 # count /\ Position(i - 1) # Position(count)
      BY <1>1, <2>1, <2>3, PositionsDiffer
    <3>2. i \in 1 .. count /\ Append(Contents, value)[i] = buf[Position(i - 1)]
      BY <1>1, <1>3, <1>5, <2>3
    <3>3. buf'[Position(i - 1)] = buf[Position(i - 1)]
      BY <1>1, <3>1, <3>2, <2>1, PositionWraps DEF TypeOK
    <3> QED BY <1>4, <3>2, <3>3
  <2> QED BY <2>2, <2>3
<1>7. Contents' = Append(Contents, value)
  <2> HIDE DEF Contents
  <2> QED BY <1>4, <1>5, <1>6, SeqEqual
<1> QED BY <1>1, <1>3, <1>7 DEF Bounded!Push, FrontNumber

\* What is popped is the oldest item, and the others keep their order.
LEMMA PopTakesFront ==
  ASSUME TypeOK, TypeOK', pop_front
  PROVE  Bounded!Pop
<1> USE CapPositive
<1>1. /\ count \in 1 .. Cap /\ count' = count - 1 /\ head' = Position(1)
      /\ buf' = buf /\ seq_num' = seq_num /\ seq_num \in Nat
  BY DEF TypeOK, pop_front, empty
<1>2. /\ Contents \in Seq(Items) /\ Len(Contents) = count
      /\ \A i \in 1 .. count : Contents[i] = buf[Position(i - 1)]
  BY ContentsSeq DEF ContentsFollow
<1>3. /\ Contents' \in Seq(Items) /\ Len(Contents') = count - 1
      /\ \A i \in 1 .. count - 1 : Contents'[i] = buf[Position(i - 1)']
  BY <1>1, ContentsSeqNext DEF ContentsFollow
<1>4. Contents # <<>>
  <2> HIDE DEF Contents
  <2> QED BY <1>1, <1>2, EmptySeq
<1>5. /\ Tail(Contents) \in Seq(Items) /\ Len(Tail(Contents)) = count - 1
      /\ \A i \in 1 .. count - 1 : Tail(Contents)[i] = Contents[i + 1]
  BY <1>1, <1>2, <1>4, HeadTailProperties
<1>6. ASSUME NEW i \in 1 .. count - 1
      PROVE  Position(i - 1)' = Position(i)
  <2>1. i \in 0 .. Cap /\ i - 1 \in 0 .. Cap
    BY <1>1
  <2>2. /\ Position(1) = IF head + 1 < Cap THEN head + 1 ELSE (head + 1) - Cap
        /\ Position(i) = IF head + i < Cap THEN head + i ELSE (head + i) - Cap
    BY <2>1, PositionWraps
  <2>3. Position(i - 1)' = (head' + (i - 1)) % Cap
    BY DEF Position
  <2>4. head' \in Nat /\ head' + (i - 1) \in Nat /\ head' + (i - 1) < Cap + Cap
    BY <1>1, <2>1 DEF TypeOK, Index
  <2>5. Position(i - 1)' = IF head' + (i - 1) < Cap THEN head' + (i - 1)
                           ELSE (head' + (i - 1)) - Cap
    BY <2>3, <2>4, Wrap, Zenon
  <2> QED BY <1>1, <2>1, <2>2, <2>4, <2>5 DEF TypeOK, Index
<1>7. Contents' = Tail(Contents)
  <2>1. ASSUME NEW i \in 1 .. count - 1 PROVE Contents'[i] = Tail(Contents)[i]
    <3>1. i + 1 \in 1 .. count /\ (i + 1) - 1 = i
      BY <1>1
    <3> QED BY <1>2, <1>3, <1>5, <1>6, <3>1
  <2> QED BY <1>3, <1>5, <2>1, SeqEqual
<1> QED BY <1>1, <1>4, <1>7 DEF Bounded!Pop, FrontNumber

\* Writing through the reference to the front replaces that item only.
LEMMA PeekReplaces ==
  ASSUME TypeOK, TypeOK', NEW value \in Items, peek_front_mut(value)
  PROVE  Bounded!Replace(value)
<1> USE CapPositive
<1>1. /\ count \in 1 .. Cap /\ count' = count /\ head' = head
      /\ buf' = [buf EXCEPT ![head] = value]
      /\ seq_num' = seq_num /\ seq_num \in Nat
  BY DEF TypeOK, peek_front_mut, empty
<1>2. /\ Contents \in Seq(Items) /\ Len(Contents) = count
      /\ \A i \in 1 .. count : Contents[i] = buf[Position(i - 1)]
  BY ContentsSeq DEF ContentsFollow
<1>3. /\ Contents' \in Seq(Items) /\ Len(Contents') = count
      /\ \A i \in 1 .. count : Contents'[i] = buf'[Position(i - 1)]
  <2>1. \A k : Position(k)' = Position(k)
    BY <1>1 DEF Position
  <2> QED BY <1>1, <2>1, ContentsSeqNext DEF ContentsFollow
<1>4. Contents # <<>>
  <2> HIDE DEF Contents
  <2> QED BY <1>1, <1>2, EmptySeq
<1> DEFINE R == [Contents EXCEPT ![1] = value]
<1>5. /\ R \in Seq(Items) /\ Len(R) = count
      /\ \A i \in 1 .. count : R[i] = IF i = 1 THEN value ELSE Contents[i]
  <2> HIDE DEF Contents
  <2>1. 1 \in 1 .. Len(Contents)
    BY <1>1, <1>2
  <2> QED BY <1>2, <2>1, ExceptSeq
<1>6. ASSUME NEW i \in 1 .. count PROVE Contents'[i] = R[i]
  <2>1. i - 1 \in 0 .. Cap - 1 /\ 0 \in 0 .. Cap - 1 /\ 0 \in 0 .. Cap
    BY <1>1
  <2>2. Position(0) = head
    BY <2>1, PositionWraps DEF TypeOK, Index
  <2>3. CASE i = 1
    BY <1>1, <1>3, <1>5, <2>2, <2>3 DEF TypeOK
  <2>4. CASE i # 1
    <3>1. i - 1 # 0 /\ Position(i - 1) # Position(0)
      BY <2>1, <2>4, PositionsDiffer
    <3>2. buf'[Position(i - 1)] = buf[Position(i - 1)]
      BY <1>1, <3>1, <2>1, <2>2, PositionWraps DEF TypeOK
    <3> QED BY <1>2, <1>3, <1>5, <2>4, <3>2
  <2> QED BY <2>3, <2>4
<1>7. Contents' = R
  <2> HIDE DEF R
  <2> QED BY <1>3, <1>5, <1>6, SeqEqual
<1> QED BY <1>1, <1>4, <1>7 DEF Bounded!Replace, FrontNumber

\* What is reverted are the newest items.
LEMMA RevertTakesBack ==
  ASSUME TypeOK, TypeOK', NEW len \in 0 .. Cap, revert_pushes(len)
  PROVE  Bounded!Revert(len)
<1> USE CapPositive
<1>1. /\ len <= count /\ count \in 0 .. Cap /\ count' = len /\ head' = head
      /\ buf' = buf /\ seq_num' = seq_num - (count - len) /\ seq_num \in Nat
  BY DEF TypeOK, revert_pushes
<1>2. /\ Contents \in Seq(Items) /\ Len(Contents) = count
      /\ \A i \in 1 .. count : Contents[i] = buf[Position(i - 1)]
  BY ContentsSeq DEF ContentsFollow
<1>3. /\ Contents' \in Seq(Items) /\ Len(Contents') = len
      /\ \A i \in 1 .. len : Contents'[i] = buf[Position(i - 1)]
  <2>1. \A k : Position(k)' = Position(k)
    BY <1>1 DEF Position
  <2> QED BY <1>1, <2>1, ContentsSeqNext DEF ContentsFollow
<1> DEFINE S == SubSeq(Contents, 1, len)
<1>4. /\ S \in Seq(Items) /\ Len(S) = len
      /\ \A i \in 1 .. len : S[i] = Contents[i]
  <2> HIDE DEF Contents
  <2>1. \A i \in 1 .. len : Contents[i] \in Items
    BY <1>1, <1>2, ElementOfSeq
  <2> QED BY <1>1, <1>2, <2>1, SubSeqProperties
<1>5. Contents' = S
  <2>1. \A i \in 1 .. len : Contents'[i] = S[i]
    BY <1>1, <1>2, <1>3, <1>4
  <2> HIDE DEF S
  <2> QED BY <1>3, <1>4, <2>1, SeqEqual
<1> QED BY <1>1, <1>2, <1>5 DEF Bounded!Revert, FrontNumber

\* The ring buffer implements the bounded sequence, whatever the sizes of the
\* account and of its items: this is what allows module Matching to treat the
\* request queue and the event queue as sequences.
THEOREM QueueRefines == Spec => IsBoundedQueue
<1>1. Init => Bounded!Init
  <2> SUFFICES ASSUME Init PROVE Bounded!Init
    OBVIOUS
  <2>1. TypeOK /\ count = 0 /\ seq_num = 0
    BY CapPositive, QueueAssumption DEF Init, TypeOK, Index
  <2>2. Contents \in Seq(Items) /\ Len(Contents) = 0
    BY <2>1, ContentsSeq DEF ContentsFollow
  <2>3. Contents = <<>>
    <3> HIDE DEF Contents
    <3> QED BY <2>2, EmptySeq
  <2> QED BY <2>1, <2>3 DEF Bounded!Init, FrontNumber
<1>2. TypeOK /\ TypeOK' /\ [Next]_vars
        => [Bounded!Next]_<<Contents, FrontNumber>>
  <2> SUFFICES ASSUME TypeOK, TypeOK', [Next]_vars
               PROVE  [Bounded!Next]_<<Contents, FrontNumber>>
    OBVIOUS
  <2>1. ASSUME NEW value \in Items, push_back(value) PROVE Bounded!Next
    BY <2>1, PushAppends DEF Bounded!Next
  <2>2. ASSUME NEW value \in Items, peek_front_mut(value) PROVE Bounded!Next
    BY <2>2, PeekReplaces DEF Bounded!Next
  <2>3. CASE pop_front
    BY <2>3, PopTakesFront DEF Bounded!Next
  <2>4. ASSUME NEW len \in 0 .. Cap, revert_pushes(len) PROVE Bounded!Next
    BY <2>4, RevertTakesBack DEF Bounded!Next
  <2>5. CASE UNCHANGED vars
    BY <2>5 DEF vars, Contents, FrontNumber, Position
  <2> QED BY <2>1, <2>2, <2>3, <2>4, <2>5 DEF Next
<1> QED
  BY <1>1, <1>2, QueueTypeCorrect, PTL DEF Spec, IsBoundedQueue, Bounded!Spec

-----------------------------------------------------------------------------
(* The queue that the crank sees                                           *)

\* When the items of the account are events, the crank's two segments are the
\* queue.
LEMMA SegmentsAreContents ==
  ASSUME TypeOK, ItemWords = EventWords
  PROVE  CrankReadsQueue
<1> USE CapPositive
<1>1. EventsSeen = Cap
  BY DEF EventsSeen, Cap
<1>2. /\ head \in 0 .. Cap - 1 /\ count \in 0 .. Cap
      /\ HeadLen = IF Cap - head <= count THEN Cap - head ELSE count
      /\ HeadLen \in 0 .. count /\ count - HeadLen \in 0 .. Cap
  BY <1>1 DEF TypeOK, Index, HeadLen
<1> DEFINE A == [i \in 1 .. HeadLen |-> buf[(head + i) - 1]]
           B == [i \in 1 .. count - HeadLen |-> buf[i - 1]]
<1>3. A \in Seq(Items) /\ Len(A) = HeadLen
  <2>1. \A i \in 1 .. HeadLen : (head + i) - 1 \in Index
    BY <1>2 DEF Index
  <2>2. A \in [1 .. HeadLen -> Items]
    BY <2>1 DEF TypeOK
  <2>3. HeadLen \in Nat
    BY <1>2
  <2> QED BY <2>2, <2>3, SeqDef
<1>4. B \in Seq(Items) /\ Len(B) = count - HeadLen
  <2>1. \A i \in 1 .. count - HeadLen : i - 1 \in Index
    BY <1>2 DEF Index
  <2>2. B \in [1 .. count - HeadLen -> Items]
    BY <2>1 DEF TypeOK
  <2>3. count - HeadLen \in Nat
    BY <1>2
  <2> QED BY <2>2, <2>3, SeqDef
<1>5. /\ Contents \in Seq(Items) /\ Len(Contents) = count
      /\ \A i \in 1 .. count : Contents[i] = buf[Position(i - 1)]
  BY ContentsSeq DEF ContentsFollow
<1>6. /\ A \o B \in Seq(Items) /\ Len(A \o B) = count
      /\ \A i \in 1 .. count :
           (A \o B)[i] = IF i <= HeadLen THEN A[i] ELSE B[i - HeadLen]
  <2>1. A \in Seq(Items) /\ B \in Seq(Items)
    BY <1>3, <1>4
  <2> HIDE DEF A, B
  <2>2. /\ A \o B \in Seq(Items) /\ Len(A \o B) = Len(A) + Len(B)
        /\ \A i \in 1 .. Len(A) + Len(B) :
             (A \o B)[i] = IF i <= Len(A) THEN A[i] ELSE B[i - Len(A)]
    BY <2>1, ConcatProperties, Zenon
  <2>3. Len(A) + Len(B) = count
    BY <1>2, <1>3, <1>4 DEF TypeOK
  <2> QED BY <1>3, <2>2, <2>3
<1>7. ASSUME NEW i \in 1 .. count PROVE (A \o B)[i] = Contents[i]
  <2>1. i - 1 \in 0 .. Cap
    BY <1>2
  <2>2. Position(i - 1) = IF head + (i - 1) < Cap THEN head + (i - 1)
                          ELSE (head + (i - 1)) - Cap
    BY <2>1, PositionWraps
  <2>3. CASE i <= HeadLen
    <3>1. Position(i - 1) = (head + i) - 1 /\ i \in 1 .. HeadLen
      BY <1>2, <2>2, <2>3
    <3> QED BY <1>5, <1>6, <2>3, <3>1
  <2>4. CASE ~(i <= HeadLen)
    <3>1. /\ Position(i - 1) = (i - HeadLen) - 1
          /\ i - HeadLen \in 1 .. count - HeadLen
      BY <1>2, <2>2, <2>4
    <3> QED BY <1>5, <1>6, <2>4, <3>1
  <2> QED BY <2>3, <2>4
<1>8. A \o B = Contents
  <2> HIDE DEF A, B
  <2> QED BY <1>5, <1>6, <1>7, SeqEqual
<1> QED BY <1>8 DEF CrankReadsQueue, Segments

\* The crank takes the account of an event queue apart the way the program
\* does: the accounts that it names for ConsumeEvents are those of the events
\* that come next, for any size of the event queue.
THEOREM CrankAgrees == ItemWords = EventWords => (Spec => []CrankReadsQueue)
<1>1. ItemWords = EventWords => (TypeOK => CrankReadsQueue)
  BY SegmentsAreContents
<1> SUFFICES ASSUME ItemWords = EventWords PROVE Spec => []CrankReadsQueue
  OBVIOUS
<1>2. TypeOK => CrankReadsQueue
  BY <1>1
<1> QED BY <1>2, QueueTypeCorrect, PTL

-----------------------------------------------------------------------------
(* The list of the crank: searching                                        *)

\* b searches for the owner in slices of accounts.
Searches(b, accounts, owner) ==
  b = [slice \in Nat \X Nat |->
         IF slice[2] = 1 THEN slice[1] ELSE b[Half(accounts, owner, slice)]]

\* A half is a slice, too.
LEMMA HalfType ==
  ASSUME NEW accounts, NEW owner, NEW slice \in Nat \X Nat
  PROVE  /\ slice[2] \div 2 \in Nat
         /\ slice[2] - slice[2] \div 2 \in Nat
         /\ Half(accounts, owner, slice) \in Nat \X Nat
<1>1. slice[1] \in Nat /\ slice[2] \in Nat
  OBVIOUS
<1>2. slice[2] \div 2 \in Nat /\ slice[2] - slice[2] \div 2 \in Nat
  <2> DEFINE n == slice[2]
  <2> HIDE DEF n
  <2>1. n \in Nat
    BY <1>1 DEF n
  <2>2. n \div 2 \in Nat /\ n - n \div 2 \in Nat
    BY <2>1
  <2> QED BY <2>2 DEF n
<1> QED BY <1>1, <1>2 DEF Half

\* The search exists.
LEMMA SearchExists ==
  ASSUME NEW accounts, NEW owner
  PROVE  \E b : Searches(b, accounts, owner)
<1> DEFINE H == Nat \X Nat
           Go == {slice \in H : slice[2] # 1}
           next == [slice \in H |-> Half(accounts, owner, slice)]
<1>1. \A h \in H \cap Go : next[h] \in H
  BY HalfType
<1>2. PICK d : Descends(d, H, Go, next)
  <2> HIDE DEF H, Go, next
  <2> QED BY <1>1, Descent
<1> DEFINE b == [slice \in H |-> d[slice][1]]
<1>3. ASSUME NEW slice \in H
      PROVE  b[slice] = IF slice[2] = 1 THEN slice[1]
                        ELSE b[Half(accounts, owner, slice)]
  <2>1. Half(accounts, owner, slice) \in H
    BY HalfType
  <2>2. d[slice] = IF slice \in Go THEN d[next[slice]] ELSE slice
    BY <1>2, Zenon DEF Descends
  <2>3. b[slice] = d[slice][1]
    OBVIOUS
  <2>4. b[Half(accounts, owner, slice)] = d[Half(accounts, owner, slice)][1]
    BY <2>1
  <2>5. next[slice] = Half(accounts, owner, slice)
    OBVIOUS
  <2>6. slice \in Go <=> slice[2] # 1
    OBVIOUS
  <2> HIDE DEF b, H, Go, next
  <2> QED BY <2>2, <2>3, <2>4, <2>5, <2>6
<1>4. b = [slice \in H |-> IF slice[2] = 1 THEN slice[1]
                           ELSE b[Half(accounts, owner, slice)]]
  <2>1. b = [slice \in H |-> b[slice]]
    OBVIOUS
  <2> HIDE DEF b, H
  <2> QED BY <1>3, <2>1
<1> HIDE DEF b
<1> QED BY <1>4 DEF Searches

\* The accounts are listed in the order of their keys, each once.
Ascends(accounts) ==
  \A i, j \in 1 .. Len(accounts) : i < j => accounts[i] < accounts[j]

\* The search narrows down to an account that is there.
LEMMA SearchEnds ==
  ASSUME NEW accounts \in Seq(Nat), Ascends(accounts),
         NEW k \in 1 .. Len(accounts), NEW b, Searches(b, accounts, accounts[k])
  PROVE  b[<<1, Len(accounts)>>] = k
<1> DEFINE L == Len(accounts)
           Within(n) == \A from \in 1 .. L :
             n > 0 /\ from + n <= L + 1 /\ from <= k /\ k < from + n => b[<<from, n>>] = k
           T == {n \in Nat : \A m \in 0 .. n : Within(m)}
<1>0. L \in Nat /\ \A i \in 1 .. L : accounts[i] \in Nat
  OBVIOUS
<1>1. 0 \in T
  OBVIOUS
<1>2. ASSUME NEW n \in Nat, n \in T PROVE n + 1 \in T
  <2> DEFINE m == n + 1
             half == m \div 2
             rest == m - half
  <2>1. SUFFICES ASSUME NEW from \in 1 .. L, from + m <= L + 1, from <= k, k < from + m
                 PROVE  b[<<from, m>>] = k
    <3>1. \A i \in 0 .. n + 1 : i \in 0 .. n \/ i = m
      OBVIOUS
    <3>2. Within(m)
      BY <2>1
    <3> HIDE DEF Within
    <3>3. \A i \in 0 .. n + 1 : Within(i)
      BY <1>2, <3>1, <3>2
    <3> QED BY <3>3
  <2>2. b[<<from, m>>] = IF m = 1 THEN from
                         ELSE b[Half(accounts, accounts[k], <<from, m>>)]
    <3>1. <<from, m>> \in Nat \X Nat
      OBVIOUS
    <3> HIDE DEF m
    <3> QED BY <3>1 DEF Searches
  <2>3. CASE m = 1
    BY <2>1, <2>2, <2>3
  <2>4. CASE m # 1
    <3>1. half \in 1 .. n /\ rest \in 1 .. n /\ half <= rest /\ half + rest = m
      BY <2>4
    <3> HIDE DEF half, rest
    <3>2. Half(accounts, accounts[k], <<from, m>>)
            = <<IF accounts[from + half] > accounts[k] THEN from ELSE from + half, rest>>
      BY DEF Half, half, rest
    <3>3. from + half \in 1 .. L /\ from + half + rest <= L + 1
      BY <1>0, <2>1, <3>1
    <3>4. Within(rest)
      BY <1>2, <3>1
    <3>5. CASE accounts[from + half] > accounts[k]
      <4>1. k < from + half
        BY <1>0, <3>3, <3>5 DEF Ascends
      <4>2. b[<<from, m>>] = b[<<from, rest>>]
        BY <2>2, <2>4, <3>2, <3>5
      <4>3. rest > 0 /\ from + rest <= L + 1 /\ from <= k /\ k < from + rest
        BY <2>1, <3>1, <3>3, <4>1
      <4> QED BY <3>4, <4>2, <4>3
    <3>6. CASE ~(accounts[from + half] > accounts[k])
      <4>1. from + half <= k
        BY <1>0, <3>3, <3>6 DEF Ascends
      <4>2. b[<<from, m>>] = b[<<from + half, rest>>]
        BY <2>2, <2>4, <3>2, <3>6
      <4>3. rest > 0 /\ k < from + half + rest
        BY <2>1, <3>1, <3>3
      <4> QED BY <3>3, <3>4, <4>1, <4>2, <4>3
    <3> QED BY <3>5, <3>6
  <2> QED BY <2>3, <2>4
<1>3. \A n \in Nat : n \in T
  <2> HIDE DEF T
  <2> QED BY <1>1, <1>2, AllNat
<1>4. Within(L)
  <2> HIDE DEF Within, L
  <2>1. L \in T
    BY <1>0, <1>3
  <2>2. \A m \in 0 .. L : Within(m)
    BY <2>1
  <2> HIDE DEF T
  <2> QED BY <1>0, <2>2
<1> QED BY <1>0, <1>4

\* An account of a list in ascending order is found.
LEMMA Found ==
  ASSUME NEW accounts \in Seq(Nat), Ascends(accounts), NEW k \in 1 .. Len(accounts)
  PROVE  binary_search(accounts, accounts[k])
<1> DEFINE b == CHOOSE b : Searches(b, accounts, accounts[k])
<1>1. Searches(b, accounts, accounts[k])
  BY SearchExists
<1>2. binary_search(accounts, accounts[k])
        <=> accounts # <<>> /\ accounts[b[<<1, Len(accounts)>>]] = accounts[k]
  BY DEF binary_search, Searches
<1> HIDE DEF b
<1>3. b[<<1, Len(accounts)>>] = k
  BY <1>1, SearchEnds
<1> QED BY <1>2, <1>3

-----------------------------------------------------------------------------
(* The list of the crank: sorting                                          *)

\* The members of a finite set of numbers can be listed in ascending order.
LEMMA SortExists ==
  ASSUME NEW S, IsFiniteSet(S), S \subseteq Nat
  PROVE  \E s \in [1 .. Cardinality(S) -> S] :
           \A i, j \in DOMAIN s : i < j => s[i] < s[j]
<1> DEFINE Listed(U) == \E s \in [1 .. Cardinality(U) -> U] :
                          \A i, j \in DOMAIN s : i < j => s[i] < s[j]
           T == {n \in Nat : \A U \in SUBSET S : Cardinality(U) = n => Listed(U)}
<1>0. \A U \in SUBSET S : IsFiniteSet(U) /\ Cardinality(U) \in Nat
  BY FS_Subset, FS_CardinalityType
<1>1. 0 \in T
  <2> SUFFICES ASSUME NEW U \in SUBSET S, Cardinality(U) = 0 PROVE Listed(U)
    OBVIOUS
  <2>1. <<>> \in [1 .. Cardinality(U) -> U] /\ DOMAIN <<>> = {}
    OBVIOUS
  <2> QED BY <2>1
<1>2. ASSUME NEW n \in Nat, n \in T PROVE n + 1 \in T
  <2> SUFFICES ASSUME NEW U \in SUBSET S, Cardinality(U) = n + 1 PROVE Listed(U)
    OBVIOUS
  <2>1. U # {}
    BY <1>0, FS_EmptySet
  <2>2. PICK x \in U : \A y \in U : ~(x < y)
    <3> DEFINE R == {e \in U \X U : e[1] < e[2]}
    <3>1. \A y \in U : y \in Nat
      OBVIOUS
    <3>2. \A y, z \in U : <<y, z>> \in R <=> y < z
      OBVIOUS
    <3>3. \A y \in U : <<y, y>> \notin R
      BY <3>1, <3>2
    <3>4. \A y, z, w \in U : <<y, z>> \in R /\ <<z, w>> \in R => <<y, w>> \in R
      BY <3>1, <3>2
    <3>5. IsFiniteSet(U)
      BY <1>0
    <3> HIDE DEF R
    <3>6. \E y \in U : \A z \in U : <<y, z>> \notin R
      BY <2>1, <3>3, <3>4, <3>5, FiniteMaximal
    <3> QED BY <3>2, <3>6
  <2> DEFINE V == U \ {x}
  <2>3. V \in SUBSET S /\ Cardinality(V) = n
    BY <1>0, FS_RemoveElement
  <2>4. PICK g \in [1 .. n -> V] : \A i, j \in DOMAIN g : i < j => g[i] < g[j]
    BY <1>2, <2>3
  <2> DEFINE s == [i \in 1 .. n + 1 |-> IF i = n + 1 THEN x ELSE g[i]]
  <2>5. s \in [1 .. Cardinality(U) -> U]
    BY <2>2, <2>4
  <2>6. ASSUME NEW i \in 1 .. n + 1, NEW j \in 1 .. n + 1, i < j PROVE s[i] < s[j]
    <3>1. i \in 1 .. n /\ g[i] \in V /\ s[i] = g[i]
      BY <2>4, <2>6
    <3>2. CASE j = n + 1
      <4>1. s[j] = x /\ g[i] \in Nat /\ x \in Nat /\ g[i] # x /\ ~(x < g[i])
        BY <2>2, <3>1, <3>2
      <4> HIDE DEF s
      <4> QED BY <3>1, <4>1
    <3>3. CASE j # n + 1
      <4>1. j \in 1 .. n /\ s[j] = g[j]
        BY <3>3
      <4> HIDE DEF s
      <4> QED BY <2>4, <2>6, <3>1, <4>1
    <3> QED BY <3>2, <3>3
  <2>7. DOMAIN s = 1 .. n + 1
    OBVIOUS
  <2> HIDE DEF s
  <2> QED BY <2>5, <2>6, <2>7
<1>3. \A n \in Nat : n \in T
  <2> HIDE DEF T
  <2> QED BY <1>1, <1>2, AllNat
<1>4. S \in SUBSET S /\ Cardinality(S) \in Nat
  BY <1>0
<1>5. Listed(S)
  <2> HIDE DEF Listed
  <2> QED BY <1>3, <1>4
<1> QED BY <1>5

\* Sorted lists all members, in ascending order.
LEMMA SortedLists ==
  ASSUME NEW S, IsFiniteSet(S), S \subseteq Nat
  PROVE  /\ Sorted(S) \in Seq(S) /\ Ascends(Sorted(S))
         /\ \A x \in S : \E k \in 1 .. Len(Sorted(S)) : Sorted(S)[k] = x
<1> DEFINE s == Sorted(S)
           n == Cardinality(S)
<1>1. n \in Nat
  BY FS_CardinalityType
<1>2. s \in [1 .. n -> S] /\ \A i, j \in DOMAIN s : i < j => s[i] < s[j]
  BY SortExists DEF Sorted
<1> HIDE DEF s
<1>3. s \in Seq(S) /\ Len(s) = n
  BY <1>1, <1>2
<1>4. Ascends(s)
  BY <1>2, <1>3 DEF Ascends
<1>5. \A x \in S : \E k \in 1 .. n : s[k] = x
  <2>1. s \in Injection(1 .. n, S)
    <3>1. \A i, j \in 1 .. n : s[i] = s[j] => i = j
      <4> SUFFICES ASSUME NEW i \in 1 .. n, NEW j \in 1 .. n, s[i] = s[j], i # j
                   PROVE  FALSE
        OBVIOUS
      <4>1. i < j \/ j < i
        BY <1>1
      <4>2. s[i] < s[j] \/ s[j] < s[i]
        BY <1>2, <4>1
      <4>3. s[i] \in Nat
        BY <1>2
      <4> QED BY <4>2, <4>3
    <3> QED BY <1>2, <3>1 DEF Injection, IsInjective
  <2>2. Cardinality(1 .. n) = n
    BY <1>1, FS_Interval
  <2>3. s \in Surjection(1 .. n, S)
    <3> HIDE DEF n
    <3> QED BY <2>1, <2>2, FS_Injection DEF n
  <2> QED BY <2>3 DEF Surjection
<1> QED BY <1>3, <1>4, <1>5 DEF s

-----------------------------------------------------------------------------
(* The list of the crank: the accounts of a round                          *)

\* A sequence over a set is one over a larger set.
LEMMA WiderSeq ==
  ASSUME NEW S, NEW T, S \subseteq T, NEW s \in Seq(S)
  PROVE  s \in Seq(T)
<1>1. Len(s) \in Nat /\ s \in [1 .. Len(s) -> S]
  OBVIOUS
<1>2. s \in [1 .. Len(s) -> T]
  BY <1>1
<1> QED BY <1>1, <1>2

\* The owners of the first events are finitely many.
LEMMA OwnersFinite ==
  ASSUME NEW n \in Nat, queue \in Seq(Owners), n <= Len(queue)
  PROVE  /\ IsFiniteSet(FirstOwners(n)) /\ FirstOwners(n) \subseteq Owners
         /\ Cardinality(FirstOwners(n)) \in Nat
<1> DEFINE f == [i \in 1 .. n |-> queue[i]]
<1>1. f \in Surjection(1 .. n, FirstOwners(n))
  BY DEF FirstOwners, Surjection
<1>2. IsFiniteSet(1 .. n)
  BY FS_Interval
<1>3. IsFiniteSet(FirstOwners(n))
  <2> HIDE DEF f
  <2> QED BY <1>1, <1>2, FS_Surjection
<1>4. FirstOwners(n) \subseteq Owners
  BY DEF FirstOwners
<1> QED BY <1>3, <1>4, FS_CardinalityType

\* The owners that are used are those of the first events up to one at which
\* there are enough, or to the last.
LEMMA UsedFirst ==
  ASSUME queue \in Seq(Owners), queue # <<>>
  PROVE  \E m \in 1 .. Len(queue) :
           /\ used_accounts = FirstOwners(m)
           /\ m = Len(queue) \/ Cardinality(FirstOwners(m)) >= NumAccounts
<1> DEFINE T == {n \in 1 .. Len(queue) :
                   n = Len(queue) \/ Cardinality(FirstOwners(n)) >= NumAccounts}
<1>1. Len(queue) \in 1 .. Len(queue)
  OBVIOUS
<1>2. T \subseteq Nat /\ T # {}
  BY <1>1
<1>3. Min(T) \in T
  <2>1. \E n \in T : \A k \in T : n <= k
    <3> HIDE DEF T
    <3> QED BY <1>2, LeastNat
  <2> HIDE DEF T
  <2> QED BY <2>1 DEF Min
<1>4. used_accounts = FirstOwners(Min(T))
  BY DEF used_accounts
<1> QED BY <1>3, <1>4

\* An event with few enough owners up to it has its owner in the list.
LEMMA Serves ==
  ASSUME queue \in Seq(Owners), NEW i \in 1 .. Len(queue),
         Cardinality(FirstOwners(i)) <= NumAccounts
  PROVE  binary_search(orders_accounts, queue[i])
<1>1. queue # <<>> /\ NumAccounts \in Nat /\ Owners \subseteq Nat
  BY CrankAssumption
<1>2. PICK m \in 1 .. Len(queue) :
        /\ used_accounts = FirstOwners(m)
        /\ m = Len(queue) \/ Cardinality(FirstOwners(m)) >= NumAccounts
  BY <1>1, UsedFirst
<1>3. /\ IsFiniteSet(FirstOwners(m)) /\ FirstOwners(m) \subseteq Owners
      /\ Cardinality(FirstOwners(m)) \in Nat
      /\ IsFiniteSet(FirstOwners(i)) /\ Cardinality(FirstOwners(i)) \in Nat
  BY OwnersFinite
<1>4. queue[i] \in FirstOwners(m)
  <2>1. queue[i] \in FirstOwners(i)
    BY DEF FirstOwners
  <2>2. CASE i <= m
    BY <2>2 DEF FirstOwners
  <2>3. CASE m < i
    <3>1. FirstOwners(m) \in SUBSET FirstOwners(i)
      BY <2>3 DEF FirstOwners
    <3>2. Cardinality(FirstOwners(m)) <= Cardinality(FirstOwners(i))
      BY <1>3, <3>1, FS_Subset
    <3>3. Cardinality(FirstOwners(m)) = Cardinality(FirstOwners(i))
      BY <1>1, <1>2, <1>3, <2>3, <3>2
    <3>4. FirstOwners(m) = FirstOwners(i)
      BY <1>3, <3>1, <3>3, FS_Subset
    <3> QED BY <2>1, <3>4
  <2> QED BY <2>2, <2>3
<1> DEFINE accounts == Sorted(FirstOwners(m))
<1>5. /\ accounts \in Seq(FirstOwners(m)) /\ Ascends(accounts)
      /\ \A x \in FirstOwners(m) : \E k \in 1 .. Len(accounts) : accounts[k] = x
  <2>1. FirstOwners(m) \subseteq Nat
    BY <1>1, <1>3
  <2> QED BY <1>3, <2>1, SortedLists
<1>6. orders_accounts = accounts
  BY <1>2 DEF orders_accounts
<1> HIDE DEF accounts
<1>7. accounts \in Seq(Nat)
  <2>1. FirstOwners(m) \subseteq Nat
    BY <1>1, <1>3
  <2> QED BY <1>5, <2>1, WiderSeq
<1>8. PICK k \in 1 .. Len(accounts) : accounts[k] = queue[i]
  BY <1>4, <1>5
<1> QED BY <1>5, <1>6, <1>7, <1>8, Found

\* The list is one of owners.
LEMMA ListType ==
  ASSUME queue \in Seq(Owners), NEW n \in Nat, n <= Len(queue)
  PROVE  Sorted(FirstOwners(n)) \in Seq(Owners)
<1>1. IsFiniteSet(FirstOwners(n)) /\ FirstOwners(n) \subseteq Owners
  BY OwnersFinite
<1>2. Sorted(FirstOwners(n)) \in Seq(FirstOwners(n))
  <2>1. Owners \subseteq Nat
    BY CrankAssumption
  <2>2. FirstOwners(n) \subseteq Nat
    BY <1>1, <2>1
  <2> QED BY <1>1, <2>2, SortedLists
<1> QED BY <1>1, <1>2, WiderSeq

\* Together the workers of a round take all events, unless all of them work.
LEMMA EnoughWorkers ==
  ASSUME EventsPerWorker < 65536, NEW len \in Nat
  PROVE  /\ Workers(len) \in Nat
         /\ Workers(len) = NumWorkers \/ Workers(len) * to_consume >= len
<1> DEFINE E == EventsPerWorker
           q == (2 * len) \div E
<1>1. NumWorkers \in Nat /\ E \in Nat \ {0} /\ to_consume = E
  BY CrankAssumption DEF to_consume
<1>2. q \in Int /\ 2 * len < q * E + E /\ q >= 0
  <2> DEFINE a == 2 * len
  <2>1. a \in Int /\ a >= 0
    OBVIOUS
  <2> HIDE DEF E, a
  <2>2. a \div E \in Int /\ a < (a \div E) * E + E /\ a \div E >= 0
    BY <1>1, <2>1, Quotient, QuotientAtLeast0
  <2> QED BY <2>2 DEF a
<1>3. Workers(len) = IF q + 1 < NumWorkers THEN q + 1 ELSE NumWorkers
  BY DEF Workers
<1> HIDE DEF E, q
<1>4. (q + 1) * E = q * E + E /\ q * E \in Int
  BY <1>1, <1>2
<1>5. (q + 1) * E >= len
  BY <1>1, <1>2, <1>4
<1> QED BY <1>1, <1>2, <1>3, <1>5

-----------------------------------------------------------------------------
(* The round of the workers                                                *)

\* Types, as far as the round is concerned.
RoundType ==
  /\ queue \in Seq(Owners) /\ popped \in Nat
  /\ round \in [accounts : Seq(Owners), tasks : Int, front : Nat, len : Nat]
  /\ \A tx \in DOMAIN in_flight : tx.limit \in Nat

\* Until somebody consumes, the events a round was made from are queued.
RoundQueued ==
  /\ round.front <= popped
  /\ round.len > 0 /\ round.front = popped => round.len <= Len(queue)

\* The inductive invariant.
RoundInv == RoundType /\ RoundQueued /\ FreshRoundServes

\* What is in flight after sending or losing a transaction.
LEMMA BagMembers ==
  ASSUME NEW tx
  PROVE  /\ DOMAIN (in_flight (+) SetToBag({tx})) = DOMAIN in_flight \union {tx}
         /\ DOMAIN (in_flight (-) SetToBag({tx})) \subseteq DOMAIN in_flight
  BY DEF (+), (-), SetToBag, BagToSet

\* A transaction that is sent joins those in flight.
LEMMA SentMembers ==
  ASSUME NEW tx, Sent(tx)
  PROVE  DOMAIN in_flight' \subseteq DOMAIN in_flight \union {tx}
<1>1. CASE in_flight' = in_flight (+) SetToBag({tx})
  BY <1>1, BagMembers
<1>2. CASE \E old \in BagToSet(in_flight) :
             in_flight' = (in_flight (-) SetToBag({old})) (+) SetToBag({tx})
  <2>1. PICK old : in_flight' = (in_flight (-) SetToBag({old})) (+) SetToBag({tx})
    BY <1>2
  <2>2. DOMAIN (in_flight (-) SetToBag({old})) \subseteq DOMAIN in_flight
    BY BagMembers
  <2> DEFINE rest == in_flight (-) SetToBag({old})
  <2> HIDE DEF rest
  <2>3. DOMAIN (rest (+) SetToBag({tx})) = DOMAIN rest \union {tx}
    BY DEF (+), SetToBag, BagToSet
  <2> QED BY <2>1, <2>2, <2>3 DEF rest
<1> QED BY <1>1, <1>2 DEF Sent

\* One that landed or expired leaves them.
LEMMA LostMembers ==
  ASSUME NEW tx, in_flight' = in_flight (-) SetToBag({tx})
  PROVE  DOMAIN in_flight' \subseteq DOMAIN in_flight
  BY BagMembers

\* A transaction takes events from the front of the queue, perhaps none.
LEMMA ConsumableType ==
  ASSUME NEW tx, tx.limit \in Nat, queue \in Seq(Owners)
  PROVE  Consumable(tx) \in 0 .. Len(queue)
<1> DEFINE T == {n \in 0 .. Len(queue) :
                   n <= tx.limit /\ \A i \in 1 .. n : binary_search(tx.accounts, queue[i])}
           U == {Len(queue) - n : n \in T}
<1>1. 0 \in T /\ T \subseteq 0 .. Len(queue) /\ Len(queue) \in Nat
  OBVIOUS
<1> HIDE DEF T
<1>2. U \subseteq Nat /\ U # {}
  <2>1. \A n \in T : Len(queue) - n \in Nat
    BY <1>1
  <2>2. Len(queue) - 0 \in U
    BY <1>1
  <2> QED BY <2>1, <2>2
<1>3. PICK u \in U : \A v \in U : u <= v
  <2> HIDE DEF U
  <2> QED BY <1>2, LeastNat
<1>4. PICK n \in T : u = Len(queue) - n
  BY <1>3
<1>5. \A k \in T : n >= k
  <2> TAKE k \in T
  <2>1. u <= Len(queue) - k
    BY <1>3
  <2> QED BY <1>1, <1>4, <2>1
<1>6. Max(T) \in T
  BY <1>5 DEF Max
<1>7. Consumable(tx) = Max(T)
  BY DEF Consumable, T
<1> QED BY <1>1, <1>6, <1>7

\* While the events of the round stay queued the list stays good for them.
LEMMA StillServes ==
  ASSUME RoundInv, queue' \in Seq(Owners),
         round'.accounts = round.accounts, round'.len = round.len,
         round.len <= Len(queue) => /\ round.len <= Len(queue')
                                    /\ \A i \in 1 .. round.len : queue'[i] = queue[i],
         round'.front = round.front,
         round'.front = popped' => round.front = popped
  PROVE  FreshRoundServes'
<1> SUFFICES ASSUME round'.len > 0, round'.front = popped'
             PROVE  /\ \A i \in 1 .. round'.len :
                         Cardinality(FirstOwners(i)') <= NumAccounts
                           => binary_search(round'.accounts, queue'[i])
                    /\ \/ Workers(round'.len) = NumWorkers
                       \/ Workers(round'.len) * to_consume >= round'.len
  BY DEF FreshRoundServes
<1>1. /\ round.len \in Nat /\ round.len > 0 /\ round.front = popped
      /\ round.len <= Len(queue)
  BY DEF RoundInv, RoundType, RoundQueued
<1>2. \A i \in 1 .. round.len :
        Cardinality(FirstOwners(i)) <= NumAccounts
          => binary_search(round.accounts, queue[i])
  BY <1>1 DEF RoundInv, FreshRoundServes
<1>3. Workers(round.len) = NumWorkers \/ Workers(round.len) * to_consume >= round.len
  BY <1>1 DEF RoundInv, FreshRoundServes
<1>4. ASSUME NEW i \in 1 .. round.len
      PROVE  queue'[i] = queue[i] /\ FirstOwners(i)' = FirstOwners(i)
  <2>1. \A j \in 1 .. i : j \in 1 .. round.len
    BY <1>1
  <2>2. \A j \in 1 .. i : queue'[j] = queue[j]
    BY <1>1, <2>1
  <2> QED BY <1>1, <2>2 DEF FirstOwners
<1> QED BY <1>2, <1>3, <1>4

\* As long as nobody has consumed since the queue was read, the list of a round
\* finds every event up to the one that needs an account too many, and the
\* workers suffice (used_accounts, and the number of workers, in
\* consume_events_loop).  The hypothesis is that the limit of a worker fits into
\* the 16 bits of the instruction: what is cut off (line 644) is not consumed.
THEOREM FreshRoundsServe ==
  ASSUME EventsPerWorker < 65536
  PROVE  CrankSpec => []FreshRoundServes
<1>1. CrankInit => RoundInv
  <2> SUFFICES ASSUME CrankInit PROVE RoundInv
    OBVIOUS
  <2>1. round.len = 0 /\ round.front = 0
    BY DEF CrankInit, NoRound
  <2>2. RoundType
    BY DEF CrankInit, RoundType, NoRound, EmptyBag, SetToBag
  <2>3. RoundQueued
    BY <2>1 DEF CrankInit, RoundQueued
  <2>4. FreshRoundServes
    BY <2>1 DEF FreshRoundServes
  <2> QED BY <2>2, <2>3, <2>4 DEF RoundInv
<1>2. RoundInv /\ [CrankNext]_crank_vars => RoundInv'
  <2> SUFFICES ASSUME RoundInv, [CrankNext]_crank_vars PROVE RoundInv'
    OBVIOUS
  <2>0. /\ queue \in Seq(Owners) /\ popped \in Nat /\ Len(queue) \in Nat
        /\ round \in [accounts : Seq(Owners), tasks : Int, front : Nat, len : Nat]
        /\ \A tx \in DOMAIN in_flight : tx.limit \in Nat
    BY DEF RoundInv, RoundType
  <2>1. ASSUME NEW events \in BoundedSeq(Owners, MatchBatch), MatchOrders(events)
        PROVE  RoundInv'
    <3>1. events \in Seq(Owners)
      <4>1. PICK m \in 0 .. MatchBatch : events \in [1 .. m -> Owners]
        BY DEF BoundedSeq, SeqOf
      <4> QED BY <4>1, CrankAssumption
    <3>2. /\ queue' = queue \o events
          /\ UNCHANGED <<popped, round, in_flight, running>>
      BY <2>1 DEF MatchOrders
    <3>3. /\ queue' \in Seq(Owners) /\ Len(queue') >= Len(queue)
          /\ Len(queue') \in Nat
          /\ \A i \in 1 .. Len(queue) : queue'[i] = queue[i]
      BY <2>0, <3>1, <3>2
    <3>4. round.len \in Nat
      BY <2>0
    <3>5. FreshRoundServes'
      <4>1. round.len <= Len(queue) => /\ round.len <= Len(queue')
                                       /\ \A i \in 1 .. round.len : queue'[i] = queue[i]
        BY <2>0, <3>3, <3>4
      <4>2. /\ round'.accounts = round.accounts /\ round'.len = round.len
            /\ round'.front = round.front
            /\ round'.front = popped' => round.front = popped
        BY <3>2
      <4> QED BY <3>3, <4>1, <4>2, StillServes
    <3>6. RoundType'
      BY <2>0, <3>2, <3>3 DEF RoundType
    <3>7. RoundQueued'
      BY <2>0, <3>2, <3>3, <3>4 DEF RoundInv, RoundQueued
    <3> QED BY <3>5, <3>6, <3>7 DEF RoundInv
  <2>2. CASE ReadQueue
    <3>1. /\ queue # <<>> /\ UNCHANGED <<queue, popped, in_flight, running>>
          /\ round' = [accounts |-> orders_accounts, tasks |-> Workers(Len(queue)),
                       front |-> popped, len |-> Len(queue)]
      BY <2>2 DEF ReadQueue
    <3>2. /\ round'.accounts = orders_accounts /\ round'.front = popped
          /\ round'.len = Len(queue)
      BY <3>1
    <3>3. /\ Workers(Len(queue)) \in Nat
          /\ \/ Workers(Len(queue)) = NumWorkers
             \/ Workers(Len(queue)) * to_consume >= Len(queue)
      BY <2>0, EnoughWorkers
    <3>4. orders_accounts \in Seq(Owners)
      <4>1. PICK m \in 1 .. Len(queue) : used_accounts = FirstOwners(m)
        BY <2>0, <3>1, UsedFirst
      <4>2. Sorted(FirstOwners(m)) \in Seq(Owners)
        BY <2>0, ListType
      <4> QED BY <4>1, <4>2 DEF orders_accounts
    <3>5. RoundType'
      BY <2>0, <3>1, <3>3, <3>4 DEF RoundType
    <3>6. RoundQueued'
      BY <2>0, <3>1, <3>2 DEF RoundQueued
    <3>7. FreshRoundServes'
      <4>1. \A i \in 1 .. Len(queue) : Cardinality(FirstOwners(i)) <= NumAccounts
              => binary_search(orders_accounts, queue[i])
        BY <2>0, Serves
      <4>2. \A i : FirstOwners(i)' = FirstOwners(i)
        BY <3>1 DEF FirstOwners
      <4> QED BY <3>1, <3>2, <3>3, <4>1, <4>2 DEF FreshRoundServes
    <3> QED BY <3>5, <3>6, <3>7 DEF RoundInv
  <2>3. ASSUME UNCHANGED <<queue, popped>>, round'.accounts = round.accounts,
               round'.front = round.front, round'.len = round.len, RoundType'
        PROVE  RoundInv'
    <3>1. FreshRoundServes'
      BY <2>0, <2>3, StillServes
    <3>2. RoundQueued'
      BY <2>3 DEF RoundInv, RoundQueued
    <3> QED BY <2>3, <3>1, <3>2 DEF RoundInv
  <2>4. CASE ReadFails
    <3>1. UNCHANGED <<queue, popped, round, in_flight>>
      BY <2>4 DEF ReadFails
    <3>2. RoundType'
      BY <2>0, <3>1 DEF RoundType
    <3> QED BY <2>3, <3>1, <3>2
  <2>5. CASE consume_events_once
    <3> DEFINE tx == [accounts |-> round.accounts, limit |-> to_consume]
    <3>1. /\ UNCHANGED <<queue, popped, running>> /\ Sent(tx)
          /\ round' = [round EXCEPT !.tasks = @ - 1]
      BY <2>5 DEF consume_events_once
    <3> HIDE DEF tx
    <3>2. round' \in [accounts : Seq(Owners), tasks : Int, front : Nat, len : Nat]
          /\ round'.accounts = round.accounts
          /\ round'.front = round.front /\ round'.len = round.len
      <4>1. round' = [round EXCEPT !.tasks = @ - 1]
        BY <3>1
      <4> QED BY <2>0, <4>1
    <3>3. tx.limit \in Nat
      BY CrankAssumption DEF to_consume, tx
    <3>4. \A t \in DOMAIN in_flight' : t.limit \in Nat
      BY <2>0, <3>1, <3>3, SentMembers
    <3>5. RoundType'
      BY <2>0, <3>1, <3>2, <3>4 DEF RoundType
    <3> QED BY <2>3, <3>1, <3>2, <3>5
  <2>6. CASE SendFails
    <3>1. /\ UNCHANGED <<queue, popped, in_flight, running>>
          /\ round' = [round EXCEPT !.tasks = @ - 1]
      BY <2>6 DEF SendFails
    <3>2. round' \in [accounts : Seq(Owners), tasks : Int, front : Nat, len : Nat]
          /\ round'.accounts = round.accounts
          /\ round'.front = round.front /\ round'.len = round.len
      BY <2>0, <3>1
    <3>3. RoundType'
      BY <2>0, <3>1, <3>2 DEF RoundType
    <3> QED BY <2>3, <3>1, <3>2, <3>3
  <2>7. CASE consume_events
    <3> DEFINE all == Sorted(FirstOwners(Len(queue)))
               lowest == SubSeq(all, 1, Min({OnceAccounts, Len(all)}))
               tx == [accounts |-> lowest, limit |-> Len(lowest) + 4]
    <3>1. UNCHANGED <<queue, popped, round, running>> /\ Sent(tx)
      BY ONLY <2>7, Zenon DEF consume_events
    <3>2. tx.limit \in Nat
      <4>1. all \in Seq(Owners)
        BY <2>0, ListType
      <4> HIDE DEF all
      <4>2. OnceAccounts \in Nat /\ Len(all) \in Nat
        BY <4>1, CrankAssumption
      <4> DEFINE m == Min({OnceAccounts, Len(all)})
      <4>3. m \in Nat /\ m <= Len(all)
        BY <4>2 DEF Min
      <4>4. lowest = SubSeq(all, 1, m)
        OBVIOUS
      <4> HIDE DEF m, lowest
      <4>5. lowest \in Seq(Owners)
        BY <4>1, <4>3, <4>4
      <4> QED BY <4>5
    <3> HIDE DEF tx
    <3>3. \A t \in DOMAIN in_flight' : t.limit \in Nat
      BY <2>0, <3>1, <3>2, SentMembers
    <3>4. RoundType'
      BY <2>0, <3>1, <3>3 DEF RoundType
    <3> QED BY <2>3, <3>1, <3>4
  <2>8. ASSUME NEW tx \in BagToSet(in_flight), Land(tx)
        PROVE  RoundInv'
    <3> DEFINE n == Consumable(tx)
    <3>1. /\ queue' = SubSeq(queue, n + 1, Len(queue)) /\ popped' = popped + n
          /\ in_flight' = in_flight (-) SetToBag({tx})
          /\ UNCHANGED <<round, running>>
      BY <2>8 DEF Land, ConsumeEvents
    <3>2. n \in 0 .. Len(queue)
      <4>1. tx.limit \in Nat
        BY <2>0 DEF BagToSet
      <4> QED BY <2>0, <4>1, ConsumableType
    <3> HIDE DEF n
    <3>3. RoundType'
      <4>1. \A t \in DOMAIN in_flight' : t.limit \in Nat
        <5>1. in_flight' = in_flight (-) SetToBag({tx})
          BY <3>1
        <5>2. DOMAIN in_flight' \subseteq DOMAIN in_flight
          BY ONLY <5>1, LostMembers
        <5> QED BY <2>0, <5>2
      <4>2. queue' \in Seq(Owners) /\ popped' \in Nat
        BY <2>0, <3>1, <3>2
      <4>3. round' = round
        BY <3>1
      <4> QED BY <2>0, <4>1, <4>2, <4>3 DEF RoundType
    <3>4. CASE n = 0
      <4>1. queue' = queue /\ popped' = popped
        BY <2>0, <3>1, <3>4
      <4> QED BY <2>3, <3>1, <3>3, <4>1
    <3>5. CASE n # 0
      <4>1. round'.front = round.front /\ round.front <= popped /\ round.front \in Nat
        BY <2>0, <3>1 DEF RoundInv, RoundQueued
      <4>2. round'.front < popped' /\ popped' \in Nat
        BY <2>0, <3>1, <3>2, <3>5, <4>1
      <4>3. round'.front # popped' /\ round'.front <= popped'
        BY <4>1, <4>2
      <4> QED BY <3>3, <4>3 DEF RoundInv, RoundQueued, FreshRoundServes
    <3> QED BY <3>4, <3>5
  <2>9. ASSUME NEW tx \in BagToSet(in_flight), Expire(tx)
        PROVE  RoundInv'
    <3>1. /\ in_flight' = in_flight (-) SetToBag({tx})
          /\ UNCHANGED <<queue, popped, round, running>>
      BY <2>9 DEF Expire
    <3>2. \A t \in DOMAIN in_flight' : t.limit \in Nat
      <4>1. in_flight' = in_flight (-) SetToBag({tx})
        BY <3>1
      <4>2. DOMAIN in_flight' \subseteq DOMAIN in_flight
        BY ONLY <4>1, LostMembers
      <4> QED BY <2>0, <4>2
    <3>3. RoundType'
      <4>1. UNCHANGED <<queue, popped, round>>
        BY <3>1
      <4> QED BY <2>0, <3>2, <4>1 DEF RoundType
    <3> QED BY <2>3, <3>1, <3>3
  <2>10. CASE UNCHANGED crank_vars
    <3>1. UNCHANGED <<queue, popped, round, in_flight>>
      BY <2>10 DEF crank_vars
    <3>2. RoundType'
      BY <2>0, <3>1 DEF RoundType
    <3> QED BY <2>3, <3>1, <3>2
  <2> QED
    BY <2>1, <2>2, <2>4, <2>5, <2>6, <2>7, <2>8, <2>9, <2>10 DEF CrankNext
<1>3. RoundInv => FreshRoundServes
  BY DEF RoundInv
<1> QED BY <1>1, <1>2, <1>3, PTL DEF CrankSpec
=============================================================================
