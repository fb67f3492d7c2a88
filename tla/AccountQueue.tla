---------------------------- MODULE AccountQueue ----------------------------
(***************************************************************************)
(* The queue that lives in an account (Queue in dex/src/state.rs): behind  *)
(* a header with the fields head, count and, in an event queue, seq_num, a *)
(* ring buffer of as many items as the account has room for.  The program  *)
(* uses it through push_back, peek_front and pop_front.  Outside the       *)
(* program the crank reads the bytes of the account and splits them into   *)
(* two segments (crank/src/lib.rs).                                        *)
(***************************************************************************)
EXTENDS Integers, Sequences

CONSTANTS
  Items,         \* the items
  Zero,          \* what the zeroed account holds
  BufWords,      \* words of the account behind the header
  ItemWords,     \* words of an item: 10 of a Request, 11 of an Event
  EventWords,    \* words of an Event
  MaxSeq         \* bound of the model: pushes that were not reverted

\* buf.len(): what does not make an item is slop.
Cap == BufWords \div ItemWords

\* process_initialize_market refuses a queue without an item.
ASSUME QueueAssumption ==
  /\ BufWords \in Nat /\ ItemWords \in Nat \ {0} /\ ItemWords <= BufWords
  /\ EventWords \in Nat \ {0}
  /\ Zero \in Items /\ MaxSeq \in Nat

VARIABLES
  buf,       \* the array behind the header
  head,      \* index of the item at the front
  count,     \* how many items are queued
  seq_num    \* number of the next push; a request queue does not store it

vars == <<buf, head, count, seq_num>>

Index == 0 .. Cap - 1

\* The header always describes a place within the account: an index beyond the
\* array would be a panic in every later instruction on the queue.
TypeOK ==
  /\ buf \in [Index -> Items]
  /\ head \in Index /\ count \in 0 .. Cap
  /\ seq_num \in Nat /\ count <= seq_num

\* The header that process_initialize_market writes.
Init ==
  /\ buf = [i \in Index |-> Zero]
  /\ head = 0 /\ count = 0 /\ seq_num = 0

full == count = Cap

empty == count = 0

\* The k-th of the items, counted from 0.
Position(k) == (head + k) % Cap

\* Mutant: the slot behind the last item is one off.
push_back_OneOff(value) ==
  /\ ~full /\ seq_num < MaxSeq
  /\ buf' = [buf EXCEPT ![(head + count + 1) % Cap] = value]
  /\ count' = count + 1 /\ seq_num' = seq_num + 1
  /\ UNCHANGED head

push_back(value) ==
  /\ ~full /\ seq_num < MaxSeq
  /\ buf' = [buf EXCEPT ![Position(count)] = value]
  /\ count' = count + 1 /\ seq_num' = seq_num + 1
  /\ UNCHANGED head

\* process_requests writes what is left of a request through this reference.
peek_front_mut(value) ==
  /\ ~empty
  /\ buf' = [buf EXCEPT ![head] = value]
  /\ UNCHANGED <<head, count, seq_num>>

\* Mutant: the head does not wrap around.
pop_front_NoWrap ==
  /\ ~empty
  /\ count' = count - 1
  /\ head' = head + 1
  /\ UNCHANGED <<buf, seq_num>>

pop_front ==
  /\ ~empty
  /\ count' = count - 1
  /\ head' = Position(1)
  /\ UNCHANGED <<buf, seq_num>>

revert_pushes(desired_len) ==
  /\ desired_len <= count
  /\ count' = desired_len
  /\ seq_num' = seq_num - (count - desired_len)
  /\ UNCHANGED <<buf, head>>

Next ==
  \/ \E value \in Items : push_back(value) \/ peek_front_mut(value)
  \/ pop_front
  \/ \E desired_len \in 0 .. Cap : revert_pushes(desired_len)

Spec == Init /\ [][Next]_vars

-----------------------------------------------------------------------------
(* The queue as the program sees it                                        *)

\* The items that iter() yields.
Contents == [i \in 1 .. count |-> buf[Position(i - 1)]]

\* The number of the item at the front.
FrontNumber == seq_num - count

Bounded == INSTANCE BoundedQueue WITH queue <- Contents, popped <- FrontNumber

\* The ring buffer implements the bounded sequence that the matching relies
\* on, through every wrap around the end of the account: no item is lost,
\* repeated or read in another order, and no number is given twice.
IsBoundedQueue == Bounded!Spec

-----------------------------------------------------------------------------
(* The queue as the crank sees it                                          *)

\* How many items parse_event_queue takes the account for.
EventsSeen == BufWords \div EventWords

\* Length of the segment that begins at head; the rest of the items are at
\* the beginning of the account.
HeadLen == IF EventsSeen - head <= count THEN EventsSeen - head ELSE count

\* Mutant: the segment at the beginning of the account comes first.
Segments_TailFirst ==
  [i \in 1 .. count - HeadLen |-> buf[i - 1]]
  \o [i \in 1 .. HeadLen |-> buf[(head + i) - 1]]

\* The two segments of an event queue, in the order the crank reads them.
Segments ==
  [i \in 1 .. HeadLen |-> buf[(head + i) - 1]]
  \o [i \in 1 .. count - HeadLen |-> buf[i - 1]]

\* Both slices of parse_event_queue lie within the array; else it panics.
SegmentsExist == head <= EventsSeen /\ count - HeadLen <= head

\* What the crank reads of an event queue is what the program will consume,
\* in that order.
CrankReadsQueue == Segments = Contents

\* consume_events_loop reports the "Size of request queue" in every round
\* (crank/src/lib.rs:520), so that it can read any request queue.  It reads
\* it with parse_event_queue, as if its items were events.
RequestQueueReadable == SegmentsExist
=============================================================================
