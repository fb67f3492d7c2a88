---------------------------- MODULE BoundedQueue ----------------------------
(***************************************************************************)
(* What a queue account promises its users: a sequence of at most Cap      *)
(* items, written at the back and taken from the front, and for each item  *)
(* the number under which it was pushed.                                   *)
(***************************************************************************)
EXTENDS Integers, Sequences

CONSTANTS Items, Cap

VARIABLES
  queue,   \* the items, oldest first
  popped   \* how many items were taken: the number of the one at the front

Init == queue = <<>> /\ popped = 0

Push(item) ==
  /\ Len(queue) < Cap
  /\ queue' = Append(queue, item)
  /\ UNCHANGED popped

Pop ==
  /\ queue # <<>>
  /\ queue' = Tail(queue)
  /\ popped' = popped + 1

Replace(item) ==
  /\ queue # <<>>
  /\ queue' = [queue EXCEPT ![1] = item]
  /\ UNCHANGED popped

\* The last pushes are taken back.
Revert(len) ==
  /\ len <= Len(queue)
  /\ queue' = SubSeq(queue, 1, len)
  /\ UNCHANGED popped

Next ==
  \/ \E item \in Items : Push(item) \/ Replace(item)
  \/ Pop
  \/ \E len \in 0 .. Cap : Revert(len)

Spec == Init /\ [][Next]_<<queue, popped>>
=============================================================================
