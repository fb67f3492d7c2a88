----------------------------- MODULE OrderedMap -----------------------------
(***************************************************************************)
(* What one side of the order book promises the matching: a map from order *)
(* ids to orders with room for Cap of them, that finds the least and the   *)
(* greatest id, and that is as it was when it refuses an order.            *)
(***************************************************************************)
EXTENDS Integers, FiniteSets

CONSTANTS Keys, Orders, None, OutOfSpace, Cap

VARIABLES
  orders,   \* the orders in the map, no two with the same key
  last      \* the last call: what was asked, and the answer

Init == orders = {} /\ last = <<"new", None, None>>

With(key) == {o \in orders : o.key = key}

IsMin(order) == \A o \in orders : order.key <= o.key
IsMax(order) == \A o \in orders : order.key >= o.key
Best(find_max) ==
  {o \in orders : IF find_max THEN IsMax(o) ELSE IsMin(o)}

Called(op, arg) == last' = <<op, arg, last'[3]>>

\* A call answers with the only order of a set, or with none.
Answers(set) == IF set = {} THEN last'[3] = None ELSE last'[3] \in set

\* The answer is the order that had this key before.
Insert(order) ==
  /\ Called("insert_leaf", order)
  /\ Answers(With(order.key))
  /\ With(order.key) # {} \/ Cardinality(orders) < Cap
  /\ orders' = (orders \ With(order.key)) \union {order}

Refuse(order) ==
  /\ last' = <<"insert_leaf", order, OutOfSpace>>
  /\ With(order.key) = {} /\ Cardinality(orders) >= Cap
  /\ UNCHANGED orders

Remove(key) ==
  /\ Called("remove_by_key", key)
  /\ Answers(With(key))
  /\ orders' = orders \ With(key)

\* The least aggressive order of a side is booted.
RemoveBest(find_max) ==
  /\ Called("remove_min_max", find_max)
  /\ Answers(Best(find_max))
  /\ orders' = orders \ Best(find_max)

\* The best order of a side is looked at.
Find(find_max) ==
  /\ Called("find_min_max", find_max)
  /\ Answers(Best(find_max))
  /\ UNCHANGED orders

\* The best order of a side is written through its handle.
Update(find_max, order) ==
  /\ last' = <<"quantity_mut", find_max, order>>
  /\ \E o \in Best(find_max) : order.key = o.key
  /\ orders' = (orders \ Best(find_max)) \union {order}

Next ==
  \/ \E order \in Orders : Insert(order) \/ Refuse(order)
  \/ \E key \in Keys : Remove(key)
  \/ \E find_max \in BOOLEAN :
       \/ RemoveBest(find_max) \/ Find(find_max)
       \/ \E order \in Orders : Update(find_max, order)

Spec == Init /\ [][Next]_<<orders, last>>
=============================================================================
