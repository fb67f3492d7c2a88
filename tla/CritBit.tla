------------------------------ MODULE CritBit ------------------------------
(***************************************************************************)
(* The slab that holds one side of the order book (dex/src/critbit.rs): an *)
(* array of nodes in an account, handed out from a free list or past a     *)
(* bump index, and in it a binary tree that branches at the first bit in   *)
(* which the ids below it differ.  A subtree has the handle of its root,   *)
(* so that inserting and removing rewrite nodes in place.                  *)
(***************************************************************************)
EXTENDS Integers, FiniteSets

CONSTANTS
  NumNodes,     \* nodes of the account
  KeyBits,      \* bits of an order id: 128
  Keys,         \* the order ids
  Quantities,   \* quantities of an order
  None,         \* the answer without an order
  OutOfSpace    \* SlabTreeError::OutOfSpace

\* assert_minimum_capacity asks for more than 200 nodes.
ASSUME SlabAssumption ==
  /\ NumNodes \in Nat \ {0} /\ KeyBits \in Nat \ {0}
  /\ Keys \subseteq 0 .. 2 ^ KeyBits - 1
  /\ None # OutOfSpace

Handles == 0 .. NumNodes - 1

-----------------------------------------------------------------------------
(* Keys and nodes                                                          *)

\* Bit i of a key, counted from the most significant one.
Bit(key, i) == (key \div 2 ^ (KeyBits - 1 - i)) % 2

\* (k ^ l).leading_zeros() of two different keys.
SharedPrefix(k, l) ==
  CHOOSE n \in 0 .. KeyBits - 1 :
    Bit(k, n) # Bit(l, n) /\ \A i \in 0 .. n - 1 : Bit(k, i) = Bit(l, i)

LeafNode == [tag : {"Leaf"}, key : Keys, quantity : Quantities]

InnerNode == [tag : {"Inner"}, prefix_len : 0 .. KeyBits - 1, key : Keys,
              children : [{0, 1} -> Handles]]

FreeNode == [tag : {"Free", "LastFree"}, next : Handles]

Uninitialized == [tag |-> "Uninitialized"]

\* The other answers are none of the orders.
ASSUME AnswersAssumption == {None, OutOfSpace} \cap LeafNode = {}

VARIABLES
  slab,      \* header and nodes of the account
  last       \* the last call: what was asked, and the answer

vars == <<slab, last>>

Node == LeafNode \union InnerNode \union FreeNode \union {Uninitialized}

Slab ==
  [nodes : [Handles -> Node], bump_index : 0 .. NumNodes,
   free_list_len : 0 .. NumNodes, free_list_head : Handles,
   root_node : Handles, leaf_count : 0 .. NumNodes]

\* Handles and counts never leave the array of nodes, whose bounds the account
\* sets.
TypeOK ==
  /\ slab \in Slab /\ slab.free_list_len <= slab.bump_index
  /\ last[3] \in LeafNode \union {None, OutOfSpace}

\* The zeroed account that initialize_market finds.
Init ==
  /\ slab = [nodes |-> [h \in Handles |-> Uninitialized], bump_index |-> 0,
             free_list_len |-> 0, free_list_head |-> 0,
             root_node |-> 0, leaf_count |-> 0]
  /\ last = <<"new", None, None>>

-----------------------------------------------------------------------------
(* The slab: SlabView<AnyNode>                                             *)

\* Mutant: a slab without a free node hands out one more.
CanInsert_Past(s) == TRUE

\* An account is far too small for the other limit, 2^32 - 1 nodes.
CanInsert(s) == s.free_list_len > 0 \/ s.bump_index < NumNodes

\* The handle that insert returns.
NextHandle(s) == IF s.free_list_len > 0 THEN s.free_list_head ELSE s.bump_index

insert(s, val) ==
  LET h == NextHandle(s)
  IN  IF s.free_list_len > 0
      THEN [s EXCEPT !.nodes[h] = val, !.free_list_len = @ - 1,
                     !.free_list_head = s.nodes[h].next]
      ELSE [s EXCEPT !.nodes[h] = val, !.bump_index = @ + 1]

remove(s, h) ==
  [s EXCEPT !.nodes[h] =
              [tag |-> IF s.free_list_len = 0 THEN "LastFree" ELSE "Free",
               next |-> s.free_list_head],
            !.free_list_len = @ + 1, !.free_list_head = h]

-----------------------------------------------------------------------------
(* The tree                                                                *)

IsLeaf(s, h) == s.nodes[h].tag = "Leaf"

IsInner(s, h) == s.nodes[h].tag = "Inner"

walk_down(s, h, key) ==
  s.nodes[h].children[Bit(key, s.nodes[h].prefix_len)]

find_min_max(s, find_max) ==
  LET down[h \in Handles] ==
        IF IsInner(s, h)
        THEN down[s.nodes[h].children[IF find_max THEN 1 ELSE 0]] ELSE h
  IN  down[s.root_node]

\* Mutant: a key that leaves the prefix where the node branches goes on down.
KeepsRoot_Late(s, h, key) ==
  \/ s.nodes[h].key = key
  \/ SharedPrefix(s.nodes[h].key, key) + 1 >= s.nodes[h].prefix_len

\* The key belongs below the inner node h.
KeepsRoot(s, h, key) ==
  \/ s.nodes[h].key = key
  \/ SharedPrefix(s.nodes[h].key, key) >= s.nodes[h].prefix_len

\* The node that the new leaf replaces, or whose place its parent takes.
InsertionPoint(s, key) ==
  LET down[h \in Handles] ==
        IF IsInner(s, h) /\ KeepsRoot(s, h, key)
        THEN down[walk_down(s, h, key)] ELSE h
  IN  down[s.root_node]

\* Mutant: the leaf stays allocated.
GiveBack_Leaks(s, h) == [slab |-> s, returned |-> OutOfSpace]

\* There is a node for the leaf, but none for its parent.
GiveBack(s, h) == [slab |-> remove(s, h), returned |-> OutOfSpace]

\* A new inner node takes the place of h, above the leaf and the old h.
split(s, h, leaf) ==
  LET with_leaf == insert(s, leaf)
      p == SharedPrefix(s.nodes[h].key, leaf.key)
      b == Bit(leaf.key, p)
      moved == insert(with_leaf, s.nodes[h])
  IN  IF ~CanInsert(s) THEN [slab |-> s, returned |-> OutOfSpace]
      ELSE IF ~CanInsert(with_leaf)
      THEN GiveBack(with_leaf, NextHandle(s))
      ELSE [slab |-> [moved EXCEPT
                        !.nodes[h] = [tag |-> "Inner", prefix_len |-> p,
                                      key |-> leaf.key,
                                      children |-> [c \in {0, 1} |->
                                        IF c = b THEN NextHandle(s)
                                        ELSE NextHandle(with_leaf)]],
                        !.leaf_count = @ + 1],
            returned |-> None]

insert_leaf(s, leaf) ==
  LET h == InsertionPoint(s, leaf.key)
  IN  IF s.leaf_count = 0
      THEN IF CanInsert(s)
           THEN [slab |-> [insert(s, leaf) EXCEPT !.root_node = NextHandle(s),
                                                  !.leaf_count = 1],
                 returned |-> None]
           ELSE [slab |-> s, returned |-> OutOfSpace]
      ELSE IF IsLeaf(s, h) /\ s.nodes[h].key = leaf.key
      THEN [slab |-> [s EXCEPT !.nodes[h] = leaf], returned |-> s.nodes[h]]
      ELSE split(s, h, leaf)

\* The parent of the leaf at which the search for a key ends.
ParentOf(s, key) ==
  LET down[h \in Handles] ==
        IF IsInner(s, h) /\ IsInner(s, walk_down(s, h, key))
        THEN down[walk_down(s, h, key)] ELSE h
  IN  down[s.root_node]

\* Mutant: the sibling that moved into the place of its parent is not freed.
merge_KeepsSibling(s, parent, key) ==
  LET other == s.nodes[parent].children[1 - Bit(key, s.nodes[parent].prefix_len)]
  IN  remove([s EXCEPT !.nodes[parent] = s.nodes[other], !.leaf_count = @ - 1],
             walk_down(s, parent, key))

\* The sibling of the removed leaf takes the place of their parent.
merge(s, parent, key) ==
  LET other == s.nodes[parent].children[1 - Bit(key, s.nodes[parent].prefix_len)]
  IN  remove([remove(s, other) EXCEPT !.nodes[parent] = s.nodes[other],
                                      !.leaf_count = @ - 1],
             walk_down(s, parent, key))

remove_by_key(s, search_key) ==
  LET parent == ParentOf(s, search_key)
      child == walk_down(s, parent, search_key)
      found == IF IsLeaf(s, s.root_node) THEN s.root_node ELSE child
  IN  IF s.leaf_count = 0 \/ s.nodes[found].key # search_key
      THEN [slab |-> s, returned |-> None]
      ELSE IF IsLeaf(s, s.root_node)
      THEN [slab |-> remove([s EXCEPT !.root_node = 0, !.leaf_count = 0],
                            s.root_node),
            returned |-> s.nodes[found]]
      ELSE [slab |-> merge(s, parent, search_key), returned |-> s.nodes[found]]

\* remove_min and remove_max
remove_min_max(s, find_max) ==
  IF s.leaf_count = 0 THEN [slab |-> s, returned |-> None]
  ELSE remove_by_key(s, s.nodes[find_min_max(s, find_max)].key)

-----------------------------------------------------------------------------
(* The operations of the matching                                          *)

Call(op, arg, result) ==
  slab' = result.slab /\ last' = <<op, arg, result.returned>>

InsertLeaf(leaf) == Call("insert_leaf", leaf, insert_leaf(slab, leaf))

RemoveByKey(key) == Call("remove_by_key", key, remove_by_key(slab, key))

RemoveMinMax(find_max) ==
  Call("remove_min_max", find_max, remove_min_max(slab, find_max))

FindMinMax(find_max) ==
  /\ last' = <<"find_min_max", find_max,
               IF slab.leaf_count = 0 THEN None
               ELSE slab.nodes[find_min_max(slab, find_max)]>>
  /\ UNCHANGED slab

\* A trade writes what is left of the order through its handle.
QuantityMut(find_max, quantity) ==
  LET h == find_min_max(slab, find_max)
  IN  /\ slab.leaf_count # 0
      /\ slab' = [slab EXCEPT !.nodes[h].quantity = quantity]
      /\ last' = <<"quantity_mut", find_max, slab'.nodes[h]>>

Next ==
  \/ \E leaf \in LeafNode : InsertLeaf(leaf)
  \/ \E key \in Keys : RemoveByKey(key)
  \/ \E find_max \in BOOLEAN :
       \/ RemoveMinMax(find_max)
       \/ FindMinMax(find_max)
       \/ \E quantity \in Quantities : QuantityMut(find_max, quantity)

Spec == Init /\ [][Next]_vars

-----------------------------------------------------------------------------
(* Properties                                                              *)

Tagged(tags) == {h \in Handles : slab.nodes[h].tag \in tags}

Leaves == {slab.nodes[h] : h \in Tagged({"Leaf"})}

\* The ids below a node agree with its key up to the bit at which it branches
\* and have that bit of their side: with this, the search that compares no
\* prefix on its way down ends at the only leaf that can have the id.
TreeBranches ==
  \A h \in Tagged({"Inner"}), c \in {0, 1} :
    LET node == slab.nodes[h]
        child == slab.nodes[node.children[c]]
    IN  /\ child.tag \in {"Inner", "Leaf"}
        /\ child.tag = "Inner" => child.prefix_len > node.prefix_len
        /\ Bit(child.key, node.prefix_len) = c
        /\ \A i \in 0 .. node.prefix_len - 1 : Bit(child.key, i) = Bit(node.key, i)

\* Every node that was ever handed out is either in the tree, below exactly
\* one parent unless it is the root, or free: none is lost when an insertion
\* fails halfway or a node moves into the place of its parent.
NodesAccounted ==
  LET inTree == Tagged({"Inner", "Leaf"})
      root == IF slab.leaf_count = 0 THEN {} ELSE {slab.root_node}
      free == Tagged({"Free", "LastFree"})
  IN  /\ inTree \union free = 0 .. slab.bump_index - 1
      /\ root \subseteq inTree
      /\ \A h \in inTree :
           Cardinality({e \in Tagged({"Inner"}) \X {0, 1} :
                          slab.nodes[e[1]].children[e[2]] = h})
             = IF h \in root THEN 0 ELSE 1
      /\ Cardinality(free) = slab.free_list_len

\* The free list runs through every free node and ends at the one marked as
\* the last: what the assertions of insert rely on.
FreeListEnds ==
  LET at[i \in 0 .. slab.free_list_len - 1] ==
        IF i = 0 THEN slab.free_list_head ELSE slab.nodes[at[i - 1]].next
  IN  \A i \in 0 .. slab.free_list_len - 1 :
        /\ slab.nodes[at[i]].tag =
             IF i = slab.free_list_len - 1 THEN "LastFree" ELSE "Free"
        /\ \A j \in 0 .. i - 1 : at[i] # at[j]

\* leaf_count, which decides whether there is a root at all, counts the leaves.
LeavesCounted == slab.leaf_count = Cardinality(Tagged({"Leaf"}))

\* What Slab::check_invariants of the tests samples, and that the nodes make one
\* tree and one free list: the four of them, after every call.
check_invariants == TreeBranches /\ NodesAccounted /\ FreeListEnds /\ LeavesCounted

\* When an order does not fit, booting the least aggressive one makes room for
\* it, so the unwrap of the second insertion in new_ask and new_bid does not
\* panic.
BootMakesRoom ==
  \A leaf \in LeafNode, find_max \in BOOLEAN :
    insert_leaf(slab, leaf).returned = OutOfSpace
      => LET booted == remove_min_max(slab, find_max)
         IN  /\ booted.returned # None
             /\ insert_leaf(booted.slab, leaf).returned # OutOfSpace

Map == INSTANCE OrderedMap
         WITH Orders <- LeafNode, Cap <- (NumNodes + 1) \div 2, orders <- Leaves

\* The slab implements an ordered map with room for every second node: it
\* finds, replaces, refuses and removes the right order whatever calls came
\* before, and a refused order leaves the map as it was.
IsOrderedMap == Map!Spec
=============================================================================
