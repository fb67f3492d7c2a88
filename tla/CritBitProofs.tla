---------------------------- MODULE CritBitProofs ----------------------------
(***************************************************************************)
(* The slab is sound after every call and implements the ordered map, for  *)
(* every number of nodes, every length of the ids and every set of them.   *)
(*                                                                         *)
(* The order of the argument: what bits say of keys; the pool of nodes,    *)
(* whose free ones make a list; the tree, and the walks down from its      *)
(* root, recursive functions that exist whatever the nodes hold (Descent   *)
(* of module Lemmas); where they end in a tree, in which each branch tests *)
(* a later bit than the one above (Finds, MinMax, InsertAt, ParentAt);     *)
(* what a split and a merge leave of the tree; and what each call does to  *)
(* the orders in it.                                                       *)
(***************************************************************************)
EXTENDS CritBit, Lemmas

-----------------------------------------------------------------------------
(* The bits of a key                                                       *)

Key == 0 .. 2 ^ KeyBits - 1

\* The number that the first n bits of a key make.
High(k, n) == k \div 2 ^ (KeyBits - n)

\* Two keys have the first n bits in common.
Agree(k, l, n) == \A i \in 0 .. n - 1 : Bit(k, i) = Bit(l, i)

\* Ids are keys, and keys are natural numbers.
LEMMA KeyTypes ==
  /\ KeyBits \in Nat \ {0} /\ Keys \subseteq Key
  /\ \A k \in Key : k \in Nat
  BY SlabAssumption, PowerOfTwo DEF Key

\* Each bit doubles the number that the bits before it make, and is added.
LEMMA NextBit ==
  ASSUME NEW k \in Key, NEW n \in 0 .. KeyBits - 1
  PROVE  /\ Bit(k, n) \in {0, 1}
         /\ High(k, n) \in Nat /\ High(k, n + 1) \in Nat
         /\ High(k, n + 1) = 2 * High(k, n) + Bit(k, n)
<1> DEFINE m == KeyBits - 1 - n
           P == 2 ^ m
           q == k \div P
           a == q \div 2
           b == q % 2
<1>1. KeyBits \in Nat /\ k \in Nat /\ n \in Int
  BY KeyTypes
<1>2. m \in Nat /\ KeyBits - n = m + 1 /\ KeyBits - (n + 1) = m
  BY <1>1
<1>3. P \in Nat \ {0} /\ 2 ^ (KeyBits - n) = 2 * P
  <2> HIDE DEF m
  <2> QED BY <1>2, PowerOfTwo
<1>4. q \in Nat /\ q * P <= k /\ k < q * P + P
  <2> HIDE DEF P
  <2>1. k \in Int /\ k >= 0
    BY <1>1
  <2>2. q \in Int /\ q >= 0
    BY <1>3, <2>1, QuotientAtLeast0
  <2>3. (k \div P) * P <= k /\ k < (k \div P) * P + P
    BY <1>3, <2>1, Quotient
  <2> QED BY <2>2, <2>3
<1>5. a \in Nat /\ b \in {0, 1} /\ q = 2 * a + b
  <2> HIDE DEF q
  <2> QED BY <1>4
<1>6. k \div (2 * P) = a
  <2> HIDE DEF P, q, a, b
  <2> DEFINE aP == a * P
             bP == b * P
  <2>1. q * P = 2 * aP + bP /\ aP \in Nat /\ bP \in {0, P}
    BY <1>3, <1>5
  <2>2. a * (2 * P) = 2 * aP /\ (a + 1) * (2 * P) = 2 * aP + 2 * P
    BY <1>3, <1>5
  <2>3. 2 * aP <= k /\ k < 2 * aP + 2 * P
    <3> HIDE DEF aP, bP
    <3> QED BY <1>1, <1>3, <1>4, <2>1
  <2>4. 2 * P \in Nat \ {0}
    BY <1>3
  <2> HIDE DEF aP, bP
  <2> QED BY <1>1, <1>5, <2>2, <2>3, <2>4, QuotientUnique
<1>7. High(k, n) = a /\ High(k, n + 1) = q /\ Bit(k, n) = b
  <2>1. High(k, n) = k \div 2 ^ (KeyBits - n)
    BY DEF High
  <2>2. High(k, n + 1) = q
    BY <1>2 DEF High
  <2> HIDE DEF a
  <2> QED BY <1>3, <1>6, <2>1, <2>2 DEF Bit
<1> HIDE DEF q, a, b
<1> QED BY <1>4, <1>5, <1>7

\* No bits make zero, and all of them the key.
LEMMA NoBits ==
  ASSUME NEW k \in Key
  PROVE  High(k, 0) = 0 /\ High(k, KeyBits) = k
<1>1. 2 ^ KeyBits \in Nat \ {0} /\ k \in Nat /\ k < 2 ^ KeyBits /\ KeyBits \in Nat
  BY KeyTypes, PowerOfTwo DEF Key
<1>2. KeyBits - 0 = KeyBits /\ KeyBits - KeyBits = 0
  BY <1>1
<1>3. 2 ^ 0 = 1
  OBVIOUS
<1>4. k \div 1 = k
  BY <1>1
<1>5. k \div 2 ^ KeyBits = 0
  <2> DEFINE P == 2 ^ KeyBits
  <2> HIDE DEF P
  <2>1. P \in Nat \ {0} /\ k \in Nat /\ k < P
    BY <1>1 DEF P
  <2>2. k \div P = 0
    BY <2>1, QuotientUnique
  <2> QED BY <2>2 DEF P
<1> QED BY <1>2, <1>3, <1>4, <1>5 DEF High

\* Keys that agree in their first bits have the same number there.
LEMMA AgreeHigh ==
  ASSUME NEW k \in Key, NEW l \in Key, NEW n \in 0 .. KeyBits, Agree(k, l, n)
  PROVE  High(k, n) = High(l, n)
<1> DEFINE T == {i \in 0 .. n : High(k, i) = High(l, i)}
<1>1. KeyBits \in Nat /\ n \in Nat
  BY KeyTypes
<1>2. 0 \in T
  BY <1>1, NoBits
<1>3. ASSUME NEW i \in 0 .. n, i + 1 \in 0 .. n, i \in T
      PROVE  i + 1 \in T
  <2>1. i \in 0 .. KeyBits - 1 /\ i \in 0 .. n - 1
    BY <1>1, <1>3
  <2>2. Bit(k, i) = Bit(l, i)
    BY <2>1 DEF Agree
  <2>3. /\ High(k, i + 1) = 2 * High(k, i) + Bit(k, i)
        /\ High(l, i + 1) = 2 * High(l, i) + Bit(l, i)
    BY <2>1, NextBit
  <2> QED BY <1>3, <2>2, <2>3
<1>4. \A i \in 0 .. n : i \in T
  <2> HIDE DEF T
  <2> QED BY <1>1, <1>2, <1>3, UpTo
<1>5. n \in 0 .. n
  BY <1>1
<1> QED BY <1>4, <1>5

\* Keys that have all bits in common are equal.
LEMMA AgreeAll ==
  ASSUME NEW k \in Key, NEW l \in Key, Agree(k, l, KeyBits)
  PROVE  k = l
<1>1. KeyBits \in 0 .. KeyBits
  BY KeyTypes
<1> QED BY <1>1, AgreeHigh, NoBits

\* The first different bit decides which key is less.
LEMMA FirstBitDecides ==
  ASSUME NEW k \in Key, NEW l \in Key, NEW n \in 0 .. KeyBits - 1,
         Agree(k, l, n), Bit(k, n) = 0, Bit(l, n) = 1
  PROVE  k < l
<1>1. KeyBits \in Nat /\ n \in 0 .. KeyBits /\ k \in Nat /\ l \in Nat
  BY KeyTypes
<1> DEFINE P == 2 ^ (KeyBits - (n + 1))
           q == High(k, n + 1)
           r == High(l, n + 1)
<1>2. P \in Nat \ {0}
  <2>1. KeyBits - (n + 1) \in Nat
    BY <1>1
  <2> QED BY <2>1, PowerOfTwo
<1>3. q \in Nat /\ r = q + 1
  BY <1>1, AgreeHigh, NextBit
<1>4. q = k \div P /\ r = l \div P
  BY DEF High
<1>5. k < q * P + P /\ r * P <= l
  <2> HIDE DEF P, q, r
  <2>1. k \in Int /\ l \in Int
    BY <1>1
  <2>2. k < (k \div P) * P + P /\ (l \div P) * P <= l
    BY <1>2, <2>1, Quotient
  <2> QED BY <1>4, <2>2
<1>6. r * P = q * P + P /\ q * P \in Nat
  <2> HIDE DEF P, q, r
  <2> QED BY <1>2, <1>3
<1> DEFINE qP == q * P
           rP == r * P
<1> HIDE DEF P, q, r
<1>7. k < qP + P /\ rP <= l /\ rP = qP + P /\ qP \in Nat
  BY <1>5, <1>6
<1> HIDE DEF qP, rP
<1> QED BY <1>1, <1>2, <1>7

\* SharedPrefix is where two keys first differ.
LEMMA Differ ==
  ASSUME NEW k \in Key, NEW l \in Key, k # l
  PROVE  /\ SharedPrefix(k, l) \in 0 .. KeyBits - 1
         /\ Bit(k, SharedPrefix(k, l)) # Bit(l, SharedPrefix(k, l))
         /\ Agree(k, l, SharedPrefix(k, l))
         /\ \A n \in 0 .. KeyBits - 1 :
              Agree(k, l, n) <=> SharedPrefix(k, l) >= n
<1> DEFINE Bad == {i \in 0 .. KeyBits - 1 : Bit(k, i) # Bit(l, i)}
<1>0. KeyBits \in Nat
  BY KeyTypes
<1>1. Bad # {} /\ Bad \subseteq Nat
  <2>1. ~Agree(k, l, KeyBits)
    BY AgreeAll
  <2> QED BY <1>0, <2>1 DEF Agree
<1>2. PICK p \in Bad : \A i \in Bad : p <= i
  <2> HIDE DEF Bad
  <2> QED BY <1>1, LeastNat
<1>3. Bit(k, p) # Bit(l, p) /\ \A i \in 0 .. p - 1 : Bit(k, i) = Bit(l, i)
  <2>1. \A i \in 0 .. p - 1 : i \in 0 .. KeyBits - 1 /\ ~(p <= i)
    BY <1>0
  <2> QED BY <1>2, <2>1
<1>4. /\ SharedPrefix(k, l) \in 0 .. KeyBits - 1
      /\ Bit(k, SharedPrefix(k, l)) # Bit(l, SharedPrefix(k, l))
      /\ \A i \in 0 .. SharedPrefix(k, l) - 1 : Bit(k, i) = Bit(l, i)
  BY <1>3 DEF SharedPrefix
<1> DEFINE s == SharedPrefix(k, l)
<1>5. ASSUME NEW n \in 0 .. KeyBits - 1
      PROVE  Agree(k, l, n) <=> s >= n
  <2>1. ASSUME Agree(k, l, n), ~(s >= n) PROVE FALSE
    <3>1. s \in 0 .. n - 1
      BY <1>0, <1>4, <2>1
    <3> QED BY <1>4, <2>1, <3>1 DEF Agree
  <2>2. ASSUME s >= n PROVE Agree(k, l, n)
    <3>1. \A i \in 0 .. n - 1 : i \in 0 .. s - 1
      BY <1>0, <1>4, <2>2
    <3> QED BY <1>4, <3>1 DEF Agree
  <2> QED BY <2>1, <2>2
<1> QED BY <1>4, <1>5 DEF Agree

-----------------------------------------------------------------------------
(* The nodes of the account: those of the tree, and the free list          *)

InnersOf(n) == {h \in Handles : n[h].tag = "Inner"}
LeavesOf(n) == {h \in Handles : n[h].tag = "Leaf"}
Used(n) == {h \in Handles : n[h].tag \in {"Inner", "Leaf"}}
FreeOf(n) == {h \in Handles : n[h].tag \in {"Free", "LastFree"}}

UsedNode == LeafNode \union InnerNode

\* q lists the free nodes from the head of the list.
Chain(s, q) ==
  /\ \A i \in 0 .. s.free_list_len - 1 :
       /\ q[i] = IF i = 0 THEN s.free_list_head ELSE s.nodes[q[i - 1]].next
       /\ s.nodes[q[i]].tag =
            IF i = s.free_list_len - 1 THEN "LastFree" ELSE "Free"
  /\ \A i, j \in 0 .. s.free_list_len - 1 : q[i] = q[j] => i = j

FreeList(s) == \E q \in [0 .. s.free_list_len - 1 -> Handles] : Chain(s, q)

\* Every node handed out is in use or free, and the free ones make a list.
Pool(s) ==
  /\ s \in Slab
  /\ Used(s.nodes) \union FreeOf(s.nodes) = 0 .. s.bump_index - 1
  /\ Cardinality(FreeOf(s.nodes)) = s.free_list_len
  /\ FreeList(s)

\* What the tag of a node says of it.
LEMMA Tags ==
  ASSUME NEW v \in Node
  PROVE  /\ v.tag = "Leaf" <=> v \in LeafNode
         /\ v.tag = "Inner" <=> v \in InnerNode
         /\ v.tag \in {"Inner", "Leaf"} <=> v \in UsedNode
         /\ v.tag \in {"Free", "LastFree"} => v \in FreeNode /\ v.next \in Handles
         /\ v.tag \notin {"Free", "LastFree"} \/ v.tag \notin {"Inner", "Leaf"}
  BY DEF Node, LeafNode, InnerNode, FreeNode, Uninitialized, UsedNode

\* There are finitely many nodes.
LEMMA HandlesFinite ==
  /\ IsFiniteSet(Handles) /\ NumNodes \in Nat \ {0} /\ 0 \in Handles
  /\ \A n : IsFiniteSet(Used(n)) /\ IsFiniteSet(FreeOf(n)) /\ IsFiniteSet(LeavesOf(n))
            /\ IsFiniteSet(InnersOf(n))
<1>1. NumNodes \in Nat \ {0} /\ 0 \in Int /\ NumNodes - 1 \in Int
  BY SlabAssumption
<1>2. IsFiniteSet(Handles)
  BY <1>1, FS_Interval DEF Handles
<1>3. \A n : Used(n) \subseteq Handles /\ FreeOf(n) \subseteq Handles
             /\ LeavesOf(n) \subseteq Handles /\ InnersOf(n) \subseteq Handles
  BY DEF Used, FreeOf, LeavesOf, InnersOf
<1>4. 0 \in Handles
  BY <1>1 DEF Handles
<1> QED BY <1>1, <1>2, <1>3, <1>4, FS_Subset

\* Fields of a slab.
LEMMA SlabFields ==
  ASSUME NEW s \in Slab
  PROVE  /\ s.nodes \in [Handles -> Node]
         /\ s.bump_index \in Nat /\ s.bump_index <= NumNodes
         /\ s.free_list_len \in Nat /\ s.free_list_len <= NumNodes
         /\ s.free_list_head \in Handles /\ s.root_node \in Handles
         /\ s.leaf_count \in Nat /\ s.leaf_count <= NumNodes
  BY HandlesFinite DEF Slab

\* How many nodes are in use.
LEMMA PoolCounts ==
  ASSUME NEW s, Pool(s)
  PROVE  /\ Cardinality(Used(s.nodes)) \in Nat
         /\ Cardinality(Used(s.nodes)) = s.bump_index - s.free_list_len
         /\ s.free_list_len <= s.bump_index
         /\ Used(s.nodes) \cap FreeOf(s.nodes) = {}
<1>0. s \in Slab
  BY DEF Pool
<1> USE SlabFields
<1>1. Used(s.nodes) \cap FreeOf(s.nodes) = {}
  BY <1>0, Tags DEF Used, FreeOf
<1>2. 0 \in Int /\ s.bump_index - 1 \in Int
  BY <1>0
<1>3. Cardinality(0 .. s.bump_index - 1) = s.bump_index
  <2>1. Cardinality(0 .. s.bump_index - 1)
          = IF 0 > s.bump_index - 1 THEN 0 ELSE (s.bump_index - 1) - 0 + 1
    BY <1>2, FS_Interval
  <2> QED BY <1>0, <2>1
<1>4. /\ Cardinality(Used(s.nodes)) \in Nat
      /\ Cardinality(FreeOf(s.nodes)) \in Nat
      /\ Cardinality(Used(s.nodes) \cap FreeOf(s.nodes)) = 0
  BY <1>1, HandlesFinite, FS_CardinalityType, FS_EmptySet
<1>5. Cardinality(Used(s.nodes) \cup FreeOf(s.nodes))
        = Cardinality(Used(s.nodes)) + Cardinality(FreeOf(s.nodes))
            - Cardinality(Used(s.nodes) \cap FreeOf(s.nodes))
  BY HandlesFinite, FS_Union
<1>6. /\ Used(s.nodes) \cup FreeOf(s.nodes) = 0 .. s.bump_index - 1
      /\ Cardinality(FreeOf(s.nodes)) = s.free_list_len
  BY DEF Pool
<1>7. s.bump_index
        = Cardinality(Used(s.nodes)) + Cardinality(FreeOf(s.nodes)) - 0
  BY <1>3, <1>4, <1>5, <1>6
<1>8. s.bump_index \in Nat
  BY <1>0
<1> QED BY <1>1, <1>4, <1>6, <1>7, <1>8

\* Only node h is written.
Writes(n, w, h, v) == w = [n EXCEPT ![h] = v]

\* What happens to the two kinds of nodes when one is written.
LEMMA Written ==
  ASSUME NEW n \in [Handles -> Node], NEW h \in Handles, NEW v \in Node,
         NEW w, Writes(n, w, h, v)
  PROVE  /\ w \in [Handles -> Node] /\ w[h] = v
         /\ \A x \in Handles \ {h} : w[x] = n[x]
         /\ v \in UsedNode => /\ Used(w) = Used(n) \union {h}
                              /\ FreeOf(w) = FreeOf(n) \ {h}
         /\ v \in FreeNode => /\ Used(w) = Used(n) \ {h}
                              /\ FreeOf(w) = FreeOf(n) \union {h}
<1>1. w \in [Handles -> Node] /\ w[h] = v /\ \A x \in Handles \ {h} : w[x] = n[x]
  BY DEF Writes
<1>2. v \in UsedNode => v.tag \in {"Inner", "Leaf"} /\ v.tag \notin {"Free", "LastFree"}
  BY DEF UsedNode, LeafNode, InnerNode
<1>3. v \in FreeNode => v.tag \notin {"Inner", "Leaf"} /\ v.tag \in {"Free", "LastFree"}
  BY DEF FreeNode
<1>4. v \in UsedNode => Used(w) = Used(n) \union {h} /\ FreeOf(w) = FreeOf(n) \ {h}
  BY <1>1, <1>2 DEF Used, FreeOf
<1>5. v \in FreeNode => Used(w) = Used(n) \ {h} /\ FreeOf(w) = FreeOf(n) \union {h}
  BY <1>1, <1>3 DEF Used, FreeOf
<1> QED BY <1>1, <1>4, <1>5

\* A used node is written, or the tree's part of the header.
LEMMA Rewritten ==
  ASSUME NEW s, Pool(s), NEW t \in Slab,
         \/ t.nodes = s.nodes
         \/ \E h \in Used(s.nodes), v \in UsedNode : Writes(s.nodes, t.nodes, h, v),
         t.bump_index = s.bump_index, t.free_list_len = s.free_list_len,
         t.free_list_head = s.free_list_head
  PROVE  Pool(t) /\ Used(t.nodes) = Used(s.nodes)
<1>0. s \in Slab /\ s.nodes \in [Handles -> Node]
  BY SlabFields DEF Pool
<1>1. /\ Used(t.nodes) = Used(s.nodes) /\ FreeOf(t.nodes) = FreeOf(s.nodes)
      /\ \A x \in FreeOf(s.nodes) : t.nodes[x] = s.nodes[x]
  <2>1. CASE t.nodes = s.nodes
    BY <2>1
  <2>2. ASSUME NEW h \in Used(s.nodes), NEW v \in UsedNode,
               Writes(s.nodes, t.nodes, h, v)
        PROVE  /\ Used(t.nodes) = Used(s.nodes) /\ FreeOf(t.nodes) = FreeOf(s.nodes)
               /\ \A x \in FreeOf(s.nodes) : t.nodes[x] = s.nodes[x]
    <3>1. h \in Handles /\ h \notin FreeOf(s.nodes) /\ v \in Node
      BY PoolCounts DEF Used, UsedNode, Node
    <3>2. /\ \A x \in Handles \ {h} : t.nodes[x] = s.nodes[x]
          /\ Used(t.nodes) = Used(s.nodes) \union {h}
          /\ FreeOf(t.nodes) = FreeOf(s.nodes) \ {h}
      BY <1>0, <2>2, <3>1, Written
    <3>3. \A x \in FreeOf(s.nodes) : x \in Handles \ {h}
      BY <3>1 DEF FreeOf
    <3> QED BY <3>1, <3>2, <3>3
  <2> QED BY <2>1, <2>2
<1>2. FreeList(t)
  <2>1. PICK q \in [0 .. s.free_list_len - 1 -> Handles] : Chain(s, q)
    BY DEF Pool, FreeList
  <2> DEFINE L == s.free_list_len
  <2>2. L \in Nat
    BY <1>0, SlabFields
  <2>3. ASSUME NEW i \in 0 .. L - 1 PROVE q[i] \in FreeOf(s.nodes)
    BY <2>1, <2>3 DEF Chain, FreeOf
  <2>4. ASSUME NEW i \in 0 .. L - 1
        PROVE  /\ q[i] = IF i = 0 THEN t.free_list_head ELSE t.nodes[q[i - 1]].next
               /\ t.nodes[q[i]].tag = IF i = L - 1 THEN "LastFree" ELSE "Free"
    <3>1. i # 0 => i - 1 \in 0 .. L - 1
      BY <2>2
    <3>2. i # 0 => t.nodes[q[i - 1]] = s.nodes[q[i - 1]]
      BY <1>1, <2>3, <3>1
    <3>3. t.nodes[q[i]] = s.nodes[q[i]]
      BY <1>1, <2>3
    <3> QED BY <2>1, <3>2, <3>3 DEF Chain
  <2>5. Chain(t, q)
    BY <2>1, <2>4 DEF Chain
  <2> QED BY <2>5 DEF FreeList
<1> QED BY <1>1, <1>2 DEF Pool

\* A node given back is the new head of the free list.
LEMMA Removes ==
  ASSUME NEW s, Pool(s), NEW h \in Used(s.nodes)
  PROVE  /\ Pool(remove(s, h))
         /\ \E f \in FreeNode : Writes(s.nodes, remove(s, h).nodes, h, f)
         /\ Used(remove(s, h).nodes) = Used(s.nodes) \ {h}
         /\ remove(s, h).bump_index = s.bump_index
         /\ remove(s, h).free_list_len = s.free_list_len + 1
         /\ remove(s, h).root_node = s.root_node
         /\ remove(s, h).leaf_count = s.leaf_count
<1> DEFINE f == [tag |-> IF s.free_list_len = 0 THEN "LastFree" ELSE "Free",
                 next |-> s.free_list_head]
           t == remove(s, h)
           n == s.nodes
           w == t.nodes
           L == s.free_list_len
<1>0. s \in Slab /\ s.free_list_len \in Nat /\ s.bump_index \in Nat
      /\ s.bump_index <= NumNodes /\ s.free_list_head \in Handles
      /\ s.nodes \in [Handles -> Node]
  BY SlabFields DEF Pool
<1>1. f \in FreeNode /\ f \in Node /\ h \in Handles /\ h \notin FreeOf(s.nodes)
  <2>1. f \in FreeNode
    BY <1>0 DEF FreeNode
  <2>2. h \in Handles /\ h \notin FreeOf(s.nodes)
    BY PoolCounts DEF Used
  <2> QED BY <2>1, <2>2 DEF Node
<1>2. /\ t = [nodes |-> [n EXCEPT ![h] = f], bump_index |-> s.bump_index,
              free_list_len |-> L + 1, free_list_head |-> h,
              root_node |-> s.root_node, leaf_count |-> s.leaf_count]
  <2>1. t = [s EXCEPT !.nodes[h] = f, !.free_list_len = @ + 1, !.free_list_head = h]
    BY DEF remove
  <2> HIDE DEF f, t
  <2> QED BY <1>0, <2>1 DEF Slab
<1> HIDE DEF f, t
<1>3. /\ t.nodes = [s.nodes EXCEPT ![h] = f] /\ t.bump_index = s.bump_index
      /\ t.free_list_len = L + 1 /\ t.free_list_head = h
      /\ t.root_node = s.root_node /\ t.leaf_count = s.leaf_count
  BY <1>2
<1>4. /\ w \in [Handles -> Node] /\ w[h] = f
      /\ \A x \in Handles \ {h} : w[x] = n[x]
      /\ Used(w) = Used(n) \ {h}
      /\ FreeOf(w) = FreeOf(n) \union {h}
  <2>1. n \in [Handles -> Node] /\ Writes(n, w, h, f)
    BY <1>0, <1>3 DEF Writes
  <2> HIDE DEF n, w
  <2>2. /\ w \in [Handles -> Node] /\ w[h] = f
        /\ \A x \in Handles \ {h} : w[x] = n[x]
        /\ f \in UsedNode => /\ Used(w) = Used(n) \union {h}
                             /\ FreeOf(w) = FreeOf(n) \ {h}
        /\ f \in FreeNode => /\ Used(w) = Used(n) \ {h}
                             /\ FreeOf(w) = FreeOf(n) \union {h}
    BY <1>1, <2>1, Written
  <2> QED BY <1>1, <2>2
<1>5. /\ L + 1 \in 0 .. NumNodes
      /\ Cardinality(FreeOf(w)) = L + 1
  <2>1. Cardinality(Used(n)) = s.bump_index - L /\ Cardinality(Used(n)) \in Nat
    BY PoolCounts
  <2>2. Cardinality(Used(n)) # 0
    BY HandlesFinite, FS_EmptySet
  <2>3. IsFiniteSet(FreeOf(n)) /\ Cardinality(FreeOf(n)) = L
    BY HandlesFinite DEF Pool
  <2>4. Cardinality(FreeOf(n) \union {h}) = Cardinality(FreeOf(n)) + 1
    <3> HIDE DEF n
    <3> QED BY <1>1, <2>3, FS_AddElement DEF n
  <2> QED BY <1>0, <1>4, <2>1, <2>2, <2>3, <2>4, HandlesFinite
<1>6. t \in Slab
  <2>1. s.root_node \in Handles /\ s.leaf_count \in 0 .. NumNodes
        /\ s.bump_index \in 0 .. NumNodes
    BY <1>0 DEF Slab
  <2>2. w = [n EXCEPT ![h] = f]
    BY <1>3
  <2> HIDE DEF n, w, L
  <2> QED BY <1>1, <1>2, <1>4, <1>5, <2>1, <2>2 DEF Slab
<1>7. Used(w) \union FreeOf(w) = 0 .. t.bump_index - 1
  <2>1. Used(n) \union FreeOf(n) = 0 .. s.bump_index - 1
    BY DEF Pool
  <2> QED BY <1>3, <1>4, <2>1
<1>8. FreeList(t)
  <2>1. PICK q \in [0 .. L - 1 -> Handles] : Chain(s, q)
    BY DEF Pool, FreeList
  <2> DEFINE r == [i \in 0 .. L |-> IF i = 0 THEN h ELSE q[i - 1]]
  <2>2. L \in Nat /\ (L + 1) - 1 = L /\ \A i \in 0 .. L : i # 0 => i - 1 \in 0 .. L - 1
    BY <1>0
  <2>3. r \in [0 .. L -> Handles] /\ r[0] = h
        /\ \A i \in 0 .. L : i # 0 => r[i] = q[i - 1]
    BY <1>1, <2>2
  <2>4. \A i \in 0 .. L - 1 : q[i] \in Handles /\ q[i] \in FreeOf(n) /\ q[i] # h /\ w[q[i]] = n[q[i]]
    <3> SUFFICES ASSUME NEW i \in 0 .. L - 1
                 PROVE  q[i] \in Handles /\ q[i] \in FreeOf(n) /\ q[i] # h /\ w[q[i]] = n[q[i]]
      OBVIOUS
    <3>1. q[i] \in Handles
      BY <2>1
    <3>2. q[i] \in FreeOf(n)
      BY <2>1, <3>1 DEF Chain, FreeOf
    <3> QED BY <1>1, <1>4, <3>1, <3>2
  <2> HIDE DEF r
  <2>5. ASSUME NEW i \in 0 .. L
        PROVE  /\ r[i] = IF i = 0 THEN h ELSE w[r[i - 1]].next
               /\ w[r[i]].tag = IF i = L THEN "LastFree" ELSE "Free"
    <3>1. CASE i = 0
      <4>1. f.tag = IF L = 0 THEN "LastFree" ELSE "Free"
        BY DEF f
      <4> QED BY <1>4, <2>2, <2>3, <3>1, <4>1
    <3>2. CASE i = 1
      <4>1. 0 \in 0 .. L - 1 /\ r[1] = q[0] /\ r[0] = h
        BY <2>2, <2>3, <3>2
      <4>2. q[0] = s.free_list_head /\ n[q[0]].tag = IF 0 = L - 1 THEN "LastFree" ELSE "Free"
        BY <2>1, <4>1 DEF Chain
      <4>3. f.next = s.free_list_head
        BY DEF f
      <4>4. 0 = L - 1 <=> 1 = L
        BY <2>2
      <4> QED BY <1>4, <2>4, <3>2, <4>1, <4>2, <4>3, <4>4
    <3>3. CASE i \notin {0, 1}
      <4>1. i - 1 \in 0 .. L - 1 /\ (i - 1) - 1 \in 0 .. L - 1 /\ i - 1 \in 0 .. L
            /\ i - 1 # 0 /\ (i - 1 = L - 1 <=> i = L)
        BY <2>2, <3>3
      <4>2. r[i] = q[i - 1] /\ r[i - 1] = q[(i - 1) - 1]
        BY <2>3, <3>3, <4>1
      <4>3. /\ q[i - 1] = n[q[(i - 1) - 1]].next
            /\ n[q[i - 1]].tag = IF i - 1 = L - 1 THEN "LastFree" ELSE "Free"
        BY <2>1, <4>1 DEF Chain
      <4> QED BY <2>4, <3>3, <4>1, <4>2, <4>3
    <3> QED BY <3>1, <3>2, <3>3
  <2>6. ASSUME NEW i \in 0 .. L, NEW j \in 0 .. L, r[i] = r[j]
        PROVE  i = j
    <3>1. \A k \in 0 .. L : k # 0 => r[k] # h
      BY <2>2, <2>3, <2>4
    <3>2. i # 0 /\ j # 0 => i - 1 = j - 1
      <4>1. i # 0 /\ j # 0 => i - 1 \in 0 .. L - 1 /\ j - 1 \in 0 .. L - 1 /\ q[i - 1] = q[j - 1]
        BY <2>2, <2>3, <2>6
      <4> QED BY <2>1, <4>1 DEF Chain
    <3> QED BY <2>3, <2>6, <3>1, <3>2
  <2>7. Chain(t, r)
    <3>1. t.free_list_len - 1 = L /\ t.free_list_head = h /\ t.nodes = w
      BY <1>3, <2>2
    <3> HIDE DEF w, n, L
    <3> QED BY <2>5, <2>6, <3>1 DEF Chain
  <2>8. r \in [0 .. t.free_list_len - 1 -> Handles]
    BY <1>3, <2>2, <2>3
  <2> QED BY <2>7, <2>8 DEF FreeList
<1>9. Pool(t)
  BY <1>3, <1>5, <1>6, <1>7, <1>8 DEF Pool
<1> QED BY <1>1, <1>3, <1>4, <1>9 DEF t, Writes

\* A node handed out comes from the head of the free list, or from behind the
\* nodes ever used.
LEMMA Inserts ==
  ASSUME NEW s, Pool(s), CanInsert(s), NEW v \in UsedNode
  PROVE  /\ NextHandle(s) \in Handles \ Used(s.nodes)
         /\ Pool(insert(s, v))
         /\ Writes(s.nodes, insert(s, v).nodes, NextHandle(s), v)
         /\ Used(insert(s, v).nodes) = Used(s.nodes) \union {NextHandle(s)}
         /\ insert(s, v).root_node = s.root_node
         /\ insert(s, v).leaf_count = s.leaf_count
<1> DEFINE h == NextHandle(s)
           t == insert(s, v)
           n == s.nodes
           w == t.nodes
           L == s.free_list_len
<1>0. /\ s \in Slab /\ L \in Nat /\ s.bump_index \in Nat
      /\ s.bump_index <= NumNodes /\ L <= NumNodes /\ s.free_list_head \in Handles
      /\ n \in [Handles -> Node] /\ NumNodes \in Nat /\ L <= s.bump_index
      /\ s.root_node \in Handles /\ s.leaf_count \in 0 .. NumNodes
  BY SlabFields, HandlesFinite, PoolCounts DEF Pool
<1>v. v \in Node
  BY DEF Node, UsedNode
<1>p. /\ Used(n) \union FreeOf(n) = 0 .. s.bump_index - 1
      /\ Used(n) \cap FreeOf(n) = {} /\ Cardinality(FreeOf(n)) = L
      /\ IsFiniteSet(FreeOf(n))
  BY PoolCounts, HandlesFinite DEF Pool
<1>1. CASE L > 0
  <2>1. PICK q \in [0 .. L - 1 -> Handles] : Chain(s, q)
    BY DEF Pool, FreeList
  <2>2. h = s.free_list_head
    BY <1>1 DEF NextHandle
  <2>3. /\ 0 \in 0 .. L - 1 /\ q[0] = h /\ h \in Handles
        /\ n[h].tag = IF L = 1 THEN "LastFree" ELSE "Free"
    <3>1. 0 \in 0 .. L - 1 /\ (0 = L - 1 <=> L = 1)
      BY <1>0, <1>1
    <3> QED BY <1>0, <2>1, <2>2, <3>1 DEF Chain
  <2>4. h \in FreeOf(n) /\ h \notin Used(n) /\ n[h].next \in Handles
    <3>1. n[h] \in Node /\ n[h].tag \in {"Free", "LastFree"}
      BY <1>0, <2>3
    <3> QED BY <1>p, <2>3, <3>1, Tags DEF FreeOf
  <2>5. t = [nodes |-> [n EXCEPT ![h] = v], bump_index |-> s.bump_index,
             free_list_len |-> L - 1, free_list_head |-> n[h].next,
             root_node |-> s.root_node, leaf_count |-> s.leaf_count]
    <3>1. t = [s EXCEPT !.nodes[h] = v, !.free_list_len = @ - 1,
                        !.free_list_head = n[h].next]
      BY <1>1 DEF insert
    <3> HIDE DEF h, t
    <3> QED BY <1>0, <3>1 DEF Slab
  <2> HIDE DEF h, t
  <2>6. /\ t.nodes = [s.nodes EXCEPT ![h] = v] /\ t.bump_index = s.bump_index
        /\ t.free_list_len = L - 1 /\ t.free_list_head = n[h].next
        /\ t.root_node = s.root_node /\ t.leaf_count = s.leaf_count
    BY <2>5
  <2>7. /\ w \in [Handles -> Node] /\ w[h] = v
        /\ \A x \in Handles \ {h} : w[x] = n[x]
        /\ Used(w) = Used(n) \union {h}
        /\ FreeOf(w) = FreeOf(n) \ {h}
    <3>1. n \in [Handles -> Node] /\ Writes(n, w, h, v)
      BY <1>0, <2>6 DEF Writes
    <3> HIDE DEF n, w
    <3>2. /\ w \in [Handles -> Node] /\ w[h] = v
          /\ \A x \in Handles \ {h} : w[x] = n[x]
          /\ v \in UsedNode => /\ Used(w) = Used(n) \union {h}
                               /\ FreeOf(w) = FreeOf(n) \ {h}
          /\ v \in FreeNode => /\ Used(w) = Used(n) \ {h}
                               /\ FreeOf(w) = FreeOf(n) \union {h}
      BY <1>v, <2>3, <3>1, Written
    <3> QED BY <3>2
  <2>8. Cardinality(FreeOf(w)) = L - 1
    <3>1. Cardinality(FreeOf(n) \ {h}) = Cardinality(FreeOf(n)) - 1
      <4> HIDE DEF n
      <4> QED BY <1>p, <2>4, FS_RemoveElement DEF n
    <3> QED BY <1>p, <2>7, <3>1
  <2>9. t \in Slab
    <3>1. w = [n EXCEPT ![h] = v] /\ L - 1 \in 0 .. NumNodes /\ s.bump_index \in 0 .. NumNodes
      BY <1>0, <1>1, <2>6
    <3> HIDE DEF n, w, L
    <3> QED BY <1>0, <2>4, <2>5, <2>7, <3>1 DEF Slab
  <2>10. Used(w) \union FreeOf(w) = 0 .. t.bump_index - 1
    BY <1>p, <2>4, <2>6, <2>7
  <2>11. FreeList(t)
    <3> DEFINE r == [i \in 0 .. (L - 1) - 1 |-> q[i + 1]]
    <3>1. \A i \in 0 .. (L - 1) - 1 : i + 1 \in 0 .. L - 1 /\ i + 1 # 0 /\ i \in 0 .. L - 1
            /\ (i + 1) - 1 = i
      BY <1>0, <1>1
    <3>2. r \in [0 .. (L - 1) - 1 -> Handles] /\ \A i \in 0 .. (L - 1) - 1 : r[i] = q[i + 1]
      BY <2>1, <3>1
    <3> HIDE DEF r
    <3>3. \A i \in 0 .. L - 1 : i # 0 => q[i] \in Handles \ {h}
      BY <2>1, <2>3 DEF Chain
    <3>4. ASSUME NEW i \in 0 .. (L - 1) - 1
          PROVE  /\ r[i] = IF i = 0 THEN n[h].next ELSE w[r[i - 1]].next
                 /\ w[r[i]].tag = IF i = (L - 1) - 1 THEN "LastFree" ELSE "Free"
      <4>1. r[i] = q[i + 1] /\ q[i + 1] = n[q[i]].next
            /\ n[q[i + 1]].tag = IF i + 1 = L - 1 THEN "LastFree" ELSE "Free"
        BY <2>1, <3>1, <3>2 DEF Chain
      <4>2. i # 0 => i - 1 \in 0 .. (L - 1) - 1 /\ r[i - 1] = q[i]
        <5>1. i # 0 => i - 1 \in 0 .. (L - 1) - 1 /\ (i - 1) + 1 = i
          BY <1>0
        <5> QED BY <3>2, <5>1
      <4>3. i # 0 => w[q[i]] = n[q[i]]
        BY <2>7, <3>1, <3>3
      <4>4. w[q[i + 1]] = n[q[i + 1]]
        BY <2>7, <3>1, <3>3
      <4>5. i + 1 = L - 1 <=> i = (L - 1) - 1
        BY <1>0
      <4> QED BY <2>3, <4>1, <4>2, <4>3, <4>4, <4>5
    <3>5. ASSUME NEW i \in 0 .. (L - 1) - 1, NEW j \in 0 .. (L - 1) - 1, r[i] = r[j]
          PROVE  i = j
      <4>1. i + 1 = j + 1
        BY <2>1, <3>1, <3>2, <3>5 DEF Chain
      <4> QED BY <1>0, <4>1
    <3>6. Chain(t, r)
      <4>1. t.free_list_len = L - 1 /\ t.free_list_head = n[h].next /\ t.nodes = w
        BY <2>6
      <4> HIDE DEF w, n, L
      <4> QED BY <3>4, <3>5, <4>1 DEF Chain
    <3>7. r \in [0 .. t.free_list_len - 1 -> Handles]
      BY <2>6, <3>2
    <3> QED BY <3>6, <3>7 DEF FreeList
  <2>12. Pool(t)
    BY <2>6, <2>8, <2>9, <2>10, <2>11 DEF Pool
  <2> QED BY <2>3, <2>4, <2>6, <2>7, <2>12 DEF h, t, Writes
<1>2. CASE ~(L > 0)
  <2>1. L = 0 /\ s.bump_index < NumNodes /\ h = s.bump_index
    BY <1>0, <1>2 DEF CanInsert, NextHandle
  <2>2. h \in Handles /\ h \notin Used(n) /\ h \notin FreeOf(n)
    BY <1>0, <1>p, <2>1 DEF Handles
  <2>5. t = [nodes |-> [n EXCEPT ![h] = v], bump_index |-> s.bump_index + 1,
             free_list_len |-> L, free_list_head |-> s.free_list_head,
             root_node |-> s.root_node, leaf_count |-> s.leaf_count]
    <3>1. t = [s EXCEPT !.nodes[h] = v, !.bump_index = @ + 1]
      BY <1>2 DEF insert
    <3> HIDE DEF h, t
    <3> QED BY <1>0, <3>1 DEF Slab
  <2> HIDE DEF h, t
  <2>6. /\ t.nodes = [s.nodes EXCEPT ![h] = v] /\ t.bump_index = s.bump_index + 1
        /\ t.free_list_len = L /\ t.free_list_head = s.free_list_head
        /\ t.root_node = s.root_node /\ t.leaf_count = s.leaf_count
    BY <2>5
  <2>7. /\ w \in [Handles -> Node] /\ w[h] = v
        /\ \A x \in Handles \ {h} : w[x] = n[x]
        /\ Used(w) = Used(n) \union {h}
        /\ FreeOf(w) = FreeOf(n) \ {h}
    <3>1. n \in [Handles -> Node] /\ Writes(n, w, h, v)
      BY <1>0, <2>6 DEF Writes
    <3> HIDE DEF n, w
    <3>2. /\ w \in [Handles -> Node] /\ w[h] = v
          /\ \A x \in Handles \ {h} : w[x] = n[x]
          /\ v \in UsedNode => /\ Used(w) = Used(n) \union {h}
                               /\ FreeOf(w) = FreeOf(n) \ {h}
          /\ v \in FreeNode => /\ Used(w) = Used(n) \ {h}
                               /\ FreeOf(w) = FreeOf(n) \union {h}
      BY <1>v, <2>2, <3>1, Written
    <3> QED BY <3>2
  <2>8. FreeOf(w) = FreeOf(n)
    BY <2>2, <2>7
  <2>9. t \in Slab
    <3>1. w = [n EXCEPT ![h] = v] /\ L \in 0 .. NumNodes /\ s.bump_index + 1 \in 0 .. NumNodes
      BY <1>0, <2>1, <2>6
    <3> HIDE DEF n, w, L
    <3> QED BY <1>0, <2>5, <2>7, <3>1 DEF Slab
  <2>10. Used(w) \union FreeOf(w) = 0 .. t.bump_index - 1
    BY <1>0, <1>p, <2>1, <2>2, <2>6, <2>7
  <2>11. FreeList(t)
    <3>1. 0 .. t.free_list_len - 1 = {}
      BY <2>1, <2>6
    <3>2. Chain(t, [i \in 0 .. t.free_list_len - 1 |-> 0])
      BY <3>1 DEF Chain
    <3>3. [i \in 0 .. t.free_list_len - 1 |-> 0] \in [0 .. t.free_list_len - 1 -> Handles]
      BY <3>1
    <3> QED BY <3>2, <3>3 DEF FreeList
  <2>12. Pool(t)
    BY <1>p, <2>6, <2>8, <2>9, <2>10, <2>11 DEF Pool
  <2> QED BY <2>2, <2>6, <2>7, <2>12 DEF h, t, Writes
<1> QED BY <1>1, <1>2

-----------------------------------------------------------------------------
(* The tree                                                                *)

\* Key k belongs below node h, or is that of leaf h.
Holds(n, h, k) ==
  IF n[h].tag = "Leaf" THEN n[h].key = k ELSE Agree(n[h].key, k, n[h].prefix_len)

Step(n, h, k) == n[h].children[Bit(k, n[h].prefix_len)]

Edges(n) == InnersOf(n) \X {0, 1}
Target(n, e) == n[e[1]].children[e[2]]

Branches(n) ==
  \A h \in InnersOf(n), c \in {0, 1} :
    LET child == n[n[h].children[c]]
    IN  /\ n[h].children[c] \in Used(n)
        /\ child.tag = "Inner" => child.prefix_len > n[h].prefix_len
        /\ Bit(child.key, n[h].prefix_len) = c
        /\ Agree(child.key, n[h].key, n[h].prefix_len)

OneParent(n, r) ==
  /\ \A h \in Used(n) \ {r} : \E e \in Edges(n) : Target(n, e) = h
  /\ \A e, f \in Edges(n) : Target(n, e) = Target(n, f) => e = f
  /\ \A e \in Edges(n) : Target(n, e) # r

\* The nodes in use make a tree with root r.
Tree(n, r) ==
  /\ n \in [Handles -> Node] /\ r \in Used(n)
  /\ Branches(n) /\ OneParent(n, r)

\* The fields of the nodes in use.
LEMMA NodeFields ==
  ASSUME NEW n \in [Handles -> Node], NEW h \in Handles
  PROVE  /\ h \in Used(n) => n[h].key \in Keys /\ n[h].key \in Key
         /\ h \in Used(n) <=> h \in LeavesOf(n) \/ h \in InnersOf(n)
         /\ h \in LeavesOf(n) <=> n[h].tag = "Leaf"
         /\ h \in InnersOf(n) <=> n[h].tag = "Inner"
         /\ h \in LeavesOf(n) => n[h] \in LeafNode /\ n[h].tag # "Inner" /\ h \notin InnersOf(n)
         /\ h \in InnersOf(n) => /\ n[h] \in InnerNode /\ n[h].tag # "Leaf"
                                 /\ n[h].prefix_len \in 0 .. KeyBits - 1
                                 /\ n[h].children[0] \in Handles
                                 /\ n[h].children[1] \in Handles
<1>1. n[h] \in Node
  OBVIOUS
<1>2. /\ n[h].tag = "Leaf" <=> n[h] \in LeafNode
      /\ n[h].tag = "Inner" <=> n[h] \in InnerNode
  BY <1>1, Tags
<1> QED BY <1>1, <1>2, KeyTypes DEF Used, LeavesOf, InnersOf, LeafNode, InnerNode

\* How deep in the tree a node branches.
Rank(n) == [h \in Handles |-> IF n[h].tag = "Inner" THEN n[h].prefix_len ELSE KeyBits]

\* The nodes below an inner node rank higher.
LEMMA Ranks ==
  ASSUME NEW n, NEW r, Tree(n, r)
  PROVE  /\ KeyBits \in Nat
         /\ \A h \in Handles : Rank(n)[h] \in Nat /\ Rank(n)[h] <= KeyBits
         /\ \A h \in InnersOf(n), c \in {0, 1} :
              /\ h \in Handles /\ n[h].children[c] \in Handles
              /\ Rank(n)[h] < Rank(n)[n[h].children[c]]
<1>0. n \in [Handles -> Node] /\ KeyBits \in Nat
  BY KeyTypes DEF Tree
<1>1. ASSUME NEW h \in Handles PROVE Rank(n)[h] \in Nat /\ Rank(n)[h] <= KeyBits
  BY <1>0, NodeFields DEF Rank
<1>2. ASSUME NEW h \in InnersOf(n), NEW c \in {0, 1}
      PROVE  /\ h \in Handles /\ n[h].children[c] \in Handles
             /\ Rank(n)[h] < Rank(n)[n[h].children[c]]
  <2>1. h \in Handles /\ n[h].prefix_len \in 0 .. KeyBits - 1 /\ n[h].tag = "Inner"
    BY <1>0, NodeFields DEF InnersOf
  <2>2. /\ n[h].children[c] \in Used(n) /\ n[h].children[c] \in Handles
        /\ n[n[h].children[c]].tag = "Inner"
             => n[n[h].children[c]].prefix_len > n[h].prefix_len
    BY DEF Tree, Branches, Used
  <2> QED BY <1>0, <2>1, <2>2 DEF Rank
<1> QED BY <1>0, <1>1, <1>2

\* From a node whose keys a key belongs to, the parent has it too, and the
\* walk for that key leads from there to this node.
LEMMA Climb ==
  ASSUME NEW n, NEW r, Tree(n, r), NEW k \in Key,
         NEW p \in InnersOf(n), NEW c \in {0, 1}, Holds(n, n[p].children[c], k)
  PROVE  /\ Agree(n[p].key, k, n[p].prefix_len) /\ Holds(n, p, k)
         /\ Bit(k, n[p].prefix_len) = c
         /\ Step(n, p, k) = n[p].children[c]
<1> DEFINE x == n[p].children[c]
           q == n[p].prefix_len
<1>0. n \in [Handles -> Node] /\ p \in Handles /\ n[p].tag # "Leaf" /\ q \in 0 .. KeyBits - 1
      /\ KeyBits \in Nat
  BY NodeFields, KeyTypes DEF Tree, InnersOf
<1>1. /\ x \in Used(n) /\ x \in Handles
      /\ n[x].tag = "Inner" => n[x].prefix_len > q
      /\ Bit(n[x].key, q) = c
      /\ Agree(n[x].key, n[p].key, q)
  BY DEF Tree, Branches, Used
<1>2. \A i \in 0 .. q : Bit(k, i) = Bit(n[x].key, i)
  <2>1. CASE n[x].tag = "Leaf"
    BY <2>1 DEF Holds
  <2>2. CASE n[x].tag # "Leaf"
    <3>1. n[x].tag = "Inner" /\ n[x].prefix_len \in 0 .. KeyBits - 1
      BY <1>0, <1>1, <2>2, NodeFields
    <3>2. \A i \in 0 .. q : i \in 0 .. n[x].prefix_len - 1
      BY <1>0, <1>1, <3>1
    <3> QED BY <2>2, <3>2 DEF Holds, Agree
  <2> QED BY <2>1, <2>2
<1>3. q \in 0 .. q /\ \A i \in 0 .. q - 1 : i \in 0 .. q
  BY <1>0
<1>4. Bit(k, q) = c
  BY <1>1, <1>2, <1>3
<1>5. Agree(n[p].key, k, q)
  BY <1>1, <1>2, <1>3 DEF Agree
<1> QED BY <1>0, <1>4, <1>5 DEF Holds, Step

\* A walk that, at the nodes a key belongs to, goes where the key leads ends
\* at the same leaf from all of them.
Follows(D, n, k) ==
  \A h \in InnersOf(n) : Agree(n[h].key, k, n[h].prefix_len) => D[h] = D[Step(n, h, k)]

\* So a walk from the root meets that of any node the key belongs to.
LEMMA FromRoot ==
  ASSUME NEW n, NEW r, Tree(n, r), NEW k \in Key, NEW x \in Used(n), Holds(n, x, k),
         NEW D, Follows(D, n, k)
  PROVE  D[r] = D[x]
<1> DEFINE S == {y \in Used(n) : Holds(n, y, k) /\ D[y] = D[x]}
           R == {Rank(n)[y] : y \in S}
<1>0. \A y \in S : y \in Handles
  BY DEF Used
<1>1. PICK d \in R : \A e \in R : d <= e
  <2>1. R \subseteq Nat /\ R # {}
    BY <1>0, Ranks
  <2> HIDE DEF R
  <2> QED BY <2>1, LeastNat
<1>2. PICK y \in S : d = Rank(n)[y]
  OBVIOUS
<1>3. ASSUME y # r PROVE FALSE
  <2>1. PICK e \in Edges(n) : Target(n, e) = y
    BY <1>2, <1>3 DEF Tree, OneParent
  <2> DEFINE p == e[1]
             c == e[2]
  <2>2. p \in InnersOf(n) /\ c \in {0, 1} /\ n[p].children[c] = y
    BY <2>1 DEF Edges, Target
  <2> HIDE DEF p, c
  <2>3. Agree(n[p].key, k, n[p].prefix_len) /\ Holds(n, p, k) /\ Step(n, p, k) = y
    BY <1>2, <2>2, Climb
  <2>4. p \in Used(n) /\ p \in Handles /\ y \in Handles
    BY <1>0, <2>2 DEF InnersOf, Used
  <2>5. p \in S
    BY <1>2, <2>2, <2>3, <2>4 DEF Follows
  <2>6. Rank(n)[p] < Rank(n)[y] /\ Rank(n)[p] \in Nat /\ Rank(n)[y] \in Nat
    BY <2>2, <2>4, Ranks
  <2>7. Rank(n)[y] <= Rank(n)[p]
    BY <1>1, <1>2, <2>5
  <2> HIDE DEF S
  <2> QED BY <2>6, <2>7
<1> QED BY <1>2, <1>3

\* The three walks of the slab, as functions of the node where they start.
Goes(D, n, c) ==
  \A h \in Handles : D[h] = IF h \in InnersOf(n) THEN D[n[h].children[c]] ELSE h

\* The walk of find_min_max.
LEMMA MinMaxWalk ==
  ASSUME NEW s, Tree(s.nodes, s.root_node), NEW find_max
  PROVE  \E D : /\ Goes(D, s.nodes, IF find_max THEN 1 ELSE 0)
                /\ find_min_max(s, find_max) = D[s.root_node]
<1> DEFINE n == s.nodes
           c == IF find_max THEN 1 ELSE 0
           next == [h \in Handles |-> n[h].children[c]]
           P(f) == f = [h \in Handles |-> IF IsInner(s, h) THEN f[n[h].children[c]] ELSE h]
           D == CHOOSE f : P(f)
<1>1. \E f : Descends(f, Handles, InnersOf(n), next)
  <2> DEFINE Go == InnersOf(n)
  <2>1. \A h \in Handles \cap Go : next[h] \in Handles
    BY Ranks DEF InnersOf
  <2>2. \E f : Descends(f, Handles, Go, next)
    <3> HIDE DEF next, n, Go
    <3> QED BY <2>1, Descent
  <2> QED BY <2>2
<1>2. \E f : P(f)
  <2>1. PICK f : f = [h \in Handles |-> IF h \in InnersOf(n) THEN f[next[h]] ELSE h]
    BY <1>1 DEF Descends
  <2>2. [h \in Handles |-> IF h \in InnersOf(n) THEN f[next[h]] ELSE h]
          = [h \in Handles |-> IF IsInner(s, h) THEN f[n[h].children[c]] ELSE h]
    BY DEF InnersOf, IsInner
  <2>3. P(f)
    BY <2>1, <2>2
  <2> QED BY <2>3
<1>3. P(D)
  <2> HIDE DEF P
  <2> QED BY <1>2
<1>4. find_min_max(s, find_max) = D[s.root_node]
  BY DEF find_min_max
<1> HIDE DEF D
<1>5. Goes(D, n, c)
  BY <1>3 DEF Goes, InnersOf, IsInner
<1> QED BY <1>4, <1>5

\* Where a key belongs.
LEMMA KeepsRootAgrees ==
  ASSUME NEW s, NEW h, NEW key \in Key, s.nodes[h].key \in Key,
         s.nodes[h].prefix_len \in 0 .. KeyBits - 1
  PROVE  KeepsRoot(s, h, key) <=> Agree(s.nodes[h].key, key, s.nodes[h].prefix_len)
<1>1. CASE s.nodes[h].key = key
  BY <1>1 DEF KeepsRoot, Agree
<1>2. CASE s.nodes[h].key # key
  BY <1>2, Differ DEF KeepsRoot
<1> QED BY <1>1, <1>2

Below(n, key) == {h \in InnersOf(n) : Agree(n[h].key, key, n[h].prefix_len)}

Inserting(D, n, key) ==
  \A h \in Handles : D[h] = IF h \in Below(n, key) THEN D[Step(n, h, key)] ELSE h

\* The walk of insert_leaf.
LEMMA InsertionWalk ==
  ASSUME NEW s, Tree(s.nodes, s.root_node), NEW key \in Key
  PROVE  \E D : /\ Inserting(D, s.nodes, key)
                /\ InsertionPoint(s, key) = D[s.root_node]
<1> DEFINE n == s.nodes
           next == [h \in Handles |-> Step(n, h, key)]
           P(f) == f = [h \in Handles |-> IF IsInner(s, h) /\ KeepsRoot(s, h, key)
                                          THEN f[walk_down(s, h, key)] ELSE h]
           D == CHOOSE f : P(f)
<1>0. n \in [Handles -> Node]
  BY DEF Tree
<1>a. ASSUME NEW h \in Handles
      PROVE  /\ h \in Below(n, key) <=> IsInner(s, h) /\ KeepsRoot(s, h, key)
             /\ h \in Below(n, key) => Step(n, h, key) \in Handles
             /\ walk_down(s, h, key) = Step(n, h, key)
  <2>1. walk_down(s, h, key) = Step(n, h, key)
    BY DEF walk_down, Step
  <2>2. CASE h \in InnersOf(n)
    <3>1. /\ n[h].key \in Key /\ n[h].prefix_len \in 0 .. KeyBits - 1 /\ IsInner(s, h)
          /\ n[h].children[0] \in Handles /\ n[h].children[1] \in Handles
      BY <1>0, <2>2, NodeFields DEF IsInner
    <3>2. Bit(key, n[h].prefix_len) \in {0, 1}
      BY <3>1, NextBit
    <3> QED BY <2>1, <2>2, <3>1, <3>2, KeepsRootAgrees DEF Below, Step
  <2>3. CASE h \notin InnersOf(n)
    BY <2>1, <2>3 DEF Below, InnersOf, IsInner
  <2> QED BY <2>2, <2>3
<1>1. \E f : Descends(f, Handles, Below(n, key), next)
  <2> DEFINE Go == Below(n, key)
  <2>1. \A h \in Handles \cap Go : next[h] \in Handles
    BY <1>a
  <2>2. \E f : Descends(f, Handles, Go, next)
    <3> HIDE DEF next, n, Go
    <3> QED BY <2>1, Descent
  <2> QED BY <2>2
<1>2. \E f : P(f)
  <2>1. PICK f : f = [h \in Handles |-> IF h \in Below(n, key) THEN f[next[h]] ELSE h]
    BY <1>1 DEF Descends
  <2>2. [h \in Handles |-> IF h \in Below(n, key) THEN f[next[h]] ELSE h]
          = [h \in Handles |-> IF IsInner(s, h) /\ KeepsRoot(s, h, key)
                               THEN f[walk_down(s, h, key)] ELSE h]
    BY <1>a
  <2>3. P(f)
    BY <2>1, <2>2
  <2> QED BY <2>3
<1>3. P(D)
  <2> HIDE DEF P
  <2> QED BY <1>2
<1>4. InsertionPoint(s, key) = D[s.root_node]
  BY DEF InsertionPoint
<1> HIDE DEF D
<1>5. Inserting(D, n, key)
  <2> HIDE DEF n
  <2> QED BY <1>3, <1>a DEF Inserting
<1> QED BY <1>4, <1>5

Halts(n, key) == {h \in InnersOf(n) : Step(n, h, key) \in InnersOf(n)}

Parenting(D, n, key) ==
  \A h \in Handles : D[h] = IF h \in Halts(n, key) THEN D[Step(n, h, key)] ELSE h

\* The walk of remove_by_key.
LEMMA ParentWalk ==
  ASSUME NEW s, Tree(s.nodes, s.root_node), NEW key \in Key
  PROVE  \E D : /\ Parenting(D, s.nodes, key)
                /\ ParentOf(s, key) = D[s.root_node]
<1> DEFINE n == s.nodes
           next == [h \in Handles |-> Step(n, h, key)]
           P(f) == f = [h \in Handles |->
                          IF IsInner(s, h) /\ IsInner(s, walk_down(s, h, key))
                          THEN f[walk_down(s, h, key)] ELSE h]
           D == CHOOSE f : P(f)
<1>0. n \in [Handles -> Node]
  BY DEF Tree
<1>a. ASSUME NEW h \in Handles
      PROVE  /\ h \in Halts(n, key) <=> IsInner(s, h) /\ IsInner(s, walk_down(s, h, key))
             /\ h \in Halts(n, key) => Step(n, h, key) \in Handles
             /\ walk_down(s, h, key) = Step(n, h, key)
  <2>1. walk_down(s, h, key) = Step(n, h, key)
    BY DEF walk_down, Step
  <2>2. CASE h \in InnersOf(n)
    <3>1. /\ n[h].prefix_len \in 0 .. KeyBits - 1 /\ IsInner(s, h)
          /\ n[h].children[0] \in Handles /\ n[h].children[1] \in Handles
      BY <1>0, <2>2, NodeFields DEF IsInner
    <3>2. Bit(key, n[h].prefix_len) \in {0, 1}
      BY <3>1, NextBit
    <3>3. Step(n, h, key) \in Handles
      BY <3>1, <3>2 DEF Step
    <3> QED BY <2>1, <2>2, <3>1, <3>3 DEF Halts, InnersOf, IsInner
  <2>3. CASE h \notin InnersOf(n)
    BY <2>1, <2>3 DEF Halts, InnersOf, IsInner
  <2> QED BY <2>2, <2>3
<1>1. \E f : Descends(f, Handles, Halts(n, key), next)
  <2> DEFINE Go == Halts(n, key)
  <2>1. \A h \in Handles \cap Go : next[h] \in Handles
    BY <1>a
  <2>2. \E f : Descends(f, Handles, Go, next)
    <3> HIDE DEF next, n, Go
    <3> QED BY <2>1, Descent
  <2> QED BY <2>2
<1>2. \E f : P(f)
  <2>1. PICK f : f = [h \in Handles |-> IF h \in Halts(n, key) THEN f[next[h]] ELSE h]
    BY <1>1 DEF Descends
  <2>2. [h \in Handles |-> IF h \in Halts(n, key) THEN f[next[h]] ELSE h]
          = [h \in Handles |-> IF IsInner(s, h) /\ IsInner(s, walk_down(s, h, key))
                               THEN f[walk_down(s, h, key)] ELSE h]
    BY <1>a
  <2>3. P(f)
    BY <2>1, <2>2
  <2> QED BY <2>3
<1>3. P(D)
  <2> HIDE DEF P
  <2> QED BY <1>2
<1>4. ParentOf(s, key) = D[s.root_node]
  BY DEF ParentOf
<1> HIDE DEF D
<1>5. Parenting(D, n, key)
  <2> HIDE DEF n
  <2> QED BY <1>3, <1>a DEF Parenting
<1> QED BY <1>4, <1>5

\* The nodes in use are inner nodes and leaves.
LEMMA UsedHandles ==
  ASSUME NEW n
  PROVE  /\ \A h \in Used(n) : h \in Handles
         /\ \A h \in InnersOf(n) : h \in Handles /\ h \in Used(n)
         /\ \A h \in LeavesOf(n) : h \in Handles /\ h \in Used(n)
         /\ \A h \in Used(n) : h \in InnersOf(n) \/ h \in LeavesOf(n)
         /\ \A h \in LeavesOf(n) : h \notin InnersOf(n)
  BY DEF Used, InnersOf, LeavesOf

\* A key leads from a node to one of its children.
LEMMA Leads ==
  ASSUME NEW n, NEW r, Tree(n, r), NEW k \in Key, NEW h \in InnersOf(n)
  PROVE  /\ Bit(k, n[h].prefix_len) \in {0, 1}
         /\ Step(n, h, k) = n[h].children[Bit(k, n[h].prefix_len)]
         /\ Step(n, h, k) \in Used(n)
         /\ Rank(n)[h] < Rank(n)[Step(n, h, k)]
<1>1. n[h].prefix_len \in 0 .. KeyBits - 1
  BY NodeFields, UsedHandles DEF Tree
<1>2. Bit(k, n[h].prefix_len) \in {0, 1}
  BY <1>1, NextBit
<1>3. Step(n, h, k) \in Used(n)
  BY <1>2 DEF Tree, Branches, Step
<1>4. Rank(n)[h] < Rank(n)[Step(n, h, k)]
  BY <1>2, Ranks DEF Step
<1> QED BY <1>2, <1>3, <1>4 DEF Step

\* The walk for a key.
Keyed(D, n, k) ==
  \A h \in Handles : D[h] = IF h \in InnersOf(n) THEN D[Step(n, h, k)] ELSE h

\* There is one.
LEMMA KeyWalk ==
  ASSUME NEW n, NEW r, Tree(n, r), NEW k \in Key
  PROVE  \E D : Keyed(D, n, k)
<1> DEFINE next == [h \in Handles |-> Step(n, h, k)]
           Go == InnersOf(n)
<1>1. \A h \in Handles \cap Go : next[h] \in Handles
  BY Leads, UsedHandles
<1>2. \E f : Descends(f, Handles, Go, next)
  <2> HIDE DEF next, Go
  <2> QED BY <1>1, Descent
<1>3. PICK f : f = [h \in Handles |-> IF h \in Go THEN f[next[h]] ELSE h]
  BY <1>2 DEF Descends
<1>4. Keyed(f, n, k)
  BY <1>3 DEF Keyed
<1> QED BY <1>4

\* Induction from the leaves to the root.
LEMMA FromLeaves ==
  ASSUME NEW n, NEW r, Tree(n, r), NEW T,
         \A h \in LeavesOf(n) : h \in T,
         \A h \in InnersOf(n) : n[h].children[0] \in T /\ n[h].children[1] \in T => h \in T
  PROVE  \A h \in Used(n) : h \in T
<1> DEFINE Bad == {h \in Used(n) : h \notin T}
           Dist == {KeyBits - Rank(n)[h] : h \in Bad}
<1> SUFFICES ASSUME Bad # {} PROVE FALSE
  OBVIOUS
<1>0. \A h \in Used(n) : Rank(n)[h] \in Nat /\ Rank(n)[h] <= KeyBits
  BY Ranks, UsedHandles
<1>k. KeyBits \in Nat
  BY KeyTypes
<1>1. PICK d \in Dist : \A e \in Dist : d <= e
  <2>1. Dist \subseteq Nat /\ Dist # {}
    BY <1>0, <1>k
  <2> HIDE DEF Dist
  <2> QED BY <2>1, LeastNat
<1>2. PICK h \in Bad : d = KeyBits - Rank(n)[h]
  OBVIOUS
<1>3. h \in InnersOf(n)
  BY UsedHandles
<1>4. PICK c \in {0, 1} : n[h].children[c] \notin T
  BY <1>3
<1>5. n[h].children[c] \in Bad
  BY <1>3, <1>4 DEF Tree, Branches
<1>6. Rank(n)[h] < Rank(n)[n[h].children[c]]
  BY <1>3, Ranks
<1>7. d <= KeyBits - Rank(n)[n[h].children[c]]
  BY <1>1, <1>5
<1> QED BY <1>0, <1>k, <1>2, <1>5, <1>6, <1>7

\* It follows the key, in the sense above.
LEMMA KeyedFollows ==
  ASSUME NEW n, NEW k, NEW D, Keyed(D, n, k)
  PROVE  Follows(D, n, k)
  BY UsedHandles DEF Keyed, Follows

\* The leaf with a key is where the walk for it ends.
LEMMA Finds ==
  ASSUME NEW n, NEW r, Tree(n, r), NEW D, NEW l \in LeavesOf(n),
         Keyed(D, n, n[l].key)
  PROVE  D[r] = l
<1>1. n[l].key \in Key /\ Holds(n, l, n[l].key) /\ l \in Used(n)
  BY NodeFields, UsedHandles DEF Tree, Holds, LeavesOf
<1>2. D[l] = l
  BY UsedHandles DEF Keyed
<1>3. D[r] = D[l]
  BY <1>1, FromRoot, KeyedFollows
<1> QED BY <1>2, <1>3

\* No two leaves have the same key.
LEMMA KeysApart ==
  ASSUME NEW n, NEW r, Tree(n, r), NEW l \in LeavesOf(n), NEW m \in LeavesOf(n),
         n[l].key = n[m].key
  PROVE  l = m
<1>1. n[l].key \in Key
  BY NodeFields, UsedHandles DEF Tree
<1>2. PICK D : Keyed(D, n, n[l].key)
  BY <1>1, KeyWalk
<1>3. D[r] = l
  BY <1>2, Finds
<1>4. Keyed(D, n, n[m].key)
  BY <1>2
<1>5. D[r] = m
  BY <1>4, Finds
<1> QED BY <1>3, <1>5

\* The nodes from which it ends at the leaf with the key hold this key.
LEMMA FoundUnder ==
  ASSUME NEW n, NEW r, Tree(n, r), NEW D, NEW l \in LeavesOf(n),
         Keyed(D, n, n[l].key)
  PROVE  \A h \in Used(n) : D[h] = l => Holds(n, h, n[l].key)
<1> DEFINE k == n[l].key
           T == {h \in Used(n) : D[h] = l => Holds(n, h, k)}
<1>0. k \in Key
  BY NodeFields, UsedHandles DEF Tree
<1>1. ASSUME NEW h \in LeavesOf(n) PROVE h \in T
  <2>1. D[h] = h /\ h \in Used(n) /\ n[h].tag = "Leaf"
    BY UsedHandles DEF Keyed, LeavesOf
  <2> QED BY <2>1 DEF Holds
<1>2. ASSUME NEW h \in InnersOf(n), n[h].children[0] \in T, n[h].children[1] \in T
      PROVE  h \in T
  <2> DEFINE c == Bit(k, n[h].prefix_len)
  <2>1. c \in {0, 1} /\ Step(n, h, k) = n[h].children[c] /\ Step(n, h, k) \in T
    BY <1>0, <1>2, Leads
  <2>2. D[h] = D[Step(n, h, k)]
    BY UsedHandles DEF Keyed
  <2>3. ASSUME D[h] = l PROVE Holds(n, h, k)
    <3>1. Holds(n, n[h].children[c], k)
      BY <2>1, <2>2, <2>3
    <3> HIDE DEF k, c
    <3> QED BY <1>0, <2>1, <3>1, Climb
  <2> QED BY <2>3, UsedHandles
<1>3. \A h \in Used(n) : h \in T
  <2> HIDE DEF T
  <2> QED BY <1>1, <1>2, FromLeaves
<1> QED BY <1>3

\* Where a node holds the key of a leaf, so does its child on that side; and
\* the root holds the keys of all leaves.
LEMMA Beneath ==
  ASSUME NEW n, NEW r, Tree(n, r), NEW l \in LeavesOf(n)
  PROVE  /\ Holds(n, r, n[l].key)
         /\ \A h \in InnersOf(n) :
              Holds(n, h, n[l].key) => Holds(n, Step(n, h, n[l].key), n[l].key)
<1> DEFINE k == n[l].key
<1>0. k \in Key
  BY NodeFields, UsedHandles DEF Tree
<1>1. PICK D : Keyed(D, n, k)
  BY <1>0, KeyWalk
<1>2. D[r] = l
  BY <1>1, Finds
<1>3. \A h \in Used(n) : D[h] = l => Holds(n, h, k)
  BY <1>1, FoundUnder
<1>4. ASSUME NEW h \in InnersOf(n), Holds(n, h, k)
      PROVE  Holds(n, Step(n, h, k), k)
  <2>1. h \in Used(n) /\ h \in Handles
    BY UsedHandles
  <2>2. D[r] = D[h]
    <3> HIDE DEF k
    <3> QED BY <1>0, <1>1, <1>4, <2>1, FromRoot, KeyedFollows
  <2>3. D[Step(n, h, k)] = l
    BY <1>1, <1>2, <2>1, <2>2 DEF Keyed
  <2>4. Step(n, h, k) \in Used(n)
    BY <1>0, Leads
  <2> QED BY <1>3, <2>3, <2>4
<1>5. r \in Used(n)
  BY DEF Tree
<1> QED BY <1>2, <1>3, <1>4, <1>5

\* k does not come after l, on the way to the least or to the greatest key.
NotAfter(c, k, l) == IF c = 0 THEN k <= l ELSE l <= k

\* Going left all the way ends at the leaf with the least key, going right at
\* that with the greatest.
LEMMA MinMax ==
  ASSUME NEW n, NEW r, Tree(n, r), NEW c \in {0, 1}, NEW E, Goes(E, n, c)
  PROVE  /\ E[r] \in LeavesOf(n)
         /\ \A l \in LeavesOf(n) : NotAfter(c, n[E[r]].key, n[l].key)
<1> DEFINE Ordered(h) ==
             \A l \in LeavesOf(n) :
               Holds(n, h, n[l].key) => NotAfter(c, n[E[h]].key, n[l].key)
           T == {h \in Used(n) : /\ E[h] \in LeavesOf(n)
                                 /\ Holds(n, h, n[E[h]].key) /\ Ordered(h)}
<1>0. \A l \in LeavesOf(n) : n[l].key \in Key /\ n[l].key \in Nat
  BY NodeFields, UsedHandles, KeyTypes DEF Tree
<1>1. ASSUME NEW h \in LeavesOf(n) PROVE h \in T
  <2>1. E[h] = h /\ h \in Used(n) /\ n[h].tag = "Leaf"
    BY UsedHandles DEF Goes, LeavesOf
  <2>2. ASSUME NEW l \in LeavesOf(n), Holds(n, h, n[l].key)
        PROVE  NotAfter(c, n[E[h]].key, n[l].key)
    BY <1>0, <2>1, <2>2 DEF Holds, NotAfter
  <2>3. Holds(n, h, n[h].key)
    BY <2>1 DEF Holds
  <2> QED BY <2>1, <2>2, <2>3
<1>2. ASSUME NEW h \in InnersOf(n), n[h].children[0] \in T, n[h].children[1] \in T
      PROVE  h \in T
  <2> DEFINE y == n[h].children[c]
             m == E[y]
             q == n[h].prefix_len
  <2>1. h \in Used(n) /\ h \in Handles /\ E[h] = m /\ y \in T
    BY <1>2, UsedHandles DEF Goes
  <2>2. m \in LeavesOf(n) /\ Holds(n, y, n[m].key) /\ Ordered(y)
    BY <2>1
  <2>a. n[m].key \in Key
    BY <1>0, <2>2
  <2>3. /\ Agree(n[h].key, n[m].key, q) /\ Holds(n, h, n[m].key)
        /\ Bit(n[m].key, q) = c
    <3> DEFINE k == n[m].key
    <3>1. k \in Key /\ Holds(n, n[h].children[c], k)
      BY <2>2, <2>a
    <3> HIDE DEF k, m
    <3>2. /\ Agree(n[h].key, k, n[h].prefix_len) /\ Holds(n, h, k)
          /\ Bit(k, n[h].prefix_len) = c
          /\ Step(n, h, k) = n[h].children[c]
      BY <3>1, Climb
    <3> QED BY <3>2 DEF k
  <2>4. q \in 0 .. KeyBits - 1
    BY <2>1, NodeFields DEF Tree
  <2>5. ASSUME NEW l \in LeavesOf(n), Holds(n, h, n[l].key)
        PROVE  NotAfter(c, n[m].key, n[l].key)
    <3> DEFINE b == Bit(n[l].key, q)
    <3>0. n[l].key \in Key
      BY <1>0
    <3>1. b \in {0, 1} /\ Step(n, h, n[l].key) = n[h].children[b]
      BY <3>0, Leads
    <3>2. Holds(n, n[h].children[b], n[l].key)
      BY <2>5, <3>1, Beneath
    <3>3. CASE b = c
      BY <2>2, <3>2, <3>3
    <3>4. CASE b # c
      <4>1. Agree(n[h].key, n[l].key, q)
        BY <2>5, UsedHandles DEF Holds, InnersOf
      <4>2. Agree(n[m].key, n[l].key, q) /\ Agree(n[l].key, n[m].key, q)
        BY <2>3, <4>1 DEF Agree
      <4>3. CASE c = 0
        <5>1. n[m].key < n[l].key
          <6> HIDE DEF m, q
          <6> QED BY <2>a, <2>3, <2>4, <3>0, <3>1, <3>4, <4>2, <4>3, FirstBitDecides
        <5> QED BY <1>0, <2>2, <4>3, <5>1 DEF NotAfter
      <4>4. CASE c = 1
        <5>1. n[l].key < n[m].key
          <6> HIDE DEF m, q
          <6> QED BY <2>a, <2>3, <2>4, <3>0, <3>1, <3>4, <4>2, <4>4, FirstBitDecides
        <5> QED BY <1>0, <2>2, <4>4, <5>1 DEF NotAfter
      <4> QED BY <4>3, <4>4
    <3> QED BY <3>3, <3>4
  <2>6. Ordered(h)
    BY <2>1, <2>5
  <2> QED BY <2>1, <2>2, <2>3, <2>6
<1>3. \A h \in Used(n) : h \in T
  <2> HIDE DEF T
  <2> QED BY <1>1, <1>2, FromLeaves
<1>4. r \in T
  BY <1>3 DEF Tree
<1> QED BY <1>4, Beneath

\* A key is inserted at the only leaf that can have it, or above a node it
\* does not belong below; it belongs below all nodes on the way.
Reached(n, r, h, key) ==
  h = r \/ \E p \in Below(n, key) : Step(n, p, key) = h

\* Where the walk of insert_leaf ends.
LEMMA InsertAt ==
  ASSUME NEW n, NEW r, Tree(n, r), NEW key \in Key, NEW D, Inserting(D, n, key)
  PROVE  /\ D[r] \in Used(n) /\ D[r] \notin Below(n, key)
         /\ Reached(n, r, D[r], key)
         /\ \A l \in LeavesOf(n) : n[l].key = key => D[r] = l
<1> DEFINE Good(h) == /\ D[h] \in Used(n) /\ D[h] \notin Below(n, key)
                      /\ Reached(n, r, h, key) => Reached(n, r, D[h], key)
           T == {h \in Used(n) : Good(h)}
<1>1. ASSUME NEW h \in Used(n), h \notin Below(n, key) PROVE h \in T
  BY <1>1, UsedHandles DEF Inserting
<1>2. ASSUME NEW h \in InnersOf(n), n[h].children[0] \in T, n[h].children[1] \in T
      PROVE  h \in T
  <2>1. CASE h \in Below(n, key)
    <3>1. Step(n, h, key) \in T /\ h \in Handles /\ h \in Used(n)
      BY <1>2, Leads, UsedHandles
    <3>2. D[h] = D[Step(n, h, key)]
      BY <2>1, <3>1 DEF Inserting
    <3>3. Reached(n, r, Step(n, h, key), key)
      BY <2>1 DEF Reached
    <3> QED BY <3>1, <3>2, <3>3
  <2> QED BY <1>1, <2>1, UsedHandles
<1>3. \A h \in LeavesOf(n) : h \in T
  BY <1>1, UsedHandles DEF Below
<1>4. \A h \in Used(n) : h \in T
  <2> HIDE DEF T
  <2> QED BY <1>2, <1>3, FromLeaves
<1>5. Good(r) /\ Reached(n, r, r, key)
  BY <1>4 DEF Tree, Reached
<1>6. ASSUME NEW l \in LeavesOf(n), n[l].key = key PROVE D[r] = l
  <2>1. Follows(D, n, key)
    BY UsedHandles DEF Follows, Inserting, Below
  <2>2. Holds(n, l, key) /\ l \in Used(n) /\ l \in Handles /\ l \notin Below(n, key)
    BY <1>6, UsedHandles DEF Holds, LeavesOf, Below
  <2>3. D[l] = l
    BY <2>2 DEF Inserting
  <2> QED BY <2>1, <2>2, <2>3, FromRoot
<1> QED BY <1>5, <1>6

\* The parent of the leaf where the walk for a key ends.
LEMMA ParentAt ==
  ASSUME NEW n, NEW r, Tree(n, r), r \in InnersOf(n), NEW key \in Key,
         NEW P, Parenting(P, n, key), NEW D, Keyed(D, n, key)
  PROVE  P[r] \in InnersOf(n) /\ Step(n, P[r], key) \in LeavesOf(n)
         /\ Step(n, P[r], key) = D[r]
<1> DEFINE Good(h) == /\ P[h] \in InnersOf(n) /\ Step(n, P[h], key) \in LeavesOf(n)
                      /\ Step(n, P[h], key) = D[h]
           T == {h \in Used(n) : h \in InnersOf(n) => Good(h)}
<1>1. \A h \in LeavesOf(n) : h \in T
  BY UsedHandles
<1>2. ASSUME NEW h \in InnersOf(n), n[h].children[0] \in T, n[h].children[1] \in T
      PROVE  h \in T
  <2>1. Step(n, h, key) \in T /\ Step(n, h, key) \in Used(n) /\ h \in Handles /\ h \in Used(n)
    BY <1>2, Leads, UsedHandles
  <2>2. D[h] = D[Step(n, h, key)]
    BY <2>1 DEF Keyed
  <2>3. CASE Step(n, h, key) \in InnersOf(n)
    <3>1. P[h] = P[Step(n, h, key)]
      BY <2>1, <2>3 DEF Parenting, Halts
    <3> QED BY <2>1, <2>2, <2>3, <3>1
  <2>4. CASE Step(n, h, key) \in LeavesOf(n)
    <3>1. P[h] = h
      BY <2>1, <2>4, UsedHandles DEF Parenting, Halts
    <3>2. D[Step(n, h, key)] = Step(n, h, key)
      BY <2>4, UsedHandles DEF Keyed
    <3> QED BY <2>1, <2>2, <2>4, <3>1, <3>2
  <2> QED BY <2>1, <2>3, <2>4, UsedHandles
<1>3. \A h \in Used(n) : h \in T
  <2> HIDE DEF T
  <2> QED BY <1>1, <1>2, FromLeaves
<1> QED BY <1>3, UsedHandles

-----------------------------------------------------------------------------
(* The tree is rewritten                                                   *)

\* The node of two children at which a key leaves the subtree of node h.
Branch(n, h, key, a, b) ==
  [tag |-> "Inner", prefix_len |-> SharedPrefix(n[h].key, key), key |-> key,
   children |-> [c \in {0, 1} |->
                   IF c = Bit(key, SharedPrefix(n[h].key, key)) THEN a ELSE b]]

\* m is n with a leaf at a, and what was at h at b, below a new node.
IsSplit(n, m, h, leaf, a, b) ==
  /\ m \in [Handles -> Node]
  /\ m[a] = leaf /\ m[b] = n[h] /\ m[h] = Branch(n, h, leaf.key, a, b)
  /\ \A x \in Handles \ {a, b, h} : m[x] = n[x]

\* Where the node that was at x is now.
Moved(h, b, x) == IF x = h THEN b ELSE x

\* The nodes after a split.
LEMMA SplitNodes ==
  ASSUME NEW n, NEW r, Tree(n, r), NEW h \in Used(n), NEW leaf \in LeafNode,
         NEW a \in Handles \ Used(n), NEW b \in Handles \ Used(n), a # b,
         NEW m, IsSplit(n, m, h, leaf, a, b)
  PROVE  /\ \A x \in Used(n) : m[Moved(h, b, x)] = n[x]
         /\ Used(m) = Used(n) \union {a, b}
         /\ InnersOf(m) = {h} \union {Moved(h, b, x) : x \in InnersOf(n)}
         /\ LeavesOf(m) = {a} \union {Moved(h, b, x) : x \in LeavesOf(n)}
<1>1. /\ n \in [Handles -> Node] /\ h \in Handles /\ h \notin {a, b}
      /\ \A x \in Used(n) : x \in Handles \ {a, b}
  BY UsedHandles DEF Tree
<1>2. m[a].tag = "Leaf" /\ m[h].tag = "Inner" /\ m[b] = n[h]
  BY DEF IsSplit, Branch, LeafNode
<1>3. \A x \in Used(n) : m[Moved(h, b, x)] = n[x]
  BY <1>1 DEF IsSplit, Moved
<1>4. ASSUME NEW x \in Handles \ {a, b, h} PROVE m[x] = n[x]
  BY DEF IsSplit
<1>5. /\ \A x \in Used(n) : Moved(h, b, x) \in Handles
      /\ n[h].tag \in {"Inner", "Leaf"}
  BY <1>1 DEF Moved, Used
<1>6. Used(m) = Used(n) \union {a, b}
  BY <1>1, <1>2, <1>4, <1>5 DEF Used
<1>7. InnersOf(m) = {h} \union {Moved(h, b, x) : x \in InnersOf(n)}
  <2>1. ASSUME NEW x \in InnersOf(m) PROVE x = h \/ \E y \in InnersOf(n) : x = Moved(h, b, y)
    <3>1. CASE x = b
      <4>1. h \in InnersOf(n) /\ Moved(h, b, h) = x
        BY <1>1, <1>2, <3>1 DEF InnersOf, Moved
      <4> QED BY <4>1
    <3>2. CASE x \notin {b, h}
      <4>1. x \in InnersOf(n) /\ Moved(h, b, x) = x
        BY <1>2, <1>4, <3>2 DEF InnersOf, Moved
      <4> QED BY <4>1
    <3> QED BY <3>1, <3>2
  <2>2. ASSUME NEW y \in InnersOf(n) PROVE Moved(h, b, y) \in InnersOf(m)
    BY <1>3, <1>5, UsedHandles DEF InnersOf
  <2>3. h \in InnersOf(m)
    BY <1>1, <1>2 DEF InnersOf
  <2> QED BY <2>1, <2>2, <2>3
<1>8. LeavesOf(m) = {a} \union {Moved(h, b, x) : x \in LeavesOf(n)}
  <2>1. ASSUME NEW x \in LeavesOf(m) PROVE x = a \/ \E y \in LeavesOf(n) : x = Moved(h, b, y)
    <3>1. CASE x = b
      <4>1. h \in LeavesOf(n) /\ Moved(h, b, h) = x
        BY <1>1, <1>2, <3>1 DEF LeavesOf, Moved
      <4> QED BY <4>1
    <3>2. CASE x \notin {a, b}
      <4>1. x # h
        BY <1>2 DEF LeavesOf
      <4>2. x \in LeavesOf(n) /\ Moved(h, b, x) = x
        BY <1>4, <3>2, <4>1 DEF LeavesOf, Moved
      <4> QED BY <4>2
    <3> QED BY <3>1, <3>2
  <2>2. ASSUME NEW y \in LeavesOf(n) PROVE Moved(h, b, y) \in LeavesOf(m)
    BY <1>3, <1>5, UsedHandles DEF LeavesOf
  <2>3. a \in LeavesOf(m)
    BY <1>2 DEF LeavesOf
  <2> QED BY <2>1, <2>2, <2>3
<1> QED BY <1>3, <1>6, <1>7, <1>8

\* A leaf is put where its key belongs.
LEMMA SplitTree ==
  ASSUME NEW n, NEW r, Tree(n, r), NEW h \in Used(n), NEW leaf \in LeafNode,
         Reached(n, r, h, leaf.key), h \notin Below(n, leaf.key), n[h].key # leaf.key,
         NEW a \in Handles \ Used(n), NEW b \in Handles \ Used(n), a # b,
         NEW m, IsSplit(n, m, h, leaf, a, b)
  PROVE  Tree(m, r)
<1> DEFINE key == leaf.key
           p == SharedPrefix(n[h].key, key)
           bit == Bit(key, p)
<1>0. /\ n \in [Handles -> Node] /\ h \in Handles /\ h \notin {a, b} /\ r \in Used(n)
      /\ \A x \in Used(n) : x \in Handles \ {a, b}
      /\ m \in [Handles -> Node] /\ KeyBits \in Nat
  BY UsedHandles, KeyTypes DEF Tree, IsSplit
<1>1. /\ \A x \in Used(n) : m[Moved(h, b, x)] = n[x]
      /\ Used(m) = Used(n) \union {a, b}
      /\ InnersOf(m) = {h} \union {Moved(h, b, x) : x \in InnersOf(n)}
      /\ LeavesOf(m) = {a} \union {Moved(h, b, x) : x \in LeavesOf(n)}
  BY SplitNodes
<1>k. key \in Key /\ n[h].key \in Key /\ n[h].key # key
  BY <1>0, NodeFields, KeyTypes DEF LeafNode
<1>2. /\ p \in 0 .. KeyBits - 1 /\ Bit(n[h].key, p) # bit /\ Agree(n[h].key, key, p)
      /\ \A q \in 0 .. KeyBits - 1 : Agree(n[h].key, key, q) <=> p >= q
      /\ bit \in {0, 1} /\ Bit(n[h].key, p) \in {0, 1}
  <2>1. /\ p \in 0 .. KeyBits - 1 /\ Bit(n[h].key, p) # bit /\ Agree(n[h].key, key, p)
        /\ \A q \in 0 .. KeyBits - 1 : Agree(n[h].key, key, q) <=> p >= q
    BY <1>k, Differ
  <2> HIDE DEF p
  <2> QED BY <1>k, <2>1, NextBit
<1>3. /\ m[a] = leaf /\ m[b] = n[h]
      /\ m[h].tag = "Inner" /\ m[h].prefix_len = p /\ m[h].key = key
      /\ \A c \in {0, 1} : m[h].children[c] = IF c = bit THEN a ELSE b
      /\ \A x \in Used(n) \ {h} : m[x] = n[x]
  <2>1. m[h] = Branch(n, h, key, a, b) /\ m[a] = leaf /\ m[b] = n[h]
    BY DEF IsSplit
  <2>2. \A x \in Used(n) \ {h} : m[x] = n[x]
    BY <1>0 DEF IsSplit
  <2> QED BY <2>1, <2>2 DEF Branch
<1> HIDE DEF bit, p
\* The parent of h is on the way.
<1>4. ASSUME NEW z \in InnersOf(n), NEW c \in {0, 1}, n[z].children[c] = h
      PROVE  /\ p > n[z].prefix_len /\ Bit(key, n[z].prefix_len) = c
             /\ Agree(key, n[z].key, n[z].prefix_len)
  <2> DEFINE q == n[z].prefix_len
  <2>1. h # r
    <3>1. <<z, c>> \in Edges(n) /\ Target(n, <<z, c>>) = h
      BY <1>4 DEF Edges, Target
    <3> QED BY <3>1 DEF Tree, OneParent
  <2>2. PICK y \in Below(n, key) : Step(n, y, key) = h
    BY <2>1 DEF Reached
  <2>3. y \in InnersOf(n) /\ Bit(key, n[y].prefix_len) \in {0, 1}
    <3>1. y \in InnersOf(n)
      BY DEF Below
    <3> QED BY <1>k, <3>1, Leads
  <2>4. y = z /\ Bit(key, q) = c
    <3>1. /\ <<z, c>> \in Edges(n) /\ Target(n, <<z, c>>) = h
          /\ <<y, Bit(key, n[y].prefix_len)>> \in Edges(n)
          /\ Target(n, <<y, Bit(key, n[y].prefix_len)>>) = h
      BY <1>4, <2>2, <2>3 DEF Edges, Target, Step
    <3>2. <<z, c>> = <<y, Bit(key, n[y].prefix_len)>>
      BY <3>1 DEF Tree, OneParent
    <3> QED BY <3>2
  <2>5. Agree(n[z].key, key, q)
    BY <2>2, <2>4 DEF Below
  <2>6. Bit(n[h].key, q) = c /\ Agree(n[h].key, n[z].key, q)
    BY <1>4 DEF Tree, Branches
  <2>7. q \in 0 .. KeyBits - 1
    BY <1>0, NodeFields, UsedHandles
  <2>8. ASSUME ~(p > q) PROVE FALSE
    <3>1. CASE p = q
      BY <1>2, <2>4, <2>6, <3>1 DEF bit
    <3>2. CASE p # q
      <4>1. p \in 0 .. q - 1
        BY <1>0, <1>2, <2>7, <2>8, <3>2
      <4>2. Bit(n[h].key, p) = Bit(key, p)
        BY <2>5, <2>6, <4>1 DEF Agree
      <4> QED BY <1>2, <4>2 DEF bit
    <3> QED BY <3>1, <3>2
  <2>9. Agree(key, n[z].key, q)
    BY <2>5 DEF Agree
  <2> QED BY <2>4, <2>8, <2>9
<1>5. Branches(m)
  <2> SUFFICES ASSUME NEW x \in InnersOf(m), NEW c \in {0, 1}
               PROVE  LET child == m[m[x].children[c]]
                      IN  /\ m[x].children[c] \in Used(m)
                          /\ child.tag = "Inner" => child.prefix_len > m[x].prefix_len
                          /\ Bit(child.key, m[x].prefix_len) = c
                          /\ Agree(child.key, m[x].key, m[x].prefix_len)
    BY DEF Branches
  <2>1. CASE x = h
    <3>1. CASE c = bit
      <4>1. m[x].children[c] = a /\ m[a].tag = "Leaf" /\ m[a].key = key
        BY <1>3, <2>1, <3>1 DEF LeafNode
      <4>2. Agree(key, key, p)
        BY DEF Agree
      <4> QED BY <1>1, <1>3, <2>1, <3>1, <4>1, <4>2 DEF bit
    <3>2. CASE c # bit
      <4>1. m[x].children[c] = b /\ m[b] = n[h]
        BY <1>3, <2>1, <3>2
      <4>2. Bit(n[h].key, p) = c
        BY <1>2, <3>2
      <4>3. ASSUME n[h].tag = "Inner" PROVE n[h].prefix_len > p
        <5>1. h \in InnersOf(n) /\ n[h].prefix_len \in 0 .. KeyBits - 1
          BY <1>0, <4>3, NodeFields
        <5>2. ~Agree(n[h].key, key, n[h].prefix_len)
          BY <5>1 DEF Below
        <5> QED BY <1>0, <1>2, <5>1, <5>2
      <4> QED BY <1>1, <1>2, <1>3, <2>1, <4>1, <4>2, <4>3
    <3> QED BY <3>1, <3>2
  <2>2. CASE x # h
    <3>1. PICK z \in InnersOf(n) : x = Moved(h, b, z)
      BY <1>1, <2>2
    <3> DEFINE y == n[z].children[c]
    <3>2. m[x] = n[z] /\ z \in Used(n)
      BY <1>1, <3>1, UsedHandles
    <3>3. /\ y \in Used(n)
          /\ n[y].tag = "Inner" => n[y].prefix_len > n[z].prefix_len
          /\ Bit(n[y].key, n[z].prefix_len) = c
          /\ Agree(n[y].key, n[z].key, n[z].prefix_len)
      BY DEF Tree, Branches
    <3>4. CASE y = h
      BY <1>1, <1>3, <1>4, <3>2, <3>3, <3>4
    <3>5. CASE y # h
      BY <1>1, <1>3, <3>2, <3>3, <3>5
    <3> QED BY <3>4, <3>5
  <2> QED BY <2>1, <2>2
<1>6. /\ Target(m, <<h, bit>>) = a /\ Target(m, <<h, 1 - bit>>) = b
      /\ <<h, bit>> \in Edges(m) /\ <<h, 1 - bit>> \in Edges(m)
      /\ \A e \in Edges(m) : e[1] = h => e \in {<<h, bit>>, <<h, 1 - bit>>}
  <2>1. h \in InnersOf(m) /\ 1 - bit \in {0, 1} /\ 1 - bit # bit
    BY <1>1, <1>2
  <2> QED BY <1>2, <1>3, <2>1 DEF Edges, Target
<1>7. ASSUME NEW z \in InnersOf(n), NEW c \in {0, 1}
      PROVE  /\ <<Moved(h, b, z), c>> \in Edges(m)
             /\ Target(m, <<Moved(h, b, z), c>>) = Target(n, <<z, c>>)
             /\ <<z, c>> \in Edges(n)
  BY <1>1, UsedHandles DEF Edges, Target
<1>8. ASSUME NEW e \in Edges(m), e[1] # h
      PROVE  \E z \in InnersOf(n), c \in {0, 1} :
               e = <<Moved(h, b, z), c>> /\ <<z, c>> \in Edges(n)
               /\ Target(m, e) = Target(n, <<z, c>>) /\ Target(m, e) \in Used(n)
  <2>1. e[1] \in InnersOf(m) /\ e[2] \in {0, 1} /\ e = <<e[1], e[2]>>
    BY DEF Edges
  <2>2. PICK z \in InnersOf(n) : e[1] = Moved(h, b, z)
    BY <1>1, <1>8, <2>1
  <2>3. e = <<Moved(h, b, z), e[2]>>
    BY <2>1, <2>2
  <2>4. Target(m, e) = Target(n, <<z, e[2]>>) /\ <<z, e[2]>> \in Edges(n)
    BY <1>7, <2>1, <2>3
  <2>5. Target(n, <<z, e[2]>>) \in Used(n)
    BY <2>1 DEF Target, Tree, Branches
  <2> QED BY <2>1, <2>3, <2>4, <2>5
<1>9. OneParent(m, r)
  <2>1. ASSUME NEW x \in Used(m) \ {r} PROVE \E e \in Edges(m) : Target(m, e) = x
    <3>1. CASE x \in {a, b}
      BY <1>6, <3>1
    <3>2. CASE x \in Used(n) \ {r}
      <4>1. PICK e \in Edges(n) : Target(n, e) = x
        BY <3>2 DEF Tree, OneParent
      <4>2. e[1] \in InnersOf(n) /\ e[2] \in {0, 1} /\ e = <<e[1], e[2]>>
        BY DEF Edges
      <4> QED BY <1>7, <4>1, <4>2
    <3> QED BY <1>1, <3>1, <3>2
  <2>2. ASSUME NEW e \in Edges(m), NEW f \in Edges(m), Target(m, e) = Target(m, f)
        PROVE  e = f
    <3>1. CASE e[1] = h /\ f[1] = h
      BY <1>6, <2>2, <3>1
    <3>2. CASE e[1] = h /\ f[1] # h
      BY <1>0, <1>6, <1>8, <2>2, <3>2
    <3>3. CASE e[1] # h /\ f[1] = h
      BY <1>0, <1>6, <1>8, <2>2, <3>3
    <3>4. CASE e[1] # h /\ f[1] # h
      <4>1. PICK z \in InnersOf(n), c \in {0, 1} :
              /\ e = <<Moved(h, b, z), c>> /\ <<z, c>> \in Edges(n)
              /\ Target(m, e) = Target(n, <<z, c>>)
        BY <1>8, <3>4
      <4>2. PICK y \in InnersOf(n), d \in {0, 1} :
              /\ f = <<Moved(h, b, y), d>> /\ <<y, d>> \in Edges(n)
              /\ Target(m, f) = Target(n, <<y, d>>)
        BY <1>8, <3>4
      <4>3. <<z, c>> = <<y, d>>
        BY <2>2, <4>1, <4>2 DEF Tree, OneParent
      <4> QED BY <4>1, <4>2, <4>3
    <3> QED BY <3>1, <3>2, <3>3, <3>4
  <2>3. ASSUME NEW e \in Edges(m) PROVE Target(m, e) # r
    <3>1. CASE e[1] = h
      BY <1>0, <1>6, <3>1
    <3>2. CASE e[1] # h
      BY <1>8, <3>2 DEF Tree, OneParent
    <3> QED BY <3>1, <3>2
  <2> QED BY <2>1, <2>2, <2>3 DEF OneParent
<1> QED BY <1>0, <1>1, <1>5, <1>9 DEF Tree

-----------------------------------------------------------------------------
(* The sibling of a removed leaf moves up                                  *)

\* m is n without the leaf l, whose sibling o took the place of their parent p.
IsMerge(n, m, p, l, o) ==
  /\ m \in [Handles -> Node]
  /\ m[p] = n[o] /\ m[o] \in FreeNode /\ m[l] \in FreeNode
  /\ \A x \in Handles \ {p, l, o} : m[x] = n[x]

\* Where the node that is at x was before.
Before(p, o, x) == IF x = p THEN o ELSE x

\* Two children of one node are not its parent, nor the root, nor each other,
\* and have no other parent.
LEMMA Siblings ==
  ASSUME NEW n, NEW r, Tree(n, r), NEW p \in InnersOf(n), NEW c \in {0, 1},
         NEW l, l = n[p].children[c], NEW o, o = n[p].children[1 - c]
  PROVE  /\ p \in Handles /\ l \in Used(n) /\ o \in Used(n)
         /\ l # p /\ o # p /\ l # o /\ l # r /\ o # r
         /\ \A z \in InnersOf(n), d \in {0, 1} :
              n[z].children[d] \in {l, o} => z = p
<1>0. 1 - c \in {0, 1} /\ 1 - c # c
  OBVIOUS
<1>1. p \in Handles /\ l \in Used(n) /\ o \in Used(n)
  BY <1>0, UsedHandles DEF Tree, Branches
<1>2. /\ <<p, c>> \in Edges(n) /\ Target(n, <<p, c>>) = l
      /\ <<p, 1 - c>> \in Edges(n) /\ Target(n, <<p, 1 - c>>) = o
  BY <1>0 DEF Edges, Target
<1>3. l # r /\ o # r /\ l # o
  BY <1>0, <1>2 DEF Tree, OneParent
<1>4. l # p /\ o # p
  <2>1. Rank(n)[p] < Rank(n)[l] /\ Rank(n)[p] < Rank(n)[o] /\ Rank(n)[p] \in Nat
    BY <1>0, <1>1, Ranks
  <2> QED BY <2>1
<1>5. ASSUME NEW z \in InnersOf(n), NEW d \in {0, 1}, n[z].children[d] \in {l, o}
      PROVE  z = p
  <2>1. <<z, d>> \in Edges(n) /\ Target(n, <<z, d>>) \in {l, o}
    BY <1>5 DEF Edges, Target
  <2>2. <<z, d>> = <<p, c>> \/ <<z, d>> = <<p, 1 - c>>
    BY <1>2, <2>1 DEF Tree, OneParent
  <2> QED BY <2>2
<1> QED BY <1>1, <1>3, <1>4, <1>5

\* The nodes after a merge.
LEMMA MergeNodes ==
  ASSUME NEW n, NEW r, Tree(n, r), NEW p \in InnersOf(n), NEW c \in {0, 1},
         NEW l, l = n[p].children[c], NEW o, o = n[p].children[1 - c],
         NEW m, IsMerge(n, m, p, l, o), l \in LeavesOf(n)
  PROVE  /\ Used(m) = Used(n) \ {l, o}
         /\ \A x \in Used(m) : /\ Before(p, o, x) \in Used(n) \ {p, l}
                               /\ m[x] = n[Before(p, o, x)]
         /\ \A x \in Used(m) : x \in InnersOf(m) <=> Before(p, o, x) \in InnersOf(n)
         /\ \A x \in Used(m) : x \in LeavesOf(m) <=> Before(p, o, x) \in LeavesOf(n)
         /\ \A y \in Used(n) \ {p, l} : \E x \in Used(m) : y = Before(p, o, x)
<1>1. /\ p \in Handles /\ p \in Used(n) /\ l \in Used(n) /\ o \in Used(n)
      /\ l # p /\ o # p /\ l # o /\ l \in Handles /\ o \in Handles
  BY Siblings, UsedHandles
<1>2. /\ m[p] = n[o] /\ m[o].tag \notin {"Inner", "Leaf"}
      /\ m[l].tag \notin {"Inner", "Leaf"}
      /\ \A x \in Handles \ {p, l, o} : m[x] = n[x]
  BY DEF IsMerge, FreeNode
<1>3. Used(m) = Used(n) \ {l, o}
  <2>1. m[p].tag \in {"Inner", "Leaf"}
    BY <1>1, <1>2 DEF Used
  <2> QED BY <1>1, <1>2, <2>1 DEF Used
<1>4. ASSUME NEW x \in Used(m)
      PROVE  /\ Before(p, o, x) \in Used(n) \ {p, l}
             /\ m[x] = n[Before(p, o, x)]
             /\ x \in Handles
  BY <1>1, <1>2, <1>3, UsedHandles DEF Before
<1>5. ASSUME NEW x \in Used(m)
      PROVE  /\ x \in InnersOf(m) <=> Before(p, o, x) \in InnersOf(n)
             /\ x \in LeavesOf(m) <=> Before(p, o, x) \in LeavesOf(n)
  <2>1. Before(p, o, x) \in Handles /\ x \in Handles /\ m[x] = n[Before(p, o, x)]
    BY <1>4, UsedHandles
  <2> QED BY <2>1 DEF InnersOf, LeavesOf
<1>6. ASSUME NEW y \in Used(n) \ {p, l} PROVE \E x \in Used(m) : y = Before(p, o, x)
  <2>1. CASE y = o
    BY <1>1, <1>3, <2>1 DEF Before
  <2>2. CASE y # o
    BY <1>3, <2>2 DEF Before
  <2> QED BY <2>1, <2>2
<1> QED BY <1>3, <1>4, <1>5, <1>6

\* What is left is a tree with the same root.
LEMMA MergeTree ==
  ASSUME NEW n, NEW r, Tree(n, r), NEW p \in InnersOf(n), NEW c \in {0, 1},
         NEW l, l = n[p].children[c], NEW o, o = n[p].children[1 - c],
         NEW m, IsMerge(n, m, p, l, o), l \in LeavesOf(n)
  PROVE  Tree(m, r)
<1>0. /\ n \in [Handles -> Node] /\ m \in [Handles -> Node] /\ KeyBits \in Nat
      /\ r \in Used(n)
  BY KeyTypes DEF Tree, IsMerge
<1>1. /\ p \in Handles /\ l \in Used(n) /\ o \in Used(n)
      /\ l # p /\ o # p /\ l # o /\ l # r /\ o # r
      /\ \A z \in InnersOf(n), d \in {0, 1} :
           n[z].children[d] \in {l, o} => z = p
  BY Siblings
<1>2. /\ Used(m) = Used(n) \ {l, o}
      /\ \A x \in Used(m) : /\ Before(p, o, x) \in Used(n) \ {p, l}
                            /\ m[x] = n[Before(p, o, x)]
      /\ \A x \in Used(m) : x \in InnersOf(m) <=> Before(p, o, x) \in InnersOf(n)
      /\ \A x \in Used(m) : x \in LeavesOf(m) <=> Before(p, o, x) \in LeavesOf(n)
      /\ \A y \in Used(n) \ {p, l} : \E x \in Used(m) : y = Before(p, o, x)
  BY MergeNodes
<1>c. 1 - c \in {0, 1}
  OBVIOUS
<1>3. ASSUME NEW x \in InnersOf(m), NEW d \in {0, 1}
      PROVE  /\ Before(p, o, x) \in InnersOf(n) /\ Before(p, o, x) # p
             /\ m[x] = n[Before(p, o, x)] /\ x \in Used(m)
             /\ n[Before(p, o, x)].children[d] \in Used(m)
             /\ <<x, d>> \in Edges(m) /\ <<Before(p, o, x), d>> \in Edges(n)
             /\ Target(m, <<x, d>>) = Target(n, <<Before(p, o, x), d>>)
  <2>1. x \in Used(m)
    BY UsedHandles
  <2>2. Before(p, o, x) \in InnersOf(n) /\ Before(p, o, x) # p /\ m[x] = n[Before(p, o, x)]
    BY <1>2, <2>1
  <2>3. n[Before(p, o, x)].children[d] \in Used(n)
    BY <2>2 DEF Tree, Branches
  <2> QED BY <1>1, <1>2, <2>1, <2>2, <2>3 DEF Edges, Target
<1>4. Branches(m)
  <2> SUFFICES ASSUME NEW x \in InnersOf(m), NEW d \in {0, 1}
               PROVE  LET child == m[m[x].children[d]]
                      IN  /\ m[x].children[d] \in Used(m)
                          /\ child.tag = "Inner" => child.prefix_len > m[x].prefix_len
                          /\ Bit(child.key, m[x].prefix_len) = d
                          /\ Agree(child.key, m[x].key, m[x].prefix_len)
    BY DEF Branches
  <2> DEFINE z == Before(p, o, x)
             y == n[z].children[d]
             q == n[z].prefix_len
  <2>1. z \in InnersOf(n) /\ z # p /\ m[x] = n[z] /\ y \in Used(m)
    BY <1>3
  <2>2. /\ n[y].tag = "Inner" => n[y].prefix_len > q
        /\ Bit(n[y].key, q) = d
        /\ Agree(n[y].key, n[z].key, q)
    BY <2>1 DEF Tree, Branches
  <2> HIDE DEF z
  <2>3. CASE y # p
    <3>1. m[y] = n[y]
      BY <1>2, <2>1, <2>3 DEF Before
    <3> QED BY <2>1, <2>2, <3>1
  <2>4. CASE y = p
    <3> DEFINE t == n[p].prefix_len
    <3>1. m[y] = n[o]
      BY <2>4 DEF IsMerge
    <3>2. t > q /\ t \in 0 .. KeyBits - 1 /\ q \in 0 .. KeyBits - 1
      BY <1>0, <1>1, <2>1, <2>2, <2>4, NodeFields, UsedHandles DEF InnersOf
    <3>3. /\ n[o].tag = "Inner" => n[o].prefix_len > t
          /\ Agree(n[o].key, n[p].key, t)
      BY <1>c DEF Tree, Branches
    <3>4. n[o].tag = "Inner" => n[o].prefix_len > q
      <4>1. n[o].tag = "Inner" => n[o].prefix_len \in Int
        BY <1>0, <1>1, NodeFields, UsedHandles DEF InnersOf
      <4> QED BY <3>2, <3>3, <4>1
    <3>5. q \in 0 .. t - 1 /\ \A i \in 0 .. q - 1 : i \in 0 .. t - 1
      BY <3>2
    <3>6. Bit(n[o].key, q) = d
      BY <2>2, <2>4, <3>3, <3>5 DEF Agree
    <3>7. Agree(n[o].key, n[z].key, q)
      BY <2>2, <2>4, <3>3, <3>5 DEF Agree
    <3> QED BY <2>1, <3>1, <3>4, <3>6, <3>7
  <2> QED BY <2>3, <2>4
<1>5. OneParent(m, r)
  <2>a. /\ \A e, f \in Edges(n) : Target(n, e) = Target(n, f) => e = f
        /\ \A e \in Edges(n) : Target(n, e) # r
    BY DEF Tree, OneParent
  <2>0. ASSUME NEW e \in Edges(m)
        PROVE  /\ e[1] \in InnersOf(m) /\ e[2] \in {0, 1} /\ e = <<e[1], e[2]>>
               /\ <<Before(p, o, e[1]), e[2]>> \in Edges(n)
               /\ Target(m, e) = Target(n, <<Before(p, o, e[1]), e[2]>>)
    <3>1. e[1] \in InnersOf(m) /\ e[2] \in {0, 1} /\ e = <<e[1], e[2]>>
      BY DEF Edges
    <3> QED BY <1>3, <3>1
  <2>1. ASSUME NEW x \in Used(m) \ {r} PROVE \E e \in Edges(m) : Target(m, e) = x
    <3>1. x \in Used(n) \ {r} /\ x \notin {l, o}
      BY <1>2
    <3>2. PICK e \in Edges(n) : Target(n, e) = x
      BY <3>1 DEF Tree, OneParent
    <3>3. e[1] \in InnersOf(n) /\ e[2] \in {0, 1} /\ e = <<e[1], e[2]>>
      BY DEF Edges
    <3>4. e[1] # p
      BY <3>1, <3>2, <3>3 DEF Target
    <3>5. e[1] # l /\ e[1] \in Used(n)
      BY <3>3, UsedHandles
    <3>6. PICK y \in Used(m) : e[1] = Before(p, o, y)
      BY <1>2, <3>4, <3>5
    <3>7. y \in InnersOf(m)
      BY <1>2, <3>3, <3>6
    <3>8. <<y, e[2]>> \in Edges(m) /\ Target(m, <<y, e[2]>>) = Target(n, <<e[1], e[2]>>)
      BY <1>3, <3>3, <3>6, <3>7
    <3> QED BY <3>2, <3>3, <3>8
  <2>2. ASSUME NEW e \in Edges(m), NEW f \in Edges(m), Target(m, e) = Target(m, f)
        PROVE  e = f
    <3>1. <<Before(p, o, e[1]), e[2]>> = <<Before(p, o, f[1]), f[2]>>
      BY <2>0, <2>2, <2>a
    <3>2. e[1] \in Used(m) /\ f[1] \in Used(m)
      BY <2>0, UsedHandles
    <3>3. Before(p, o, e[1]) = Before(p, o, f[1]) /\ e[2] = f[2]
      BY <3>1
    <3>4. e[1] = f[1]
      BY <1>2, <3>2, <3>3 DEF Before
    <3> QED BY <2>0, <3>3, <3>4
  <2>3. ASSUME NEW e \in Edges(m) PROVE Target(m, e) # r
    BY <2>0, <2>a
  <2> QED BY <2>1, <2>2, <2>3 DEF OneParent
<1> QED BY <1>0, <1>1, <1>2, <1>4, <1>5 DEF Tree

-----------------------------------------------------------------------------
(* The orders in the slab                                                  *)

Records(n) == {n[h] : h \in LeavesOf(n)}

\* No two leaves of a tree have the same key, so none the same order.
LEMMA RecordsApart ==
  ASSUME NEW n, NEW r, Tree(n, r)
  PROVE  /\ IsFiniteSet(Records(n)) /\ Records(n) \subseteq LeafNode
         /\ Cardinality(Records(n)) = Cardinality(LeavesOf(n))
         /\ Records(n) # {}
         /\ \A x, y \in Records(n) : x.key = y.key => x = y
<1>1. \A h \in LeavesOf(n) : n[h] \in LeafNode /\ h \in Handles
  BY NodeFields, UsedHandles DEF Tree
<1>2. \A x, y \in Records(n) : x.key = y.key => x = y
  BY KeysApart DEF Records
<1>3. ExistsBijection(LeavesOf(n), Records(n))
  <2> DEFINE f == [h \in LeavesOf(n) |-> n[h]]
  <2>1. \A h \in Records(n) : \E l \in LeavesOf(n) : f[l] = h
    BY DEF Records
  <2>2. \A l, m \in LeavesOf(n) : f[l] = f[m] => l = m
    BY KeysApart
  <2>3. f \in [LeavesOf(n) -> Records(n)]
    BY DEF Records
  <2>4. f \in Bijection(LeavesOf(n), Records(n))
    <3> HIDE DEF f
    <3> QED BY <2>1, <2>2, <2>3 DEF Bijection, Injection, Surjection, IsInjective
  <2> QED BY <2>4 DEF ExistsBijection
<1>4. IsFiniteSet(Records(n)) /\ Cardinality(Records(n)) = Cardinality(LeavesOf(n))
  BY <1>3, HandlesFinite, FS_Bijection
<1>5. LeavesOf(n) # {}
  <2> DEFINE T == {}
  <2>1. r \in Used(n)
    BY DEF Tree
  <2>2. ASSUME LeavesOf(n) = {} PROVE FALSE
    <3>1. \A h \in LeavesOf(n) : h \in T
      BY <2>2
    <3>2. \A h \in InnersOf(n) : n[h].children[0] \in T /\ n[h].children[1] \in T => h \in T
      OBVIOUS
    <3>3. \A h \in Used(n) : h \in T
      <4> HIDE DEF T
      <4> QED BY <3>1, <3>2, FromLeaves
    <3> QED BY <2>1, <3>3
  <2> QED BY <2>2
<1> QED BY <1>1, <1>2, <1>4, <1>5 DEF Records

\* The tree does not see the free nodes.
LEMMA SameTree ==
  ASSUME NEW n, NEW m \in [Handles -> Node], Used(m) = Used(n),
         \A x \in Used(n) : m[x] = n[x]
  PROVE  /\ \A r : Tree(n, r) => Tree(m, r)
         /\ Records(m) = Records(n)
<1>1. InnersOf(m) = InnersOf(n) /\ LeavesOf(m) = LeavesOf(n)
  <2>1. \A x \in Handles : x \in Used(n) <=> m[x].tag \in {"Inner", "Leaf"}
    BY DEF Used
  <2>2. \A x \in Handles : x \in Used(n) <=> n[x].tag \in {"Inner", "Leaf"}
    BY DEF Used
  <2> QED BY <2>1, <2>2 DEF InnersOf, LeavesOf
<1>2. Records(m) = Records(n)
  BY <1>1, UsedHandles DEF Records
<1>3. \A x \in InnersOf(n) : m[x] = n[x]
  BY UsedHandles
<1>4. ASSUME NEW r, Tree(n, r) PROVE Tree(m, r)
  <2>1. Branches(m)
    <3> SUFFICES ASSUME NEW x \in InnersOf(m), NEW c \in {0, 1}
                 PROVE  LET child == m[m[x].children[c]]
                        IN  /\ m[x].children[c] \in Used(m)
                            /\ child.tag = "Inner" => child.prefix_len > m[x].prefix_len
                            /\ Bit(child.key, m[x].prefix_len) = c
                            /\ Agree(child.key, m[x].key, m[x].prefix_len)
      BY DEF Branches
    <3>1. x \in InnersOf(n) /\ m[x] = n[x]
      BY <1>1, <1>3
    <3>2. /\ n[x].children[c] \in Used(n)
          /\ n[n[x].children[c]].tag = "Inner"
               => n[n[x].children[c]].prefix_len > n[x].prefix_len
          /\ Bit(n[n[x].children[c]].key, n[x].prefix_len) = c
          /\ Agree(n[n[x].children[c]].key, n[x].key, n[x].prefix_len)
      BY <1>4, <3>1 DEF Tree, Branches
    <3>3. m[n[x].children[c]] = n[n[x].children[c]]
      BY <3>2
    <3> QED BY <3>1, <3>2, <3>3
  <2>2. Edges(m) = Edges(n) /\ \A e \in Edges(n) : Target(m, e) = Target(n, e)
    <3>1. Edges(m) = Edges(n)
      BY <1>1 DEF Edges
    <3>2. \A e \in Edges(n) : e[1] \in InnersOf(n)
      BY DEF Edges
    <3> QED BY <1>3, <3>1, <3>2 DEF Target
  <2>3. OneParent(m, r)
    <3>1. OneParent(n, r)
      BY <1>4 DEF Tree
    <3> QED BY <2>2, <3>1 DEF OneParent
  <2> QED BY <1>4, <2>1, <2>3 DEF Tree
<1> QED BY <1>2, <1>4

\* An order is replaced by one with the same key.
LEMMA LeafWritten ==
  ASSUME NEW n, NEW r, Tree(n, r), NEW h \in LeavesOf(n), NEW leaf \in LeafNode,
         leaf.key = n[h].key, NEW m, Writes(n, m, h, leaf)
  PROVE  /\ Tree(m, r) /\ LeavesOf(m) = LeavesOf(n) /\ Used(m) = Used(n)
         /\ Records(m) = (Records(n) \ {n[h]}) \union {leaf}
<1>0. n \in [Handles -> Node] /\ h \in Handles /\ h \in Used(n)
      /\ leaf \in Node /\ leaf \in UsedNode /\ leaf.tag = "Leaf" /\ n[h].tag = "Leaf"
  BY UsedHandles DEF Tree, Node, UsedNode, LeafNode, LeavesOf
<1>1. /\ m \in [Handles -> Node] /\ m[h] = leaf
      /\ \A x \in Handles \ {h} : m[x] = n[x]
      /\ Used(m) = Used(n) \union {h}
  <2>1. /\ m \in [Handles -> Node] /\ m[h] = leaf
        /\ \A x \in Handles \ {h} : m[x] = n[x]
        /\ leaf \in UsedNode => /\ Used(m) = Used(n) \union {h}
                                /\ FreeOf(m) = FreeOf(n) \ {h}
        /\ leaf \in FreeNode => /\ Used(m) = Used(n) \ {h}
                                /\ FreeOf(m) = FreeOf(n) \union {h}
    BY <1>0, Written
  <2> QED BY <1>0, <2>1
<1>2. InnersOf(m) = InnersOf(n) /\ LeavesOf(m) = LeavesOf(n) /\ Used(m) = Used(n)
  BY <1>0, <1>1 DEF InnersOf, LeavesOf
<1>3. \A x \in Used(n) : m[x].key = n[x].key /\ (m[x].tag = "Inner" => m[x] = n[x])
  BY <1>0, <1>1, UsedHandles
<1>4. \A x \in InnersOf(n) : m[x] = n[x] /\ n[x].tag = "Inner"
  BY <1>2, <1>3, UsedHandles DEF InnersOf
<1>5. Branches(m)
  <2> SUFFICES ASSUME NEW x \in InnersOf(m), NEW c \in {0, 1}
               PROVE  LET child == m[m[x].children[c]]
                      IN  /\ m[x].children[c] \in Used(m)
                          /\ child.tag = "Inner" => child.prefix_len > m[x].prefix_len
                          /\ Bit(child.key, m[x].prefix_len) = c
                          /\ Agree(child.key, m[x].key, m[x].prefix_len)
    BY DEF Branches
  <2> DEFINE y == n[x].children[c]
  <2>1. x \in InnersOf(n) /\ m[x] = n[x]
    BY <1>2, <1>4
  <2>2. /\ y \in Used(n)
        /\ n[y].tag = "Inner" => n[y].prefix_len > n[x].prefix_len
        /\ Bit(n[y].key, n[x].prefix_len) = c
        /\ Agree(n[y].key, n[x].key, n[x].prefix_len)
    BY <2>1 DEF Tree, Branches
  <2>3. m[y].key = n[y].key /\ (m[y].tag = "Inner" => m[y] = n[y])
    BY <1>3, <2>2
  <2> HIDE DEF y
  <2>4. m[x].children[c] = y
    BY <2>1 DEF y
  <2> QED BY <1>2, <2>1, <2>2, <2>3, <2>4
<1>6. OneParent(m, r)
  <2>1. OneParent(n, r) /\ Edges(m) = Edges(n) /\ \A e \in Edges(n) : e[1] \in InnersOf(n)
    BY <1>2 DEF Tree, Edges
  <2>2. \A e \in Edges(n) : Target(m, e) = Target(n, e)
    BY <1>4, <2>1 DEF Target
  <2> QED BY <1>2, <2>1, <2>2 DEF OneParent
<1>7. Tree(m, r)
  BY <1>1, <1>2, <1>5, <1>6 DEF Tree
<1>8. \A x \in LeavesOf(n) : x # h => n[x] # n[h] /\ m[x] = n[x]
  BY <1>1, KeysApart, UsedHandles
<1>9. Records(m) = (Records(n) \ {n[h]}) \union {leaf}
  BY <1>1, <1>2, <1>8 DEF Records
<1> QED BY <1>2, <1>7, <1>9

\* The first order is a tree of its own.
LEMMA FirstLeaf ==
  ASSUME NEW m \in [Handles -> Node], NEW h \in Handles, Used(m) = {h},
         NEW leaf \in LeafNode, m[h] = leaf
  PROVE  Tree(m, h) /\ Records(m) = {leaf}
<1>1. leaf.tag = "Leaf"
  BY DEF LeafNode
<1>2. InnersOf(m) = {} /\ LeavesOf(m) = {h}
  <2>1. \A x \in InnersOf(m) : x = h
    BY UsedHandles
  <2>2. \A x \in LeavesOf(m) : x = h
    BY UsedHandles
  <2> QED BY <1>1, <2>1, <2>2 DEF InnersOf, LeavesOf
<1>3. Edges(m) = {}
  BY <1>2 DEF Edges
<1>4. Branches(m) /\ OneParent(m, h)
  BY <1>2, <1>3 DEF Branches, OneParent
<1> QED BY <1>2, <1>4 DEF Tree, Records

\* A split adds one order, a merge takes one out.
LEMMA SplitRecords ==
  ASSUME NEW n, NEW r, Tree(n, r), NEW h \in Used(n), NEW leaf \in LeafNode,
         NEW a \in Handles \ Used(n), NEW b \in Handles \ Used(n), a # b,
         NEW m, IsSplit(n, m, h, leaf, a, b)
  PROVE  Records(m) = Records(n) \union {leaf}
<1>1. /\ \A x \in Used(n) : m[Moved(h, b, x)] = n[x]
      /\ LeavesOf(m) = {a} \union {Moved(h, b, x) : x \in LeavesOf(n)}
  BY SplitNodes
<1>2. m[a] = leaf
  BY DEF IsSplit
<1> QED BY <1>1, <1>2, UsedHandles DEF Records

\* A merge takes one order out.
LEMMA MergeRecords ==
  ASSUME NEW n, NEW r, Tree(n, r), NEW p \in InnersOf(n), NEW c \in {0, 1},
         NEW l, l = n[p].children[c], NEW o, o = n[p].children[1 - c],
         NEW m, IsMerge(n, m, p, l, o), l \in LeavesOf(n)
  PROVE  Records(m) = Records(n) \ {n[l]}
<1>1. /\ \A x \in Used(m) : /\ Before(p, o, x) \in Used(n) \ {p, l}
                            /\ m[x] = n[Before(p, o, x)]
      /\ \A x \in Used(m) : x \in LeavesOf(m) <=> Before(p, o, x) \in LeavesOf(n)
      /\ \A y \in Used(n) \ {p, l} : \E x \in Used(m) : y = Before(p, o, x)
  BY MergeNodes
<1>2. \A x \in LeavesOf(n) : x # l => n[x] # n[l]
  BY KeysApart
<1>3. ASSUME NEW x \in LeavesOf(m) PROVE m[x] \in Records(n) \ {n[l]}
  <2>1. x \in Used(m)
    BY UsedHandles
  <2> QED BY <1>1, <1>2, <2>1 DEF Records
<1>4. ASSUME NEW y \in LeavesOf(n), n[y] # n[l] PROVE n[y] \in Records(m)
  <2>1. y # l /\ y # p /\ y \in Used(n)
    BY <1>4, UsedHandles
  <2>2. PICK x \in Used(m) : y = Before(p, o, x)
    BY <1>1, <2>1
  <2>3. x \in LeavesOf(m) /\ m[x] = n[y]
    BY <1>1, <2>2
  <2> QED BY <2>3 DEF Records
<1> QED BY <1>3, <1>4 DEF Records

-----------------------------------------------------------------------------
(* The slab as a whole                                                     *)

\* The nodes in use make the tree of leaf_count orders.
Sound(s) ==
  /\ Pool(s)
  /\ IF s.leaf_count = 0 THEN Used(s.nodes) = {}
     ELSE /\ Tree(s.nodes, s.root_node)
          /\ Cardinality(Used(s.nodes)) = 2 * s.leaf_count - 1
  /\ Cardinality(Records(s.nodes)) = s.leaf_count

Room == (NumNodes + 1) \div 2

\* The orders with a key.
WithKey(s, key) == {o \in Records(s.nodes) : o.key = key}

\* There is room for one more order as long as there is one for two more nodes.
LEMMA Capacity ==
  /\ Room \in Nat \ {0}
  /\ \A i \in Nat : i < Room <=> 2 * i + 1 <= NumNodes
<1>1. NumNodes \in Nat \ {0}
  BY HandlesFinite
<1> QED BY <1>1 DEF Room

\* What follows from it.
LEMMA SoundFacts ==
  ASSUME NEW s, Sound(s)
  PROVE  /\ s \in Slab /\ Pool(s) /\ s.nodes \in [Handles -> Node]
         /\ s.root_node \in Handles
         /\ s.leaf_count \in Nat /\ NumNodes \in Nat \ {0}
         /\ IsFiniteSet(Records(s.nodes)) /\ Records(s.nodes) \subseteq LeafNode
         /\ Cardinality(Records(s.nodes)) = s.leaf_count
         /\ s.leaf_count = 0 <=> Records(s.nodes) = {}
         /\ s.leaf_count # 0 => /\ Tree(s.nodes, s.root_node)
                                /\ Cardinality(Used(s.nodes)) = 2 * s.leaf_count - 1
         /\ s.leaf_count = 0 => Used(s.nodes) = {} /\ Cardinality(Used(s.nodes)) = 0
         /\ Cardinality(Used(s.nodes)) <= NumNodes
         /\ Cardinality(Used(s.nodes)) \in Nat
         /\ s.leaf_count <= Room
         /\ \A x, y \in Records(s.nodes) : x.key = y.key => x = y
         /\ CanInsert(s) <=> Cardinality(Used(s.nodes)) < NumNodes
<1>1. /\ s \in Slab /\ Pool(s) /\ s.nodes \in [Handles -> Node]
      /\ s.leaf_count \in Nat /\ NumNodes \in Nat \ {0}
      /\ s.bump_index \in Nat /\ s.bump_index <= NumNodes /\ s.free_list_len \in Nat
      /\ s.root_node \in Handles
  BY SlabFields, HandlesFinite DEF Sound, Pool
<1>2. /\ Cardinality(Used(s.nodes)) \in Nat
      /\ Cardinality(Used(s.nodes)) = s.bump_index - s.free_list_len
      /\ s.free_list_len <= s.bump_index
  BY <1>1, PoolCounts
<1>3. CanInsert(s) <=> Cardinality(Used(s.nodes)) < NumNodes
  BY <1>1, <1>2 DEF CanInsert
<1>4. Cardinality(Used(s.nodes)) <= NumNodes
  BY <1>1, <1>2
<1>5. CASE s.leaf_count = 0
  <2>1. Used(s.nodes) = {} /\ Cardinality(Used(s.nodes)) = 0
    BY <1>5, FS_EmptySet DEF Sound
  <2>2. Records(s.nodes) = {}
    BY <2>1, UsedHandles DEF Records
  <2>3. IsFiniteSet(Records(s.nodes)) /\ Cardinality(Records(s.nodes)) = 0
    BY <2>2, FS_EmptySet
  <2>4. s.leaf_count <= Room
    BY <1>5, Capacity
  <2> QED BY <1>1, <1>2, <1>3, <1>4, <1>5, <2>1, <2>2, <2>3, <2>4
<1>6. CASE s.leaf_count # 0
  <2>1. Tree(s.nodes, s.root_node) /\ Cardinality(Used(s.nodes)) = 2 * s.leaf_count - 1
        /\ Cardinality(Records(s.nodes)) = s.leaf_count
    BY <1>6 DEF Sound
  <2>2. /\ IsFiniteSet(Records(s.nodes)) /\ Records(s.nodes) \subseteq LeafNode
        /\ Records(s.nodes) # {}
        /\ \A x, y \in Records(s.nodes) : x.key = y.key => x = y
    BY <2>1, RecordsApart
  <2>3. s.leaf_count <= Room
    <3>1. s.leaf_count - 1 \in Nat /\ 2 * (s.leaf_count - 1) + 1 <= NumNodes
      BY <1>1, <1>4, <1>6, <2>1
    <3>2. s.leaf_count - 1 < Room /\ Room \in Nat
      BY <3>1, Capacity
    <3> QED BY <1>1, <3>2
  <2> QED BY <1>1, <1>2, <1>3, <1>4, <1>6, <2>1, <2>2, <2>3
<1> QED BY <1>5, <1>6

\* A new order and the node above it: both, or neither.
LEMMA Splits ==
  ASSUME NEW s, Sound(s), s.leaf_count # 0, NEW leaf \in LeafNode,
         NEW h \in Used(s.nodes), Reached(s.nodes, s.root_node, h, leaf.key),
         h \notin Below(s.nodes, leaf.key), s.nodes[h].key # leaf.key,
         WithKey(s, leaf.key) = {},
         NEW R, R = split(s, h, leaf)
  PROVE  /\ Sound(R.slab)
         /\ \/ /\ R.returned = OutOfSpace /\ s.leaf_count >= Room
               /\ Records(R.slab.nodes) = Records(s.nodes)
            \/ /\ R.returned = None /\ s.leaf_count < Room
               /\ Records(R.slab.nodes) = Records(s.nodes) \union {leaf}
<1> DEFINE n == s.nodes
           a == NextHandle(s)
           u == insert(s, leaf)
           b == NextHandle(u)
           v == insert(u, n[h])
           B == Branch(n, h, leaf.key, a, b)
           t == [v EXCEPT !.nodes[h] = B, !.leaf_count = @ + 1]
           lc == s.leaf_count
<1>0. /\ s \in Slab /\ Pool(s) /\ n \in [Handles -> Node] /\ s.root_node \in Handles
      /\ lc \in Nat /\ NumNodes \in Nat \ {0}
      /\ IsFiniteSet(Records(n)) /\ Records(n) \subseteq LeafNode
      /\ Cardinality(Records(n)) = lc
      /\ Tree(n, s.root_node) /\ Cardinality(Used(n)) = 2 * lc - 1
      /\ Cardinality(Used(n)) <= NumNodes
      /\ CanInsert(s) <=> Cardinality(Used(n)) < NumNodes
  BY SoundFacts
<1>r. lc < Room <=> 2 * lc + 1 <= NumNodes
  BY <1>0, Capacity
<1>u. /\ leaf \in UsedNode /\ n[h] \in UsedNode /\ h \in Handles
  BY <1>0, UsedHandles, Tags DEF UsedNode, Used
<1>1. CASE ~CanInsert(s)
  <2>1. R = [slab |-> s, returned |-> OutOfSpace]
    BY <1>1 DEF split
  <2>2. lc >= Room
    <3>1. ~(lc < Room)
      BY <1>0, <1>1, <1>r
    <3> QED BY <1>0, <3>1, Capacity
  <2> QED BY <2>1, <2>2
<1>2. CASE CanInsert(s)
  <2>1. /\ a \in Handles \ Used(n) /\ Pool(u) /\ Writes(n, u.nodes, a, leaf)
        /\ Used(u.nodes) = Used(n) \union {a}
        /\ u.root_node = s.root_node /\ u.leaf_count = lc
    BY <1>0, <1>2, <1>u, Inserts
  <2> HIDE DEF a, u
  <2>2. /\ u \in Slab /\ u.nodes \in [Handles -> Node] /\ u.nodes[a] = leaf
        /\ \A x \in Handles \ {a} : u.nodes[x] = n[x]
    BY <2>1, SlabFields DEF Pool, Writes
  <2>3. /\ Cardinality(Used(u.nodes)) = 2 * lc
        /\ CanInsert(u) <=> 2 * lc < NumNodes
    <3>1. Cardinality(Used(u.nodes)) = Cardinality(Used(n)) + 1
      <4>1. IsFiniteSet(Used(n)) /\ a \notin Used(n)
        BY <2>1, HandlesFinite
      <4>2. Cardinality(Used(n) \union {a}) = Cardinality(Used(n)) + 1
        <5> HIDE DEF n
        <5> QED BY <4>1, FS_AddElement
      <4> QED BY <2>1, <4>2
    <3>2. /\ Cardinality(Used(u.nodes)) = u.bump_index - u.free_list_len
          /\ u.bump_index \in Nat /\ u.bump_index <= NumNodes /\ u.free_list_len \in Nat
      BY <2>1, <2>2, PoolCounts, SlabFields
    <3> QED BY <1>0, <3>1, <3>2 DEF CanInsert
  <2>4. CASE ~CanInsert(u)
    <3>1. R = [slab |-> remove(u, a), returned |-> OutOfSpace]
      BY <1>2, <2>4 DEF split, GiveBack, a, u
    <3>2. /\ Pool(remove(u, a))
          /\ \E f \in FreeNode : Writes(u.nodes, remove(u, a).nodes, a, f)
          /\ Used(remove(u, a).nodes) = Used(u.nodes) \ {a}
          /\ remove(u, a).root_node = u.root_node
          /\ remove(u, a).leaf_count = u.leaf_count
      BY <2>1, Removes
    <3> DEFINE w == remove(u, a)
    <3>3. /\ Used(w.nodes) = Used(n) /\ w.nodes \in [Handles -> Node]
          /\ \A x \in Used(n) : w.nodes[x] = n[x]
          /\ Pool(w) /\ w.root_node = s.root_node /\ w.leaf_count = lc
      <4>1. \A x \in Used(n) : x \in Handles \ {a}
        BY <2>1, UsedHandles
      <4>2. PICK f \in FreeNode : Writes(u.nodes, w.nodes, a, f)
        BY <3>2
      <4>3. \A x \in Handles \ {a} : w.nodes[x] = u.nodes[x]
        BY <2>2, <4>2 DEF Writes
      <4>4. w.nodes \in [Handles -> Node]
        BY <3>2, SlabFields DEF Pool
      <4> QED BY <2>1, <2>2, <3>2, <4>1, <4>3, <4>4
    <3> HIDE DEF w
    <3>4. Tree(w.nodes, s.root_node) /\ Records(w.nodes) = Records(n)
      BY <1>0, <3>3, SameTree
    <3>5. Sound(w)
      BY <1>0, <3>3, <3>4 DEF Sound
    <3>6. lc >= Room
      <4>1. ~(lc < Room)
        BY <1>0, <1>r, <2>3, <2>4
      <4> QED BY <1>0, <4>1, Capacity
    <3>7. R = [slab |-> w, returned |-> OutOfSpace]
      BY <3>1 DEF w
    <3> QED BY <3>4, <3>5, <3>6, <3>7
  <2>5. CASE CanInsert(u)
    <3>1. /\ b \in Handles \ Used(u.nodes) /\ Pool(v) /\ Writes(u.nodes, v.nodes, b, n[h])
          /\ Used(v.nodes) = Used(u.nodes) \union {b}
          /\ v.root_node = u.root_node /\ v.leaf_count = u.leaf_count
      BY <1>u, <2>1, <2>5, Inserts
    <3>2. R = [slab |-> t, returned |-> None]
      BY <1>2, <2>5 DEF split, Branch, a, u
    <3> HIDE DEF b, v
    <3>3. /\ v \in Slab /\ v.nodes \in [Handles -> Node] /\ v.nodes[b] = n[h]
          /\ \A x \in Handles \ {b} : v.nodes[x] = u.nodes[x]
      BY <3>1, SlabFields DEF Pool, Writes
    <3>4. a # b /\ a # h /\ b # h /\ b \notin Used(n)
      BY <2>1, <3>1
    <3>5. B \in UsedNode
      <4>1. leaf.key \in Keys /\ leaf.key \in Key /\ n[h].key \in Key
        BY <1>0, KeyTypes, NodeFields, UsedHandles DEF LeafNode
      <4>2. SharedPrefix(n[h].key, leaf.key) \in 0 .. KeyBits - 1
        BY <4>1, Differ
      <4>3. a \in Handles /\ b \in Handles
        BY <2>1, <3>1
      <4> HIDE DEF n
      <4> QED BY <4>1, <4>2, <4>3 DEF Branch, UsedNode, InnerNode
    <3> HIDE DEF B
    <3>6. /\ t = [nodes |-> [v.nodes EXCEPT ![h] = B], bump_index |-> v.bump_index,
                  free_list_len |-> v.free_list_len, free_list_head |-> v.free_list_head,
                  root_node |-> v.root_node, leaf_count |-> v.leaf_count + 1]
      <4>1. t = [v EXCEPT !.nodes[h] = B, !.leaf_count = @ + 1]
        OBVIOUS
      <4> HIDE DEF t
      <4> QED BY <3>3, <4>1 DEF Slab
    <3> HIDE DEF t
    <3>7. /\ t.nodes = [v.nodes EXCEPT ![h] = B] /\ t.bump_index = v.bump_index
          /\ t.free_list_len = v.free_list_len /\ t.free_list_head = v.free_list_head
          /\ t.root_node = s.root_node /\ t.leaf_count = lc + 1
      BY <2>1, <3>1, <3>6
    <3>8. t.nodes \in [Handles -> Node] /\ t.nodes[h] = B
          /\ \A x \in Handles \ {h} : t.nodes[x] = v.nodes[x]
      BY <1>u, <3>3, <3>5, <3>7 DEF Node, UsedNode
    <3>9. t \in Slab
      <4>1. lc + 1 \in 0 .. NumNodes
        BY <1>0, <2>3, <2>5
      <4>2. v.leaf_count + 1 = lc + 1 /\ t.nodes = [v.nodes EXCEPT ![h] = B]
        BY <2>1, <3>1, <3>7
      <4> HIDE DEF lc
      <4> QED BY <3>3, <3>6, <3>8, <4>1, <4>2 DEF Slab
    <3>10. Pool(t) /\ Used(t.nodes) = Used(v.nodes)
      <4>1. h \in Used(v.nodes) /\ Writes(v.nodes, t.nodes, h, B)
        BY <2>1, <3>1, <3>7 DEF Writes
      <4> QED BY <3>1, <3>5, <3>7, <3>9, <4>1, Rewritten
    <3>11. IsSplit(n, t.nodes, h, leaf, a, b)
      <4>1. t.nodes[a] = leaf
        BY <2>1, <2>2, <3>3, <3>4, <3>8
      <4>2. t.nodes[b] = n[h]
        BY <3>1, <3>3, <3>4, <3>8
      <4>3. \A x \in Handles \ {a, b, h} : t.nodes[x] = n[x]
        BY <2>2, <3>3, <3>8
      <4> QED BY <3>8, <4>1, <4>2, <4>3 DEF IsSplit, B
    <3>12. Tree(t.nodes, s.root_node) /\ Records(t.nodes) = Records(n) \union {leaf}
      <4>1. a \in Handles \ Used(n) /\ b \in Handles \ Used(n)
        BY <2>1, <3>1, <3>4
      <4>2. Records(t.nodes) = Records(n) \union {leaf}
        BY <1>0, <3>4, <3>11, <4>1, SplitRecords
      <4>3. Tree(t.nodes, s.root_node)
        BY <1>0, <3>4, <3>11, <4>1, SplitTree
      <4> QED BY <4>2, <4>3
    <3>13. Cardinality(Used(t.nodes)) = 2 * (lc + 1) - 1
      <4>1. Cardinality(Used(v.nodes)) = Cardinality(Used(u.nodes)) + 1
        BY <3>1, HandlesFinite, FS_AddElement
      <4> QED BY <1>0, <2>3, <3>10, <4>1
    <3>14. Cardinality(Records(t.nodes)) = lc + 1
      <4>1. leaf \notin Records(n)
        BY DEF WithKey
      <4>2. Cardinality(Records(n) \union {leaf}) = Cardinality(Records(n)) + 1
        <5> HIDE DEF n
        <5> QED BY <1>0, <4>1, FS_AddElement
      <4> QED BY <1>0, <3>12, <4>2
    <3>15. lc + 1 # 0
      BY <1>0
    <3>16. Sound(t)
      BY <3>7, <3>10, <3>12, <3>13, <3>14, <3>15 DEF Sound
    <3>17. lc < Room
      BY <1>0, <1>r, <2>3, <2>5
    <3> QED BY <3>2, <3>12, <3>16, <3>17
  <2> QED BY <2>4, <2>5
<1> QED BY <1>1, <1>2

\* The first order becomes the root.
LEMMA InsertsFirst ==
  ASSUME NEW s, Sound(s), s.leaf_count = 0, NEW leaf \in LeafNode,
         NEW R, R = insert_leaf(s, leaf)
  PROVE  /\ Sound(R.slab) /\ R.returned = None
         /\ Records(R.slab.nodes) = {leaf}
<1> DEFINE a == NextHandle(s)
           u == insert(s, leaf)
           t == [u EXCEPT !.root_node = a, !.leaf_count = 1]
<1>0. /\ s \in Slab /\ Pool(s) /\ s.nodes \in [Handles -> Node]
      /\ NumNodes \in Nat \ {0} /\ leaf \in UsedNode /\ leaf \in Node
      /\ Used(s.nodes) = {} /\ Cardinality(Used(s.nodes)) = 0 /\ CanInsert(s)
  BY SoundFacts DEF UsedNode, Node
<1>1. R = [slab |-> t, returned |-> None]
  BY <1>0 DEF insert_leaf
<1>2. /\ a \in Handles /\ Pool(u) /\ Writes(s.nodes, u.nodes, a, leaf)
      /\ Used(u.nodes) = {a}
  <2>1. /\ a \in Handles \ Used(s.nodes) /\ Pool(u) /\ Writes(s.nodes, u.nodes, a, leaf)
        /\ Used(u.nodes) = Used(s.nodes) \union {a}
    BY <1>0, Inserts
  <2> QED BY <1>0, <2>1
<1> HIDE DEF a, u
<1>3. u \in Slab /\ u.nodes[a] = leaf
  BY <1>0, <1>2 DEF Pool, Writes
<1>4. t = [nodes |-> u.nodes, bump_index |-> u.bump_index,
           free_list_len |-> u.free_list_len, free_list_head |-> u.free_list_head,
           root_node |-> a, leaf_count |-> 1]
  <2>1. t = [u EXCEPT !.root_node = a, !.leaf_count = 1]
    OBVIOUS
  <2> HIDE DEF t
  <2> QED BY <1>3, <2>1 DEF Slab
<1> HIDE DEF t
<1>5. t \in Slab
  BY <1>0, <1>2, <1>3, <1>4 DEF Slab
<1>6. Pool(t) /\ Used(t.nodes) = Used(u.nodes)
  <2>1. /\ t.nodes = u.nodes /\ t.bump_index = u.bump_index
        /\ t.free_list_len = u.free_list_len /\ t.free_list_head = u.free_list_head
    BY <1>4
  <2> QED BY <1>2, <1>5, <2>1, Rewritten
<1>7. Tree(t.nodes, a) /\ Records(t.nodes) = {leaf}
  <2>1. t.nodes \in [Handles -> Node] /\ Used(t.nodes) = {a} /\ t.nodes[a] = leaf
    BY <1>2, <1>3, <1>4, <1>6 DEF Slab
  <2> QED BY <1>2, <2>1, FirstLeaf
<1>8. Cardinality(Used(t.nodes)) = 1 /\ Cardinality(Records(t.nodes)) = 1
  BY <1>2, <1>6, <1>7, FS_Singleton
<1>9. t.root_node = a /\ t.leaf_count = 1
  BY <1>4
<1>10. Sound(t)
  BY <1>6, <1>7, <1>8, <1>9 DEF Sound
<1> QED BY <1>1, <1>7, <1>10

\* The leaf of an order is written, without its key.
LeafIsNow(s, t, h, leaf) == t = [s EXCEPT !.nodes[h] = leaf]

\* An order gives way to one with its key.
LEMMA Replaces ==
  ASSUME NEW s, Sound(s), s.leaf_count # 0, NEW h \in LeavesOf(s.nodes),
         NEW leaf \in LeafNode, leaf.key = s.nodes[h].key,
         NEW t, LeafIsNow(s, t, h, leaf)
  PROVE  /\ Sound(t)
         /\ Records(t.nodes) = (Records(s.nodes) \ {s.nodes[h]}) \union {leaf}
<1>0. /\ s \in Slab /\ Pool(s) /\ s.nodes \in [Handles -> Node]
      /\ Tree(s.nodes, s.root_node)
      /\ h \in Handles /\ h \in Used(s.nodes) /\ leaf \in UsedNode /\ leaf \in Node
      /\ s.leaf_count \in Nat
      /\ Cardinality(Used(s.nodes)) = 2 * s.leaf_count - 1
      /\ Cardinality(Records(s.nodes)) = s.leaf_count
  BY SoundFacts, UsedHandles DEF UsedNode, Node
<1>1. t = [nodes |-> [s.nodes EXCEPT ![h] = leaf], bump_index |-> s.bump_index,
           free_list_len |-> s.free_list_len, free_list_head |-> s.free_list_head,
           root_node |-> s.root_node, leaf_count |-> s.leaf_count]
  <2>1. t = [s EXCEPT !.nodes[h] = leaf]
    BY DEF LeafIsNow
  <2> QED BY <1>0, <2>1 DEF Slab
<1>2. /\ t.nodes = [s.nodes EXCEPT ![h] = leaf] /\ t.bump_index = s.bump_index
      /\ t.free_list_len = s.free_list_len /\ t.free_list_head = s.free_list_head
      /\ t.root_node = s.root_node /\ t.leaf_count = s.leaf_count
  BY <1>1
<1>3. t \in Slab
  <2>1. [s.nodes EXCEPT ![h] = leaf] \in [Handles -> Node]
    BY <1>0
  <2> QED BY <1>0, <1>1, <2>1 DEF Slab
<1>4. Writes(s.nodes, t.nodes, h, leaf)
  BY <1>2 DEF Writes
<1>5. Pool(t) /\ Used(t.nodes) = Used(s.nodes)
  BY <1>0, <1>2, <1>3, <1>4, Rewritten
<1>6. /\ Tree(t.nodes, s.root_node) /\ LeavesOf(t.nodes) = LeavesOf(s.nodes)
      /\ Records(t.nodes) = (Records(s.nodes) \ {s.nodes[h]}) \union {leaf}
  BY <1>0, <1>4, LeafWritten
<1>7. Cardinality(Records(t.nodes)) = s.leaf_count
  BY <1>0, <1>6, RecordsApart
<1> QED BY <1>0, <1>2, <1>5, <1>6, <1>7 DEF Sound

\* What insert_leaf does, and what it answers.
LEMMA InsertLeafSound ==
  ASSUME NEW s, Sound(s), NEW leaf \in LeafNode, NEW R, R = insert_leaf(s, leaf)
  PROVE  /\ Sound(R.slab)
         /\ \/ /\ R.returned = OutOfSpace
               /\ WithKey(s, leaf.key) = {} /\ s.leaf_count >= Room
               /\ Records(R.slab.nodes) = Records(s.nodes)
            \/ /\ \/ WithKey(s, leaf.key) = {} /\ R.returned = None
                     /\ s.leaf_count < Room
                  \/ R.returned \in WithKey(s, leaf.key)
               /\ Records(R.slab.nodes)
                    = (Records(s.nodes) \ WithKey(s, leaf.key)) \union {leaf}
<1> DEFINE n == s.nodes
           h == InsertionPoint(s, leaf.key)
<1>1. CASE s.leaf_count = 0
  <2>1. Records(n) = {} /\ WithKey(s, leaf.key) = {}
    BY <1>1, SoundFacts DEF WithKey
  <2>2. Sound(R.slab) /\ R.returned = None /\ Records(R.slab.nodes) = {leaf}
    BY <1>1, InsertsFirst
  <2>3. s.leaf_count < Room
    BY <1>1, Capacity
  <2> QED BY <2>1, <2>2, <2>3
<1>2. CASE s.leaf_count # 0
  <2>0. /\ Tree(n, s.root_node) /\ n \in [Handles -> Node]
        /\ leaf.key \in Key
        /\ \A x, y \in Records(n) : x.key = y.key => x = y
    BY <1>2, SoundFacts, KeyTypes DEF LeafNode
  <2>1. /\ h \in Used(n) /\ h \notin Below(n, leaf.key)
        /\ Reached(n, s.root_node, h, leaf.key)
        /\ \A l \in LeavesOf(n) : n[l].key = leaf.key => h = l
    <3> DEFINE k == leaf.key
    <3>1. k \in Key
      BY <2>0
    <3> HIDE DEF k
    <3>2. PICK D : Inserting(D, n, k) /\ InsertionPoint(s, k) = D[s.root_node]
      BY <2>0, <3>1, InsertionWalk
    <3>3. /\ D[s.root_node] \in Used(n) /\ D[s.root_node] \notin Below(n, k)
          /\ Reached(n, s.root_node, D[s.root_node], k)
          /\ \A l \in LeavesOf(n) : n[l].key = k => D[s.root_node] = l
      BY <2>0, <3>1, <3>2, InsertAt
    <3> QED BY <3>2, <3>3 DEF k
  <2> HIDE DEF h
  <2>2. IsLeaf(s, h) <=> h \in LeavesOf(n)
    BY <2>1, UsedHandles DEF IsLeaf, LeavesOf
  <2>3. CASE IsLeaf(s, h) /\ n[h].key = leaf.key
    <3>1. R = [slab |-> [s EXCEPT !.nodes[h] = leaf], returned |-> n[h]]
      BY <1>2, <2>3 DEF insert_leaf, h
    <3> DEFINE t == [s EXCEPT !.nodes[h] = leaf]
    <3>2. /\ Sound(t)
          /\ Records(t.nodes) = (Records(s.nodes) \ {s.nodes[h]}) \union {leaf}
      <4>1. h \in LeavesOf(n) /\ leaf.key = n[h].key /\ LeafIsNow(s, t, h, leaf)
        BY <2>2, <2>3 DEF LeafIsNow
      <4> HIDE DEF t
      <4> QED BY <1>2, <4>1, Replaces
    <3>3. n[h] \in WithKey(s, leaf.key)
      BY <2>2, <2>3 DEF WithKey, Records
    <3>4. WithKey(s, leaf.key) = {n[h]}
      BY <2>0, <3>3 DEF WithKey
    <3>5. R.slab = t /\ R.returned = n[h]
      BY <3>1
    <3> HIDE DEF t
    <3> QED BY <3>2, <3>3, <3>4, <3>5
  <2>4. CASE ~(IsLeaf(s, h) /\ n[h].key = leaf.key)
    <3>1. R = split(s, h, leaf)
      BY <1>2, <2>4 DEF insert_leaf, h
    <3>2. n[h].key # leaf.key
      <4>1. ASSUME h \in InnersOf(n) PROVE n[h].key # leaf.key
        BY <2>1, <4>1 DEF Below, Agree
      <4> QED BY <2>1, <2>2, <2>4, <4>1, UsedHandles
    <3>3. WithKey(s, leaf.key) = {}
      BY <2>1, <3>2 DEF WithKey, Records
    <3>4. /\ Sound(R.slab)
          /\ \/ /\ R.returned = OutOfSpace /\ s.leaf_count >= Room
                /\ Records(R.slab.nodes) = Records(s.nodes)
             \/ /\ R.returned = None /\ s.leaf_count < Room
                /\ Records(R.slab.nodes) = Records(s.nodes) \union {leaf}
      BY <1>2, <2>1, <3>1, <3>2, <3>3, Splits
    <3> QED BY <3>3, <3>4
  <2> QED BY <2>3, <2>4
<1> QED BY <1>1, <1>2

\* The leaf of a key is taken out, and its sibling moves up.
LEMMA Merges ==
  ASSUME NEW s, Sound(s), s.leaf_count # 0, NEW key \in Key,
         NEW p \in InnersOf(s.nodes), Step(s.nodes, p, key) \in LeavesOf(s.nodes)
  PROVE  /\ Sound(merge(s, p, key))
         /\ Records(merge(s, p, key).nodes)
              = Records(s.nodes) \ {s.nodes[Step(s.nodes, p, key)]}
         /\ merge(s, p, key).leaf_count = s.leaf_count - 1
<1> DEFINE n == s.nodes
           c == Bit(key, n[p].prefix_len)
           l == n[p].children[c]
           o == n[p].children[1 - c]
           u == remove(s, o)
           v == [u EXCEPT !.nodes[p] = n[o], !.leaf_count = @ - 1]
           t == remove(v, l)
           lc == s.leaf_count
<1>0. /\ s \in Slab /\ Pool(s) /\ n \in [Handles -> Node]
      /\ lc \in Nat /\ NumNodes \in Nat \ {0}
      /\ IsFiniteSet(Records(n)) /\ Cardinality(Records(n)) = lc
      /\ Tree(n, s.root_node) /\ Cardinality(Used(n)) = 2 * lc - 1
      /\ Cardinality(Used(n)) <= NumNodes
  BY SoundFacts
<1>a. merge(s, p, key) = t /\ l = Step(n, p, key)
  BY DEF merge, walk_down, Step
<1>c. c \in {0, 1} /\ 1 - c \in {0, 1}
  <2>1. c \in {0, 1}
    BY <1>0, Leads
  <2> HIDE DEF c
  <2> QED BY <2>1
<1> HIDE DEF c, n
<1>1. /\ p \in Handles /\ p \in Used(n) /\ l \in Used(n) /\ o \in Used(n) /\ l \in LeavesOf(n)
      /\ l # p /\ o # p /\ l # o
  BY <1>0, <1>a, <1>c, Siblings, UsedHandles DEF n
<1> HIDE DEF l, o
<1>2. /\ Pool(u)
      /\ \E f \in FreeNode : Writes(n, u.nodes, o, f)
      /\ Used(u.nodes) = Used(n) \ {o}
      /\ u.root_node = s.root_node /\ u.leaf_count = lc
  BY <1>0, <1>1, Removes DEF n
<1> HIDE DEF u
<1>3. /\ u \in Slab /\ u.nodes \in [Handles -> Node] /\ u.nodes[o] \in FreeNode
      /\ \A x \in Handles \ {o} : u.nodes[x] = n[x]
  <2>1. PICK f \in FreeNode : Writes(n, u.nodes, o, f)
    BY <1>2
  <2>2. f \in Node /\ o \in Handles
    BY <1>1, UsedHandles DEF Node
  <2>3. u \in Slab /\ u.nodes \in [Handles -> Node]
    BY <1>2, SlabFields DEF Pool
  <2>4. /\ u.nodes[o] = f
        /\ \A x \in Handles \ {o} : u.nodes[x] = n[x]
    BY <1>0, <2>1, <2>2 DEF Writes
  <2> QED BY <2>3, <2>4
<1>4. n[o] \in UsedNode /\ n[o] \in Node /\ o \in Handles /\ l \in Handles
  BY <1>0, <1>1, UsedHandles, Tags DEF Used
<1>5. Cardinality(Used(n) \ {o}) = 2 * lc - 2 /\ IsFiniteSet(Used(n) \ {o})
  <2>1. IsFiniteSet(Used(n))
    BY HandlesFinite
  <2>2. Cardinality(Used(n) \ {o}) = Cardinality(Used(n)) - 1 /\ IsFiniteSet(Used(n) \ {o})
    BY <1>1, <2>1, FS_RemoveElement
  <2> QED BY <1>0, <2>2
<1>6. Cardinality((Used(n) \ {o}) \ {l}) = 2 * lc - 3 /\ lc - 1 \in Nat \ {0}
  <2>1. /\ Cardinality((Used(n) \ {o}) \ {l}) = Cardinality(Used(n) \ {o}) - 1
        /\ IsFiniteSet((Used(n) \ {o}) \ {l})
    BY <1>1, <1>5, FS_RemoveElement
  <2>2. Cardinality((Used(n) \ {o}) \ {l}) \in Nat
    BY <2>1, FS_CardinalityType
  <2> QED BY <1>0, <1>5, <2>1, <2>2
<1>7. v = [nodes |-> [u.nodes EXCEPT ![p] = n[o]], bump_index |-> u.bump_index,
           free_list_len |-> u.free_list_len, free_list_head |-> u.free_list_head,
           root_node |-> u.root_node, leaf_count |-> u.leaf_count - 1]
  <2>1. v = [u EXCEPT !.nodes[p] = n[o], !.leaf_count = @ - 1]
    OBVIOUS
  <2> HIDE DEF v
  <2> QED BY <1>3, <2>1 DEF Slab
<1> HIDE DEF v
<1>8. /\ v.nodes = [u.nodes EXCEPT ![p] = n[o]] /\ v.bump_index = u.bump_index
      /\ v.free_list_len = u.free_list_len /\ v.free_list_head = u.free_list_head
      /\ v.root_node = s.root_node /\ v.leaf_count = lc - 1
  BY <1>2, <1>7
<1>9. /\ v.nodes \in [Handles -> Node] /\ v.nodes[p] = n[o]
      /\ \A x \in Handles \ {p} : v.nodes[x] = u.nodes[x]
  BY <1>1, <1>3, <1>4, <1>8
<1>10. v \in Slab
  <2>1. u.leaf_count - 1 \in 0 .. NumNodes
    BY <1>0, <1>2, <1>6
  <2>2. [u.nodes EXCEPT ![p] = n[o]] \in [Handles -> Node]
    BY <1>8, <1>9
  <2> QED BY <1>3, <1>7, <2>1, <2>2 DEF Slab
<1>11. Pool(v) /\ Used(v.nodes) = Used(u.nodes)
  <2>1. p \in Used(u.nodes) /\ Writes(u.nodes, v.nodes, p, n[o])
    BY <1>1, <1>2, <1>8 DEF Writes
  <2> QED BY <1>2, <1>4, <1>8, <1>10, <2>1, Rewritten
<1>12. /\ Pool(t)
       /\ \E f \in FreeNode : Writes(v.nodes, t.nodes, l, f)
       /\ Used(t.nodes) = Used(v.nodes) \ {l}
       /\ t.root_node = v.root_node /\ t.leaf_count = v.leaf_count
  <2>1. l \in Used(v.nodes)
    BY <1>1, <1>2, <1>11
  <2> QED BY <1>11, <2>1, Removes
<1> HIDE DEF t
<1>13. /\ t.nodes \in [Handles -> Node] /\ t.nodes[l] \in FreeNode
       /\ \A x \in Handles \ {l} : t.nodes[x] = v.nodes[x]
  <2>1. PICK f \in FreeNode : Writes(v.nodes, t.nodes, l, f)
    BY <1>12
  <2>2. t.nodes \in [Handles -> Node]
    BY <1>12, SlabFields DEF Pool
  <2> QED BY <1>4, <1>9, <2>1, <2>2 DEF Writes
<1>14. IsMerge(n, t.nodes, p, l, o)
  <2>1. t.nodes[p] = n[o]
    BY <1>1, <1>9, <1>13
  <2>2. t.nodes[o] \in FreeNode
    BY <1>1, <1>3, <1>4, <1>9, <1>13
  <2>3. \A x \in Handles \ {p, l, o} : t.nodes[x] = n[x]
    BY <1>3, <1>9, <1>13
  <2> QED BY <1>13, <2>1, <2>2, <2>3 DEF IsMerge
<1>15. Tree(t.nodes, s.root_node) /\ Records(t.nodes) = Records(n) \ {n[l]}
  <2>1. p \in InnersOf(n) /\ l = n[p].children[c] /\ o = n[p].children[1 - c]
    BY DEF l, o, n
  <2>2. Tree(t.nodes, s.root_node)
    BY <1>0, <1>1, <1>c, <1>14, <2>1, MergeTree
  <2>3. Records(t.nodes) = Records(n) \ {n[l]}
    BY <1>0, <1>1, <1>c, <1>14, <2>1, MergeRecords
  <2> QED BY <2>2, <2>3
<1>16. Cardinality(Records(t.nodes)) = lc - 1
  <2>1. n[l] \in Records(n)
    BY <1>1 DEF Records
  <2>2. Cardinality(Records(n) \ {n[l]}) = Cardinality(Records(n)) - 1
    BY <1>0, <2>1, FS_RemoveElement
  <2> QED BY <1>0, <1>15, <2>2
<1>17. Cardinality(Used(t.nodes)) = 2 * (lc - 1) - 1
  <2>1. Used(t.nodes) = (Used(n) \ {o}) \ {l}
    BY <1>2, <1>11, <1>12
  <2> QED BY <1>0, <1>6, <2>1
<1>18. Sound(t)
  <2>1. t.leaf_count = lc - 1 /\ t.leaf_count # 0 /\ t.root_node = s.root_node
    BY <1>6, <1>8, <1>12
  <2> QED BY <1>12, <1>15, <1>16, <1>17, <2>1 DEF Sound
<1>19. t.leaf_count = lc - 1
  BY <1>8, <1>12
<1> QED BY <1>a, <1>15, <1>18, <1>19 DEF n

\* The last order leaves with the root.
LEMMA RemovesRoot ==
  ASSUME NEW s, Sound(s), s.leaf_count # 0, s.root_node \in LeavesOf(s.nodes),
         NEW t, t = remove([s EXCEPT !.root_node = 0, !.leaf_count = 0], s.root_node)
  PROVE  /\ Sound(t) /\ t.leaf_count = s.leaf_count - 1
         /\ Records(s.nodes) = {s.nodes[s.root_node]} /\ Records(t.nodes) = {}
<1> DEFINE n == s.nodes
           r == s.root_node
           u == [s EXCEPT !.root_node = 0, !.leaf_count = 0]
<1>0. /\ s \in Slab /\ Pool(s) /\ n \in [Handles -> Node] /\ r \in Handles
      /\ s.leaf_count \in Nat /\ NumNodes \in Nat \ {0} /\ 0 \in Handles
      /\ Cardinality(Records(n)) = s.leaf_count
      /\ Tree(n, r) /\ Cardinality(Used(n)) = 2 * s.leaf_count - 1
  BY SoundFacts, HandlesFinite
<1>1. LeavesOf(n) = {r}
  <2> SUFFICES ASSUME NEW l \in LeavesOf(n) PROVE l = r
    OBVIOUS
  <2>1. n[l].key \in Key
    BY <1>0, NodeFields, UsedHandles
  <2>2. PICK D : Keyed(D, n, n[l].key)
    BY <1>0, <2>1, KeyWalk
  <2>3. D[r] = l
    BY <1>0, <2>2, Finds
  <2>4. D[r] = r
    BY <1>0, <2>2, UsedHandles DEF Keyed
  <2> QED BY <2>3, <2>4
<1>2. Records(n) = {n[r]} /\ s.leaf_count = 1
  <2>1. Records(n) = {n[r]}
    BY <1>1 DEF Records
  <2>2. Cardinality(Records(n)) = 1
    BY <2>1, FS_Singleton
  <2> QED BY <1>0, <2>1, <2>2
<1>3. Used(n) = {r}
  <2>1. Cardinality(Used(n)) = 1 /\ r \in Used(n) /\ IsFiniteSet(Used(n))
    BY <1>0, <1>2, HandlesFinite, UsedHandles
  <2>2. PICK x : Used(n) = {x}
    <3> HIDE DEF n
    <3> QED BY <2>1, FS_Singleton
  <2> QED BY <2>1, <2>2
<1>4. u = [nodes |-> s.nodes, bump_index |-> s.bump_index,
           free_list_len |-> s.free_list_len, free_list_head |-> s.free_list_head,
           root_node |-> 0, leaf_count |-> 0]
  <2>1. u = [s EXCEPT !.root_node = 0, !.leaf_count = 0]
    OBVIOUS
  <2> HIDE DEF u
  <2> QED BY <1>0, <2>1 DEF Slab
<1>5. t = remove(u, r)
  OBVIOUS
<1> HIDE DEF u
<1>6. u \in Slab
  BY <1>0, <1>4 DEF Slab
<1>7. Pool(u) /\ Used(u.nodes) = Used(n) /\ u.leaf_count = 0
  <2>1. /\ u.nodes = s.nodes /\ u.bump_index = s.bump_index
        /\ u.free_list_len = s.free_list_len /\ u.free_list_head = s.free_list_head
        /\ u.leaf_count = 0
    BY <1>4
  <2> QED BY <1>0, <1>6, <2>1, Rewritten
<1>8. Pool(t) /\ Used(t.nodes) = Used(u.nodes) \ {r} /\ t.leaf_count = u.leaf_count
  <2>1. r \in Used(u.nodes)
    BY <1>3, <1>7
  <2> QED BY <1>5, <1>7, <2>1, Removes
<1>9. Used(t.nodes) = {} /\ t.leaf_count = 0
  BY <1>3, <1>7, <1>8
<1>10. Records(t.nodes) = {}
  BY <1>9, UsedHandles DEF Records
<1>11. Sound(t)
  BY <1>8, <1>9, <1>10, FS_EmptySet DEF Sound
<1> QED BY <1>2, <1>9, <1>10, <1>11

\* What remove_by_key does, and what it answers.
LEMMA RemoveByKeySound ==
  ASSUME NEW s, Sound(s), NEW key \in Keys, NEW R, R = remove_by_key(s, key)
  PROVE  /\ Sound(R.slab)
         /\ WithKey(s, key) = {} => R.slab = s /\ R.returned = None
         /\ WithKey(s, key) # {} => /\ R.returned \in WithKey(s, key)
                                    /\ s.leaf_count # 0
                                    /\ R.slab.leaf_count = s.leaf_count - 1
         /\ Records(R.slab.nodes) = Records(s.nodes) \ WithKey(s, key)
<1> DEFINE n == s.nodes
           r == s.root_node
<1>1. CASE s.leaf_count = 0
  <2>1. Records(n) = {} /\ WithKey(s, key) = {}
    BY <1>1, SoundFacts DEF WithKey
  <2>2. R = [slab |-> s, returned |-> None]
    BY <1>1 DEF remove_by_key
  <2> QED BY <2>1, <2>2
<1>2. CASE s.leaf_count # 0
  <2>0. /\ Tree(n, r) /\ n \in [Handles -> Node] /\ r \in Used(n) /\ r \in Handles
        /\ key \in Key
        /\ \A x, y \in Records(n) : x.key = y.key => x = y
    BY <1>2, SoundFacts, KeyTypes, UsedHandles DEF Tree
  <2>1. IsLeaf(s, r) <=> r \in LeavesOf(n)
    BY <2>0 DEF IsLeaf, LeavesOf
  <2> DEFINE found == IF IsLeaf(s, r) THEN r ELSE walk_down(s, ParentOf(s, key), key)
  <2>2. /\ found \in LeavesOf(n)
        /\ \A l \in LeavesOf(n) : n[l].key = key => found = l
        /\ ~IsLeaf(s, r) => /\ ParentOf(s, key) \in InnersOf(n)
                            /\ found = Step(n, ParentOf(s, key), key)
    <3>0. PICK D : Keyed(D, n, key)
      BY <2>0, KeyWalk
    <3>1. \A l \in LeavesOf(n) : n[l].key = key => D[r] = l
      <4> SUFFICES ASSUME NEW l \in LeavesOf(n), n[l].key = key PROVE D[r] = l
        OBVIOUS
      <4>1. Keyed(D, n, n[l].key)
        BY <3>0
      <4> HIDE DEF n, r
      <4> QED BY <2>0, <4>1, Finds
    <3>2. CASE IsLeaf(s, r)
      <4>1. found = r /\ r \in LeavesOf(n) /\ r \notin InnersOf(n)
        BY <2>1, <3>2, UsedHandles
      <4>2. D[r] = r
        BY <2>0, <3>0, <4>1 DEF Keyed
      <4> QED BY <3>1, <3>2, <4>1, <4>2
    <3>3. CASE ~IsLeaf(s, r)
      <4>1. r \in InnersOf(n)
        BY <2>0, <2>1, <3>3, UsedHandles
      <4>2. PICK P : Parenting(P, n, key) /\ ParentOf(s, key) = P[r]
        BY <2>0, ParentWalk
      <4>3. /\ P[r] \in InnersOf(n) /\ Step(n, P[r], key) \in LeavesOf(n)
            /\ Step(n, P[r], key) = D[r]
        <5> HIDE DEF n, r
        <5> QED BY <2>0, <3>0, <4>1, <4>2, ParentAt
      <4>4. found = Step(n, ParentOf(s, key), key)
        BY <3>3 DEF walk_down, Step
      <4> HIDE DEF found
      <4> QED BY <3>1, <4>2, <4>3, <4>4
    <3> QED BY <3>2, <3>3
  <2>3. CASE n[found].key # key
    <3>1. R = [slab |-> s, returned |-> None]
      BY <1>2, <2>3 DEF remove_by_key
    <3>2. WithKey(s, key) = {}
      BY <2>2, <2>3 DEF WithKey, Records
    <3> QED BY <3>1, <3>2
  <2>4. CASE n[found].key = key
    <3>1. R = IF IsLeaf(s, r)
              THEN [slab |-> remove([s EXCEPT !.root_node = 0, !.leaf_count = 0], r),
                    returned |-> n[found]]
              ELSE [slab |-> merge(s, ParentOf(s, key), key), returned |-> n[found]]
      BY <1>2, <2>4 DEF remove_by_key
    <3>2. n[found] \in WithKey(s, key)
      <4> HIDE DEF found
      <4> QED BY <2>2, <2>4 DEF WithKey, Records
    <3>3. WithKey(s, key) = {n[found]}
      <4> HIDE DEF found
      <4> QED BY <2>0, <3>2 DEF WithKey
    <3>4. CASE IsLeaf(s, r)
      <4> DEFINE t == remove([s EXCEPT !.root_node = 0, !.leaf_count = 0], r)
      <4>1. R.slab = t /\ R.returned = n[found]
        BY <3>1, <3>4
      <4>2. found = r /\ r \in LeavesOf(n)
        BY <2>1, <3>4
      <4>3. /\ Sound(t) /\ t.leaf_count = s.leaf_count - 1
            /\ Records(s.nodes) = {s.nodes[s.root_node]} /\ Records(t.nodes) = {}
        BY <1>2, <4>2, RemovesRoot
      <4> HIDE DEF t, found
      <4> QED BY <1>2, <3>2, <3>3, <4>1, <4>2, <4>3
    <3>5. CASE ~IsLeaf(s, r)
      <4> DEFINE p == ParentOf(s, key)
                 t == merge(s, p, key)
      <4>1. R.slab = t /\ R.returned = n[found]
        BY <3>1, <3>5
      <4>2. p \in InnersOf(n) /\ found = Step(n, p, key) /\ Step(n, p, key) \in LeavesOf(n)
        BY <2>2, <3>5
      <4> HIDE DEF p, found
      <4>3. /\ Sound(t) /\ t.leaf_count = s.leaf_count - 1
            /\ Records(t.nodes) = Records(s.nodes) \ {s.nodes[Step(s.nodes, p, key)]}
        BY <1>2, <2>0, <4>2, Merges
      <4> HIDE DEF t
      <4> QED BY <1>2, <3>2, <3>3, <4>1, <4>2, <4>3
    <3> QED BY <3>4, <3>5
  <2> QED BY <2>3, <2>4
<1> QED BY <1>1, <1>2

\* The best orders of a side: one, unless the slab is empty.
BestOf(s, find_max) ==
  {o \in Records(s.nodes) :
     IF find_max THEN \A x \in Records(s.nodes) : o.key >= x.key
     ELSE \A x \in Records(s.nodes) : o.key <= x.key}

\* find_min_max leads to the best order.
LEMMA MinMaxSound ==
  ASSUME NEW s, Sound(s), s.leaf_count # 0, NEW find_max \in BOOLEAN
  PROVE  /\ find_min_max(s, find_max) \in LeavesOf(s.nodes)
         /\ BestOf(s, find_max) = {s.nodes[find_min_max(s, find_max)]}
         /\ WithKey(s, s.nodes[find_min_max(s, find_max)].key)
              = {s.nodes[find_min_max(s, find_max)]}
<1> DEFINE n == s.nodes
           r == s.root_node
           h == find_min_max(s, find_max)
           c == IF find_max THEN 1 ELSE 0
<1>0. /\ Tree(n, r) /\ c \in {0, 1}
      /\ \A x, y \in Records(n) : x.key = y.key => x = y
      /\ Records(n) \subseteq LeafNode
  BY SoundFacts
<1>1. PICK E : Goes(E, n, c) /\ h = E[r]
  BY <1>0, MinMaxWalk
<1>2. /\ h \in LeavesOf(n)
      /\ \A l \in LeavesOf(n) : NotAfter(c, n[h].key, n[l].key)
  <2> HIDE DEF c, h
  <2> QED BY <1>0, <1>1, MinMax
<1> HIDE DEF h
<1>3. n[h] \in Records(n) /\ \A x \in Records(n) : NotAfter(c, n[h].key, x.key)
  BY <1>2 DEF Records
<1>4. \A x \in Records(n) : x.key \in Nat
  BY <1>0, KeyTypes DEF LeafNode
<1>5. BestOf(s, find_max) = {n[h]}
  <2>1. n[h] \in BestOf(s, find_max)
    BY <1>3, <1>4 DEF BestOf, NotAfter
  <2>2. ASSUME NEW x \in BestOf(s, find_max) PROVE x = n[h]
    <3>1. x \in Records(n)
      BY DEF BestOf
    <3>2. x.key = n[h].key
      <4>1. CASE find_max
        BY <1>3, <1>4, <3>1, <4>1 DEF BestOf, NotAfter
      <4>2. CASE ~find_max
        BY <1>3, <1>4, <3>1, <4>2 DEF BestOf, NotAfter
      <4> QED BY <4>1, <4>2
    <3> QED BY <1>0, <1>3, <3>1, <3>2
  <2> QED BY <2>1, <2>2
<1>6. WithKey(s, n[h].key) = {n[h]}
  BY <1>0, <1>3 DEF WithKey
<1> QED BY <1>2, <1>5, <1>6 DEF h

\* An empty slab has no best order, and only an empty one.
LEMMA NoneBest ==
  ASSUME NEW s, Sound(s), NEW find_max \in BOOLEAN
  PROVE  BestOf(s, find_max) = {} <=> s.leaf_count = 0
<1>1. CASE s.leaf_count = 0
  BY <1>1, SoundFacts DEF BestOf
<1>2. CASE s.leaf_count # 0
  BY <1>2, MinMaxSound
<1> QED BY <1>1, <1>2

\* What remove_min and remove_max do, and what they answer.
LEMMA RemoveMinMaxSound ==
  ASSUME NEW s, Sound(s), NEW find_max \in BOOLEAN,
         NEW R, R = remove_min_max(s, find_max)
  PROVE  /\ Sound(R.slab)
         /\ s.leaf_count = 0 => R.returned = None
         /\ s.leaf_count # 0 => /\ R.returned \in BestOf(s, find_max)
                                /\ R.slab.leaf_count = s.leaf_count - 1
         /\ Records(R.slab.nodes) = Records(s.nodes) \ BestOf(s, find_max)
<1>1. CASE s.leaf_count = 0
  <2>1. R = [slab |-> s, returned |-> None]
    BY <1>1 DEF remove_min_max
  <2> QED BY <1>1, <2>1, NoneBest
<1>2. CASE s.leaf_count # 0
  <2> DEFINE h == find_min_max(s, find_max)
             key == s.nodes[h].key
  <2>1. R = remove_by_key(s, key)
    BY <1>2 DEF remove_min_max
  <2>2. /\ h \in LeavesOf(s.nodes) /\ BestOf(s, find_max) = {s.nodes[h]}
        /\ WithKey(s, key) = {s.nodes[h]}
    BY <1>2, MinMaxSound
  <2> HIDE DEF h
  <2>3. key \in Keys
    BY <2>2, SoundFacts, NodeFields, UsedHandles
  <2> HIDE DEF key
  <2>4. /\ Sound(R.slab)
        /\ WithKey(s, key) # {} => /\ R.returned \in WithKey(s, key)
                                   /\ s.leaf_count # 0
                                   /\ R.slab.leaf_count = s.leaf_count - 1
        /\ Records(R.slab.nodes) = Records(s.nodes) \ WithKey(s, key)
    BY <2>1, <2>3, RemoveByKeySound
  <2> QED BY <1>2, <2>2, <2>4
<1> QED BY <1>1, <1>2

\* A quantity is written through the handle of the best order.
QuantityIsNow(s, t, h, quantity) == t = [s EXCEPT !.nodes[h].quantity = quantity]

\* What such a write does.
LEMMA QuantitySound ==
  ASSUME NEW s, Sound(s), s.leaf_count # 0, NEW find_max \in BOOLEAN,
         NEW quantity \in Quantities, NEW h, BestOf(s, find_max) = {s.nodes[h]},
         h \in LeavesOf(s.nodes), NEW t, QuantityIsNow(s, t, h, quantity)
  PROVE  /\ Sound(t) /\ t.nodes[h] \in LeafNode
         /\ \E o \in BestOf(s, find_max) : t.nodes[h].key = o.key
         /\ Records(t.nodes)
              = (Records(s.nodes) \ BestOf(s, find_max)) \union {t.nodes[h]}
<1> DEFINE leaf == [s.nodes[h] EXCEPT !.quantity = quantity]
<1>1. /\ h \in LeavesOf(s.nodes) /\ BestOf(s, find_max) = {s.nodes[h]}
  OBVIOUS
<1>2. s \in Slab /\ s.nodes \in [Handles -> Node] /\ h \in Handles /\ s.nodes[h] \in LeafNode
  BY <1>1, SoundFacts, NodeFields, UsedHandles
<1>3. leaf \in LeafNode /\ leaf.key = s.nodes[h].key
  BY <1>2 DEF LeafNode
<1>4. LeafIsNow(s, t, h, leaf)
  BY <1>2 DEF LeafIsNow, QuantityIsNow, Slab
<1>5. t.nodes[h] = leaf
  <2>1. t = [s EXCEPT !.nodes[h] = leaf]
    BY <1>4 DEF LeafIsNow
  <2> HIDE DEF leaf
  <2> QED BY <1>2, <2>1 DEF Slab
<1> HIDE DEF leaf
<1>6. /\ Sound(t)
      /\ Records(t.nodes) = (Records(s.nodes) \ {s.nodes[h]}) \union {leaf}
  <2>1. h \in LeavesOf(s.nodes) /\ Sound(s) /\ s.leaf_count # 0
    BY <1>1
  <2>2. PICK x : x = leaf
    OBVIOUS
  <2>3. x \in LeafNode /\ x.key = s.nodes[h].key /\ LeafIsNow(s, t, h, x)
    BY <1>3, <1>4, <2>2
  <2>4. /\ Sound(t)
        /\ Records(t.nodes) = (Records(s.nodes) \ {s.nodes[h]}) \union {x}
    BY ONLY <2>1, <2>3, Replaces, SMTT(60)
  <2> QED BY <2>2, <2>4
<1> QED BY <1>1, <1>3, <1>5, <1>6

-----------------------------------------------------------------------------
(* What the invariants ask of a sound slab                                 *)

\* TreeBranches asks for what a tree is.
LEMMA SoundBranches ==
  ASSUME Sound(slab)
  PROVE  TreeBranches
<1> DEFINE n == slab.nodes
<1>1. Tagged({"Inner"}) = InnersOf(n) /\ n \in [Handles -> Node]
  BY SoundFacts DEF Tagged, InnersOf
<1>2. CASE slab.leaf_count = 0
  <2>1. Used(n) = {}
    BY <1>2, SoundFacts
  <2>2. InnersOf(n) = {}
    BY <2>1, UsedHandles
  <2> QED BY <1>1, <2>2 DEF TreeBranches
<1>3. CASE slab.leaf_count # 0
  <2>1. Tree(n, slab.root_node)
    BY <1>3, SoundFacts
  <2> SUFFICES ASSUME NEW h \in InnersOf(n), NEW c \in {0, 1}
               PROVE  LET node == n[h]
                          child == n[node.children[c]]
                      IN  /\ child.tag \in {"Inner", "Leaf"}
                          /\ child.tag = "Inner" => child.prefix_len > node.prefix_len
                          /\ Bit(child.key, node.prefix_len) = c
                          /\ \A i \in 0 .. node.prefix_len - 1 :
                               Bit(child.key, i) = Bit(node.key, i)
    BY <1>1 DEF TreeBranches
  <2>2. LET child == n[n[h].children[c]]
        IN  /\ n[h].children[c] \in Used(n)
            /\ child.tag = "Inner" => child.prefix_len > n[h].prefix_len
            /\ Bit(child.key, n[h].prefix_len) = c
            /\ Agree(child.key, n[h].key, n[h].prefix_len)
    BY <2>1 DEF Tree, Branches
  <2> QED BY <2>2 DEF Used, Agree
<1> QED BY <1>2, <1>3

\* NodesAccounted counts the parents of each node.
LEMMA SoundNodes ==
  ASSUME Sound(slab)
  PROVE  NodesAccounted
<1> DEFINE n == slab.nodes
           root == IF slab.leaf_count = 0 THEN {} ELSE {slab.root_node}
           Into(h) == {e \in Edges(n) : Target(n, e) = h}
<1>1. /\ Tagged({"Inner", "Leaf"}) = Used(n) /\ Tagged({"Free", "LastFree"}) = FreeOf(n)
      /\ Tagged({"Inner"}) = InnersOf(n)
  BY DEF Tagged, Used, FreeOf, InnersOf
<1>2. /\ Used(n) \union FreeOf(n) = 0 .. slab.bump_index - 1
      /\ Cardinality(FreeOf(n)) = slab.free_list_len
  BY DEF Sound, Pool
<1>3. root \subseteq Used(n)
      /\ \A h \in Used(n) : Cardinality(Into(h)) = IF h \in root THEN 0 ELSE 1
  <2>1. CASE slab.leaf_count = 0
    BY <2>1, SoundFacts
  <2>2. CASE slab.leaf_count # 0
    <3>1. Tree(n, slab.root_node) /\ root = {slab.root_node}
      BY <2>2, SoundFacts
    <3>2. ASSUME NEW h \in Used(n) PROVE Cardinality(Into(h)) = IF h \in root THEN 0 ELSE 1
      <4>1. CASE h \in root
        <5>1. Into(h) = {}
          BY <3>1, <4>1 DEF Tree, OneParent
        <5> QED BY <4>1, <5>1, FS_EmptySet
      <4>2. CASE h \notin root
        <5>1. PICK e \in Edges(n) : Target(n, e) = h
          BY <3>1, <4>2 DEF Tree, OneParent
        <5>2. Into(h) = {e}
          BY <3>1, <5>1 DEF Tree, OneParent
        <5> QED BY <4>2, <5>2, FS_Singleton
      <4> QED BY <4>1, <4>2
    <3> QED BY <3>1, <3>2 DEF Tree
  <2> QED BY <2>1, <2>2
<1>4. \A h : Into(h) = {e \in Tagged({"Inner"}) \X {0, 1} :
                          slab.nodes[e[1]].children[e[2]] = h}
  BY <1>1 DEF Edges, Target
<1> QED BY <1>1, <1>2, <1>3, <1>4 DEF NodesAccounted

\* The walk of FreeListEnds follows the list of free nodes.
LEMMA SoundFreeList ==
  ASSUME Sound(slab)
  PROVE  FreeListEnds
<1> DEFINE s == slab
           L == s.free_list_len
           I == 0 .. L - 1
           P(f) == f = [i \in I |-> IF i = 0 THEN s.free_list_head
                                    ELSE s.nodes[f[i - 1]].next]
           D == CHOOSE f : P(f)
<1>0. L \in Nat
  BY SoundFacts, SlabFields
<1>1. PICK q \in [I -> Handles] : Chain(s, q)
  BY DEF Sound, Pool, FreeList
<1>2. P(q)
  <2>1. q = [i \in I |-> q[i]]
    BY <1>1
  <2>2. \A i \in I : q[i] = IF i = 0 THEN s.free_list_head ELSE s.nodes[q[i - 1]].next
    BY <1>1 DEF Chain
  <2> QED BY <2>1, <2>2
<1>3. P(D)
  <2> HIDE DEF P
  <2> QED BY <1>2
<1>4. FreeListEnds <=> \A i \in I :
                         /\ s.nodes[D[i]].tag = IF i = L - 1 THEN "LastFree" ELSE "Free"
                         /\ \A j \in 0 .. i - 1 : D[i] # D[j]
  BY DEF FreeListEnds
<1> HIDE DEF D, P, s
<1>5. \A i \in I : D[i] = IF i = 0 THEN s.free_list_head ELSE s.nodes[D[i - 1]].next
  BY <1>3 DEF P
<1>6. \A i \in I : D[i] = q[i]
  <2> DEFINE T == {i \in Nat : i \in I => D[i] = q[i]}
  <2>1. 0 \in T
    BY <1>1, <1>5 DEF Chain
  <2>2. ASSUME NEW i \in Nat, i \in T PROVE i + 1 \in T
    <3>1. i + 1 \in I => i \in I /\ i + 1 # 0 /\ (i + 1) - 1 = i
      BY <1>0
    <3>2. i + 1 \in I => D[i + 1] = s.nodes[D[i]].next /\ q[i + 1] = s.nodes[q[i]].next
      BY <1>1, <1>5, <3>1 DEF Chain
    <3>3. i + 1 \in Nat
      OBVIOUS
    <3> QED BY <2>2, <3>1, <3>2, <3>3
  <2>3. \A i \in Nat : i \in T
    <3> HIDE DEF T
    <3> QED BY <2>1, <2>2, AllNat
  <2> QED BY <1>0, <2>3
<1>7. \A i \in I : \A j \in 0 .. i - 1 : j \in I /\ j # i
  BY <1>0
<1>8. \A i \in I : /\ s.nodes[D[i]].tag = IF i = L - 1 THEN "LastFree" ELSE "Free"
                   /\ \A j \in 0 .. i - 1 : D[i] # D[j]
  BY <1>1, <1>6, <1>7 DEF Chain
<1> QED BY <1>4, <1>8

\* There are as many leaves as orders.
LEMMA SoundLeaves ==
  ASSUME Sound(slab)
  PROVE  LeavesCounted /\ Leaves = Records(slab.nodes)
<1>1. Tagged({"Leaf"}) = LeavesOf(slab.nodes)
  BY DEF Tagged, LeavesOf
<1>2. Leaves = Records(slab.nodes)
  BY <1>1 DEF Leaves, Records
<1>3. CASE slab.leaf_count = 0
  <2>1. LeavesOf(slab.nodes) = {}
    BY <1>3, SoundFacts, UsedHandles
  <2> QED BY <1>1, <1>2, <1>3, <2>1, FS_EmptySet DEF LeavesCounted
<1>4. CASE slab.leaf_count # 0
  <2>1. Tree(slab.nodes, slab.root_node)
        /\ Cardinality(Records(slab.nodes)) = slab.leaf_count
    BY <1>4, SoundFacts
  <2> QED BY <1>1, <1>2, <2>1, RecordsApart DEF LeavesCounted
<1> QED BY <1>3, <1>4

\* A full slab has room for Room orders, so for one after the best is booted.
LEMMA SoundBoots ==
  ASSUME Sound(slab)
  PROVE  BootMakesRoom
<1> SUFFICES ASSUME NEW leaf \in LeafNode, NEW find_max \in BOOLEAN,
                    insert_leaf(slab, leaf).returned = OutOfSpace
             PROVE  LET booted == remove_min_max(slab, find_max)
                    IN  /\ booted.returned # None
                        /\ insert_leaf(booted.slab, leaf).returned # OutOfSpace
  BY DEF BootMakesRoom
<1> DEFINE R == insert_leaf(slab, leaf)
           B == remove_min_max(slab, find_max)
           S == insert_leaf(B.slab, leaf)
<1>0. /\ slab.leaf_count \in Nat /\ slab.leaf_count <= Room
      /\ Records(slab.nodes) \subseteq LeafNode
  BY SoundFacts
<1>a. \A x \in LeafNode : x # None /\ x # OutOfSpace
  BY AnswersAssumption
<1>1. WithKey(slab, leaf.key) = {} /\ slab.leaf_count >= Room
  <2>1. \/ /\ R.returned = OutOfSpace
           /\ WithKey(slab, leaf.key) = {} /\ slab.leaf_count >= Room
           /\ Records(R.slab.nodes) = Records(slab.nodes)
        \/ /\ \/ WithKey(slab, leaf.key) = {} /\ R.returned = None
                 /\ slab.leaf_count < Room
              \/ R.returned \in WithKey(slab, leaf.key)
           /\ Records(R.slab.nodes)
                = (Records(slab.nodes) \ WithKey(slab, leaf.key)) \union {leaf}
    <3> HIDE DEF R
    <3> QED BY InsertLeafSound DEF R
  <2>2. WithKey(slab, leaf.key) \subseteq LeafNode
    BY <1>0 DEF WithKey
  <2> QED BY <1>a, <2>1, <2>2, SlabAssumption
<1>2. slab.leaf_count # 0 /\ slab.leaf_count = Room
  BY <1>0, <1>1, Capacity
<1>3. /\ Sound(B.slab) /\ B.returned \in BestOf(slab, find_max)
      /\ B.slab.leaf_count = slab.leaf_count - 1
      /\ Records(B.slab.nodes) = Records(slab.nodes) \ BestOf(slab, find_max)
  <2> HIDE DEF B
  <2> QED BY <1>2, RemoveMinMaxSound DEF B
<1>4. B.returned # None
  <2>1. BestOf(slab, find_max) \subseteq LeafNode
    BY <1>0 DEF BestOf
  <2> QED BY <1>a, <1>3, <2>1
<1>5. B.slab.leaf_count < Room
  <2> HIDE DEF B
  <2> QED BY <1>0, <1>2, <1>3
<1>6. S.returned # OutOfSpace
  <2> HIDE DEF B
  <2> DEFINE b == B.slab
  <2>1. Sound(b) /\ b.leaf_count < Room /\ b.leaf_count \in Nat
        /\ Records(b.nodes) \subseteq LeafNode
    BY <1>3, <1>5, SoundFacts
  <2> HIDE DEF b
  <2>2. \/ /\ insert_leaf(b, leaf).returned = OutOfSpace
           /\ WithKey(b, leaf.key) = {} /\ b.leaf_count >= Room
           /\ Records(insert_leaf(b, leaf).slab.nodes) = Records(b.nodes)
        \/ /\ \/ WithKey(b, leaf.key) = {} /\ insert_leaf(b, leaf).returned = None
                 /\ b.leaf_count < Room
              \/ insert_leaf(b, leaf).returned \in WithKey(b, leaf.key)
           /\ Records(insert_leaf(b, leaf).slab.nodes)
                = (Records(b.nodes) \ WithKey(b, leaf.key)) \union {leaf}
    BY <2>1, InsertLeafSound
  <2>3. WithKey(b, leaf.key) \subseteq LeafNode
    BY <2>1 DEF WithKey
  <2>4. insert_leaf(b, leaf).returned # OutOfSpace
    BY <1>a, <2>1, <2>2, <2>3, Capacity, SlabAssumption
  <2> QED BY <2>4 DEF b
<1> QED BY <1>4, <1>6

-----------------------------------------------------------------------------
(* Every call keeps the slab sound, and is one of the map                  *)

SlabInv == Sound(slab) /\ last[3] \in LeafNode \union {None, OutOfSpace}

\* The zeroed account is a slab without orders.
LEMMA InitSound == Init => SlabInv
<1> SUFFICES ASSUME Init PROVE SlabInv
  OBVIOUS
<1> DEFINE n == slab.nodes
<1>0. NumNodes \in Nat \ {0} /\ 0 \in Handles
  BY HandlesFinite
<1>1. /\ n \in [Handles -> Node] /\ \A h \in Handles : n[h] = Uninitialized
      /\ slab.bump_index = 0 /\ slab.free_list_len = 0 /\ slab.leaf_count = 0
  BY DEF Init, Node
<1>2. slab \in Slab
  <2>1. slab = [nodes |-> n, bump_index |-> 0, free_list_len |-> 0, free_list_head |-> 0,
                root_node |-> 0, leaf_count |-> 0]
    BY DEF Init
  <2>2. 0 \in 0 .. NumNodes
    BY <1>0
  <2> HIDE DEF n
  <2> QED BY <1>0, <1>1, <2>1, <2>2 DEF Slab
<1>3. Used(n) = {} /\ FreeOf(n) = {}
  BY <1>1 DEF Used, FreeOf, Uninitialized
<1>4. FreeList(slab)
  <2>1. 0 .. slab.free_list_len - 1 = {}
    BY <1>1
  <2>2. Chain(slab, [i \in 0 .. slab.free_list_len - 1 |-> 0])
    BY <2>1 DEF Chain
  <2>3. [i \in 0 .. slab.free_list_len - 1 |-> 0] \in [0 .. slab.free_list_len - 1 -> Handles]
    BY <2>1
  <2> QED BY <2>2, <2>3 DEF FreeList
<1>5. Pool(slab)
  <2>1. 0 .. slab.bump_index - 1 = {}
    BY <1>1
  <2> QED BY <1>1, <1>2, <1>3, <1>4, <2>1, FS_EmptySet DEF Pool
<1>6. Records(n) = {}
  BY <1>3, UsedHandles DEF Records
<1>7. Sound(slab)
  BY <1>1, <1>3, <1>5, <1>6, FS_EmptySet DEF Sound
<1>8. last[3] = None
  BY DEF Init
<1> QED BY <1>7, <1>8 DEF SlabInv

\* The map counts its orders as the slab does.
LEMMA SameCardinality == \A S : Map!Cardinality(S) = Cardinality(S)
  BY DEF Cardinality, Map!Cardinality

\* How the ordered map sees the slab.
LEMMA Seen ==
  /\ Leaves = Records(slab.nodes) /\ Leaves' = Records(slab'.nodes)
  /\ \A key : Map!With(key) = WithKey(slab, key)
  /\ \A find_max : Map!Best(find_max) = BestOf(slab, find_max)
<1>1. Leaves = Records(slab.nodes) /\ Leaves' = Records(slab'.nodes)
  BY DEF Leaves, Tagged, Records, LeavesOf
<1>2. \A key : Map!With(key) = WithKey(slab, key)
  BY <1>1 DEF Map!With, WithKey
<1>3. \A find_max : Map!Best(find_max) = BestOf(slab, find_max)
  BY <1>1 DEF Map!Best, Map!IsMax, Map!IsMin, BestOf
<1> QED BY <1>1, <1>2, <1>3

\* Every call of the slab is one of the map.
LEMMA InsertLeafStep ==
  ASSUME SlabInv, NEW leaf \in LeafNode, InsertLeaf(leaf)
  PROVE  SlabInv' /\ (Map!Insert(leaf) \/ Map!Refuse(leaf))
<1> DEFINE R == insert_leaf(slab, leaf)
           old == WithKey(slab, leaf.key)
<1>0. Sound(slab) /\ slab' = R.slab /\ last' = <<"insert_leaf", leaf, R.returned>>
  BY DEF SlabInv, InsertLeaf, Call
<1>1. /\ Sound(R.slab)
      /\ \/ /\ R.returned = OutOfSpace
            /\ old = {} /\ slab.leaf_count >= Room
            /\ Records(R.slab.nodes) = Records(slab.nodes)
         \/ /\ \/ old = {} /\ R.returned = None /\ slab.leaf_count < Room
               \/ R.returned \in old
            /\ Records(R.slab.nodes) = (Records(slab.nodes) \ old) \union {leaf}
  <2> HIDE DEF R
  <2> QED BY <1>0, InsertLeafSound DEF R
<1> HIDE DEF R
<1>2. last'[3] = R.returned /\ last' = <<"insert_leaf", leaf, last'[3]>>
  BY <1>0
<1>3. old \subseteq LeafNode /\ Cardinality(Records(slab.nodes)) = slab.leaf_count
  BY <1>0, SoundFacts DEF WithKey
<1>4. SlabInv'
  <2>1. Sound(slab)'
    BY <1>0, <1>1
  <2>2. last'[3] \in LeafNode \union {None, OutOfSpace}
    BY <1>1, <1>2, <1>3
  <2> QED BY <2>1, <2>2 DEF SlabInv
<1>5. Map!Insert(leaf) \/ Map!Refuse(leaf)
  <2>1. /\ Leaves = Records(slab.nodes) /\ Leaves' = Records(R.slab.nodes)
        /\ Map!With(leaf.key) = old
    BY <1>0, Seen
  <2>2. Cardinality(Leaves) = slab.leaf_count
    BY <1>3, <2>1
  <2>a. Map!Cardinality(Leaves) = slab.leaf_count
    BY <2>2, SameCardinality
  <2> HIDE DEF old
  <2>3. CASE /\ R.returned = OutOfSpace
             /\ old = {} /\ slab.leaf_count >= Room
             /\ Records(R.slab.nodes) = Records(slab.nodes)
    BY <1>0, <2>1, <2>a, <2>3 DEF Map!Refuse, Room
  <2>4. CASE /\ \/ old = {} /\ R.returned = None /\ slab.leaf_count < Room
                \/ R.returned \in old
             /\ Records(R.slab.nodes) = (Records(slab.nodes) \ old) \union {leaf}
    <3>1. Map!Called("insert_leaf", leaf)
      BY <1>2 DEF Map!Called
    <3>2. Map!Answers(old)
      BY <1>2, <2>4 DEF Map!Answers
    <3>3. old # {} \/ Map!Cardinality(Leaves) < Room
      BY <2>a, <2>4
    <3> QED BY <2>1, <2>4, <3>1, <3>2, <3>3 DEF Map!Insert, Room
  <2> QED BY <1>1, <2>3, <2>4
<1> QED BY <1>4, <1>5

\* Removing.
LEMMA RemoveByKeyStep ==
  ASSUME SlabInv, NEW key \in Keys, RemoveByKey(key)
  PROVE  SlabInv' /\ Map!Remove(key)
<1> DEFINE R == remove_by_key(slab, key)
           old == WithKey(slab, key)
<1>0. Sound(slab) /\ slab' = R.slab /\ last' = <<"remove_by_key", key, R.returned>>
  BY DEF SlabInv, RemoveByKey, Call
<1>1. /\ Sound(R.slab)
      /\ old = {} => R.returned = None
      /\ old # {} => R.returned \in old
      /\ Records(R.slab.nodes) = Records(slab.nodes) \ old
  <2> HIDE DEF R
  <2>1. /\ Sound(R.slab)
        /\ WithKey(slab, key) = {} => R.slab = slab /\ R.returned = None
        /\ WithKey(slab, key) # {} => /\ R.returned \in WithKey(slab, key)
                                      /\ slab.leaf_count # 0
                                      /\ R.slab.leaf_count = slab.leaf_count - 1
        /\ Records(R.slab.nodes) = Records(slab.nodes) \ WithKey(slab, key)
    BY <1>0, RemoveByKeySound DEF R
  <2> QED BY <2>1
<1> HIDE DEF R
<1>2. last'[3] = R.returned /\ last' = <<"remove_by_key", key, last'[3]>>
  BY <1>0
<1>3. old \subseteq LeafNode
  BY <1>0, SoundFacts DEF WithKey
<1>4. SlabInv'
  <2>1. Sound(slab)'
    BY <1>0, <1>1
  <2>2. last'[3] \in LeafNode \union {None, OutOfSpace}
    BY <1>1, <1>2, <1>3
  <2> QED BY <2>1, <2>2 DEF SlabInv
<1>5. Map!Remove(key)
  <2>1. /\ Leaves = Records(slab.nodes) /\ Leaves' = Records(R.slab.nodes)
        /\ Map!With(key) = old
    BY <1>0, Seen
  <2> HIDE DEF old
  <2>2. Map!Called("remove_by_key", key) /\ Map!Answers(old)
    BY <1>1, <1>2 DEF Map!Called, Map!Answers
  <2> QED BY <1>1, <2>1, <2>2 DEF Map!Remove
<1> QED BY <1>4, <1>5

\* Removing the best order.
LEMMA RemoveMinMaxStep ==
  ASSUME SlabInv, NEW find_max \in BOOLEAN, RemoveMinMax(find_max)
  PROVE  SlabInv' /\ Map!RemoveBest(find_max)
<1> DEFINE R == remove_min_max(slab, find_max)
           best == BestOf(slab, find_max)
<1>0. Sound(slab) /\ slab' = R.slab /\ last' = <<"remove_min_max", find_max, R.returned>>
  BY DEF SlabInv, RemoveMinMax, Call
<1>1. /\ Sound(R.slab)
      /\ best = {} => R.returned = None
      /\ best # {} => R.returned \in best
      /\ Records(R.slab.nodes) = Records(slab.nodes) \ best
  <2> HIDE DEF R
  <2>1. /\ Sound(R.slab)
        /\ slab.leaf_count = 0 => R.returned = None
        /\ slab.leaf_count # 0 => /\ R.returned \in BestOf(slab, find_max)
                                  /\ R.slab.leaf_count = slab.leaf_count - 1
        /\ Records(R.slab.nodes) = Records(slab.nodes) \ BestOf(slab, find_max)
    BY <1>0, RemoveMinMaxSound DEF R
  <2> QED BY <1>0, <2>1, NoneBest
<1> HIDE DEF R
<1>2. last'[3] = R.returned /\ last' = <<"remove_min_max", find_max, last'[3]>>
  BY <1>0
<1>3. best \subseteq LeafNode
  BY <1>0, SoundFacts DEF BestOf
<1>4. SlabInv'
  <2>1. Sound(slab)'
    BY <1>0, <1>1
  <2>2. last'[3] \in LeafNode \union {None, OutOfSpace}
    BY <1>1, <1>2, <1>3
  <2> QED BY <2>1, <2>2 DEF SlabInv
<1>5. Map!RemoveBest(find_max)
  <2>1. /\ Leaves = Records(slab.nodes) /\ Leaves' = Records(R.slab.nodes)
        /\ Map!Best(find_max) = best
    BY <1>0, Seen
  <2> HIDE DEF best
  <2>2. Map!Called("remove_min_max", find_max) /\ Map!Answers(best)
    BY <1>1, <1>2 DEF Map!Called, Map!Answers
  <2> QED BY <1>1, <2>1, <2>2 DEF Map!RemoveBest
<1> QED BY <1>4, <1>5

\* Looking at it.
LEMMA FindMinMaxStep ==
  ASSUME SlabInv, NEW find_max \in BOOLEAN, FindMinMax(find_max)
  PROVE  SlabInv' /\ Map!Find(find_max)
<1> DEFINE best == BestOf(slab, find_max)
<1>0. Sound(slab) /\ slab' = slab
  BY DEF SlabInv, FindMinMax
<1>1. /\ last' = <<"find_min_max", find_max, last'[3]>>
      /\ best = {} => last'[3] = None
      /\ best # {} => last'[3] \in best
  <2>1. CASE slab.leaf_count = 0
    BY <1>0, <2>1, NoneBest DEF FindMinMax
  <2>2. CASE slab.leaf_count # 0
    <3>1. best = {slab.nodes[find_min_max(slab, find_max)]}
      BY <1>0, <2>2, MinMaxSound
    <3> QED BY <2>2, <3>1 DEF FindMinMax
  <2> QED BY <2>1, <2>2
<1>3. best \subseteq LeafNode
  BY <1>0, SoundFacts DEF BestOf
<1>4. SlabInv'
  <2>1. Sound(slab)'
    BY <1>0
  <2>2. last'[3] \in LeafNode \union {None, OutOfSpace}
    BY <1>1, <1>3
  <2> QED BY <2>1, <2>2 DEF SlabInv
<1>5. Map!Find(find_max)
  <2>1. Leaves' = Leaves /\ Map!Best(find_max) = best
    BY <1>0, Seen
  <2> HIDE DEF best
  <2>2. Map!Called("find_min_max", find_max) /\ Map!Answers(best)
    BY <1>1 DEF Map!Called, Map!Answers
  <2> QED BY <2>1, <2>2 DEF Map!Find
<1> QED BY <1>4, <1>5

\* Writing to it.
LEMMA QuantityMutStep ==
  ASSUME SlabInv, NEW find_max \in BOOLEAN, NEW quantity \in Quantities,
         QuantityMut(find_max, quantity)
  PROVE  SlabInv' /\ \E order \in LeafNode : Map!Update(find_max, order)
<1> DEFINE h == find_min_max(slab, find_max)
           best == BestOf(slab, find_max)
<1>0. /\ Sound(slab) /\ slab.leaf_count # 0
      /\ slab' = [slab EXCEPT !.nodes[h].quantity = quantity]
      /\ last' = <<"quantity_mut", find_max, slab'.nodes[h]>>
  BY DEF SlabInv, QuantityMut
<1>1. /\ Sound(slab') /\ slab'.nodes[h] \in LeafNode
      /\ \E o \in best : slab'.nodes[h].key = o.key
      /\ Records(slab'.nodes) = (Records(slab.nodes) \ best) \union {slab'.nodes[h]}
  <2> HIDE DEF h
  <2>1. h \in LeavesOf(slab.nodes) /\ BestOf(slab, find_max) = {slab.nodes[h]}
    BY <1>0, MinMaxSound DEF h
  <2>2. QuantityIsNow(slab, slab', h, quantity) /\ Sound(slab) /\ slab.leaf_count # 0
    BY <1>0 DEF QuantityIsNow
  <2> QED BY ONLY find_max \in BOOLEAN, quantity \in Quantities, <2>1, <2>2,
                  QuantitySound
<1> HIDE DEF h
<1>4. SlabInv'
  <2>1. Sound(slab)'
    BY <1>1
  <2>2. last'[3] \in LeafNode \union {None, OutOfSpace}
    BY <1>0, <1>1
  <2> QED BY <2>1, <2>2 DEF SlabInv
<1>5. Map!Update(find_max, slab'.nodes[h])
  <2>1. /\ Leaves = Records(slab.nodes) /\ Leaves' = Records(slab'.nodes)
        /\ Map!Best(find_max) = best
    BY Seen
  <2> HIDE DEF best
  <2> QED BY <1>0, <1>1, <2>1 DEF Map!Update
<1> QED BY <1>1, <1>4, <1>5

\* Every step of the slab is one of the map, or none.
LEMMA SlabStep ==
  ASSUME SlabInv, [Next]_vars
  PROVE  SlabInv' /\ [Map!Next]_<<Leaves, last>>
<1>1. ASSUME NEW leaf \in LeafNode, InsertLeaf(leaf)
      PROVE  SlabInv' /\ Map!Next
  BY <1>1, InsertLeafStep DEF Map!Next
<1>2. ASSUME NEW key \in Keys, RemoveByKey(key)
      PROVE  SlabInv' /\ Map!Next
  BY <1>2, RemoveByKeyStep DEF Map!Next
<1>3. ASSUME NEW find_max \in BOOLEAN, RemoveMinMax(find_max)
      PROVE  SlabInv' /\ Map!Next
  BY <1>3, RemoveMinMaxStep DEF Map!Next
<1>4. ASSUME NEW find_max \in BOOLEAN, FindMinMax(find_max)
      PROVE  SlabInv' /\ Map!Next
  BY <1>4, FindMinMaxStep DEF Map!Next
<1>5. ASSUME NEW find_max \in BOOLEAN, NEW quantity \in Quantities,
             QuantityMut(find_max, quantity)
      PROVE  SlabInv' /\ Map!Next
  BY <1>5, QuantityMutStep DEF Map!Next
<1>6. CASE UNCHANGED vars
  <2>1. slab' = slab /\ last' = last
    BY <1>6 DEF vars
  <2>2. SlabInv'
    BY <2>1 DEF SlabInv
  <2>3. UNCHANGED <<Leaves, last>>
    BY <2>1, Seen
  <2> QED BY <2>2, <2>3
<1>7. CASE Next
  BY <1>1, <1>2, <1>3, <1>4, <1>5, <1>7 DEF Next
<1> QED BY <1>6, <1>7

\* After every call the nodes in use make one tree with leaf_count orders, the
\* others handed out make one free list, and the answer is an order or none:
\* the inductive invariant, of every call of critbit.rs.
THEOREM SlabSound == Spec => []SlabInv
<1>1. SlabInv /\ [Next]_vars => SlabInv'
  BY SlabStep
<1> QED BY InitSound, <1>1, PTL DEF Spec

\* Handles and counts stay within the account, for every number of nodes
\* (critbit.rs SlabHeader, AnyNode).
THEOREM SlabTypeCorrect == Spec => []TypeOK
<1>1. SlabInv => TypeOK
  <2> SUFFICES ASSUME SlabInv PROVE TypeOK
    OBVIOUS
  <2>1. slab \in Slab /\ Pool(slab)
    BY SoundFacts DEF SlabInv
  <2>2. slab.free_list_len <= slab.bump_index
    BY <2>1, PoolCounts
  <2> QED BY <2>1, <2>2 DEF SlabInv, TypeOK
<1> QED BY SlabSound, <1>1, PTL

\* The tree branches where its ids differ, has every node in use below one
\* parent, counts its leaves, and the free list ends where insert looks for its
\* end (critbit.rs check_invariants, SlabView::insert and remove).
THEOREM SlabInvariants == Spec => []check_invariants
<1>1. SlabInv => check_invariants
  BY SoundBranches, SoundNodes, SoundFreeList, SoundLeaves DEF SlabInv, check_invariants
<1> QED BY SlabSound, <1>1, PTL

\* Booting the least aggressive order makes room for the one that did not fit:
\* the unwrap of the second insert_leaf does not panic (matching.rs new_ask and
\* new_bid, critbit.rs insert_leaf and remove_min_max).
THEOREM BootingMakesRoom == Spec => []BootMakesRoom
<1>1. SlabInv => BootMakesRoom
  BY SoundBoots DEF SlabInv
<1> QED BY SlabSound, <1>1, PTL

\* The slab implements an ordered map with room for every second node: each call
\* of critbit.rs does to the leaves what the map does, and answers as the map.
THEOREM SlabIsOrderedMap == Spec => IsOrderedMap
<1>1. Init => Map!Init
  <2> SUFFICES ASSUME Init PROVE Map!Init
    OBVIOUS
  <2>1. Leaves = {}
    BY DEF Init, Leaves, Tagged, Uninitialized
  <2> QED BY <2>1 DEF Init, Map!Init
<1>2. SlabInv /\ [Next]_vars => [Map!Next]_<<Leaves, last>>
  BY SlabStep
<1> QED BY SlabSound, <1>1, <1>2, PTL DEF Spec, IsOrderedMap, Map!Spec
=============================================================================
