------------------------------- MODULE Lemmas -------------------------------
(***************************************************************************)
(* What the proofs of the components share: division and products, powers  *)
(* of two, induction over sets of numbers, iteration of a function,        *)
(* extremal elements of finite sets, recursive functions that may not      *)
(* end, sums, and the operators of module Fees for every quantity and      *)
(* every precision ONE, 2^64 among them.  The facts are stated of sets     *)
(* and functions, so that they can be cited.                               *)
(***************************************************************************)
EXTENDS Fees, Sums, FiniteSetTheorems, WellFoundedInduction, TLAPS

-----------------------------------------------------------------------------
(* Division and products                                                   *)

\* The quotient by a positive number: what \div means, in products.
LEMMA Quotient ==
  ASSUME NEW a \in Int, NEW b \in Nat \ {0}
  PROVE  /\ a \div b \in Int
         /\ (a \div b) * b <= a
         /\ a < (a \div b) * b + b
         /\ a % b = a - (a \div b) * b
  OBVIOUS

\* The quotient is the only multiple that is that close.
LEMMA QuotientUnique ==
  ASSUME NEW a \in Int, NEW b \in Nat \ {0}, NEW q \in Int,
         q * b <= a, a < (q + 1) * b
  PROVE  a \div b = q
  BY Quotient

\* Products with a natural number grow with the other factor.
LEMMA ProductMonotone ==
  ASSUME NEW a \in Int, NEW b \in Int, NEW c \in Nat, a <= b
  PROVE  a * c <= b * c
  OBVIOUS

\* A product with a positive number is less only if the other factor is.
LEMMA ProductStrict ==
  ASSUME NEW a \in Int, NEW b \in Int, NEW c \in Nat \ {0}, a * c < b * c
  PROVE  a < b
  OBVIOUS

\* Natural numbers divide into natural numbers.
LEMMA QuotientAtLeast0 ==
  ASSUME NEW a \in Int, a >= 0, NEW b \in Nat \ {0}
  PROVE  a \div b \in Int /\ a \div b >= 0
<1> DEFINE q == a \div b
<1>1. q \in Int /\ a < q * b + b
  BY Quotient
<1> HIDE DEF q
<1>2. (-1) * b < q * b /\ -1 \in Int
  BY <1>1
<1>3. -1 < q
  BY <1>1, <1>2, ProductStrict
<1> QED BY <1>1, <1>3 DEF q

\* A set of n members has 2^n subsets, half of them with a given member.
LEMMA PowerOfTwo ==
  ASSUME NEW n \in Nat
  PROVE  2 ^ n \in Nat \ {0} /\ 2 ^ (n + 1) = 2 * 2 ^ n
<1> DEFINE A == 1 .. n
           B == 1 .. n + 1
           with == {T \in SUBSET B : n + 1 \in T}
           f == [T \in SUBSET A |-> T \cup {n + 1}]
<1>1. /\ IsFiniteSet(A) /\ Cardinality(A) = n
      /\ IsFiniteSet(B) /\ Cardinality(B) = n + 1
  <2>1. 1 \in Int /\ n \in Int /\ n + 1 \in Int
    OBVIOUS
  <2> QED BY <2>1, FS_Interval
<1>2. /\ IsFiniteSet(SUBSET A) /\ Cardinality(SUBSET A) = 2 ^ n
      /\ IsFiniteSet(SUBSET B) /\ Cardinality(SUBSET B) = 2 ^ (n + 1)
  <2> HIDE DEF A, B
  <2> QED BY <1>1, FS_SUBSET
<1>3. /\ SUBSET B = (SUBSET A) \cup with
      /\ (SUBSET A) \cap with = {}
  OBVIOUS
<1>4. /\ f \in [SUBSET A -> with]
      /\ \A S, T \in SUBSET A : f[S] = f[T] => S = T
      /\ \A U \in with : \E T \in SUBSET A : f[T] = U
  <2>1. f \in [SUBSET A -> with]
    OBVIOUS
  <2>2. \A S, T \in SUBSET A : f[S] = f[T] => S = T
    <3> SUFFICES ASSUME NEW S \in SUBSET A, NEW T \in SUBSET A, f[S] = f[T]
                 PROVE  S = T
      OBVIOUS
    <3>1. n + 1 \notin S /\ n + 1 \notin T
      OBVIOUS
    <3> QED BY <3>1
  <2>3. \A U \in with : \E T \in SUBSET A : f[T] = U
    <3> SUFFICES ASSUME NEW U \in with PROVE \E T \in SUBSET A : f[T] = U
      OBVIOUS
    <3>1. U \ {n + 1} \in SUBSET A
      OBVIOUS
    <3>2. f[U \ {n + 1}] = U
      BY <3>1
    <3> QED BY <3>1, <3>2
  <2> QED BY <2>1, <2>2, <2>3
<1>5. IsFiniteSet(with) /\ Cardinality(with) = 2 ^ n
  <2> HIDE DEF A, B, with, f
  <2>1. f \in Injection(SUBSET A, with) /\ f \in Surjection(SUBSET A, with)
    BY <1>4 DEF Injection, Surjection, IsInjective
  <2>2. ExistsBijection(SUBSET A, with)
    BY <2>1 DEF ExistsBijection, Bijection
  <2> QED BY <1>2, <2>2, FS_Bijection
<1>6. Cardinality(SUBSET B) = Cardinality(SUBSET A) + Cardinality(with)
  <2>1. Cardinality((SUBSET A) \cap with) = 0
    BY <1>3, FS_EmptySet, Zenon
  <2>2. Cardinality((SUBSET A) \cup with)
          = Cardinality(SUBSET A) + Cardinality(with) - Cardinality((SUBSET A) \cap with)
    <3> HIDE DEF A, B, with, f
    <3> QED BY <1>2, <1>5, FS_Union, Zenon
  <2>3. Cardinality(SUBSET A) \in Nat /\ Cardinality(with) \in Nat
    BY <1>2, <1>5, FS_CardinalityType, Zenon
  <2>4. Cardinality(SUBSET B) = Cardinality((SUBSET A) \cup with)
    BY <1>3, Zenon
  <2> HIDE DEF A, B, with, f
  <2> QED BY <2>1, <2>2, <2>3, <2>4
<1>7. Cardinality(SUBSET A) \in Nat /\ Cardinality(SUBSET A) # 0
  <2>1. {} \in SUBSET A
    OBVIOUS
  <2> HIDE DEF A
  <2> QED BY <1>2, <2>1, FS_CardinalityType, FS_EmptySet
<1> HIDE DEF A, B, with, f
<1> QED BY <1>2, <1>5, <1>6, <1>7

-----------------------------------------------------------------------------
(* Sets of numbers, finite sets and sums                                   *)

\* Every non-empty set of natural numbers has a least element.
LEMMA LeastNat ==
  ASSUME NEW T, T \subseteq Nat, T # {}
  PROVE  \E n \in T : \A k \in T : n <= k
<1> DEFINE R == OpToRel(<, Nat)
<1>1. IsWellFoundedOn(R, Nat)
  BY NatLessThanWellFounded
<1>2. \E x \in T : \A y \in T : ~ (<<y, x>> \in R)
  <2> HIDE DEF R
  <2> QED BY <1>1, WFMin, Zenon
<1>3. PICK x \in T : \A y \in T : ~ (<<y, x>> \in R)
  BY <1>2
<1>4. ASSUME NEW y \in T PROVE x <= y
  <2>1. x \in Nat /\ y \in Nat
    OBVIOUS
  <2>2. ~(y < x)
    BY <1>3, <2>1 DEF OpToRel
  <2> QED BY <2>1, <2>2
<1> QED BY <1>4

\* Induction up to a limit.
LEMMA UpTo ==
  ASSUME NEW limit \in Nat, NEW T, 0 \in T,
         \A n \in 0 .. limit : n + 1 \in 0 .. limit /\ n \in T => n + 1 \in T
  PROVE  \A n \in 0 .. limit : n \in T
<1> DEFINE Bad == {n \in 0 .. limit : n \notin T}
<1> SUFFICES ASSUME Bad # {} PROVE FALSE
  OBVIOUS
<1>1. PICK n \in Bad : \A k \in Bad : n <= k
  <2>1. Bad \subseteq Nat
    OBVIOUS
  <2> HIDE DEF Bad
  <2> QED BY <2>1, LeastNat
<1>2. n \in 1 .. limit
  OBVIOUS
<1>3. n - 1 \in 0 .. limit /\ n - 1 \notin Bad
  BY <1>1, <1>2
<1>4. n - 1 \in T /\ (n - 1) + 1 = n
  BY <1>3, <1>2
<1> QED BY <1>2, <1>3, <1>4

\* Induction over the natural numbers.
LEMMA AllNat ==
  ASSUME NEW T, 0 \in T, \A n \in Nat : n \in T => n + 1 \in T
  PROVE  \A n \in Nat : n \in T
<1> SUFFICES ASSUME NEW k \in Nat PROVE k \in T
  OBVIOUS
<1>1. \A n \in 0 .. k : n \in T
  <2>1. \A n \in 0 .. k : n + 1 \in 0 .. k /\ n \in T => n + 1 \in T
    OBVIOUS
  <2> QED BY <2>1, UpTo, Zenon
<1> QED BY <1>1

\* g is the first limit + 1 iterates of F from s.
Iterates(g, F, s, limit) ==
  g[0] = s /\ \A n \in 1 .. limit : g[n] = F[g[n - 1]]

\* A function can be iterated.
LEMMA Iteration ==
  ASSUME NEW S, NEW F \in [S -> S], NEW s \in S, NEW limit \in Nat
  PROVE  \E g \in [0 .. limit -> S] : Iterates(g, F, s, limit)
<1> USE DEF Iterates
<1> DEFINE T == {k \in Nat : \E g \in [0 .. k -> S] : Iterates(g, F, s, k)}
<1>1. 0 \in T
  <2>1. Iterates([i \in 0 .. 0 |-> s], F, s, 0)
         /\ [i \in 0 .. 0 |-> s] \in [0 .. 0 -> S]
    OBVIOUS
  <2> QED BY <2>1
<1>2. ASSUME NEW k \in Nat, k \in T PROVE k + 1 \in T
  <2>1. PICK g \in [0 .. k -> S] : Iterates(g, F, s, k)
    BY <1>2
  <2> DEFINE h == [i \in 0 .. k + 1 |-> IF i = k + 1 THEN F[g[k]] ELSE g[i]]
  <2>2. h \in [0 .. k + 1 -> S]
    <3>1. g[k] \in S /\ F[g[k]] \in S
      OBVIOUS
    <3>2. \A i \in 0 .. k + 1 : i # k + 1 => i \in 0 .. k
      OBVIOUS
    <3> QED BY <3>1, <3>2
  <2>3. h[0] = s
    BY <2>1
  <2>4. ASSUME NEW n \in 1 .. k + 1 PROVE h[n] = F[h[n - 1]]
    <3>1. CASE n = k + 1
      BY <3>1
    <3>2. CASE n # k + 1
      <4>1. n \in 1 .. k /\ n - 1 \in 0 .. k /\ n \in 0 .. k
        BY <3>2
      <4>2. h[n] = g[n] /\ h[n - 1] = g[n - 1]
        BY <4>1, <3>2
      <4> QED BY <4>1, <4>2, <2>1
    <3> QED BY <3>1, <3>2
  <2> QED BY <2>2, <2>3, <2>4
<1>3. \A k \in Nat : k \in T
  <2> HIDE DEF T
  <2> QED BY <1>1, <1>2, AllNat, Zenon
<1> QED BY <1>3

\* A finite set that is not empty has an element without a successor in a
\* strict order.
LEMMA FiniteMaximal ==
  ASSUME NEW S, IsFiniteSet(S), S # {}, NEW R,
         \A x \in S : <<x, x>> \notin R,
         \A x, y, z \in S : <<x, y>> \in R /\ <<y, z>> \in R => <<x, z>> \in R
  PROVE  \E x \in S : \A y \in S : <<x, y>> \notin R
<1> DEFINE HasMaximal(U) == \E x \in U : \A y \in U : <<x, y>> \notin R
           T == {n \in Nat : \E U \in SUBSET S :
                   U # {} /\ Cardinality(U) = n /\ ~HasMaximal(U)}
<1> SUFFICES ASSUME ~HasMaximal(S) PROVE FALSE
  OBVIOUS
<1>1. Cardinality(S) \in T
  BY FS_CardinalityType
<1>2. PICK n \in T : \A k \in T : n <= k
  <2>1. T \subseteq Nat /\ T # {}
    BY <1>1
  <2> HIDE DEF T
  <2> QED BY <2>1, LeastNat
<1>3. PICK U \in SUBSET S : U # {} /\ Cardinality(U) = n /\ ~HasMaximal(U)
  BY <1>2
<1>4. PICK z \in U : TRUE
  BY <1>3
<1> DEFINE V == U \ {z}
<1>5. V # {}
  BY <1>3
<1>6. /\ IsFiniteSet(U) /\ n \in Nat /\ Cardinality(V) = n - 1
      /\ Cardinality(V) \in Nat
  BY <1>3, FS_Subset, FS_RemoveElement, FS_CardinalityType
<1>7. HasMaximal(V)
  <2>1. V \in SUBSET S
    OBVIOUS
  <2>2. n - 1 \notin T
    <3> HIDE DEF T, V
    <3>1. n - 1 \in T => n <= n - 1
      BY <1>2
    <3> QED BY <3>1, <1>6
  <2>3. n - 1 \in Nat
    BY <1>6
  <2> QED BY <2>1, <2>2, <2>3, <1>5, <1>6
<1>8. PICK x \in V : \A y \in V : <<x, y>> \notin R
  BY <1>7
<1>9. CASE <<x, z>> \notin R
  BY <1>3, <1>8, <1>9
<1>10. CASE <<x, z>> \in R
  <2>1. ASSUME NEW y \in U, <<z, y>> \in R PROVE FALSE
    <3>1. y # z /\ y \in V
      BY <2>1
    <3>2. <<x, y>> \in R
      BY <2>1, <1>10
    <3> QED BY <3>1, <3>2, <1>8
  <2> QED BY <2>1, <1>3
<1> QED BY <1>9, <1>10

-----------------------------------------------------------------------------
(* Walks, which go on while they stay in a set                             *)

\* f is where a walk ends that goes on from the members of Go to next.
Descends(f, H, Go, next) == f = [h \in H |-> IF h \in Go THEN f[next[h]] ELSE h]

\* There is such a function.
LEMMA Descent ==
  ASSUME NEW H, NEW Go, NEW next, \A h \in H \cap Go : next[h] \in H
  PROVE  \E f : Descends(f, H, Go, next)
<1> DEFINE Back(T) == \A y \in H \cap Go : next[y] \in T => y \in T
           B(l) == {x \in H : \A T \in SUBSET H : l \in T /\ Back(T) => x \in T}
           Ends(x) == {l \in H \ Go : x \in B(l)}
           f == [x \in H |-> CHOOSE l \in Ends(x) : TRUE]
<1>1. ASSUME NEW l \in H \ Go PROVE l \in B(l) /\ Back(B(l)) /\ B(l) \in SUBSET H
  OBVIOUS
<1>2. ASSUME NEW l \in H \ Go, NEW x \in B(l), x # l,
             ~(x \in Go /\ next[x] \in B(l))
      PROVE  FALSE
  <2> DEFINE T == B(l) \ {x}
  <2>1. l \in T /\ T \in SUBSET H
    BY <1>1, <1>2
  <2>2. Back(T)
    <3> SUFFICES ASSUME NEW y \in H \cap Go, next[y] \in T PROVE y \in T
      OBVIOUS
    <3>1. y \in B(l)
      BY <1>1
    <3>2. y # x
      BY <1>2
    <3> QED BY <3>1, <3>2
  <2>3. x \in T
    BY <1>2, <2>1, <2>2
  <2> QED BY <2>3
<1>3. ASSUME NEW x \in H, x \in Go PROVE Ends(x) = Ends(next[x])
  <2>1. next[x] \in H
    BY <1>3
  <2>2. ASSUME NEW l \in H \ Go PROVE x \in B(l) <=> next[x] \in B(l)
    <3>1. x # l
      BY <1>3
    <3>2. next[x] \in B(l) => x \in B(l)
      BY <1>1, <1>3
    <3>3. x \in B(l) => next[x] \in B(l)
      BY <1>2, <3>1
    <3> QED BY <3>2, <3>3
  <2> HIDE DEF B
  <2> QED BY <2>2
<1>4. ASSUME NEW x \in H, x \notin Go PROVE Ends(x) = {x}
  <2>1. \A l \in H \ Go : x \in B(l) => x = l
    BY <1>2, <1>4
  <2>2. x \in B(x)
    BY <1>1, <1>4
  <2> HIDE DEF B
  <2> QED BY <1>4, <2>1, <2>2
<1> HIDE DEF Ends, Back, B
<1>5. ASSUME NEW x \in H PROVE f[x] = IF x \in Go THEN f[next[x]] ELSE x
  <2>1. CASE x \in Go
    BY <1>3, <2>1
  <2>2. CASE x \notin Go
    BY <1>4, <2>2
  <2> QED BY <2>1, <2>2
<1>6. f = [h \in H |-> IF h \in Go THEN f[next[h]] ELSE h]
  <2>1. f = [h \in H |-> f[h]]
    OBVIOUS
  <2> HIDE DEF f
  <2> QED BY <1>5, <2>1
<1>7. Descends(f, H, Go, next)
  BY <1>6 DEF Descends
<1> QED BY <1>7

-----------------------------------------------------------------------------
(* Sums                                                                    *)

\* The member that a fold over s takes first.
First(s) == CHOOSE x \in s : TRUE

\* g adds f up over the sets of D.
AddsUp(g, D, f) ==
  g = [s \in D |-> IF s = {} THEN 0 ELSE f[First(s)] + g[s \ {First(s)}]]

\* The subsets with at most n members.
UpToSize(S, n) == {s \in SUBSET S : Cardinality(s) <= n}

\* What is left once a member is taken out of a finite set.
LEMMA TakeOne ==
  ASSUME NEW s, IsFiniteSet(s), NEW x \in s
  PROVE  /\ IsFiniteSet(s \ {x})
         /\ Cardinality(s) \in Nat \ {0}
         /\ Cardinality(s \ {x}) = Cardinality(s) - 1
BY FS_RemoveElement, FS_CardinalityType, FS_EmptySet

\* A fold takes members.
LEMMA FirstIn ==
  ASSUME NEW s, s # {}
  PROVE  First(s) \in s
BY DEF First

\* A sum over a finite set is well-defined.
LEMMA AddingUp ==
  ASSUME NEW S, IsFiniteSet(S), NEW f
  PROVE  \E g : AddsUp(g, SUBSET S, f)
<1> DEFINE Sized(n) == UpToSize(S, n)
           T == {n \in Nat : \E g : AddsUp(g, UpToSize(S, n), f)}
<1>0. \A s \in SUBSET S : IsFiniteSet(s) /\ Cardinality(s) \in Nat
  BY FS_Subset, FS_CardinalityType
<1>1. 0 \in T
  <2> DEFINE g == [s \in UpToSize(S, 0) |-> 0]
  <2>1. \A s \in UpToSize(S, 0) : s = {}
    BY <1>0, FS_EmptySet DEF UpToSize
  <2>2. AddsUp(g, UpToSize(S, 0), f)
    BY <2>1 DEF AddsUp
  <2> QED BY <2>2
<1>2. ASSUME NEW n \in Nat, n \in T PROVE n + 1 \in T
  <2>1. PICK g : AddsUp(g, UpToSize(S, n), f)
    BY <1>2
  <2> DEFINE h == [s \in UpToSize(S, n + 1) |->
                     IF s = {} THEN 0 ELSE f[First(s)] + g[s \ {First(s)}]]
  <2>2. ASSUME NEW s \in UpToSize(S, n) PROVE g[s] = h[s]
    <3>1. s \in UpToSize(S, n + 1)
      BY <1>0 DEF UpToSize
    <3> QED BY <2>1, <3>1 DEF AddsUp
  <2>3. ASSUME NEW s \in UpToSize(S, n + 1), s # {}
        PROVE  s \ {First(s)} \in UpToSize(S, n)
    <3>1. First(s) \in s /\ IsFiniteSet(s) /\ s \in SUBSET S
      BY <2>3, <1>0, FirstIn DEF UpToSize
    <3>2. Cardinality(s \ {First(s)}) = Cardinality(s) - 1 /\ Cardinality(s) \in Nat
      BY <3>1, TakeOne
    <3> QED BY <3>1, <3>2 DEF UpToSize
  <2>4. h = [s \in UpToSize(S, n + 1) |->
               IF s = {} THEN 0 ELSE f[First(s)] + h[s \ {First(s)}]]
    <3> HIDE DEF h
    <3>1. h = [s \in UpToSize(S, n + 1) |->
                 IF s = {} THEN 0 ELSE f[First(s)] + g[s \ {First(s)}]]
      BY DEF h
    <3> QED BY <3>1, <2>2, <2>3
  <2>5. AddsUp(h, UpToSize(S, n + 1), f)
    <3> HIDE DEF h
    <3> QED BY <2>4 DEF AddsUp
  <2> QED BY <2>5
<1>3. \A n \in Nat : n \in T
  <2> HIDE DEF T
  <2> QED BY <1>1, <1>2, AllNat, Zenon
<1>4. Cardinality(S) \in T
  BY <1>3, FS_CardinalityType
<1>5. UpToSize(S, Cardinality(S)) = SUBSET S
  BY FS_Subset DEF UpToSize
<1> QED BY <1>4, <1>5

\* The sum of f over S is what any such function gives S.
LEMMA TotalAddsUp ==
  ASSUME NEW S, IsFiniteSet(S), NEW f
  PROVE  \E g : AddsUp(g, SUBSET S, f) /\ Total(S, f) = g[S]
<1> DEFINE g == CHOOSE g : AddsUp(g, SUBSET S, f)
<1>1. AddsUp(g, SUBSET S, f)
  BY AddingUp
<1>2. Total(S, f) = g[S]
  BY DEF Total, MapThenSumSet, MapThenFoldSet, AddsUp, First
<1> QED BY <1>1, <1>2

\* There is only one.
LEMMA AddsUpOnce ==
  ASSUME NEW S, IsFiniteSet(S), NEW f, NEW D, NEW E, NEW g, NEW h,
         AddsUp(g, D, f), AddsUp(h, E, f), SUBSET S \subseteq D, SUBSET S \subseteq E
  PROVE  g[S] = h[S]
<1> DEFINE T == {n \in Nat : \A s \in SUBSET S : Cardinality(s) = n => g[s] = h[s]}
<1>0. \A s \in SUBSET S : IsFiniteSet(s) /\ Cardinality(s) \in Nat
  BY FS_Subset, FS_CardinalityType
<1>a. \A s \in SUBSET S :
        /\ g[s] = IF s = {} THEN 0 ELSE f[First(s)] + g[s \ {First(s)}]
        /\ h[s] = IF s = {} THEN 0 ELSE f[First(s)] + h[s \ {First(s)}]
  <2> SUFFICES ASSUME NEW s \in SUBSET S
               PROVE  /\ g[s] = IF s = {} THEN 0 ELSE f[First(s)] + g[s \ {First(s)}]
                      /\ h[s] = IF s = {} THEN 0 ELSE f[First(s)] + h[s \ {First(s)}]
    OBVIOUS
  <2>1. s \in D /\ s \in E
    OBVIOUS
  <2> QED BY <2>1, Zenon DEF AddsUp
<1>1. 0 \in T
  BY <1>0, <1>a, FS_EmptySet
<1>2. ASSUME NEW n \in Nat, n \in T PROVE n + 1 \in T
  <2> SUFFICES ASSUME NEW s \in SUBSET S, Cardinality(s) = n + 1
               PROVE  g[s] = h[s]
    OBVIOUS
  <2>1. s # {} /\ IsFiniteSet(s)
    BY <1>0, FS_EmptySet
  <2>2. Cardinality(s \ {First(s)}) = n
    BY <2>1, FirstIn, TakeOne
  <2>3. g[s \ {First(s)}] = h[s \ {First(s)}]
    BY <1>2, <2>2
  <2> QED BY <1>a, <2>1, <2>3
<1>3. \A n \in Nat : n \in T
  <2> HIDE DEF T
  <2> QED BY <1>1, <1>2, AllNat, Zenon
<1> QED BY <1>3, <1>0

\* Nothing adds up to zero.
LEMMA TotalEmpty == \A f : Total({}, f) = 0
<1> SUFFICES ASSUME NEW f PROVE Total({}, f) = 0
  OBVIOUS
<1>1. PICK g : AddsUp(g, SUBSET {}, f) /\ Total({}, f) = g[{}]
  BY TotalAddsUp, FS_EmptySet
<1> QED BY <1>1, Zenon DEF AddsUp

\* A sum in the order in which the fold takes the members.
LEMMA TotalFirst ==
  ASSUME NEW S, IsFiniteSet(S), S # {}, NEW f
  PROVE  Total(S, f) = f[First(S)] + Total(S \ {First(S)}, f)
<1> DEFINE R == S \ {First(S)}
<1>1. IsFiniteSet(R)
  BY FS_Subset
<1>2. PICK g : AddsUp(g, SUBSET S, f) /\ Total(S, f) = g[S]
  BY TotalAddsUp
<1>3. PICK h : AddsUp(h, SUBSET R, f) /\ Total(R, f) = h[R]
  BY <1>1, TotalAddsUp
<1>4. g[R] = h[R]
  <2> DEFINE D == SUBSET S
             E == SUBSET R
  <2>1. SUBSET R \subseteq D /\ SUBSET R \subseteq E
    OBVIOUS
  <2>2. AddsUp(g, D, f) /\ AddsUp(h, E, f) /\ IsFiniteSet(R)
    BY <1>1, <1>2, <1>3
  <2> HIDE DEF R, D, E
  <2> QED BY <2>1, <2>2, AddsUpOnce
<1>5. g[S] = f[First(S)] + g[R]
  <2>1. S \in SUBSET S
    OBVIOUS
  <2> QED BY <1>2, <2>1, Zenon DEF AddsUp
<1> QED BY <1>2, <1>3, <1>4, <1>5

\* A sum of integers is one.
LEMMA TotalInt ==
  ASSUME NEW S, IsFiniteSet(S), NEW f, \A x \in S : f[x] \in Int
  PROVE  Total(S, f) \in Int
<1> DEFINE T == {n \in Nat : \A s \in SUBSET S : Cardinality(s) = n => Total(s, f) \in Int}
<1>0. \A s \in SUBSET S : IsFiniteSet(s) /\ Cardinality(s) \in Nat
  BY FS_Subset, FS_CardinalityType
<1>1. 0 \in T
  BY <1>0, FS_EmptySet, TotalEmpty
<1>2. ASSUME NEW n \in Nat, n \in T PROVE n + 1 \in T
  <2> SUFFICES ASSUME NEW s \in SUBSET S, Cardinality(s) = n + 1
               PROVE  Total(s, f) \in Int
    OBVIOUS
  <2>1. s # {} /\ IsFiniteSet(s)
    BY <1>0, FS_EmptySet
  <2>2. Cardinality(s \ {First(s)}) = n /\ First(s) \in S
    BY <2>1, FirstIn, TakeOne
  <2>3. Total(s \ {First(s)}, f) \in Int
    BY <1>2, <2>2
  <2>4. Total(s, f) = f[First(s)] + Total(s \ {First(s)}, f)
    BY <2>1, TotalFirst
  <2>5. f[First(s)] \in Int
    BY <2>2
  <2> QED BY <2>3, <2>4, <2>5
<1>3. \A n \in Nat : n \in T
  <2> HIDE DEF T
  <2> QED BY <1>1, <1>2, AllNat, Zenon
<1> QED BY <1>3, <1>0

\* A sum does not depend on the order of the members.
LEMMA TotalRemove ==
  ASSUME NEW S, IsFiniteSet(S), NEW f, \A x \in S : f[x] \in Int, NEW x \in S
  PROVE  Total(S, f) = f[x] + Total(S \ {x}, f)
<1> DEFINE Splits(s) == \A y \in s : Total(s, f) = f[y] + Total(s \ {y}, f)
           T == {n \in Nat : \A s \in SUBSET S : Cardinality(s) = n => Splits(s)}
<1>0. \A s \in SUBSET S : IsFiniteSet(s) /\ Cardinality(s) \in Nat /\ Total(s, f) \in Int
  <2> SUFFICES ASSUME NEW s \in SUBSET S
               PROVE  IsFiniteSet(s) /\ Cardinality(s) \in Nat /\ Total(s, f) \in Int
    OBVIOUS
  <2>1. IsFiniteSet(s) /\ \A y \in s : f[y] \in Int
    BY FS_Subset
  <2> QED BY <2>1, FS_CardinalityType, TotalInt
<1>1. 0 \in T
  BY <1>0, FS_EmptySet
<1>2. ASSUME NEW n \in Nat, n \in T PROVE n + 1 \in T
  <2> SUFFICES ASSUME NEW s \in SUBSET S, Cardinality(s) = n + 1, NEW y \in s
               PROVE  Total(s, f) = f[y] + Total(s \ {y}, f)
    BY DEF T
  <2> DEFINE c == First(s)
  <2>1. s # {} /\ IsFiniteSet(s) /\ c \in s
    BY <1>0, FirstIn
  <2>2. Total(s, f) = f[c] + Total(s \ {c}, f)
    BY <2>1, TotalFirst
  <2> HIDE DEF c
  <2>3. CASE c = y
    BY <2>2, <2>3
  <2>4. CASE c # y
    <3>1. Cardinality(s \ {c}) = n /\ Cardinality(s \ {y}) = n
      BY <2>1, TakeOne
    <3>2. Splits(s \ {c}) /\ Splits(s \ {y})
      BY <1>2, <3>1
    <3>3. Total(s \ {c}, f) = f[y] + Total((s \ {c}) \ {y}, f)
      BY <3>2, <2>4
    <3>4. Total(s \ {y}, f) = f[c] + Total((s \ {y}) \ {c}, f)
      BY <3>2, <2>1, <2>4
    <3>5. (s \ {c}) \ {y} = (s \ {y}) \ {c}
      OBVIOUS
    <3>6. /\ f[c] \in Int /\ f[y] \in Int
          /\ Total((s \ {c}) \ {y}, f) \in Int
      BY <1>0, <2>1
    <3>7. Total((s \ {c}) \ {y}, f) = Total((s \ {y}) \ {c}, f)
      BY <3>5, Zenon
    <3> DEFINE rest == Total((s \ {c}) \ {y}, f)
               withoutc == Total(s \ {c}, f)
               withouty == Total(s \ {y}, f)
    <3>8. /\ Total(s, f) = f[c] + withoutc /\ withoutc = f[y] + rest
          /\ withouty = f[c] + rest /\ rest \in Int
      BY <2>2, <3>3, <3>4, <3>6, <3>7
    <3>9. Total(s, f) = f[y] + withouty
      <4> HIDE DEF rest, withoutc, withouty
      <4> QED BY <3>6, <3>8
    <3> QED BY <3>9
  <2> QED BY <2>3, <2>4
<1>3. \A n \in Nat : n \in T
  <2> HIDE DEF T
  <2> QED BY <1>1, <1>2, AllNat, Zenon
<1> QED BY <1>3, <1>0

\* A member more.
LEMMA TotalAdd ==
  ASSUME NEW S, IsFiniteSet(S), NEW f, NEW x, x \notin S,
         \A y \in S \union {x} : f[y] \in Int
  PROVE  Total(S \union {x}, f) = f[x] + Total(S, f)
<1>1. IsFiniteSet(S \union {x})
  BY FS_AddElement
<1>2. (S \union {x}) \ {x} = S
  OBVIOUS
<1>3. x \in S \union {x}
  OBVIOUS
<1>4. Total(S \union {x}, f) = f[x] + Total((S \union {x}) \ {x}, f)
  BY <1>1, <1>3, TotalRemove
<1> QED BY <1>2, <1>4

\* A comparison of all members is one of the sums.
LEMMA TotalMonotone ==
  ASSUME NEW S, IsFiniteSet(S), NEW f, NEW g,
         \A x \in S : f[x] \in Int /\ g[x] \in Int /\ f[x] <= g[x]
  PROVE  Total(S, f) <= Total(S, g)
<1> DEFINE T == {n \in Nat : \A s \in SUBSET S :
                   Cardinality(s) = n => Total(s, f) <= Total(s, g)}
<1>0. \A s \in SUBSET S : /\ IsFiniteSet(s) /\ Cardinality(s) \in Nat
                          /\ Total(s, f) \in Int /\ Total(s, g) \in Int
  <2> SUFFICES ASSUME NEW s \in SUBSET S
               PROVE  /\ IsFiniteSet(s) /\ Cardinality(s) \in Nat
                      /\ Total(s, f) \in Int /\ Total(s, g) \in Int
    OBVIOUS
  <2>1. IsFiniteSet(s) /\ (\A y \in s : f[y] \in Int) /\ (\A y \in s : g[y] \in Int)
    BY FS_Subset
  <2> QED BY <2>1, FS_CardinalityType, TotalInt
<1>1. 0 \in T
  BY <1>0, FS_EmptySet, TotalEmpty
<1>2. ASSUME NEW n \in Nat, n \in T PROVE n + 1 \in T
  <2> SUFFICES ASSUME NEW s \in SUBSET S, Cardinality(s) = n + 1
               PROVE  Total(s, f) <= Total(s, g)
    OBVIOUS
  <2> DEFINE x == First(s)
             r == s \ {x}
  <2>1. s # {} /\ IsFiniteSet(s)
    BY <1>0, FS_EmptySet
  <2>2. x \in S /\ r \in SUBSET S /\ Cardinality(r) = n
    BY <2>1, FirstIn, TakeOne
  <2>3. Total(r, f) <= Total(r, g)
    BY <1>2, <2>2
  <2>4. Total(s, f) = f[x] + Total(r, f) /\ Total(s, g) = g[x] + Total(r, g)
    BY <2>1, TotalFirst
  <2>5. /\ Total(r, f) \in Int /\ Total(r, g) \in Int
        /\ f[x] \in Int /\ g[x] \in Int /\ f[x] <= g[x]
    BY <1>0, <2>2
  <2> HIDE DEF x, r
  <2> QED BY <2>3, <2>4, <2>5
<1>3. \A n \in Nat : n \in T
  <2> HIDE DEF T
  <2> QED BY <1>1, <1>2, AllNat, Zenon
<1> QED BY <1>3, <1>0

\* Only the values of the members count.
LEMMA TotalSame ==
  ASSUME NEW S, IsFiniteSet(S), NEW f, NEW g, \A x \in S : f[x] \in Int /\ f[x] = g[x]
  PROVE  Total(S, f) = Total(S, g)
<1>1. \A x \in S : f[x] \in Int /\ g[x] \in Int /\ f[x] <= g[x] /\ g[x] <= f[x]
  OBVIOUS
<1>2. Total(S, f) <= Total(S, g) /\ Total(S, g) <= Total(S, f)
  BY <1>1, TotalMonotone
<1>3. Total(S, f) \in Int /\ Total(S, g) \in Int
  BY <1>1, TotalInt
<1> QED BY <1>2, <1>3

\* f and g have numbers for S, and differ at x at most.
Summable(f, S) == \A y \in S : f[y] \in Int
AgreeBut(f, g, S, x) == \A y \in S \ {x} : f[y] = g[y]

\* One value changes.
LEMMA TotalChange ==
  ASSUME NEW S, IsFiniteSet(S), NEW f, NEW g, NEW x \in S,
         Summable(f, S), Summable(g, S), AgreeBut(f, g, S, x)
  PROVE  Total(S, g) = Total(S, f) + (g[x] - f[x])
<1> USE DEF Summable, AgreeBut
<1>1. IsFiniteSet(S \ {x})
  BY FS_Subset
<1>2. Total(S \ {x}, f) = Total(S \ {x}, g)
  BY <1>1, TotalSame
<1>3. Total(S, f) = f[x] + Total(S \ {x}, f) /\ Total(S, g) = g[x] + Total(S \ {x}, g)
  BY TotalRemove
<1>4. Total(S \ {x}, f) \in Int /\ f[x] \in Int /\ g[x] \in Int
  BY <1>1, TotalInt
<1> QED BY <1>2, <1>3, <1>4

\* g is f, but for k more at x.
Raised(f, g, S, x, k) == f \in [S -> Int] /\ g = [f EXCEPT ![x] = @ + k]

\* One value rises or falls.
LEMMA TotalRaised ==
  ASSUME NEW S, IsFiniteSet(S), NEW f, NEW g, NEW x \in S, NEW k \in Int,
         Raised(f, g, S, x, k)
  PROVE  Total(S, g) = Total(S, f) + k
<1>1. Summable(f, S) /\ Summable(g, S) /\ AgreeBut(f, g, S, x)
  BY DEF Summable, AgreeBut, Raised
<1>2. g[x] - f[x] = k
  BY DEF Raised
<1>3. Total(S, g) = Total(S, f) + (g[x] - f[x])
  BY <1>1, TotalChange
<1> QED BY <1>2, <1>3

\* Nothing negative, no negative sum.
LEMMA TotalNat ==
  ASSUME NEW S, IsFiniteSet(S), NEW f, \A x \in S : f[x] \in Nat
  PROVE  Total(S, f) \in Nat /\ \A x \in S : f[x] <= Total(S, f)
<1> DEFINE zero == [x \in S |-> 0]
           T == {n \in Nat : \A s \in SUBSET S : Cardinality(s) = n => Total(s, f) \in Nat}
<1>0. \A s \in SUBSET S : IsFiniteSet(s) /\ Cardinality(s) \in Nat
  BY FS_Subset, FS_CardinalityType
<1>1. 0 \in T
  BY <1>0, FS_EmptySet, TotalEmpty
<1>2. ASSUME NEW n \in Nat, n \in T PROVE n + 1 \in T
  <2> SUFFICES ASSUME NEW s \in SUBSET S, Cardinality(s) = n + 1
               PROVE  Total(s, f) \in Nat
    OBVIOUS
  <2>1. s # {} /\ IsFiniteSet(s)
    BY <1>0, FS_EmptySet
  <2>2. Cardinality(s \ {First(s)}) = n /\ First(s) \in S
    BY <2>1, FirstIn, TakeOne
  <2>3. Total(s \ {First(s)}, f) \in Nat
    BY <1>2, <2>2
  <2>4. Total(s, f) = f[First(s)] + Total(s \ {First(s)}, f)
    BY <2>1, TotalFirst
  <2>5. f[First(s)] \in Nat
    BY <2>2
  <2> QED BY <2>3, <2>4, <2>5
<1>3. \A n \in Nat : n \in T
  <2> HIDE DEF T
  <2> QED BY <1>1, <1>2, AllNat, Zenon
<1>4. \A s \in SUBSET S : Total(s, f) \in Nat
  BY <1>3, <1>0
<1>5. ASSUME NEW x \in S PROVE f[x] <= Total(S, f)
  <2>1. Total(S, f) = f[x] + Total(S \ {x}, f)
    BY TotalRemove
  <2> QED BY <2>1, <1>4
<1> QED BY <1>4, <1>5

\* Members that account for nothing.
LEMMA TotalWhere ==
  ASSUME NEW S, IsFiniteSet(S), NEW U \in SUBSET S, NEW f, NEW g,
         \A x \in U : f[x] \in Int /\ g[x] = f[x],
         \A x \in S \ U : g[x] = 0
  PROVE  Total(U, f) = Total(S, g)
<1> DEFINE T == {n \in Nat : \A w \in SUBSET (S \ U) :
                   Cardinality(w) = n => Total(U \union w, g) = Total(U, f)}
<1>0. \A w \in SUBSET (S \ U) : IsFiniteSet(w) /\ Cardinality(w) \in Nat
  <2>1. IsFiniteSet(S \ U)
    BY FS_Subset
  <2> QED BY <2>1, FS_Subset, FS_CardinalityType
<1>1. 0 \in T
  <2> SUFFICES ASSUME NEW w \in SUBSET (S \ U), Cardinality(w) = 0
               PROVE  Total(U \union w, g) = Total(U, f)
    OBVIOUS
  <2>1. w = {}
    BY <1>0, FS_EmptySet
  <2>2. U \union w = U
    BY <2>1
  <2>3. Total(U, f) = Total(U, g)
    BY FS_Subset, TotalSame
  <2> HIDE DEF T
  <2> QED BY <2>2, <2>3, Zenon
<1>2. ASSUME NEW n \in Nat, n \in T PROVE n + 1 \in T
  <2> SUFFICES ASSUME NEW w \in SUBSET (S \ U), Cardinality(w) = n + 1
               PROVE  Total(U \union w, g) = Total(U, f)
    OBVIOUS
  <2>1. w # {} /\ IsFiniteSet(w)
    BY <1>0, FS_EmptySet
  <2> DEFINE x == First(w)
             r == w \ {x}
  <2>2. x \in w /\ x \notin U /\ x \in S
    BY <2>1, FirstIn
  <2>3. Cardinality(r) = n
    BY <2>1, <2>2, TakeOne
  <2>4. Total(U \union r, g) = Total(U, f)
    BY <1>2, <2>3
  <2>5. U \union w = (U \union r) \union {x} /\ x \notin U \union r
    BY <2>2
  <2>6. IsFiniteSet(U \union r) /\ \A y \in (U \union r) \union {x} : g[y] \in Int
    BY <2>2, FS_Subset
  <2>7. Total((U \union r) \union {x}, g) = g[x] + Total(U \union r, g)
    <3> HIDE DEF x, r
    <3> QED BY <2>5, <2>6, TotalAdd
  <2>8. g[x] = 0 /\ Total(U \union r, g) \in Int
    BY <2>2, <2>6, TotalInt
  <2>9. Total(U \union w, g) = Total((U \union r) \union {x}, g)
    BY <2>5, Zenon
  <2> HIDE DEF x, r
  <2> QED BY <2>4, <2>7, <2>8, <2>9
<1>3. \A n \in Nat : n \in T
  <2> HIDE DEF T
  <2> QED BY <1>1, <1>2, AllNat, Zenon
<1> DEFINE rest == S \ U
<1>4. Cardinality(rest) \in Nat /\ rest \in SUBSET (S \ U) /\ U \union rest = S
  BY <1>0
<1>5. Total(U \union rest, g) = Total(U, f)
  BY <1>3, <1>4
<1> HIDE DEF rest
<1> QED BY <1>4, <1>5, Zenon

\* Zeros add up to zero.
LEMMA TotalZero ==
  ASSUME NEW S, IsFiniteSet(S), NEW f, \A x \in S : f[x] = 0
  PROVE  Total(S, f) = 0
<1>1. Total({}, f) = Total(S, f)
  <2> DEFINE U == {}
  <2>1. U \in SUBSET S /\ (\A x \in U : f[x] \in Int /\ f[x] = f[x])
        /\ \A x \in S \ U : f[x] = 0
    OBVIOUS
  <2> HIDE DEF U
  <2>2. Total(U, f) = Total(S, f)
    BY <2>1, TotalWhere
  <2> QED BY <2>2 DEF U
<1> QED BY <1>1, TotalEmpty

\* A sum may be taken over other names for the members.
LEMMA TotalRename ==
  ASSUME NEW S, IsFiniteSet(S), NEW U, IsFiniteSet(U), NEW h \in [S -> U],
         \A y \in U : \E x \in S : h[x] = y,
         \A x, y \in S : h[x] = h[y] => x = y,
         NEW f, NEW g, \A x \in S : f[x] \in Int /\ f[x] = g[h[x]]
  PROVE  Total(S, f) = Total(U, g)
<1> DEFINE Image(s) == {h[x] : x \in s}
           T == {n \in Nat : \A s \in SUBSET S :
                   Cardinality(s) = n => Total(s, f) = Total(Image(s), g)}
<1>0. \A s \in SUBSET S : IsFiniteSet(s) /\ Cardinality(s) \in Nat
  BY FS_Subset, FS_CardinalityType
<1>a. \A s \in SUBSET S : IsFiniteSet(Image(s))
  <2> SUFFICES ASSUME NEW s \in SUBSET S PROVE IsFiniteSet(Image(s))
    OBVIOUS
  <2>1. Image(s) \subseteq U
    OBVIOUS
  <2> HIDE DEF Image
  <2> QED BY <2>1, FS_Subset
<1>b. \A s \in SUBSET S : \A y \in Image(s) : g[y] \in Int
  OBVIOUS
<1>1. 0 \in T
  <2> SUFFICES ASSUME NEW s \in SUBSET S, Cardinality(s) = 0
               PROVE  Total(s, f) = Total(Image(s), g)
    OBVIOUS
  <2>1. s = {}
    BY <1>0, FS_EmptySet
  <2>2. Image(s) = {}
    BY <2>1
  <2> HIDE DEF Image
  <2> QED BY <2>1, <2>2, TotalEmpty
<1>2. ASSUME NEW n \in Nat, n \in T PROVE n + 1 \in T
  <2> SUFFICES ASSUME NEW s \in SUBSET S, Cardinality(s) = n + 1
               PROVE  Total(s, f) = Total(Image(s), g)
    OBVIOUS
  <2>1. IsFiniteSet(s)
    BY <1>0, Zenon
  <2>a. s # {}
    <3>1. CASE s = {}
      <4>1. Cardinality(s) = 0
        BY <3>1, FS_EmptySet, Zenon
      <4> HIDE DEF Image, T
      <4> QED BY <4>1
    <3> QED BY <3>1
  <2> DEFINE x == First(s)
             r == s \ {x}
  <2>2. x \in s /\ r \in SUBSET S
    BY <2>a, FirstIn
  <2>3. Cardinality(r) = n
    <3>1. Cardinality(r) = Cardinality(s) - 1
      BY <2>1, <2>2, TakeOne, Zenon
    <3> HIDE DEF Image, T, x, r
    <3> QED BY <3>1
  <2>4. Total(r, f) = Total(Image(r), g)
    BY <1>2, <2>2, <2>3
  <2>5. Image(s) = Image(r) \union {h[x]} /\ h[x] \notin Image(r)
    <3> HIDE DEF x
    <3> QED BY <2>2
  <2>6. Total(s, f) = f[x] + Total(r, f)
    BY <2>1, <2>a, TotalFirst
  <2>7. IsFiniteSet(Image(r)) /\ \A y \in Image(r) \union {h[x]} : g[y] \in Int
    <3>1. \A y \in Image(r) : g[y] \in Int
      BY <1>b, <2>2
    <3>2. g[h[x]] \in Int
      BY <2>2
    <3>3. IsFiniteSet(Image(r))
      BY <1>a, <2>2
    <3> QED BY <3>1, <3>2, <3>3, Zenon
  <2>8. Total(Image(r) \union {h[x]}, g) = g[h[x]] + Total(Image(r), g)
    <3> HIDE DEF x, r, Image
    <3> QED BY <2>5, <2>7, TotalAdd
  <2>9. g[h[x]] = f[x]
    BY <2>2
  <2>10. Total(Image(s), g) = Total(Image(r) \union {h[x]}, g)
    BY <2>5, Zenon
  <2> HIDE DEF x, r, Image
  <2> QED BY <2>4, <2>6, <2>8, <2>9, <2>10
<1>3. \A n \in Nat : n \in T
  <2> HIDE DEF T
  <2> QED BY <1>1, <1>2, AllNat, Zenon
<1>4. Image(S) = U
  OBVIOUS
<1>5. Total(S, f) = Total(Image(S), g)
  BY <1>3, <1>0
<1> HIDE DEF Image
<1> QED BY <1>4, <1>5, Zenon

-----------------------------------------------------------------------------
(* The rates                                                               *)

\* A taker pays ten basis points or more, short of one hundred percent; a
\* maker gets five at most.
LEMMA RateBounds ==
  ASSUME NEW t \in FeeTier, NEW m \in FeeTier
  PROVE  /\ taker_rate(t) \in Nat \ {0} /\ taker_rate(t) < ONE
         /\ maker_rate(m) \in Nat
         /\ 5 * maker_rate(m) < 4 * taker_rate(t)
<1> DEFINE tb == taker_bps(t)
           mb == IF m = "MSRM" THEN 5 ELSE 3
<1>1. tb \in 10 .. 22
  BY DEF taker_bps, FeeTier
<1>2. mb \in 3 .. 5
  OBVIOUS
<1>3. taker_rate(t) = (tb * ONE) \div 10000
  BY DEF taker_rate, fee_bps
<1>4. maker_rate(m) = (mb * ONE) \div 10000 + 1
  BY DEF maker_rate, rebate_bps, fee_bps
<1>5. /\ 10 * ONE <= tb * ONE /\ tb * ONE <= 22 * ONE
      /\ 3 * ONE <= mb * ONE /\ mb * ONE <= 5 * ONE
  <2> HIDE DEF tb, mb
  <2> QED BY <1>1, <1>2, OneAssumption
<1> HIDE DEF tb, mb
<1> DEFINE T == taker_rate(t)
           M == maker_rate(m)
<1>6. /\ T \in Int /\ T * 10000 <= tb * ONE /\ tb * ONE < T * 10000 + 10000
      /\ M \in Int /\ (M - 1) * 10000 <= mb * ONE
      /\ mb * ONE < M * 10000
  BY <1>1, <1>2, <1>3, <1>4, OneAssumption
<1> HIDE DEF T, M
<1>7. tb * ONE \in Int /\ mb * ONE \in Int
  BY <1>1, <1>2, OneAssumption
<1>8. T \in Nat \ {0} /\ T < ONE /\ M \in Nat /\ 5 * M < 4 * T
  BY <1>5, <1>6, <1>7, OneAssumption
<1> QED BY <1>8 DEF T, M

\* A fee is the least integer that is not below the exact fee.
LEMMA TakerFee ==
  ASSUME NEW t \in FeeTier, NEW q \in Int
  PROVE  /\ taker_fee(t, q) \in Int
         /\ taker_rate(t) * q <= taker_fee(t, q) * ONE
         /\ taker_fee(t, q) * ONE < taker_rate(t) * q + ONE
<1> DEFINE e == taker_rate(t) * q
<1>1. e \in Int
  BY RateBounds
<1>2. ONE \in Nat \ {0}
  BY OneAssumption
<1>3. taker_fee(t, q) = e \div ONE + (IF e % ONE # 0 THEN 1 ELSE 0)
  BY DEF taker_fee
<1> HIDE DEF e
<1>4. /\ e \div ONE \in Int /\ (e \div ONE) * ONE <= e
      /\ e < (e \div ONE) * ONE + ONE
      /\ e % ONE = e - (e \div ONE) * ONE
  BY <1>1, <1>2, Quotient
<1>5. /\ taker_fee(t, q) \in Int /\ e <= taker_fee(t, q) * ONE
      /\ taker_fee(t, q) * ONE < e + ONE
  BY <1>1, <1>2, <1>3, <1>4
<1> QED BY <1>5 DEF e

-----------------------------------------------------------------------------
(* Fees and rebates                                                        *)

\* A maker's rebate and the referrer's fifth of the fee leave the market a
\* positive net fee: four fifths of the lowest taker rate are more than the
\* highest maker rate, by more than the rounding of either rate.
LEMMA NetFee ==
  ASSUME NEW t \in FeeTier, NEW m \in FeeTier, NEW q \in Nat \ {0}
  PROVE  /\ taker_fee(t, q) \in Nat \ {0}
         /\ maker_rebate(m, q) \in Nat
         /\ referrer_rebate(taker_fee(t, q)) \in Nat
         /\ taker_fee(t, q)
              > maker_rebate(m, q) + referrer_rebate(taker_fee(t, q))
<1> DEFINE T == taker_rate(t)
           M == maker_rate(m)
           fee == taker_fee(t, q)
           rebate == maker_rebate(m, q)
<1>1. ONE \in Nat \ {0}
  BY OneAssumption
<1>2. T \in Nat \ {0} /\ M \in Nat /\ 5 * M < 4 * T
  BY RateBounds
<1>3. fee \in Int /\ T * q <= fee * ONE
  BY TakerFee
<1>4. rebate \in Int /\ rebate * ONE <= M * q /\ M * q < rebate * ONE + ONE
  <2>1. M * q \in Int
    BY <1>2
  <2>2. rebate = (M * q) \div ONE
    BY DEF maker_rebate
  <2> HIDE DEF M, rebate
  <2> QED BY <1>1, <2>1, <2>2, Quotient
<1>5. referrer_rebate(fee) \in Int /\ 5 * referrer_rebate(fee) <= fee
      /\ fee < 5 * referrer_rebate(fee) + 5
  BY <1>3 DEF referrer_rebate
<1> HIDE DEF T, M, fee, rebate
<1>6. fee >= 1 /\ rebate >= 0
  BY <1>1, <1>2, <1>3, <1>4
<1>7. 5 * (M * q) < 4 * (T * q)
  BY <1>2
<1>8. (5 * rebate) * ONE < (4 * fee) * ONE
  <2>1. M * q \in Int /\ T * q \in Int /\ rebate * ONE \in Int /\ fee * ONE \in Int
    BY <1>1, <1>2, <1>3, <1>4
  <2>2. 5 * (rebate * ONE) < 4 * (fee * ONE)
    BY <2>1, <1>3, <1>4, <1>7
  <2> QED BY <2>2, <1>1, <1>3, <1>4
<1>9. 5 * rebate < 4 * fee
  BY <1>1, <1>3, <1>4, <1>8, ProductStrict
<1>10. fee > rebate + referrer_rebate(fee) /\ referrer_rebate(fee) >= 0
  BY <1>3, <1>4, <1>5, <1>6, <1>9
<1> QED BY <1>3, <1>4, <1>5, <1>6, <1>10 DEF fee, rebate

\* What remove_taker_fee leaves of q, in products.
LEMMA RestBounds ==
  ASSUME NEW t \in FeeTier, NEW q \in Int
  PROVE  /\ remove_taker_fee(t, q) \in Int
         /\ remove_taker_fee(t, q) * (ONE + taker_rate(t)) <= q * ONE
         /\ q * ONE < (remove_taker_fee(t, q) + 1) * (ONE + taker_rate(t))
<1>1. ONE + taker_rate(t) \in Nat \ {0} /\ q * ONE \in Int
  BY RateBounds, OneAssumption
<1>2. remove_taker_fee(t, q) = (q * ONE) \div (ONE + taker_rate(t))
  BY DEF remove_taker_fee
<1> DEFINE D == ONE + taker_rate(t)
           n == q * ONE
           r == remove_taker_fee(t, q)
<1> HIDE DEF D, n, r
<1>3. r = n \div D /\ D \in Nat \ {0} /\ n \in Int
  BY <1>1, <1>2 DEF D, n, r
<1>4. r \in Int /\ r * D <= n /\ n < r * D + D
  BY <1>3, Quotient
<1>5. r * D + D = (r + 1) * D
  BY <1>3, <1>4
<1> QED BY <1>4, <1>5 DEF D, n, r

\* The fee of the rest of an amount is what was set aside, or one unit less.
LEMMA SetAside ==
  ASSUME NEW t \in FeeTier, NEW q \in Int
  PROVE  (q - remove_taker_fee(t, q)) - taker_fee(t, remove_taker_fee(t, q))
           \in {0, 1}
<1> DEFINE T == taker_rate(t)
           x == remove_taker_fee(t, q)
           fee == taker_fee(t, x)
<1>1. ONE \in Nat \ {0} /\ T \in Nat /\ T < ONE
  BY OneAssumption, RateBounds
<1>2. x \in Int /\ x * (ONE + T) <= q * ONE /\ q * ONE < (x + 1) * (ONE + T)
  BY RestBounds
<1>3. fee \in Int /\ T * x <= fee * ONE /\ fee * ONE < T * x + ONE
  BY <1>2, TakerFee
<1> HIDE DEF T, x, fee
<1>4. /\ x * (ONE + T) = x * ONE + T * x
      /\ (x + 1) * (ONE + T) = x * ONE + T * x + ONE + T
  BY <1>1, <1>2
<1>5. /\ (q - x) * ONE = q * ONE - x * ONE
      /\ (fee - 1) * ONE = fee * ONE - ONE
      /\ (fee + 2) * ONE = fee * ONE + 2 * ONE
  BY <1>1, <1>2, <1>3
<1>6. q * ONE \in Int /\ x * ONE \in Int /\ T * x \in Int /\ fee * ONE \in Int
  BY <1>1, <1>2, <1>3
<1>7. (fee - 1) * ONE < (q - x) * ONE /\ (q - x) * ONE < (fee + 2) * ONE
  BY <1>1, <1>2, <1>3, <1>4, <1>5, <1>6
<1>8. fee - 1 < q - x /\ q - x < fee + 2
  <2>1. fee - 1 \in Int /\ q - x \in Int /\ fee + 2 \in Int
    BY <1>2, <1>3
  <2> QED BY <2>1, <1>1, <1>7, ProductStrict
<1>9. (q - x) - fee \in {0, 1}
  BY <1>2, <1>3, <1>8
<1> QED BY <1>9 DEF x, fee

\* Nothing negative is left of what is not negative.
LEMMA RestNat ==
  ASSUME NEW t \in FeeTier, NEW q \in Int, q >= 0
  PROVE  remove_taker_fee(t, q) \in Int /\ remove_taker_fee(t, q) >= 0
<1> DEFINE b == ONE + taker_rate(t)
<1>1. b \in Nat \ {0} /\ q * ONE \in Int /\ q * ONE >= 0
  BY RateBounds, OneAssumption
<1>2. remove_taker_fee(t, q) = (q * ONE) \div b
  BY DEF remove_taker_fee
<1> DEFINE a == q * ONE
<1> HIDE DEF a, b
<1>3. a \div b \in Int /\ a \div b >= 0
  BY <1>1, QuotientAtLeast0 DEF a
<1> QED BY <1>2, <1>3 DEF a

\* A larger trade costs a taker no smaller fee, and none has a negative one.
LEMMA TakerFeeMonotone ==
  ASSUME NEW t \in FeeTier, NEW x \in Int, NEW y \in Int, x <= y
  PROVE  /\ taker_fee(t, x) <= taker_fee(t, y)
         /\ x >= 0 => taker_fee(t, x) >= 0
<1> DEFINE T == taker_rate(t)
           fx == taker_fee(t, x)
           fy == taker_fee(t, y)
<1>1. T \in Nat /\ ONE \in Nat \ {0}
  BY RateBounds, OneAssumption
<1>2. /\ fx \in Int /\ T * x <= fx * ONE /\ fx * ONE < T * x + ONE
      /\ fy \in Int /\ T * y <= fy * ONE
  BY TakerFee
<1> HIDE DEF T, fx, fy
<1>3. T * x <= T * y /\ T * x \in Int /\ T * y \in Int
  <2>1. x * T <= y * T
    BY <1>1, ProductMonotone
  <2>2. x * T = T * x /\ y * T = T * y /\ T * x \in Int /\ T * y \in Int
    BY <1>1
  <2> QED BY <2>1, <2>2
<1>4. fx * ONE < (fy + 1) * ONE
  <2>1. (fy + 1) * ONE = fy * ONE + ONE /\ fx * ONE \in Int /\ fy * ONE \in Int
    BY <1>1, <1>2
  <2> QED BY <1>1, <1>2, <1>3, <2>1
<1>5. fx < fy + 1
  <2>1. fy + 1 \in Int
    BY <1>2
  <2> QED BY <1>1, <1>2, <1>4, <2>1, ProductStrict
<1>6. fx <= fy
  BY <1>2, <1>5
<1>7. x >= 0 => fx >= 0
  <2> SUFFICES ASSUME x >= 0 PROVE fx >= 0
    OBVIOUS
  <2>1. T * x >= 0
    <3>1. x \in Nat
      OBVIOUS
    <3> QED BY <1>1, <3>1
  <2>2. (-1) * ONE < fx * ONE
    BY <1>1, <1>2, <1>3, <2>1
  <2>3. -1 < fx
    <3>1. -1 \in Int
      OBVIOUS
    <3> QED BY <1>1, <1>2, <2>2, <3>1, ProductStrict
  <2> QED BY <1>2, <2>3
<1> QED BY <1>6, <1>7 DEF fx, fy

\* What is left for trading once the fee is set aside covers the fee too.
LEMMA Affordable ==
  ASSUME NEW t \in FeeTier, NEW x \in Int, NEW q \in Int,
         x <= remove_taker_fee(t, q)
  PROVE  x + taker_fee(t, x) <= q
<1> DEFINE r == remove_taker_fee(t, q)
           fx == taker_fee(t, x)
           fr == taker_fee(t, r)
<1>1. r \in Int
  BY RestBounds
<1>2. (q - r) - fr \in {0, 1}
  BY SetAside
<1>3. fx <= fr
  <2> HIDE DEF r
  <2> QED BY <1>1, TakerFeeMonotone DEF r
<1>4. fx \in Int /\ fr \in Int
  <2> HIDE DEF r
  <2> QED BY <1>1, TakerFee
<1>5. x <= r
  OBVIOUS
<1> HIDE DEF r, fx, fr
<1> QED BY <1>1, <1>2, <1>3, <1>4, <1>5 DEF fx

\* Adding the fee to an amount and removing it again gives the amount back.
LEMMA AddRemove ==
  ASSUME NEW t \in FeeTier, NEW q \in Int
  PROVE  remove_taker_fee(t, q + taker_fee(t, q)) = q
<1> DEFINE T == taker_rate(t)
           fee == taker_fee(t, q)
<1>1. ONE \in Nat \ {0} /\ T \in Nat \ {0} /\ T < ONE
  BY OneAssumption, RateBounds
<1>2. fee \in Int /\ T * q <= fee * ONE /\ fee * ONE < T * q + ONE
  BY TakerFee
<1>3. remove_taker_fee(t, q + fee) = ((q + fee) * ONE) \div (ONE + T)
  BY DEF remove_taker_fee
<1> HIDE DEF T, fee
<1>4. /\ (q + fee) * ONE = q * ONE + fee * ONE
      /\ q * (ONE + T) = q * ONE + T * q
      /\ (q + 1) * (ONE + T) = q * ONE + T * q + ONE + T
  BY <1>1, <1>2
<1>5. q * ONE \in Int /\ T * q \in Int /\ fee * ONE \in Int
  BY <1>1, <1>2
<1>6. q * (ONE + T) <= (q + fee) * ONE /\ (q + fee) * ONE < (q + 1) * (ONE + T)
  BY <1>1, <1>2, <1>4, <1>5
<1>7. ((q + fee) * ONE) \div (ONE + T) = q
  <2>1. (q + fee) * ONE \in Int /\ ONE + T \in Nat \ {0}
    BY <1>1, <1>2
  <2> QED BY <2>1, <1>6, QuotientUnique
<1> QED BY <1>3, <1>7 DEF fee
=============================================================================
