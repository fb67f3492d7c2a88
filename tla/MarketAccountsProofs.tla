------------------------- MODULE MarketAccountsProofs -------------------------
(***************************************************************************)
(* What the market owes its traders: the funds their orders lock, their    *)
(* deposits, the slots of their orders and the events that wait for them.  *)
(*                                                                         *)
(* The market and the accounts of its traders move in different            *)
(* transactions, so neither tallies with the other.  Three invariants      *)
(* about all that is queued and on the book do:                            *)
(*                                                                         *)
(*   Tally    if all orders were cancelled now, what the events then       *)
(*            queued would unlock, free and pay (Drained, Over) is what    *)
(*            the accounts have locked, counted and owned.  Cancelling an  *)
(*            order by hand or in the middle of a pass leaves it alone,    *)
(*            so that only the two halves of a trade have to balance.      *)
(*   SlotInv  whatever carries the id of an order agrees with the slot of  *)
(*            that order, and nothing of an order is queued behind the     *)
(*            Out that frees its slot.                                     *)
(*   Funded   no account's free funds, and no fee or rebate of the market, *)
(*            is below zero.                                               *)
(*                                                                         *)
(* Each of them is inductive with those of module MarketProofs only, and   *)
(* only where lots have a size (LotsHaveSize), which InitializeMarket does *)
(* not check.                                                              *)
(***************************************************************************)
EXTENDS MarketProofs

-----------------------------------------------------------------------------
(* Sums over queues                                                        *)

\* What the members of a queue weigh together.
Over(q, w) == Total(DOMAIN q, [k \in DOMAIN q |-> w[q[k]]])

Weighs(w, S) == \A e \in S : w[e] \in Int

LEMMA OverDomain ==
  ASSUME NEW S, NEW q \in Seq(S), NEW w, Weighs(w, S)
  PROVE  /\ IsFiniteSet(DOMAIN q) /\ DOMAIN q = 1 .. Len(q) /\ Len(q) \in Nat
         /\ \A k \in DOMAIN q : q[k] \in S /\ [j \in DOMAIN q |-> w[q[j]]][k] = w[q[k]]
                                /\ w[q[k]] \in Int
         /\ Over(q, w) \in Int
<1>1. DOMAIN q = 1 .. Len(q) /\ Len(q) \in Nat /\ \A k \in DOMAIN q : q[k] \in S
  BY LenProperties, ElementOfSeq
<1>2. IsFiniteSet(DOMAIN q)
  <2>1. 1 \in Int /\ Len(q) \in Int
    BY <1>1
  <2> QED BY <1>1, <2>1, FS_Interval
<1>3. \A k \in DOMAIN q : w[q[k]] \in Int
  BY <1>1 DEF Weighs
<1> DEFINE f == [j \in DOMAIN q |-> w[q[j]]]
<1>4. \A k \in DOMAIN q : f[k] = w[q[k]] /\ f[k] \in Int
  BY <1>3
<1> HIDE DEF f
<1>5. Total(DOMAIN q, f) \in Int
  BY <1>2, <1>4, TotalInt
<1> QED BY <1>1, <1>2, <1>4, <1>5 DEF Over, f

LEMMA OverEmpty ==
  ASSUME NEW w
  PROVE  Over(<<>>, w) = 0
<1>1. DOMAIN <<>> = {}
  OBVIOUS
<1> QED BY <1>1, TotalEmpty DEF Over

LEMMA OverPush ==
  ASSUME NEW S, NEW q \in Seq(S), NEW e \in S, NEW w, Weighs(w, S)
  PROVE  Over(q \o <<e>>, w) = Over(q, w) + w[e]
<1> DEFINE one == <<e>>
           p == q \o one
           L == Len(q)
<1>1. one \in Seq(S) /\ Len(one) = 1 /\ one[1] = e
  OBVIOUS
<1> HIDE DEF one
<1>2. /\ p \in Seq(S) /\ Len(p) = L + 1 /\ L \in Nat
      /\ \A i \in 1 .. L + 1 : p[i] = IF i <= L THEN q[i] ELSE one[i - L]
  BY <1>1, ConcatProperties, LenProperties
<1> HIDE DEF p
<1>3. /\ DOMAIN q = 1 .. L /\ IsFiniteSet(DOMAIN q)
      /\ \A k \in DOMAIN q : w[q[k]] \in Int
  BY OverDomain
<1>4. /\ DOMAIN p = 1 .. L + 1 /\ \A k \in DOMAIN p : w[p[k]] \in Int
  BY <1>2, OverDomain
<1> HIDE DEF L
<1>5. /\ DOMAIN p = DOMAIN q \cup {L + 1} /\ L + 1 \notin DOMAIN q
      /\ p[L + 1] = e /\ \A k \in DOMAIN q : p[k] = q[k]
  BY <1>1, <1>2, <1>3, <1>4
<1> DEFINE f == [k \in DOMAIN q |-> w[q[k]]]
           g == [k \in DOMAIN p |-> w[p[k]]]
<1>6. /\ \A k \in DOMAIN p : g[k] \in Int
      /\ \A k \in DOMAIN q : f[k] \in Int /\ f[k] = g[k]
      /\ g[L + 1] = w[e]
  BY <1>3, <1>4, <1>5
<1> HIDE DEF f, g
<1>7. Total(DOMAIN p, g) = g[L + 1] + Total(DOMAIN q, g)
  BY <1>3, <1>5, <1>6, TotalAdd
<1>8. Total(DOMAIN q, f) = Total(DOMAIN q, g) /\ Total(DOMAIN q, f) \in Int
  BY <1>3, <1>6, TotalSame, TotalInt
<1>9. Over(p, w) = Over(q, w) + w[e]
  <2>1. w[e] \in Int
    BY DEF Weighs
  <2>2. Over(p, w) = Total(DOMAIN p, g) /\ Over(q, w) = Total(DOMAIN q, f)
    BY DEF Over, f, g
  <2> QED BY <1>6, <1>7, <1>8, <2>1, <2>2
<1> QED BY <1>9 DEF p, one

LEMMA OverOne ==
  ASSUME NEW S, NEW e \in S, NEW w, Weighs(w, S)
  PROVE  Over(<<e>>, w) = w[e]
<1> DEFINE one == <<e>>
           none == <<>>
<1>1. none \in Seq(S) /\ none \o one = one /\ one \in Seq(S)
  OBVIOUS
<1>2. Over(none, w) = 0
  BY OverEmpty
<1> HIDE DEF none
<1>3. Over(none \o one, w) = Over(none, w) + w[e]
  BY <1>1, OverPush DEF one
<1>4. w[e] \in Int
  BY DEF Weighs
<1>5. one = <<e>>
  BY DEF one
<1> HIDE DEF one
<1> QED BY <1>1, <1>2, <1>3, <1>4, <1>5

\* What holds of the empty sequence and survives an append holds of all.
LEMMA SeqGrows ==
  ASSUME NEW S, NEW T, <<>> \in T,
         \A q \in Seq(S), e \in S : q \in T => q \o <<e>> \in T
  PROVE  \A q \in Seq(S) : q \in T
<1> SUFFICES ASSUME NEW r \in Seq(S)
             PROVE  r \in T
  OBVIOUS
<1> DEFINE p(n) == SubSeq(r, 1, n)
           N == {n \in 0 .. Len(r) : p(n) \in T /\ p(n) \in Seq(S)}
<1>1. Len(r) \in Nat /\ \A k \in 1 .. Len(r) : r[k] \in S
  BY LenProperties
<1>2. 0 \in N
  <2>1. p(0) = <<>>
    <3>1. 0 < 1 /\ 0 \in Int /\ 1 \in Int
      OBVIOUS
    <3> QED BY <3>1, SubSeqEmpty
  <2>2. <<>> \in Seq(S) /\ 0 \in 0 .. Len(r)
    BY <1>1
  <2> HIDE DEF p
  <2> QED BY <2>1, <2>2
<1>3. \A n \in 0 .. Len(r) : n + 1 \in 0 .. Len(r) /\ n \in N => n + 1 \in N
  <2> SUFFICES ASSUME NEW n \in 0 .. Len(r), n + 1 \in 0 .. Len(r),
                      p(n) \in T, p(n) \in Seq(S)
               PROVE  p(n + 1) \in T /\ p(n + 1) \in Seq(S)
    BY <1>1
  <2> DEFINE e == r[n + 1]
             a == p(n)
             b == p(n + 1)
             one == <<e>>
  <2>1. n + 1 \in 1 .. Len(r) /\ 1 \in 1 .. Len(r) /\ e \in S
    BY <1>1
  <2>2. b = a \o one
    <3>1. SubSeq(r, 1, n + 1) = SubSeq(r, 1, (n + 1) - 1) \o << r[n + 1] >>
      BY <2>1, SubSeqRecursiveSecond
    <3> QED BY <1>1, <3>1
  <2>3. one \in Seq(S) /\ a \in T /\ a \in Seq(S) /\ one = <<e>>
    BY <2>1
  <2> HIDE DEF one, e, p, a
  <2>4. a \o one \in T
    BY <2>1, <2>3
  <2>5. a \o one \in Seq(S)
    BY <2>3, ConcatProperties
  <2>6. b \in T /\ b \in Seq(S)
    BY <2>2, <2>4, <2>5
  <2> QED BY <2>6
<1>4. Len(r) \in N
  <2>1. \A n \in 0 .. Len(r) : n \in N
    <3> HIDE DEF N
    <3> QED BY <1>1, <1>2, <1>3, UpTo
  <2>2. Len(r) \in 0 .. Len(r)
    BY <1>1
  <2> HIDE DEF N
  <2> QED BY <2>1, <2>2
<1>5. p(Len(r)) = r
  BY SubSeqFull
<1> QED BY <1>4, <1>5

LEMMA OverConcat ==
  ASSUME NEW S, NEW q \in Seq(S), NEW r \in Seq(S), NEW w, Weighs(w, S)
  PROVE  Over(q \o r, w) = Over(q, w) + Over(r, w)
<1> DEFINE T == {a \in Seq(S) : Over(q \o a, w) = Over(q, w) + Over(a, w)}
<1>1. Over(q, w) \in Int
  BY OverDomain
<1>2. <<>> \in T
  <2> DEFINE none == <<>>
  <2>1. q \o none = q /\ none \in Seq(S)
    OBVIOUS
  <2>2. Over(none, w) = 0
    BY OverEmpty
  <2> HIDE DEF none
  <2>3. Over(q \o none, w) = Over(q, w) + Over(none, w)
    BY <1>1, <2>1, <2>2
  <2>4. none \in T
    BY <2>1, <2>3, Zenon
  <2> QED BY <2>4 DEF none
<1>3. ASSUME NEW a \in Seq(S), NEW e \in S, a \in T
      PROVE  a \o <<e>> \in T
  <2> DEFINE one == <<e>>
             b == a \o one
             u == q \o a
  <2>1. one \in Seq(S) /\ one = <<e>>
    OBVIOUS
  <2>2. \A A : \A x, y, z \in Seq(A) : (x \o y) \o z = x \o (y \o z)
    BY ConcatAssociative, Zenon
  <2>3. Over(u, w) = Over(q, w) + Over(a, w)
    BY <1>3
  <2> HIDE DEF one, T
  <2>4. u \in Seq(S) /\ b \in Seq(S)
    BY <2>1, ConcatProperties
  <2>5. u \o one = q \o b
    BY <2>1, <2>2
  <2> HIDE DEF u
  <2>6. Over(u \o one, w) = Over(u, w) + w[e]
    BY <2>1, <2>4, OverPush
  <2>7. Over(a \o one, w) = Over(a, w) + w[e]
    BY <2>1, OverPush
  <2>8. Over(a, w) \in Int /\ w[e] \in Int
    BY OverDomain DEF Weighs
  <2>9. Over(q \o b, w) = Over(q, w) + Over(b, w)
    BY <1>1, <2>3, <2>5, <2>6, <2>7, <2>8
  <2> HIDE DEF b
  <2>10. b \in T
    BY <2>4, <2>9 DEF T
  <2> QED BY <2>10 DEF b, one
<1>4. r \in T
  <2> HIDE DEF T
  <2> QED BY <1>2, <1>3, SeqGrows
<1> QED BY <1>4

LEMMA OverTail ==
  ASSUME NEW S, NEW q \in Seq(S), q # <<>>, NEW w, Weighs(w, S)
  PROVE  /\ Over(q, w) = w[Head(q)] + Over(Tail(q), w)
         /\ Head(q) = q[1] /\ Head(q) \in S /\ Tail(q) \in Seq(S)
<1> DEFINE e == Head(q)
           t == Tail(q)
           one == <<e>>
<1>1. /\ e \in S /\ t \in Seq(S) /\ Len(t) = Len(q) - 1 /\ Len(q) \in Nat
      /\ \A i \in 1 .. Len(t) : t[i] = q[i + 1]
      /\ Len(q) >= 1 /\ e = q[1]
  BY HeadTailProperties, LenProperties, EmptySeq
<1>2. one \in Seq(S) /\ Len(one) = 1 /\ one[1] = e
  BY <1>1
<1>3. Over(one, w) = w[e]
  <2> HIDE DEF e
  <2> QED BY <1>1, OverOne
<1> HIDE DEF e, t, one
<1>4. one \o t = q
  <2>1. /\ one \o t \in Seq(S) /\ Len(one \o t) = Len(one) + Len(t)
        /\ \A i \in 1 .. Len(one) + Len(t) :
             (one \o t)[i] = IF i <= Len(one) THEN one[i] ELSE t[i - Len(one)]
    <3>1. one \in Seq(S) /\ t \in Seq(S)
      BY <1>1, <1>2
    <3> QED BY <3>1, ConcatProperties
  <2>2. \A i \in 1 .. Len(q) : (one \o t)[i] = q[i]
    BY <1>1, <1>2, <2>1
  <2> QED BY <1>1, <1>2, <2>1, <2>2, SeqEqual
<1>5. Over(one \o t, w) = Over(one, w) + Over(t, w)
  BY <1>1, <1>2, OverConcat
<1> QED BY <1>1, <1>3, <1>4, <1>5 DEF e, t

LEMMA OverReplaced ==
  ASSUME NEW S, NEW q \in Seq(S), q # <<>>, NEW x \in S, NEW w, Weighs(w, S)
  PROVE  Over([q EXCEPT ![1] = x], w) = Over(q, w) + (w[x] - w[q[1]])
<1> DEFINE p == [q EXCEPT ![1] = x]
           f == [k \in DOMAIN q |-> w[q[k]]]
           g == [k \in DOMAIN p |-> w[p[k]]]
<1>1. /\ IsFiniteSet(DOMAIN q) /\ DOMAIN q = 1 .. Len(q) /\ Len(q) \in Nat
      /\ \A k \in DOMAIN q : w[q[k]] \in Int
  BY OverDomain
<1>2. 1 \in DOMAIN q /\ DOMAIN p = DOMAIN q /\ p[1] = x
      /\ \A k \in DOMAIN q \ {1} : p[k] = q[k]
  BY <1>1, EmptySeq
<1>3. w[x] \in Int
  BY DEF Weighs
<1> HIDE DEF p
<1>4. /\ Summable(f, DOMAIN q) /\ Summable(g, DOMAIN q) /\ AgreeBut(f, g, DOMAIN q, 1)
      /\ f[1] = w[q[1]] /\ g[1] = w[x]
  BY <1>1, <1>2, <1>3 DEF Summable, AgreeBut
<1> HIDE DEF f, g
<1>5. Total(DOMAIN q, g) = Total(DOMAIN q, f) + (g[1] - f[1])
  BY <1>1, <1>2, <1>4, TotalChange
<1> QED BY <1>2, <1>4, <1>5 DEF Over, f, g, p

\* A sum over those of a kind, when the others weigh nothing.
LEMMA OverWhere ==
  ASSUME NEW S, NEW q \in Seq(S), NEW w, Weighs(w, S), NEW U \in SUBSET DOMAIN q,
         NEW f, \A k \in U : f[k] = w[q[k]], \A k \in DOMAIN q \ U : w[q[k]] = 0
  PROVE  Total(U, f) = Over(q, w)
<1> DEFINE g == [k \in DOMAIN q |-> w[q[k]]]
<1>1. /\ IsFiniteSet(DOMAIN q) /\ \A k \in DOMAIN q : w[q[k]] \in Int
  BY OverDomain
<1>2. /\ \A k \in U : f[k] \in Int /\ g[k] = f[k]
      /\ \A k \in DOMAIN q \ U : g[k] = 0
  BY <1>1
<1> HIDE DEF g
<1>3. Total(U, f) = Total(DOMAIN q, g)
  BY <1>1, <1>2, TotalWhere
<1> QED BY <1>3 DEF Over, g

LEMMA OverNat ==
  ASSUME NEW S, NEW q \in Seq(S), NEW w, \A e \in Members(q) : w[e] \in Nat
  PROVE  /\ Over(q, w) \in Nat
         /\ \A e \in Members(q) : w[e] <= Over(q, w)
<1> DEFINE g == [k \in DOMAIN q |-> w[q[k]]]
<1>1. IsFiniteSet(DOMAIN q)
  <2>1. DOMAIN q = 1 .. Len(q) /\ 1 \in Int /\ Len(q) \in Int
    BY LenProperties
  <2> QED BY <2>1, FS_Interval
<1>2. \A k \in DOMAIN q : g[k] \in Nat /\ g[k] = w[q[k]]
  BY DEF Members
<1> HIDE DEF g
<1>3. Total(DOMAIN q, g) \in Nat /\ \A k \in DOMAIN q : g[k] <= Total(DOMAIN q, g)
  BY <1>1, <1>2, TotalNat
<1>4. \A e \in Members(q) : w[e] <= Total(DOMAIN q, g)
  BY <1>2, <1>3 DEF Members
<1> QED BY <1>3, <1>4 DEF Over, g

LEMMA OverSum ==
  ASSUME NEW S, NEW q \in Seq(S), NEW w, Weighs(w, S), NEW a, Weighs(a, S),
         NEW b, Weighs(b, S), \A e \in S : w[e] = a[e] + b[e]
  PROVE  Over(q, w) = Over(q, a) + Over(q, b)
<1> DEFINE T == {r \in Seq(S) : Over(r, w) = Over(r, a) + Over(r, b)}
<1>1. <<>> \in T
  <2> DEFINE none == <<>>
  <2>1. none \in Seq(S)
    OBVIOUS
  <2>2. Over(none, w) = 0 /\ Over(none, a) = 0 /\ Over(none, b) = 0
    BY OverEmpty
  <2> HIDE DEF none
  <2>3. Over(none, w) = Over(none, a) + Over(none, b)
    BY <2>2
  <2>4. none \in T
    BY <2>1, <2>3
  <2> QED BY <2>4 DEF none
<1>2. ASSUME NEW r \in Seq(S), NEW e \in S, r \in T
      PROVE  r \o <<e>> \in T
  <2> DEFINE p == r \o <<e>>
  <2>1. Over(p, w) = Over(r, w) + w[e]
    BY OverPush
  <2>2. Over(p, a) = Over(r, a) + a[e]
    BY OverPush
  <2>3. Over(p, b) = Over(r, b) + b[e]
    BY OverPush
  <2>4. Over(r, a) \in Int /\ Over(r, b) \in Int
    BY OverDomain
  <2>5. a[e] \in Int /\ b[e] \in Int
    BY DEF Weighs
  <2>6. p \in Seq(S)
    OBVIOUS
  <2> HIDE DEF p
  <2>7. Over(p, w) = Over(p, a) + Over(p, b)
    BY <1>2, <2>1, <2>2, <2>3, <2>4, <2>5
  <2>8. p \in T
    BY <2>6, <2>7
  <2> QED BY <2>8 DEF p
<1>3. q \in T
  <2> HIDE DEF T
  <2> QED BY <1>1, <1>2, SeqGrows
<1> QED BY <1>3

\* Every member of the queue is of one party: the sum over the parties of what
\* their members weigh is the sum over the queue.
LEMMA OverParties ==
  ASSUME NEW S, NEW P, IsFiniteSet(P), NEW a, \A t \in P : a[t] \in Int,
         NEW v, Weighs(v, S), NEW W, \A t \in P : Weighs(W[t], S),
         \A e \in S : \E t \in P : W[t][e] = v[e] /\ \A u \in P \ {t} : W[u][e] = 0,
         NEW q \in Seq(S)
  PROVE  Total(P, [t \in P |-> a[t] + Over(q, W[t])]) = Total(P, a) + Over(q, v)
<1> DEFINE F(r) == [t \in P |-> a[t] + Over(r, W[t])]
           T == {r \in Seq(S) : Total(P, F(r)) = Total(P, a) + Over(r, v)}
<1>1. Total(P, a) \in Int
  BY TotalInt
<1>2. <<>> \in T
  <2> DEFINE none == <<>>
             f == F(none)
  <2>1. none \in Seq(S)
    OBVIOUS
  <2>2. \A w : Over(none, w) = 0
    BY OverEmpty
  <2> HIDE DEF none
  <2>3. \A t \in P : f[t] = a[t]
    BY <2>2
  <2> HIDE DEF f
  <2>4. Total(P, f) = Total(P, a)
    BY <2>3, TotalSame
  <2>5. Total(P, F(none)) = Total(P, a) + Over(none, v)
    BY <1>1, <2>2, <2>4 DEF f
  <2>6. none \in T
    BY <2>1, <2>5
  <2> QED BY <2>6 DEF none
<1>3. ASSUME NEW r \in Seq(S), NEW e \in S, r \in T
      PROVE  r \o <<e>> \in T
  <2> DEFINE p == r \o <<e>>
             f == F(r)
             g == F(p)
  <2>1. PICK t \in P : W[t][e] = v[e] /\ \A u \in P \ {t} : W[u][e] = 0
    OBVIOUS
  <2>2. \A u \in P : Over(p, W[u]) = Over(r, W[u]) + W[u][e]
    <3> SUFFICES ASSUME NEW u \in P
                 PROVE  Over(p, W[u]) = Over(r, W[u]) + W[u][e]
      OBVIOUS
    <3> DEFINE w == W[u]
    <3>1. Weighs(w, S)
      OBVIOUS
    <3> HIDE DEF w
    <3>2. Over(p, w) = Over(r, w) + w[e]
      BY <3>1, OverPush
    <3> QED BY <3>2 DEF w
  <2>3. \A u \in P : Over(r, W[u]) \in Int /\ W[u][e] \in Int
    <3> SUFFICES ASSUME NEW u \in P
                 PROVE  Over(r, W[u]) \in Int /\ W[u][e] \in Int
      OBVIOUS
    <3> DEFINE w == W[u]
    <3>1. Weighs(w, S)
      OBVIOUS
    <3> HIDE DEF w
    <3>2. Over(r, w) \in Int /\ w[e] \in Int
      BY <3>1, OverDomain DEF Weighs
    <3> QED BY <3>2 DEF w
  <2>4. Over(p, v) = Over(r, v) + v[e] /\ v[e] \in Int /\ Over(r, v) \in Int
    BY OverPush, OverDomain DEF Weighs
  <2>5. p \in Seq(S)
    OBVIOUS
  <2> HIDE DEF p
  <2>6. /\ Summable(f, P) /\ Summable(g, P) /\ AgreeBut(f, g, P, t)
        /\ g[t] = f[t] + v[e] /\ f[t] \in Int
    <3>1. \A u \in P : /\ f[u] = a[u] + Over(r, W[u])
                       /\ g[u] = a[u] + (Over(r, W[u]) + W[u][e])
      BY <2>2
    <3>2. \A u \in P : f[u] \in Int /\ g[u] = f[u] + W[u][e] /\ g[u] \in Int
      <4> HIDE DEF f, g
      <4> QED BY <2>3, <3>1
    <3>3. \A u \in P \ {t} : g[u] = f[u]
      <4> HIDE DEF f, g
      <4> QED BY <2>1, <3>2
    <3>4. g[t] = f[t] + v[e]
      BY <2>1, <3>2
    <3> HIDE DEF f, g
    <3> QED BY <3>2, <3>3, <3>4 DEF Summable, AgreeBut
  <2>7. Total(P, f) = Total(P, a) + Over(r, v)
    BY <1>3
  <2> HIDE DEF f, g
  <2>8. Total(P, g) = Total(P, f) + (g[t] - f[t])
    BY <2>6, TotalChange
  <2>9. Total(P, g) = Total(P, a) + Over(p, v)
    BY <1>1, <2>4, <2>6, <2>7, <2>8
  <2>10. p \in T
    BY <2>5, <2>9 DEF g
  <2> QED BY <2>10 DEF p
<1>4. q \in T
  <2> HIDE DEF T
  <2> QED BY <1>2, <1>3, SeqGrows
<1> QED BY <1>4

\* Counting is summing ones.
LEMMA CountWhere ==
  ASSUME NEW D, IsFiniteSet(D), NEW U \in SUBSET D, NEW f,
         \A x \in U : f[x] = 1, \A x \in D \ U : f[x] = 0
  PROVE  Cardinality(U) = Total(D, f) /\ IsFiniteSet(U)
<1> DEFINE Counts(s) == Cardinality(s) = Total(s, f)
           T == {n \in Nat : \A s \in SUBSET U : Cardinality(s) = n => Counts(s)}
<1>1. \A s \in SUBSET U : IsFiniteSet(s) /\ Cardinality(s) \in Nat
  BY FS_Subset, FS_CardinalityType
<1>2. 0 \in T
  <2> SUFFICES ASSUME NEW s \in SUBSET U, Cardinality(s) = 0
               PROVE  Counts(s)
    OBVIOUS
  <2>1. s = {}
    BY <1>1, FS_EmptySet
  <2>2. Total({}, f) = 0
    BY TotalEmpty
  <2> QED BY <2>1, <2>2
<1>3. ASSUME NEW n \in Nat, n \in T
      PROVE  n + 1 \in T
  <2> SUFFICES ASSUME NEW s \in SUBSET U, Cardinality(s) = n + 1
               PROVE  Counts(s)
    BY <1>3
  <2>1. IsFiniteSet(s) /\ s # {}
    BY <1>1, FS_EmptySet
  <2>2. PICK x \in s : TRUE
    BY <2>1
  <2> DEFINE rest == s \ {x}
  <2>3. Cardinality(rest) = Cardinality(s) - 1 /\ rest \in SUBSET U
    BY <2>1, TakeOne
  <2>4. Cardinality(rest) = n
    BY <2>3
  <2>5. Total(s, f) = f[x] + Total(rest, f)
    BY <2>1, TotalRemove
  <2>6. Counts(rest)
    <3> HIDE DEF rest, Counts
    <3> QED BY <1>3, <2>3, <2>4
  <2>7. f[x] = 1
    OBVIOUS
  <2> HIDE DEF rest
  <2> QED BY <2>4, <2>5, <2>6, <2>7
<1>4. \A n \in Nat : n \in T
  <2> HIDE DEF T
  <2> QED BY <1>2, <1>3, AllNat, Zenon
<1>5. Counts(U)
  BY <1>1, <1>4
<1>6. Total(U, f) = Total(D, f)
  <2>1. /\ \A x \in U : f[x] \in Int
        /\ \A x \in D \ U : f[x] = 0
    OBVIOUS
  <2> QED BY <2>1, TotalWhere
<1> QED BY <1>1, <1>5, <1>6

-----------------------------------------------------------------------------
(* What the market would have queued, were all its orders cancelled now    *)

\* What the order of a request would leave with, weighed by v.
RequestWeight(v) ==
  [r \in Request |-> IF IsOrder(r) THEN v[OutEvent(r.side, r, HeldBy(r), 0)] ELSE 0]

LeafWeight(v, side) == [x \in Leaf |-> v[BootEvent(side, x)]]

RequestsWeigh(m, v) == Over(m.req_q, RequestWeight(v))

BookWeighs(m, v, side) == Total(orders(m, side), LeafWeight(v, side))

Drained(m, v) ==
  RequestsWeigh(m, v) + BookWeighs(m, v, "Bid") + BookWeighs(m, v, "Ask")
    + Over(m.event_q, v)

LEMMA LeafParts ==
  ASSUME NEW x \in Leaf
  PROVE  /\ x.id \in OrderId /\ x.owner \in Traders
         /\ x.owner_slot \in Slots /\ x.client_id \in Nat
         /\ x.quantity \in Nat /\ x.fee_tier \in FeeTiers
         /\ x.id.price \in Positive
BY DEF Leaf, OrderId

LEMMA RequestFields ==
  ASSUME NEW r \in NewOrderRequest
  PROVE  /\ r.id \in OrderId /\ r.owner \in Traders
         /\ r.owner_slot \in Slots /\ r.client_id \in Nat
         /\ r.side \in Side /\ r.max_coin_qty \in Nat
         /\ r.native_pc_qty_locked \in Int /\ r.fee_tier \in FeeTiers
         /\ r.id.price \in Positive
BY DEF NewOrderRequest, AcceptedSide, OrderId

LEMMA WeightsType ==
  ASSUME NEW v, Weighs(v, Event)
  PROVE  /\ Weighs(RequestWeight(v), Request)
         /\ \A side \in Side : Weighs(LeafWeight(v, side), Leaf)
         /\ \A r \in NewOrderRequest :
              /\ r \in Request
              /\ RequestWeight(v)[r] = v[OutEvent(r.side, r, HeldBy(r), 0)]
              /\ \A a, b \in Int : v[OutEvent(r.side, r, a, b)] \in Int
         /\ \A r \in CancelRequest : r \in Request /\ RequestWeight(v)[r] = 0
         /\ \A x \in Leaf, side \in Side :
              /\ LeafWeight(v, side)[x] = v[BootEvent(side, x)]
              /\ \A a, b \in Int : v[OutEvent(side, x, a, b)] \in Int
<1>1. \A r \in NewOrderRequest : \A a, b \in Int : v[OutEvent(r.side, r, a, b)] \in Int
  <2> SUFFICES ASSUME NEW r \in NewOrderRequest, NEW a \in Int, NEW b \in Int
               PROVE  v[OutEvent(r.side, r, a, b)] \in Int
    OBVIOUS
  <2>1. OutEvent(r.side, r, a, b) \in Event
    <3>1. /\ r.id \in OrderId /\ r.owner \in Traders /\ r.side \in Side
          /\ r.owner_slot \in Slots /\ r.client_id \in Nat
      BY RequestFields
    <3> QED BY <3>1 DEF OutEvent, Event
  <2> QED BY <2>1 DEF Weighs
<1>2. \A x \in Leaf, side \in Side : \A a, b \in Int : v[OutEvent(side, x, a, b)] \in Int
  <2> SUFFICES ASSUME NEW x \in Leaf, NEW side \in Side, NEW a \in Int, NEW b \in Int
               PROVE  v[OutEvent(side, x, a, b)] \in Int
    OBVIOUS
  <2>1. OutEvent(side, x, a, b) \in Event
    <3>1. /\ x.id \in OrderId /\ x.owner \in Traders
          /\ x.owner_slot \in Slots /\ x.client_id \in Nat
      BY LeafParts
    <3> QED BY <3>1 DEF OutEvent, Event
  <2> QED BY <2>1 DEF Weighs
<1>3. \A r \in CancelRequest : r \in Request /\ r \notin NewOrderRequest
  BY DEF Request, CancelRequest, NewOrderRequest
<1>4. \A r \in NewOrderRequest : r \in Request /\ HeldBy(r) \in Int /\ 0 \in Int
  BY HeldType DEF Request
<1>5. \A r \in CancelRequest : r \in Request /\ RequestWeight(v)[r] = 0
  BY <1>3 DEF RequestWeight, IsOrder
<1>6. \A r \in NewOrderRequest :
        RequestWeight(v)[r] = v[OutEvent(r.side, r, HeldBy(r), 0)]
  BY <1>4 DEF RequestWeight, IsOrder
<1>7. Weighs(RequestWeight(v), Request)
  <2> SUFFICES ASSUME NEW r \in Request
               PROVE  RequestWeight(v)[r] \in Int
    BY DEF Weighs
  <2>1. r \in NewOrderRequest \/ r \in CancelRequest
    BY DEF Request
  <2> QED BY <1>1, <1>4, <1>5, <1>6, <2>1
<1>8. \A x \in Leaf, side \in Side : LeafWeight(v, side)[x] = v[BootEvent(side, x)]
  BY DEF LeafWeight
<1>9. \A side \in Side : Weighs(LeafWeight(v, side), Leaf)
  <2> SUFFICES ASSUME NEW side \in Side, NEW x \in Leaf
               PROVE  LeafWeight(v, side)[x] \in Int
    BY DEF Weighs
  <2>1. BootEvent(side, x) \in Event
    BY WorthType
  <2> QED BY <1>8, <2>1 DEF Weighs
<1> QED BY <1>1, <1>2, <1>4, <1>5, <1>6, <1>7, <1>8, <1>9

\* The sums are of finitely many integers.
LEMMA DrainedType ==
  ASSUME NEW m, AccountsOK(m), NEW v, Weighs(v, Event)
  PROVE  /\ RequestsWeigh(m, v) \in Int
         /\ \A side \in Side :
              /\ BookWeighs(m, v, side) \in Int
              /\ IsFiniteSet(orders(m, side)) /\ orders(m, side) \subseteq Leaf
              /\ \A x \in Leaf : LeafWeight(v, side)[x] \in Int
         /\ Over(m.event_q, v) \in Int
         /\ m.req_q \in Seq(Request) /\ m.event_q \in Seq(Event)
<1>1. m.req_q \in Seq(Request) /\ m.event_q \in Seq(Event)
  BY DEF AccountsOK, Accounts
<1>2. RequestsWeigh(m, v) \in Int
  <2> DEFINE w == RequestWeight(v)
             q == m.req_q
  <2>1. Weighs(w, Request) /\ q \in Seq(Request)
    BY <1>1, WeightsType
  <2> HIDE DEF w, q
  <2>2. Over(q, w) \in Int
    BY <2>1, OverDomain
  <2> QED BY <2>2 DEF RequestsWeigh, q, w
<1>3. Over(m.event_q, v) \in Int
  <2> DEFINE q == m.event_q
  <2>1. q \in Seq(Event)
    BY <1>1
  <2> HIDE DEF q
  <2>2. Over(q, v) \in Int
    BY <2>1, OverDomain
  <2> QED BY <2>2 DEF q
<1>4. ASSUME NEW side \in Side
      PROVE  /\ BookWeighs(m, v, side) \in Int
             /\ IsFiniteSet(orders(m, side)) /\ orders(m, side) \subseteq Leaf
             /\ \A x \in Leaf : LeafWeight(v, side)[x] \in Int
  <2> DEFINE w == LeafWeight(v, side)
             D == orders(m, side)
  <2>1. IsFiniteSet(D) /\ D \subseteq Leaf
    BY DEF AccountsOK, orders, IsBook
  <2>2. \A x \in Leaf : w[x] \in Int
    BY WeightsType DEF Weighs
  <2> HIDE DEF w, D
  <2>3. Total(D, w) \in Int
    BY <2>1, <2>2, TotalInt
  <2> QED BY <2>1, <2>2, <2>3 DEF BookWeighs, w, D
<1> QED BY <1>1, <1>2, <1>3, <1>4

\* The request is done with.
LEMMA ServedWeighs ==
  ASSUME NEW m, AccountsOK(m), m.req_q # <<>>, NEW n, Served(m, n),
         NEW v, Weighs(v, Event)
  PROVE  /\ RequestsWeigh(n, v) = RequestsWeigh(m, v) - RequestWeight(v)[m.req_q[1]]
         /\ RequestsWeigh(n, v) \in Int /\ RequestWeight(v)[m.req_q[1]] \in Int
<1> DEFINE q == m.req_q
           w == RequestWeight(v)
<1>1. q \in Seq(Request) /\ q # <<>> /\ Weighs(w, Request)
  BY DrainedType, WeightsType
<1> HIDE DEF q, w
<1>2. /\ Over(q, w) = w[Head(q)] + Over(Tail(q), w)
      /\ Head(q) = q[1] /\ Head(q) \in Request /\ Tail(q) \in Seq(Request)
  BY <1>1, OverTail
<1>3. w[q[1]] \in Int
  BY <1>1, <1>2 DEF Weighs
<1> DEFINE t == Tail(q)
<1>4. t \in Seq(Request)
  BY <1>2
<1> HIDE DEF t
<1>5. Over(t, w) \in Int
  BY <1>1, <1>4, OverDomain
<1>6. n.req_q = t
  BY DEF Served, q, t
<1> QED BY <1>2, <1>3, <1>5, <1>6 DEF RequestsWeigh, q, w, t

\* The request waits with what is left of it, which holds h.
RequestKeeps(m, n, r, h, v) ==
  /\ RequestsWeigh(n, v)
       = RequestsWeigh(m, v)
           + (v[OutEvent(r.side, r, h, 0)] - v[OutEvent(r.side, r, HeldBy(r), 0)])
  /\ h \in Int /\ RequestsWeigh(n, v) \in Int

LEMMA WaitsWeighs ==
  ASSUME NEW m, NEW r, AtFront(m, r), NEW n,
         NEW coin \in Nat, NEW pc \in Int, Waits(m, n, r, coin, pc), NEW v, Weighs(v, Event)
  PROVE  RequestKeeps(m, n, r, HeldBy(Reduced(r, coin, pc)), v)
<1>0. /\ AccountsOK(m) /\ m.req_q # <<>> /\ r \in NewOrderRequest /\ r = m.req_q[1]
  BY DEF AtFront
<1> DEFINE q == m.req_q
           w == RequestWeight(v)
           z == Reduced(r, coin, pc)
<1>1. n.req_q = [q EXCEPT ![1] = z]
  BY DEF Waits
<1>2. /\ z \in NewOrderRequest /\ z.side = r.side /\ z.id = r.id /\ z.owner = r.owner
      /\ z.owner_slot = r.owner_slot /\ z.client_id = r.client_id
  <2>1. /\ Reduced(r, coin, pc) \in NewOrderRequest /\ Reduced(r, coin, pc).side = r.side
        /\ Reduced(r, coin, pc).id = r.id /\ Reduced(r, coin, pc).owner = r.owner
        /\ Reduced(r, coin, pc).owner_slot = r.owner_slot
        /\ Reduced(r, coin, pc).client_id = r.client_id
    BY <1>0 DEF Reduced, NewOrderRequest, AcceptedSide
  <2> QED BY <2>1 DEF z
<1> HIDE DEF z
<1>3. HeldBy(z) \in Int /\ HeldBy(r) \in Int
  BY <1>0, <1>2, HeldType
<1>4. OutEvent(z.side, z, HeldBy(z), 0) = OutEvent(r.side, r, HeldBy(z), 0)
  BY <1>2 DEF OutEvent
<1>5. w[z] = v[OutEvent(r.side, r, HeldBy(z), 0)] /\ z \in Request
      /\ w[r] = v[OutEvent(r.side, r, HeldBy(r), 0)] /\ w[r] \in Int /\ w[z] \in Int
  BY <1>0, <1>2, <1>3, <1>4, WeightsType
<1>6. q \in Seq(Request) /\ q # <<>> /\ Weighs(w, Request)
  BY <1>0, DrainedType, WeightsType
<1>7. r = q[1]
  BY <1>0
<1> HIDE DEF q, w
<1>8. Over([q EXCEPT ![1] = z], w) = Over(q, w) + (w[z] - w[q[1]])
  BY <1>5, <1>6, OverReplaced
<1>9. Over(q, w) \in Int
  BY <1>6, OverDomain
<1> QED BY <1>1, <1>3, <1>5, <1>7, <1>8, <1>9 DEF RequestKeeps, RequestsWeigh, q, w, z

-----------------------------------------------------------------------------
(* What a pass does to the drained events                                  *)

\* One side of the book changes, the requests do and events are appended.
LEMMA DrainedSplit ==
  ASSUME NEW m, AccountsOK(m), NEW n, AccountsOK(n), NEW v, Weighs(v, Event),
         NEW side \in Side, NEW leaves, Book(m, n, side, leaves), n.ok,
         NEW events \in Seq(Event), Appends(m, n, events)
  PROVE  /\ Drained(m, v) = RequestsWeigh(m, v) + BookWeighs(m, v, side)
                              + BookWeighs(m, v, Opposite(side)) + Over(m.event_q, v)
         /\ Drained(n, v) = RequestsWeigh(n, v) + Total(leaves, LeafWeight(v, side))
                              + BookWeighs(m, v, Opposite(side)) + Over(m.event_q, v)
                              + Over(events, v)
         /\ Over(events, v) \in Int /\ Total(leaves, LeafWeight(v, side)) \in Int
<1>1. /\ m.event_q \in Seq(Event) /\ n.event_q = m.event_q \o events
  BY DrainedType DEF Appends
<1>2. Over(n.event_q, v) = Over(m.event_q, v) + Over(events, v)
  <2> DEFINE q == m.event_q
  <2>1. q \in Seq(Event)
    BY <1>1
  <2> HIDE DEF q
  <2>2. Over(q \o events, v) = Over(q, v) + Over(events, v)
    BY <2>1, OverConcat
  <2> QED BY <1>1, <2>2 DEF q
<1>3. Over(events, v) \in Int
  BY OverDomain
<1>4. BookWeighs(n, v, side) = Total(leaves, LeafWeight(v, side))
  BY DEF BookWeighs, Book
<1>5. BookWeighs(n, v, Opposite(side)) = BookWeighs(m, v, Opposite(side))
  BY DEF BookWeighs, Book
<1>6. /\ \A s \in Side : BookWeighs(m, v, s) \in Int /\ BookWeighs(n, v, s) \in Int
      /\ RequestsWeigh(m, v) \in Int /\ RequestsWeigh(n, v) \in Int
      /\ Over(m.event_q, v) \in Int /\ Over(n.event_q, v) \in Int
  BY DrainedType
<1>7. "Bid" \in Side /\ "Ask" \in Side
      /\ \/ side = "Bid" /\ Opposite(side) = "Ask"
         \/ side = "Ask" /\ Opposite(side) = "Bid"
  BY DEF Side, Opposite
<1>8. Drained(n, v) = RequestsWeigh(n, v) + BookWeighs(n, v, side)
                        + BookWeighs(n, v, Opposite(side)) + Over(n.event_q, v)
  BY <1>6, <1>7 DEF Drained
<1>9. Drained(m, v) = RequestsWeigh(m, v) + BookWeighs(m, v, side)
                        + BookWeighs(m, v, Opposite(side)) + Over(m.event_q, v)
  BY <1>6, <1>7 DEF Drained
<1>10. BookWeighs(m, v, Opposite(side)) \in Int /\ BookWeighs(n, v, side) \in Int
  BY <1>6, <1>7
<1> QED BY <1>2, <1>3, <1>4, <1>5, <1>6, <1>8, <1>9, <1>10

\* An order leaves the book, or joins it.
LEMMA TakenOff ==
  ASSUME NEW m, AccountsOK(m), NEW v, Weighs(v, Event), NEW side \in Side,
         NEW x \in orders(m, side)
  PROVE  /\ Total(orders(m, side) \ {x}, LeafWeight(v, side))
              = BookWeighs(m, v, side) - v[BootEvent(side, x)]
         /\ v[BootEvent(side, x)] \in Int /\ x \in Leaf
         /\ IsFiniteSet(orders(m, side) \ {x})
         /\ BookWeighs(m, v, side) \in Int
<1> DEFINE w == LeafWeight(v, side)
           D == orders(m, side)
<1>1. IsFiniteSet(D) /\ (\A y \in D : w[y] \in Int) /\ x \in Leaf /\ D \subseteq Leaf
      /\ BookWeighs(m, v, side) \in Int
  BY DrainedType
<1>2. w[x] = v[BootEvent(side, x)]
  BY <1>1, WeightsType
<1>3. BookWeighs(m, v, side) = Total(D, w)
  BY DEF BookWeighs
<1>4. x \in D
  OBVIOUS
<1> HIDE DEF w, D
<1>5. Total(D, w) = w[x] + Total(D \ {x}, w)
  BY <1>1, <1>4, TotalRemove
<1>6. w[x] \in Int
  BY <1>1, <1>4
<1>7. IsFiniteSet(D \ {x})
  BY <1>1, FS_Subset
<1> DEFINE rest == D \ {x}
<1>8. \A y \in rest : w[y] \in Int
  BY <1>1
<1> HIDE DEF rest
<1>9. Total(rest, w) \in Int
  BY <1>7, <1>8, TotalInt DEF rest
<1>10. Total(rest, w) = BookWeighs(m, v, side) - v[BootEvent(side, x)]
  BY <1>2, <1>3, <1>5, <1>6, <1>9 DEF rest
<1> QED BY <1>1, <1>2, <1>6, <1>7, <1>10 DEF w, D, rest

LEMMA PutOn ==
  ASSUME NEW leaves \in SUBSET Leaf, IsFiniteSet(leaves), NEW v, Weighs(v, Event),
         NEW side \in Side, NEW z \in Leaf, \A y \in leaves : y.id # z.id
  PROVE  /\ Total(leaves \cup {z}, LeafWeight(v, side))
              = Total(leaves, LeafWeight(v, side)) + v[BootEvent(side, z)]
         /\ Total(leaves, LeafWeight(v, side)) \in Int /\ v[BootEvent(side, z)] \in Int
<1> DEFINE w == LeafWeight(v, side)
<1>1. (\A y \in Leaf : w[y] \in Int) /\ w[z] = v[BootEvent(side, z)]
  BY WeightsType DEF Weighs
<1>2. z \notin leaves
  OBVIOUS
<1> HIDE DEF w
<1>3. Total(leaves \cup {z}, w) = w[z] + Total(leaves, w)
  BY <1>1, <1>2, TotalAdd
<1>4. Total(leaves, w) \in Int
  BY <1>1, TotalInt
<1> QED BY <1>1, <1>3, <1>4 DEF w

\* The Outs of an order add up, and those of what is left of it are its own.
OutsAddUp(v) ==
  \A side \in Side, o \in Leaf \cup NewOrderRequest, a, b \in Int, still \in Positive :
    v[OutEvent(side, o, a + b, 0)]
      = v[OutEvent(side, o, a, 0)] + v[OutEvent(side, o, b, still)]

LEMMA SameOuts ==
  ASSUME NEW x, NEW z, RestOf(z, x)
  PROVE  \A side, a, b : OutEvent(side, z, a, b) = OutEvent(side, x, a, b)
BY DEF RestOf, OutEvent

\* What is left of an order, quantities of it being worth their lots.
LEMMA LotsWorth ==
  ASSUME NEW side \in Side, NEW price \in Positive, NEW a \in Nat, NEW b \in Nat,
         NEW c, c = a + b
  PROVE  /\ NativeLocked(side, a, price) \in Nat
         /\ NativeLocked(side, b, price) \in Nat
         /\ NativeLocked(side, c, price)
              = NativeLocked(side, a, price) + NativeLocked(side, b, price)
         /\ a = 0 => NativeLocked(side, a, price) = 0
<1>1. CoinLot \in Nat /\ PcLot \in Nat
  BY MatchingAssumption
<1>2. \A lot \in Nat : /\ a * lot \in Nat /\ b * lot \in Nat
                       /\ c * lot = a * lot + b * lot
                       /\ a = 0 => a * lot = 0
  OBVIOUS
<1>3. CASE side = "Ask"
  BY <1>1, <1>2, <1>3 DEF NativeLocked
<1>4. CASE side = "Bid"
  <2> DEFINE lot == price * PcLot
  <2>1. lot \in Nat
    BY <1>1 DEF Positive
  <2>2. \A q \in Nat : q * price * PcLot = q * lot
    BY <1>1 DEF Positive
  <2>3. c \in Nat
    OBVIOUS
  <2> HIDE DEF lot
  <2>4. /\ NativeLocked(side, a, price) = a * lot /\ NativeLocked(side, b, price) = b * lot
        /\ NativeLocked(side, c, price) = c * lot
    BY <1>4, <2>2, <2>3 DEF NativeLocked
  <2> QED BY <1>2, <2>1, <2>4
<1> QED BY <1>3, <1>4 DEF Side

\* Where lots have a size, only no lots are worth nothing.
LEMMA LotsWorthSomething ==
  ASSUME LotsHaveSize, NEW side \in Side, NEW price \in Positive, NEW a \in Nat
  PROVE  NativeLocked(side, a, price) = 0 => a = 0
<1>1. CoinLot \in Positive /\ PcLot \in Positive
  BY MatchingAssumption DEF LotsHaveSize, Positive
<1>2. \A lot \in Positive : a * lot = 0 => a = 0
  BY DEF Positive
<1>3. CASE side = "Ask"
  BY <1>1, <1>2, <1>3 DEF NativeLocked
<1>4. CASE side = "Bid"
  <2> DEFINE lot == price * PcLot
  <2>1. lot \in Positive
    BY <1>1 DEF Positive
  <2>2. a * price * PcLot = a * lot
    BY <1>1 DEF Positive
  <2> HIDE DEF lot
  <2> QED BY <1>2, <1>4, <2>1, <2>2 DEF NativeLocked
<1> QED BY <1>3, <1>4 DEF Side

\* A maker that is left with some of its lots.
LEMMA LeftWeighs ==
  ASSUME NEW m, AccountsOK(m), NEW v, Weighs(v, Event), NEW side \in Side,
         NEW x \in orders(m, side), IdsDiffer(orders(m, side)),
         NEW left \in Nat
  PROVE  Total(Left(m, side, x, left), LeafWeight(v, side))
           = BookWeighs(m, v, side) - v[BootEvent(side, x)]
               + (IF left = 0 THEN 0
                  ELSE v[OutEvent(side, x, NativeLocked(side, left, x.id.price), 0)])
<1> DEFINE rest == orders(m, side) \ {x}
           z == [x EXCEPT !.quantity = left]
           w == LeafWeight(v, side)
<1>1. /\ Total(rest, w) = BookWeighs(m, v, side) - v[BootEvent(side, x)]
      /\ v[BootEvent(side, x)] \in Int /\ x \in Leaf /\ IsFiniteSet(rest)
      /\ BookWeighs(m, v, side) \in Int
  BY TakenOff
<1>2. CASE left = 0
  <2>1. Left(m, side, x, left) = rest
    BY <1>2 DEF Left
  <2> HIDE DEF rest, w
  <2> QED BY <1>1, <1>2, <2>1 DEF w
<1>3. CASE left # 0
  <2>1. Left(m, side, x, left) = rest \cup {z}
    BY <1>3 DEF Left
  <2>2. /\ z \in Leaf /\ z.id = x.id /\ z.owner = x.owner /\ z.quantity = left
        /\ z.owner_slot = x.owner_slot /\ z.client_id = x.client_id
    BY <1>1 DEF Leaf
  <2> HIDE DEF z
  <2>3. /\ rest \in SUBSET Leaf
        /\ \A y \in rest : y.id # z.id
    BY <2>2, DrainedType DEF IdsDiffer
  <2> HIDE DEF rest
  <2>4. /\ Total(rest \cup {z}, LeafWeight(v, side))
              = Total(rest, LeafWeight(v, side)) + v[BootEvent(side, z)]
        /\ v[BootEvent(side, z)] \in Int
    BY <1>1, <2>2, <2>3, PutOn
  <2>5. BootEvent(side, z) = OutEvent(side, x, NativeLocked(side, left, x.id.price), 0)
    BY <2>2 DEF BootEvent, OutEvent, Worth
  <2> QED BY <1>1, <1>3, <2>1, <2>4, <2>5
<1> QED BY <1>2, <1>3

\* A pass of the request r, on a book where it and every order has its own id.
Ready(m, n, r) ==
  /\ AccountsOK(m) /\ AccountsOK(n) /\ n.ok /\ m.req_q # <<>> /\ r = m.req_q[1]
  /\ \A side \in Side : IdsDiffer(orders(m, side))
  /\ IsOrder(r) => \A x \in orders(m, r.side) : x.id # r.id

\* What becomes of the drained events, by what becomes of the request.
LEMMA ServedMoves ==
  ASSUME NEW m, NEW n, NEW r, Ready(m, n, r), NEW v, Weighs(v, Event), Served(m, n),
         NEW side \in Side, NEW leaves, Book(m, n, side, leaves),
         NEW events \in Seq(Event), Appends(m, n, events)
  PROVE  /\ Drained(n, v) = Drained(m, v) - RequestWeight(v)[r]
              + (Total(leaves, LeafWeight(v, side)) - BookWeighs(m, v, side))
              + Over(events, v)
         /\ Drained(m, v) \in Int
<1>1. /\ AccountsOK(m) /\ AccountsOK(n) /\ n.ok /\ m.req_q # <<>> /\ r = m.req_q[1]
  BY DEF Ready
<1>2. /\ Drained(m, v) = RequestsWeigh(m, v) + BookWeighs(m, v, side)
                           + BookWeighs(m, v, Opposite(side)) + Over(m.event_q, v)
      /\ Drained(n, v) = RequestsWeigh(n, v) + Total(leaves, LeafWeight(v, side))
                           + BookWeighs(m, v, Opposite(side)) + Over(m.event_q, v)
                           + Over(events, v)
      /\ Over(events, v) \in Int /\ Total(leaves, LeafWeight(v, side)) \in Int
  BY <1>1, DrainedSplit
<1>3. /\ RequestsWeigh(n, v) = RequestsWeigh(m, v) - RequestWeight(v)[r]
      /\ RequestWeight(v)[r] \in Int
  BY <1>1, ServedWeighs
<1>4. /\ RequestsWeigh(m, v) \in Int /\ BookWeighs(m, v, side) \in Int
      /\ Over(m.event_q, v) \in Int
  BY <1>1, DrainedType
<1>5. BookWeighs(m, v, Opposite(side)) \in Int
  <2>1. Opposite(side) \in Side
    BY DEF Opposite, Side
  <2> QED BY <1>1, <2>1, DrainedType
<1>6. Drained(n, v) = Drained(m, v) - RequestWeight(v)[r]
           + (Total(leaves, LeafWeight(v, side)) - BookWeighs(m, v, side))
           + Over(events, v)
  <2> DEFINE t == Total(leaves, LeafWeight(v, side))
             o == Over(events, v)
             w == RequestWeight(v)[r]
             b == BookWeighs(m, v, side)
             c == BookWeighs(m, v, Opposite(side))
             q == Over(m.event_q, v)
             x == RequestsWeigh(m, v)
             y == RequestsWeigh(n, v)
             dm == Drained(m, v)
             dn == Drained(n, v)
  <2>1. /\ t \in Int /\ o \in Int /\ w \in Int /\ b \in Int /\ c \in Int /\ q \in Int
        /\ x \in Int /\ y = x - w /\ dm = x + b + c + q /\ dn = y + t + c + q + o
    BY <1>2, <1>3, <1>4, <1>5
  <2> HIDE DEF t, o, w, b, c, q, x, y, dm, dn
  <2>2. dn = dm - w + (t - b) + o
    BY <2>1
  <2> QED BY <2>2 DEF t, o, w, b, c, q, x, y, dm, dn
<1> QED BY <1>2, <1>4, <1>5, <1>6

LEMMA WaitsMoves ==
  ASSUME NEW m, NEW n, NEW r \in NewOrderRequest, Ready(m, n, r), NEW v, Weighs(v, Event),
         NEW coin \in Nat, NEW pc \in Int, Waits(m, n, r, coin, pc),
         NEW side \in Side, NEW leaves, Book(m, n, side, leaves),
         NEW events \in Seq(Event), Appends(m, n, events)
  PROVE  /\ Drained(n, v) = Drained(m, v)
              + (v[OutEvent(r.side, r, HeldBy(Reduced(r, coin, pc)), 0)]
                   - v[OutEvent(r.side, r, HeldBy(r), 0)])
              + (Total(leaves, LeafWeight(v, side)) - BookWeighs(m, v, side))
              + Over(events, v)
         /\ Drained(m, v) \in Int /\ HeldBy(Reduced(r, coin, pc)) \in Int
<1>1. /\ AccountsOK(m) /\ AccountsOK(n) /\ n.ok /\ m.req_q # <<>> /\ r = m.req_q[1]
  BY DEF Ready
<1>2. /\ Drained(m, v) = RequestsWeigh(m, v) + BookWeighs(m, v, side)
                           + BookWeighs(m, v, Opposite(side)) + Over(m.event_q, v)
      /\ Drained(n, v) = RequestsWeigh(n, v) + Total(leaves, LeafWeight(v, side))
                           + BookWeighs(m, v, Opposite(side)) + Over(m.event_q, v)
                           + Over(events, v)
      /\ Over(events, v) \in Int /\ Total(leaves, LeafWeight(v, side)) \in Int
  BY <1>1, DrainedSplit
<1>3. /\ RequestsWeigh(n, v) = RequestsWeigh(m, v)
           + (v[OutEvent(r.side, r, HeldBy(Reduced(r, coin, pc)), 0)]
                - v[OutEvent(r.side, r, HeldBy(r), 0)])
      /\ HeldBy(Reduced(r, coin, pc)) \in Int
  <2>1. AtFront(m, r)
    BY <1>1 DEF AtFront
  <2>2. RequestKeeps(m, n, r, HeldBy(Reduced(r, coin, pc)), v)
    BY <2>1, WaitsWeighs
  <2> QED BY <2>2 DEF RequestKeeps
<1>4. /\ RequestsWeigh(m, v) \in Int /\ BookWeighs(m, v, side) \in Int
      /\ Over(m.event_q, v) \in Int
  BY <1>1, DrainedType
<1>5. BookWeighs(m, v, Opposite(side)) \in Int
  <2>1. Opposite(side) \in Side
    BY DEF Opposite, Side
  <2> QED BY <1>1, <2>1, DrainedType
<1>6. v[OutEvent(r.side, r, HeldBy(Reduced(r, coin, pc)), 0)] \in Int
      /\ v[OutEvent(r.side, r, HeldBy(r), 0)] \in Int
  <2>1. \A a, b \in Int : v[OutEvent(r.side, r, a, b)] \in Int
    BY WeightsType
  <2>2. HeldBy(r) \in Int /\ 0 \in Int
    BY HeldType
  <2> QED BY <1>3, <2>1, <2>2
<1>7. Drained(n, v) = Drained(m, v)
           + (v[OutEvent(r.side, r, HeldBy(Reduced(r, coin, pc)), 0)]
                - v[OutEvent(r.side, r, HeldBy(r), 0)])
           + (Total(leaves, LeafWeight(v, side)) - BookWeighs(m, v, side))
           + Over(events, v)
  <2> DEFINE t == Total(leaves, LeafWeight(v, side))
             o == Over(events, v)
             w == v[OutEvent(r.side, r, HeldBy(Reduced(r, coin, pc)), 0)]
             u == v[OutEvent(r.side, r, HeldBy(r), 0)]
             b == BookWeighs(m, v, side)
             c == BookWeighs(m, v, Opposite(side))
             q == Over(m.event_q, v)
             x == RequestsWeigh(m, v)
             y == RequestsWeigh(n, v)
             dm == Drained(m, v)
             dn == Drained(n, v)
  <2>1. /\ t \in Int /\ o \in Int /\ w \in Int /\ u \in Int /\ b \in Int /\ c \in Int
        /\ q \in Int /\ x \in Int /\ y = x + (w - u) /\ dm = x + b + c + q
        /\ dn = y + t + c + q + o
    BY <1>2, <1>3, <1>4, <1>5, <1>6
  <2> HIDE DEF t, o, w, u, b, c, q, x, y, dm, dn
  <2>2. dn = dm + (w - u) + (t - b) + o
    BY <2>1
  <2> QED BY <2>2 DEF t, o, w, u, b, c, q, x, y, dm, dn
<1> QED BY <1>2, <1>3, <1>4, <1>5, <1>7

\* Nothing, one or two events.
LEMMA OverFew ==
  ASSUME NEW v, Weighs(v, Event)
  PROVE  /\ Over(<<>>, v) = 0
         /\ \A e \in Event : Over(<<e>>, v) = v[e] /\ v[e] \in Int
         /\ \A e, f \in Event : Over(<<e, f>>, v) = v[e] + v[f]
<1>1. \A e \in Event : Over(<<e>>, v) = v[e] /\ v[e] \in Int
  BY OverOne DEF Weighs
<1>2. ASSUME NEW e \in Event, NEW f \in Event
      PROVE  Over(<<e, f>>, v) = v[e] + v[f]
  <2> DEFINE one == <<e>>
  <2>1. <<e>> \o <<f>> = <<e, f>>
    BY PairOf
  <2>2. one \in Seq(Event) /\ Over(one, v) = v[e]
    BY <1>1
  <2>3. one \o <<f>> = <<e, f>>
    BY <2>1
  <2> HIDE DEF one
  <2>4. Over(one \o <<f>>, v) = Over(one, v) + v[f]
    BY <2>2, OverPush
  <2> QED BY <2>2, <2>3, <2>4
<1> QED BY <1>1, <1>2, OverEmpty

LEMMA CancelsConserve ==
  ASSUME NEW m, NEW n, NEW r, Ready(m, n, r), NEW v, Weighs(v, Event), Cancels(m, n, r)
  PROVE  Drained(n, v) = Drained(m, v)
<1>1. /\ AccountsOK(m) /\ Served(m, n) /\ r \in CancelRequest /\ RequestWeight(v)[r] = 0
  BY WeightsType DEF Ready, Cancels
<1>2. CASE n.bids = m.bids /\ n.asks = m.asks /\ Appends(m, n, <<>>)
  <2> DEFINE leaves == orders(m, "Bid")
             none == <<>>
  <2>1. "Bid" \in Side /\ Book(m, n, "Bid", leaves)
    BY <1>2 DEF Side, Book, orders, Opposite
  <2>2. none \in Seq(Event) /\ Appends(m, n, none)
    BY <1>2
  <2>3. Over(none, v) = 0
    BY OverEmpty
  <2>4. Total(leaves, LeafWeight(v, "Bid")) = BookWeighs(m, v, "Bid")
        /\ BookWeighs(m, v, "Bid") \in Int
    BY <1>1, <2>1, DrainedType DEF BookWeighs
  <2> HIDE DEF none, leaves
  <2>5. /\ Drained(n, v) = Drained(m, v) - RequestWeight(v)[r]
             + (Total(leaves, LeafWeight(v, "Bid")) - BookWeighs(m, v, "Bid"))
             + Over(none, v)
        /\ Drained(m, v) \in Int
    BY <1>1, <2>1, <2>2, ServedMoves
  <2> QED BY <1>1, <2>3, <2>4, <2>5
<1>3. ASSUME NEW x \in orders(m, r.side),
             Book(m, n, r.side, orders(m, r.side) \ {x}),
             Appends(m, n, <<BootEvent(r.side, x)>>)
      PROVE  Drained(n, v) = Drained(m, v)
  <2> DEFINE side == r.side
             leaves == orders(m, side) \ {x}
             e == BootEvent(side, x)
             one == <<e>>
  <2>1. side \in Side
    BY <1>1 DEF CancelRequest
  <2>2. /\ Total(leaves, LeafWeight(v, side)) = BookWeighs(m, v, side) - v[e]
        /\ v[e] \in Int /\ x \in Leaf /\ BookWeighs(m, v, side) \in Int
    BY <1>1, <2>1, TakenOff
  <2>3. e \in Event
    BY <2>1, <2>2, WorthType
  <2>4. Book(m, n, side, leaves) /\ Appends(m, n, one)
    BY <1>3
  <2> HIDE DEF e, side, leaves
  <2>5. one \in Seq(Event) /\ Over(one, v) = v[e]
    BY <2>3, OverFew
  <2> HIDE DEF one
  <2>6. /\ Drained(n, v) = Drained(m, v) - RequestWeight(v)[r]
             + (Total(leaves, LeafWeight(v, side)) - BookWeighs(m, v, side))
             + Over(one, v)
        /\ Drained(m, v) \in Int
    BY <1>1, <2>1, <2>4, <2>5, ServedMoves
  <2> QED BY <1>1, <2>2, <2>5, <2>6
<1> QED BY <1>2, <1>3 DEF Cancels

LEMMA DropsConserve ==
  ASSUME NEW m, NEW n, NEW r, Ready(m, n, r), NEW v, Weighs(v, Event), Drops(m, n, r)
  PROVE  Drained(n, v) = Drained(m, v)
<1> DEFINE e == OutEvent(r.side, r, HeldBy(r), 0)
           one == <<e>>
           leaves == orders(m, "Bid")
<1>1. /\ AccountsOK(m) /\ Served(m, n) /\ r \in NewOrderRequest /\ Appends(m, n, one)
      /\ n.bids = m.bids /\ n.asks = m.asks
  BY DEF Ready, Drops
<1>2. e \in Event /\ RequestWeight(v)[r] = v[e]
  <2>1. r.side \in Side /\ Identified(r) /\ HeldBy(r) \in Int /\ 0 \in Int
    BY <1>1, HeldType, RequestFields DEF Identified
  <2>2. e \in Event
    BY <2>1, OutEventType
  <2> QED BY <1>1, <2>2, WeightsType
<1>3. "Bid" \in Side /\ Book(m, n, "Bid", leaves)
  BY <1>1 DEF Side, Book, orders, Opposite
<1>4. Total(leaves, LeafWeight(v, "Bid")) = BookWeighs(m, v, "Bid")
      /\ BookWeighs(m, v, "Bid") \in Int
  BY <1>1, <1>3, DrainedType DEF BookWeighs
<1> HIDE DEF e, leaves
<1>5. one \in Seq(Event) /\ Over(one, v) = v[e] /\ v[e] \in Int
  BY <1>2, OverFew
<1> HIDE DEF one
<1>6. /\ Drained(n, v) = Drained(m, v) - RequestWeight(v)[r]
           + (Total(leaves, LeafWeight(v, "Bid")) - BookWeighs(m, v, "Bid"))
           + Over(one, v)
      /\ Drained(m, v) \in Int
  BY <1>1, <1>3, <1>5, ServedMoves
<1> QED BY <1>2, <1>4, <1>5, <1>6

LEMMA LeafOfType ==
  ASSUME NEW r \in NewOrderRequest, NEW quantity \in Nat
  PROVE  /\ LeafOf(r, quantity) \in Leaf /\ RestOf(LeafOf(r, quantity), r)
         /\ LeafOf(r, quantity).id = r.id
BY RequestFields DEF LeafOf, Leaf, RestOf

LEMMA OutsAdd ==
  ASSUME NEW v, OutsAddUp(v), NEW side \in Side, NEW o \in Leaf \cup NewOrderRequest,
         NEW a \in Int, NEW b \in Int, NEW still \in Positive, NEW c, c = a + b
  PROVE  v[OutEvent(side, o, c, 0)]
           = v[OutEvent(side, o, a, 0)] + v[OutEvent(side, o, b, still)]
BY DEF OutsAddUp

\* A posted order and the Out of what it does not need weigh what the request did.
LEMMA PostWeighs ==
  ASSUME NEW v, Weighs(v, Event), OutsAddUp(v), NEW r \in NewOrderRequest,
         NEW leaf \in Leaf, RestOf(leaf, r), NEW W, W = Worth(r.side, leaf), W \in Positive,
         r.side = "Ask" => W = HeldBy(r),
         NEW events,
         events = IF r.side = "Bid" THEN <<OutEvent("Bid", r, HeldBy(r) - W, W)>> ELSE <<>>
  PROVE  /\ events \in Seq(Event) /\ Over(events, v) \in Int
         /\ v[OutEvent(r.side, r, HeldBy(r), 0)]
              = v[BootEvent(r.side, leaf)] + Over(events, v)
         /\ v[BootEvent(r.side, leaf)] \in Int
<1>1. /\ HeldBy(r) \in Int /\ W \in Int /\ 0 \in Int /\ r.side \in Side
      /\ \A a, b \in Int : v[OutEvent(r.side, r, a, b)] \in Int
  BY HeldType, RequestFields, WeightsType DEF Positive
<1>2. BootEvent(r.side, leaf) = OutEvent(r.side, r, W, 0)
  BY SameOuts DEF BootEvent
<1>3. CASE r.side = "Ask"
  <2> DEFINE none == <<>>
  <2>1. events = none /\ none \in Seq(Event) /\ Over(none, v) = 0
    BY <1>3, OverEmpty
  <2> HIDE DEF none
  <2> QED BY <1>1, <1>2, <1>3, <2>1
<1>4. CASE r.side = "Bid"
  <2> DEFINE e == OutEvent(r.side, r, HeldBy(r) - W, W)
             one == <<e>>
  <2>1. events = one
    BY <1>4
  <2>2. e \in Event
    <3>1. Identified(r) /\ HeldBy(r) - W \in Int
      BY <1>1, RequestFields DEF Identified
    <3> QED BY <1>1, <3>1, OutEventType
  <2> DEFINE rest == HeldBy(r) - W
             o == r
  <2>3. v[OutEvent(r.side, r, HeldBy(r), 0)] = v[OutEvent(r.side, r, W, 0)] + v[e]
    <3>1. rest \in Int /\ o \in Leaf \cup NewOrderRequest /\ "Bid" \in Side
          /\ HeldBy(r) = W + rest
      BY <1>1 DEF Side
    <3>2. e = OutEvent("Bid", o, rest, W) /\ r.side = "Bid"
      BY <1>4
    <3> DEFINE bid == "Bid"
               all == HeldBy(r)
    <3>3. bid \in Side /\ all = W + rest
      BY <3>1
    <3> HIDE DEF rest, o, e, bid, all
    <3>4. v[OutEvent(bid, o, all, 0)] = v[OutEvent(bid, o, W, 0)] + v[OutEvent(bid, o, rest, W)]
      <4>1. W \in Positive /\ W \in Int /\ rest \in Int /\ bid \in Side /\ all = W + rest
            /\ o \in Leaf \cup NewOrderRequest /\ OutsAddUp(v)
        BY <1>1, <3>1, <3>3
      <4> QED BY ONLY <4>1, OutsAdd
    <3> QED BY <3>2, <3>4 DEF o, bid, all
  <2> HIDE DEF rest
  <2> HIDE DEF e
  <2>5. one \in Seq(Event) /\ Over(one, v) = v[e] /\ v[e] \in Int
    BY <2>2, OverFew
  <2> HIDE DEF one
  <2>6. v[OutEvent(r.side, r, HeldBy(r), 0)] = v[OutEvent(r.side, r, W, 0)] + Over(one, v)
    BY <2>3, <2>5
  <2> QED BY <1>1, <1>2, <2>1, <2>5, <2>6
<1> QED BY <1>1, <1>3, <1>4 DEF Side

LEMMA PostsConserve ==
  ASSUME LotsHaveSize, NEW m, NEW n, NEW r, Ready(m, n, r), NEW v, Weighs(v, Event), OutsAddUp(v),
         NEW quantity \in Positive, Posts(m, n, r, quantity)
  PROVE  Drained(n, v) = Drained(m, v)
<1> DEFINE side == r.side
           leaf == LeafOf(r, quantity)
           events == PostEvents(r, quantity)
           W == Worth(side, leaf)
           h == v[OutEvent(r.side, r, HeldBy(r), 0)]
<1>1. /\ AccountsOK(m) /\ r \in NewOrderRequest /\ side \in Side
      /\ \A x \in orders(m, side) : x.id # r.id
      /\ Placed(m, n, side, leaf, events) /\ Served(m, n)
      /\ W \in Positive /\ (side = "Ask" => W = HeldBy(r))
  <2>1. Ready(m, n, r) /\ r \in NewOrderRequest /\ Placed(m, n, side, leaf, events)
    BY DEF Posts
  <2>2. W \in Nat /\ (LotsHaveSize => W > 0) /\ (side = "Ask" => W = HeldBy(r))
    BY DEF Posts
  <2>3. W \in Positive
    <3> HIDE DEF W
    <3> QED BY <2>2, LotsHaveSize DEF Positive
  <2> HIDE DEF W, leaf, events
  <2> QED BY <2>1, <2>2, <2>3, RequestFields DEF Ready, Placed, IsOrder
<1>2. leaf \in Leaf /\ RestOf(leaf, r) /\ leaf.id = r.id
  BY <1>1, LeafOfType DEF Positive
<1>3. events = IF r.side = "Bid" THEN <<OutEvent("Bid", r, HeldBy(r) - W, W)>> ELSE <<>>
  BY DEF PostEvents
<1> HIDE DEF leaf, events
<1>4. /\ events \in Seq(Event) /\ Over(events, v) \in Int
      /\ h = v[BootEvent(side, leaf)] + Over(events, v)
      /\ v[BootEvent(side, leaf)] \in Int
  BY <1>1, <1>2, <1>3, PostWeighs
<1>5. RequestWeight(v)[r] = h
  BY <1>1, WeightsType
<1>6. /\ orders(m, side) \in SUBSET Leaf /\ IsFiniteSet(orders(m, side))
      /\ \A y \in orders(m, side) : y.id # leaf.id
      /\ BookWeighs(m, v, side) \in Int
  BY <1>1, <1>2, DrainedType
<1> HIDE DEF h, side
<1>7. ASSUME Book(m, n, side, orders(m, side) \cup {leaf}), Appends(m, n, events)
      PROVE  Drained(n, v) = Drained(m, v)
  <2> DEFINE old == orders(m, side)
             leaves == old \cup {leaf}
  <2>1. Total(leaves, LeafWeight(v, side)) = BookWeighs(m, v, side) + v[BootEvent(side, leaf)]
    <3>1. old \in SUBSET Leaf /\ IsFiniteSet(old) /\ \A y \in old : y.id # leaf.id
      BY <1>6
    <3> HIDE DEF old
    <3>2. Total(old \cup {leaf}, LeafWeight(v, side))
            = Total(old, LeafWeight(v, side)) + v[BootEvent(side, leaf)]
      BY <1>1, <1>2, <3>1, PutOn
    <3> QED BY <3>2 DEF old, BookWeighs
  <2>2. Book(m, n, side, leaves)
    BY <1>7
  <2> HIDE DEF leaves
  <2>3. /\ Drained(n, v) = Drained(m, v) - RequestWeight(v)[r]
              + (Total(leaves, LeafWeight(v, side)) - BookWeighs(m, v, side))
              + Over(events, v)
         /\ Drained(m, v) \in Int
    BY <1>1, <1>4, <1>7, <2>2, ServedMoves
  <2> QED BY <1>4, <1>5, <1>6, <2>1, <2>3
<1>8. ASSUME NEW worst \in orders(m, side),
             Book(m, n, side, (orders(m, side) \ {worst}) \cup {leaf}),
             Appends(m, n, events \o <<BootEvent(side, worst)>>)
      PROVE  Drained(n, v) = Drained(m, v)
  <2> DEFINE old == orders(m, side) \ {worst}
             leaves == old \cup {leaf}
             e == BootEvent(side, worst)
             all == events \o <<e>>
  <2>1. /\ Total(old, LeafWeight(v, side)) = BookWeighs(m, v, side) - v[e]
        /\ v[e] \in Int /\ worst \in Leaf /\ IsFiniteSet(old)
    <3>1. worst \in orders(m, side) /\ old = orders(m, side) \ {worst}
      BY <1>8
    <3>2. e = BootEvent(side, worst)
      OBVIOUS
    <3> HIDE DEF old, e
    <3>3. /\ Total(old, LeafWeight(v, side))
                = BookWeighs(m, v, side) - v[BootEvent(side, worst)]
          /\ v[BootEvent(side, worst)] \in Int /\ worst \in Leaf
          /\ IsFiniteSet(old)
      BY <1>1, <3>1, TakenOff
    <3> QED BY <3>2, <3>3
  <2>2. Total(leaves, LeafWeight(v, side))
          = Total(old, LeafWeight(v, side)) + v[BootEvent(side, leaf)]
    <3>1. old \in SUBSET Leaf /\ \A y \in old : y.id # leaf.id
      BY <1>6
    <3> HIDE DEF old
    <3> QED BY <1>1, <1>2, <2>1, <3>1, PutOn
  <2>3. Book(m, n, side, leaves) /\ Appends(m, n, all)
    BY <1>8
  <2>4. e \in Event
    BY <1>1, <2>1, WorthType
  <2> HIDE DEF leaves, old, e
  <2>5. Over(all, v) = Over(events, v) + v[e]
    BY <1>4, <2>4, OverPush
  <2>6. all \in Seq(Event)
    BY <1>4, <2>4
  <2> HIDE DEF all
  <2>7. /\ Drained(n, v) = Drained(m, v) - RequestWeight(v)[r]
              + (Total(leaves, LeafWeight(v, side)) - BookWeighs(m, v, side))
              + Over(all, v)
         /\ Drained(m, v) \in Int
    BY <1>1, <2>3, <2>6, ServedMoves
  <2> QED BY <1>4, <1>5, <1>6, <2>1, <2>2, <2>5, <2>7
<1> QED BY <1>1, <1>7, <1>8 DEF Placed

\* What is left of a maker and the Out of what it gave up weigh what it did.
LEMMA ProvideWeighs ==
  ASSUME LotsHaveSize, NEW v, Weighs(v, Event), OutsAddUp(v), NEW side \in Side, NEW x \in Leaf,
         NEW taken \in Nat, taken <= x.quantity
  PROVE  /\ v[BootEvent(side, x)]
              = (IF x.quantity - taken = 0 THEN 0
                 ELSE v[OutEvent(side, x,
                          NativeLocked(side, x.quantity - taken, x.id.price), 0)])
                + v[ProvideEvent(side, x, taken)]
         /\ ProvideEvent(side, x, taken) \in Event
         /\ x.quantity - taken \in Nat
<1> DEFINE left == x.quantity - taken
           price == x.id.price
           L == NativeLocked(side, left, price)
           K == NativeLocked(side, taken, price)
<1>1. /\ x.quantity \in Nat /\ price \in Positive /\ Identified(x)
      /\ left \in Nat /\ x.quantity = left + taken
  BY LeafFields
<1>4. ProvideEvent(side, x, taken) = OutEvent(side, x, K, L)
  BY DEF ProvideEvent
<1>0. Worth(side, x) = NativeLocked(side, x.quantity, price)
  BY DEF Worth
<1> HIDE DEF left, price
<1>2. /\ L \in Nat /\ K \in Nat /\ (L = 0 <=> left = 0)
      /\ NativeLocked(side, x.quantity, price) = L + K
  <2> HIDE DEF L, K
  <2>1. left \in Nat /\ taken \in Nat /\ x.quantity = left + taken /\ price \in Positive
    BY <1>1
  <2>2. /\ NativeLocked(side, left, price) \in Nat
        /\ NativeLocked(side, taken, price) \in Nat
        /\ NativeLocked(side, x.quantity, price)
             = NativeLocked(side, left, price) + NativeLocked(side, taken, price)
    BY ONLY <2>1, LotsWorth, side \in Side
  <2>3. left = 0 => NativeLocked(side, left, price) = 0
    BY ONLY <2>1, LotsWorth, side \in Side
  <2>4. NativeLocked(side, left, price) = 0 => left = 0
    BY ONLY <2>1, LotsWorthSomething, side \in Side, LotsHaveSize
  <2> QED BY <2>2, <2>3, <2>4 DEF L, K
<1>3. Worth(side, x) = L + K
  BY <1>0, <1>2
<1>5. BootEvent(side, x) = OutEvent(side, x, L + K, 0)
  BY <1>3 DEF BootEvent
<1> HIDE DEF L, K
<1>6. ProvideEvent(side, x, taken) \in Event
  <2>1. K \in Int /\ L \in Int
    BY <1>2
  <2> QED BY <1>1, <1>4, <2>1, OutEventType
<1>7. v[ProvideEvent(side, x, taken)] \in Int
  BY <1>6 DEF Weighs
<1>8. CASE left = 0
  <2>1. ProvideEvent(side, x, taken) = BootEvent(side, x)
    BY <1>2, <1>4, <1>5, <1>8
  <2>2. x.quantity - taken = 0
    BY <1>8 DEF left
  <2>3. x.quantity - taken \in Nat
    BY <1>1 DEF left
  <2> HIDE DEF left
  <2>4. v[BootEvent(side, x)] = 0 + v[ProvideEvent(side, x, taken)]
    BY <1>7, <2>1
  <2> QED BY <1>6, <2>2, <2>3, <2>4
<1>9. CASE left # 0
  <2>1. L \in Positive /\ L \in Int /\ K \in Int /\ x \in Leaf \cup NewOrderRequest
    BY <1>2, <1>9 DEF Positive
  <2>2. v[OutEvent(side, x, L + K, 0)]
          = v[OutEvent(side, x, L, 0)] + v[OutEvent(side, x, K, L)]
    BY <2>1, OutsAdd
  <2>3. L = NativeLocked(side, x.quantity - taken, x.id.price)
    BY DEF L, left, price
  <2>4. x.quantity - taken # 0 /\ x.quantity - taken \in Nat
    BY <1>1, <1>9 DEF left
  <2> QED BY <1>4, <1>5, <1>6, <2>2, <2>3, <2>4
<1> QED BY <1>8, <1>9

\* After the events the request leaves with an Out of h, or waits holding h.
TakerEnds(m, n, r, h, events) ==
  \/ Served(m, n) /\ Appends(m, n, events \o <<OutEvent(r.side, r, h, 0)>>)
  \/ \E coin \in Nat, pc \in Int :
       /\ Waits(m, n, r, coin, pc) /\ HeldBy(Reduced(r, coin, pc)) = h
       /\ Appends(m, n, events)

LEMMA TakerMoves ==
  ASSUME NEW m, NEW n, NEW r \in NewOrderRequest, Ready(m, n, r), NEW v, Weighs(v, Event),
         NEW side \in Side, NEW leaves, Book(m, n, side, leaves),
         NEW events \in Seq(Event), NEW h \in Int, TakerEnds(m, n, r, h, events)
  PROVE  /\ Drained(n, v) = Drained(m, v)
              + (v[OutEvent(r.side, r, h, 0)] - v[OutEvent(r.side, r, HeldBy(r), 0)])
              + (Total(leaves, LeafWeight(v, side)) - BookWeighs(m, v, side))
              + Over(events, v)
         /\ Drained(m, v) \in Int /\ Over(events, v) \in Int
         /\ v[OutEvent(r.side, r, h, 0)] \in Int
         /\ v[OutEvent(r.side, r, HeldBy(r), 0)] \in Int
         /\ BookWeighs(m, v, side) \in Int
         /\ Total(leaves, LeafWeight(v, side)) \in Int
<1> DEFINE e == OutEvent(r.side, r, h, 0)
           H == v[OutEvent(r.side, r, HeldBy(r), 0)]
           T == Total(leaves, LeafWeight(v, side))
           B == BookWeighs(m, v, side)
<1>1. /\ e \in Event /\ v[e] \in Int /\ H \in Int /\ RequestWeight(v)[r] = H
  <2>1. HeldBy(r) \in Int /\ 0 \in Int /\ Identified(r) /\ r.side \in Side
    BY HeldType, RequestFields DEF Identified
  <2>2. e \in Event /\ OutEvent(r.side, r, HeldBy(r), 0) \in Event
    BY <2>1, OutEventType
  <2> QED BY <2>2, WeightsType DEF Weighs
<1>2. /\ AccountsOK(m) /\ AccountsOK(n) /\ Over(events, v) \in Int
  BY OverDomain DEF Ready
<1>3. B \in Int /\ T \in Int
  <2>1. orders(n, side) = leaves
    BY DEF Book
  <2>2. BookWeighs(n, v, side) \in Int /\ B \in Int
    BY <1>2, DrainedType
  <2> QED BY <2>1, <2>2 DEF BookWeighs
<1> HIDE DEF e
<1>4. CASE Served(m, n) /\ Appends(m, n, events \o <<e>>)
  <2> DEFINE all == events \o <<e>>
  <2>1. all \in Seq(Event)
    BY <1>1
  <2>2. Over(all, v) = Over(events, v) + v[e]
    BY <1>1, OverPush
  <2>3. Appends(m, n, all)
    BY <1>4
  <2> HIDE DEF all
  <2>4. /\ Drained(n, v) = Drained(m, v) - RequestWeight(v)[r] + (T - B) + Over(all, v)
        /\ Drained(m, v) \in Int
    <3> HIDE DEF H
    <3> QED BY <1>4, <2>1, <2>3, ServedMoves
  <2> HIDE DEF T, B, H
  <2>5. Drained(n, v) = Drained(m, v) + (v[e] - H) + (T - B) + Over(events, v)
    BY <1>1, <1>2, <1>3, <2>2, <2>4
  <2> QED BY <1>1, <1>2, <1>3, <2>4, <2>5 DEF e, H, T, B
<1>5. CASE \E coin \in Nat, pc \in Int :
             /\ Waits(m, n, r, coin, pc) /\ HeldBy(Reduced(r, coin, pc)) = h
             /\ Appends(m, n, events)
  <2>1. PICK coin \in Nat, pc \in Int :
             /\ Waits(m, n, r, coin, pc) /\ HeldBy(Reduced(r, coin, pc)) = h
             /\ Appends(m, n, events)
    BY <1>5
  <2>2. /\ Drained(n, v) = Drained(m, v)
              + (v[OutEvent(r.side, r, HeldBy(Reduced(r, coin, pc)), 0)] - H)
              + (T - B) + Over(events, v)
         /\ Drained(m, v) \in Int
    BY <2>1, WaitsMoves
  <2>3. v[OutEvent(r.side, r, HeldBy(Reduced(r, coin, pc)), 0)] = v[e]
    BY <2>1 DEF e
  <2> QED BY <1>1, <1>2, <1>3, <2>2, <2>3 DEF e
<1> QED BY <1>4, <1>5 DEF TakerEnds, e

LEMMA SelfTradesConserve ==
  ASSUME LotsHaveSize, NEW m, NEW n, NEW r, Ready(m, n, r), NEW v, Weighs(v, Event), OutsAddUp(v),
         NEW x, NEW taken, SelfTrades(m, n, r, x, taken)
  PROVE  Drained(n, v) = Drained(m, v)
<1> DEFINE side == Opposite(r.side)
           left == x.quantity - taken
           P == ProvideEvent(side, x, taken)
           rest == IF left = 0 THEN 0
                   ELSE v[OutEvent(side, x, NativeLocked(side, left, x.id.price), 0)]
           leaves == Left(m, side, x, left)
           T == Total(leaves, LeafWeight(v, side))
           B == BookWeighs(m, v, side)
           H == HeldBy(r)
<1>1. /\ AccountsOK(m) /\ r \in NewOrderRequest /\ side \in Side /\ r.side \in Side
      /\ x \in orders(m, side) /\ taken \in Nat /\ taken <= x.quantity
      /\ Book(m, n, side, leaves) /\ IdsDiffer(orders(m, side))
  BY OrderFields DEF Ready, SelfTrades
<1>2. x \in Leaf /\ H \in Int
  BY <1>1, Maker, HeldType
<1>3. /\ v[BootEvent(side, x)] = rest + v[P] /\ P \in Event /\ left \in Nat
      /\ v[P] \in Int /\ rest \in Int
  <2>1. /\ v[BootEvent(side, x)] = rest + v[P] /\ P \in Event /\ left \in Nat
    <3> HIDE DEF side
    <3> QED BY <1>1, <1>2, ProvideWeighs
  <2>2. v[P] \in Int
    BY <2>1 DEF Weighs
  <2>3. NativeLocked(side, left, x.id.price) \in Int /\ 0 \in Int
    <3> HIDE DEF left, side
    <3> QED BY <1>1, <1>2, <2>1, LeafFields, NativeType
  <2>4. rest \in Int
    <3> HIDE DEF left, side
    <3> QED BY <1>1, <1>2, <2>3, WeightsType
  <2> QED BY <2>1, <2>2, <2>4
<1>4. T = B - v[BootEvent(side, x)] + rest
  <2> HIDE DEF side, left
  <2> QED BY <1>1, <1>3, LeftWeighs
<1> HIDE DEF side, left, rest, P, leaves, H
<1>5. ASSUME NEW events \in Seq(Event), NEW h \in Int, TakerEnds(m, n, r, h, events),
             Over(events, v) = v[P] + (v[OutEvent(r.side, r, H, 0)] - v[OutEvent(r.side, r, h, 0)])
      PROVE  Drained(n, v) = Drained(m, v)
  <2>1. /\ Drained(n, v) = Drained(m, v)
              + (v[OutEvent(r.side, r, h, 0)] - v[OutEvent(r.side, r, H, 0)])
              + (T - B) + Over(events, v)
         /\ Drained(m, v) \in Int /\ Over(events, v) \in Int
         /\ v[OutEvent(r.side, r, h, 0)] \in Int
         /\ v[OutEvent(r.side, r, H, 0)] \in Int
         /\ B \in Int /\ T \in Int
    BY <1>1, <1>5, TakerMoves DEF H
  <2> DEFINE vh == v[OutEvent(r.side, r, h, 0)]
             vH == v[OutEvent(r.side, r, H, 0)]
             vx == v[BootEvent(side, x)]
             vP == v[P]
             O == Over(events, v)
             dm == Drained(m, v)
             dn == Drained(n, v)
  <2>2. /\ dn = dm + (vh - vH) + (T - B) + O /\ dm \in Int /\ O = vP + (vH - vh)
        /\ vh \in Int /\ vH \in Int /\ B \in Int /\ T = B - vx + rest
        /\ vx = rest + vP /\ rest \in Int /\ vP \in Int
    BY <1>3, <1>4, <1>5, <2>1
  <2> HIDE DEF T, B, vh, vH, vx, vP, O, dm, dn
  <2>3. dn = dm
    BY <2>2
  <2> QED BY <2>3 DEF dn, dm
<1>6. CASE /\ Served(m, n)
           /\ Appends(m, n, <<P, OutEvent(r.side, r, H, 0)>>)
  <2> DEFINE e == OutEvent(r.side, r, H, 0)
             one == <<P>>
  <2>1. e \in Event /\ v[e] \in Int
    <3>1. Identified(r) /\ 0 \in Int
      BY <1>1, RequestFields DEF Identified
    <3> QED BY <1>1, <1>2, <3>1, OutEventType DEF Weighs
  <2> HIDE DEF e
  <2>2. <<P>> \o <<e>> = <<P, e>>
    BY <1>3, <2>1, PairOf
  <2>3. one \in Seq(Event) /\ Over(one, v) = v[P]
    BY <1>3, OverFew
  <2>4. Appends(m, n, one \o <<e>>)
    BY <1>6, <2>2 DEF e
  <2> HIDE DEF one
  <2>5. TakerEnds(m, n, r, H, one)
    BY <1>6, <2>4 DEF TakerEnds, e
  <2>6. Over(one, v) = v[P] + (v[OutEvent(r.side, r, H, 0)] - v[OutEvent(r.side, r, H, 0)])
    BY <1>3, <2>1, <2>3 DEF e
  <2> QED BY <1>2, <1>5, <2>3, <2>5, <2>6
<1>7. ASSUME NEW coin \in Nat, NEW pc \in Int, NEW still \in Positive,
             Waits(m, n, r, coin, pc),
             Appends(m, n, <<P, OutEvent(r.side, r, H - HeldBy(Reduced(r, coin, pc)), still)>>)
      PROVE  Drained(n, v) = Drained(m, v)
  <2> DEFINE h == HeldBy(Reduced(r, coin, pc))
             d == H - h
             e == OutEvent(r.side, r, d, still)
             two == <<P, e>>
  <2>1. h \in Int /\ d \in Int /\ H = h + d /\ still \in Int
    <3> DEFINE z == Reduced(r, coin, pc)
    <3>1. z \in NewOrderRequest
      BY <1>1, ReducedFields
    <3> HIDE DEF z
    <3>2. HeldBy(z) \in Int
      BY <3>1, HeldType
    <3>3. h \in Int
      BY <3>2 DEF z
    <3> HIDE DEF h
    <3> QED BY <1>2, <3>3 DEF Positive
  <2>2. e \in Event /\ v[e] \in Int
    <3>1. Identified(r)
      BY <1>1, RequestFields DEF Identified
    <3> HIDE DEF d
    <3> QED BY <1>1, <2>1, <3>1, OutEventType DEF Weighs
  <2>3. Appends(m, n, two)
    BY <1>7
  <2>4. h = HeldBy(Reduced(r, coin, pc))
    OBVIOUS
  <2>5. e = OutEvent(r.side, r, d, still)
    OBVIOUS
  <2> HIDE DEF h, d, e
  <2>6. two \in Seq(Event) /\ Over(two, v) = v[P] + v[e]
    BY <1>3, <2>2, OverFew
  <2> HIDE DEF two
  <2>7. TakerEnds(m, n, r, h, two)
    BY <1>7, <2>3, <2>4 DEF TakerEnds
  <2>8. v[OutEvent(r.side, r, H, 0)] = v[OutEvent(r.side, r, h, 0)] + v[e]
    <3> DEFINE s == r.side
               o == r
    <3>1. /\ s \in Side /\ o \in Leaf \cup NewOrderRequest /\ h \in Int /\ d \in Int
          /\ still \in Positive /\ H = h + d /\ OutsAddUp(v)
      BY <1>1, <2>1
    <3> HIDE DEF s, o
    <3>2. v[OutEvent(s, o, H, 0)] = v[OutEvent(s, o, h, 0)] + v[OutEvent(s, o, d, still)]
      BY ONLY <3>1, OutsAdd
    <3> QED BY <2>5, <3>2 DEF s, o
  <2>9. v[OutEvent(r.side, r, h, 0)] \in Int
    BY <1>1, <2>1, WeightsType
  <2>10. Over(two, v)
           = v[P] + (v[OutEvent(r.side, r, H, 0)] - v[OutEvent(r.side, r, h, 0)])
    BY <1>3, <2>2, <2>6, <2>8, <2>9
  <2> QED BY <1>5, <2>1, <2>6, <2>7, <2>10
<1> QED BY <1>6, <1>7 DEF SelfTrades, side, P, H

\* What a trade moves: u values the market, v the events.  The maker has a left
\* after it and the taker b; before it they held what the trade takes as well.
Balanced(u, v, mkt, r, x, quantity, a, b) ==
  u[Accrued(mkt, TradeFee(r, x, quantity), TradeRebate(x, quantity))]
    + v[MakerFill(r, x, quantity)] + v[TakerFill(r, x, quantity)]
    + v[OutEvent(Opposite(r.side), x, a, 0)] + v[OutEvent(r.side, r, b, 0)]
  = u[mkt]
    + v[OutEvent(Opposite(r.side), x,
          a + NativeLocked(Opposite(r.side), quantity, x.id.price), 0)]
    + v[OutEvent(r.side, r, b + Cost(r, x, quantity), 0)]

TradesBalance(u, v) ==
  \A mkt \in MarketRec, r \in NewOrderRequest, x \in Leaf, quantity \in Positive,
     a \in Int, b \in Int :
    x.owner # r.owner => Balanced(u, v, mkt, r, x, quantity, a, b)

LEMMA TradeBalances ==
  ASSUME NEW u, NEW v, TradesBalance(u, v), NEW mkt \in MarketRec,
         NEW r \in NewOrderRequest, NEW x \in Leaf, NEW quantity \in Positive,
         NEW a \in Int, NEW b \in Int, x.owner # r.owner
  PROVE  Balanced(u, v, mkt, r, x, quantity, a, b)
BY DEF TradesBalance

LEMMA CostType ==
  ASSUME NEW r \in NewOrderRequest, NEW x \in Leaf, NEW quantity \in Int
  PROVE  Cost(r, x, quantity) \in Int
<1>1. CoinLot \in Int
  BY MatchingAssumption
<1>2. TradedPc(x, quantity) \in Int /\ TradeFee(r, x, quantity) \in Int
  BY TradeTypes
<1>3. quantity * CoinLot \in Int
  BY <1>1
<1> QED BY <1>2, <1>3 DEF Cost

\* The fills, and the Out of a maker that is filled completely.
LEMMA FillsWeigh ==
  ASSUME NEW v, Weighs(v, Event), NEW r \in NewOrderRequest, NEW x \in Leaf,
         NEW quantity \in Int
  PROVE  /\ Over(FillsOf(r, x, quantity), v)
              = v[MakerFill(r, x, quantity)] + v[TakerFill(r, x, quantity)]
                  + (IF quantity = x.quantity
                     THEN v[OutEvent(Opposite(r.side), x, 0, 0)] ELSE 0)
         /\ v[MakerFill(r, x, quantity)] \in Int /\ v[TakerFill(r, x, quantity)] \in Int
<1> DEFINE a == MakerFill(r, x, quantity)
           b == MakerOut(r, x)
           c == TakerFill(r, x, quantity)
           fills == FillsOf(r, x, quantity)
<1>1. /\ a \in Event /\ b \in Event /\ c \in Event
      /\ fills = IF quantity = x.quantity THEN <<a, b, c>> ELSE <<a, c>>
  BY FillsShape
<1>2. b = OutEvent(Opposite(r.side), x, 0, 0)
  BY DEF MakerOut
<1> HIDE DEF a, b, c, fills
<1>3. v[a] \in Int /\ v[b] \in Int /\ v[c] \in Int
  BY <1>1 DEF Weighs
<1>4. Over(<<a, c>>, v) = v[a] + v[c]
  BY <1>1, OverFew
<1>5. Over(<<a, b, c>>, v) = v[a] + v[b] + v[c]
  <2> DEFINE one == <<a>>
             two == one \o <<b>>
             three == two \o <<c>>
  <2>1. three = <<a, b, c>>
    <3>1. <<a>> \o <<b>> \o <<c>> = <<a, b, c>>
      BY <1>1, TripleOf
    <3> QED BY <3>1
  <2>2. one \in Seq(Event) /\ Over(one, v) = v[a]
    BY <1>1, OverFew
  <2> HIDE DEF one
  <2>3. two \in Seq(Event) /\ Over(two, v) = Over(one, v) + v[b]
    BY <1>1, <2>2, OverPush
  <2> HIDE DEF two
  <2>4. Over(three, v) = Over(two, v) + v[c]
    BY <1>1, <2>3, OverPush
  <2> HIDE DEF three
  <2> QED BY <1>3, <2>1, <2>2, <2>3, <2>4
<1>6. CASE quantity = x.quantity
  BY <1>1, <1>2, <1>3, <1>5, <1>6 DEF a, b, c, fills
<1>7. CASE quantity # x.quantity
  BY <1>1, <1>3, <1>4, <1>7 DEF a, c, fills
<1> QED BY <1>6, <1>7

\* What is left of the maker, with its events.
LEMMA MakerMoves ==
  ASSUME NEW m, AccountsOK(m), NEW v, Weighs(v, Event), NEW r \in NewOrderRequest,
         NEW x \in orders(m, Opposite(r.side)), IdsDiffer(orders(m, Opposite(r.side))),
         NEW quantity \in Positive, quantity <= x.quantity,
         NEW a, a = NativeLocked(Opposite(r.side), x.quantity - quantity, x.id.price)
  PROVE  LET side == Opposite(r.side)
         IN  /\ (Total(Left(m, side, x, x.quantity - quantity), LeafWeight(v, side))
                   - BookWeighs(m, v, side))
                + Over(FillsOf(r, x, quantity), v)
                = v[MakerFill(r, x, quantity)] + v[TakerFill(r, x, quantity)]
                   + v[OutEvent(side, x, a, 0)]
                   - v[OutEvent(side, x, a + NativeLocked(side, quantity, x.id.price), 0)]
             /\ v[OutEvent(side, x, a, 0)] \in Int /\ a \in Int
             /\ v[OutEvent(side, x, a + NativeLocked(side, quantity, x.id.price), 0)] \in Int
<1> DEFINE side == Opposite(r.side)
           price == x.id.price
           left == x.quantity - quantity
           K == NativeLocked(side, quantity, price)
           T == Total(Left(m, side, x, left), LeafWeight(v, side))
           B == BookWeighs(m, v, side)
           F == Over(FillsOf(r, x, quantity), v)
           va == v[OutEvent(side, x, a, 0)]
           vk == v[OutEvent(side, x, a + K, 0)]
           vM == v[MakerFill(r, x, quantity)]
           vT == v[TakerFill(r, x, quantity)]
<1>1. /\ side \in Side /\ x \in Leaf /\ x.quantity \in Nat /\ price \in Positive
      /\ quantity \in Nat /\ quantity \in Int /\ 0 \in Int
  BY OrderFields, Maker, LeafFields DEF Positive
<1>2. left \in Nat /\ x.quantity = left + quantity /\ (left = 0 <=> quantity = x.quantity)
  BY <1>1
<1>3. a = NativeLocked(side, left, price)
  OBVIOUS
<1>4. a \in Nat /\ K \in Nat /\ NativeLocked(side, x.quantity, price) = a + K
  <2> DEFINE all == x.quantity
             part == quantity
  <2> HIDE DEF side, price, left, K, part
  <2>1. /\ side \in Side /\ price \in Positive /\ left \in Nat /\ part \in Nat
        /\ all = left + part
    BY <1>1, <1>2 DEF part
  <2> HIDE DEF all
  <2>2. /\ NativeLocked(side, left, price) \in Nat
        /\ NativeLocked(side, part, price) \in Nat
    BY ONLY <2>1, LotsWorth
  <2>3. NativeLocked(side, all, price)
          = NativeLocked(side, left, price) + NativeLocked(side, part, price)
    BY ONLY <2>1, LotsWorth
  <2> QED BY <1>3, <2>2, <2>3 DEF K, all, part
<1>5. left = 0 => a = 0
  <2> HIDE DEF side, price, left
  <2>1. /\ side \in Side /\ price \in Positive /\ left \in Nat /\ left = left + 0 /\ 0 \in Nat
    BY <1>1, <1>2
  <2>2. left = 0 => NativeLocked(side, left, price) = 0
    BY ONLY <2>1, LotsWorth
  <2> QED BY <1>3, <2>2
<1>6. BootEvent(side, x) = OutEvent(side, x, a + K, 0)
  BY <1>4 DEF BootEvent, Worth
<1>7. va \in Int /\ vk \in Int
  <2>1. a \in Int /\ a + K \in Int
    BY <1>4
  <2> HIDE DEF side, K
  <2> QED BY <1>1, <2>1, WeightsType
<1>8. T = B - v[BootEvent(side, x)]
            + (IF left = 0 THEN 0
               ELSE v[OutEvent(side, x, NativeLocked(side, left, x.id.price), 0)])
  <2> HIDE DEF side, left
  <2> QED BY <1>1, <1>2, LeftWeighs DEF side
<1>9. /\ F = vM + vT + (IF quantity = x.quantity THEN v[OutEvent(side, x, 0, 0)] ELSE 0)
      /\ vM \in Int /\ vT \in Int
  BY <1>1, FillsWeigh
<1>10. B \in Int
  <2> HIDE DEF side
  <2> QED BY <1>1, DrainedType
<1>11. T = B - vk + (IF left = 0 THEN 0 ELSE va)
  BY <1>3, <1>6, <1>8
<1>12. F = vM + vT + (IF left = 0 THEN va ELSE 0)
  BY <1>2, <1>5, <1>9
<1> HIDE DEF T, B, F, va, vk, vM, vT, left
<1>13. (T - B) + F = vM + vT + va - vk
  BY <1>7, <1>9, <1>10, <1>11, <1>12
<1>14. a \in Int
  BY <1>4
<1> QED BY <1>7, <1>13, <1>14 DEF T, B, F, va, vk, vM, vT, left

\* What a call conserves: u of the market with v of the drained events.
Conserves(m, n, u, v) == u[n.market] + Drained(n, v) = u[m.market] + Drained(m, v)

LEMMA TradesConserve ==
  ASSUME NEW m, NEW n, NEW r, Ready(m, n, r), NEW u, Weighs(u, MarketRec),
         NEW v, Weighs(v, Event), TradesBalance(u, v),
         NEW x, NEW quantity, Trades(m, n, r, x, quantity)
  PROVE  Conserves(m, n, u, v)
<1> DEFINE side == Opposite(r.side)
           a == NativeLocked(side, x.quantity - quantity, x.id.price)
           h == HeldBy(r) - Cost(r, x, quantity)
           fills == FillsOf(r, x, quantity)
           leaves == Left(m, side, x, x.quantity - quantity)
           T == Total(leaves, LeafWeight(v, side))
           B == BookWeighs(m, v, side)
           F == Over(fills, v)
           vM == v[MakerFill(r, x, quantity)]
           vT == v[TakerFill(r, x, quantity)]
           va == v[OutEvent(side, x, a, 0)]
           vk == v[OutEvent(side, x, a + NativeLocked(side, quantity, x.id.price), 0)]
           vh == v[OutEvent(r.side, r, h, 0)]
           vH == v[OutEvent(r.side, r, HeldBy(r), 0)]
           um == u[m.market]
           un == u[n.market]
           dm == Drained(m, v)
           dn == Drained(n, v)
<1>1. /\ AccountsOK(m) /\ AccountsOK(n) /\ r \in NewOrderRequest /\ side \in Side
      /\ r.side \in Side
      /\ x \in orders(m, side) /\ quantity \in Positive /\ quantity <= x.quantity
      /\ x.owner # r.owner /\ Book(m, n, side, leaves) /\ IdsDiffer(orders(m, side))
      /\ n.market = Accrued(m.market, TradeFee(r, x, quantity), TradeRebate(x, quantity))
      /\ m.market \in MarketRec /\ n.market \in MarketRec
  BY OrderFields DEF Ready, Trades, AccountsOK, Accounts
<1>2. x \in Leaf /\ HeldBy(r) \in Int /\ quantity \in Int
  BY <1>1, Maker, HeldType DEF Positive
<1>3. h \in Int /\ HeldBy(r) = h + Cost(r, x, quantity)
  BY <1>1, <1>2, CostType
<1>4. fills \in Seq(Event)
  BY <1>1, <1>2, TradeTypes
<1>5. TakerEnds(m, n, r, h, fills)
  <2>1. \/ /\ Served(m, n)
           /\ Appends(m, n, fills \o <<OutEvent(r.side, r, h, 0)>>)
        \/ \E coin \in Nat, pc \in Int :
             /\ Waits(m, n, r, coin, pc) /\ HeldBy(Reduced(r, coin, pc)) = h
             /\ Appends(m, n, fills)
    BY DEF Trades
  <2> HIDE DEF h, fills
  <2> QED BY <2>1 DEF TakerEnds
<1>6. /\ dn = dm + (vh - vH) + (T - B) + F
      /\ dm \in Int /\ F \in Int /\ vh \in Int /\ vH \in Int /\ B \in Int /\ T \in Int
  <2> HIDE DEF side, h, fills, leaves
  <2> QED BY <1>1, <1>3, <1>4, <1>5, TakerMoves
<1>7. /\ (T - B) + F = vM + vT + va - vk /\ va \in Int /\ a \in Int /\ vk \in Int
  BY <1>1, MakerMoves
<1>8. vM \in Int /\ vT \in Int
  BY <1>1, <1>2, FillsWeigh
<1>9. un + vM + vT + va + vh = um + vk + vH
  <2> HIDE DEF a, h
  <2>1. Balanced(u, v, m.market, r, x, quantity, a, h)
    <3> DEFINE mkt == m.market
    <3>1. mkt \in MarketRec
      BY <1>1
    <3> HIDE DEF mkt
    <3>2. Balanced(u, v, mkt, r, x, quantity, a, h)
      BY <1>1, <1>2, <1>3, <1>7, <3>1, TradeBalances
    <3> QED BY <3>2 DEF mkt
  <2>2. v[OutEvent(r.side, r, h + Cost(r, x, quantity), 0)] = vH
    BY <1>3
  <2> QED BY <1>1, <2>1, <2>2 DEF Balanced
<1>10. um \in Int /\ un \in Int
  BY <1>1 DEF Weighs
<1> HIDE DEF T, B, F, vM, vT, va, vk, vh, vH, um, un, dm, dn
<1>11. un + dn = um + dm
  BY <1>6, <1>7, <1>8, <1>9, <1>10
<1> QED BY <1>11 DEF un, dn, um, dm, Conserves

\* A pass conserves what adds up over the Outs of an order and is balanced by
\* trades.
LEMMA PassConserves ==
  ASSUME LotsHaveSize, NEW m, NEW n, NEW r, Ready(m, n, r), NEW u, Weighs(u, MarketRec),
         NEW v, Weighs(v, Event), OutsAddUp(v), TradesBalance(u, v), Pass(m, n, r)
  PROVE  Conserves(m, n, u, v)
<1>1. CASE Cancels(m, n, r)
  BY <1>1, CancelsConserve DEF Cancels, Conserves
<1>2. CASE Drops(m, n, r)
  BY <1>2, DropsConserve DEF Drops, Conserves
<1>3. CASE \E quantity \in Positive : Posts(m, n, r, quantity)
  <2>1. PICK quantity \in Positive : Posts(m, n, r, quantity)
    BY <1>3
  <2>2. n.market = m.market
    BY <2>1 DEF Posts, Placed
  <2>3. Drained(n, v) = Drained(m, v)
    BY <2>1, PostsConserve
  <2> QED BY <2>2, <2>3 DEF Conserves
<1>4. CASE \E x \in orders(m, Opposite(r.side)), quantity \in Nat :
             SelfTrades(m, n, r, x, quantity) \/ Trades(m, n, r, x, quantity)
  <2>1. PICK x \in orders(m, Opposite(r.side)), quantity \in Nat :
             SelfTrades(m, n, r, x, quantity) \/ Trades(m, n, r, x, quantity)
    BY <1>4
  <2>2. CASE SelfTrades(m, n, r, x, quantity)
    <3>1. n.market = m.market
      BY <2>2 DEF SelfTrades
    <3>2. Drained(n, v) = Drained(m, v)
      BY <2>2, SelfTradesConserve
    <3> QED BY <3>1, <3>2 DEF Conserves
  <2>3. CASE Trades(m, n, r, x, quantity)
    BY <2>3, TradesConserve
  <2> QED BY <2>1, <2>2, <2>3
<1> QED BY <1>1, <1>2, <1>3, <1>4 DEF Pass

\* The accounts of a call are ready for a pass: its order is not on the book.
LEMMA ReadyInOrder ==
  ASSUME NEW m, AccountsOK(m), NEW n, AccountsOK(n), n.ok, m.req_q # <<>>,
         NEW seq \in Int, InOrder(m, seq)
  PROVE  Ready(m, n, m.req_q[1])
<1> DEFINE r == m.req_q[1]
<1>1. \A side \in Side : IdsDiffer(orders(m, side))
  BY DEF InOrder
<1>2. ASSUME IsOrder(r), NEW x \in orders(m, r.side) PROVE x.id # r.id
  <2>1. 1 \in DOMAIN m.req_q /\ r.side \in Side
    BY <1>2, RequestFields DEF AccountsOK, Accounts, IsOrder
  <2>2. Age(r.side, x) < Age(r.side, r)
    BY <1>2, <2>1 DEF InOrder, AgesInOrder
  <2>3. Age(r.side, r) \in Int
    BY <1>2, RequestFields, AgeType DEF IsOrder
  <2>4. x.id = r.id => Age(r.side, x) = Age(r.side, r)
    BY DEF Age
  <2> QED BY <2>2, <2>3, <2>4
<1> QED BY <1>1, <1>2 DEF Ready

-----------------------------------------------------------------------------
(* What is conserved: locked funds, places of an order, money on the move  *)

\* What an event unlocks of the funds that t has locked on a side.
Held(t, side) ==
  [e \in Event |-> IF e.owner = t /\ e.side = side THEN Unlocks(e) ELSE 0]

\* The events that will free a slot.
Frees(t, s) ==
  [e \in Event |-> IF FinalOut(e) /\ e.owner = t /\ e.owner_slot = s THEN 1 ELSE 0]

\* What an event will do to the totals of its account, and to what the account
\* owes its referrer.
PcMoved ==
  [e \in Event |-> IF IsFill(e)
                   THEN IF e.side = "Bid" THEN -e.native_qty_paid
                                          ELSE e.native_qty_released
                   ELSE 0]

CoinMoved ==
  [e \in Event |-> IF IsFill(e)
                   THEN IF e.side = "Bid" THEN e.native_qty_released
                                          ELSE -e.native_qty_paid
                   ELSE 0]

Referred ==
  [e \in Event |-> IF IsFill(e) /\ ~e.maker THEN referrer_rebate(e.native_fee_or_rebate)
                                            ELSE 0]

\* The totals of the market, and nothing of it.
Nothing == [mkt \in MarketRec |-> 0]
PcOwed == [mkt \in MarketRec |-> -mkt.pc_deposits_total]
CoinOwed == [mkt \in MarketRec |-> -mkt.coin_deposits_total]
ReferrersOwed == [mkt \in MarketRec |-> -mkt.referrer_rebates_accrued]

LEMMA MarketFields ==
  ASSUME NEW mkt \in MarketRec
  PROVE  /\ mkt.coin_deposits_total \in Int /\ mkt.pc_deposits_total \in Int
         /\ mkt.pc_fees_accrued \in Int /\ mkt.referrer_rebates_accrued \in Int
         /\ mkt.disabled \in BOOLEAN
BY DEF MarketRec

LEMMA MarketWeighs ==
  Weighs(Nothing, MarketRec) /\ Weighs(PcOwed, MarketRec) /\ Weighs(CoinOwed, MarketRec)
  /\ Weighs(ReferrersOwed, MarketRec)
BY MarketFields DEF Weighs, Nothing, PcOwed, CoinOwed, ReferrersOwed

\* The fields of the events.
LEMMA EventParts ==
  ASSUME NEW e \in Event
  PROVE  /\ e.native_qty_released \in Int /\ e.native_qty_paid \in Int
         /\ e.native_fee_or_rebate \in Int /\ e.owner \in Traders
         /\ e.owner_slot \in Slots /\ e.side \in Side /\ e.maker \in BOOLEAN
         /\ e.kind \in {"Fill", "Out"} /\ e.id \in OrderId /\ e.client_id \in Nat
         /\ Unlocks(e) \in Int
<1>1. /\ e.native_qty_released \in Int /\ e.native_qty_paid \in Int
      /\ e.native_fee_or_rebate \in Int /\ e.owner \in Traders
      /\ e.owner_slot \in Slots /\ e.side \in Side /\ e.maker \in BOOLEAN
      /\ e.kind \in {"Fill", "Out"} /\ e.id \in OrderId /\ e.client_id \in Nat
  BY DEF Event
<1>2. Unlocks(e) \in Int
  BY <1>1 DEF Unlocks
<1> QED BY <1>1, <1>2

LEMMA EventWeighs ==
  /\ \A t, side : Weighs(Held(t, side), Event)
  /\ \A t, s : Weighs(Frees(t, s), Event)
  /\ Weighs(PcMoved, Event) /\ Weighs(CoinMoved, Event) /\ Weighs(Referred, Event)
<1>1. \A e \in Event : /\ Unlocks(e) \in Int /\ e.native_qty_released \in Int
                       /\ e.native_qty_paid \in Int
                       /\ e.native_fee_or_rebate \in Int
  BY EventParts
<1>2. \A q \in Int : referrer_rebate(q) \in Int
  BY DEF referrer_rebate
<1>3. \A t, side : Weighs(Held(t, side), Event)
  BY <1>1 DEF Weighs, Held
<1>4. \A t, s : Weighs(Frees(t, s), Event)
  BY DEF Weighs, Frees
<1>5. Weighs(PcMoved, Event)
  BY <1>1 DEF Weighs, PcMoved
<1>6. Weighs(CoinMoved, Event)
  BY <1>1 DEF Weighs, CoinMoved
<1>7. Weighs(Referred, Event)
  BY <1>1, <1>2 DEF Weighs, Referred
<1> QED BY <1>3, <1>4, <1>5, <1>6, <1>7

LEMMA OutFields ==
  ASSUME NEW side, NEW o, NEW a, NEW b, NEW e, e = OutEvent(side, o, a, b)
  PROVE  /\ e.kind = "Out" /\ e.side = side /\ e.maker = FALSE
         /\ e.native_qty_released = a /\ e.native_qty_paid = b
         /\ e.native_fee_or_rebate = 0 /\ e.id = o.id /\ e.owner = o.owner
         /\ e.owner_slot = o.owner_slot /\ e.client_id = o.client_id
BY DEF OutEvent

LEMMA UnlocksOf ==
  ASSUME NEW e \in Event
  PROVE  /\ e.kind = "Out" => Unlocks(e) = e.native_qty_released
         /\ IsFill(e) /\ e.side = "Bid" /\ e.maker
              => Unlocks(e) = e.native_qty_paid + e.native_fee_or_rebate
         /\ IsFill(e) /\ (e.side # "Bid" \/ ~e.maker)
              => Unlocks(e) = e.native_qty_paid
<1>1. e.maker \in BOOLEAN /\ (e.kind = "Out" \/ e.kind = "Fill")
  BY EventParts
<1>2. CASE e.kind = "Out"
  <2>1. ~IsFill(e)
    BY <1>2 DEF IsFill
  <2>2. Unlocks(e) = e.native_qty_released
    BY <1>2, <2>1, Zenon DEF Unlocks
  <2> QED BY <2>1, <2>2
<1>3. CASE e.kind # "Out" /\ e.side = "Bid" /\ e.maker
  <2>1. IsFill(e)
    BY <1>1, <1>3 DEF IsFill
  <2>2. Unlocks(e) = e.native_qty_paid + e.native_fee_or_rebate
    BY <1>3, <2>1, Zenon DEF Unlocks
  <2> QED BY <1>3, <2>2
<1>4. CASE e.kind # "Out" /\ ~(e.side = "Bid" /\ e.maker)
  <2>1. Unlocks(e) = e.native_qty_paid
    BY <1>4, Zenon DEF Unlocks
  <2> QED BY <1>4, <2>1
<1> QED BY <1>2, <1>3, <1>4

\* What the functions give for an Out.
LEMMA OutsWeigh ==
  ASSUME NEW side \in Side, NEW o \in Leaf \cup NewOrderRequest, NEW a \in Int,
         NEW b \in Int, NEW e, e = OutEvent(side, o, a, b)
  PROVE  /\ e \in Event
         /\ \A t, s : Held(t, s)[e] = IF o.owner = t /\ side = s THEN a ELSE 0
         /\ \A t, s : Frees(t, s)[e]
              = IF b = 0 /\ o.owner = t /\ o.owner_slot = s THEN 1 ELSE 0
         /\ PcMoved[e] = 0 /\ CoinMoved[e] = 0 /\ Referred[e] = 0
<1>1. Identified(o)
  BY LeafFields, OrderFields
<1>2. e \in Event
  BY <1>1, OutEventType
<1>3. /\ e.kind = "Out" /\ e.side = side /\ e.native_qty_released = a
      /\ e.native_qty_paid = b /\ e.owner = o.owner /\ e.owner_slot = o.owner_slot
  BY DEF OutEvent
<1>4. Unlocks(e) = a /\ ~IsFill(e) /\ (FinalOut(e) <=> b = 0)
  <2>1. Unlocks(e) = a
    BY <1>2, <1>3, UnlocksOf
  <2>2. ~IsFill(e)
    BY <1>3 DEF IsFill
  <2>3. FinalOut(e) <=> b = 0
    BY <1>3 DEF FinalOut
  <2> QED BY <2>1, <2>2, <2>3
<1>5. \A t, s : Held(t, s)[e] = IF o.owner = t /\ side = s THEN a ELSE 0
  BY <1>2, <1>3, <1>4 DEF Held
<1>6. \A t, s : Frees(t, s)[e]
        = IF b = 0 /\ o.owner = t /\ o.owner_slot = s THEN 1 ELSE 0
  BY <1>2, <1>3, <1>4 DEF Frees
<1>7. PcMoved[e] = 0 /\ CoinMoved[e] = 0 /\ Referred[e] = 0
  BY <1>2, <1>4 DEF PcMoved, CoinMoved, Referred
<1> QED BY <1>2, <1>5, <1>6, <1>7

LEMMA OutsAddUpAll ==
  /\ \A t, s : OutsAddUp(Held(t, s)) /\ OutsAddUp(Frees(t, s))
  /\ OutsAddUp(PcMoved) /\ OutsAddUp(CoinMoved) /\ OutsAddUp(Referred)
<1> DEFINE IsOne(v) == \/ \E t, s : v = Held(t, s) \/ v = Frees(t, s)
                       \/ v \in {PcMoved, CoinMoved, Referred}
<1>1. ASSUME NEW side \in Side, NEW o \in Leaf \cup NewOrderRequest, NEW a \in Int,
             NEW b \in Int, NEW still \in Positive, NEW v, IsOne(v)
      PROVE  v[OutEvent(side, o, a + b, 0)]
               = v[OutEvent(side, o, a, 0)] + v[OutEvent(side, o, b, still)]
  <2> DEFINE c == a + b
             x == OutEvent(side, o, c, 0)
             y == OutEvent(side, o, a, 0)
             z == OutEvent(side, o, b, still)
  <2>1. c \in Int /\ 0 \in Int /\ still \in Int /\ still # 0 /\ c = a + b
    BY DEF Positive
  <2> HIDE DEF c
  <2>2. x = OutEvent(side, o, c, 0) /\ y = OutEvent(side, o, a, 0)
        /\ z = OutEvent(side, o, b, still)
    OBVIOUS
  <2> HIDE DEF x, y, z
  <2>3. /\ \A t, s : Held(t, s)[x] = IF o.owner = t /\ side = s THEN c ELSE 0
        /\ \A t, s : Frees(t, s)[x] = IF o.owner = t /\ o.owner_slot = s THEN 1 ELSE 0
        /\ PcMoved[x] = 0 /\ CoinMoved[x] = 0 /\ Referred[x] = 0
    BY <2>1, <2>2, OutsWeigh
  <2>4. /\ \A t, s : Held(t, s)[y] = IF o.owner = t /\ side = s THEN a ELSE 0
        /\ \A t, s : Frees(t, s)[y] = IF o.owner = t /\ o.owner_slot = s THEN 1 ELSE 0
        /\ PcMoved[y] = 0 /\ CoinMoved[y] = 0 /\ Referred[y] = 0
    BY <2>1, <2>2, OutsWeigh
  <2>5. /\ \A t, s : Held(t, s)[z] = IF o.owner = t /\ side = s THEN b ELSE 0
        /\ \A t, s : Frees(t, s)[z] = 0
        /\ PcMoved[z] = 0 /\ CoinMoved[z] = 0 /\ Referred[z] = 0
    BY <2>1, <2>2, OutsWeigh
  <2>6. v[x] = v[y] + v[z]
    BY <1>1, <2>1, <2>3, <2>4, <2>5
  <2> QED BY <2>6 DEF x, y, z, c
<1>2. \A v : IsOne(v) => OutsAddUp(v)
  <2> HIDE DEF IsOne
  <2>1. ASSUME NEW v, IsOne(v)
        PROVE  \A side \in Side, o \in Leaf \cup NewOrderRequest, a, b \in Int,
                  still \in Positive :
                 v[OutEvent(side, o, a + b, 0)]
                   = v[OutEvent(side, o, a, 0)] + v[OutEvent(side, o, b, still)]
    BY <1>1, <2>1
  <2> QED BY <2>1 DEF OutsAddUp
<1> QED BY <1>2

\* What the two fills of a trade say.
FillsSay(r, x, e, f, pc, fee, rebate, lots) ==
  /\ e \in Event /\ e.kind = "Fill" /\ e.side = Opposite(r.side) /\ e.maker = TRUE
  /\ e.owner = x.owner /\ e.native_fee_or_rebate = rebate
  /\ r.side = "Ask" => e.native_qty_released = lots /\ e.native_qty_paid = pc - rebate
  /\ r.side = "Bid" => e.native_qty_released = pc + rebate /\ e.native_qty_paid = lots
  /\ f \in Event /\ f.kind = "Fill" /\ f.side = r.side /\ f.maker = FALSE
  /\ f.owner = r.owner /\ f.native_fee_or_rebate = fee
  /\ r.side = "Bid" => f.native_qty_released = lots /\ f.native_qty_paid = pc + fee
  /\ r.side = "Ask" => f.native_qty_released = pc - fee /\ f.native_qty_paid = lots
  /\ pc \in Int /\ fee \in Int /\ rebate \in Int /\ lots \in Int
  /\ r.side \in Side

LEMMA FillAmounts ==
  ASSUME NEW r \in NewOrderRequest, NEW x \in Leaf, NEW quantity \in Int
  PROVE  FillsSay(r, x, MakerFill(r, x, quantity), TakerFill(r, x, quantity),
                  TradedPc(x, quantity), TradeFee(r, x, quantity),
                  TradeRebate(x, quantity), quantity * CoinLot)
<1> DEFINE e == MakerFill(r, x, quantity)
           f == TakerFill(r, x, quantity)
           pc == TradedPc(x, quantity)
           fee == TradeFee(r, x, quantity)
           rebate == TradeRebate(x, quantity)
           lots == quantity * CoinLot
<1>1. e \in Event /\ f \in Event
  BY FillsShape
<1>2. /\ pc \in Int /\ fee \in Int /\ rebate \in Int /\ lots \in Int /\ r.side \in Side
  <2>1. CoinLot \in Int
    BY MatchingAssumption
  <2> QED BY <2>1, TradeTypes, OrderFields
<1>3. /\ e.kind = "Fill" /\ e.side = Opposite(r.side) /\ e.maker = TRUE
      /\ e.owner = x.owner /\ e.native_fee_or_rebate = rebate
  BY DEF MakerFill, FillEvent
<1>4. /\ f.kind = "Fill" /\ f.side = r.side /\ f.maker = FALSE
      /\ f.owner = r.owner /\ f.native_fee_or_rebate = fee
  BY DEF TakerFill, FillEvent
<1>5. /\ r.side = "Ask" => e.native_qty_released = lots /\ e.native_qty_paid = pc - rebate
      /\ r.side = "Bid" => e.native_qty_released = pc + rebate /\ e.native_qty_paid = lots
  BY DEF MakerFill, FillEvent, Opposite
<1>6. /\ r.side = "Bid" => f.native_qty_released = lots /\ f.native_qty_paid = pc + fee
      /\ r.side = "Ask" => f.native_qty_released = pc - fee /\ f.native_qty_paid = lots
  BY DEF TakerFill, FillEvent
<1> HIDE DEF e, f, pc, fee, rebate, lots
<1>7. FillsSay(r, x, e, f, pc, fee, rebate, lots)
  BY <1>1, <1>2, <1>3, <1>4, <1>5, <1>6 DEF FillsSay
<1> QED BY <1>7 DEF e, f, pc, fee, rebate, lots

\* What the functions give for the fills.
FillsCount(r, x, quantity, e, f) ==
  /\ \A t, s : Held(t, s)[e]
       = IF x.owner = t /\ Opposite(r.side) = s
         THEN NativeLocked(Opposite(r.side), quantity, x.id.price) ELSE 0
  /\ \A t, s : Held(t, s)[f]
       = IF r.owner = t /\ r.side = s THEN Cost(r, x, quantity) ELSE 0
  /\ \A t, s : Frees(t, s)[e] = 0 /\ Frees(t, s)[f] = 0
  /\ PcMoved[e] + PcMoved[f] = TradeRebate(x, quantity) - TradeFee(r, x, quantity)
  /\ CoinMoved[e] + CoinMoved[f] = 0
  /\ Referred[e] = 0 /\ Referred[f] = referrer_rebate(TradeFee(r, x, quantity))

LEMMA FillsWeights ==
  ASSUME NEW r \in NewOrderRequest, NEW x \in Leaf, NEW quantity \in Int
  PROVE  FillsCount(r, x, quantity, MakerFill(r, x, quantity), TakerFill(r, x, quantity))
<1> DEFINE e == MakerFill(r, x, quantity)
           f == TakerFill(r, x, quantity)
           pc == TradedPc(x, quantity)
           fee == TradeFee(r, x, quantity)
           rebate == TradeRebate(x, quantity)
           lots == quantity * CoinLot
           worth == NativeLocked(Opposite(r.side), quantity, x.id.price)
           cost == Cost(r, x, quantity)
<1>1. /\ e \in Event /\ e.kind = "Fill" /\ e.side = Opposite(r.side) /\ e.maker = TRUE
      /\ e.owner = x.owner /\ e.native_fee_or_rebate = rebate
      /\ r.side = "Ask" => e.native_qty_released = lots /\ e.native_qty_paid = pc - rebate
      /\ r.side = "Bid" => e.native_qty_released = pc + rebate /\ e.native_qty_paid = lots
      /\ f \in Event /\ f.kind = "Fill" /\ f.side = r.side /\ f.maker = FALSE
      /\ f.owner = r.owner /\ f.native_fee_or_rebate = fee
      /\ r.side = "Bid" => f.native_qty_released = lots /\ f.native_qty_paid = pc + fee
      /\ r.side = "Ask" => f.native_qty_released = pc - fee /\ f.native_qty_paid = lots
      /\ pc \in Int /\ fee \in Int /\ rebate \in Int /\ lots \in Int
      /\ r.side \in Side
  <2>1. FillsSay(r, x, e, f, pc, fee, rebate, lots)
    BY FillAmounts
  <2> HIDE DEF e, f, pc, fee, rebate, lots
  <2> QED BY <2>1 DEF FillsSay
<1>2. /\ r.side = "Ask" => worth = pc /\ Opposite(r.side) = "Bid" /\ cost = lots
      /\ r.side = "Bid" => worth = lots /\ Opposite(r.side) = "Ask" /\ cost = pc + fee
  BY DEF NativeLocked, Opposite, Cost, TradedPc
<1> HIDE DEF e, f, pc, fee, rebate, lots, worth, cost
<1>3. IsFill(e) /\ IsFill(f) /\ ~FinalOut(e) /\ ~FinalOut(f)
  BY <1>1 DEF IsFill, FinalOut
<1>4. Unlocks(e) = worth
  <2>1. CASE r.side = "Ask"
    <3>1. Unlocks(e) = e.native_qty_paid + e.native_fee_or_rebate
      BY <1>1, <1>2, <1>3, <2>1, UnlocksOf
    <3> QED BY <1>1, <1>2, <2>1, <3>1
  <2>2. CASE r.side = "Bid"
    <3>1. Unlocks(e) = e.native_qty_paid
      BY <1>1, <1>2, <1>3, <2>2, UnlocksOf
    <3> QED BY <1>1, <1>2, <2>2, <3>1
  <2> QED BY <1>1, <2>1, <2>2 DEF Side
<1>5. Unlocks(f) = cost
  <2>1. Unlocks(f) = f.native_qty_paid
    BY <1>1, <1>3, UnlocksOf
  <2> QED BY <1>1, <1>2, <2>1 DEF Side
<1>6. \A t, s : Held(t, s)[e] = IF x.owner = t /\ Opposite(r.side) = s THEN worth ELSE 0
  BY <1>1, <1>4 DEF Held
<1>7. \A t, s : Held(t, s)[f] = IF r.owner = t /\ r.side = s THEN cost ELSE 0
  BY <1>1, <1>5 DEF Held
<1>8. \A t, s : Frees(t, s)[e] = 0 /\ Frees(t, s)[f] = 0
  BY <1>1, <1>3 DEF Frees
<1>9. PcMoved[e] + PcMoved[f] = rebate - fee
  <2>1. CASE r.side = "Ask"
    <3>1. PcMoved[e] = -(pc - rebate) /\ PcMoved[f] = pc - fee
      BY <1>1, <1>2, <1>3, <2>1 DEF PcMoved
    <3> QED BY <1>1, <3>1
  <2>2. CASE r.side = "Bid"
    <3>1. PcMoved[e] = pc + rebate /\ PcMoved[f] = -(pc + fee)
      BY <1>1, <1>2, <1>3, <2>2 DEF PcMoved
    <3> QED BY <1>1, <3>1
  <2> QED BY <1>1, <2>1, <2>2 DEF Side
<1>10. CoinMoved[e] + CoinMoved[f] = 0
  <2>1. CASE r.side = "Ask"
    <3>1. CoinMoved[e] = lots /\ CoinMoved[f] = -lots
      BY <1>1, <1>2, <1>3, <2>1 DEF CoinMoved
    <3> QED BY <1>1, <3>1
  <2>2. CASE r.side = "Bid"
    <3>1. CoinMoved[e] = -lots /\ CoinMoved[f] = lots
      BY <1>1, <1>2, <1>3, <2>2 DEF CoinMoved
    <3> QED BY <1>1, <3>1
  <2> QED BY <1>1, <2>1, <2>2 DEF Side
<1>11. Referred[e] = 0 /\ Referred[f] = referrer_rebate(fee)
  BY <1>1, <1>3 DEF Referred
<1> QED BY <1>6, <1>7, <1>8, <1>9, <1>10, <1>11
     DEF FillsCount, e, f, fee, rebate, worth, cost

\* What the market owes changes by the fee of a trade.
LEMMA AccruedOwes ==
  ASSUME NEW mkt \in MarketRec, NEW fee \in Int, NEW rebate \in Int
  PROVE  LET new == Accrued(mkt, fee, rebate)
         IN  /\ new \in MarketRec
             /\ Nothing[new] = 0 /\ Nothing[mkt] = 0
             /\ PcOwed[new] = PcOwed[mkt] + (fee - rebate)
             /\ CoinOwed[new] = CoinOwed[mkt]
             /\ ReferrersOwed[new] = ReferrersOwed[mkt] - referrer_rebate(fee)
             /\ PcOwed[mkt] \in Int /\ CoinOwed[mkt] \in Int /\ ReferrersOwed[mkt] \in Int
<1> DEFINE new == Accrued(mkt, fee, rebate)
<1>1. new \in MarketRec
  BY AccruedBooks
<1>2. /\ new.pc_deposits_total = mkt.pc_deposits_total - (fee - rebate)
      /\ new.coin_deposits_total = mkt.coin_deposits_total
      /\ new.referrer_rebates_accrued = mkt.referrer_rebates_accrued + referrer_rebate(fee)
  BY DEF Accrued, MarketRec
<1>3. referrer_rebate(fee) \in Int
  BY DEF referrer_rebate
<1> HIDE DEF new
<1>4. /\ PcOwed[new] = -new.pc_deposits_total /\ PcOwed[mkt] = -mkt.pc_deposits_total
      /\ CoinOwed[new] = -new.coin_deposits_total
      /\ CoinOwed[mkt] = -mkt.coin_deposits_total
      /\ ReferrersOwed[new] = -new.referrer_rebates_accrued
      /\ ReferrersOwed[mkt] = -mkt.referrer_rebates_accrued
      /\ Nothing[new] = 0 /\ Nothing[mkt] = 0
  BY <1>1 DEF PcOwed, CoinOwed, ReferrersOwed, Nothing
<1>5. /\ mkt.pc_deposits_total \in Int /\ mkt.coin_deposits_total \in Int
      /\ mkt.referrer_rebates_accrued \in Int
  BY MarketFields
<1>6. /\ PcOwed[new] = PcOwed[mkt] + (fee - rebate)
      /\ PcOwed[mkt] \in Int
  BY <1>2, <1>4, <1>5
<1>7. CoinOwed[new] = CoinOwed[mkt] /\ CoinOwed[mkt] \in Int
  BY <1>2, <1>4, <1>5
<1>8. /\ ReferrersOwed[new] = ReferrersOwed[mkt] - referrer_rebate(fee)
      /\ ReferrersOwed[mkt] \in Int
  BY <1>2, <1>3, <1>4, <1>5
<1> QED BY <1>1, <1>4, <1>6, <1>7, <1>8 DEF new

\* What the market owes after a trade.
Owes(mkt, new, fee, rebate) ==
  /\ new \in MarketRec
  /\ Nothing[new] = 0 /\ Nothing[mkt] = 0
  /\ PcOwed[new] = PcOwed[mkt] + (fee - rebate)
  /\ CoinOwed[new] = CoinOwed[mkt]
  /\ ReferrersOwed[new] = ReferrersOwed[mkt] - referrer_rebate(fee)
  /\ PcOwed[mkt] \in Int /\ CoinOwed[mkt] \in Int /\ ReferrersOwed[mkt] \in Int

LEMMA AccruedOwesAll ==
  ASSUME NEW mkt \in MarketRec, NEW fee \in Int, NEW rebate \in Int
  PROVE  Owes(mkt, Accrued(mkt, fee, rebate), fee, rebate)
BY AccruedOwes DEF Owes

LEMMA TradesBalanceAll ==
  /\ \A t, s : TradesBalance(Nothing, Held(t, s)) /\ TradesBalance(Nothing, Frees(t, s))
  /\ TradesBalance(PcOwed, PcMoved) /\ TradesBalance(CoinOwed, CoinMoved)
  /\ TradesBalance(ReferrersOwed, Referred)
<1> DEFINE IsPair(u, v) ==
      \/ u = Nothing /\ \E t, s : v = Held(t, s) \/ v = Frees(t, s)
      \/ u = PcOwed /\ v = PcMoved
      \/ u = CoinOwed /\ v = CoinMoved
      \/ u = ReferrersOwed /\ v = Referred
<1>1. ASSUME NEW mkt \in MarketRec, NEW r \in NewOrderRequest, NEW x \in Leaf,
             NEW quantity \in Positive, NEW a \in Int, NEW b \in Int,
             x.owner # r.owner, NEW u, NEW v, IsPair(u, v)
      PROVE  Balanced(u, v, mkt, r, x, quantity, a, b)
  <2> DEFINE fee == TradeFee(r, x, quantity)
             rebate == TradeRebate(x, quantity)
             new == Accrued(mkt, fee, rebate)
             e == MakerFill(r, x, quantity)
             f == TakerFill(r, x, quantity)
             opp == Opposite(r.side)
             worth == NativeLocked(opp, quantity, x.id.price)
             cost == Cost(r, x, quantity)
             ak == a + worth
             bk == b + cost
             oa == OutEvent(opp, x, a, 0)
             ok == OutEvent(opp, x, ak, 0)
             pb == OutEvent(r.side, r, b, 0)
             pk == OutEvent(r.side, r, bk, 0)
             share == referrer_rebate(fee)
  <2>1. /\ quantity \in Int /\ fee \in Int /\ rebate \in Int /\ cost \in Int /\ 0 \in Int
        /\ opp \in Side /\ r.side \in Side /\ opp # r.side
    <3>1. quantity \in Int /\ 0 \in Int
      BY DEF Positive
    <3>2. fee \in Int /\ rebate \in Int
      BY <3>1, FillAmounts DEF FillsSay
    <3>3. cost \in Int
      BY <3>1, CostType
    <3>4. r.side \in Side
      BY RequestFields
    <3>5. opp \in Side /\ opp # r.side
      BY <3>4 DEF Opposite, Side
    <3> HIDE DEF fee, rebate, cost, opp
    <3> QED BY <3>1, <3>2, <3>3, <3>4, <3>5
  <2>2. worth \in Int /\ share \in Int
    <3>1. x.id.price \in Positive
      BY LeafFields
    <3>2. share \in Int
      BY <2>1 DEF referrer_rebate
    <3> HIDE DEF opp
    <3> QED BY <2>1, <3>1, <3>2, NativeType
  <2>3. FillsCount(r, x, quantity, e, f)
    BY <2>1, FillsWeights
  <2>4. /\ Nothing[new] = 0 /\ Nothing[mkt] = 0
        /\ PcOwed[new] = PcOwed[mkt] + (fee - rebate)
        /\ CoinOwed[new] = CoinOwed[mkt]
        /\ ReferrersOwed[new] = ReferrersOwed[mkt] - share
        /\ PcOwed[mkt] \in Int /\ CoinOwed[mkt] \in Int /\ ReferrersOwed[mkt] \in Int
    <3>1. fee \in Int /\ rebate \in Int
      BY <2>1
    <3> HIDE DEF fee, rebate
    <3>2. Owes(mkt, new, fee, rebate)
      BY <3>1, AccruedOwesAll
    <3> HIDE DEF new
    <3> QED BY <3>2 DEF Owes, share
  <2>5. e \in Event /\ f \in Event
    BY <2>1, FillsShape
  <2>6. /\ PcMoved[e] \in Int /\ PcMoved[f] \in Int /\ CoinMoved[e] \in Int
        /\ CoinMoved[f] \in Int
    <3> HIDE DEF e, f
    <3> QED BY <2>5, EventWeighs DEF Weighs
  <2>7. /\ ak \in Int /\ bk \in Int /\ ak = a + worth /\ bk = b + cost
    BY <2>1, <2>2
  <2>8. /\ oa = OutEvent(opp, x, a, 0) /\ ok = OutEvent(opp, x, ak, 0)
        /\ pb = OutEvent(r.side, r, b, 0) /\ pk = OutEvent(r.side, r, bk, 0)
    OBVIOUS
  <2>9. /\ \A t, s : Held(t, s)[e] = IF x.owner = t /\ opp = s THEN worth ELSE 0
        /\ \A t, s : Held(t, s)[f] = IF r.owner = t /\ r.side = s THEN cost ELSE 0
        /\ \A t, s : Frees(t, s)[e] = 0 /\ Frees(t, s)[f] = 0
        /\ PcMoved[e] + PcMoved[f] = rebate - fee
        /\ CoinMoved[e] + CoinMoved[f] = 0
        /\ Referred[e] = 0 /\ Referred[f] = share
    BY <2>3 DEF FillsCount
  <2>10. x \in Leaf \cup NewOrderRequest /\ r \in Leaf \cup NewOrderRequest
    OBVIOUS
  <2> HIDE DEF fee, rebate, e, f, opp, worth, cost, ak, bk, oa, ok, pb, pk, new, share
  <2>11. /\ \A t, s : Held(t, s)[oa] = IF x.owner = t /\ opp = s THEN a ELSE 0
         /\ \A t, s : Frees(t, s)[oa] = IF x.owner = t /\ x.owner_slot = s THEN 1 ELSE 0
         /\ PcMoved[oa] = 0 /\ CoinMoved[oa] = 0 /\ Referred[oa] = 0
    BY <2>1, <2>8, <2>10, OutsWeigh
  <2>12. /\ \A t, s : Held(t, s)[ok] = IF x.owner = t /\ opp = s THEN ak ELSE 0
         /\ \A t, s : Frees(t, s)[ok] = IF x.owner = t /\ x.owner_slot = s THEN 1 ELSE 0
         /\ PcMoved[ok] = 0 /\ CoinMoved[ok] = 0 /\ Referred[ok] = 0
    BY <2>1, <2>7, <2>8, <2>10, OutsWeigh
  <2>13. /\ \A t, s : Held(t, s)[pb] = IF r.owner = t /\ r.side = s THEN b ELSE 0
         /\ \A t, s : Frees(t, s)[pb] = IF r.owner = t /\ r.owner_slot = s THEN 1 ELSE 0
         /\ PcMoved[pb] = 0 /\ CoinMoved[pb] = 0 /\ Referred[pb] = 0
    BY <2>1, <2>8, <2>10, OutsWeigh
  <2>14. /\ \A t, s : Held(t, s)[pk] = IF r.owner = t /\ r.side = s THEN bk ELSE 0
         /\ \A t, s : Frees(t, s)[pk] = IF r.owner = t /\ r.owner_slot = s THEN 1 ELSE 0
         /\ PcMoved[pk] = 0 /\ CoinMoved[pk] = 0 /\ Referred[pk] = 0
    BY <2>1, <2>7, <2>8, <2>10, OutsWeigh
  <2>15. u[new] + v[e] + v[f] + v[oa] + v[pb] = u[mkt] + v[ok] + v[pk]
    <3>1. CASE u = Nothing /\ \E t, s : v = Held(t, s)
      <4>1. PICK t, s : v = Held(t, s)
        BY <3>1
      <4>2. /\ v[e] = (IF x.owner = t /\ opp = s THEN worth ELSE 0)
            /\ v[oa] = (IF x.owner = t /\ opp = s THEN a ELSE 0)
            /\ v[ok] = (IF x.owner = t /\ opp = s THEN a + worth ELSE 0)
            /\ v[f] = (IF r.owner = t /\ r.side = s THEN cost ELSE 0)
            /\ v[pb] = (IF r.owner = t /\ r.side = s THEN b ELSE 0)
            /\ v[pk] = (IF r.owner = t /\ r.side = s THEN b + cost ELSE 0)
            /\ u[new] = 0 /\ u[mkt] = 0
        BY <2>4, <2>7, <2>9, <2>11, <2>12, <2>13, <2>14, <3>1, <4>1
      <4>3. v[e] + v[oa] = v[ok] /\ v[e] \in Int /\ v[oa] \in Int
        BY <2>2, <4>2
      <4>4. v[f] + v[pb] = v[pk] /\ v[f] \in Int /\ v[pb] \in Int
        BY <2>1, <4>2
      <4> QED BY <4>2, <4>3, <4>4
    <3>2. CASE u = Nothing /\ \E t, s : v = Frees(t, s)
      <4>1. PICK t, s : v = Frees(t, s)
        BY <3>2
      <4>2. /\ v[e] = 0 /\ v[f] = 0 /\ u[new] = 0 /\ u[mkt] = 0
            /\ v[oa] = v[ok] /\ v[pb] = v[pk] /\ v[oa] \in Int /\ v[pb] \in Int
        BY <2>4, <2>9, <2>11, <2>12, <2>13, <2>14, <3>2, <4>1
      <4> QED BY <4>2
    <3>3. CASE u = PcOwed /\ v = PcMoved
      <4>1. /\ u[new] = u[mkt] + (fee - rebate) /\ v[e] + v[f] = rebate - fee
            /\ v[oa] = 0 /\ v[pb] = 0 /\ v[ok] = 0 /\ v[pk] = 0
            /\ u[mkt] \in Int /\ v[e] \in Int /\ v[f] \in Int
        BY <2>4, <2>6, <2>9, <2>11, <2>12, <2>13, <2>14, <3>3
      <4> DEFINE un == u[new]
                 um == u[mkt]
                 ve == v[e]
                 vf == v[f]
      <4>2. un = um + (fee - rebate) /\ ve + vf = rebate - fee /\ um \in Int
            /\ ve \in Int /\ vf \in Int
        BY <4>1
      <4> HIDE DEF un, um, ve, vf
      <4>3. un + ve + vf + 0 + 0 = um + 0 + 0
        BY <2>1, <4>2
      <4> QED BY <4>1, <4>3 DEF un, um, ve, vf
    <3>4. CASE u = CoinOwed /\ v = CoinMoved
      BY <2>1, <2>4, <2>6, <2>9, <2>11, <2>12, <2>13, <2>14, <3>4
    <3>5. CASE u = ReferrersOwed /\ v = Referred
      BY <2>2, <2>4, <2>9, <2>11, <2>12, <2>13, <2>14, <3>5
    <3> QED BY <1>1, <3>1, <3>2, <3>3, <3>4, <3>5
  <2> QED BY <2>15 DEF Balanced, fee, rebate, e, f, opp, worth, cost, ak, bk, oa, ok, pb,
                       pk, new
<1>2. \A u, v : IsPair(u, v) => TradesBalance(u, v)
  <2> HIDE DEF IsPair
  <2>1. ASSUME NEW u, NEW v, IsPair(u, v)
        PROVE  \A mkt \in MarketRec, r \in NewOrderRequest, x \in Leaf,
                  quantity \in Positive, a \in Int, b \in Int :
                 x.owner # r.owner => Balanced(u, v, mkt, r, x, quantity, a, b)
    BY <1>1, <2>1
  <2> QED BY <2>1 DEF TradesBalance
<1> QED BY <1>2

\* Only fills move money between accounts.
LEMMA DrainedFills ==
  ASSUME NEW m, AccountsOK(m), NEW v, v \in {PcMoved, CoinMoved, Referred}
  PROVE  Drained(m, v) = Over(m.event_q, v) /\ Over(m.event_q, v) \in Int
<1>1. Weighs(v, Event)
  BY EventWeighs
<1>2. /\ m.req_q \in Seq(Request) /\ Over(m.event_q, v) \in Int
      /\ \A side \in Side : IsFiniteSet(orders(m, side)) /\ orders(m, side) \subseteq Leaf
  BY <1>1, DrainedType
<1>3. \A side \in Side, x \in Leaf : LeafWeight(v, side)[x] = 0
  <2> TAKE side \in Side, x \in Leaf
  <2>1. Worth(side, x) \in Int /\ 0 \in Int /\ x \in Leaf \cup NewOrderRequest
    BY WorthType
  <2> DEFINE e == BootEvent(side, x)
             a == Worth(side, x)
  <2>2. e = OutEvent(side, x, a, 0)
    BY DEF BootEvent
  <2> HIDE DEF e, a
  <2>3. PcMoved[e] = 0 /\ CoinMoved[e] = 0 /\ Referred[e] = 0
    BY <2>1, <2>2, OutsWeigh DEF a
  <2>4. LeafWeight(v, side)[x] = v[e]
    BY <1>1, WeightsType DEF e
  <2> QED BY <2>3, <2>4
<1>4. \A side \in Side : BookWeighs(m, v, side) = 0
  <2> TAKE side \in Side
  <2> DEFINE w == LeafWeight(v, side)
             s == orders(m, side)
  <2>1. IsFiniteSet(s) /\ \A x \in s : w[x] = 0
    BY <1>2, <1>3
  <2> HIDE DEF w, s
  <2>2. Total(s, w) = 0
    BY <2>1, TotalZero
  <2> QED BY <2>2 DEF w, s, BookWeighs
<1>5. \A r \in Request : RequestWeight(v)[r] = 0
  <2> TAKE r \in Request
  <2>1. CASE r \in CancelRequest
    BY <1>1, <2>1, WeightsType
  <2>2. CASE r \in NewOrderRequest
    <3> DEFINE e == OutEvent(r.side, r, HeldBy(r), 0)
               h == HeldBy(r)
    <3>1. h \in Int /\ 0 \in Int /\ r \in Leaf \cup NewOrderRequest /\ r.side \in Side
      BY <2>2, HeldType, RequestFields
    <3>2. e = OutEvent(r.side, r, h, 0)
      OBVIOUS
    <3>3. RequestWeight(v)[r] = v[e]
      BY <1>1, <2>2, WeightsType
    <3> DEFINE s == r.side
               o == r
    <3>9. s \in Side /\ o \in Leaf \cup NewOrderRequest /\ e = OutEvent(s, o, h, 0)
      BY <3>1, <3>2
    <3> HIDE DEF e, h, s, o
    <3>4. PcMoved[e] = 0 /\ CoinMoved[e] = 0 /\ Referred[e] = 0
      BY ONLY <3>1, <3>9, OutsWeigh
    <3> QED BY <3>3, <3>4
  <2> QED BY <2>1, <2>2 DEF Request
<1>6. RequestsWeigh(m, v) = 0
  <2> DEFINE w == RequestWeight(v)
             q == m.req_q
  <2>1. Weighs(w, Request) /\ \A r \in Request : w[r] = 0
    BY <1>1, <1>5, WeightsType
  <2>2. q \in Seq(Request)
    BY <1>2
  <2> HIDE DEF w, q
  <2>3. /\ IsFiniteSet(DOMAIN q)
        /\ \A k \in DOMAIN q : q[k] \in Request /\ [j \in DOMAIN q |-> w[q[j]]][k] = w[q[k]]
    BY <2>1, <2>2, OverDomain
  <2> DEFINE f == [j \in DOMAIN q |-> w[q[j]]]
             D == DOMAIN q
  <2>4. IsFiniteSet(D) /\ \A k \in D : f[k] = 0
    BY <2>1, <2>3
  <2> HIDE DEF f, D
  <2>5. Total(D, f) = 0
    BY <2>4, TotalZero
  <2> QED BY <2>5 DEF f, D, Over, RequestsWeigh, w, q
<1>7. "Bid" \in Side /\ "Ask" \in Side
  BY DEF Side
<1> QED BY <1>2, <1>4, <1>6, <1>7 DEF Drained

\* What a pass conserves of all these.
Same(m, n) ==
  /\ \A t, s : /\ Drained(n, Held(t, s)) = Drained(m, Held(t, s))
               /\ Drained(n, Frees(t, s)) = Drained(m, Frees(t, s))
  /\ PcOwed[n.market] + Over(n.event_q, PcMoved)
       = PcOwed[m.market] + Over(m.event_q, PcMoved)
  /\ CoinOwed[n.market] + Over(n.event_q, CoinMoved)
       = CoinOwed[m.market] + Over(m.event_q, CoinMoved)
  /\ ReferrersOwed[n.market] + Over(n.event_q, Referred)
       = ReferrersOwed[m.market] + Over(m.event_q, Referred)

LEMMA DrainedIsInt ==
  ASSUME NEW m, AccountsOK(m), NEW v, Weighs(v, Event)
  PROVE  Drained(m, v) \in Int
<1>1. "Bid" \in Side /\ "Ask" \in Side
  BY DEF Side
<1> QED BY <1>1, DrainedType DEF Drained

LEMMA PassIsSame ==
  ASSUME LotsHaveSize, NEW m, NEW n, NEW r, Ready(m, n, r), Pass(m, n, r)
  PROVE  Same(m, n)
<1>1. AccountsOK(m) /\ AccountsOK(n) /\ m.market \in MarketRec /\ n.market \in MarketRec
  BY DEF Ready, AccountsOK, Accounts
<1>2. ASSUME NEW v, Weighs(v, Event), OutsAddUp(v), TradesBalance(Nothing, v)
      PROVE  Drained(n, v) = Drained(m, v)
  <2>1. Conserves(m, n, Nothing, v)
    BY <1>2, MarketWeighs, PassConserves
  <2>2. Nothing[n.market] = 0 /\ Nothing[m.market] = 0
    BY <1>1 DEF Nothing
  <2>3. Drained(m, v) \in Int /\ Drained(n, v) \in Int
    BY <1>1, <1>2, DrainedIsInt
  <2> QED BY <2>1, <2>2, <2>3 DEF Conserves
<1>3. ASSUME NEW t, NEW s
      PROVE  /\ Drained(n, Held(t, s)) = Drained(m, Held(t, s))
             /\ Drained(n, Frees(t, s)) = Drained(m, Frees(t, s))
  <2> DEFINE v == Held(t, s)
             w == Frees(t, s)
  <2>1. Weighs(v, Event) /\ OutsAddUp(v) /\ TradesBalance(Nothing, v)
    BY EventWeighs, OutsAddUpAll, TradesBalanceAll
  <2>2. Weighs(w, Event) /\ OutsAddUp(w) /\ TradesBalance(Nothing, w)
    BY EventWeighs, OutsAddUpAll, TradesBalanceAll
  <2> HIDE DEF v, w
  <2>3. Drained(n, v) = Drained(m, v) /\ Drained(n, w) = Drained(m, w)
    BY <1>2, <2>1, <2>2
  <2> QED BY <2>3 DEF v, w
<1>4. ASSUME NEW u, NEW v, Weighs(u, MarketRec), TradesBalance(u, v),
             v \in {PcMoved, CoinMoved, Referred}
      PROVE  u[n.market] + Over(n.event_q, v) = u[m.market] + Over(m.event_q, v)
  <2>1. Weighs(v, Event) /\ OutsAddUp(v)
    BY <1>4, EventWeighs, OutsAddUpAll
  <2>2. Conserves(m, n, u, v)
    BY <1>4, <2>1, PassConserves
  <2>3. Drained(n, v) = Over(n.event_q, v)
    BY <1>1, <1>4, DrainedFills
  <2>4. Drained(m, v) = Over(m.event_q, v)
    BY <1>1, <1>4, DrainedFills
  <2> QED BY <2>2, <2>3, <2>4 DEF Conserves
<1>5. /\ Weighs(PcOwed, MarketRec) /\ TradesBalance(PcOwed, PcMoved)
      /\ Weighs(CoinOwed, MarketRec) /\ TradesBalance(CoinOwed, CoinMoved)
      /\ Weighs(ReferrersOwed, MarketRec) /\ TradesBalance(ReferrersOwed, Referred)
  BY MarketWeighs, TradesBalanceAll
<1>6. PcOwed[n.market] + Over(n.event_q, PcMoved)
        = PcOwed[m.market] + Over(m.event_q, PcMoved)
  BY <1>4, <1>5
<1>7. CoinOwed[n.market] + Over(n.event_q, CoinMoved)
        = CoinOwed[m.market] + Over(m.event_q, CoinMoved)
  BY <1>4, <1>5
<1>8. ReferrersOwed[n.market] + Over(n.event_q, Referred)
        = ReferrersOwed[m.market] + Over(m.event_q, Referred)
  BY <1>4, <1>5
<1> QED BY <1>3, <1>6, <1>7, <1>8 DEF Same

-----------------------------------------------------------------------------
(* Accounts and what is drained from the market                            *)

\* The funds of an account that are not free.
Locked(oo, side) ==
  IF side = "Bid" THEN oo.native_pc_total - oo.native_pc_free
                  ELSE oo.native_coin_total - oo.native_coin_free

Applied(oo, e) == IF e.kind = "Fill" THEN ApplyFill(oo, e) ELSE ApplyOut(oo, e)

\* What applying an event does to the account, in the terms of the weights.
Applies(oo, e, to) ==
  /\ to \in OpenOrdersRec
  /\ \A side \in Side :
       Locked(to, side) = Locked(oo, side) - (IF e.side = side THEN Unlocks(e) ELSE 0)
  /\ to.native_pc_total = oo.native_pc_total + PcMoved[e]
  /\ to.native_coin_total = oo.native_coin_total + CoinMoved[e]
  /\ to.referrer_rebates_accrued = oo.referrer_rebates_accrued + Referred[e]
  /\ to.orders = IF FinalOut(e) THEN [oo.orders EXCEPT ![e.owner_slot] = Free]
                                ELSE oo.orders
  /\ to.initialized = oo.initialized

LEMMA FillApplies ==
  ASSUME NEW oo \in OpenOrdersRec, NEW e \in Event, IsFill(e)
  PROVE  Applies(oo, e, ApplyFill(oo, e))
<1> DEFINE to == ApplyFill(oo, e)
           rebate == IF e.maker THEN 0 ELSE referrer_rebate(e.native_fee_or_rebate)
           back == IF e.maker THEN e.native_fee_or_rebate ELSE 0
<1>1. /\ oo.native_coin_free \in Int /\ oo.native_coin_total \in Int
      /\ oo.native_pc_free \in Int /\ oo.native_pc_total \in Int
      /\ oo.referrer_rebates_accrued \in Int
  BY AccountFields
<1>2. /\ e.native_qty_released \in Int /\ e.native_qty_paid \in Int
      /\ e.native_fee_or_rebate \in Int /\ e.maker \in BOOLEAN
      /\ (e.side = "Bid" \/ e.side = "Ask")
  BY EventParts DEF Side
<1>3. to \in OpenOrdersRec
  BY ApplyFillType
<1>4. rebate = Referred[e] /\ back \in Int
  BY <1>2 DEF Referred
<1>5. ~FinalOut(e)
  BY DEF IsFill, FinalOut
<1>6. CASE e.side = "Bid"
  <2>1. to = [oo EXCEPT
              !.native_pc_total = @ - e.native_qty_paid,
              !.native_coin_total = @ + e.native_qty_released,
              !.native_coin_free = @ + e.native_qty_released,
              !.native_pc_free = @ + back,
              !.referrer_rebates_accrued = @ + rebate]
    BY <1>6 DEF ApplyFill
  <2> HIDE DEF to, rebate, back
  <2>2. /\ to.native_pc_total = oo.native_pc_total - e.native_qty_paid
        /\ to.native_coin_total = oo.native_coin_total + e.native_qty_released
        /\ to.native_coin_free = oo.native_coin_free + e.native_qty_released
        /\ to.native_pc_free = oo.native_pc_free + back
        /\ to.referrer_rebates_accrued = oo.referrer_rebates_accrued + rebate
        /\ to.orders = oo.orders /\ to.initialized = oo.initialized
    BY <2>1 DEF OpenOrdersRec
  <2>3. PcMoved[e] = -e.native_qty_paid /\ CoinMoved[e] = e.native_qty_released
    BY <1>6 DEF PcMoved, CoinMoved
  <2>4. Unlocks(e) = e.native_qty_paid + back
    BY <1>2, <1>6, UnlocksOf DEF back
  <2>5. \A side \in Side :
          Locked(to, side) = Locked(oo, side) - (IF e.side = side THEN Unlocks(e) ELSE 0)
    BY <1>1, <1>2, <1>4, <1>6, <2>2, <2>4 DEF Locked, Side
  <2> QED BY <1>1, <1>2, <1>3, <1>4, <1>5, <2>2, <2>3, <2>5 DEF Applies, to
<1>7. CASE e.side = "Ask"
  <2>1. to = [oo EXCEPT
              !.native_coin_total = @ - e.native_qty_paid,
              !.native_pc_total = @ + e.native_qty_released,
              !.native_pc_free = @ + e.native_qty_released,
              !.referrer_rebates_accrued = @ + rebate]
    BY <1>7 DEF ApplyFill
  <2> HIDE DEF to, rebate, back
  <2>2. /\ to.native_coin_total = oo.native_coin_total - e.native_qty_paid
        /\ to.native_pc_total = oo.native_pc_total + e.native_qty_released
        /\ to.native_pc_free = oo.native_pc_free + e.native_qty_released
        /\ to.native_coin_free = oo.native_coin_free
        /\ to.referrer_rebates_accrued = oo.referrer_rebates_accrued + rebate
        /\ to.orders = oo.orders /\ to.initialized = oo.initialized
    BY <2>1 DEF OpenOrdersRec
  <2>3. PcMoved[e] = e.native_qty_released /\ CoinMoved[e] = -e.native_qty_paid
    BY <1>7 DEF PcMoved, CoinMoved
  <2>4. Unlocks(e) = e.native_qty_paid
    BY <1>7, UnlocksOf
  <2>5. \A side \in Side :
          Locked(to, side) = Locked(oo, side) - (IF e.side = side THEN Unlocks(e) ELSE 0)
    BY <1>1, <1>2, <1>7, <2>2, <2>4 DEF Locked, Side
  <2> QED BY <1>1, <1>2, <1>3, <1>4, <1>5, <2>2, <2>3, <2>5 DEF Applies, to
<1> QED BY <1>2, <1>6, <1>7

LEMMA OutApplies ==
  ASSUME NEW oo \in OpenOrdersRec, NEW e \in Event, e.kind = "Out"
  PROVE  Applies(oo, e, ApplyOut(oo, e))
<1> DEFINE to == ApplyOut(oo, e)
           pc == IF e.side = "Bid" THEN e.native_qty_released ELSE 0
           coin == IF e.side = "Ask" THEN e.native_qty_released ELSE 0
           slots == IF e.native_qty_paid = 0
                    THEN [oo.orders EXCEPT ![e.owner_slot] = Free] ELSE oo.orders
<1>1. /\ oo.native_coin_free \in Int /\ oo.native_coin_total \in Int
      /\ oo.native_pc_free \in Int /\ oo.native_pc_total \in Int
      /\ oo.referrer_rebates_accrued \in Int
  BY AccountFields
<1>2. /\ e.native_qty_released \in Int /\ e.native_qty_paid \in Int
      /\ (e.side = "Bid" \/ e.side = "Ask")
  BY EventParts DEF Side
<1>3. to \in OpenOrdersRec
  BY ApplyOutType
<1>4. ~IsFill(e) /\ (FinalOut(e) <=> e.native_qty_paid = 0)
  BY DEF IsFill, FinalOut
<1>5. PcMoved[e] = 0 /\ CoinMoved[e] = 0 /\ Referred[e] = 0
  BY <1>4 DEF PcMoved, CoinMoved, Referred
<1>6. Unlocks(e) = e.native_qty_released
  BY UnlocksOf
<1>7. pc \in Int /\ coin \in Int
  BY <1>2
<1>8. to = [oo EXCEPT !.native_pc_free = @ + pc, !.native_coin_free = @ + coin,
                      !.orders = slots]
  BY DEF ApplyOut
<1>9. slots = IF FinalOut(e) THEN [oo.orders EXCEPT ![e.owner_slot] = Free]
                             ELSE oo.orders
  BY <1>4
<1> HIDE DEF to, slots
<1>10. /\ to.native_pc_free = oo.native_pc_free + pc
       /\ to.native_coin_free = oo.native_coin_free + coin
       /\ to.native_pc_total = oo.native_pc_total
       /\ to.native_coin_total = oo.native_coin_total
       /\ to.referrer_rebates_accrued = oo.referrer_rebates_accrued
       /\ to.orders = slots /\ to.initialized = oo.initialized
  BY <1>8 DEF OpenOrdersRec
<1>11. \A side \in Side :
         Locked(to, side) = Locked(oo, side) - (IF e.side = side THEN Unlocks(e) ELSE 0)
  BY <1>1, <1>2, <1>6, <1>10 DEF Locked, Side
<1> QED BY <1>1, <1>3, <1>5, <1>9, <1>10, <1>11 DEF Applies, to

LEMMA EventApplies ==
  ASSUME NEW oo \in OpenOrdersRec, NEW e \in Event
  PROVE  Applies(oo, e, Applied(oo, e))
<1>1. e.kind = "Fill" \/ e.kind = "Out"
  BY EventParts
<1>2. CASE e.kind = "Fill"
  BY <1>2, FillApplies DEF Applied, IsFill
<1>3. CASE e.kind = "Out"
  BY <1>3, OutApplies DEF Applied
<1> QED BY <1>1, <1>2, <1>3

\* One event leaves the queue for the account it is about.
ConsumesOne(c, d) ==
  LET e == c.event_q[1]
  IN  /\ EventMatchesSlot(c.open_orders[e.owner], e)
      /\ Applies(c.open_orders[e.owner], e, d.open_orders[e.owner])
      /\ \A t \in Traders \ {e.owner} : d.open_orders[t] = c.open_orders[t]
      /\ d.event_q = Tail(c.event_q)

LEMMA ConsumeEventDoes ==
  ASSUME NEW c, ConsumedOK(c), c.ok, c.event_q # <<>>
  PROVE  /\ ConsumedOK(ConsumeEvent(c))
         /\ ConsumeEvent(c).ok => ConsumesOne(c, ConsumeEvent(c))
<1> DEFINE e == c.event_q[1]
           oo == c.open_orders[e.owner]
           to == Applied(oo, e)
           all == [c.open_orders EXCEPT ![e.owner] = to]
           rest == Tail(c.event_q)
           d == ConsumeEvent(c)
<1>1. ConsumedOK(d)
  BY ConsumeEventType
<1>2. e \in Event /\ e = Head(c.event_q) /\ e.owner \in Traders
  <2>1. c.event_q \in Seq(Event)
    BY DEF ConsumedOK, ConsumedRec
  <2>2. e \in Event /\ e = Head(c.event_q)
    BY <2>1, HeadTailProperties, LenProperties
  <2> HIDE DEF e
  <2> QED BY <2>2, EventParts
<1>3. oo \in OpenOrdersRec /\ c.open_orders \in [Traders -> OpenOrdersRec]
  <2> HIDE DEF e
  <2> QED BY <1>2 DEF ConsumedOK, ConsumedRec
<1>4. d = IF EventMatchesSlot(oo, e) /\ (e.kind = "Out" => FreeWithinTotal(to))
          THEN [c EXCEPT !.open_orders = all, !.event_q = rest]
          ELSE [c EXCEPT !.ok = FALSE]
  BY <1>2 DEF ConsumeEvent, Applied
<1>5. Applies(oo, e, to)
  <2> HIDE DEF oo, e
  <2> QED BY <1>2, <1>3, EventApplies
<1>6. all[e.owner] = to /\ \A t \in Traders \ {e.owner} : all[t] = c.open_orders[t]
  <2> HIDE DEF to, e
  <2> QED BY <1>2, <1>3
<1>7. ASSUME d.ok PROVE ConsumesOne(c, d)
  <2> HIDE DEF all, rest, to
  <2>1. EventMatchesSlot(oo, e) /\ d = [c EXCEPT !.open_orders = all, !.event_q = rest]
    <3> HIDE DEF d, oo, e
    <3>1. [c EXCEPT !.ok = FALSE].ok = FALSE
      BY DEF ConsumedOK, ConsumedRec
    <3> QED BY <1>4, <1>7, <3>1
  <2>2. d.open_orders = all /\ d.event_q = rest
    <3> HIDE DEF d, oo, e
    <3> QED BY <2>1 DEF ConsumedOK, ConsumedRec
  <2> HIDE DEF d
  <2> QED BY <1>5, <1>6, <2>1, <2>2 DEF ConsumesOne, rest
<1> QED BY <1>1, <1>7

\* A call of ConsumeEvents, in terms of its events.
LEMMA ConsumeEventsSteps ==
  ASSUME TypeOK, NEW limit \in ConsumeLimits, NEW accounts,
         ConsumeEvents(limit, accounts), NEW S,
         [open_orders |-> open_orders, event_q |-> event_q, ok |-> TRUE] \in S,
         \A c \in S, d \in ConsumedRec :
           ConsumedOK(c) /\ ConsumedOK(d) /\ c.event_q # <<>> /\ ConsumesOne(c, d)
             => d \in S
  PROVE  \E d \in S :
           /\ ConsumedOK(d) /\ open_orders' = d.open_orders /\ event_q' = d.event_q
           /\ UNCHANGED <<market, req_q, next_seq_num, bids, asks>>
<1> DEFINE c == [open_orders |-> open_orders, event_q |-> event_q, ok |-> TRUE]
           d == process_consume_events(c, limit, accounts)
           T == {x \in ConsumedRec : ConsumedOK(x) /\ (x.ok => x \in S)}
<1>1. ConsumedOK(c) /\ limit \in Nat
  BY MarketAssumption DEF TypeOK, ConsumedOK, ConsumedRec, Positive
<1>2. c \in S
  OBVIOUS
<1>3. /\ d.ok /\ open_orders' = d.open_orders /\ event_q' = d.event_q
      /\ UNCHANGED <<market, req_q, next_seq_num, bids, asks>>
  BY DEF ConsumeEvents
<1> HIDE DEF c
<1>4. c \in T
  BY <1>1, <1>2 DEF ConsumedOK
<1>5. ASSUME NEW x \in T, x.ok, x.event_q # <<>> PROVE ConsumeEvent(x) \in T
  <2> DEFINE y == ConsumeEvent(x)
  <2>1. ConsumedOK(x) /\ x \in S
    BY <1>5
  <2>2. ConsumedOK(y) /\ (y.ok => ConsumesOne(x, y))
    BY <1>5, <2>1, ConsumeEventDoes
  <2> HIDE DEF y
  <2>3. y \in ConsumedRec
    BY <2>2 DEF ConsumedOK
  <2>4. y.ok => y \in S
    BY <1>5, <2>1, <2>2, <2>3
  <2>5. y \in T
    BY <2>2, <2>3, <2>4
  <2> QED BY <2>5 DEF y
<1>6. d \in T
  <2> HIDE DEF T
  <2> QED BY <1>1, <1>4, <1>5, EventsKeep
<1> HIDE DEF d
<1> QED BY <1>3, <1>6

-----------------------------------------------------------------------------
(* The sums when one queue changes                                         *)

LEMMA DrainedSame ==
  ASSUME NEW m, NEW n, n.bids = m.bids, n.asks = m.asks, n.req_q = m.req_q, NEW v
  PROVE  /\ RequestsWeigh(n, v) = RequestsWeigh(m, v)
         /\ \A side : orders(n, side) = orders(m, side)
                      /\ BookWeighs(n, v, side) = BookWeighs(m, v, side)
         /\ n.event_q = m.event_q => Drained(n, v) = Drained(m, v)
BY DEF RequestsWeigh, orders, BookWeighs, Drained

LEMMA DrainedTail ==
  ASSUME NEW m, AccountsOK(m), m.event_q # <<>>, NEW n, n.bids = m.bids,
         n.asks = m.asks, n.req_q = m.req_q, n.event_q = Tail(m.event_q),
         NEW v, Weighs(v, Event)
  PROVE  /\ Drained(n, v) = Drained(m, v) - v[m.event_q[1]]
         /\ Over(n.event_q, v) = Over(m.event_q, v) - v[m.event_q[1]]
         /\ Drained(m, v) \in Int /\ Over(m.event_q, v) \in Int
         /\ v[m.event_q[1]] \in Int /\ m.event_q[1] \in Event
<1>1. m.event_q \in Seq(Event) /\ Over(m.event_q, v) \in Int
  BY DrainedType
<1>2. /\ Over(m.event_q, v) = v[Head(m.event_q)] + Over(Tail(m.event_q), v)
      /\ Head(m.event_q) = m.event_q[1] /\ Head(m.event_q) \in Event
      /\ Tail(m.event_q) \in Seq(Event)
  BY <1>1, OverTail
<1>3. Over(Tail(m.event_q), v) \in Int
  BY <1>2, OverDomain
<1>4. v[m.event_q[1]] \in Int
  BY <1>2 DEF Weighs
<1>5. /\ RequestsWeigh(m, v) \in Int /\ BookWeighs(m, v, "Bid") \in Int
      /\ BookWeighs(m, v, "Ask") \in Int
  BY DrainedType DEF Side
<1>6. /\ RequestsWeigh(n, v) = RequestsWeigh(m, v)
      /\ BookWeighs(n, v, "Bid") = BookWeighs(m, v, "Bid")
      /\ BookWeighs(n, v, "Ask") = BookWeighs(m, v, "Ask")
  BY DrainedSame
<1>7. Over(n.event_q, v) = Over(m.event_q, v) - v[m.event_q[1]]
  BY <1>1, <1>2, <1>3, <1>4
<1>8. Drained(n, v) = RequestsWeigh(m, v) + BookWeighs(m, v, "Bid")
                        + BookWeighs(m, v, "Ask") + Over(n.event_q, v)
  BY <1>6 DEF Drained
<1>9. Drained(m, v) = RequestsWeigh(m, v) + BookWeighs(m, v, "Bid")
                        + BookWeighs(m, v, "Ask") + Over(m.event_q, v)
  BY DEF Drained
<1> QED BY <1>1, <1>2, <1>4, <1>5, <1>7, <1>8, <1>9

LEMMA DrainedAppend ==
  ASSUME NEW m, AccountsOK(m), NEW r \in Request, NEW n, n.bids = m.bids,
         n.asks = m.asks, n.event_q = m.event_q, n.req_q = Append(m.req_q, r),
         NEW v, Weighs(v, Event)
  PROVE  /\ Drained(n, v) = Drained(m, v) + RequestWeight(v)[r]
         /\ Drained(m, v) \in Int /\ RequestWeight(v)[r] \in Int
<1> DEFINE w == RequestWeight(v)
           q == m.req_q
<1>1. Weighs(w, Request) /\ q \in Seq(Request)
  BY DrainedType, WeightsType
<1>2. Append(q, r) = q \o <<r>>
  BY <1>1, AppendProperties
<1>3. Over(q \o <<r>>, w) = Over(q, w) + w[r]
  <2> HIDE DEF w, q
  <2> QED BY <1>1, OverPush
<1>4. RequestsWeigh(n, v) = RequestsWeigh(m, v) + w[r]
  BY <1>2, <1>3 DEF RequestsWeigh
<1>5. w[r] \in Int
  <2> HIDE DEF w
  <2> QED BY <1>1 DEF Weighs
<1>6. /\ RequestsWeigh(m, v) \in Int /\ BookWeighs(m, v, "Bid") \in Int
      /\ BookWeighs(m, v, "Ask") \in Int /\ Over(m.event_q, v) \in Int
  BY DrainedType DEF Side
<1>7. /\ BookWeighs(n, v, "Bid") = BookWeighs(m, v, "Bid")
      /\ BookWeighs(n, v, "Ask") = BookWeighs(m, v, "Ask")
  BY DEF BookWeighs, orders
<1>8. Drained(n, v) = RequestsWeigh(n, v) + BookWeighs(m, v, "Bid")
                        + BookWeighs(m, v, "Ask") + Over(m.event_q, v)
  BY <1>7 DEF Drained
<1>9. Drained(m, v) = RequestsWeigh(m, v) + BookWeighs(m, v, "Bid")
                        + BookWeighs(m, v, "Ask") + Over(m.event_q, v)
  BY DEF Drained
<1> HIDE DEF w
<1> QED BY <1>4, <1>5, <1>6, <1>8, <1>9 DEF w

-----------------------------------------------------------------------------
(* What the accounts say against what is drained from the market           *)

PcTotals(oo) == [t \in Traders |-> oo[t].native_pc_total]
CoinTotals(oo) == [t \in Traders |-> oo[t].native_coin_total]
Rebates(oo) == [t \in Traders |-> oo[t].referrer_rebates_accrued]

\* Orders hold what the accounts have locked.
HoldsLocked(oo, m) ==
  \A t \in Traders, side \in Side : Drained(m, Held(t, side)) = Locked(oo[t], side)

\* A live slot is of one order, which will free it once.
Counted(oo, m) ==
  \A t \in Traders, s \in Slots :
    Drained(m, Frees(t, s)) = IF oo[t].orders[s] = Free THEN 0 ELSE 1

\* The market owes what the accounts own once the events are applied.
Owned(oo, m) ==
  /\ PcOwed[m.market] + Over(m.event_q, PcMoved) + Total(Traders, PcTotals(oo)) = 0
  /\ CoinOwed[m.market] + Over(m.event_q, CoinMoved) + Total(Traders, CoinTotals(oo)) = 0
  /\ ReferrersOwed[m.market] + Over(m.event_q, Referred)
       + Total(Traders, Rebates(oo)) = 0

Tallied(oo, m) == HoldsLocked(oo, m) /\ Counted(oo, m) /\ Owned(oo, m)

AccountsType == [Traders -> OpenOrdersRec]

LEMMA SameTallied ==
  ASSUME NEW oo \in AccountsType, NEW m, AccountsOK(m), NEW n, AccountsOK(n),
         Same(m, n), Tallied(oo, m)
  PROVE  Tallied(oo, n)
BY DEF Same, Tallied, HoldsLocked, Counted, Owned

\* The accounts p are oo, but for that of t.
Changes(oo, p, t) ==
  /\ oo \in AccountsType /\ p \in AccountsType /\ t \in Traders
  /\ \A u \in Traders \ {t} : p[u] = oo[u]

LEMMA TotalsChange ==
  ASSUME NEW oo, NEW p, NEW t, Changes(oo, p, t)
  PROVE  /\ Total(Traders, PcTotals(p)) = Total(Traders, PcTotals(oo))
              + (p[t].native_pc_total - oo[t].native_pc_total)
         /\ Total(Traders, CoinTotals(p)) = Total(Traders, CoinTotals(oo))
              + (p[t].native_coin_total - oo[t].native_coin_total)
         /\ Total(Traders, Rebates(p)) = Total(Traders, Rebates(oo))
              + (p[t].referrer_rebates_accrued - oo[t].referrer_rebates_accrued)
         /\ Total(Traders, PcTotals(oo)) \in Int
         /\ Total(Traders, CoinTotals(oo)) \in Int
         /\ Total(Traders, Rebates(oo)) \in Int
<1>1. /\ IsFiniteSet(Traders) /\ t \in Traders
      /\ \A u \in Traders : /\ oo[u] \in OpenOrdersRec /\ p[u] \in OpenOrdersRec
  BY MarketAssumption DEF Changes, AccountsType
<1>2. \A u \in Traders : /\ PcTotals(oo)[u] \in Int /\ PcTotals(p)[u] \in Int
                         /\ CoinTotals(oo)[u] \in Int /\ CoinTotals(p)[u] \in Int
                         /\ Rebates(oo)[u] \in Int /\ Rebates(p)[u] \in Int
  BY <1>1, AccountFields DEF PcTotals, CoinTotals, Rebates
<1>3. ASSUME NEW f, NEW g, Summable(f, Traders), Summable(g, Traders),
             AgreeBut(f, g, Traders, t)
      PROVE  Total(Traders, g) = Total(Traders, f) + (g[t] - f[t])
             /\ Total(Traders, f) \in Int
  <2>1. \A x \in Traders : f[x] \in Int
    BY <1>3 DEF Summable
  <2> QED BY <1>1, <1>3, <2>1, TotalChange, TotalInt
<1>4. /\ Summable(PcTotals(oo), Traders) /\ Summable(PcTotals(p), Traders)
      /\ Summable(CoinTotals(oo), Traders) /\ Summable(CoinTotals(p), Traders)
      /\ Summable(Rebates(oo), Traders) /\ Summable(Rebates(p), Traders)
  BY <1>2 DEF Summable
<1>5. /\ AgreeBut(PcTotals(oo), PcTotals(p), Traders, t)
      /\ AgreeBut(CoinTotals(oo), CoinTotals(p), Traders, t)
      /\ AgreeBut(Rebates(oo), Rebates(p), Traders, t)
  BY DEF Changes, AgreeBut, PcTotals, CoinTotals, Rebates
<1>6. /\ PcTotals(oo)[t] = oo[t].native_pc_total /\ PcTotals(p)[t] = p[t].native_pc_total
      /\ CoinTotals(oo)[t] = oo[t].native_coin_total
      /\ CoinTotals(p)[t] = p[t].native_coin_total
      /\ Rebates(oo)[t] = oo[t].referrer_rebates_accrued
      /\ Rebates(p)[t] = p[t].referrer_rebates_accrued
  BY <1>1 DEF PcTotals, CoinTotals, Rebates
<1>7. /\ Total(Traders, PcTotals(p)) = Total(Traders, PcTotals(oo))
              + (PcTotals(p)[t] - PcTotals(oo)[t])
      /\ Total(Traders, PcTotals(oo)) \in Int
  BY <1>3, <1>4, <1>5
<1>8. /\ Total(Traders, CoinTotals(p)) = Total(Traders, CoinTotals(oo))
              + (CoinTotals(p)[t] - CoinTotals(oo)[t])
      /\ Total(Traders, CoinTotals(oo)) \in Int
  BY <1>3, <1>4, <1>5
<1>9. /\ Total(Traders, Rebates(p)) = Total(Traders, Rebates(oo))
              + (Rebates(p)[t] - Rebates(oo)[t])
      /\ Total(Traders, Rebates(oo)) \in Int
  BY <1>3, <1>4, <1>5
<1> QED BY <1>6, <1>7, <1>8, <1>9

\* What must go along with a change of the account of t.
Follows(oo, m, p, n, t) ==
  /\ \A u \in Traders, side \in Side :
       Drained(n, Held(u, side)) = Drained(m, Held(u, side))
         + (IF u = t THEN Locked(p[t], side) - Locked(oo[t], side) ELSE 0)
  /\ \A u \in Traders, s \in Slots :
       Drained(n, Frees(u, s)) = Drained(m, Frees(u, s))
         + (IF u = t /\ p[t].orders[s] # oo[t].orders[s]
            THEN (IF p[t].orders[s] = Free THEN -1 ELSE IF oo[t].orders[s] = Free THEN 1 ELSE 0)
            ELSE 0)
  /\ PcOwed[n.market] + Over(n.event_q, PcMoved) + p[t].native_pc_total
       = PcOwed[m.market] + Over(m.event_q, PcMoved) + oo[t].native_pc_total
  /\ CoinOwed[n.market] + Over(n.event_q, CoinMoved) + p[t].native_coin_total
       = CoinOwed[m.market] + Over(m.event_q, CoinMoved) + oo[t].native_coin_total
  /\ ReferrersOwed[n.market] + Over(n.event_q, Referred) + p[t].referrer_rebates_accrued
       = ReferrersOwed[m.market] + Over(m.event_q, Referred)
           + oo[t].referrer_rebates_accrued

LEMMA ChangeTallied ==
  ASSUME NEW oo, NEW p, NEW t, Changes(oo, p, t), NEW m, AccountsOK(m),
         NEW n, AccountsOK(n), Follows(oo, m, p, n, t), Tallied(oo, m)
  PROVE  Tallied(p, n)
<1>1. \A u \in Traders : /\ oo[u] \in OpenOrdersRec /\ p[u] \in OpenOrdersRec
                         /\ (u # t => p[u] = oo[u])
  BY DEF Changes, AccountsType
<1>2. t \in Traders
  BY DEF Changes
<1>3. \A u \in Traders, side \in Side :
        Locked(p[u], side) \in Int /\ Locked(oo[u], side) \in Int
  BY <1>1, AccountFields DEF Locked
<1>4. HoldsLocked(p, n)
  <2> SUFFICES ASSUME NEW u \in Traders, NEW side \in Side
               PROVE  Drained(n, Held(u, side)) = Locked(p[u], side)
    BY DEF HoldsLocked
  <2>1. Drained(m, Held(u, side)) = Locked(oo[u], side)
    BY DEF Tallied, HoldsLocked
  <2>2. Drained(n, Held(u, side)) = Drained(m, Held(u, side))
         + (IF u = t THEN Locked(p[t], side) - Locked(oo[t], side) ELSE 0)
    BY DEF Follows
  <2>3. Locked(p[u], side) \in Int /\ Locked(oo[u], side) \in Int
    BY <1>3
  <2>4. CASE u = t
    BY <2>1, <2>2, <2>3, <2>4
  <2>5. CASE u # t
    BY <1>1, <2>1, <2>2, <2>3, <2>5
  <2> QED BY <2>4, <2>5
<1>5. Counted(p, n)
  <2> SUFFICES ASSUME NEW u \in Traders, NEW s \in Slots
               PROVE  Drained(n, Frees(u, s)) = IF p[u].orders[s] = Free THEN 0 ELSE 1
    BY DEF Counted
  <2>1. Drained(m, Frees(u, s)) = IF oo[u].orders[s] = Free THEN 0 ELSE 1
    BY DEF Tallied, Counted
  <2>2. Drained(n, Frees(u, s)) = Drained(m, Frees(u, s))
         + (IF u = t /\ p[t].orders[s] # oo[t].orders[s]
            THEN (IF p[t].orders[s] = Free THEN -1 ELSE IF oo[t].orders[s] = Free THEN 1 ELSE 0)
            ELSE 0)
    BY DEF Follows
  <2>3. CASE u = t
    BY <2>1, <2>2, <2>3
  <2>4. CASE u # t
    BY <1>1, <2>1, <2>2, <2>4
  <2> QED BY <2>3, <2>4
<1>6. Owned(p, n)
  <2> DEFINE a == Total(Traders, PcTotals(oo))
             b == Total(Traders, CoinTotals(oo))
             c == Total(Traders, Rebates(oo))
             a1 == Total(Traders, PcTotals(p))
             b1 == Total(Traders, CoinTotals(p))
             c1 == Total(Traders, Rebates(p))
             f == p[t].native_pc_total
             g == p[t].native_coin_total
             h == p[t].referrer_rebates_accrued
             f0 == oo[t].native_pc_total
             g0 == oo[t].native_coin_total
             h0 == oo[t].referrer_rebates_accrued
             mp == PcOwed[m.market]
             mc == CoinOwed[m.market]
             mr == ReferrersOwed[m.market]
             np == PcOwed[n.market]
             nc == CoinOwed[n.market]
             nr == ReferrersOwed[n.market]
             ep == Over(m.event_q, PcMoved)
             ec == Over(m.event_q, CoinMoved)
             er == Over(m.event_q, Referred)
             fp == Over(n.event_q, PcMoved)
             fc == Over(n.event_q, CoinMoved)
             fr == Over(n.event_q, Referred)
  <2>1. /\ a1 = a + (f - f0) /\ b1 = b + (g - g0) /\ c1 = c + (h - h0)
        /\ a \in Int /\ b \in Int /\ c \in Int
    BY TotalsChange
  <2>2. /\ f \in Int /\ g \in Int /\ h \in Int /\ f0 \in Int /\ g0 \in Int /\ h0 \in Int
    BY <1>1, <1>2, AccountFields
  <2>3. m.market \in MarketRec /\ n.market \in MarketRec
    BY DEF AccountsOK, Accounts
  <2>4. /\ mp \in Int /\ mc \in Int /\ mr \in Int /\ np \in Int /\ nc \in Int /\ nr \in Int
    BY <2>3, MarketWeighs DEF Weighs
  <2>5. /\ ep \in Int /\ ec \in Int /\ er \in Int /\ fp \in Int /\ fc \in Int /\ fr \in Int
    BY DrainedType, EventWeighs
  <2>6. np + fp + f = mp + ep + f0 /\ nc + fc + g = mc + ec + g0 /\ nr + fr + h = mr + er + h0
    BY DEF Follows
  <2>7. mp + ep + a = 0 /\ mc + ec + b = 0 /\ mr + er + c = 0
    BY DEF Tallied, Owned
  <2>8. SUFFICES np + fp + a1 = 0 /\ nc + fc + b1 = 0 /\ nr + fr + c1 = 0
    BY DEF Owned
  <2> HIDE DEF a, b, c, a1, b1, c1, f, g, h, f0, g0, h0, mp, mc, mr, np, nc, nr, ep, ec, er,
               fp, fc, fr
  <2>9. np + fp + a1 = 0
    BY <2>1, <2>2, <2>4, <2>5, <2>6, <2>7
  <2>10. nc + fc + b1 = 0
    BY <2>1, <2>2, <2>4, <2>5, <2>6, <2>7
  <2>11. nr + fr + c1 = 0
    BY <2>1, <2>2, <2>4, <2>5, <2>6, <2>7
  <2> QED BY <2>9, <2>10, <2>11
<1> QED BY <1>4, <1>5, <1>6 DEF Tallied

\* n is m but for its event queue.
ButEvents(m, n) ==
  n.bids = m.bids /\ n.asks = m.asks /\ n.req_q = m.req_q /\ n.market = m.market

LEMMA ConsumeFollows ==
  ASSUME NEW c, ConsumedOK(c), NEW d, ConsumedOK(d), c.event_q # <<>>, ConsumesOne(c, d),
         NEW m, AccountsOK(m), m.event_q = c.event_q, NEW n, ButEvents(m, n),
         n.event_q = d.event_q, NEW t, t = c.event_q[1].owner
  PROVE  /\ Changes(c.open_orders, d.open_orders, t)
         /\ Follows(c.open_orders, m, d.open_orders, n, t)
<1> DEFINE e == c.event_q[1]
           oo == c.open_orders[t]
           to == d.open_orders[t]
<1>1. e \in Event /\ t \in Traders /\ e.owner_slot \in Slots /\ t = e.owner
  <2>1. e \in Event
    BY HeadTailProperties, LenProperties DEF ConsumedOK, ConsumedRec
  <2> HIDE DEF e
  <2> QED BY <2>1, EventParts DEF e
<1>2. Changes(c.open_orders, d.open_orders, t)
  BY <1>1 DEF Changes, AccountsType, ConsumedOK, ConsumedRec, ConsumesOne
<1>3. Applies(oo, e, to) /\ EventMatchesSlot(oo, e)
  BY DEF ConsumesOne
<1>4. oo \in OpenOrdersRec /\ to \in OpenOrdersRec
  BY <1>2 DEF Changes, AccountsType
<1>5. ASSUME NEW v, Weighs(v, Event)
      PROVE  /\ Drained(n, v) = Drained(m, v) - v[e]
             /\ Over(n.event_q, v) = Over(m.event_q, v) - v[e]
             /\ Drained(m, v) \in Int /\ Over(m.event_q, v) \in Int /\ v[e] \in Int
  <2>1. m.event_q # <<>> /\ n.event_q = Tail(m.event_q) /\ e = m.event_q[1]
    BY DEF ConsumesOne
  <2>2. n.bids = m.bids /\ n.asks = m.asks /\ n.req_q = m.req_q
    BY DEF ButEvents
  <2> HIDE DEF e
  <2> QED BY <1>5, <2>1, <2>2, DrainedTail
<1> HIDE DEF e, oo, to
<1>6. ASSUME NEW u \in Traders, NEW side \in Side
      PROVE  Drained(n, Held(u, side)) = Drained(m, Held(u, side))
               + (IF u = t THEN Locked(to, side) - Locked(oo, side) ELSE 0)
  <2>1. Held(u, side)[e] = IF t = u /\ e.side = side THEN Unlocks(e) ELSE 0
    BY <1>1 DEF Held
  <2>2. Locked(to, side) = Locked(oo, side) - (IF e.side = side THEN Unlocks(e) ELSE 0)
    BY <1>3 DEF Applies
  <2>3. /\ Drained(n, Held(u, side)) = Drained(m, Held(u, side)) - Held(u, side)[e]
        /\ Drained(m, Held(u, side)) \in Int
    BY <1>5, EventWeighs
  <2>4. Locked(oo, side) \in Int /\ Unlocks(e) \in Int
    BY <1>1, <1>4, AccountFields, EventParts DEF Locked
  <2>5. CASE u = t
    BY <2>1, <2>2, <2>3, <2>4, <2>5
  <2>6. CASE u # t
    BY <2>1, <2>3, <2>6
  <2> QED BY <2>5, <2>6
<1>7. ASSUME NEW u \in Traders, NEW s \in Slots
      PROVE  Drained(n, Frees(u, s)) = Drained(m, Frees(u, s))
               + (IF u = t /\ to.orders[s] # oo.orders[s]
                  THEN (IF to.orders[s] = Free THEN -1
                        ELSE IF oo.orders[s] = Free THEN 1 ELSE 0)
                  ELSE 0)
  <2>1. Frees(u, s)[e] = IF FinalOut(e) /\ t = u /\ e.owner_slot = s THEN 1 ELSE 0
    BY <1>1 DEF Frees
  <2>2. to.orders = IF FinalOut(e) THEN [oo.orders EXCEPT ![e.owner_slot] = Free]
                                   ELSE oo.orders
    BY <1>3 DEF Applies
  <2>3. /\ Drained(n, Frees(u, s)) = Drained(m, Frees(u, s)) - Frees(u, s)[e]
        /\ Drained(m, Frees(u, s)) \in Int
    BY <1>5, EventWeighs
  <2>4. oo.orders[e.owner_slot] # Free
    BY <1>3 DEF EventMatchesSlot
  <2>5. oo.orders \in [Slots -> SlotRec \cup {Free}]
    BY <1>4, AccountFields DEF SlotsType
  <2>6. CASE FinalOut(e) /\ u = t /\ e.owner_slot = s
    <3>1. to.orders[s] = Free /\ oo.orders[s] # Free
      BY <1>1, <2>2, <2>4, <2>5, <2>6
    <3> QED BY <2>1, <2>3, <2>6, <3>1
  <2>7. CASE ~(FinalOut(e) /\ u = t /\ e.owner_slot = s)
    <3>1. u = t => to.orders[s] = oo.orders[s]
      BY <1>1, <2>2, <2>5, <2>7
    <3> QED BY <2>1, <2>3, <2>7, <3>1
  <2> QED BY <2>6, <2>7
<1>8. /\ PcOwed[n.market] = PcOwed[m.market] /\ CoinOwed[n.market] = CoinOwed[m.market]
      /\ ReferrersOwed[n.market] = ReferrersOwed[m.market]
      /\ PcOwed[m.market] \in Int /\ CoinOwed[m.market] \in Int
      /\ ReferrersOwed[m.market] \in Int
  <2>1. m.market \in MarketRec
    BY DEF AccountsOK, Accounts
  <2> QED BY <2>1, MarketWeighs DEF Weighs, ButEvents
<1>9. /\ to.native_pc_total = oo.native_pc_total + PcMoved[e]
      /\ to.native_coin_total = oo.native_coin_total + CoinMoved[e]
      /\ to.referrer_rebates_accrued = oo.referrer_rebates_accrued + Referred[e]
      /\ oo.native_pc_total \in Int /\ oo.native_coin_total \in Int
      /\ oo.referrer_rebates_accrued \in Int
  BY <1>3, <1>4, AccountFields DEF Applies
<1>10. PcOwed[n.market] + Over(n.event_q, PcMoved) + to.native_pc_total
        = PcOwed[m.market] + Over(m.event_q, PcMoved) + oo.native_pc_total
  <2>1. /\ Over(n.event_q, PcMoved) = Over(m.event_q, PcMoved) - PcMoved[e]
        /\ Over(m.event_q, PcMoved) \in Int /\ PcMoved[e] \in Int
    BY <1>5, EventWeighs
  <2> QED BY <1>8, <1>9, <2>1
<1>11. CoinOwed[n.market] + Over(n.event_q, CoinMoved) + to.native_coin_total
         = CoinOwed[m.market] + Over(m.event_q, CoinMoved) + oo.native_coin_total
  <2>1. /\ Over(n.event_q, CoinMoved) = Over(m.event_q, CoinMoved) - CoinMoved[e]
        /\ Over(m.event_q, CoinMoved) \in Int /\ CoinMoved[e] \in Int
    BY <1>5, EventWeighs
  <2> QED BY <1>8, <1>9, <2>1
<1>12. ReferrersOwed[n.market] + Over(n.event_q, Referred) + to.referrer_rebates_accrued
         = ReferrersOwed[m.market] + Over(m.event_q, Referred)
             + oo.referrer_rebates_accrued
  <2>1. /\ Over(n.event_q, Referred) = Over(m.event_q, Referred) - Referred[e]
        /\ Over(m.event_q, Referred) \in Int /\ Referred[e] \in Int
    BY <1>5, EventWeighs
  <2> QED BY <1>8, <1>9, <2>1
<1> QED BY <1>2, <1>6, <1>7, <1>10, <1>11, <1>12 DEF Follows, oo, to

\* The account of a NewOrder.
LEMMA OrderedFields ==
  ASSUME TypeOK, NEW t \in Traders, NEW i \in Instructions, NEW tier \in FeeTiers,
         SlotOf(t) \in Slots, OrderOf(i) \in SlotRec, Brings(t, i, tier) \in Int,
         Locks(i, tier) \in Int, NEW oo, oo = open_orders[t], NEW p, p = Ordered(t, i, tier)
  PROVE  /\ p \in OpenOrdersRec /\ oo \in OpenOrdersRec
         /\ \A side \in Side : Locked(p, side)
              = Locked(oo, side) + (IF i.side = side THEN Locks(i, tier) ELSE 0)
         /\ p.native_pc_total
              = oo.native_pc_total + (IF i.side = "Bid" THEN Brings(t, i, tier) ELSE 0)
         /\ p.native_coin_total
              = oo.native_coin_total + (IF i.side = "Bid" THEN 0 ELSE Brings(t, i, tier))
         /\ p.referrer_rebates_accrued = oo.referrer_rebates_accrued
         /\ p.orders = [oo.orders EXCEPT ![SlotOf(t)] = OrderOf(i)]
<1> DEFINE lock == Locks(i, tier)
           dep == Brings(t, i, tier)
           slot == SlotOf(t)
           order == OrderOf(i)
           l == LockFunds(oo, i.side, lock, dep)
           slots == [oo.orders EXCEPT ![slot] = order]
<1>1. /\ oo \in OpenOrdersRec /\ lock \in Int /\ dep \in Int
      /\ p = add_order(l, slot, order)
  BY DEF TypeOK, Ordered
<1>2. i.side \in Side
  BY MarketAssumption DEF NewOrderInstruction
<1> HIDE DEF lock, dep, order, slot
<1>3. l \in OpenOrdersRec
  BY <1>1, LockFundsType
<1>4. p \in OpenOrdersRec
  <2> HIDE DEF l
  <2> QED BY <1>1, <1>3, AddOrderType DEF slot, order
<1>5. /\ oo.native_coin_free \in Int /\ oo.native_coin_total \in Int
      /\ oo.native_pc_free \in Int /\ oo.native_pc_total \in Int
  BY <1>1, AccountFields
<1>6. /\ l.native_pc_free = oo.native_pc_free - (IF i.side = "Bid" THEN lock - dep ELSE 0)
      /\ l.native_pc_total = oo.native_pc_total + (IF i.side = "Bid" THEN dep ELSE 0)
      /\ l.native_coin_free = oo.native_coin_free - (IF i.side = "Bid" THEN 0 ELSE lock - dep)
      /\ l.native_coin_total = oo.native_coin_total + (IF i.side = "Bid" THEN 0 ELSE dep)
      /\ l.referrer_rebates_accrued = oo.referrer_rebates_accrued
      /\ l.orders = oo.orders
  BY <1>1, <1>5 DEF LockFunds, OpenOrdersRec
<1> HIDE DEF l
<1>7. p = [l EXCEPT !.initialized = TRUE, !.orders = [l.orders EXCEPT ![slot] = order]]
  BY <1>1 DEF add_order
<1>8. /\ p.native_pc_free = l.native_pc_free /\ p.native_pc_total = l.native_pc_total
      /\ p.native_coin_free = l.native_coin_free
      /\ p.native_coin_total = l.native_coin_total
      /\ p.referrer_rebates_accrued = l.referrer_rebates_accrued
      /\ p.orders = [l.orders EXCEPT ![slot] = order]
  BY <1>3, <1>7 DEF OpenOrdersRec
<1>9. \A side \in Side : Locked(p, side)
        = Locked(oo, side) + (IF i.side = side THEN lock ELSE 0)
  BY <1>1, <1>2, <1>5, <1>6, <1>8 DEF Locked, Side
<1> QED BY <1>1, <1>4, <1>6, <1>8, <1>9 DEF lock, dep, order, slot

\* What a request weighs.
LEMMA RequestWeighs ==
  ASSUME NEW r \in Request
  PROVE  /\ \A t, side : RequestWeight(Held(t, side))[r]
              = IF IsOrder(r) /\ r.owner = t /\ r.side = side THEN HeldBy(r) ELSE 0
         /\ \A t, s : RequestWeight(Frees(t, s))[r]
              = IF IsOrder(r) /\ r.owner = t /\ r.owner_slot = s THEN 1 ELSE 0
<1>1. CASE IsOrder(r)
  <2> DEFINE h == HeldBy(r)
             e == OutEvent(r.side, r, h, 0)
             o == r
             side == r.side
  <2>1. h \in Int /\ 0 \in Int /\ side \in Side /\ o \in Leaf \cup NewOrderRequest
        /\ e = OutEvent(side, o, h, 0)
    BY <1>1, HeldType, RequestFields DEF IsOrder
  <2>2. \A v : Weighs(v, Event) => RequestWeight(v)[r] = v[e]
    BY <1>1, WeightsType DEF IsOrder
  <2> HIDE DEF h, e, o, side
  <2>3. /\ \A t, s : Held(t, s)[e] = IF o.owner = t /\ side = s THEN h ELSE 0
        /\ \A t, s : Frees(t, s)[e] = IF 0 = 0 /\ o.owner = t /\ o.owner_slot = s THEN 1 ELSE 0
    BY ONLY <2>1, OutsWeigh
  <2>4. \A t, s : /\ RequestWeight(Held(t, s))[r] = Held(t, s)[e]
                  /\ RequestWeight(Frees(t, s))[r] = Frees(t, s)[e]
    BY <2>2, EventWeighs
  <2> QED BY <1>1, <2>3, <2>4 DEF h, o, side
<1>2. CASE ~IsOrder(r)
  <2>1. r \in CancelRequest
    BY <1>2 DEF IsOrder, Request
  <2>2. \A v : Weighs(v, Event) => RequestWeight(v)[r] = 0
    BY <2>1, WeightsType
  <2> QED BY <1>2, <2>2, EventWeighs
<1> QED BY <1>1, <1>2

LEMMA NewOrderFollows ==
  ASSUME TypeOK, NEW t \in Traders, NEW i \in Instructions, NEW tier \in FeeTiers,
         NewOrder(t, i, tier), NEW m, m = MarketAccounts, NEW n, AccountsOK(n),
         n.bids = bids', n.asks = asks', n.market = market', n.req_q = req_q',
         n.event_q = event_q'
  PROVE  /\ Changes(open_orders, open_orders', t)
         /\ Follows(open_orders, m, open_orders', n, t)
<1> DEFINE r == RequestOf(t, i, tier)
           oo == open_orders[t]
           p == Ordered(t, i, tier)
           lock == Locks(i, tier)
           dep == Brings(t, i, tier)
           slot == SlotOf(t)
           order == OrderOf(i)
<1>1. /\ slot \in Slots /\ oo.orders[slot] = Free
      /\ r \in NewOrderRequest /\ order \in SlotRec
      /\ dep \in Int /\ lock \in Nat
      /\ open_orders' = [open_orders EXCEPT ![t] = p]
      /\ req_q' = Append(req_q, r)
      /\ IF i.side = "Bid"
         THEN market' = [market EXCEPT !.pc_deposits_total = @ + dep]
         ELSE market' = [market EXCEPT !.coin_deposits_total = @ + dep]
      /\ UNCHANGED <<event_q, bids, asks>>
  BY NewOrderDoes
<1>2. lock \in Int /\ lock = HeldBy(r) /\ r.owner = t /\ r.owner_slot = slot
      /\ r.side = i.side /\ IsOrder(r) /\ i.side \in Side
  <2>1. lock \in Int
    BY <1>1
  <2>2. r.owner = t /\ r.owner_slot = slot /\ r.side = i.side
        /\ r.max_coin_qty = i.max_qty
        /\ r.native_pc_qty_locked = IF i.side = "Bid" THEN lock ELSE 0
    BY DEF RequestOf
  <2>3. i.side \in Side
    BY MarketAssumption DEF NewOrderInstruction
  <2>4. lock = HeldBy(r)
    BY <2>2 DEF HeldBy, Locks, LockQtyNative
  <2> QED BY <1>1, <2>1, <2>2, <2>3, <2>4 DEF IsOrder
<1>3. /\ p \in OpenOrdersRec /\ oo \in OpenOrdersRec
      /\ \A side \in Side : Locked(p, side)
           = Locked(oo, side) + (IF i.side = side THEN lock ELSE 0)
      /\ p.native_pc_total = oo.native_pc_total + (IF i.side = "Bid" THEN dep ELSE 0)
      /\ p.native_coin_total = oo.native_coin_total + (IF i.side = "Bid" THEN 0 ELSE dep)
      /\ p.referrer_rebates_accrued = oo.referrer_rebates_accrued
      /\ p.orders = [oo.orders EXCEPT ![slot] = order]
  BY <1>1, <1>2, OrderedFields
<1> HIDE DEF r, p, lock, dep, slot, order
<1>4. /\ AccountsOK(m) /\ m.bids = bids /\ m.asks = asks /\ m.market = market
      /\ m.req_q = req_q /\ m.event_q = event_q
  BY AccountsOfState DEF MarketAccounts
<1>5. open_orders \in [Traders -> OpenOrdersRec] /\ market \in MarketRec
  BY DEF TypeOK
<1>6. Changes(open_orders, open_orders', t) /\ open_orders'[t] = p
  BY <1>1, <1>3, <1>5 DEF Changes, AccountsType
<1>7. ASSUME NEW v, Weighs(v, Event)
      PROVE  /\ Drained(n, v) = Drained(m, v) + RequestWeight(v)[r]
             /\ Drained(m, v) \in Int /\ RequestWeight(v)[r] \in Int
  <2>1. r \in Request
    BY <1>1 DEF Request
  <2>2. /\ n.bids = m.bids /\ n.asks = m.asks /\ n.event_q = m.event_q
        /\ n.req_q = Append(m.req_q, r) /\ AccountsOK(m)
    BY <1>1, <1>4
  <2> QED BY ONLY <1>7, <2>1, <2>2, DrainedAppend
<1>8. r \in Request
  BY <1>1 DEF Request
<1>9. ASSUME NEW u \in Traders, NEW side \in Side
      PROVE  Drained(n, Held(u, side)) = Drained(m, Held(u, side))
               + (IF u = t THEN Locked(p, side) - Locked(oo, side) ELSE 0)
  <2>1. RequestWeight(Held(u, side))[r] = IF t = u /\ i.side = side THEN lock ELSE 0
    BY <1>2, <1>8, RequestWeighs
  <2>2. /\ Drained(n, Held(u, side)) = Drained(m, Held(u, side)) + RequestWeight(Held(u, side))[r]
        /\ Drained(m, Held(u, side)) \in Int
    BY <1>7, EventWeighs
  <2>3. Locked(oo, side) \in Int
    BY <1>3, AccountFields DEF Locked
  <2>4. Locked(p, side) = Locked(oo, side) + (IF i.side = side THEN lock ELSE 0)
    BY <1>3
  <2> QED BY <1>2, <2>1, <2>2, <2>3, <2>4
<1>10. ASSUME NEW u \in Traders, NEW s \in Slots
       PROVE  Drained(n, Frees(u, s)) = Drained(m, Frees(u, s))
               + (IF u = t /\ p.orders[s] # oo.orders[s]
                  THEN (IF p.orders[s] = Free THEN -1
                        ELSE IF oo.orders[s] = Free THEN 1 ELSE 0)
                  ELSE 0)
  <2>1. RequestWeight(Frees(u, s))[r] = IF t = u /\ slot = s THEN 1 ELSE 0
    BY <1>2, <1>8, RequestWeighs
  <2>2. /\ Drained(n, Frees(u, s)) = Drained(m, Frees(u, s)) + RequestWeight(Frees(u, s))[r]
        /\ Drained(m, Frees(u, s)) \in Int
    BY <1>7, EventWeighs
  <2>3. oo.orders \in [Slots -> SlotRec \cup {Free}]
    BY <1>3, AccountFields DEF SlotsType
  <2>4. order # Free
    BY <1>1, FreeAssumption
  <2>5. p.orders[slot] = order /\ (s # slot => p.orders[s] = oo.orders[s])
    BY <1>1, <1>3, <2>3
  <2> QED BY <1>1, <2>1, <2>2, <2>4, <2>5
<1>11. /\ PcOwed[n.market] = PcOwed[m.market] - (IF i.side = "Bid" THEN dep ELSE 0)
       /\ CoinOwed[n.market] = CoinOwed[m.market] - (IF i.side = "Bid" THEN 0 ELSE dep)
       /\ ReferrersOwed[n.market] = ReferrersOwed[m.market]
       /\ PcOwed[m.market] \in Int /\ CoinOwed[m.market] \in Int
       /\ ReferrersOwed[m.market] \in Int
  <2>1. n.market \in MarketRec /\ m.market \in MarketRec
    BY <1>4, <1>5 DEF AccountsOK, Accounts
  <2>2. /\ n.market.pc_deposits_total
             = market.pc_deposits_total + (IF i.side = "Bid" THEN dep ELSE 0)
        /\ n.market.coin_deposits_total
             = market.coin_deposits_total + (IF i.side = "Bid" THEN 0 ELSE dep)
        /\ n.market.referrer_rebates_accrued = market.referrer_rebates_accrued
    <3>1. market.pc_deposits_total \in Int /\ market.coin_deposits_total \in Int
      BY <1>5, MarketFields
    <3> QED BY <1>1, <1>5, <3>1 DEF MarketRec
  <2>3. /\ market.pc_deposits_total \in Int /\ market.coin_deposits_total \in Int
        /\ market.referrer_rebates_accrued \in Int
    BY <1>5, MarketFields
  <2> QED BY <1>1, <1>4, <2>1, <2>2, <2>3 DEF PcOwed, CoinOwed, ReferrersOwed
<1>12. /\ Over(m.event_q, PcMoved) \in Int /\ Over(m.event_q, CoinMoved) \in Int
       /\ Over(m.event_q, Referred) \in Int /\ n.event_q = m.event_q
  BY <1>1, <1>4, DrainedType, EventWeighs
<1>13. /\ oo.native_coin_total \in Int /\ oo.native_pc_total \in Int
       /\ oo.referrer_rebates_accrued \in Int
  BY <1>3, AccountFields
<1>14. /\ dep \in Int
       /\ p.native_pc_total = oo.native_pc_total + (IF i.side = "Bid" THEN dep ELSE 0)
       /\ p.native_coin_total = oo.native_coin_total + (IF i.side = "Bid" THEN 0 ELSE dep)
  BY <1>1, <1>3
<1> HIDE DEF oo
<1>15. PcOwed[n.market] + Over(n.event_q, PcMoved) + p.native_pc_total
         = PcOwed[m.market] + Over(m.event_q, PcMoved) + oo.native_pc_total
  BY <1>11, <1>12, <1>13, <1>14
<1>16. CoinOwed[n.market] + Over(n.event_q, CoinMoved) + p.native_coin_total
         = CoinOwed[m.market] + Over(m.event_q, CoinMoved) + oo.native_coin_total
  BY <1>11, <1>12, <1>13, <1>14
<1>17. ReferrersOwed[n.market] + Over(n.event_q, Referred) + p.referrer_rebates_accrued
         = ReferrersOwed[m.market] + Over(m.event_q, Referred)
             + oo.referrer_rebates_accrued
  BY <1>3, <1>11, <1>12, <1>13
<1> QED BY <1>6, <1>9, <1>10, <1>15, <1>16, <1>17 DEF Follows, oo

LEMMA SettledFields ==
  ASSUME NEW oo \in OpenOrdersRec, NEW p, p = Settled(oo)
  PROVE  /\ p \in OpenOrdersRec
         /\ \A side \in Side : Locked(p, side) = Locked(oo, side)
         /\ p.native_pc_total = oo.native_pc_total - oo.native_pc_free
         /\ p.native_coin_total = oo.native_coin_total - oo.native_coin_free
         /\ p.native_pc_free = 0 /\ p.native_coin_free = 0
         /\ p.referrer_rebates_accrued = 0 /\ p.orders = oo.orders
         /\ p.initialized = oo.initialized
<1>1. /\ oo.native_coin_free \in Int /\ oo.native_coin_total \in Int
      /\ oo.native_pc_free \in Int /\ oo.native_pc_total \in Int
  BY AccountFields
<1>2. /\ p.native_pc_total = oo.native_pc_total - oo.native_pc_free
      /\ p.native_coin_total = oo.native_coin_total - oo.native_coin_free
      /\ p.native_pc_free = 0 /\ p.native_coin_free = 0
      /\ p.referrer_rebates_accrued = 0 /\ p.orders = oo.orders
      /\ p.initialized = oo.initialized
  BY DEF Settled, OpenOrdersRec
<1>3. p \in OpenOrdersRec
  BY SettledType
<1> QED BY <1>1, <1>2, <1>3 DEF Locked

\* The records of a state.
After(n) ==
  /\ n.bids = bids' /\ n.asks = asks' /\ n.market = market' /\ n.req_q = req_q'
  /\ n.event_q = event_q'

\* What a settlement does.
Settles(t) ==
  /\ open_orders' = [open_orders EXCEPT ![t] = Settled(open_orders[t])]
  /\ market'.pc_deposits_total = market.pc_deposits_total - open_orders[t].native_pc_free
  /\ market'.coin_deposits_total
       = market.coin_deposits_total - open_orders[t].native_coin_free
  /\ market'.referrer_rebates_accrued
       = market.referrer_rebates_accrued - open_orders[t].referrer_rebates_accrued
  /\ market'.pc_fees_accrued \in
       {market.pc_fees_accrued,
        market.pc_fees_accrued + open_orders[t].referrer_rebates_accrued}
  /\ UNCHANGED <<req_q, event_q, bids, asks, next_seq_num>>

\* The market changes, but not what it owes.
Sweeps ==
  /\ market'.pc_deposits_total = market.pc_deposits_total
  /\ market'.coin_deposits_total = market.coin_deposits_total
  /\ market'.referrer_rebates_accrued = market.referrer_rebates_accrued
  /\ market'.pc_fees_accrued \in {0, market.pc_fees_accrued}
  /\ UNCHANGED <<open_orders, req_q, event_q, bids, asks, next_seq_num>>

\* How an action may change the accounts and what the market holds of them.
AccountsStep ==
  \/ \E t \in Traders, i \in Instructions, tier \in FeeTiers : NewOrder(t, i, tier)
  \/ \E c \in CancelRequest :
       /\ req_q' = Append(req_q, c)
       /\ UNCHANGED <<market, open_orders, event_q, bids, asks>>
  \/ \E t \in Traders : Settles(t)
  \/ \E limit \in MatchLimits : MatchOrders(limit)
  \/ \E limit \in ConsumeLimits, accounts \in SUBSET Traders :
       ConsumeEvents(limit, accounts)
  \/ Sweeps

LEMMA SettleFundsDoes ==
  ASSUME TypeOK, NEW t \in Traders, NEW with_referrer \in BOOLEAN,
         SettleFunds(t, with_referrer)
  PROVE  Settles(t)
<1> DEFINE oo == open_orders[t]
           rebates == oo.referrer_rebates_accrued
           to_referrer == IF with_referrer THEN rebates ELSE 0
           coin == market.coin_deposits_total - oo.native_coin_free
           pc == market.pc_deposits_total - oo.native_pc_free
           fees == market.pc_fees_accrued + (rebates - to_referrer)
           owed == market.referrer_rebates_accrued - rebates
<1>1. /\ market' = [market EXCEPT !.coin_deposits_total = coin,
                                  !.pc_deposits_total = pc,
                                  !.pc_fees_accrued = fees,
                                  !.referrer_rebates_accrued = owed]
      /\ open_orders' = [open_orders EXCEPT ![t] = Settled(oo)]
      /\ UNCHANGED <<req_q, next_seq_num, event_q, bids, asks>>
  BY DEF SettleFunds
<1>2. market \in MarketRec /\ rebates \in Int /\ market.pc_fees_accrued \in Int
  <2>1. oo \in OpenOrdersRec /\ market \in MarketRec
    BY DEF TypeOK
  <2> HIDE DEF oo
  <2> QED BY <2>1, AccountFields, MarketFields
<1>3. fees \in {market.pc_fees_accrued, market.pc_fees_accrued + rebates}
  <2> HIDE DEF rebates
  <2> QED BY <1>2
<1>4. /\ market'.coin_deposits_total = coin /\ market'.pc_deposits_total = pc
      /\ market'.pc_fees_accrued = fees /\ market'.referrer_rebates_accrued = owed
  <2> HIDE DEF coin, pc, fees, owed
  <2> QED BY <1>1, <1>2 DEF MarketRec
<1> QED BY <1>1, <1>3, <1>4 DEF Settles

LEMMA StepsOfAccounts ==
  ASSUME TypeOK, [Next]_vars
  PROVE  AccountsStep
<1>1. ASSUME NEW t \in Traders,
             \/ \E side \in Side, id \in KnownIds, slot \in Slots :
                  CancelOrder(t, side, id, slot)
             \/ \E i \in Instructions : CancelOrderByClientId(t, i.client_id)
      PROVE  AccountsStep
  <2>1. \E c \in CancelRequest :
           /\ req_q' = Append(req_q, c)
           /\ next_seq_num < MaxSeq /\ next_seq_num' = next_seq_num + 1
           /\ UNCHANGED <<market, open_orders, event_q, bids, asks>>
    BY <1>1, CancelDoes
  <2> QED BY <2>1 DEF AccountsStep
<1>2. ASSUME NEW t \in Traders, NEW with_referrer \in BOOLEAN,
             SettleFunds(t, with_referrer)
      PROVE  AccountsStep
  BY <1>2, SettleFundsDoes DEF AccountsStep
<1>3. market \in MarketRec
  BY DEF TypeOK
<1>4. CASE SweepFees
  BY <1>3, <1>4 DEF AccountsStep, Sweeps, SweepFees, MarketRec
<1>5. CASE DisableMarket
  BY <1>3, <1>5 DEF AccountsStep, Sweeps, DisableMarket, MarketRec
<1>6. CASE UNCHANGED vars
  BY <1>6 DEF AccountsStep, Sweeps, vars
<1>7. CASE \/ \E t \in Traders, i \in Instructions, tier \in FeeTiers : NewOrder(t, i, tier)
           \/ \E limit \in MatchLimits : MatchOrders(limit)
           \/ \E limit \in ConsumeLimits, accounts \in SUBSET Traders :
                ConsumeEvents(limit, accounts)
  BY <1>7 DEF AccountsStep
<1> QED BY <1>1, <1>2, <1>4, <1>5, <1>6, <1>7 DEF Next

LEMMA SettleFollows ==
  ASSUME TypeOK, NEW t \in Traders, Settles(t), NEW m, m = MarketAccounts, NEW n,
         AccountsOK(n), After(n)
  PROVE  /\ Changes(open_orders, open_orders', t)
         /\ Follows(open_orders, m, open_orders', n, t)
<1> DEFINE oo == open_orders[t]
           p == Settled(oo)
<1>1. /\ open_orders' = [open_orders EXCEPT ![t] = p]
      /\ market'.pc_deposits_total = market.pc_deposits_total - oo.native_pc_free
      /\ market'.coin_deposits_total
           = market.coin_deposits_total - oo.native_coin_free
      /\ market'.referrer_rebates_accrued
           = market.referrer_rebates_accrued - oo.referrer_rebates_accrued
      /\ UNCHANGED <<req_q, event_q, bids, asks>>
  BY DEF Settles
<1>2. open_orders \in [Traders -> OpenOrdersRec] /\ market \in MarketRec
      /\ oo \in OpenOrdersRec
  BY DEF TypeOK
<1> HIDE DEF oo
<1>3. /\ p \in OpenOrdersRec
      /\ \A side \in Side : Locked(p, side) = Locked(oo, side)
      /\ p.native_pc_total = oo.native_pc_total - oo.native_pc_free
      /\ p.native_coin_total = oo.native_coin_total - oo.native_coin_free
      /\ p.native_pc_free = 0 /\ p.native_coin_free = 0
      /\ p.referrer_rebates_accrued = 0 /\ p.orders = oo.orders
  BY <1>2, SettledFields
<1> HIDE DEF p
<1>4. /\ AccountsOK(m) /\ m.bids = bids /\ m.asks = asks /\ m.market = market
      /\ m.req_q = req_q /\ m.event_q = event_q
  BY AccountsOfState DEF MarketAccounts
<1>5. /\ n.bids = m.bids /\ n.asks = m.asks /\ n.req_q = m.req_q
      /\ n.event_q = m.event_q /\ n.market = market'
  BY <1>1, <1>4 DEF After
<1>6. Changes(open_orders, open_orders', t) /\ open_orders'[t] = p
  BY <1>1, <1>2, <1>3 DEF Changes, AccountsType
<1>7. \A v : Drained(n, v) = Drained(m, v)
  BY <1>5, DrainedSame
<1>8. /\ oo.native_coin_total \in Int /\ oo.native_pc_total \in Int
      /\ oo.native_coin_free \in Int /\ oo.native_pc_free \in Int
      /\ oo.referrer_rebates_accrued \in Int
  BY <1>2, AccountFields
<1>9. ASSUME NEW u \in Traders, NEW side \in Side
      PROVE  Drained(n, Held(u, side)) = Drained(m, Held(u, side))
               + (IF u = t THEN Locked(p, side) - Locked(oo, side) ELSE 0)
  <2>1. Drained(n, Held(u, side)) = Drained(m, Held(u, side))
        /\ Drained(m, Held(u, side)) \in Int
    BY <1>4, <1>7, EventWeighs, DrainedIsInt
  <2>2. Locked(oo, side) \in Int
    BY <1>8 DEF Locked
  <2>3. Locked(p, side) = Locked(oo, side)
    BY <1>3
  <2> QED BY <2>1, <2>2, <2>3
<1>10. ASSUME NEW u \in Traders, NEW s \in Slots
       PROVE  Drained(n, Frees(u, s)) = Drained(m, Frees(u, s))
               + (IF u = t /\ p.orders[s] # oo.orders[s]
                  THEN (IF p.orders[s] = Free THEN -1
                        ELSE IF oo.orders[s] = Free THEN 1 ELSE 0)
                  ELSE 0)
  <2>1. Drained(n, Frees(u, s)) = Drained(m, Frees(u, s))
        /\ Drained(m, Frees(u, s)) \in Int
    BY <1>4, <1>7, EventWeighs, DrainedIsInt
  <2> QED BY <1>3, <2>1
<1>11. /\ PcOwed[n.market] = PcOwed[m.market] + oo.native_pc_free
       /\ CoinOwed[n.market] = CoinOwed[m.market] + oo.native_coin_free
       /\ ReferrersOwed[n.market] = ReferrersOwed[m.market] + oo.referrer_rebates_accrued
       /\ PcOwed[m.market] \in Int /\ CoinOwed[m.market] \in Int
       /\ ReferrersOwed[m.market] \in Int
  <2>1. n.market \in MarketRec /\ m.market \in MarketRec
    BY <1>4 DEF AccountsOK, Accounts
  <2>2. /\ market.pc_deposits_total \in Int /\ market.coin_deposits_total \in Int
        /\ market.referrer_rebates_accrued \in Int
    BY <1>2, MarketFields
  <2> QED BY <1>1, <1>4, <1>5, <1>8, <2>1, <2>2 DEF PcOwed, CoinOwed, ReferrersOwed
<1>12. /\ Over(m.event_q, PcMoved) \in Int /\ Over(m.event_q, CoinMoved) \in Int
       /\ Over(m.event_q, Referred) \in Int
  BY <1>4, DrainedType, EventWeighs
<1>13. PcOwed[n.market] + Over(n.event_q, PcMoved) + p.native_pc_total
         = PcOwed[m.market] + Over(m.event_q, PcMoved) + oo.native_pc_total
  BY <1>3, <1>5, <1>8, <1>11, <1>12
<1>14. CoinOwed[n.market] + Over(n.event_q, CoinMoved) + p.native_coin_total
         = CoinOwed[m.market] + Over(m.event_q, CoinMoved) + oo.native_coin_total
  BY <1>3, <1>5, <1>8, <1>11, <1>12
<1>15. ReferrersOwed[n.market] + Over(n.event_q, Referred) + p.referrer_rebates_accrued
         = ReferrersOwed[m.market] + Over(m.event_q, Referred)
             + oo.referrer_rebates_accrued
  BY <1>3, <1>5, <1>8, <1>11, <1>12
<1> QED BY <1>6, <1>9, <1>10, <1>13, <1>14, <1>15 DEF Follows, oo

LEMMA SweepsSame ==
  ASSUME TypeOK, Sweeps, NEW m, m = MarketAccounts, NEW n, AccountsOK(n), After(n)
  PROVE  Same(m, n)
<1>1. /\ AccountsOK(m) /\ m.bids = bids /\ m.asks = asks /\ m.market = market
      /\ m.req_q = req_q /\ m.event_q = event_q
  BY AccountsOfState DEF MarketAccounts
<1>2. /\ n.bids = m.bids /\ n.asks = m.asks /\ n.req_q = m.req_q
      /\ n.event_q = m.event_q
  BY <1>1 DEF After, Sweeps
<1>3. \A v : Drained(n, v) = Drained(m, v)
  BY <1>2, DrainedSame
<1>4. n.market \in MarketRec /\ m.market \in MarketRec
  BY <1>1 DEF AccountsOK, Accounts
<1>5. /\ n.market.pc_deposits_total = m.market.pc_deposits_total
      /\ n.market.coin_deposits_total = m.market.coin_deposits_total
      /\ n.market.referrer_rebates_accrued = m.market.referrer_rebates_accrued
  BY <1>1 DEF After, Sweeps
<1>6. /\ PcOwed[n.market] = PcOwed[m.market] /\ CoinOwed[n.market] = CoinOwed[m.market]
      /\ ReferrersOwed[n.market] = ReferrersOwed[m.market]
  BY <1>4, <1>5 DEF PcOwed, CoinOwed, ReferrersOwed
<1> QED BY <1>2, <1>3, <1>6 DEF Same

LEMMA CancelSame ==
  ASSUME TypeOK, NEW c \in CancelRequest, req_q' = Append(req_q, c),
         UNCHANGED <<market, event_q, bids, asks>>,
         NEW m, m = MarketAccounts, NEW n, AccountsOK(n), After(n)
  PROVE  Same(m, n)
<1>1. /\ AccountsOK(m) /\ m.bids = bids /\ m.asks = asks /\ m.market = market
      /\ m.req_q = req_q /\ m.event_q = event_q
  BY AccountsOfState DEF MarketAccounts
<1>2. /\ n.bids = m.bids /\ n.asks = m.asks /\ n.req_q = Append(m.req_q, c)
      /\ n.event_q = m.event_q /\ n.market = m.market
  BY <1>1 DEF After
<1>3. c \in Request /\ ~IsOrder(c)
  BY DEF Request, IsOrder, CancelRequest, NewOrderRequest
<1>4. ASSUME NEW v, Weighs(v, Event), RequestWeight(v)[c] = 0
      PROVE  Drained(n, v) = Drained(m, v)
  <2>1. /\ Drained(n, v) = Drained(m, v) + RequestWeight(v)[c]
        /\ Drained(m, v) \in Int
    BY ONLY <1>1, <1>2, <1>3, <1>4, DrainedAppend
  <2> QED BY <1>4, <2>1
<1>5. \A t, s : RequestWeight(Held(t, s))[c] = 0 /\ RequestWeight(Frees(t, s))[c] = 0
  BY <1>3, RequestWeighs
<1>6. \A t, s : /\ Drained(n, Held(t, s)) = Drained(m, Held(t, s))
                /\ Drained(n, Frees(t, s)) = Drained(m, Frees(t, s))
  BY <1>4, <1>5, EventWeighs
<1> QED BY <1>2, <1>6 DEF Same

\* Between two instructions what would be queued if all orders were cancelled
\* now tallies with the accounts.
Tally == Tallied(open_orders, MarketAccounts)

\* The market of a state, with some other queue of events.
WithEvents(q) ==
  [bids |-> bids, asks |-> asks, market |-> market, req_q |-> req_q, event_q |-> q,
   ok |-> TRUE]

LEMMA TallyInit == Init => Tally
<1> SUFFICES ASSUME Init PROVE Tally
  OBVIOUS
<1> DEFINE m == MarketAccounts
<1>1. /\ m.req_q = <<>> /\ m.event_q = <<>>
      /\ \A side \in Side : orders(m, side) = {}
      /\ m.market = [coin_deposits_total |-> 0, pc_deposits_total |-> 0,
                     pc_fees_accrued |-> 0, referrer_rebates_accrued |-> 0,
                     disabled |-> FALSE]
  BY DEF Init, MarketAccounts, orders
<1>2. m.market \in MarketRec
  BY <1>1 DEF MarketRec
<1> HIDE DEF m
<1>3. \A v : Over(m.event_q, v) = 0 /\ Drained(m, v) = 0
  <2> TAKE v
  <2>1. Over(m.event_q, v) = 0 /\ RequestsWeigh(m, v) = 0
    BY <1>1, OverEmpty DEF RequestsWeigh
  <2>2. BookWeighs(m, v, "Bid") = 0 /\ BookWeighs(m, v, "Ask") = 0
    BY <1>1, TotalEmpty DEF BookWeighs, Side
  <2> QED BY <2>1, <2>2 DEF Drained
<1>4. PcOwed[m.market] = 0 /\ CoinOwed[m.market] = 0 /\ ReferrersOwed[m.market] = 0
  BY <1>1, <1>2 DEF PcOwed, CoinOwed, ReferrersOwed
<1>5. \A t \in Traders :
        /\ open_orders[t].native_coin_free = 0 /\ open_orders[t].native_coin_total = 0
        /\ open_orders[t].native_pc_free = 0 /\ open_orders[t].native_pc_total = 0
        /\ open_orders[t].referrer_rebates_accrued = 0
        /\ \A s \in Slots : open_orders[t].orders[s] = Free
  BY DEF Init
<1>6. /\ Total(Traders, PcTotals(open_orders)) = 0
      /\ Total(Traders, CoinTotals(open_orders)) = 0
      /\ Total(Traders, Rebates(open_orders)) = 0
  <2>1. \A t \in Traders : /\ PcTotals(open_orders)[t] = 0 /\ CoinTotals(open_orders)[t] = 0
                           /\ Rebates(open_orders)[t] = 0
    BY <1>5 DEF PcTotals, CoinTotals, Rebates
  <2> QED BY <2>1, TotalZero, MarketAssumption
<1>7. HoldsLocked(open_orders, m)
  BY <1>3, <1>5 DEF HoldsLocked, Locked
<1>8. Counted(open_orders, m)
  BY <1>3, <1>5 DEF Counted
<1>9. Owned(open_orders, m)
  BY <1>3, <1>4, <1>6 DEF Owned
<1> QED BY <1>7, <1>8, <1>9 DEF Tally, Tallied, m

\* Only what the sums are of counts.
LEMMA TalliedAs ==
  ASSUME NEW oo, NEW m, NEW n, Tallied(oo, m), ButEvents(m, n), n.event_q = m.event_q
  PROVE  Tallied(oo, n)
<1>1. \A v : Drained(n, v) = Drained(m, v)
  BY DrainedSame DEF ButEvents
<1>2. HoldsLocked(oo, n)
  BY <1>1 DEF Tallied, HoldsLocked
<1>3. Counted(oo, n)
  BY <1>1 DEF Tallied, Counted
<1>4. Owned(oo, n)
  BY DEF Tallied, Owned, ButEvents
<1> QED BY <1>2, <1>3, <1>4 DEF Tallied

LEMMA MatchOrdersTally ==
  ASSUME LotsHaveSize, TypeOK, QInv, BInv, Tally, NEW limit \in MatchLimits, MatchOrders(limit)
  PROVE  Tally'
<1> DEFINE m == MarketAccounts
           n == MarketAccounts'
           seq == next_seq_num
           S == {p \in Accounts : InOrder(p, seq) /\ Tallied(open_orders, p)}
<1>1. /\ AccountsOK(m) /\ InOrder(m, seq) /\ seq \in Int /\ Tallied(open_orders, m)
      /\ open_orders \in AccountsType
  BY AccountsOfState DEF BInv, TypeOK, Tally, AccountsType
<1>2. /\ n.bids = bids' /\ n.asks = asks' /\ n.req_q = req_q' /\ n.event_q = event_q'
      /\ n.market = market'
  BY DEF MarketAccounts
<1>3. m \in S
  BY <1>1, AccountsOfState
<1>4. ASSUME NEW p \in S, NEW q \in Accounts, AccountsOK(p), KeepsBooks(p, q),
             p.req_q # <<>>, q.ok, Pass(p, q, p.req_q[1])
      PROVE  q \in S
  <2> HIDE DEF seq
  <2>1. AccountsOK(q)
    BY <1>4 DEF KeepsBooks
  <2>2. InOrder(p, seq) /\ Tallied(open_orders, p)
    BY <1>4
  <2>3. Ready(p, q, p.req_q[1])
    BY ONLY <1>1, <1>4, <2>1, <2>2, ReadyInOrder
  <2>4. Same(p, q)
    BY ONLY LotsHaveSize, <1>4, <2>3, PassIsSame
  <2>5. Tallied(open_orders, q)
    BY ONLY <1>1, <1>4, <2>1, <2>2, <2>4, SameTallied
  <2>6. InOrder(q, seq)
    BY ONLY <1>1, <1>4, <2>1, <2>2, PassInOrder
  <2> QED BY <2>5, <2>6
<1>5. PICK p \in S : /\ bids' = p.bids /\ asks' = p.asks /\ market' = p.market
                     /\ req_q' = p.req_q /\ event_q' = p.event_q
                     /\ UNCHANGED open_orders
  <2> HIDE DEF S
  <2> QED BY <1>3, <1>4, MatchOrdersDoes DEF QInv
<1>6. Tallied(open_orders, p)
  OBVIOUS
<1> HIDE DEF n, S
<1>7. ButEvents(p, n) /\ n.event_q = p.event_q
  BY <1>2, <1>5 DEF ButEvents
<1>8. Tallied(open_orders, n)
  BY ONLY <1>6, <1>7, TalliedAs
<1> QED BY <1>5, <1>8 DEF Tally, n

LEMMA ConsumeEventsTally ==
  ASSUME TypeOK, TypeOK', Tally, NEW limit \in ConsumeLimits, NEW accounts,
         ConsumeEvents(limit, accounts)
  PROVE  Tally'
<1> DEFINE m == MarketAccounts
           n == MarketAccounts'
           first == [open_orders |-> open_orders, event_q |-> event_q, ok |-> TRUE]
           S == {c \in ConsumedRec : Tallied(c.open_orders, WithEvents(c.event_q))}
<1>1. /\ AccountsOK(m) /\ Tallied(open_orders, m) /\ open_orders \in AccountsType
      /\ event_q \in Seq(Event)
      /\ m.bids = bids /\ m.asks = asks /\ m.req_q = req_q /\ m.event_q = event_q
      /\ m.market = market
  BY AccountsOfState DEF TypeOK, Tally, AccountsType, MarketAccounts
<1>2. ASSUME NEW c, ConsumedOK(c)
      PROVE  /\ AccountsOK(WithEvents(c.event_q))
             /\ ButEvents(m, WithEvents(c.event_q))
             /\ WithEvents(c.event_q).event_q = c.event_q
  <2> DEFINE q == c.event_q
  <2>1. q \in Seq(Event) /\ Len(q) <= EventCap
    BY <1>2 DEF ConsumedOK, ConsumedRec
  <2> HIDE DEF q
  <2>2. /\ WithEvents(q).bids = bids /\ WithEvents(q).asks = asks
        /\ WithEvents(q).req_q = req_q /\ WithEvents(q).market = market
        /\ WithEvents(q).event_q = q
    BY DEF WithEvents
  <2>3. AccountsOK(WithEvents(q))
    BY <2>1 DEF TypeOK, AccountsOK, Accounts, IsBook, WithEvents
  <2>4. ButEvents(m, WithEvents(q))
    BY <1>1, <2>2 DEF ButEvents
  <2> QED BY <2>2, <2>3, <2>4 DEF q
<1>3. first \in S
  <2>1. /\ first \in ConsumedRec /\ first.open_orders = open_orders
        /\ first.event_q = event_q /\ Len(event_q) <= EventCap
    BY <1>1 DEF ConsumedRec, AccountsType, TypeOK
  <2> HIDE DEF first, m
  <2>2. ButEvents(m, WithEvents(event_q)) /\ WithEvents(event_q).event_q = m.event_q
    BY <1>1, <1>2, <2>1 DEF ConsumedOK
  <2>3. Tallied(open_orders, WithEvents(event_q))
    BY ONLY <1>1, <2>2, TalliedAs
  <2> QED BY <2>1, <2>3
<1>4. ASSUME NEW c \in S, NEW d \in ConsumedRec, ConsumedOK(c), ConsumedOK(d),
             c.event_q # <<>>, ConsumesOne(c, d)
      PROVE  d \in S
  <2> DEFINE a == WithEvents(c.event_q)
             b == WithEvents(d.event_q)
             t == c.event_q[1].owner
  <2>1. /\ AccountsOK(a) /\ a.event_q = c.event_q /\ ButEvents(m, a)
        /\ AccountsOK(b) /\ b.event_q = d.event_q /\ ButEvents(m, b)
    BY <1>2, <1>4
  <2>2. Tallied(c.open_orders, a)
    BY <1>4
  <2> HIDE DEF a, b, t, m
  <2>3. ButEvents(a, b)
    BY <2>1 DEF ButEvents
  <2>4. t = c.event_q[1].owner
    BY DEF t
  <2>5. /\ Changes(c.open_orders, d.open_orders, t)
        /\ Follows(c.open_orders, a, d.open_orders, b, t)
    BY ONLY <1>4, <2>1, <2>3, <2>4, ConsumeFollows
  <2>6. Tallied(d.open_orders, b)
    BY ONLY <2>1, <2>2, <2>5, ChangeTallied
  <2> QED BY <2>6 DEF b
<1>5. PICK d \in S : /\ ConsumedOK(d) /\ open_orders' = d.open_orders /\ event_q' = d.event_q
                     /\ UNCHANGED <<market, req_q, next_seq_num, bids, asks>>
  <2> HIDE DEF S
  <2> QED BY <1>3, <1>4, ConsumeEventsSteps
<1>6. Tallied(open_orders', WithEvents(d.event_q))
  BY <1>5
<1>7. /\ n.bids = bids' /\ n.asks = asks' /\ n.req_q = req_q' /\ n.event_q = event_q'
      /\ n.market = market'
  BY DEF MarketAccounts
<1>8. ButEvents(m, WithEvents(d.event_q)) /\ WithEvents(d.event_q).event_q = d.event_q
  BY <1>2, <1>5
<1> HIDE DEF n, S, m
<1>9. ButEvents(WithEvents(d.event_q), n) /\ n.event_q = WithEvents(d.event_q).event_q
  BY <1>1, <1>5, <1>7, <1>8 DEF ButEvents
<1>10. Tallied(open_orders', n)
  BY ONLY <1>6, <1>9, TalliedAs
<1> QED BY <1>10 DEF Tally, n

LEMMA TallyNext ==
  ASSUME LotsHaveSize
  PROVE  IInv /\ QInv /\ BInv /\ Tally /\ [Next]_vars => Tally'
<1> SUFFICES ASSUME TypeOK, TypeOK', QInv, BInv, Tally, [Next]_vars PROVE Tally'
  BY NextOK DEF IInv
<1>1. AccountsStep
  BY StepsOfAccounts
<1> DEFINE m == MarketAccounts
           n == MarketAccounts'
<1>2. AccountsOK(m) /\ Tallied(open_orders, m) /\ open_orders \in AccountsType
  BY AccountsOfState DEF Tally, TypeOK, AccountsType
<1>3. AccountsOK(n) /\ After(n)
  BY DEF TypeOK, AccountsOK, Accounts, IsBook, MarketAccounts, After
<1>4. SUFFICES Tallied(open_orders', n)
  BY DEF Tally
<1>5. m = MarketAccounts
  OBVIOUS
<1>6. ASSUME NEW t \in Traders, Changes(open_orders, open_orders', t),
             Follows(open_orders, m, open_orders', n, t)
      PROVE  Tallied(open_orders', n)
  <2> HIDE DEF m, n
  <2> QED BY ONLY <1>2, <1>3, <1>6, ChangeTallied
<1>7. ASSUME Same(m, n), UNCHANGED open_orders
      PROVE  Tallied(open_orders', n)
  <2> HIDE DEF m, n
  <2>1. Tallied(open_orders, n)
    BY ONLY <1>2, <1>3, <1>7, SameTallied
  <2> QED BY <1>7, <2>1
<1>8. ASSUME NEW t \in Traders, NEW i \in Instructions, NEW tier \in FeeTiers,
             NewOrder(t, i, tier)
      PROVE  Tallied(open_orders', n)
  <2>1. /\ Changes(open_orders, open_orders', t)
        /\ Follows(open_orders, m, open_orders', n, t)
    <3> HIDE DEF m, n
    <3> QED BY <1>3, <1>5, <1>8, NewOrderFollows DEF After
  <2> QED BY <1>6, <2>1
<1>9. ASSUME NEW c \in CancelRequest, req_q' = Append(req_q, c),
             UNCHANGED <<market, open_orders, event_q, bids, asks>>
      PROVE  Tallied(open_orders', n)
  <2>1. Same(m, n)
    <3> HIDE DEF m, n
    <3> QED BY <1>3, <1>5, <1>9, CancelSame
  <2> QED BY <1>7, <1>9, <2>1
<1>10. ASSUME NEW t \in Traders, Settles(t)
       PROVE  Tallied(open_orders', n)
  <2>1. /\ Changes(open_orders, open_orders', t)
        /\ Follows(open_orders, m, open_orders', n, t)
    <3> HIDE DEF m, n
    <3> QED BY <1>3, <1>5, <1>10, SettleFollows
  <2> QED BY <1>6, <2>1
<1>11. CASE Sweeps
  <2>1. Same(m, n)
    <3> HIDE DEF m, n
    <3> QED BY <1>3, <1>5, <1>11, SweepsSame
  <2> QED BY <1>7, <1>11, <2>1 DEF Sweeps
<1>12. ASSUME NEW limit \in MatchLimits, MatchOrders(limit)
       PROVE  Tallied(open_orders', n)
  BY <1>12, MatchOrdersTally DEF Tally
<1>13. ASSUME NEW limit \in ConsumeLimits, NEW accounts \in SUBSET Traders,
              ConsumeEvents(limit, accounts)
       PROVE  Tallied(open_orders', n)
  BY <1>13, ConsumeEventsTally DEF Tally
<1> HIDE DEF n
<1> QED BY <1>1, <1>8, <1>9, <1>10, <1>11, <1>12, <1>13 DEF AccountsStep

LEMMA TallyHolds == ASSUME LotsHaveSize PROVE Spec => []Tally
  BY Inductive, QInvHolds, BInvHolds, TallyInit, TallyNext, PTL DEF Spec

-----------------------------------------------------------------------------
(* From the drained sums to what the properties say                        *)

\* The orders that wait, by their requests.
LEMMA RequestIsOrder ==
  ASSUME NEW r \in Request
  PROVE  /\ IsOrder(r) <=> r.kind = "NewOrder"
         /\ IsOrder(r) => HeldBy(r) = IF r.side = "Bid" THEN r.native_pc_qty_locked
                                                       ELSE r.max_coin_qty * CoinLot
BY DEF Request, IsOrder, NewOrderRequest, CancelRequest, HeldBy

LEMMA HeldInRequests ==
  ASSUME TypeOK, NEW t \in Traders, NEW side \in Side,
         NEW U, U = {k \in RequestsOf(t) : req_q[k].side = side},
         NEW f, f = [k \in U |-> IF side = "Bid" THEN req_q[k].native_pc_qty_locked
                                                 ELSE req_q[k].max_coin_qty * CoinLot]
  PROVE  Total(U, f) = RequestsWeigh(MarketAccounts, Held(t, side))
<1> DEFINE w == RequestWeight(Held(t, side))
<1>1. req_q \in Seq(Request) /\ Weighs(w, Request)
  BY WeightsType, EventWeighs DEF TypeOK
<1>2. \A k \in DOMAIN req_q : req_q[k] \in Request
  BY <1>1
<1>3. U \in SUBSET DOMAIN req_q
  BY DEF RequestsOf
<1>4. ASSUME NEW k \in DOMAIN req_q
      PROVE  /\ w[req_q[k]] = IF IsOrder(req_q[k]) /\ req_q[k].owner = t
                                 /\ req_q[k].side = side
                              THEN HeldBy(req_q[k]) ELSE 0
             /\ k \in U <=> IsOrder(req_q[k]) /\ req_q[k].owner = t
                              /\ req_q[k].side = side
  BY <1>2, <1>4, RequestWeighs, RequestIsOrder DEF RequestsOf
<1>5. \A k \in U : f[k] = w[req_q[k]]
  <2> TAKE k \in U
  <2>1. k \in DOMAIN req_q
    BY <1>3
  <2>2. w[req_q[k]] = HeldBy(req_q[k]) /\ IsOrder(req_q[k]) /\ req_q[k].side = side
    BY <1>4, <2>1
  <2>3. f[k] = IF side = "Bid" THEN req_q[k].native_pc_qty_locked
                               ELSE req_q[k].max_coin_qty * CoinLot
    OBVIOUS
  <2> QED BY <1>2, <2>1, <2>2, <2>3, RequestIsOrder
<1>6. \A k \in DOMAIN req_q \ U : w[req_q[k]] = 0
  BY <1>4
<1> HIDE DEF w
<1>7. Total(U, f) = Over(req_q, w)
  BY ONLY <1>1, <1>3, <1>5, <1>6, OverWhere
<1> QED BY <1>7 DEF RequestsWeigh, MarketAccounts, w

LEMMA HeldInBook ==
  ASSUME TypeOK, NEW t \in Traders, NEW side \in Side,
         NEW U, U = {x \in orders(MarketAccounts, side) : x.owner = t},
         NEW f, f = [x \in U |-> NativeLocked(side, x.quantity, x.id.price)]
  PROVE  /\ Total(U, f) = BookWeighs(MarketAccounts, Held(t, side), side)
         /\ BookWeighs(MarketAccounts, Held(t, side), Opposite(side)) = 0
<1> DEFINE v == Held(t, side)
           S == orders(MarketAccounts, side)
           T == orders(MarketAccounts, Opposite(side))
           g == LeafWeight(v, side)
           h == LeafWeight(v, Opposite(side))
<1>1. AccountsOK(MarketAccounts) /\ Weighs(v, Event) /\ Opposite(side) \in Side
      /\ Opposite(side) # side
  BY AccountsOfState, EventWeighs DEF Opposite, Side
<1>2. /\ IsFiniteSet(S) /\ S \subseteq Leaf /\ IsFiniteSet(T) /\ T \subseteq Leaf
  BY <1>1, DrainedType
<1>3. ASSUME NEW x \in Leaf
      PROVE  /\ g[x] = IF x.owner = t THEN NativeLocked(side, x.quantity, x.id.price) ELSE 0
             /\ h[x] = 0
             /\ NativeLocked(side, x.quantity, x.id.price) \in Int
  <2>1. /\ Worth(side, x) \in Int /\ Worth(Opposite(side), x) \in Int
    BY <1>1, WorthType
  <2>2. g[x] = v[BootEvent(side, x)] /\ h[x] = v[BootEvent(Opposite(side), x)]
    BY <1>1, WeightsType
  <2>3. /\ v[BootEvent(side, x)] = IF x.owner = t THEN Worth(side, x) ELSE 0
        /\ v[BootEvent(Opposite(side), x)] = 0
    BY <1>1, <2>1, OutsWeigh DEF BootEvent
  <2> QED BY <2>1, <2>2, <2>3 DEF Worth
<1>4. Total(U, f) = Total(S, g)
  <2>1. \A x \in U : f[x] \in Int /\ g[x] = f[x]
    BY <1>2, <1>3
  <2>2. \A x \in S \ U : g[x] = 0
    BY <1>2, <1>3
  <2>3. U \in SUBSET S
    OBVIOUS
  <2> HIDE DEF S, g
  <2> QED BY ONLY <1>2, <2>1, <2>2, <2>3, TotalWhere
<1>5. Total(T, h) = 0
  <2>1. \A x \in T : h[x] = 0
    BY <1>2, <1>3
  <2> HIDE DEF T, h
  <2> QED BY ONLY <1>2, <2>1, TotalZero
<1> QED BY <1>4, <1>5 DEF BookWeighs

LEMMA HeldInEvents ==
  ASSUME TypeOK, NEW t \in Traders, NEW side \in Side,
         NEW U, U = {k \in PendingOf(t) : event_q[k].side = side},
         NEW f, f = [k \in U |-> Unlocks(event_q[k])]
  PROVE  Total(U, f) = Over(event_q, Held(t, side))
<1> DEFINE w == Held(t, side)
<1>1. event_q \in Seq(Event) /\ Weighs(w, Event)
  BY EventWeighs DEF TypeOK
<1>2. \A k \in DOMAIN event_q : event_q[k] \in Event
  BY <1>1
<1>3. U \in SUBSET DOMAIN event_q
  BY DEF PendingOf
<1>4. /\ \A k \in U : f[k] = w[event_q[k]]
      /\ \A k \in DOMAIN event_q \ U : w[event_q[k]] = 0
  BY <1>2, <1>3 DEF PendingOf, Held
<1> HIDE DEF w
<1> QED BY <1>1, <1>3, <1>4, OverWhere DEF w

LEMMA HeldIsDrained ==
  ASSUME TypeOK, NEW t \in Traders, NEW side \in Side
  PROVE  HeldByOrders(t, side) = Drained(MarketAccounts, Held(t, side))
<1> DEFINE m == MarketAccounts
           requests == {k \in RequestsOf(t) : req_q[k].side = side}
           leaves   == {x \in orders(m, side) : x.owner = t}
           events   == {k \in PendingOf(t) : event_q[k].side = side}
           a == Total(requests, [k \in requests |->
                         IF side = "Bid" THEN req_q[k].native_pc_qty_locked
                                         ELSE req_q[k].max_coin_qty * CoinLot])
           b == Total(leaves, [x \in leaves |->
                         NativeLocked(side, x.quantity, x.id.price)])
           c == Total(events, [k \in events |-> Unlocks(event_q[k])])
           v == Held(t, side)
<1>1. orders(m, side) = IF side = "Bid" THEN bids ELSE asks
  BY DEF orders, MarketAccounts
<1>2. HeldByOrders(t, side) = a + b + c
  BY <1>1 DEF HeldByOrders
<1>3. a = RequestsWeigh(m, v)
  BY HeldInRequests
<1>4. b = BookWeighs(m, v, side) /\ BookWeighs(m, v, Opposite(side)) = 0
  BY HeldInBook
<1>5. c = Over(m.event_q, v)
  BY HeldInEvents DEF MarketAccounts
<1> HIDE DEF a, b, c
<1>6. /\ RequestsWeigh(m, v) \in Int /\ BookWeighs(m, v, side) \in Int
      /\ Over(m.event_q, v) \in Int
  BY AccountsOfState, DrainedType, EventWeighs
<1>7. Drained(m, v) = RequestsWeigh(m, v) + BookWeighs(m, v, side) + Over(m.event_q, v)
  <2>1. \/ side = "Bid" /\ Opposite(side) = "Ask"
        \/ side = "Ask" /\ Opposite(side) = "Bid"
    BY DEF Side, Opposite
  <2> HIDE DEF m, v
  <2> QED BY <1>4, <1>6, <2>1 DEF Drained
<1> QED BY <1>2, <1>3, <1>4, <1>5, <1>7

LEMMA LockedMatchesOrdersOf ==
  ASSUME TypeOK, Tally
  PROVE  LockedMatchesOrders
<1> SUFFICES ASSUME NEW t \in Traders
             PROVE  /\ Locked(open_orders[t], "Bid") = HeldByOrders(t, "Bid")
                    /\ Locked(open_orders[t], "Ask") = HeldByOrders(t, "Ask")
  BY DEF LockedMatchesOrders, Locked
<1>1. "Bid" \in Side /\ "Ask" \in Side
  BY DEF Side
<1> QED BY <1>1, HeldIsDrained DEF Tally, Tallied, HoldsLocked

\* Not a unit is locked that no order accounts for, nor held by an order that
\* its account does not have locked, through partial fills, rounded fees,
\* self-trades, boots, cancels and events that wait, for any number of orders
\* of a market whose lots have a size
\* (dex/src/state.rs lock_free_pc, unlock_pc, dex/src/matching.rs).
THEOREM LocksMatch == ASSUME LotsHaveSize PROVE Spec => []LockedMatchesOrders
<1>1. IInv /\ Tally => LockedMatchesOrders
  BY LockedMatchesOrdersOf DEF IInv
<1> QED BY <1>1, Inductive, TallyHolds, PTL

\* The events of one trader.
OfTrader(v, t) == [e \in Event |-> IF e.owner = t THEN v[e] ELSE 0]

\* What the queued events of the traders weigh is what all of them weigh.
LEMMA EventsOfAll ==
  ASSUME TypeOK, NEW v, Weighs(v, Event), NEW a, \A t \in Traders : a[t] \in Int
  PROVE  /\ Total(Traders, [t \in Traders |-> a[t] + Over(event_q, OfTrader(v, t))])
              = Total(Traders, a) + Over(event_q, v)
         /\ \A t \in Traders : Weighs(OfTrader(v, t), Event)
<1> DEFINE W == [t \in Traders |-> OfTrader(v, t)]
<1>1. \A t \in Traders : W[t] = OfTrader(v, t)
  OBVIOUS
<1>2. \A t \in Traders, e \in Event : W[t][e] = IF e.owner = t THEN v[e] ELSE 0
  BY <1>1 DEF OfTrader
<1> HIDE DEF W
<1>3. \A t \in Traders : Weighs(W[t], Event)
  BY <1>2 DEF Weighs
<1>4. \A e \in Event : \E t \in Traders :
        W[t][e] = v[e] /\ \A u \in Traders \ {t} : W[u][e] = 0
  <2> TAKE e \in Event
  <2>1. e.owner \in Traders
    BY EventParts
  <2> WITNESS e.owner \in Traders
  <2> QED BY <1>2, <2>1
<1>5. IsFiniteSet(Traders) /\ event_q \in Seq(Event)
  BY MarketAssumption DEF TypeOK
<1>6. Total(Traders, [t \in Traders |-> a[t] + Over(event_q, W[t])])
        = Total(Traders, a) + Over(event_q, v)
  BY ONLY <1>3, <1>4, <1>5, OverParties, Weighs(v, Event), \A t \in Traders : a[t] \in Int
<1>7. [t \in Traders |-> a[t] + Over(event_q, W[t])]
        = [t \in Traders |-> a[t] + Over(event_q, OfTrader(v, t))]
  BY <1>1
<1> QED BY <1>1, <1>3, <1>6, <1>7

\* What the queued events of a trader will do to its totals.
LEMMA PendingIsOver ==
  ASSUME TypeOK, NEW t \in Traders
  PROVE  /\ PendingPc(t) = Over(event_q, OfTrader(PcMoved, t))
         /\ PendingCoin(t) = Over(event_q, OfTrader(CoinMoved, t))
         /\ PendingReferrer(t) = Over(event_q, OfTrader(Referred, t))
<1> DEFINE a == OfTrader(PcMoved, t)
           b == OfTrader(CoinMoved, t)
           c == OfTrader(Referred, t)
           U == {k \in PendingOf(t) : IsFill(event_q[k])}
           R == {k \in PendingOf(t) : IsFill(event_q[k]) /\ ~event_q[k].maker}
           f == [k \in DOMAIN event_q |->
                   IF event_q[k].side = "Bid" THEN -event_q[k].native_qty_paid
                                              ELSE event_q[k].native_qty_released]
           g == [k \in DOMAIN event_q |->
                   IF event_q[k].side = "Bid" THEN event_q[k].native_qty_released
                                              ELSE -event_q[k].native_qty_paid]
           h == [k \in DOMAIN event_q |-> referrer_rebate(event_q[k].native_fee_or_rebate)]
<1>1. /\ event_q \in Seq(Event)
      /\ \A k \in DOMAIN event_q : event_q[k] \in Event
  BY DEF TypeOK
<1>2. Weighs(a, Event) /\ Weighs(b, Event) /\ Weighs(c, Event)
  BY EventWeighs DEF OfTrader, Weighs
<1>3. U \in SUBSET DOMAIN event_q /\ R \in SUBSET DOMAIN event_q
  BY DEF PendingOf
<1>4. /\ \A k \in U : f[k] = a[event_q[k]]
      /\ \A k \in DOMAIN event_q \ U : a[event_q[k]] = 0
  BY <1>1 DEF PendingOf, OfTrader, PcMoved
<1>5. /\ \A k \in U : g[k] = b[event_q[k]]
      /\ \A k \in DOMAIN event_q \ U : b[event_q[k]] = 0
  BY <1>1 DEF PendingOf, OfTrader, CoinMoved
<1>6. /\ \A k \in R : h[k] = c[event_q[k]]
      /\ \A k \in DOMAIN event_q \ R : c[event_q[k]] = 0
  BY <1>1 DEF PendingOf, OfTrader, Referred
<1>7. /\ PendingPc(t) = Total(U, f) /\ PendingCoin(t) = Total(U, g)
      /\ PendingReferrer(t) = Total(R, h)
  BY DEF PendingPc, PendingCoin, PendingReferrer
<1> HIDE DEF a, b, c, U, R, f, g, h
<1>8. Total(U, f) = Over(event_q, a)
  BY ONLY <1>1, <1>2, <1>3, <1>4, OverWhere
<1>9. Total(U, g) = Over(event_q, b)
  BY ONLY <1>1, <1>2, <1>3, <1>5, OverWhere
<1>10. Total(R, h) = Over(event_q, c)
  BY ONLY <1>1, <1>2, <1>3, <1>6, OverWhere
<1> QED BY <1>7, <1>8, <1>9, <1>10 DEF a, b, c

LEMMA DepositsMatchAccountsOf ==
  ASSUME TypeOK, Tally
  PROVE  DepositsMatchAccounts
<1> DEFINE a == PcTotals(open_orders)
           b == CoinTotals(open_orders)
           c == Rebates(open_orders)
           p == Over(event_q, PcMoved)
           q == Over(event_q, CoinMoved)
           r == Over(event_q, Referred)
<1>1. /\ \A t \in Traders : a[t] = open_orders[t].native_pc_total
      /\ \A t \in Traders : b[t] = open_orders[t].native_coin_total
      /\ \A t \in Traders : c[t] = open_orders[t].referrer_rebates_accrued
  BY DEF PcTotals, CoinTotals, Rebates
<1>2. \A t \in Traders : a[t] \in Int /\ b[t] \in Int /\ c[t] \in Int
  BY <1>1, AccountFields DEF TypeOK
<1>3. /\ Total(Traders, a) \in Int /\ Total(Traders, b) \in Int /\ Total(Traders, c) \in Int
  <2>1. IsFiniteSet(Traders)
    BY MarketAssumption
  <2> HIDE DEF a, b, c
  <2> QED BY <1>2, <2>1, TotalInt
<1>4. p \in Int /\ q \in Int /\ r \in Int
  BY OverDomain, EventWeighs DEF TypeOK
<1>5. /\ Total(Traders, [t \in Traders |-> a[t] + Over(event_q, OfTrader(PcMoved, t))])
           = Total(Traders, a) + p
      /\ Total(Traders, [t \in Traders |-> b[t] + Over(event_q, OfTrader(CoinMoved, t))])
           = Total(Traders, b) + q
      /\ Total(Traders, [t \in Traders |-> c[t] + Over(event_q, OfTrader(Referred, t))])
           = Total(Traders, c) + r
  <2> HIDE DEF a, b, c
  <2> QED BY <1>2, EventsOfAll, EventWeighs
<1>6. /\ [t \in Traders |-> a[t] + Over(event_q, OfTrader(PcMoved, t))]
           = [t \in Traders |-> open_orders[t].native_pc_total + PendingPc(t)]
      /\ [t \in Traders |-> b[t] + Over(event_q, OfTrader(CoinMoved, t))]
           = [t \in Traders |-> open_orders[t].native_coin_total + PendingCoin(t)]
      /\ [t \in Traders |-> c[t] + Over(event_q, OfTrader(Referred, t))]
           = [t \in Traders |->
                open_orders[t].referrer_rebates_accrued + PendingReferrer(t)]
  BY <1>1, PendingIsOver
<1>7. /\ market.pc_deposits_total \in Int /\ market.coin_deposits_total \in Int
      /\ market.referrer_rebates_accrued \in Int /\ market \in MarketRec
  BY MarketFields DEF TypeOK
<1>8. /\ p + Total(Traders, a) = market.pc_deposits_total
      /\ q + Total(Traders, b) = market.coin_deposits_total
      /\ r + Total(Traders, c) = market.referrer_rebates_accrued
  <2>1. /\ PcOwed[market] + p + Total(Traders, a) = 0
        /\ CoinOwed[market] + q + Total(Traders, b) = 0
        /\ ReferrersOwed[market] + r + Total(Traders, c) = 0
    BY DEF Tally, Tallied, Owned, MarketAccounts
  <2>2. /\ PcOwed[market] = -market.pc_deposits_total
        /\ CoinOwed[market] = -market.coin_deposits_total
        /\ ReferrersOwed[market] = -market.referrer_rebates_accrued
    BY <1>7 DEF PcOwed, CoinOwed, ReferrersOwed
  <2> DEFINE A == Total(Traders, a)
             B == Total(Traders, b)
             C == Total(Traders, c)
             x == PcOwed[market]
             y == CoinOwed[market]
             z == ReferrersOwed[market]
             d == market.pc_deposits_total
             e == market.coin_deposits_total
             f == market.referrer_rebates_accrued
  <2>3. x + p + A = 0 /\ y + q + B = 0 /\ z + r + C = 0
    BY <2>1
  <2>4. x = -d /\ y = -e /\ z = -f
    BY <2>2
  <2>5. A \in Int /\ B \in Int /\ C \in Int /\ d \in Int /\ e \in Int /\ f \in Int
    BY <1>3, <1>7
  <2> HIDE DEF A, B, C, p, q, r, x, y, z, d, e, f
  <2>6. p + A = d /\ q + B = e /\ r + C = f
    BY ONLY <1>4, <2>3, <2>4, <2>5
  <2> QED BY <2>6 DEF A, B, C, d, e, f
<1> HIDE DEF p, q, r
<1> QED BY <1>3, <1>4, <1>5, <1>6, <1>8 DEF DepositsMatchAccounts

\* The deposits of a market whose lots have a size are what the accounts own
\* once the queued events are applied, and its referrer rebates what they owe:
\* MatchOrders moves the totals of the market, ConsumeEvents those of the
\* accounts, one trader at a time and in other transactions (dex/src/state.rs
\* process_match_orders, process_consume_events).
THEOREM DepositsMatch == ASSUME LotsHaveSize PROVE Spec => []DepositsMatchAccounts
<1>1. IInv /\ Tally => DepositsMatchAccounts
  BY DepositsMatchAccountsOf DEF IInv
<1> QED BY <1>1, Inductive, TallyHolds, PTL

-----------------------------------------------------------------------------
(* What the events of a pass are about                                     *)

SameSlot(a, b) == a.owner = b.owner /\ a.owner_slot = b.owner_slot

\* e is of an order that rests, or of the request at the front.
Carried(m, r, e) ==
  \/ \E x \in orders(m, e.side) : RestOf(e, x)
  \/ IsOrder(r) /\ r.side = e.side /\ RestOf(e, r)

\* No amount of an event is negative.
Signed(e) ==
  e.native_qty_released >= 0 /\ e.native_qty_paid >= 0 /\ e.native_fee_or_rebate >= 0

\* Nothing of an order comes after the Out that frees its slot.
LastOuts(q) ==
  \A j, k \in DOMAIN q : j < k /\ FinalOut(q[j]) => ~SameSlot(q[j], q[k])

Fine(m, r, e) == e \in Event /\ Carried(m, r, e) /\ Signed(e)

FineAll(m, r, events) ==
  /\ events \in Seq(Event) /\ \A e \in Members(events) : Fine(m, r, e)
  /\ LastOuts(events)

\* The request and a resting order of the other side have slots of their own.
Apart(m, r) ==
  IsOrder(r) => \A x \in orders(m, Opposite(r.side)) : ~SameSlot(x, r)

LEMMA LastOutsConcat ==
  ASSUME NEW a \in Seq(Event), NEW b \in Seq(Event), LastOuts(a), LastOuts(b),
         \A d \in Members(a), e \in Members(b) : FinalOut(d) => ~SameSlot(d, e)
  PROVE  LastOuts(a \o b)
<1> DEFINE c == a \o b
<1>1. /\ c \in Seq(Event) /\ Len(c) = Len(a) + Len(b)
      /\ Len(a) \in Nat /\ Len(b) \in Nat
      /\ DOMAIN a = 1 .. Len(a) /\ DOMAIN b = 1 .. Len(b) /\ DOMAIN c = 1 .. Len(c)
      /\ \A i \in 1 .. Len(a) + Len(b) :
           c[i] = IF i <= Len(a) THEN a[i] ELSE b[i - Len(a)]
  BY ConcatProperties, LenProperties
<1> HIDE DEF c
<1> SUFFICES ASSUME NEW j \in DOMAIN c, NEW k \in DOMAIN c, j < k, FinalOut(c[j])
             PROVE  ~SameSlot(c[j], c[k])
  BY DEF LastOuts, c
<1>2. CASE k <= Len(a)
  <2>1. /\ j \in DOMAIN a /\ k \in DOMAIN a /\ c[j] = a[j] /\ c[k] = a[k]
    BY <1>1, <1>2
  <2> QED BY <2>1 DEF LastOuts
<1>3. CASE j <= Len(a) /\ ~(k <= Len(a))
  <2>1. /\ j \in DOMAIN a /\ k - Len(a) \in DOMAIN b /\ c[j] = a[j]
        /\ c[k] = b[k - Len(a)]
    BY <1>1, <1>3
  <2>2. c[j] \in Members(a) /\ c[k] \in Members(b)
    BY <2>1 DEF Members
  <2> QED BY <2>2
<1>4. CASE ~(j <= Len(a))
  <2>1. /\ j - Len(a) \in DOMAIN b /\ k - Len(a) \in DOMAIN b /\ c[j] = b[j - Len(a)]
        /\ c[k] = b[k - Len(a)] /\ j - Len(a) < k - Len(a)
    BY <1>1, <1>4
  <2> QED BY <2>1 DEF LastOuts
<1> QED BY <1>1, <1>2, <1>3, <1>4

LEMMA FineConcat ==
  ASSUME NEW m, NEW r, NEW a, NEW b, FineAll(m, r, a), FineAll(m, r, b),
         \A d \in Members(a), e \in Members(b) : FinalOut(d) => ~SameSlot(d, e)
  PROVE  FineAll(m, r, a \o b)
<1>1. a \in Seq(Event) /\ b \in Seq(Event) /\ a \o b \in Seq(Event)
  BY ConcatProperties DEF FineAll
<1>2. Members(a \o b) = Members(a) \cup Members(b)
  BY <1>1, MembersConcat
<1>3. LastOuts(a \o b)
  BY <1>1, LastOutsConcat DEF FineAll
<1> QED BY <1>1, <1>2, <1>3 DEF FineAll

LEMMA FineFew ==
  ASSUME NEW m, NEW r
  PROVE  /\ FineAll(m, r, <<>>)
         /\ \A e : Fine(m, r, e) => FineAll(m, r, <<e>>)
<1>1. FineAll(m, r, <<>>)
  <2>1. LastOuts(<<>>) /\ <<>> \in Seq(Event)
    BY DEF LastOuts
  <2> QED BY <2>1, MembersFew DEF FineAll
<1>2. ASSUME NEW e, Fine(m, r, e) PROVE FineAll(m, r, <<e>>)
  <2>1. e \in Event
    BY <1>2 DEF Fine
  <2>2. <<e>> \in Seq(Event) /\ DOMAIN <<e>> = {1}
    BY <2>1
  <2>3. LastOuts(<<e>>)
    BY <2>2 DEF LastOuts
  <2> QED BY <1>2, <2>2, <2>3, MembersFew DEF FineAll
<1> QED BY <1>1, <1>2

\* Two events, the first of which frees no slot of the second.
LEMMA FineTwo ==
  ASSUME NEW m, NEW r, NEW d, NEW e, Fine(m, r, d), Fine(m, r, e),
         FinalOut(d) => ~SameSlot(d, e)
  PROVE  FineAll(m, r, <<d, e>>)
<1>1. FineAll(m, r, <<d>>) /\ FineAll(m, r, <<e>>)
  BY FineFew
<1>2. <<d>> \o <<e>> = <<d, e>>
  BY PairOf DEF Fine
<1>3. \A x \in Members(<<d>>), y \in Members(<<e>>) : FinalOut(x) => ~SameSlot(x, y)
  BY MembersFew
<1>4. FineAll(m, r, <<d>> \o <<e>>)
  BY <1>1, <1>3, FineConcat
<1> QED BY <1>2, <1>4

-----------------------------------------------------------------------------
(* Events, one by one                                                      *)

LEMMA OutIsFine ==
  ASSUME NEW m, AccountsOK(m), NEW r, NEW side \in Side, NEW o,
         \/ o \in orders(m, side)
         \/ IsOrder(r) /\ r.side = side /\ o = r,
         NEW a \in Nat, NEW b \in Nat, NEW e, e = OutEvent(side, o, a, b)
  PROVE  /\ Fine(m, r, e) /\ RestOf(e, o) /\ SameSlot(e, o)
         /\ FinalOut(e) <=> b = 0
<1>1. o \in Leaf \cup NewOrderRequest
  BY Maker DEF IsOrder
<1>2. e \in Event
  BY <1>1, OutsWeigh
<1>3. /\ e.kind = "Out" /\ e.side = side /\ e.native_qty_released = a
      /\ e.native_qty_paid = b /\ e.native_fee_or_rebate = 0 /\ e.id = o.id
      /\ e.owner = o.owner /\ e.owner_slot = o.owner_slot /\ e.client_id = o.client_id
  BY DEF OutEvent
<1>4. RestOf(e, o) /\ SameSlot(e, o) /\ (FinalOut(e) <=> b = 0)
  BY <1>3 DEF RestOf, SameSlot, FinalOut
<1>5. Carried(m, r, e)
  BY <1>3, <1>4 DEF Carried
<1>6. Signed(e)
  BY <1>3 DEF Signed
<1> QED BY <1>2, <1>4, <1>5, <1>6 DEF Fine

LEMMA LotsAreNat ==
  ASSUME NEW side \in Side, NEW price \in Positive, NEW a \in Nat
  PROVE  NativeLocked(side, a, price) \in Nat
<1>1. a = a + 0 /\ 0 \in Nat
  OBVIOUS
<1> QED BY <1>1, LotsWorth

LEMMA BootIsFine ==
  ASSUME NEW m, AccountsOK(m), NEW r, NEW side \in Side, NEW x \in orders(m, side)
  PROVE  /\ Fine(m, r, BootEvent(side, x)) /\ FinalOut(BootEvent(side, x))
         /\ SameSlot(BootEvent(side, x), x)
<1>1. x \in Leaf
  BY Maker
<1>2. Worth(side, x) \in Nat
  BY <1>1, LeafParts, LotsAreNat DEF Worth
<1> DEFINE e == BootEvent(side, x)
           a == Worth(side, x)
<1>3. e = OutEvent(side, x, a, 0) /\ 0 \in Nat
  BY DEF BootEvent
<1> HIDE DEF e, a
<1>4. a \in Nat
  BY <1>2 DEF a
<1>5. Fine(m, r, e) /\ SameSlot(e, x) /\ FinalOut(e)
  BY <1>3, <1>4, OutIsFine
<1> QED BY <1>5 DEF e

\* What an order that waits holds is not negative.
LEMMA HeldNat ==
  ASSUME NEW r, IsOrder(r), Pays(r)
  PROVE  HeldBy(r) \in Nat
<1>1. /\ r.native_pc_qty_locked \in Int /\ r.max_coin_qty \in Nat /\ r.side \in Side
      /\ CoinLot \in Nat
  BY RequestFields, MatchingAssumption DEF IsOrder
<1>2. r.max_coin_qty * CoinLot \in Nat
  BY <1>1
<1> QED BY <1>1, <1>2 DEF HeldBy, Pays, Side

\* A trade has a fee, which is no more than what is traded, and a rebate that
\* is no more than that.
LEMMA TradeAmounts ==
  ASSUME LotsHaveSize, NEW r \in NewOrderRequest, NEW x \in Leaf, NEW quantity \in Positive
  PROVE  /\ TradedPc(x, quantity) \in Positive /\ quantity * CoinLot \in Nat
         /\ TradeFee(r, x, quantity) \in Nat /\ TradeRebate(x, quantity) \in Nat
         /\ referrer_rebate(TradeFee(r, x, quantity)) \in Nat
         /\ TradeFee(r, x, quantity)
              > TradeRebate(x, quantity) + referrer_rebate(TradeFee(r, x, quantity))
         /\ TradeFee(r, x, quantity) <= TradedPc(x, quantity)
<1> DEFINE pc == TradedPc(x, quantity)
           fee == TradeFee(r, x, quantity)
           rate == taker_rate(r.fee_tier)
<1>1. /\ x.id.price \in Positive /\ r.fee_tier \in FeeTier /\ x.fee_tier \in FeeTier
      /\ PcLot \in Positive /\ CoinLot \in Nat
  BY LeafFields, OrderFields, MatchingAssumption DEF Positive, LotsHaveSize
<1>2. pc \in Positive /\ quantity * CoinLot \in Nat
  <2>1. quantity * x.id.price \in Positive
    BY <1>1 DEF Positive
  <2> QED BY <1>1, <2>1 DEF TradedPc, Positive
<1>3. /\ fee = taker_fee(r.fee_tier, pc)
      /\ TradeRebate(x, quantity) = maker_rebate(x.fee_tier, pc)
  BY DEF TradeFee, TradeRebate
<1> HIDE DEF pc
<1>4. /\ fee \in Nat \ {0} /\ TradeRebate(x, quantity) \in Nat
      /\ referrer_rebate(fee) \in Nat
      /\ fee > TradeRebate(x, quantity) + referrer_rebate(fee)
  BY <1>1, <1>2, <1>3, NetFee DEF Positive
<1>5. /\ rate \in Nat /\ rate < ONE /\ fee * ONE < rate * pc + ONE
  <2>1. rate \in Nat /\ rate < ONE
    BY <1>1, RateBounds
  <2>2. pc \in Int
    BY <1>2 DEF Positive
  <2> QED BY <1>1, <1>3, <2>1, <2>2, TakerFee
<1> HIDE DEF fee, rate
<1>6. rate * pc <= ONE * pc
  <2>1. ONE \in Nat /\ pc \in Nat
    BY <1>2, OneAssumption DEF Positive
  <2> QED BY <1>5, <2>1, ProductMonotone
<1>7. fee <= pc
  <2>1. ONE \in Nat \ {0} /\ pc \in Nat \ {0} /\ fee \in Nat
    BY <1>2, <1>4, OneAssumption DEF Positive
  <2>2. fee * ONE < (pc + 1) * ONE
    <3>1. rate * pc \in Int /\ ONE * pc \in Int /\ fee * ONE \in Int
          /\ (pc + 1) * ONE = ONE * pc + ONE
      BY <1>5, <2>1
    <3> QED BY <1>5, <1>6, <2>1, <3>1
  <2>3. fee < pc + 1
    <3>1. pc + 1 \in Int /\ fee \in Int
      BY <2>1
    <3> QED BY <2>1, <2>2, <3>1, ProductStrict
  <2> QED BY <2>1, <2>3
<1> QED BY <1>2, <1>4, <1>7 DEF fee, pc

LEMMA FillsAreFine ==
  ASSUME LotsHaveSize, NEW m, AccountsOK(m), NEW r \in NewOrderRequest,
         NEW x \in orders(m, Opposite(r.side)), NEW quantity \in Positive
  PROVE  /\ Fine(m, r, MakerFill(r, x, quantity)) /\ ~FinalOut(MakerFill(r, x, quantity))
         /\ Fine(m, r, TakerFill(r, x, quantity)) /\ ~FinalOut(TakerFill(r, x, quantity))
         /\ SameSlot(TakerFill(r, x, quantity), r)
<1> DEFINE e == MakerFill(r, x, quantity)
           f == TakerFill(r, x, quantity)
           pc == TradedPc(x, quantity)
           fee == TradeFee(r, x, quantity)
           rebate == TradeRebate(x, quantity)
           lots == quantity * CoinLot
<1>1. /\ x \in Leaf /\ r.side \in Side /\ Opposite(r.side) \in Side /\ quantity \in Int
  BY OrderFields, Maker DEF Positive
<1>2. FillsSay(r, x, e, f, pc, fee, rebate, lots)
  BY <1>1, FillAmounts
<1>3. RestOf(e, x) /\ RestOf(f, r) /\ SameSlot(f, r)
  BY DEF MakerFill, TakerFill, FillEvent, RestOf, SameSlot
<1>4. /\ pc \in Positive /\ lots \in Nat /\ fee \in Nat /\ rebate \in Nat
      /\ referrer_rebate(fee) \in Nat
      /\ fee > rebate + referrer_rebate(fee) /\ fee <= pc
  BY <1>1, TradeAmounts
<1> HIDE DEF e, f, pc, fee, rebate, lots
<1>5. e \in Event /\ f \in Event /\ e.side = Opposite(r.side) /\ f.side = r.side
      /\ e.kind = "Fill" /\ f.kind = "Fill"
  BY <1>2 DEF FillsSay
<1>6. Carried(m, r, e) /\ Carried(m, r, f)
  BY <1>3, <1>5 DEF Carried, IsOrder
<1>7. Signed(e)
  <2>1. CASE r.side = "Ask"
    <3>1. /\ e.native_qty_released = lots /\ e.native_qty_paid = pc - rebate
          /\ e.native_fee_or_rebate = rebate
      BY <1>2, <2>1 DEF FillsSay
    <3> QED BY <1>4, <3>1 DEF Signed, Positive
  <2>2. CASE r.side = "Bid"
    <3>1. /\ e.native_qty_released = pc + rebate /\ e.native_qty_paid = lots
          /\ e.native_fee_or_rebate = rebate
      BY <1>2, <2>2 DEF FillsSay
    <3> QED BY <1>4, <3>1 DEF Signed, Positive
  <2> QED BY <1>1, <2>1, <2>2 DEF Side
<1>8. Signed(f)
  <2>1. CASE r.side = "Ask"
    <3>1. /\ f.native_qty_released = pc - fee /\ f.native_qty_paid = lots
          /\ f.native_fee_or_rebate = fee
      BY <1>2, <2>1 DEF FillsSay
    <3> QED BY <1>4, <3>1 DEF Signed, Positive
  <2>2. CASE r.side = "Bid"
    <3>1. /\ f.native_qty_released = lots /\ f.native_qty_paid = pc + fee
          /\ f.native_fee_or_rebate = fee
      BY <1>2, <2>2 DEF FillsSay
    <3> QED BY <1>4, <3>1 DEF Signed, Positive
  <2> QED BY <1>1, <2>1, <2>2 DEF Side
<1>9. ~FinalOut(e) /\ ~FinalOut(f)
  BY <1>5 DEF FinalOut
<1> QED BY <1>3, <1>5, <1>6, <1>7, <1>8, <1>9 DEF Fine, e, f

LEMMA AllFillsAreFine ==
  ASSUME LotsHaveSize, NEW m, AccountsOK(m), NEW r \in NewOrderRequest,
         NEW x \in orders(m, Opposite(r.side)), NEW quantity \in Positive,
         x.owner # r.owner
  PROVE  /\ FineAll(m, r, FillsOf(r, x, quantity))
         /\ \A d \in Members(FillsOf(r, x, quantity)) :
              FinalOut(d) => ~SameSlot(d, r)
<1> DEFINE e == MakerFill(r, x, quantity)
           f == TakerFill(r, x, quantity)
           o == MakerOut(r, x)
           q == FillsOf(r, x, quantity)
<1>1. /\ x \in Leaf /\ r.side \in Side /\ Opposite(r.side) \in Side /\ quantity \in Int
  BY OrderFields, Maker DEF Positive
<1>2. /\ Fine(m, r, e) /\ ~FinalOut(e) /\ Fine(m, r, f) /\ ~FinalOut(f)
      /\ SameSlot(f, r)
  BY FillsAreFine
<1>3. Fine(m, r, o) /\ SameSlot(o, x)
  <2>1. 0 \in Nat /\ o = OutEvent(Opposite(r.side), x, 0, 0)
    BY DEF MakerOut
  <2> HIDE DEF o
  <2> QED BY <1>1, <2>1, OutIsFine
<1>4. q = IF quantity = x.quantity THEN <<e, o, f>> ELSE <<e, f>>
  BY <1>1, FillsShape
<1>5. e \in Event /\ f \in Event /\ o \in Event
  BY <1>2, <1>3 DEF Fine
<1> HIDE DEF e, f, o, q
<1>6. ~SameSlot(o, f) /\ ~SameSlot(o, r)
  BY <1>2, <1>3 DEF SameSlot
<1>7. CASE quantity # x.quantity
  <2>1. q = <<e, f>> /\ FineAll(m, r, <<e, f>>)
    BY <1>2, <1>4, <1>7, FineTwo
  <2> QED BY <1>2, <2>1, MembersFew DEF e, f, o, q
<1>8. CASE quantity = x.quantity
  <2>1. q = <<e, o, f>>
    BY <1>4, <1>8
  <2>2. <<e>> \o <<o>> = <<e, o>> /\ <<e>> \o <<o>> \o <<f>> = <<e, o, f>>
    BY <1>5, PairOf, TripleOf
  <2>3. FineAll(m, r, <<e, o>>) /\ FineAll(m, r, <<f>>)
    BY <1>2, <1>3, FineFew, FineTwo
  <2> DEFINE a == <<e, o>>
             b == <<f>>
  <2>4. Members(a) = {e, o} /\ Members(b) = {f} /\ a \in Seq(Event) /\ b \in Seq(Event)
    BY <1>5, MembersFew
  <2>5. q = a \o b
    BY <2>1, <2>2
  <2> HIDE DEF a, b
  <2>6. \A d \in Members(a), g \in Members(b) : FinalOut(d) => ~SameSlot(d, g)
    BY <1>2, <1>6, <2>4
  <2>7. FineAll(m, r, q)
    BY <2>3, <2>5, <2>6, FineConcat DEF a, b
  <2>8. Members(q) = {e, o} \cup {f}
    BY <2>4, <2>5, MembersConcat
  <2> QED BY <1>2, <1>6, <2>7, <2>8 DEF q
<1> QED BY <1>7, <1>8

\* What a pass appends is of orders that were there; no amount is negative.
AppendsFine(m, n, r) ==
  \E events \in Seq(Event) : Appends(m, n, events) /\ FineAll(m, r, events)

LEMMA AppendsAll ==
  ASSUME NEW m, NEW n, NEW r, NEW events, Appends(m, n, events), FineAll(m, r, events)
  PROVE  AppendsFine(m, n, r)
BY DEF AppendsFine, FineAll

LEMMA PostsFine ==
  ASSUME LotsHaveSize, NEW m, AccountsOK(m), NEW n, NEW r, NEW quantity \in Positive,
         Posts(m, n, r, quantity)
  PROVE  AppendsFine(m, n, r)
<1> DEFINE leaf == LeafOf(r, quantity)
           W == Worth(r.side, leaf)
           events == PostEvents(r, quantity)
<1>1. /\ r \in NewOrderRequest /\ W \in Positive /\ W <= HeldBy(r)
      /\ Placed(m, n, r.side, leaf, events)
  BY DEF Posts, Positive
<1>2. r.side \in Side /\ HeldBy(r) \in Int
  BY <1>1, OrderFields, HeldType
<1>3. events = IF r.side = "Bid" THEN <<OutEvent("Bid", r, HeldBy(r) - W, W)>> ELSE <<>>
  BY DEF PostEvents
<1>4. FineAll(m, r, events) /\ \A d \in Members(events) : ~FinalOut(d)
  <2> HIDE DEF events, W, leaf
  <2>1. CASE r.side = "Bid"
    <3> DEFINE e == OutEvent("Bid", r, HeldBy(r) - W, W)
               a == HeldBy(r) - W
    <3>1. a \in Nat /\ W \in Nat /\ W # 0
      <4> HIDE DEF a
      <4>1. a = HeldBy(r) - W
        BY DEF a
      <4> QED BY <1>1, <1>2, <4>1 DEF Positive
    <3>2. e = OutEvent(r.side, r, a, W)
      BY <2>1
    <3>3. IsOrder(r)
      BY <1>1 DEF IsOrder
    <3> HIDE DEF a, e
    <3>4. Fine(m, r, e) /\ ~FinalOut(e)
      BY ONLY <1>2, <3>1, <3>2, <3>3, OutIsFine, AccountsOK(m)
    <3>5. events = <<e>>
      BY <1>3, <2>1 DEF e
    <3> QED BY <3>4, <3>5, FineFew, MembersFew
  <2>2. CASE r.side # "Bid"
    BY <1>3, <2>2, FineFew, MembersFew
  <2> QED BY <2>1, <2>2
<1> HIDE DEF events
<1>5. CASE Appends(m, n, events)
  BY <1>4, <1>5, AppendsAll
<1>6. ASSUME NEW worst \in orders(m, r.side),
             Appends(m, n, events \o <<BootEvent(r.side, worst)>>)
      PROVE  AppendsFine(m, n, r)
  <2> DEFINE e == BootEvent(r.side, worst)
  <2>1. FineAll(m, r, <<e>>)
    BY <1>2, BootIsFine, FineFew
  <2>2. FineAll(m, r, events \o <<e>>)
    BY <1>4, <2>1, FineConcat
  <2> QED BY <1>6, <2>2, AppendsAll
<1> QED BY <1>1, <1>5, <1>6 DEF Placed

LEMMA SelfTradesFine ==
  ASSUME NEW m, AccountsOK(m), NEW n, NEW r, IsOrder(r) => Pays(r), Apart(m, r),
         NEW x, NEW taken, SelfTrades(m, n, r, x, taken)
  PROVE  AppendsFine(m, n, r)
<1> DEFINE side == Opposite(r.side)
           b == NativeLocked(side, taken, x.id.price)
           c == NativeLocked(side, x.quantity - taken, x.id.price)
           p == ProvideEvent(side, x, taken)
<1>1. /\ r \in NewOrderRequest /\ x \in orders(m, side)
      /\ taken \in Nat /\ taken <= x.quantity
  BY DEF SelfTrades
<1>2. /\ side \in Side /\ r.side \in Side /\ x \in Leaf /\ x.id.price \in Positive
      /\ x.quantity - taken \in Nat /\ IsOrder(r) /\ HeldBy(r) \in Nat
  <2>1. side \in Side /\ r.side \in Side
    BY <1>1, OrderFields
  <2>2. x \in Leaf
    BY <1>1, <2>1, Maker
  <2>3. x.quantity \in Nat /\ x.id.price \in Positive
    BY <2>2, LeafParts
  <2>4. IsOrder(r) /\ HeldBy(r) \in Nat
    BY <1>1, HeldNat DEF IsOrder
  <2> QED BY <1>1, <2>1, <2>2, <2>3, <2>4
<1>3. b \in Nat /\ c \in Nat
  BY <1>1, <1>2, LotsAreNat
<1>4. p = OutEvent(side, x, b, c)
  BY DEF ProvideEvent
<1>5. ~SameSlot(x, r)
  BY <1>1, <1>2 DEF Apart
<1> HIDE DEF b, c, p
<1>6. Fine(m, r, p) /\ SameSlot(p, x)
  <2> HIDE DEF side
  <2> QED BY <1>1, <1>2, <1>3, <1>4, OutIsFine
<1>7. ASSUME NEW h \in Nat, NEW still \in Nat,
             Appends(m, n, <<p, OutEvent(r.side, r, h, still)>>)
      PROVE  AppendsFine(m, n, r)
  <2> DEFINE e == OutEvent(r.side, r, h, still)
  <2>1. e = OutEvent(r.side, r, h, still)
    OBVIOUS
  <2> HIDE DEF e
  <2>5. r.side \in Side /\ IsOrder(r) /\ h \in Nat /\ still \in Nat
    BY <1>2, <1>7
  <2>2. Fine(m, r, e) /\ SameSlot(e, r)
    BY ONLY <2>1, <2>5, OutIsFine, AccountsOK(m)
  <2>3. ~SameSlot(p, e)
    BY <1>5, <1>6, <2>2 DEF SameSlot
  <2>4. FineAll(m, r, <<p, e>>)
    BY <1>6, <2>2, <2>3, FineTwo
  <2> QED BY <1>7, <2>1, <2>4, AppendsAll
<1>8. CASE Appends(m, n, <<p, OutEvent(r.side, r, HeldBy(r), 0)>>)
  <2>1. 0 \in Nat
    OBVIOUS
  <2> QED BY <1>2, <1>7, <1>8, <2>1
<1>9. ASSUME NEW coin \in Nat, NEW pc \in Int, NEW still \in Positive,
             HeldBy(Reduced(r, coin, pc)) <= HeldBy(r),
             Appends(m, n, <<p, OutEvent(r.side, r,
                               HeldBy(r) - HeldBy(Reduced(r, coin, pc)), still)>>)
      PROVE  AppendsFine(m, n, r)
  <2> DEFINE h == HeldBy(r) - HeldBy(Reduced(r, coin, pc))
  <2>1. HeldBy(Reduced(r, coin, pc)) \in Int
    BY <1>1, ReducedFields, HeldType
  <2>2. h \in Nat /\ still \in Nat
    BY <1>2, <1>9, <2>1 DEF Positive
  <2> QED BY <1>7, <1>9, <2>2
<1>10. \/ Appends(m, n, <<p, OutEvent(r.side, r, HeldBy(r), 0)>>)
       \/ \E coin \in Nat, pc \in Int, still \in Positive :
            /\ HeldBy(Reduced(r, coin, pc)) <= HeldBy(r)
            /\ Appends(m, n, <<p, OutEvent(r.side, r,
                               HeldBy(r) - HeldBy(Reduced(r, coin, pc)), still)>>)
  BY DEF SelfTrades, p
<1> QED BY <1>8, <1>9, <1>10

LEMMA TradesFine ==
  ASSUME LotsHaveSize, NEW m, AccountsOK(m), NEW n, NEW r, IsOrder(r) => Pays(r),
         NEW x \in orders(m, Opposite(r.side)), NEW quantity \in Nat,
         Trades(m, n, r, x, quantity)
  PROVE  AppendsFine(m, n, r)
<1> DEFINE events == FillsOf(r, x, quantity)
           h == HeldBy(r) - Cost(r, x, quantity)
           e == OutEvent(r.side, r, h, 0)
<1>1. /\ r \in NewOrderRequest /\ quantity \in Positive /\ x.owner # r.owner
      /\ Cost(r, x, quantity) <= HeldBy(r)
      /\ Appends(m, n, events \o <<e>>) \/ Appends(m, n, events)
  BY DEF Trades
<1>2. /\ FineAll(m, r, events)
      /\ \A d \in Members(events) : FinalOut(d) => ~SameSlot(d, r)
  BY <1>1, AllFillsAreFine
<1>3. h \in Nat /\ 0 \in Nat /\ r.side \in Side /\ IsOrder(r)
  <2>1. x \in Leaf /\ quantity \in Int /\ r.side \in Side
    BY <1>1, OrderFields, Maker DEF Positive
  <2>2. Cost(r, x, quantity) \in Int /\ HeldBy(r) \in Int
    BY <1>1, <2>1, CostType, HeldType
  <2> QED BY <1>1, <2>1, <2>2 DEF IsOrder
<1>4. e = OutEvent(r.side, r, h, 0)
  OBVIOUS
<1> HIDE DEF events, h, e
<1>5. Fine(m, r, e) /\ SameSlot(e, r)
  BY ONLY <1>3, <1>4, OutIsFine, AccountsOK(m)
<1>6. FineAll(m, r, <<e>>)
  BY <1>5, FineFew
<1>7. \A d \in Members(events), f \in Members(<<e>>) : FinalOut(d) => ~SameSlot(d, f)
  BY <1>2, <1>5, MembersFew DEF SameSlot
<1>8. FineAll(m, r, events \o <<e>>)
  BY <1>2, <1>6, <1>7, FineConcat
<1> QED BY <1>1, <1>2, <1>8, AppendsAll

LEMMA PassIsFine ==
  ASSUME LotsHaveSize, NEW m, AccountsOK(m), NEW n, NEW r, Pass(m, n, r), IsOrder(r) => Pays(r),
         Apart(m, r)
  PROVE  AppendsFine(m, n, r)
<1>1. CASE Cancels(m, n, r)
  <2>1. r.side \in Side
    BY <1>1 DEF Cancels, CancelRequest
  <2>2. FineAll(m, r, <<>>)
    BY FineFew
  <2>3. \A x \in orders(m, r.side) : FineAll(m, r, <<BootEvent(r.side, x)>>)
    BY <2>1, BootIsFine, FineFew
  <2> QED BY <1>1, <2>2, <2>3, AppendsAll DEF Cancels
<1>2. CASE Drops(m, n, r)
  <2> DEFINE h == HeldBy(r)
             e == OutEvent(r.side, r, h, 0)
  <2>1. IsOrder(r) /\ r.side \in Side /\ Appends(m, n, <<e>>)
    BY <1>2, OrderFields DEF Drops, IsOrder
  <2>2. h \in Nat /\ 0 \in Nat /\ e = OutEvent(r.side, r, h, 0)
    BY <2>1, HeldNat
  <2> HIDE DEF h, e
  <2>3. Fine(m, r, e)
    BY ONLY <2>1, <2>2, OutIsFine, AccountsOK(m)
  <2> QED BY <2>1, <2>3, FineFew, AppendsAll
<1>3. ASSUME NEW quantity \in Positive, Posts(m, n, r, quantity)
      PROVE  AppendsFine(m, n, r)
  BY <1>3, PostsFine
<1>4. ASSUME NEW x \in orders(m, Opposite(r.side)), NEW quantity \in Nat,
             SelfTrades(m, n, r, x, quantity)
      PROVE  AppendsFine(m, n, r)
  BY <1>4, SelfTradesFine
<1>5. ASSUME NEW x \in orders(m, Opposite(r.side)), NEW quantity \in Nat,
             Trades(m, n, r, x, quantity)
      PROVE  AppendsFine(m, n, r)
  BY <1>5, TradesFine
<1> QED BY <1>1, <1>2, <1>3, <1>4, <1>5 DEF Pass

-----------------------------------------------------------------------------
(* Orders and their slots                                                  *)

\* The slot of the order x holds x.
Agrees(oo, side, x) ==
  oo[x.owner].orders[x.owner_slot]
    = [id |-> x.id, side |-> side, client_id |-> x.client_id]

\* What carries the id of an order agrees with its slot.
Named(oo, m) ==
  /\ \A side \in Side : \A x \in orders(m, side) : Agrees(oo, side, x)
  /\ \A e \in Members(m.event_q) : Agrees(oo, e.side, e)
  /\ \A r \in Members(m.req_q) : IsOrder(r) => Agrees(oo, r.side, r)

Signs(q) == \A e \in Members(q) : Signed(e)

Slotted(oo, m) == Named(oo, m) /\ LastOuts(m.event_q) /\ Signs(m.event_q)

\* A slot is of one order at most.
Exclusive(m) ==
  /\ \A r \in Members(m.req_q), side \in Side : \A x \in orders(m, side) :
       IsOrder(r) => ~SameSlot(x, r)
  /\ \A e \in Members(m.event_q) : FinalOut(e) =>
       /\ \A r \in Members(m.req_q) : IsOrder(r) => ~SameSlot(e, r)
       /\ \A side \in Side : \A x \in orders(m, side) : ~SameSlot(e, x)

\* What is of the slot weighs one.
LEMMA FreesWeigh ==
  ASSUME NEW m, AccountsOK(m), NEW t \in Traders, NEW s \in Slots,
         NEW v, v = Frees(t, s)
  PROVE  /\ Weighs(v, Event) /\ m.req_q \in Seq(Request) /\ m.event_q \in Seq(Event)
         /\ \A side \in Side : IsFiniteSet(orders(m, side)) /\ orders(m, side) \subseteq Leaf
         /\ \A r \in Members(m.req_q) :
              RequestWeight(v)[r]
                = IF IsOrder(r) /\ r.owner = t /\ r.owner_slot = s THEN 1 ELSE 0
         /\ \A e \in Members(m.event_q) :
              v[e] = IF FinalOut(e) /\ e.owner = t /\ e.owner_slot = s THEN 1 ELSE 0
         /\ \A side \in Side : \A x \in orders(m, side) :
              LeafWeight(v, side)[x] = IF x.owner = t /\ x.owner_slot = s THEN 1 ELSE 0
<1>1. /\ Weighs(v, Event) /\ m.req_q \in Seq(Request) /\ m.event_q \in Seq(Event)
      /\ \A side \in Side : IsFiniteSet(orders(m, side)) /\ orders(m, side) \subseteq Leaf
  BY EventWeighs, DrainedType
<1>2. \A r \in Members(m.req_q) :
        RequestWeight(v)[r]
          = IF IsOrder(r) /\ r.owner = t /\ r.owner_slot = s THEN 1 ELSE 0
  <2> TAKE r \in Members(m.req_q)
  <2>1. r \in Request
    BY <1>1, MembersType
  <2> QED BY <2>1, RequestWeighs
<1>3. \A e \in Members(m.event_q) :
        v[e] = IF FinalOut(e) /\ e.owner = t /\ e.owner_slot = s THEN 1 ELSE 0
  <2> TAKE e \in Members(m.event_q)
  <2>1. e \in Event
    BY <1>1, MembersType
  <2> QED BY <2>1 DEF Frees
<1>4. ASSUME NEW side \in Side, NEW x \in orders(m, side)
      PROVE  LeafWeight(v, side)[x] = IF x.owner = t /\ x.owner_slot = s THEN 1 ELSE 0
  <2>1. x \in Leaf
    BY <1>1
  <2>2. LeafWeight(v, side)[x] = v[BootEvent(side, x)]
    BY <1>1, <2>1, WeightsType
  <2>3. Worth(side, x) \in Int /\ 0 \in Int
    BY <2>1, WorthType
  <2> DEFINE a == Worth(side, x)
             e == OutEvent(side, x, a, 0)
  <2>4. e = OutEvent(side, x, a, 0) /\ a \in Int /\ x \in Leaf \cup NewOrderRequest
    BY <2>1, <2>3
  <2>5. BootEvent(side, x) = e
    BY DEF BootEvent
  <2> HIDE DEF a, e
  <2>6. Frees(t, s)[e] = IF x.owner = t /\ x.owner_slot = s THEN 1 ELSE 0
    BY <2>3, <2>4, OutsWeigh
  <2> QED BY <2>2, <2>5, <2>6
<1> QED BY <1>1, <1>2, <1>3, <1>4

\* How many orders have the slot.
LEMMA Counts ==
  ASSUME NEW m, AccountsOK(m), NEW t \in Traders, NEW s \in Slots,
         NEW v, v = Frees(t, s)
  PROVE  /\ RequestsWeigh(m, v) \in Nat /\ Over(m.event_q, v) \in Nat
         /\ \A side \in Side : BookWeighs(m, v, side) \in Nat
         /\ \A r \in Members(m.req_q) :
              IsOrder(r) /\ r.owner = t /\ r.owner_slot = s => RequestsWeigh(m, v) >= 1
         /\ \A e \in Members(m.event_q) :
              FinalOut(e) /\ e.owner = t /\ e.owner_slot = s => Over(m.event_q, v) >= 1
         /\ \A side \in Side : \A x \in orders(m, side) :
              x.owner = t /\ x.owner_slot = s => BookWeighs(m, v, side) >= 1
<1>1. /\ m.req_q \in Seq(Request) /\ m.event_q \in Seq(Event)
      /\ \A side \in Side : IsFiniteSet(orders(m, side)) /\ orders(m, side) \subseteq Leaf
  BY FreesWeigh
<1>2. \A r \in Members(m.req_q) :
        RequestWeight(v)[r]
          = IF IsOrder(r) /\ r.owner = t /\ r.owner_slot = s THEN 1 ELSE 0
  BY FreesWeigh
<1>3. \A e \in Members(m.event_q) :
        v[e] = IF FinalOut(e) /\ e.owner = t /\ e.owner_slot = s THEN 1 ELSE 0
  BY FreesWeigh
<1>4. \A side \in Side : \A x \in orders(m, side) :
        LeafWeight(v, side)[x] = IF x.owner = t /\ x.owner_slot = s THEN 1 ELSE 0
  BY FreesWeigh
<1>5. /\ RequestsWeigh(m, v) \in Nat
      /\ \A r \in Members(m.req_q) : RequestWeight(v)[r] <= RequestsWeigh(m, v)
  <2> DEFINE w == RequestWeight(v)
             q == m.req_q
  <2>1. \A r \in Members(q) : w[r] \in Nat
    BY <1>2
  <2>2. q \in Seq(Request)
    BY <1>1
  <2> HIDE DEF w, q
  <2>3. Over(q, w) \in Nat /\ \A r \in Members(q) : w[r] <= Over(q, w)
    BY <2>1, <2>2, OverNat
  <2> QED BY <2>3 DEF RequestsWeigh, w, q
<1>6. /\ Over(m.event_q, v) \in Nat
      /\ \A e \in Members(m.event_q) : v[e] <= Over(m.event_q, v)
  <2> DEFINE q == m.event_q
  <2>1. \A e \in Members(q) : v[e] \in Nat
    BY <1>3
  <2>2. q \in Seq(Event)
    BY <1>1
  <2> HIDE DEF q
  <2>3. Over(q, v) \in Nat /\ \A e \in Members(q) : v[e] <= Over(q, v)
    BY <2>1, <2>2, OverNat
  <2> QED BY <2>3 DEF q
<1>7. ASSUME NEW side \in Side
      PROVE  /\ BookWeighs(m, v, side) \in Nat
             /\ \A x \in orders(m, side) :
                  LeafWeight(v, side)[x] <= BookWeighs(m, v, side)
  <2> DEFINE S == orders(m, side)
             f == LeafWeight(v, side)
  <2>1. IsFiniteSet(S) /\ \A x \in S : f[x] \in Nat
    BY <1>1, <1>4
  <2> HIDE DEF S, f
  <2>2. Total(S, f) \in Nat /\ \A x \in S : f[x] <= Total(S, f)
    BY <2>1, TotalNat
  <2> QED BY <2>2 DEF BookWeighs, S, f
<1>8. ASSUME NEW r \in Members(m.req_q), IsOrder(r), r.owner = t, r.owner_slot = s
      PROVE  RequestsWeigh(m, v) >= 1
  BY <1>2, <1>5, <1>8
<1>9. ASSUME NEW e \in Members(m.event_q), FinalOut(e), e.owner = t, e.owner_slot = s
      PROVE  Over(m.event_q, v) >= 1
  BY <1>3, <1>6, <1>9
<1>10. ASSUME NEW side \in Side, NEW x \in orders(m, side), x.owner = t, x.owner_slot = s
       PROVE  BookWeighs(m, v, side) >= 1
  <2>1. LeafWeight(v, side)[x] = 1 /\ LeafWeight(v, side)[x] <= BookWeighs(m, v, side)
    BY <1>4, <1>7, <1>10
  <2> QED BY <1>7, <2>1
<1> QED BY <1>5, <1>6, <1>7, <1>8, <1>9, <1>10

LEMMA CountedOnce ==
  ASSUME NEW m, AccountsOK(m), NEW oo, Counted(oo, m)
  PROVE  Exclusive(m)
<1>1. ASSUME NEW t \in Traders, NEW s \in Slots
      PROVE  /\ \A side \in Side :
                  RequestsWeigh(m, Frees(t, s)) + BookWeighs(m, Frees(t, s), side)
                    + Over(m.event_q, Frees(t, s)) <= 1
             /\ RequestsWeigh(m, Frees(t, s)) \in Nat /\ Over(m.event_q, Frees(t, s)) \in Nat
             /\ \A side \in Side : BookWeighs(m, Frees(t, s), side) \in Nat
  <2> DEFINE v == Frees(t, s)
             a == RequestsWeigh(m, v)
             b == BookWeighs(m, v, "Bid")
             c == BookWeighs(m, v, "Ask")
             d == Over(m.event_q, v)
  <2>1. Drained(m, v) = a + b + c + d /\ Drained(m, v) \in {0, 1}
    BY DEF Drained, Counted
  <2>2. v = Frees(t, s)
    OBVIOUS
  <2> HIDE DEF v
  <2>3. a \in Nat /\ d \in Nat /\ \A side \in Side : BookWeighs(m, v, side) \in Nat
    BY <2>2, Counts
  <2>4. b \in Nat /\ c \in Nat
    BY <2>3 DEF Side
  <2>5. a + b + d <= 1 /\ a + c + d <= 1
    <3> HIDE DEF a, b, c, d
    <3> QED BY <2>1, <2>3, <2>4
  <2>6. \A side \in Side : a + BookWeighs(m, v, side) + d <= 1
    BY <2>5 DEF Side
  <2> QED BY <2>3, <2>6 DEF v
<1>2. ASSUME NEW r \in Members(m.req_q), NEW side \in Side, NEW x \in orders(m, side),
             IsOrder(r), SameSlot(x, r)
      PROVE  FALSE
  <2> DEFINE t == x.owner
             s == x.owner_slot
             v == Frees(t, s)
  <2>1. t \in Traders /\ s \in Slots /\ r.owner = t /\ r.owner_slot = s
    BY <1>2, Maker, LeafParts DEF SameSlot
  <2>2. v = Frees(t, s) /\ t = x.owner /\ s = x.owner_slot
    OBVIOUS
  <2> HIDE DEF v, t, s
  <2>3. RequestsWeigh(m, v) >= 1 /\ BookWeighs(m, v, side) >= 1
    BY <1>2, <2>1, <2>2, Counts
  <2> QED BY <1>1, <2>1, <2>2, <2>3
<1>3. ASSUME NEW e \in Members(m.event_q), FinalOut(e), NEW r \in Members(m.req_q),
             IsOrder(r), SameSlot(e, r)
      PROVE  FALSE
  <2> DEFINE t == r.owner
             s == r.owner_slot
             v == Frees(t, s)
  <2>1. t \in Traders /\ s \in Slots /\ e.owner = t /\ e.owner_slot = s
    BY <1>3, RequestFields DEF SameSlot, IsOrder
  <2>2. v = Frees(t, s) /\ t = r.owner /\ s = r.owner_slot
    OBVIOUS
  <2> HIDE DEF v, t, s
  <2>3. RequestsWeigh(m, v) >= 1 /\ Over(m.event_q, v) >= 1
    BY <1>3, <2>1, <2>2, Counts
  <2>4. BookWeighs(m, v, "Bid") \in Nat /\ RequestsWeigh(m, v) + BookWeighs(m, v, "Bid")
                    + Over(m.event_q, v) <= 1
        /\ RequestsWeigh(m, v) \in Nat /\ Over(m.event_q, v) \in Nat
    BY <1>1, <2>1, <2>2 DEF Side
  <2> QED BY <2>3, <2>4
<1>4. ASSUME NEW e \in Members(m.event_q), FinalOut(e), NEW side \in Side,
             NEW x \in orders(m, side), SameSlot(e, x)
      PROVE  FALSE
  <2> DEFINE t == x.owner
             s == x.owner_slot
             v == Frees(t, s)
  <2>1. t \in Traders /\ s \in Slots /\ e.owner = t /\ e.owner_slot = s
    BY <1>4, Maker, LeafParts DEF SameSlot
  <2>2. v = Frees(t, s) /\ t = x.owner /\ s = x.owner_slot
    OBVIOUS
  <2> HIDE DEF v, t, s
  <2>3. Over(m.event_q, v) >= 1 /\ BookWeighs(m, v, side) >= 1
    BY <1>4, <2>1, <2>2, Counts
  <2> QED BY <1>1, <2>1, <2>2, <2>3
<1> QED BY <1>2, <1>3, <1>4 DEF Exclusive

LEMMA RestAgrees ==
  ASSUME NEW z, NEW x, RestOf(z, x)
  PROVE  /\ \A oo, side : Agrees(oo, side, z) <=> Agrees(oo, side, x)
         /\ SameSlot(z, x)
BY DEF RestOf, Agrees, SameSlot

\* What is on the book after a pass was there, or is of the request.
LEMMA LeavesCarried ==
  ASSUME NEW m, NEW n, NEW r, BookAfter(m, n, r), NEW side \in Side,
         NEW z \in orders(n, side)
  PROVE  \/ \E x \in orders(m, side) : RestOf(z, x)
         \/ IsOrder(r) /\ r.side = side /\ RestOf(z, r)
<1>1. ASSUME Shrinks(orders(m, side), orders(n, side))
      PROVE  \E x \in orders(m, side) : RestOf(z, x)
  BY <1>1 DEF Shrinks
<1>2. CASE \A s \in Side : Shrinks(orders(m, s), orders(n, s))
  BY <1>1, <1>2
<1>3. CASE /\ Grows(m, n, r, r.side)
           /\ Shrinks(orders(m, Opposite(r.side)), orders(n, Opposite(r.side)))
  <2>1. PICK y \in orders(n, r.side) :
          /\ Posted(m, n, r, r.side, y)
          /\ Shrinks(orders(m, r.side), orders(n, r.side) \ {y})
    BY <1>3 DEF Grows
  <2>2. r \in NewOrderRequest /\ RestOf(y, r)
    BY <2>1 DEF Posted, RestOf
  <2>3. r.side \in Side
    BY <2>2, OrderFields
  <2>4. CASE side = r.side /\ z = y
    BY <2>2, <2>4 DEF IsOrder
  <2>5. CASE side = r.side /\ z # y
    BY <2>1, <2>5 DEF Shrinks
  <2>6. CASE side # r.side
    <3>1. side = Opposite(r.side)
      BY <2>3, <2>6 DEF Side, Opposite
    <3> QED BY <1>1, <1>3, <3>1
  <2> QED BY <2>4, <2>5, <2>6
<1> QED BY <1>2, <1>3 DEF BookAfter

\* A pass creates nothing that disagrees with its slot.
LEMMA PassSlotted ==
  ASSUME LotsHaveSize, NEW m, AccountsOK(m), NEW n, AccountsOK(n), n.ok, m.req_q # <<>>,
         Pass(m, n, m.req_q[1]), RequestsPay(m.req_q), NEW oo, Exclusive(m),
         Slotted(oo, m)
  PROVE  Slotted(oo, n)
<1> DEFINE r == m.req_q[1]
<1>1. m.req_q \in Seq(Request) /\ m.event_q \in Seq(Event) /\ Pass(m, n, r)
  BY DEF AccountsOK, Accounts
<1>2. r \in Members(m.req_q)
  BY <1>1, MembersTail
<1>3. BookAfter(m, n, r) /\ RequestsAfter(m, n)
  BY PassBook, PassRequests
<1>4. /\ IsOrder(r) => Pays(r)
      /\ Apart(m, r)
      /\ IsOrder(r) => Agrees(oo, r.side, r)
  <2>1. IsOrder(r) => Pays(r)
    BY <1>2 DEF RequestsPay, IsOrder
  <2>2. IsOrder(r) => Opposite(r.side) \in Side
    BY OrderFields DEF IsOrder
  <2> HIDE DEF r
  <2>3. Apart(m, r)
    BY <1>2, <2>2 DEF Apart, Exclusive
  <2> QED BY <1>2, <2>1, <2>3 DEF Slotted, Named
<1> HIDE DEF r
<1>5. PICK events \in Seq(Event) : Appends(m, n, events) /\ FineAll(m, r, events)
  BY <1>1, <1>4, PassIsFine DEF AppendsFine
<1>6. n.event_q = m.event_q \o events
  BY <1>5 DEF Appends
<1>7. Members(n.event_q) = Members(m.event_q) \cup Members(events)
  BY <1>1, <1>6, MembersConcat
<1>8. ASSUME NEW side \in Side, NEW z,
             \/ \E x \in orders(m, side) : RestOf(z, x)
             \/ IsOrder(r) /\ r.side = side /\ RestOf(z, r)
      PROVE  Agrees(oo, side, z)
  <2>1. ASSUME NEW x \in orders(m, side), RestOf(z, x)
        PROVE  Agrees(oo, side, z)
    <3>1. Agrees(oo, side, x)
      BY DEF Slotted, Named
    <3> QED BY <2>1, <3>1, RestAgrees
  <2>2. ASSUME IsOrder(r), r.side = side, RestOf(z, r)
        PROVE  Agrees(oo, side, z)
    BY <1>4, <2>2, RestAgrees
  <2> QED BY <1>8, <2>1, <2>2
<1>9. ASSUME NEW side \in Side, NEW z \in orders(n, side)
      PROVE  Agrees(oo, side, z)
  <2>1. \/ \E x \in orders(m, side) : RestOf(z, x)
        \/ IsOrder(r) /\ r.side = side /\ RestOf(z, r)
    BY <1>3, LeavesCarried
  <2> QED BY <1>8, <2>1
<1>10. ASSUME NEW q \in Members(n.req_q), IsOrder(q)
       PROVE  Agrees(oo, q.side, q)
  <2>1. PICK d \in {0, 1} : \A k \in DOMAIN n.req_q :
          /\ k + d \in DOMAIN m.req_q
          /\ IsOrder(n.req_q[k]) =>
               /\ IsOrder(m.req_q[k + d])
               /\ n.req_q[k].side = m.req_q[k + d].side
               /\ RestOf(n.req_q[k], m.req_q[k + d])
    BY <1>3, RequestsThere
  <2>2. PICK k \in DOMAIN n.req_q : q = n.req_q[k]
    BY DEF Members
  <2> DEFINE p == m.req_q[k + d]
  <2>3. p \in Members(m.req_q) /\ IsOrder(p) /\ q.side = p.side /\ RestOf(q, p)
    BY <1>10, <2>1, <2>2 DEF Members
  <2>4. Agrees(oo, p.side, p)
    <3> HIDE DEF p
    <3> QED BY <2>3 DEF Slotted, Named
  <2> HIDE DEF p
  <2> QED BY <2>3, <2>4, RestAgrees
<1>11. ASSUME NEW e \in Members(events)
       PROVE  Agrees(oo, e.side, e) /\ Signed(e)
  <2>1. e \in Event /\ Carried(m, r, e) /\ Signed(e)
    BY <1>5 DEF FineAll, Fine
  <2>2. e.side \in Side
    BY <2>1, EventParts
  <2> QED BY <1>8, <2>1, <2>2 DEF Carried
<1>12. \A e \in Members(n.event_q) : Agrees(oo, e.side, e) /\ Signed(e)
  BY <1>7, <1>11 DEF Slotted, Named, Signs
<1>13. ASSUME NEW d \in Members(m.event_q), NEW e \in Members(events), FinalOut(d)
       PROVE  ~SameSlot(d, e)
  <2>1. e \in Event /\ Carried(m, r, e)
    BY <1>5 DEF FineAll, Fine
  <2>2. e.side \in Side
    BY <2>1, EventParts
  <2>3. ASSUME NEW x \in orders(m, e.side), RestOf(e, x)
        PROVE  ~SameSlot(d, e)
    <3>1. ~SameSlot(d, x)
      BY <1>13, <2>2 DEF Exclusive
    <3> QED BY <2>3, <3>1 DEF SameSlot, RestOf
  <2>4. ASSUME IsOrder(r), RestOf(e, r)
        PROVE  ~SameSlot(d, e)
    <3>1. ~SameSlot(d, r)
      BY <1>2, <1>13, <2>4 DEF Exclusive
    <3> QED BY <2>4, <3>1 DEF SameSlot, RestOf
  <2> QED BY <2>1, <2>3, <2>4 DEF Carried
<1>14. LastOuts(n.event_q)
  <2>1. LastOuts(m.event_q) /\ LastOuts(events)
    BY <1>5 DEF Slotted, FineAll
  <2>2. LastOuts(m.event_q \o events)
    BY <1>1, <1>13, <2>1, LastOutsConcat
  <2> QED BY <1>6, <2>2
<1> QED BY <1>9, <1>10, <1>12, <1>14 DEF Slotted, Named, Signs

\* An event that leaves the queue takes nothing but its own order off a slot.
LEMMA ConsumeSlotted ==
  ASSUME NEW c, ConsumedOK(c), NEW d, ConsumedOK(d), c.event_q # <<>>, ConsumesOne(c, d),
         NEW m, AccountsOK(m), m.event_q = c.event_q, NEW n, ButEvents(m, n),
         n.event_q = d.event_q, Exclusive(m), Slotted(c.open_orders, m)
  PROVE  Slotted(d.open_orders, n)
<1> DEFINE q == c.event_q
           e == q[1]
           old == c.open_orders
           new == d.open_orders
<1>1. /\ q \in Seq(Event) /\ q # <<>> /\ m.event_q = q /\ n.event_q = Tail(q)
      /\ old \in [Traders -> OpenOrdersRec] /\ new \in [Traders -> OpenOrdersRec]
      /\ e = q[1]
  BY DEF ConsumedOK, ConsumedRec, ConsumesOne
<1>2. /\ Applies(old[e.owner], e, new[e.owner])
      /\ \A t \in Traders \ {e.owner} : new[t] = old[t]
  BY DEF ConsumesOne
<1>3. Exclusive(m) /\ Slotted(old, m) /\ ButEvents(m, n)
  OBVIOUS
<1> HIDE DEF q, old, new, e
<1>4. e \in Event /\ e \in Members(q) /\ e.owner \in Traders /\ e.owner_slot \in Slots
  BY <1>1, MembersTail, MembersType, EventParts
<1>5. ASSUME NEW u \in Traders, NEW s \in Slots,
             ~(FinalOut(e) /\ u = e.owner /\ s = e.owner_slot)
      PROVE  new[u].orders[s] = old[u].orders[s]
  <2>1. CASE u # e.owner
    BY <1>2, <2>1
  <2>2. CASE u = e.owner
    <3>1. new[u].orders = IF FinalOut(e) THEN [old[u].orders EXCEPT ![e.owner_slot] = Free]
                                        ELSE old[u].orders
      BY <1>2, <2>2 DEF Applies
    <3> QED BY <1>5, <2>2, <3>1
  <2> QED BY <2>1, <2>2
<1>6. ASSUME NEW x, x.owner \in Traders, x.owner_slot \in Slots,
             FinalOut(e) => ~SameSlot(e, x), NEW side, Agrees(old, side, x)
      PROVE  Agrees(new, side, x)
  BY <1>5, <1>6 DEF Agrees, SameSlot
<1>7. ASSUME NEW side \in Side, NEW x \in orders(n, side)
      PROVE  Agrees(new, side, x)
  <2>1. x \in orders(m, side)
    BY <1>3 DEF orders, ButEvents
  <2>2. x.owner \in Traders /\ x.owner_slot \in Slots
    BY <2>1, Maker, LeafParts
  <2>3. FinalOut(e) => ~SameSlot(e, x)
    BY <1>1, <1>3, <1>4, <2>1 DEF Exclusive
  <2>4. Agrees(old, side, x)
    BY <1>3, <2>1 DEF Slotted, Named
  <2> QED BY <1>6, <2>2, <2>3, <2>4
<1>8. ASSUME NEW r \in Members(n.req_q), IsOrder(r)
      PROVE  Agrees(new, r.side, r)
  <2>1. r \in Members(m.req_q)
    BY <1>3 DEF ButEvents
  <2>2. r.owner \in Traders /\ r.owner_slot \in Slots
    BY <1>8, RequestFields DEF IsOrder
  <2>3. FinalOut(e) => ~SameSlot(e, r)
    BY <1>1, <1>3, <1>4, <1>8, <2>1 DEF Exclusive
  <2>4. Agrees(old, r.side, r)
    BY <1>3, <1>8, <2>1 DEF Slotted, Named
  <2> QED BY <1>6, <2>2, <2>3, <2>4
<1>9. /\ DOMAIN q = 1 .. Len(q) /\ Len(q) \in Nat /\ DOMAIN Tail(q) = 1 .. Len(q) - 1
      /\ \A k \in DOMAIN Tail(q) : Tail(q)[k] = q[k + 1] /\ k + 1 \in DOMAIN q /\ k >= 1
                                    /\ k \in Nat
      /\ 1 \in DOMAIN q
  BY <1>1
<1>10. ASSUME NEW k \in DOMAIN Tail(q)
       PROVE  Agrees(new, Tail(q)[k].side, Tail(q)[k]) /\ Signed(Tail(q)[k])
  <2> DEFINE f == q[k + 1]
  <2>1. f = Tail(q)[k] /\ f \in Members(q)
    BY <1>9 DEF Members
  <2>2. f \in Event /\ f.owner \in Traders /\ f.owner_slot \in Slots
    BY <1>1, <1>9, EventParts
  <2>3. FinalOut(e) => ~SameSlot(e, f)
    BY <1>1, <1>3, <1>9 DEF Slotted, LastOuts
  <2>4. Agrees(old, f.side, f) /\ Signed(f)
    BY <1>1, <1>3, <2>1 DEF Slotted, Named, Signs
  <2> HIDE DEF f
  <2> QED BY <1>6, <2>1, <2>2, <2>3, <2>4
<1>11. LastOuts(Tail(q))
  <2> SUFFICES ASSUME NEW j \in DOMAIN Tail(q), NEW k \in DOMAIN Tail(q), j < k,
                      FinalOut(Tail(q)[j])
               PROVE  ~SameSlot(Tail(q)[j], Tail(q)[k])
    BY DEF LastOuts
  <2>1. j + 1 \in DOMAIN q /\ k + 1 \in DOMAIN q /\ j + 1 < k + 1
    BY <1>9
  <2> QED BY <1>1, <1>3, <1>9, <2>1 DEF Slotted, LastOuts
<1> QED BY <1>1, <1>7, <1>8, <1>10, <1>11 DEF Slotted, Named, Signs, Members, new

\* Between two instructions what carries the id of an order agrees with its
\* slot, and nothing of an order is queued behind its last event.
SlotInv == Slotted(open_orders, MarketAccounts)

LEMMA SlotInvInit == Init => SlotInv
<1> SUFFICES ASSUME Init PROVE SlotInv
  OBVIOUS
<1> DEFINE m == MarketAccounts
<1>1. /\ m.req_q = <<>> /\ m.event_q = <<>>
      /\ \A side \in Side : orders(m, side) = {}
  BY DEF Init, MarketAccounts, orders
<1> HIDE DEF m
<1>2. Members(m.req_q) = {} /\ Members(m.event_q) = {}
  BY <1>1, MembersFew
<1>3. Named(open_orders, m) /\ Signs(m.event_q)
  BY <1>1, <1>2 DEF Named, Signs
<1>4. LastOuts(m.event_q)
  BY <1>1 DEF LastOuts
<1> QED BY <1>3, <1>4 DEF SlotInv, Slotted, m

LEMMA SlottedAs ==
  ASSUME NEW oo, NEW m, NEW n, Slotted(oo, m), ButEvents(m, n), n.event_q = m.event_q
  PROVE  Slotted(oo, n)
<1>1. \A side : orders(n, side) = orders(m, side)
  BY DEF ButEvents, orders
<1> QED BY <1>1 DEF Slotted, Named, ButEvents

\* The slots of live orders stay as they are.
Holds(oo, p) ==
  \A u \in Traders, s \in Slots :
    oo[u].orders[s] # Free => p[u].orders[s] = oo[u].orders[s]

LEMMA HoldsSlotted ==
  ASSUME NEW oo, NEW p, Holds(oo, p), NEW m, AccountsOK(m), Slotted(oo, m)
  PROVE  Slotted(p, m)
<1>1. ASSUME NEW side \in Side, NEW x, x.owner \in Traders, x.owner_slot \in Slots,
             x.id \in OrderId, x.client_id \in Nat, Agrees(oo, side, x)
      PROVE  Agrees(p, side, x)
  <2> DEFINE o == [id |-> x.id, side |-> side, client_id |-> x.client_id]
  <2>1. o \in SlotRec
    BY <1>1 DEF SlotRec
  <2>2. o # Free
    BY <2>1, FreeAssumption
  <2> HIDE DEF o
  <2>3. oo[x.owner].orders[x.owner_slot] = o
    BY <1>1 DEF Agrees, o
  <2>4. p[x.owner].orders[x.owner_slot] = o
    BY <1>1, <2>2, <2>3 DEF Holds
  <2> QED BY <2>4 DEF Agrees, o
<1>2. ASSUME NEW side \in Side, NEW x \in orders(m, side)
      PROVE  Agrees(p, side, x)
  <2>1. x \in Leaf
    BY Maker
  <2>2. /\ x.owner \in Traders /\ x.owner_slot \in Slots /\ x.id \in OrderId
        /\ x.client_id \in Nat
    BY <2>1, LeafParts
  <2> QED BY <1>1, <2>2 DEF Slotted, Named
<1>3. m.req_q \in Seq(Request) /\ m.event_q \in Seq(Event)
  BY DEF AccountsOK, Accounts
<1>4. ASSUME NEW e \in Members(m.event_q)
      PROVE  Agrees(p, e.side, e)
  <2>1. e \in Event
    BY <1>3, MembersType
  <2>2. /\ e.owner \in Traders /\ e.owner_slot \in Slots /\ e.id \in OrderId
        /\ e.client_id \in Nat /\ e.side \in Side
    BY <2>1, EventParts
  <2> QED BY <1>1, <2>2 DEF Slotted, Named
<1>5. ASSUME NEW r \in Members(m.req_q), IsOrder(r)
      PROVE  Agrees(p, r.side, r)
  <2>1. /\ r.owner \in Traders /\ r.owner_slot \in Slots /\ r.id \in OrderId
        /\ r.client_id \in Nat /\ r.side \in Side
    BY <1>5, RequestFields DEF IsOrder
  <2> QED BY <1>1, <1>5, <2>1 DEF Slotted, Named
<1> QED BY <1>2, <1>4, <1>5 DEF Slotted, Named

\* A request joins the queue.
LEMMA JoinsSlotted ==
  ASSUME NEW oo, NEW m, AccountsOK(m), Slotted(oo, m), NEW r \in Request,
         IsOrder(r) => Agrees(oo, r.side, r), NEW n, n.bids = m.bids, n.asks = m.asks,
         n.event_q = m.event_q, n.req_q = Append(m.req_q, r)
  PROVE  Slotted(oo, n)
<1>1. \A side : orders(n, side) = orders(m, side)
  BY DEF orders
<1>2. m.req_q \in Seq(Request)
  BY DEF AccountsOK, Accounts
<1>3. Members(n.req_q) = Members(m.req_q) \cup {r}
  BY <1>2, AppendRequest
<1> QED BY <1>1, <1>3 DEF Slotted, Named

LEMMA NewOrderSlotted ==
  ASSUME TypeOK, SlotInv, NEW t \in Traders, NEW i \in Instructions, NEW tier \in FeeTiers,
         NewOrder(t, i, tier), NEW n, After(n)
  PROVE  Slotted(open_orders', n)
<1> DEFINE m == MarketAccounts
           old == open_orders
           new == open_orders'
           r == RequestOf(t, i, tier)
           p == Ordered(t, i, tier)
           k == SlotOf(t)
<1>1. /\ k \in Slots /\ old[t].orders[k] = Free /\ r \in NewOrderRequest
      /\ OrderOf(i) \in SlotRec /\ Brings(t, i, tier) \in Int
      /\ Locks(i, tier) \in Nat
      /\ new = [old EXCEPT ![t] = p]
      /\ req_q' = Append(req_q, r) /\ UNCHANGED <<event_q, bids, asks>>
  BY NewOrderDoes
<1>2. p.orders = [old[t].orders EXCEPT ![k] = OrderOf(i)]
  BY <1>1, OrderedFields
<1>3. old \in [Traders -> OpenOrdersRec]
  BY DEF TypeOK
<1>4. old[t].orders \in SlotsType
  BY <1>3, AccountFields
<1>5. /\ AccountsOK(m) /\ Slotted(old, m) /\ m.bids = bids /\ m.asks = asks
      /\ m.req_q = req_q /\ m.event_q = event_q
  BY AccountsOfState DEF SlotInv, MarketAccounts
<1>6. /\ r.owner = t /\ r.owner_slot = k /\ r.side = i.side /\ r.client_id = i.client_id
      /\ r.id = OrderOf(i).id
  BY DEF RequestOf, OrderOf
<1>7. OrderOf(i) = [id |-> OrderOf(i).id, side |-> i.side, client_id |-> i.client_id]
  BY DEF OrderOf
<1> HIDE DEF m, old, new, r, p, k
<1>8. new[t] = p /\ new[t].orders[k] = OrderOf(i)
  BY <1>1, <1>2, <1>3, <1>4 DEF SlotsType
<1>9. Holds(old, new)
  BY <1>1, <1>2, <1>3, <1>4, <1>8 DEF Holds, SlotsType
<1>10. Slotted(new, m)
  BY ONLY <1>5, <1>9, HoldsSlotted
<1>11. Agrees(new, r.side, r)
  BY <1>6, <1>7, <1>8 DEF Agrees
<1>12. /\ r \in Request /\ n.bids = m.bids /\ n.asks = m.asks
       /\ n.event_q = m.event_q /\ n.req_q = Append(m.req_q, r)
  BY <1>1, <1>5 DEF After, Request
<1>13. Slotted(new, n)
  BY ONLY <1>5, <1>10, <1>11, <1>12, JoinsSlotted
<1> QED BY <1>13 DEF new

LEMMA MatchOrdersSlotted ==
  ASSUME LotsHaveSize, TypeOK, QInv, BInv, Tally, SlotInv, NEW limit \in MatchLimits,
         MatchOrders(limit)
  PROVE  SlotInv'
<1> DEFINE m == MarketAccounts
           n == MarketAccounts'
           seq == next_seq_num
           S == {p \in Accounts : /\ InOrder(p, seq) /\ Tallied(open_orders, p)
                                  /\ Slotted(open_orders, p)}
<1>1. /\ AccountsOK(m) /\ InOrder(m, seq) /\ seq \in Int /\ Tallied(open_orders, m)
      /\ open_orders \in AccountsType /\ Slotted(open_orders, m)
  BY AccountsOfState DEF BInv, TypeOK, Tally, AccountsType, SlotInv
<1>2. /\ n.bids = bids' /\ n.asks = asks' /\ n.req_q = req_q' /\ n.event_q = event_q'
      /\ n.market = market'
  BY DEF MarketAccounts
<1>3. m \in S
  BY <1>1, AccountsOfState
<1>4. ASSUME NEW p \in S, NEW q \in Accounts, AccountsOK(p), KeepsBooks(p, q),
             RequestsPay(p.req_q), p.req_q # <<>>, q.ok, Pass(p, q, p.req_q[1])
      PROVE  q \in S
  <2> HIDE DEF seq
  <2>1. AccountsOK(q)
    BY <1>4 DEF KeepsBooks
  <2>2. InOrder(p, seq) /\ Tallied(open_orders, p) /\ Slotted(open_orders, p)
    BY <1>4
  <2>3. Ready(p, q, p.req_q[1])
    BY ONLY <1>1, <1>4, <2>1, <2>2, ReadyInOrder
  <2>4. Same(p, q)
    BY ONLY LotsHaveSize, <1>4, <2>3, PassIsSame
  <2>5. Tallied(open_orders, q)
    BY ONLY <1>1, <1>4, <2>1, <2>2, <2>4, SameTallied
  <2>6. InOrder(q, seq)
    BY ONLY <1>1, <1>4, <2>1, <2>2, PassInOrder
  <2>7. Counted(open_orders, p)
    BY <2>2 DEF Tallied
  <2>8. Exclusive(p)
    BY ONLY <1>4, <2>7, CountedOnce
  <2>9. Slotted(open_orders, q)
    BY ONLY LotsHaveSize, <1>4, <2>1, <2>2, <2>8, PassSlotted
  <2> QED BY <2>5, <2>6, <2>9
<1>5. PICK p \in S : /\ bids' = p.bids /\ asks' = p.asks /\ market' = p.market
                     /\ req_q' = p.req_q /\ event_q' = p.event_q
                     /\ UNCHANGED open_orders
  <2> HIDE DEF S
  <2> QED BY <1>3, <1>4, MatchOrdersDoes DEF QInv
<1>6. Slotted(open_orders, p)
  OBVIOUS
<1> HIDE DEF n, S
<1>7. ButEvents(p, n) /\ n.event_q = p.event_q
  BY <1>2, <1>5 DEF ButEvents
<1>8. Slotted(open_orders, n)
  BY ONLY <1>6, <1>7, SlottedAs
<1> QED BY <1>5, <1>8 DEF SlotInv, n

\* The accounts in the course of a call of ConsumeEvents.
LEMMA WithEventsOK ==
  ASSUME TypeOK, NEW c, ConsumedOK(c)
  PROVE  /\ AccountsOK(WithEvents(c.event_q))
         /\ ButEvents(MarketAccounts, WithEvents(c.event_q))
         /\ WithEvents(c.event_q).event_q = c.event_q
<1> DEFINE q == c.event_q
           m == MarketAccounts
<1>1. q \in Seq(Event) /\ Len(q) <= EventCap
  BY DEF ConsumedOK, ConsumedRec
<1>2. m.bids = bids /\ m.asks = asks /\ m.req_q = req_q /\ m.market = market
  BY DEF MarketAccounts
<1> HIDE DEF q, m
<1>3. /\ WithEvents(q).bids = bids /\ WithEvents(q).asks = asks
      /\ WithEvents(q).req_q = req_q /\ WithEvents(q).market = market
      /\ WithEvents(q).event_q = q
  BY DEF WithEvents
<1>4. AccountsOK(WithEvents(q))
  BY <1>1 DEF TypeOK, AccountsOK, Accounts, IsBook, WithEvents
<1>5. ButEvents(m, WithEvents(q))
  BY <1>2, <1>3 DEF ButEvents
<1> QED BY <1>3, <1>4, <1>5 DEF q, m

\* What the accounts are in the course of a call.
Consistent(c) ==
  /\ Tallied(c.open_orders, WithEvents(c.event_q))
  /\ Slotted(c.open_orders, WithEvents(c.event_q))

LEMMA ConsumeConsistent ==
  ASSUME TypeOK, NEW c, ConsumedOK(c), NEW d, ConsumedOK(d), c.event_q # <<>>,
         ConsumesOne(c, d), Consistent(c)
  PROVE  Consistent(d)
<1> DEFINE a == WithEvents(c.event_q)
           b == WithEvents(d.event_q)
           t == c.event_q[1].owner
<1>1. /\ AccountsOK(a) /\ a.event_q = c.event_q /\ ButEvents(MarketAccounts, a)
      /\ AccountsOK(b) /\ b.event_q = d.event_q /\ ButEvents(MarketAccounts, b)
  BY WithEventsOK
<1>2. Tallied(c.open_orders, a) /\ Slotted(c.open_orders, a) /\ t = c.event_q[1].owner
  BY DEF Consistent
<1>3. /\ ConsumedOK(c) /\ ConsumedOK(d) /\ c.event_q # <<>> /\ ConsumesOne(c, d)
  OBVIOUS
<1> HIDE DEF a, b, t
<1>4. ButEvents(a, b)
  BY <1>1 DEF ButEvents
<1>5. /\ Changes(c.open_orders, d.open_orders, t)
      /\ Follows(c.open_orders, a, d.open_orders, b, t)
  BY ONLY <1>1, <1>2, <1>3, <1>4, ConsumeFollows
<1>6. Tallied(d.open_orders, b)
  BY ONLY <1>1, <1>2, <1>5, ChangeTallied
<1>7. Counted(c.open_orders, a)
  BY <1>2 DEF Tallied
<1>8. Exclusive(a)
  BY ONLY <1>1, <1>7, CountedOnce
<1>9. Slotted(d.open_orders, b)
  BY ONLY <1>1, <1>2, <1>3, <1>4, <1>8, ConsumeSlotted
<1> QED BY <1>6, <1>9 DEF Consistent, b

\* The accounts of a call when it begins.
FirstOf == [open_orders |-> open_orders, event_q |-> event_q, ok |-> TRUE]

LEMMA FirstConsistent ==
  ASSUME TypeOK, Tally, SlotInv
  PROVE  /\ FirstOf \in ConsumedRec /\ ConsumedOK(FirstOf) /\ Consistent(FirstOf)
         /\ FirstOf.open_orders = open_orders /\ FirstOf.event_q = event_q /\ FirstOf.ok
<1> DEFINE m == MarketAccounts
           first == FirstOf
<1>1. /\ first \in ConsumedRec /\ first.open_orders = open_orders
      /\ first.event_q = event_q /\ Len(event_q) <= EventCap /\ first.ok
  BY DEF ConsumedRec, TypeOK, FirstOf
<1>2. Tallied(open_orders, m) /\ Slotted(open_orders, m) /\ m.event_q = event_q
  BY DEF Tally, SlotInv, MarketAccounts
<1> HIDE DEF first
<1>3. ConsumedOK(first)
  BY <1>1 DEF ConsumedOK
<1>4. ButEvents(m, WithEvents(event_q)) /\ WithEvents(event_q).event_q = m.event_q
  BY <1>1, <1>2, <1>3, WithEventsOK
<1> HIDE DEF m
<1>5. Tallied(open_orders, WithEvents(event_q)) /\ Slotted(open_orders, WithEvents(event_q))
  BY ONLY <1>2, <1>4, TalliedAs, SlottedAs
<1> QED BY <1>1, <1>3, <1>5 DEF Consistent, first

LEMMA ConsumeEventsSlotted ==
  ASSUME TypeOK, TypeOK', Tally, SlotInv, NEW limit \in ConsumeLimits, NEW accounts,
         ConsumeEvents(limit, accounts)
  PROVE  SlotInv'
<1> DEFINE n == MarketAccounts'
           S == {c \in ConsumedRec : Consistent(c)}
<1>1. FirstOf \in S
  BY FirstConsistent
<1>2. ASSUME NEW c \in S, NEW d \in ConsumedRec, ConsumedOK(c), ConsumedOK(d),
             c.event_q # <<>>, ConsumesOne(c, d)
      PROVE  d \in S
  BY <1>2, ConsumeConsistent
<1>3. PICK d \in S : /\ ConsumedOK(d) /\ open_orders' = d.open_orders /\ event_q' = d.event_q
                     /\ UNCHANGED <<market, req_q, next_seq_num, bids, asks>>
  <2> HIDE DEF S
  <2> QED BY <1>1, <1>2, ConsumeEventsSteps DEF FirstOf
<1>4. Slotted(open_orders', WithEvents(d.event_q))
  BY <1>3 DEF Consistent
<1>5. /\ n.bids = bids' /\ n.asks = asks' /\ n.req_q = req_q' /\ n.event_q = event_q'
      /\ n.market = market'
  BY DEF MarketAccounts
<1>6. /\ ButEvents(MarketAccounts, WithEvents(d.event_q))
      /\ WithEvents(d.event_q).event_q = d.event_q
      /\ MarketAccounts.bids = bids /\ MarketAccounts.asks = asks
      /\ MarketAccounts.req_q = req_q /\ MarketAccounts.market = market
  BY <1>3, WithEventsOK DEF MarketAccounts
<1> HIDE DEF n, S
<1>7. ButEvents(WithEvents(d.event_q), n) /\ n.event_q = WithEvents(d.event_q).event_q
  BY <1>3, <1>5, <1>6 DEF ButEvents
<1>8. Slotted(open_orders', n)
  BY ONLY <1>4, <1>7, SlottedAs
<1> QED BY <1>8 DEF SlotInv, n

LEMMA SlotInvNext ==
  ASSUME LotsHaveSize
  PROVE  IInv /\ QInv /\ BInv /\ Tally /\ SlotInv /\ [Next]_vars => SlotInv'
<1> SUFFICES ASSUME TypeOK, TypeOK', QInv, BInv, Tally, SlotInv, [Next]_vars
             PROVE  SlotInv'
  BY NextOK DEF IInv
<1>1. AccountsStep
  BY StepsOfAccounts
<1> DEFINE m == MarketAccounts
           n == MarketAccounts'
<1>2. AccountsOK(m) /\ Slotted(open_orders, m) /\ open_orders \in [Traders -> OpenOrdersRec]
  BY AccountsOfState DEF SlotInv, TypeOK
<1>3. /\ AccountsOK(n) /\ After(n)
      /\ m.bids = bids /\ m.asks = asks /\ m.req_q = req_q /\ m.event_q = event_q
  BY DEF TypeOK, AccountsOK, Accounts, IsBook, MarketAccounts, After
<1>4. SUFFICES Slotted(open_orders', n)
  BY DEF SlotInv
<1>5. ASSUME n.bids = m.bids, n.asks = m.asks, n.req_q = m.req_q, n.event_q = m.event_q,
             NEW oo, Slotted(oo, m)
      PROVE  Slotted(oo, n)
  <2>1. \A side : orders(n, side) = orders(m, side)
    BY <1>5 DEF orders
  <2> HIDE DEF m, n
  <2> QED BY <1>5, <2>1 DEF Slotted, Named
<1>6. ASSUME NEW t \in Traders, NEW i \in Instructions, NEW tier \in FeeTiers,
             NewOrder(t, i, tier)
      PROVE  Slotted(open_orders', n)
  <2> HIDE DEF n
  <2> QED BY <1>3, <1>6, NewOrderSlotted
<1>7. ASSUME NEW c \in CancelRequest, req_q' = Append(req_q, c),
             UNCHANGED <<market, open_orders, event_q, bids, asks>>
      PROVE  Slotted(open_orders', n)
  <2>1. c \in Request /\ ~IsOrder(c)
    BY <1>7 DEF Request, IsOrder, CancelRequest, NewOrderRequest
  <2>2. /\ n.bids = m.bids /\ n.asks = m.asks /\ n.event_q = m.event_q
        /\ n.req_q = Append(m.req_q, c) /\ open_orders' = open_orders
    BY <1>3, <1>7 DEF After
  <2> HIDE DEF m, n
  <2>3. Slotted(open_orders, n)
    BY ONLY <1>2, <2>1, <2>2, JoinsSlotted
  <2> QED BY <2>2, <2>3
<1>8. ASSUME NEW t \in Traders, Settles(t)
      PROVE  Slotted(open_orders', n)
  <2>1. Settled(open_orders[t]).orders = open_orders[t].orders
    BY <1>2, SettledFields
  <2>2. /\ open_orders' = [open_orders EXCEPT ![t] = Settled(open_orders[t])]
        /\ UNCHANGED <<req_q, event_q, bids, asks>>
    BY <1>8 DEF Settles
  <2>3. \A u \in Traders : open_orders'[u].orders = open_orders[u].orders
    BY <1>2, <2>1, <2>2
  <2>4. Holds(open_orders, open_orders')
    BY <2>3 DEF Holds
  <2>5. n.bids = m.bids /\ n.asks = m.asks /\ n.event_q = m.event_q /\ n.req_q = m.req_q
    BY <1>3, <2>2 DEF After
  <2> HIDE DEF m, n
  <2>6. Slotted(open_orders', m)
    BY ONLY <1>2, <2>4, HoldsSlotted
  <2> QED BY <1>5, <2>5, <2>6
<1>9. CASE Sweeps
  <2>1. /\ n.bids = m.bids /\ n.asks = m.asks /\ n.event_q = m.event_q /\ n.req_q = m.req_q
        /\ open_orders' = open_orders
    BY <1>3, <1>9 DEF After, Sweeps
  <2> HIDE DEF m, n
  <2> QED BY <1>2, <1>5, <2>1
<1>10. ASSUME NEW limit \in MatchLimits, MatchOrders(limit)
       PROVE  Slotted(open_orders', n)
  BY <1>10, MatchOrdersSlotted DEF SlotInv
<1>11. ASSUME NEW limit \in ConsumeLimits, NEW accounts \in SUBSET Traders,
              ConsumeEvents(limit, accounts)
       PROVE  Slotted(open_orders', n)
  BY <1>11, ConsumeEventsSlotted DEF SlotInv
<1> HIDE DEF n
<1> QED BY <1>1, <1>6, <1>7, <1>8, <1>9, <1>10, <1>11 DEF AccountsStep

LEMMA SlotInvHolds == ASSUME LotsHaveSize PROVE Spec => []SlotInv
  BY Inductive, QInvHolds, BInvHolds, TallyHolds, SlotInvInit, SlotInvNext, PTL DEF Spec

-----------------------------------------------------------------------------
(* One place for every order                                               *)

LEMMA PlacesInQueues ==
  ASSUME TypeOK, NEW t \in Traders, NEW s \in Slots, NEW v, v = Frees(t, s)
  PROVE  /\ Cardinality(InRequests(t, s)) = RequestsWeigh(MarketAccounts, v)
         /\ Cardinality(LeavingEvents(t, s)) = Over(event_q, v)
<1> DEFINE m == MarketAccounts
           w == RequestWeight(v)
           f == [k \in DOMAIN req_q |-> w[req_q[k]]]
           g == [k \in DOMAIN event_q |-> v[event_q[k]]]
<1>1. AccountsOK(m) /\ m.req_q = req_q /\ m.event_q = event_q
  BY AccountsOfState DEF MarketAccounts
<1> HIDE DEF m
<1>2. /\ req_q \in Seq(Request) /\ event_q \in Seq(Event)
      /\ \A r \in Members(req_q) :
           w[r] = IF IsOrder(r) /\ r.owner = t /\ r.owner_slot = s THEN 1 ELSE 0
      /\ \A e \in Members(event_q) :
           v[e] = IF FinalOut(e) /\ e.owner = t /\ e.owner_slot = s THEN 1 ELSE 0
  BY <1>1, FreesWeigh
<1>3. /\ IsFiniteSet(DOMAIN req_q) /\ IsFiniteSet(DOMAIN event_q)
      /\ \A k \in DOMAIN req_q : req_q[k] \in Members(req_q) /\ req_q[k] \in Request
      /\ \A k \in DOMAIN event_q : event_q[k] \in Members(event_q)
  <2>1. DOMAIN req_q = 1 .. Len(req_q) /\ DOMAIN event_q = 1 .. Len(event_q)
        /\ Len(req_q) \in Nat /\ Len(event_q) \in Nat
        /\ \A k \in DOMAIN req_q : req_q[k] \in Request
    BY <1>2
  <2>2. IsFiniteSet(1 .. Len(req_q)) /\ IsFiniteSet(1 .. Len(event_q))
    BY <2>1, FS_Interval
  <2> QED BY <2>1, <2>2 DEF Members
<1>4. /\ InRequests(t, s) \in SUBSET DOMAIN req_q
      /\ \A k \in InRequests(t, s) : f[k] = 1
      /\ \A k \in DOMAIN req_q \ InRequests(t, s) : f[k] = 0
  <2>1. ASSUME NEW k \in DOMAIN req_q
        PROVE  /\ f[k] = w[req_q[k]]
               /\ k \in InRequests(t, s)
                    <=> IsOrder(req_q[k]) /\ req_q[k].owner = t /\ req_q[k].owner_slot = s
    BY <1>3, RequestIsOrder DEF InRequests, RequestsOf
  <2>2. InRequests(t, s) \in SUBSET DOMAIN req_q
    BY DEF InRequests, RequestsOf
  <2> HIDE DEF f, w
  <2> QED BY <1>2, <1>3, <2>1, <2>2
<1>5. /\ LeavingEvents(t, s) \in SUBSET DOMAIN event_q
      /\ \A k \in LeavingEvents(t, s) : g[k] = 1
      /\ \A k \in DOMAIN event_q \ LeavingEvents(t, s) : g[k] = 0
  <2>1. ASSUME NEW k \in DOMAIN event_q
        PROVE  /\ g[k] = v[event_q[k]]
               /\ k \in LeavingEvents(t, s)
                    <=> FinalOut(event_q[k]) /\ event_q[k].owner = t
                          /\ event_q[k].owner_slot = s
    BY DEF LeavingEvents, PendingOf
  <2>2. LeavingEvents(t, s) \in SUBSET DOMAIN event_q
    BY DEF LeavingEvents, PendingOf
  <2> HIDE DEF g
  <2> QED BY <1>2, <1>3, <2>1, <2>2
<1>6. RequestsWeigh(m, v) = Total(DOMAIN req_q, f)
  BY <1>1 DEF RequestsWeigh, Over
<1>7. Over(event_q, v) = Total(DOMAIN event_q, g)
  BY DEF Over
<1> HIDE DEF f, g
<1>8. Cardinality(InRequests(t, s)) = Total(DOMAIN req_q, f)
  BY ONLY <1>3, <1>4, CountWhere
<1>9. Cardinality(LeavingEvents(t, s)) = Total(DOMAIN event_q, g)
  BY ONLY <1>3, <1>5, CountWhere
<1> QED BY <1>6, <1>7, <1>8, <1>9 DEF m

LEMMA PlacesOnBook ==
  ASSUME TypeOK, BInv, NEW t \in Traders, NEW s \in Slots, NEW v, v = Frees(t, s)
  PROVE  Cardinality(InBook(t, s))
           = BookWeighs(MarketAccounts, v, "Bid") + BookWeighs(MarketAccounts, v, "Ask")
<1> DEFINE m == MarketAccounts
           At(side) == {x \in orders(m, side) : x.owner = t /\ x.owner_slot = s}
<1>1. /\ AccountsOK(m) /\ orders(m, "Bid") = bids /\ orders(m, "Ask") = asks
      /\ Uncrossed(m) /\ m.bids = bids /\ m.asks = asks
  BY AccountsOfState DEF BInv, InOrder, MarketAccounts, orders
<1> HIDE DEF m
<1>2. ASSUME NEW side \in Side
      PROVE  /\ Cardinality(At(side)) = BookWeighs(m, v, side)
             /\ IsFiniteSet(At(side))
  <2> DEFINE D == orders(m, side)
             U == At(side)
             f == LeafWeight(v, side)
  <2>1. /\ IsFiniteSet(D)
        /\ \A x \in D : f[x] = IF x.owner = t /\ x.owner_slot = s THEN 1 ELSE 0
    BY <1>1, FreesWeigh
  <2> HIDE DEF f
  <2>2. U \in SUBSET D /\ (\A x \in U : f[x] = 1) /\ \A x \in D \ U : f[x] = 0
    BY <2>1
  <2> HIDE DEF D, U
  <2>3. Cardinality(U) = Total(D, f) /\ IsFiniteSet(U)
    BY ONLY <2>1, <2>2, CountWhere
  <2> QED BY <2>3 DEF BookWeighs, D, U, f
<1>3. InBook(t, s) = At("Bid") \cup At("Ask")
  BY <1>1 DEF InBook
<1>4. At("Bid") \cap At("Ask") = {}
  <2> SUFFICES ASSUME NEW x \in bids, x \in asks PROVE FALSE
    BY <1>1
  <2>1. x \in Leaf
    BY DEF TypeOK, IsBook
  <2>2. x.id.price \in Nat
    BY <2>1, LeafParts DEF Positive
  <2> QED BY <1>1, <2>2 DEF Uncrossed
<1> DEFINE B == At("Bid")
           A == At("Ask")
<1>5. /\ IsFiniteSet(B) /\ IsFiniteSet(A) /\ B \cap A = {} /\ InBook(t, s) = B \cup A
      /\ Cardinality(B) = BookWeighs(m, v, "Bid") /\ Cardinality(A) = BookWeighs(m, v, "Ask")
  BY <1>2, <1>3, <1>4 DEF Side
<1> HIDE DEF B, A
<1>6. Cardinality(B \cup A) = Cardinality(B) + Cardinality(A) - Cardinality(B \cap A)
  BY ONLY <1>5, FS_Union
<1>7. Cardinality(B \cap A) = 0
  BY <1>5, FS_EmptySet
<1>8. Cardinality(B) \in Nat /\ Cardinality(A) \in Nat
  BY <1>5, FS_CardinalityType
<1> QED BY <1>5, <1>6, <1>7, <1>8 DEF m

LEMMA SlotsAgreeOf ==
  ASSUME TypeOK, SlotInv
  PROVE  SlotsAgree
<1> DEFINE m == MarketAccounts
<1>1. Named(open_orders, m)
  BY DEF SlotInv, Slotted
<1>2. /\ orders(m, "Bid") = bids /\ orders(m, "Ask") = asks
      /\ m.req_q = req_q /\ m.event_q = event_q
  BY DEF MarketAccounts, orders
<1> HIDE DEF m
<1>3. /\ \A x \in bids : Agrees(open_orders, "Bid", x)
      /\ \A x \in asks : Agrees(open_orders, "Ask", x)
  BY <1>1, <1>2 DEF Named, Side
<1>4. \A k \in DOMAIN event_q : Agrees(open_orders, event_q[k].side, event_q[k])
  BY <1>1, <1>2 DEF Named, Members
<1>5. \A k \in DOMAIN req_q :
        req_q[k].kind = "NewOrder" => Agrees(open_orders, req_q[k].side, req_q[k])
  <2> TAKE k \in DOMAIN req_q
  <2>1. req_q[k] \in Request /\ req_q[k] \in Members(req_q)
    BY DEF TypeOK, Members
  <2> QED BY <1>1, <1>2, <2>1, RequestIsOrder DEF Named
<1> QED BY <1>3, <1>4, <1>5 DEF SlotsAgree, Agrees

LEMMA PlacesOf ==
  ASSUME TypeOK, BInv, Tally, SlotInv
  PROVE  OrderInOnePlace
<1>1. ASSUME NEW t \in Traders, NEW s \in Slots
      PROVE  Cardinality(InRequests(t, s)) + Cardinality(InBook(t, s))
               + Cardinality(LeavingEvents(t, s))
             = IF open_orders[t].orders[s] = Free THEN 0 ELSE 1
  <2> DEFINE v == Frees(t, s)
             m == MarketAccounts
             a == RequestsWeigh(m, v)
             b == BookWeighs(m, v, "Bid")
             c == BookWeighs(m, v, "Ask")
             d == Over(event_q, v)
  <2>1. v = Frees(t, s) /\ AccountsOK(m) /\ m.event_q = event_q
    BY AccountsOfState DEF MarketAccounts
  <2>2. Drained(m, v) = a + b + c + d
    BY <2>1 DEF Drained
  <2>3. Drained(m, v) = IF open_orders[t].orders[s] = Free THEN 0 ELSE 1
    BY DEF Tally, Tallied, Counted
  <2> HIDE DEF v, m
  <2>4. /\ Cardinality(InRequests(t, s)) = a /\ Cardinality(LeavingEvents(t, s)) = d
        /\ Cardinality(InBook(t, s)) = b + c
    BY <2>1, PlacesInQueues, PlacesOnBook DEF m
  <2>5. a \in Int /\ b \in Int /\ c \in Int /\ d \in Int
    BY <2>1, Counts DEF Side
  <2> HIDE DEF a, b, c, d
  <2> QED BY <2>2, <2>3, <2>4, <2>5
<1>2. SlotsAgree
  BY SlotsAgreeOf
<1> QED BY <1>1, <1>2 DEF OrderInOnePlace

\* In a market whose lots have a size every order is in one place, and its slot
\* is live and its own: requested, on the book or leaving with the one Out that
\* frees the slot, whatever is posted, filled, booted, cancelled or half done
\* (dex/src/state.rs add_order_slot, remove_order, dex/src/matching.rs).
THEOREM OrdersInOnePlace == ASSUME LotsHaveSize PROVE Spec => []OrderInOnePlace
<1>1. IInv /\ BInv /\ Tally /\ SlotInv => OrderInOnePlace
  BY PlacesOf DEF IInv
<1> QED BY <1>1, Inductive, BInvHolds, TallyHolds, SlotInvHolds, PTL

-----------------------------------------------------------------------------
(* Nothing held is negative, so that every event can be consumed           *)

LEMMA UnlocksNat ==
  ASSUME NEW e \in Event, Signed(e)
  PROVE  Unlocks(e) \in Nat
<1>1. /\ e.native_qty_released \in Nat /\ e.native_qty_paid \in Nat
      /\ e.native_fee_or_rebate \in Nat /\ e.kind \in {"Fill", "Out"}
      /\ Unlocks(e) \in Int
  BY EventParts DEF Signed
<1>2. \/ Unlocks(e) = e.native_qty_released
      \/ Unlocks(e) = e.native_qty_paid + e.native_fee_or_rebate
      \/ Unlocks(e) = e.native_qty_paid
  BY <1>1, UnlocksOf DEF IsFill
<1> QED BY <1>1, <1>2

\* What the orders of an account hold is not negative, nor what they hold
\* besides the queued events.
LEMMA HeldIsNat ==
  ASSUME NEW m, AccountsOK(m), RequestsPay(m.req_q), Signs(m.event_q),
         NEW t \in Traders, NEW side \in Side, NEW v, v = Held(t, side)
  PROVE  Drained(m, v) \in Nat /\ Drained(m, v) - Over(m.event_q, v) \in Nat
<1>1. /\ Weighs(v, Event) /\ m.req_q \in Seq(Request) /\ m.event_q \in Seq(Event)
      /\ \A s \in Side : IsFiniteSet(orders(m, s)) /\ orders(m, s) \subseteq Leaf
  BY EventWeighs, DrainedType
<1>2. ASSUME NEW r \in Members(m.req_q)
      PROVE  RequestWeight(v)[r] \in Nat
  <2>1. r \in Request
    BY <1>1, MembersType
  <2>2. IsOrder(r) => HeldBy(r) \in Nat
    BY HeldNat DEF RequestsPay, IsOrder
  <2> QED BY <2>1, <2>2, RequestWeighs
<1>3. ASSUME NEW e \in Members(m.event_q)
      PROVE  v[e] \in Nat
  <2>1. e \in Event /\ Signed(e)
    BY <1>1, MembersType DEF Signs
  <2> QED BY <2>1, UnlocksNat DEF Held
<1>4. ASSUME NEW s \in Side, NEW x \in orders(m, s)
      PROVE  LeafWeight(v, s)[x] \in Nat
  <2>1. x \in Leaf
    BY <1>1
  <2>2. LeafWeight(v, s)[x] = v[BootEvent(s, x)]
    BY <1>1, <2>1, WeightsType
  <2>3. Worth(s, x) \in Nat
    BY <2>1, LeafParts, LotsAreNat DEF Worth
  <2> DEFINE a == Worth(s, x)
             e == OutEvent(s, x, a, 0)
  <2>4. /\ e = OutEvent(s, x, a, 0) /\ a \in Int /\ a \in Nat /\ 0 \in Int
        /\ x \in Leaf \cup NewOrderRequest
    BY <2>1, <2>3
  <2>5. BootEvent(s, x) = e
    BY DEF BootEvent
  <2> HIDE DEF a, e
  <2>6. Held(t, side)[e] = IF x.owner = t /\ s = side THEN a ELSE 0
    BY <2>4, OutsWeigh
  <2> QED BY <2>2, <2>4, <2>5, <2>6
<1>5. RequestsWeigh(m, v) \in Nat
  <2> DEFINE w == RequestWeight(v)
             q == m.req_q
  <2>1. (\A r \in Members(q) : w[r] \in Nat) /\ q \in Seq(Request)
    BY <1>1, <1>2
  <2> HIDE DEF w, q
  <2>2. Over(q, w) \in Nat
    BY <2>1, OverNat
  <2> QED BY <2>2 DEF RequestsWeigh, w, q
<1>6. Over(m.event_q, v) \in Nat
  BY <1>1, <1>3, OverNat
<1>7. ASSUME NEW s \in Side
      PROVE  BookWeighs(m, v, s) \in Nat
  <2> DEFINE S == orders(m, s)
             f == LeafWeight(v, s)
  <2>1. IsFiniteSet(S) /\ \A x \in S : f[x] \in Nat
    BY <1>1, <1>4
  <2> HIDE DEF S, f
  <2>2. Total(S, f) \in Nat
    BY <2>1, TotalNat
  <2> QED BY <2>2 DEF BookWeighs, S, f
<1>8. BookWeighs(m, v, "Bid") \in Nat /\ BookWeighs(m, v, "Ask") \in Nat
  BY <1>7 DEF Side
<1> DEFINE a == RequestsWeigh(m, v)
           b == BookWeighs(m, v, "Bid")
           c == BookWeighs(m, v, "Ask")
           d == Over(m.event_q, v)
<1>9. Drained(m, v) = a + b + c + d
  BY DEF Drained
<1>10. a \in Nat /\ b \in Nat /\ c \in Nat /\ d \in Nat
  BY <1>5, <1>6, <1>8
<1> HIDE DEF a, b, c, d
<1>11. Drained(m, v) \in Nat /\ Drained(m, v) - d \in Nat
  BY ONLY <1>9, <1>10
<1> QED BY <1>11 DEF d

\* What consistent accounts have free they own.
LEMMA ConsistentSolvent ==
  ASSUME TypeOK, QInv, NEW c, ConsumedOK(c), Consistent(c), NEW t \in Traders
  PROVE  FreeWithinTotal(c.open_orders[t])
<1> DEFINE m == WithEvents(c.event_q)
           oo == c.open_orders[t]
<1>1. AccountsOK(m)
  BY WithEventsOK
<1>2. RequestsPay(m.req_q) /\ Signs(m.event_q) /\ HoldsLocked(c.open_orders, m)
  <2>1. m.req_q = req_q
    BY DEF WithEvents
  <2>2. RequestsPay(req_q)
    BY DEF QInv
  <2>3. Signs(m.event_q) /\ HoldsLocked(c.open_orders, m)
    BY DEF Consistent, Slotted, Tallied
  <2> HIDE DEF m
  <2> QED BY <2>1, <2>2, <2>3
<1>3. oo \in OpenOrdersRec
  BY DEF ConsumedOK, ConsumedRec
<1>4. \A side \in Side : Drained(m, Held(t, side)) = Locked(oo, side)
  BY <1>2 DEF HoldsLocked
<1> HIDE DEF m, oo
<1>5. \A side \in Side : Locked(oo, side) \in Nat
  BY <1>1, <1>2, <1>4, HeldIsNat
<1>6. Locked(oo, "Bid") \in Nat /\ Locked(oo, "Ask") \in Nat
  BY <1>5 DEF Side
<1>7. /\ oo.native_pc_total - oo.native_pc_free \in Nat
      /\ oo.native_coin_total - oo.native_coin_free \in Nat
  BY <1>6 DEF Locked
<1>8. FreeWithinTotal(oo)
  BY <1>3, <1>7, AccountFields DEF FreeWithinTotal
<1> QED BY <1>8 DEF oo

\* The checks of ConsumeEvents succeed.
LEMMA EventIsConsumed ==
  ASSUME TypeOK, QInv, NEW c, ConsumedOK(c), c.ok, c.event_q # <<>>, Consistent(c)
  PROVE  ConsumeEvent(c).ok
<1> DEFINE q == c.event_q
           e == q[1]
           oo == c.open_orders[e.owner]
           to == Applied(oo, e)
           p == [c.open_orders EXCEPT ![e.owner] = to]
           d == [open_orders |-> p, event_q |-> Tail(q), ok |-> TRUE]
<1>1. /\ q \in Seq(Event) /\ Len(q) <= EventCap /\ q # <<>>
      /\ c.open_orders \in [Traders -> OpenOrdersRec]
  BY DEF ConsumedOK, ConsumedRec
<1>2. e \in Event /\ e \in Members(q) /\ Head(q) = e /\ Tail(q) \in Seq(Event)
      /\ Len(Tail(q)) <= Len(q)
  <2> HIDE DEF q
  <2>1. q[1] \in Members(q) /\ Head(q) = q[1]
    BY <1>1, MembersTail
  <2> QED BY <1>1, <2>1, MembersType
<1>3. Agrees(c.open_orders, e.side, e)
  <2>1. WithEvents(q).event_q = q
    BY DEF WithEvents
  <2>2. Slotted(c.open_orders, WithEvents(q))
    BY DEF Consistent
  <2> HIDE DEF q
  <2> QED BY <1>2, <2>1, <2>2 DEF Slotted, Named
<1>4. /\ e.owner \in Traders /\ e.owner_slot \in Slots /\ e.id \in OrderId
      /\ e.client_id \in Nat /\ e.side \in Side /\ e.kind \in {"Fill", "Out"}
  BY <1>2, EventParts
<1>5. EventMatchesSlot(oo, e)
  <2> DEFINE o == [id |-> e.id, side |-> e.side, client_id |-> e.client_id]
  <2>1. o \in SlotRec /\ o.side = e.side /\ o.id = e.id
    BY <1>4 DEF SlotRec
  <2>2. oo.orders[e.owner_slot] = o
    BY <1>3 DEF Agrees
  <2> HIDE DEF o, oo
  <2>3. o # Free
    BY <2>1, FreeAssumption
  <2> QED BY <2>1, <2>2, <2>3 DEF EventMatchesSlot
<1>6. oo \in OpenOrdersRec
  BY <1>1, <1>4
<1>7. Applies(oo, e, to)
  <2> HIDE DEF oo, e
  <2> QED BY <1>2, <1>6, EventApplies
<1>8. to \in OpenOrdersRec
  BY <1>7 DEF Applies
<1>9. p \in [Traders -> OpenOrdersRec] /\ p[e.owner] = to
      /\ \A t \in Traders \ {e.owner} : p[t] = c.open_orders[t]
  <2> HIDE DEF oo, e, to
  <2> QED BY <1>1, <1>4, <1>8
<1>10. /\ d \in ConsumedRec /\ d.open_orders = p /\ d.event_q = Tail(q)
       /\ Len(d.event_q) <= EventCap
  <2>1. /\ d.open_orders = p /\ d.event_q = Tail(q) /\ d.ok = TRUE
    OBVIOUS
  <2>2. d \in ConsumedRec
    <3> HIDE DEF p, q
    <3> QED BY <1>2, <1>9 DEF ConsumedRec
  <2>3. Len(q) \in Nat /\ Len(Tail(q)) \in Nat /\ EventCap \in Nat
    BY <1>1, <1>2, MatchingAssumption
  <2> HIDE DEF d, p, q
  <2> QED BY <1>1, <1>2, <2>1, <2>2, <2>3
<1>11. ConsumesOne(c, d)
  <2> HIDE DEF d, p, to
  <2> QED BY <1>5, <1>7, <1>9, <1>10 DEF ConsumesOne
<1>12. ConsumedOK(d)
  <2> HIDE DEF d
  <2> QED BY <1>10 DEF ConsumedOK
<1>13. Consistent(d)
  <2> HIDE DEF d, q
  <2> QED BY <1>1, <1>11, <1>12, ConsumeConsistent DEF q
<1>14. FreeWithinTotal(to)
  <2> HIDE DEF d, p, to, e
  <2>1. FreeWithinTotal(d.open_orders[e.owner])
    BY <1>4, <1>12, <1>13, ConsistentSolvent
  <2> QED BY <1>9, <1>10, <2>1
<1>15. EventMatchesSlot(oo, e) /\ (e.kind = "Out" => FreeWithinTotal(ApplyOut(oo, e)))
  <2>1. e.kind = "Out" => to = ApplyOut(oo, e)
    BY DEF Applied
  <2> HIDE DEF oo, e, to
  <2> QED BY <1>5, <1>14, <2>1
<1>16. ConsumeEvent(c).ok <=> c.ok
  <2>1. e = Head(c.event_q)
    BY <1>2
  <2>2. e.kind = "Out" => e.kind # "Fill"
    OBVIOUS
  <2>3. c \in ConsumedRec
    BY DEF ConsumedOK
  <2>4. \A x, y : [c EXCEPT !.open_orders = x, !.event_q = y].ok = c.ok
    BY <2>3 DEF ConsumedRec
  <2> HIDE DEF e
  <2> QED BY <1>15, <2>1, <2>2, <2>4 DEF ConsumeEvent
<1> QED BY <1>16

LEMMA ConsumableOf ==
  ASSUME TypeOK, QInv, Tally, SlotInv
  PROVE  EventsConsumable
<1> DEFINE S == {c \in ConsumedRec : ConsumedOK(c) /\ c.ok /\ Consistent(c)}
<1>1. FirstOf \in S
  BY FirstConsistent
<1>2. ASSUME NEW c \in S, c.event_q # <<>>
      PROVE  ConsumeEvent(c) \in S
  <2> DEFINE d == ConsumeEvent(c)
  <2>1. ConsumedOK(c) /\ c.ok /\ Consistent(c)
    OBVIOUS
  <2>2. d.ok /\ ConsumedOK(d) /\ ConsumesOne(c, d)
    BY <1>2, <2>1, EventIsConsumed, ConsumeEventDoes
  <2> HIDE DEF d
  <2>3. Consistent(d)
    BY <1>2, <2>1, <2>2, ConsumeConsistent
  <2>4. d \in ConsumedRec
    BY <2>2 DEF ConsumedOK
  <2> QED BY <2>2, <2>3, <2>4 DEF d
<1>3. EventCap \in Nat
  BY MatchingAssumption
<1> DEFINE last == process_consume_events(FirstOf, EventCap, Traders)
<1>4. last \in S
  <2> HIDE DEF S
  <2> QED BY <1>1, <1>2, <1>3, EventsKeep
<1>5. last.ok
  <2> HIDE DEF last
  <2> QED BY <1>4
<1> QED BY <1>5 DEF EventsConsumable, FirstOf

\* In a market whose lots have a size the event queue never jams: no check of
\* ConsumeEvents fails for any event that matching can queue, in any order of
\* partial fills, self-trades, boots and cancels (dex/src/state.rs
\* process_consume_events). With lots of no size it can: an ask that meets an
\* order of its own owner then leaves with an Out that locks nothing more, the
\* slot is freed, and what is left of the ask rests without one.
THEOREM QueueNeverJams == ASSUME LotsHaveSize PROVE Spec => []EventsConsumable
<1>1. IInv /\ QInv /\ Tally /\ SlotInv => EventsConsumable
  BY ConsumableOf DEF IInv
<1> QED BY <1>1, Inductive, QInvHolds, TallyHolds, SlotInvHolds, PTL

-----------------------------------------------------------------------------
(* No amount goes below zero                                               *)

\* What an account has to be paid out is not negative.
NotOverdrawn(oo) ==
  /\ 0 <= oo.native_pc_free /\ 0 <= oo.native_coin_free
  /\ 0 <= oo.referrer_rebates_accrued

\* Nor is what the market has to sweep.
Funded ==
  /\ \A t \in Traders : NotOverdrawn(open_orders[t])
  /\ market.pc_fees_accrued >= 0

LEMMA FundedInit == Init => Funded
  BY DEF Init, Funded, NotOverdrawn

\* An event gives an account what it frees and what it pays, never less than
\* nothing.
LEMMA EventGives ==
  ASSUME NEW e \in Event, Signed(e)
  PROVE  /\ PcMoved[e] + (IF e.side = "Bid" THEN Unlocks(e) ELSE 0) \in Nat
         /\ CoinMoved[e] + (IF e.side = "Ask" THEN Unlocks(e) ELSE 0) \in Nat
         /\ Referred[e] \in Nat
<1> DEFINE released == e.native_qty_released
           paid == e.native_qty_paid
           fee == e.native_fee_or_rebate
           unlocks == Unlocks(e)
           pc == PcMoved[e]
           coin == CoinMoved[e]
           rebate == Referred[e]
<1>1. /\ released \in Nat /\ paid \in Nat /\ fee \in Nat
      /\ e.side \in Side /\ e.maker \in BOOLEAN /\ e.kind \in {"Fill", "Out"}
  BY EventParts DEF Signed
<1>2. /\ pc = IF IsFill(e) THEN IF e.side = "Bid" THEN -paid ELSE released ELSE 0
      /\ coin = IF IsFill(e) THEN IF e.side = "Bid" THEN released ELSE -paid ELSE 0
      /\ rebate = IF IsFill(e) /\ ~e.maker THEN referrer_rebate(fee) ELSE 0
  BY DEF PcMoved, CoinMoved, Referred
<1>3. /\ ~IsFill(e) => unlocks = released
      /\ IsFill(e) /\ e.side = "Bid" /\ e.maker => unlocks = paid + fee
      /\ IsFill(e) /\ (e.side # "Bid" \/ ~e.maker) => unlocks = paid
  BY <1>1, UnlocksOf DEF IsFill
<1>4. referrer_rebate(fee) \in Nat
  <2> HIDE DEF fee
  <2> QED BY <1>1 DEF referrer_rebate
<1> HIDE DEF released, paid, fee, unlocks, pc, coin, rebate
<1>5. rebate \in Nat
  BY <1>2, <1>4
<1>6. CASE ~IsFill(e)
  <2>1. pc = 0 /\ coin = 0 /\ unlocks = released
    BY <1>2, <1>3, <1>6
  <2> QED BY <1>1, <1>5, <2>1 DEF pc, coin, rebate, unlocks
<1>7. CASE IsFill(e) /\ e.side = "Bid"
  <2>1. pc = -paid /\ coin = released /\ unlocks \in {paid, paid + fee}
        /\ e.side # "Ask"
    BY <1>1, <1>2, <1>3, <1>7
  <2>2. pc + unlocks \in Nat /\ coin + 0 \in Nat
    BY <1>1, <2>1
  <2> QED BY <1>5, <1>7, <2>1, <2>2 DEF pc, coin, rebate, unlocks
<1>8. CASE IsFill(e) /\ e.side = "Ask"
  <2>1. pc = released /\ coin = -paid /\ unlocks = paid /\ e.side # "Bid"
    BY <1>1, <1>2, <1>3, <1>8
  <2>2. pc + 0 \in Nat /\ coin + unlocks \in Nat
    BY <1>1, <2>1
  <2> QED BY <1>5, <1>8, <2>1, <2>2 DEF pc, coin, rebate, unlocks
<1> QED BY <1>1, <1>6, <1>7, <1>8 DEF Side

LEMMA AppliesFunded ==
  ASSUME NEW oo \in OpenOrdersRec, NEW e \in Event, Signed(e), NotOverdrawn(oo),
         NEW to, Applies(oo, e, to)
  PROVE  NotOverdrawn(to)
<1> DEFINE unlocks == Unlocks(e)
           pc == PcMoved[e]
           coin == CoinMoved[e]
           rebate == Referred[e]
           bid == IF e.side = "Bid" THEN unlocks ELSE 0
           ask == IF e.side = "Ask" THEN unlocks ELSE 0
<1>1. pc + bid \in Nat /\ coin + ask \in Nat /\ rebate \in Nat
  BY EventGives
<1>2. pc \in Int /\ coin \in Int /\ bid \in Int /\ ask \in Int
  BY EventWeighs, EventParts DEF Weighs
<1>3. to \in OpenOrdersRec
  BY DEF Applies
<1>4. /\ to.native_pc_total = oo.native_pc_total + pc
      /\ to.native_coin_total = oo.native_coin_total + coin
      /\ to.referrer_rebates_accrued = oo.referrer_rebates_accrued + rebate
  BY DEF Applies
<1>5. /\ Locked(to, "Bid") = Locked(oo, "Bid") - bid
      /\ Locked(to, "Ask") = Locked(oo, "Ask") - ask
  BY DEF Applies, Side
<1> HIDE DEF unlocks, pc, coin, rebate, bid, ask
<1>6. /\ to.native_pc_total - to.native_pc_free
           = (oo.native_pc_total - oo.native_pc_free) - bid
      /\ to.native_coin_total - to.native_coin_free
           = (oo.native_coin_total - oo.native_coin_free) - ask
  BY <1>5 DEF Locked
<1>7. /\ oo.native_coin_free \in Int /\ oo.native_coin_total \in Int
      /\ oo.native_pc_free \in Int /\ oo.native_pc_total \in Int
      /\ oo.referrer_rebates_accrued \in Int
      /\ to.native_coin_free \in Int /\ to.native_coin_total \in Int
      /\ to.native_pc_free \in Int /\ to.native_pc_total \in Int
  BY <1>3, AccountFields
<1> QED BY <1>1, <1>2, <1>4, <1>6, <1>7 DEF NotOverdrawn

\* Placing an order locks no more than there is.
LEMMA OrderedFunded ==
  ASSUME TypeOK, NEW t \in Traders, NEW i \in Instructions, NEW tier \in FeeTiers,
         NewOrder(t, i, tier), NotOverdrawn(open_orders[t])
  PROVE  NotOverdrawn(Ordered(t, i, tier))
<1> DEFINE oo == open_orders[t]
           p == Ordered(t, i, tier)
           lock == Locks(i, tier)
           dep == Brings(t, i, tier)
           free == FreeOf(oo, i.side)
<1>1. /\ SlotOf(t) \in Slots /\ OrderOf(i) \in SlotRec /\ dep \in Int /\ lock \in Nat
  BY NewOrderDoes
<1>2. lock \in Int
  BY <1>1
<1>3. i.side \in Side
  BY MarketAssumption DEF NewOrderInstruction
<1>4. dep = lock - Least(lock, free)
  BY DEF Brings
<1>5. oo = open_orders[t] /\ p = Ordered(t, i, tier) /\ NotOverdrawn(oo)
  OBVIOUS
<1>6. /\ p \in OpenOrdersRec /\ oo \in OpenOrdersRec
      /\ \A side \in Side : Locked(p, side)
           = Locked(oo, side) + (IF i.side = side THEN lock ELSE 0)
      /\ p.native_pc_total = oo.native_pc_total + (IF i.side = "Bid" THEN dep ELSE 0)
      /\ p.native_coin_total = oo.native_coin_total + (IF i.side = "Bid" THEN 0 ELSE dep)
      /\ p.referrer_rebates_accrued = oo.referrer_rebates_accrued
      /\ p.orders = [oo.orders EXCEPT ![SlotOf(t)] = OrderOf(i)]
  BY <1>1, <1>2, OrderedFields
<1> HIDE DEF oo, p
<1>7. /\ oo.native_coin_free \in Int /\ oo.native_coin_total \in Int
      /\ oo.native_pc_free \in Int /\ oo.native_pc_total \in Int
      /\ p.native_coin_free \in Int /\ p.native_coin_total \in Int
      /\ p.native_pc_free \in Int /\ p.native_pc_total \in Int
  BY <1>6, AccountFields
<1>8. free \in Int /\ free >= 0 /\ free = IF i.side = "Bid" THEN oo.native_pc_free
                                                          ELSE oo.native_coin_free
  BY <1>5, <1>7 DEF FreeOf, NotOverdrawn
<1>9. /\ Locked(p, "Bid") = Locked(oo, "Bid") + (IF i.side = "Bid" THEN lock ELSE 0)
      /\ Locked(p, "Ask") = Locked(oo, "Ask") + (IF i.side = "Ask" THEN lock ELSE 0)
      /\ p.native_pc_total = oo.native_pc_total + (IF i.side = "Bid" THEN dep ELSE 0)
      /\ p.native_coin_total = oo.native_coin_total + (IF i.side = "Bid" THEN 0 ELSE dep)
  BY <1>6 DEF Side
<1> HIDE DEF lock, dep, free
<1>10. free - (lock - dep) >= 0
  BY <1>1, <1>2, <1>4, <1>8 DEF Least
<1>11. /\ p.native_pc_total - p.native_pc_free
            = (oo.native_pc_total - oo.native_pc_free)
                + (IF i.side = "Bid" THEN lock ELSE 0)
       /\ p.native_coin_total - p.native_coin_free
            = (oo.native_coin_total - oo.native_coin_free)
                + (IF i.side = "Ask" THEN lock ELSE 0)
  BY <1>9 DEF Locked
<1> DEFINE a == oo.native_pc_free
           b == oo.native_pc_total
           c == oo.native_coin_free
           d == oo.native_coin_total
           a1 == p.native_pc_free
           b1 == p.native_pc_total
           c1 == p.native_coin_free
           d1 == p.native_coin_total
<1>12. CASE i.side = "Bid"
  <2>2. /\ b1 = b + dep /\ d1 = d /\ b1 - a1 = (b - a) + lock /\ d1 - c1 = d - c
    BY <1>7, <1>9, <1>11, <1>12
  <2>3. /\ a \in Int /\ b \in Int /\ c \in Int /\ d \in Int
        /\ a1 \in Int /\ b1 \in Int /\ c1 \in Int /\ d1 \in Int
    BY <1>7
  <2> HIDE DEF a, b, c, d, a1, b1, c1, d1
  <2>4. a1 = a - (lock - dep) /\ c1 = c
    BY ONLY <1>1, <1>2, <2>2, <2>3
  <2>1. /\ p.native_pc_free = oo.native_pc_free - (lock - dep)
        /\ p.native_coin_free = oo.native_coin_free
    BY <2>4 DEF a, c, a1, c1
  <2> QED BY <1>5, <1>6, <1>8, <1>10, <1>12, <2>1 DEF NotOverdrawn, p
<1>13. CASE i.side = "Ask"
  <2>2. /\ d1 = d + dep /\ b1 = b /\ d1 - c1 = (d - c) + lock /\ b1 - a1 = b - a
    BY <1>7, <1>9, <1>11, <1>13
  <2>3. /\ a \in Int /\ b \in Int /\ c \in Int /\ d \in Int
        /\ a1 \in Int /\ b1 \in Int /\ c1 \in Int /\ d1 \in Int
    BY <1>7
  <2> HIDE DEF a, b, c, d, a1, b1, c1, d1
  <2>4. c1 = c - (lock - dep) /\ a1 = a
    BY ONLY <1>1, <1>2, <2>2, <2>3
  <2>1. /\ p.native_coin_free = oo.native_coin_free - (lock - dep)
        /\ p.native_pc_free = oo.native_pc_free
    BY <2>4 DEF a, c, a1, c1
  <2> QED BY <1>5, <1>6, <1>8, <1>10, <1>13, <2>1 DEF NotOverdrawn, p
<1> QED BY <1>3, <1>12, <1>13 DEF Side

\* A trade pays its fee: what is left of it after the rebates is not negative.
LEMMA AccruedEarns ==
  ASSUME NEW mkt \in MarketRec, NEW fee \in Nat, NEW rebate \in Nat,
         referrer_rebate(fee) \in Nat, fee > rebate + referrer_rebate(fee)
  PROVE  Accrued(mkt, fee, rebate).pc_fees_accrued >= mkt.pc_fees_accrued
<1> DEFINE net == fee - rebate
           share == referrer_rebate(fee)
           a == mkt.referrer_rebates_accrued + share
           b == mkt.pc_fees_accrued + (net - share)
           c == mkt.pc_deposits_total - net
           new == Accrued(mkt, fee, rebate)
<1>1. new = [mkt EXCEPT !.referrer_rebates_accrued = a, !.pc_fees_accrued = b,
                        !.pc_deposits_total = c]
  BY DEF Accrued
<1>2. mkt.pc_fees_accrued \in Int
  BY MarketFields
<1>3. share \in Nat /\ fee > rebate + share
  OBVIOUS
<1>4. b >= mkt.pc_fees_accrued
  <2> HIDE DEF share
  <2> QED BY <1>2, <1>3
<1> HIDE DEF a, b, c, new
<1>5. new.pc_fees_accrued = b
  BY <1>1 DEF MarketRec
<1> QED BY <1>4, <1>5 DEF new

LEMMA PassEarns ==
  ASSUME LotsHaveSize, NEW m, AccountsOK(m), NEW n, NEW r, Pass(m, n, r)
  PROVE  n.market.pc_fees_accrued >= m.market.pc_fees_accrued
<1>1. m.market \in MarketRec /\ m.market.pc_fees_accrued \in Int
  BY MarketFields DEF AccountsOK, Accounts
<1>2. CASE n.market = m.market
  BY <1>1, <1>2
<1>3. ASSUME NEW x \in orders(m, Opposite(r.side)), NEW quantity \in Nat,
             Trades(m, n, r, x, quantity)
      PROVE  n.market.pc_fees_accrued >= m.market.pc_fees_accrued
  <2> DEFINE fee == TradeFee(r, x, quantity)
             rebate == TradeRebate(x, quantity)
             mkt == m.market
  <2>1. /\ r \in NewOrderRequest /\ quantity \in Positive
        /\ n.market = Accrued(mkt, fee, rebate)
    BY <1>3 DEF Trades
  <2>2. Opposite(r.side) \in Side
    BY <2>1, OrderFields
  <2>3. x \in Leaf
    BY <1>3, <2>2, Maker
  <2>4. /\ fee \in Nat /\ rebate \in Nat /\ referrer_rebate(fee) \in Nat
        /\ fee > rebate + referrer_rebate(fee)
    BY <2>1, <2>3, TradeAmounts
  <2> HIDE DEF fee, rebate, mkt
  <2>5. mkt \in MarketRec
    BY <1>1 DEF mkt
  <2>6. Accrued(mkt, fee, rebate).pc_fees_accrued >= mkt.pc_fees_accrued
    BY ONLY <2>4, <2>5, AccruedEarns
  <2> QED BY <2>1, <2>6 DEF mkt
<1>4. Pass(m, n, r) => \/ n.market = m.market
                       \/ \E x \in orders(m, Opposite(r.side)), quantity \in Nat :
                            Trades(m, n, r, x, quantity)
  BY DEF Pass, Cancels, Drops, Posts, Placed, SelfTrades
<1> QED BY <1>2, <1>3, <1>4

LEMMA MatchOrdersFunded ==
  ASSUME LotsHaveSize, TypeOK, QInv, Funded, NEW limit \in MatchLimits, MatchOrders(limit)
  PROVE  Funded'
<1> DEFINE S == {p \in Accounts : p.market.pc_fees_accrued >= 0}
<1>1. MarketAccounts \in S
  <2>1. MarketAccounts.market = market
    BY DEF MarketAccounts
  <2> QED BY <2>1, AccountsOfState DEF Funded
<1>2. ASSUME NEW p \in S, NEW q \in Accounts, AccountsOK(p), AccountsOK(q),
             Pass(p, q, p.req_q[1])
      PROVE  q \in S
  <2> DEFINE a == p.market.pc_fees_accrued
             b == q.market.pc_fees_accrued
  <2>1. b >= a
    BY <1>2, PassEarns
  <2>2. a \in Int /\ b \in Int
    BY <1>2, MarketFields DEF AccountsOK, Accounts
  <2>3. a >= 0
    OBVIOUS
  <2> HIDE DEF a, b
  <2>4. b >= 0
    BY ONLY <2>1, <2>2, <2>3
  <2> QED BY <2>4 DEF b
<1>3. ASSUME NEW p \in S, NEW q \in Accounts, AccountsOK(p), KeepsBooks(p, q),
             Pass(p, q, p.req_q[1])
      PROVE  q \in S
  <2> HIDE DEF S
  <2>1. AccountsOK(q)
    BY <1>3 DEF KeepsBooks
  <2> QED BY <1>2, <1>3, <2>1
<1>4. PICK p \in S : market' = p.market /\ UNCHANGED open_orders
  <2> HIDE DEF S
  <2> QED BY <1>1, <1>3, MatchOrdersDoes DEF QInv
<1> QED BY <1>4 DEF Funded

LEMMA ConsumeEventsFunded ==
  ASSUME TypeOK, Tally, SlotInv, Funded, NEW limit \in ConsumeLimits, NEW accounts,
         ConsumeEvents(limit, accounts)
  PROVE  Funded'
<1> DEFINE S == {c \in ConsumedRec :
                   Consistent(c) /\ \A t \in Traders : NotOverdrawn(c.open_orders[t])}
<1>1. FirstOf \in S
  BY FirstConsistent DEF Funded
<1>2. ASSUME NEW c \in S, NEW d \in ConsumedRec, ConsumedOK(c), ConsumedOK(d),
             c.event_q # <<>>, ConsumesOne(c, d)
      PROVE  d \in S
  <2> DEFINE q == c.event_q
             e == q[1]
             a == c.open_orders
             b == d.open_orders
  <2>1. Consistent(c) /\ \A t \in Traders : NotOverdrawn(a[t])
    OBVIOUS
  <2>2. Consistent(d)
    BY <1>2, <2>1, ConsumeConsistent
  <2>3. q \in Seq(Event) /\ q # <<>> /\ a \in [Traders -> OpenOrdersRec]
    BY <1>2 DEF ConsumedOK, ConsumedRec
  <2>4. Signs(q)
    <3>1. WithEvents(q).event_q = q
      BY DEF WithEvents
    <3>2. Slotted(a, WithEvents(q))
      BY <2>1 DEF Consistent
    <3> HIDE DEF q, a
    <3> QED BY <3>1, <3>2 DEF Slotted
  <2>5. /\ Applies(a[e.owner], e, b[e.owner])
        /\ \A t \in Traders \ {e.owner} : b[t] = a[t]
    BY <1>2 DEF ConsumesOne
  <2> HIDE DEF q, a, b, S
  <2>6. e \in Event /\ Signed(e)
    <3>1. q[1] \in Members(q)
      BY <2>3, MembersTail
    <3> QED BY <2>3, <2>4, <3>1, MembersType DEF Signs
  <2>7. e.owner \in Traders
    BY <2>6, EventParts
  <2> HIDE DEF e
  <2>8. NotOverdrawn(b[e.owner])
    BY <2>1, <2>3, <2>5, <2>6, <2>7, AppliesFunded
  <2>9. \A t \in Traders : NotOverdrawn(b[t])
    BY <2>1, <2>5, <2>8
  <2> QED BY <1>2, <2>2, <2>9 DEF S, b
<1>3. PICK d \in S : open_orders' = d.open_orders /\ UNCHANGED market
  <2> HIDE DEF S
  <2> QED BY <1>1, <1>2, ConsumeEventsSteps DEF FirstOf
<1> QED BY <1>3 DEF Funded

LEMMA FundedNext ==
  ASSUME LotsHaveSize
  PROVE  IInv /\ QInv /\ Tally /\ SlotInv /\ Funded /\ [Next]_vars => Funded'
<1> SUFFICES ASSUME TypeOK, QInv, Tally, SlotInv, Funded, [Next]_vars
             PROVE  Funded'
  BY DEF IInv
<1>1. AccountsStep
  BY StepsOfAccounts
<1>2. /\ open_orders \in [Traders -> OpenOrdersRec]
      /\ \A t \in Traders : NotOverdrawn(open_orders[t])
      /\ market \in MarketRec /\ market.pc_fees_accrued \in Int
      /\ market.pc_fees_accrued >= 0
  BY MarketFields DEF TypeOK, Funded
<1>3. ASSUME NEW t \in Traders, NEW p, NotOverdrawn(p),
             open_orders' = [open_orders EXCEPT ![t] = p],
             market'.pc_fees_accrued >= 0
      PROVE  Funded'
  <2>1. \A u \in Traders : open_orders'[u] = IF u = t THEN p ELSE open_orders[u]
    BY <1>2, <1>3
  <2>2. \A u \in Traders : NotOverdrawn(open_orders'[u])
    BY <1>2, <1>3, <2>1
  <2> QED BY <1>3, <2>2 DEF Funded
<1>4. ASSUME NEW t \in Traders, NEW i \in Instructions, NEW tier \in FeeTiers,
             NewOrder(t, i, tier)
      PROVE  Funded'
  <2> DEFINE p == Ordered(t, i, tier)
             dep == Brings(t, i, tier)
  <2>1. /\ open_orders' = [open_orders EXCEPT ![t] = p]
        /\ IF i.side = "Bid"
           THEN market' = [market EXCEPT !.pc_deposits_total = @ + dep]
           ELSE market' = [market EXCEPT !.coin_deposits_total = @ + dep]
    BY <1>4, NewOrderDoes
  <2>2. NotOverdrawn(p)
    BY <1>2, <1>4, OrderedFunded
  <2> HIDE DEF p, dep
  <2>3. market'.pc_fees_accrued = market.pc_fees_accrued
    BY <1>2, <2>1 DEF MarketRec
  <2> QED BY <1>2, <1>3, <2>1, <2>2, <2>3
<1>5. CASE UNCHANGED <<market, open_orders>>
  BY <1>5 DEF Funded
<1>6. ASSUME NEW t \in Traders, Settles(t)
      PROVE  Funded'
  <2> DEFINE oo == open_orders[t]
             p == Settled(oo)
             fees == market.pc_fees_accrued
             rebates == oo.referrer_rebates_accrued
  <2>1. /\ open_orders' = [open_orders EXCEPT ![t] = p]
        /\ market'.pc_fees_accrued \in {fees, fees + rebates}
    BY <1>6 DEF Settles
  <2>2. /\ oo \in OpenOrdersRec /\ p = Settled(oo) /\ fees \in Int /\ fees >= 0
        /\ NotOverdrawn(oo)
    BY <1>2
  <2> HIDE DEF oo, p, fees
  <2>3. /\ p.native_pc_free = 0 /\ p.native_coin_free = 0
        /\ p.referrer_rebates_accrued = 0
    BY <2>2, SettledFields
  <2>4. NotOverdrawn(p)
    BY <2>3 DEF NotOverdrawn
  <2>5. rebates \in Int /\ rebates >= 0
    BY <2>2, AccountFields DEF NotOverdrawn
  <2> HIDE DEF rebates
  <2>6. fees >= 0 /\ fees + rebates >= 0
    BY <2>2, <2>5
  <2>7. market'.pc_fees_accrued >= 0
    BY <2>1, <2>6
  <2> QED BY <1>3, <2>1, <2>4, <2>7
<1>7. CASE Sweeps
  <2>1. market'.pc_fees_accrued \in {0, market.pc_fees_accrued} /\ UNCHANGED open_orders
    BY <1>7 DEF Sweeps
  <2>2. market'.pc_fees_accrued >= 0
    BY <1>2, <2>1
  <2> QED BY <1>2, <2>1, <2>2 DEF Funded
<1>8. ASSUME NEW limit \in MatchLimits, MatchOrders(limit)
      PROVE  Funded'
  BY <1>8, MatchOrdersFunded
<1>9. ASSUME NEW limit \in ConsumeLimits, NEW accounts \in SUBSET Traders,
             ConsumeEvents(limit, accounts)
      PROVE  Funded'
  BY <1>9, ConsumeEventsFunded
<1> QED BY <1>1, <1>4, <1>5, <1>6, <1>7, <1>8, <1>9 DEF AccountsStep

LEMMA FundedHolds == ASSUME LotsHaveSize PROVE Spec => []Funded
  BY Inductive, QInvHolds, TallyHolds, SlotInvHolds, FundedInit, FundedNext, PTL DEF Spec

\* What the queued events take off the total of an account is locked in it, so
\* that the total that it will have is not negative.
LEMMA PendingIsCovered ==
  ASSUME TypeOK, QInv, Tally, SlotInv, Funded, NEW t \in Traders,
         NEW side \in Side, NEW moved, Weighs(moved, Event),
         \A e \in Event : Signed(e) =>
           moved[e] + (IF e.side = side THEN Unlocks(e) ELSE 0) \in Nat
  PROVE  Locked(open_orders[t], side) + Over(event_q, OfTrader(moved, t)) \in Nat
<1> DEFINE m == MarketAccounts
           v == Held(t, side)
           a == OfTrader(moved, t)
           w == [e \in Event |-> v[e] + a[e]]
<1>1. /\ AccountsOK(m) /\ m.req_q = req_q /\ m.event_q = event_q /\ event_q \in Seq(Event)
      /\ RequestsPay(req_q) /\ Signs(event_q)
      /\ Drained(m, v) = Locked(open_orders[t], side)
  <2>1. /\ m.req_q = req_q /\ m.event_q = event_q
    BY DEF MarketAccounts
  <2>2. AccountsOK(m) /\ event_q \in Seq(Event) /\ RequestsPay(req_q)
    BY AccountsOfState DEF TypeOK, QInv
  <2>3. Tallied(open_orders, m) /\ Slotted(open_orders, m)
    BY DEF Tally, SlotInv
  <2> HIDE DEF m
  <2> QED BY <2>1, <2>2, <2>3 DEF Tallied, HoldsLocked, Slotted
<1>2. Weighs(v, Event) /\ Weighs(a, Event)
  BY EventWeighs DEF OfTrader, Weighs
<1>3. \A e \in Members(event_q) : e \in Event /\ Signed(e)
  BY <1>1, MembersType DEF Signs
<1>4. \A e \in Members(event_q) : w[e] \in Nat
  <2> TAKE e \in Members(event_q)
  <2>1. e \in Event /\ moved[e] + (IF e.side = side THEN Unlocks(e) ELSE 0) \in Nat
        /\ moved[e] \in Int
    BY <1>3 DEF Weighs
  <2>2. w[e] = v[e] + a[e]
    BY <2>1
  <2>3. v[e] = IF e.owner = t /\ e.side = side THEN Unlocks(e) ELSE 0
    BY <2>1 DEF Held
  <2>4. a[e] = IF e.owner = t THEN moved[e] ELSE 0
    BY <2>1 DEF OfTrader
  <2> DEFINE u == IF e.side = side THEN Unlocks(e) ELSE 0
             x == moved[e]
  <2>7. x + u \in Nat /\ x \in Int /\ u \in Int
    BY <2>1, EventParts
  <2> HIDE DEF v, a, w
  <2>5. CASE e.owner = t
    <3>1. v[e] = u /\ a[e] = x
      BY <2>3, <2>4, <2>5
    <3> HIDE DEF u, x
    <3>2. u + x \in Nat
      BY ONLY <2>7
    <3> QED BY <2>2, <3>1, <3>2
  <2>6. CASE e.owner # t
    BY <2>2, <2>3, <2>4, <2>6
  <2> QED BY <2>5, <2>6
<1>5. /\ Weighs(w, Event) /\ \A e \in Event : w[e] = v[e] + a[e]
  <2>1. \A e \in Event : w[e] = v[e] + a[e]
    OBVIOUS
  <2> HIDE DEF w, v, a
  <2> QED BY <1>2, <2>1 DEF Weighs
<1>6. m = MarketAccounts /\ v = Held(t, side)
  OBVIOUS
<1> HIDE DEF m, v, a, w
<1>7. Over(event_q, w) = Over(event_q, v) + Over(event_q, a)
  BY ONLY <1>1, <1>2, <1>5, OverSum
<1>8. Over(event_q, w) \in Nat
  BY ONLY <1>1, <1>4, OverNat
<1>9. Drained(m, v) - Over(event_q, v) \in Nat
  BY <1>1, <1>6, HeldIsNat
<1>10. Over(event_q, v) \in Int /\ Over(event_q, a) \in Int /\ Drained(m, v) \in Int
  <2>1. Over(event_q, v) \in Int /\ Over(event_q, a) \in Int
    BY ONLY <1>1, <1>2, OverDomain
  <2> QED BY <1>1, <1>2, <2>1, DrainedIsInt
<1> DEFINE x == Drained(m, v)
           y == Over(event_q, v)
           z == Over(event_q, a)
<1>11. x - y \in Nat /\ y + z \in Nat /\ x \in Int /\ y \in Int /\ z \in Int
       /\ x = Locked(open_orders[t], side)
  BY <1>1, <1>7, <1>8, <1>9, <1>10
<1> HIDE DEF x, y, z
<1>12. x + z \in Nat
  BY ONLY <1>11
<1> QED BY <1>11, <1>12 DEF z, a

\* What an account will own once the queued events are applied is not negative.
LEMMA WillOwn ==
  ASSUME TypeOK, QInv, Tally, SlotInv, Funded, NEW t \in Traders
  PROVE  /\ open_orders[t].native_pc_total + PendingPc(t) \in Nat
         /\ open_orders[t].native_coin_total + PendingCoin(t) \in Nat
         /\ open_orders[t].referrer_rebates_accrued + PendingReferrer(t) \in Nat
<1> DEFINE oo == open_orders[t]
           x == oo.native_pc_total
           y == oo.native_coin_total
           z == oo.referrer_rebates_accrued
           a == Over(event_q, OfTrader(PcMoved, t))
           b == Over(event_q, OfTrader(CoinMoved, t))
           c == Over(event_q, OfTrader(Referred, t))
<1>1. /\ PendingPc(t) = a /\ PendingCoin(t) = b /\ PendingReferrer(t) = c
  BY PendingIsOver
<1>2. /\ Weighs(PcMoved, Event) /\ Weighs(CoinMoved, Event) /\ Weighs(Referred, Event)
      /\ event_q \in Seq(Event) /\ "Bid" \in Side /\ "Ask" \in Side
  BY EventWeighs DEF TypeOK, Side
<1>3. \A e \in Event : Signed(e) =>
        /\ PcMoved[e] + (IF e.side = "Bid" THEN Unlocks(e) ELSE 0) \in Nat
        /\ CoinMoved[e] + (IF e.side = "Ask" THEN Unlocks(e) ELSE 0) \in Nat
        /\ Referred[e] \in Nat
  BY EventGives
<1>4. Locked(oo, "Bid") + a \in Nat /\ Locked(oo, "Ask") + b \in Nat
  BY <1>2, <1>3, PendingIsCovered
<1>5. c \in Nat
  <2> DEFINE w == OfTrader(Referred, t)
  <2>1. \A e \in Members(event_q) : e \in Event /\ Signed(e)
    <3>1. MarketAccounts.event_q = event_q
      BY DEF MarketAccounts
    <3>2. Signs(event_q)
      BY <3>1 DEF SlotInv, Slotted
    <3> QED BY <1>2, <3>2, MembersType DEF Signs
  <2>2. \A e \in Members(event_q) : w[e] \in Nat
    <3> TAKE e \in Members(event_q)
    <3>1. w[e] = IF e.owner = t THEN Referred[e] ELSE 0
      BY <2>1 DEF OfTrader
    <3>2. Referred[e] \in Nat
      BY <1>3, <2>1
    <3> HIDE DEF w
    <3> QED BY <3>1, <3>2
  <2> HIDE DEF w
  <2>3. Over(event_q, w) \in Nat
    BY <1>2, <2>2, OverNat
  <2> QED BY <2>3 DEF w
<1>6. a \in Int /\ b \in Int
  <2>1. Weighs(OfTrader(PcMoved, t), Event) /\ Weighs(OfTrader(CoinMoved, t), Event)
    BY <1>2 DEF OfTrader, Weighs
  <2> QED BY <1>2, <2>1, OverDomain
<1>7. oo \in OpenOrdersRec /\ NotOverdrawn(oo)
  BY DEF TypeOK, Funded
<1> HIDE DEF oo, a, b, c
<1> DEFINE p == oo.native_pc_free
           q == oo.native_coin_free
<1>8. /\ x \in Int /\ y \in Int /\ z \in Int /\ p \in Int /\ q \in Int
      /\ p >= 0 /\ q >= 0 /\ z >= 0
  BY <1>7, AccountFields DEF NotOverdrawn
<1>9. (x - p) + a \in Nat /\ (y - q) + b \in Nat
  BY <1>4 DEF Locked
<1> HIDE DEF x, y, z, p, q
<1>10. x + a \in Nat /\ y + b \in Nat /\ z + c \in Nat
  BY ONLY <1>5, <1>6, <1>8, <1>9
<1> QED BY <1>1, <1>10 DEF x, y, z, oo

\* What the market holds of its traders and owes their referrers is not
\* negative.
LEMMA DepositsAtLeast0 ==
  ASSUME TypeOK, QInv, Tally, SlotInv, Funded
  PROVE  /\ market.pc_deposits_total >= 0 /\ market.coin_deposits_total >= 0
         /\ market.referrer_rebates_accrued >= 0
<1> DEFINE f == [t \in Traders |-> open_orders[t].native_pc_total + PendingPc(t)]
           g == [t \in Traders |-> open_orders[t].native_coin_total + PendingCoin(t)]
           h == [t \in Traders |->
                   open_orders[t].referrer_rebates_accrued + PendingReferrer(t)]
<1>1. /\ market.pc_deposits_total = Total(Traders, f)
      /\ market.coin_deposits_total = Total(Traders, g)
      /\ market.referrer_rebates_accrued = Total(Traders, h)
  BY DepositsMatchAccountsOf DEF DepositsMatchAccounts
<1>2. \A t \in Traders : f[t] \in Nat /\ g[t] \in Nat /\ h[t] \in Nat
  BY WillOwn
<1>3. IsFiniteSet(Traders)
  BY MarketAssumption
<1> HIDE DEF f, g, h
<1>4. Total(Traders, f) \in Nat /\ Total(Traders, g) \in Nat /\ Total(Traders, h) \in Nat
  BY <1>2, <1>3, TotalNat
<1> QED BY <1>1, <1>4

LEMMA NoUnderflowOf ==
  ASSUME TypeOK, QInv, Tally, SlotInv, Funded
  PROVE  NoUnderflow
<1>1. /\ market.coin_deposits_total >= 0 /\ market.pc_deposits_total >= 0
      /\ market.pc_fees_accrued >= 0 /\ market.referrer_rebates_accrued >= 0
  BY DepositsAtLeast0 DEF Funded
<1>2. ASSUME NEW t \in Traders
      PROVE  /\ 0 <= open_orders[t].native_pc_free
             /\ 0 <= open_orders[t].native_coin_free
             /\ FreeWithinTotal(open_orders[t])
  <2>1. NotOverdrawn(open_orders[t])
    BY DEF Funded
  <2>2. /\ ConsumedOK(FirstOf) /\ Consistent(FirstOf)
        /\ FirstOf.open_orders = open_orders
    BY FirstConsistent
  <2>3. FreeWithinTotal(FirstOf.open_orders[t])
    BY <2>2, ConsistentSolvent
  <2> QED BY <2>1, <2>2, <2>3 DEF NotOverdrawn
<1>3. ASSUME NEW k \in DOMAIN event_q
      PROVE  event_q[k].native_qty_released >= 0 /\ event_q[k].native_qty_paid >= 0
  <2>1. MarketAccounts.event_q = event_q
    BY DEF MarketAccounts
  <2>2. Signs(event_q)
    BY <2>1 DEF SlotInv, Slotted
  <2>3. event_q[k] \in Members(event_q)
    BY DEF Members
  <2> QED BY <2>2, <2>3 DEF Signs, Signed
<1>4. ASSUME NEW k \in DOMAIN req_q, req_q[k].kind = "NewOrder", req_q[k].side = "Bid"
      PROVE  req_q[k].native_pc_qty_locked > 0
  <2>1. req_q[k] \in Members(req_q) /\ req_q[k] \in Request
    BY DEF Members, TypeOK
  <2>2. req_q[k] \in NewOrderRequest
    BY <1>4, <2>1 DEF Request, CancelRequest
  <2> QED BY <1>4, <2>1, <2>2 DEF QInv, RequestsPay, Pays
<1> QED BY <1>1, <1>2, <1>3, <1>4 DEF NoUnderflow

\* In a market whose lots have a size none of the unchecked subtractions of
\* matching, consuming and settling goes below zero: no deposit, fee or rebate of
\* the market, no free amount of an account and no amount of an event, however
\* orders, partial fills, self-trades, rounded fees, settlements and sweeps are
\* interleaved (dex/src/matching.rs, dex/src/state.rs process_consume_events and
\* process_settle_funds).
THEOREM NothingUnderflows == ASSUME LotsHaveSize PROVE Spec => []NoUnderflow
<1>1. IInv /\ QInv /\ Tally /\ SlotInv /\ Funded => NoUnderflow
  BY NoUnderflowOf DEF IInv
<1> QED BY <1>1, Inductive, QInvHolds, TallyHolds, SlotInvHolds, FundedHolds, PTL
=============================================================================
