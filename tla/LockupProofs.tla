---------------------------- MODULE LockupProofs ----------------------------
(***************************************************************************)
(* Proofs about module Lockup, for any number of safes, accounts, users,   *)
(* programs and mints, and any schedule.                                   *)
(***************************************************************************)
EXTENDS Lockup, Lemmas

-----------------------------------------------------------------------------
(* Division                                                                *)

\* A remainder is a natural number.
LEMMA Remainder ==
  ASSUME NEW a \in Int, NEW b \in Nat \ {0}
  PROVE  a % b \in Nat
  OBVIOUS

\* The quotient of something that is not negative.
LEMMA QuotientNat ==
  ASSUME NEW a \in Nat, NEW b \in Nat \ {0}
  PROVE  a \div b \in Nat
  BY QuotientAtLeast0

\* A quotient grows with the dividend.
LEMMA QuotientMonotone ==
  ASSUME NEW a \in Int, NEW c \in Int, NEW b \in Nat \ {0}, a <= c
  PROVE  a \div b <= c \div b
<1> DEFINE p == a \div b
           q == c \div b
<1>1. p \in Int /\ q \in Int /\ p * b <= a /\ c < q * b + b
  BY Quotient
<1> HIDE DEF p, q
<1>2. CASE q < p
  <2>1. (q + 1) * b <= p * b
    BY <1>1, <1>2, ProductMonotone
  <2>2. (q + 1) * b = q * b + b
    BY <1>1
  <2> QED BY <1>1, <2>1, <2>2
<1>3. p <= q
  BY <1>1, <1>2
<1> QED BY <1>3 DEF p, q

\* Some of b equal parts are no more than the whole.
LEMMA Parts ==
  ASSUME NEW a \in Nat, NEW b \in Nat \ {0}, NEW n \in 0 .. b
  PROVE  n * (a \div b) \in 0 .. a
<1> DEFINE part == a \div b
<1>1. part \in Nat /\ part * b <= a
  BY Quotient, QuotientNat
<1> HIDE DEF part
<1>2. 0 * part <= n * part /\ n * part <= b * part
  BY <1>1, ProductMonotone
<1>3. b * part = part * b /\ n * part \in Int /\ part * b \in Int
  BY <1>1
<1>4. n * part \in 0 .. a
  BY <1>1, <1>2, <1>3
<1> QED BY <1>4 DEF part

-----------------------------------------------------------------------------
(* The schedule                                                            *)

\* What CreateVesting makes sure of.
Schedule(v) ==
  /\ v.start_slot \in Nat /\ v.end_slot \in Nat /\ v.start_slot < v.end_slot
  /\ v.period_count \in Nat \ {0} /\ v.start_balance \in Nat

\* The length of a period, and by how much the window is moved.
LEMMA PeriodType ==
  ASSUME NEW v, Schedule(v)
  PROVE  Period(v) \in Nat /\ Overflow(v) \in Nat
<1>1. Window(v) \in Nat
  BY DEF Window, Schedule
<1>2. Overflow(v) \in Nat
  <2>1. PICK w \in Nat : w = Window(v)
    BY <1>1
  <2>2. PICK n \in Nat \ {0} : n = v.period_count
    BY DEF Schedule
  <2>3. w % n \in Nat
    BY Remainder
  <2> QED BY <2>1, <2>2, <2>3 DEF Overflow
<1>3. PushedWindow(v) \in Nat
  BY <1>1, <1>2 DEF PushedWindow
<1> QED BY <1>2, <1>3, QuotientNat DEF Period, Schedule

\* No more periods pass than the schedule has.
LEMMA PeriodsType ==
  ASSUME NEW v, Schedule(v), Period(v) > 0, NEW i \in Nat, v.start_slot <= i
  PROVE  VestedPeriods(v, i) \in 0 .. v.period_count
<1>1. i - v.start_slot + Overflow(v) \in Nat
  BY PeriodType DEF Schedule
<1>2. (i - v.start_slot + Overflow(v)) \div Period(v) \in Nat
  BY <1>1, PeriodType, QuotientNat
<1> QED BY <1>2 DEF VestedPeriods, Least, Schedule

\* Nothing vests beyond the deposit.
LEMMA VestedBounds ==
  ASSUME NEW v, Schedule(v), NEW i \in Nat, Computable(v, i)
  PROVE  total_vested(v, i) \in 0 .. v.start_balance
<1>1. CASE i >= v.end_slot
  BY <1>1 DEF total_vested, Schedule
<1>2. CASE i < v.end_slot
  <2>1. VestedPeriods(v, i) \in 0 .. v.period_count
    BY <1>2, PeriodsType DEF Computable, Schedule
  <2>2. total_vested(v, i) = VestedPeriods(v, i) * (v.start_balance \div v.period_count)
    BY <1>2 DEF total_vested, linear_unlock, Schedule
  <2> QED BY <2>1, <2>2, Parts DEF Schedule
<1> QED BY <1>1, <1>2 DEF Schedule

\* What has vested stays vested.
LEMMA VestedMonotone ==
  ASSUME NEW v, Schedule(v), NEW i \in Nat, NEW j \in Nat, i <= j, Computable(v, i)
  PROVE  Computable(v, j) /\ total_vested(v, i) <= total_vested(v, j)
<1>1. Computable(v, j)
  BY DEF Computable, Schedule
<1>2. CASE j >= v.end_slot
  <2>1. total_vested(v, j) = v.start_balance
    BY <1>2 DEF total_vested
  <2> QED BY <1>1, <2>1, VestedBounds DEF Schedule
<1>3. CASE j < v.end_slot
  <2> DEFINE part == v.start_balance \div v.period_count
             p == i - v.start_slot + Overflow(v)
             q == j - v.start_slot + Overflow(v)
  <2>1. i < v.end_slot /\ v.start_slot <= i /\ Period(v) \in Nat \ {0}
    BY <1>3, PeriodType DEF Computable, Schedule
  <2>2. part \in Nat
    BY QuotientNat DEF Schedule
  <2>3. p \in Int /\ q \in Int /\ p <= q
    BY PeriodType DEF Schedule
  <2>4. p \div Period(v) <= q \div Period(v)
    <3> HIDE DEF p, q
    <3> QED BY <2>1, <2>3, QuotientMonotone
  <2>5. p \div Period(v) \in Int /\ q \div Period(v) \in Int
    <3> HIDE DEF p, q
    <3> QED BY <2>1, <2>3, Quotient
  <2>6. VestedPeriods(v, i) <= VestedPeriods(v, j)
    BY <2>4, <2>5 DEF VestedPeriods, Least, Schedule
  <2>7. VestedPeriods(v, i) \in Int /\ VestedPeriods(v, j) \in Int
    BY <2>1, PeriodsType DEF Schedule
  <2>8. VestedPeriods(v, i) * part <= VestedPeriods(v, j) * part
    <3> HIDE DEF part
    <3> QED BY <2>2, <2>6, <2>7, ProductMonotone
  <2>9. total_vested(v, i) = VestedPeriods(v, i) * part
        /\ total_vested(v, j) = VestedPeriods(v, j) * part
    BY <1>3, <2>1 DEF total_vested, linear_unlock, Schedule
  <2> QED BY <1>1, <2>8, <2>9
<1> QED BY <1>2, <1>3 DEF Schedule

\* P parts over W slots, o of which are left over: of the periods of D slots
\* that the pushed window divides into, k have passed after t slots.
LEMMA PartsPaid ==
  ASSUME NEW W \in Nat \ {0}, NEW P \in Nat \ {0}, NEW t \in Nat, t < W,
         NEW o \in Nat, o < P,
         NEW D \in Nat \ {0}, D * P <= W + o, W + o < D * P + P,
         NEW k \in Nat, k * D <= t + o, t + o < k * D + D
  PROVE  /\ (t * P) \div W <= Least(k, P)
         /\ Least(k, P) * W < (t + P) * P
<1> DEFINE g == (t * P) \div W
           n == Least(k, P)
<1>1. g \in Int /\ g * W <= t * P /\ t * P \in Int
  BY Quotient
<1>2. n \in Nat /\ n <= k /\ n <= P
  BY DEF Least
<1> HIDE DEF g, n
<1>3. g < P
  <2>1. t * P < W * P
    BY ProductStrict
  <2>2. g * W < P * W /\ P * W \in Int
    <3>1. W * P = P * W /\ W * P \in Int /\ g * W \in Int
      BY <1>1
    <3> QED BY <1>1, <2>1, <3>1
  <2> QED BY <1>1, <2>2, ProductStrict
\* A part that is late would be one of more than P.
<1>4. g <= k
  <2>1. SUFFICES ASSUME k + 1 <= g PROVE FALSE
    BY <1>1
  <2> DEFINE j == k + 1
             e == j * D
  <2>2. j \in Nat \ {0} /\ j <= g
    BY <2>1
  <2>3. e \in Nat /\ t + o + 1 <= e
    OBVIOUS
  <2>4. e * P = j * (D * P)
    <3> HIDE DEF j
    <3> QED BY <2>2
  <2> HIDE DEF j, e
  <2>5. (t + o + 1) * P <= e * P /\ (t + o + 1) * P = t * P + o * P + P
    BY <2>3, ProductMonotone
  <2>6. j * (D * P) <= j * (W + o) /\ j * (W + o) = j * W + j * o
    BY <2>2
  <2>7. j * W <= g * W
    BY <1>1, <2>2, ProductMonotone
  <2>8. j * o <= P * o
    BY <1>1, <1>3, <2>2, ProductMonotone
  <2>9. /\ t * P \in Int /\ o * P \in Int /\ P * o = o * P /\ e * P \in Int
        /\ j * (D * P) \in Int /\ j * (W + o) \in Int
        /\ j * W \in Int /\ j * o \in Int /\ g * W \in Int
    BY <1>1, <2>2, <2>3
  <2> QED BY <1>1, <2>4, <2>5, <2>6, <2>7, <2>8, <2>9
<1>5. n * W < (t + P) * P
  <2> DEFINE c == n * D
             d == D * P
  <2>1. c \in Nat /\ c <= t + o
    <3>1. n * D <= k * D
      BY <1>2, ProductMonotone
    <3>2. n * D \in Nat /\ k * D \in Int
      BY <1>2
    <3> QED BY <3>1, <3>2
  <2>2. d \in Nat /\ W + o + 1 - P <= d
    OBVIOUS
  <2>3. c * P = n * d
    BY <1>2
  <2> HIDE DEF c, d
  <2>4. c * P <= (t + o) * P
    BY <2>1, ProductMonotone
  <2>5. (W + o + 1 - P) * n <= d * n
    BY <1>2, <2>2, ProductMonotone
  <2>6. n * (P - 1 - o) <= P * (P - 1 - o)
    BY <1>2, ProductMonotone
  <2>7. /\ (t + o) * P = t * P + o * P
        /\ (W + o + 1 - P) * n = n * W - n * (P - 1 - o)
        /\ P * (P - 1 - o) = P * P - P - o * P
        /\ (t + P) * P = t * P + P * P
        /\ d * n = n * d
    BY <1>2, <2>2
  <2>8. /\ t * P \in Int /\ o * P \in Int /\ P * P \in Int /\ n * W \in Int
        /\ n * (P - 1 - o) \in Int /\ n * d \in Int /\ c * P \in Int
        /\ (t + P) * P \in Int
    BY <1>2, <2>1, <2>2
  <2> QED BY <2>3, <2>4, <2>5, <2>6, <2>7, <2>8
<1> QED BY <1>1, <1>2, <1>3, <1>4, <1>5 DEF g, n, Least

\* Before its end a schedule has paid as many parts as PaidOnTime says.
LEMMA OnTime ==
  ASSUME NEW v, Schedule(v), NEW i \in Nat, v.start_slot <= i, i < v.end_slot,
         Period(v) > 0
  PROVE  PaidOnTime(v, i)
<1> DEFINE W == Window(v)
           P == v.period_count
           t == i - v.start_slot
           o == Overflow(v)
           D == Period(v)
           k == (t + o) \div D
           n == VestedPeriods(v, i)
<1>1. /\ W \in Nat \ {0} /\ P \in Nat \ {0} /\ t \in Nat /\ t < W
      /\ o \in Nat /\ D \in Nat \ {0}
  BY PeriodType DEF Window, Schedule
<1>2. o = W % P /\ D = (W + o) \div P /\ n = Least(k, P)
  BY DEF Overflow, Period, PushedWindow, VestedPeriods
<1>3. /\ total_vested(v, i) = n * (v.start_balance \div P)
      /\ PaidOnTime(v, i) <=>
           \E x \in 0 .. P : /\ total_vested(v, i) = x * (v.start_balance \div P)
                             /\ (t * P) \div W <= x
                             /\ x * W < (t + P) * P
  BY DEF total_vested, linear_unlock, PaidOnTime, Schedule
<1>4. n \in 0 .. P
  BY PeriodsType
<1> HIDE DEF W, P, t, o, D, n
<1>5. o < P
  BY <1>1, <1>2
<1>6. D * P <= W + o /\ W + o < D * P + P
  <2>1. W + o \in Int
    BY <1>1
  <2>2. /\ ((W + o) \div P) * P <= W + o
        /\ W + o < ((W + o) \div P) * P + P
    BY <1>1, <2>1, Quotient
  <2> QED BY <1>2, <2>2
<1>7. k \in Nat /\ k * D <= t + o /\ t + o < k * D + D
  <2>1. t + o \in Nat /\ t + o \in Int
    BY <1>1
  <2>2. k \in Nat
    BY <1>1, <2>1, QuotientNat
  <2>3. /\ ((t + o) \div D) * D <= t + o
        /\ t + o < ((t + o) \div D) * D + D
    BY <1>1, <2>1, Quotient
  <2> QED BY <2>2, <2>3
<1> HIDE DEF k
<1>8. (t * P) \div W <= Least(k, P) /\ Least(k, P) * W < (t + P) * P
  BY <1>1, <1>5, <1>6, <1>7, PartsPaid
<1> QED BY <1>2, <1>3, <1>4, <1>8

-----------------------------------------------------------------------------
(* The inductive invariant                                                 *)

\* What is left of a deposit covers what is lent, and what was withdrawn had
\* vested.
Sound(v, i) ==
  /\ Schedule(v) /\ v.start_slot <= i
  /\ v.balance \in 0 .. v.start_balance
  /\ v.whitelist_owned \in 0 .. v.balance
  /\ Computable(v, i) => withdrawn_amount(v) <= total_vested(v, i)

LInv == TypeOK /\ \A v \in Initialized : Sound(vestings[v], slot)

\* A cluster without accounts.
LEMMA InitKeeps == Init => LInv
<1> SUFFICES ASSUME Init PROVE LInv
  OBVIOUS
<1>1. TypeOK
  BY LockupAssumption, WhitelistAssumption
     DEF Init, TypeOK, Safe, Vesting, NewVesting, Lists, Empty
<1>2. Initialized = {}
  BY DEF Init, Initialized, NewVesting
<1> QED BY <1>1, <1>2 DEF LInv

\* An instruction that leaves clock and schedules alone keeps every account
\* sound but the one it works on.
LEMMA OthersSound ==
  ASSUME LInv, slot' = slot, NEW v \in Vestings, NEW new,
         vestings' = [vestings EXCEPT ![v] = new],
         new.initialized => Sound(new, slot)
  PROVE  \A w \in Initialized' : Sound(vestings'[w], slot')
<1> SUFFICES ASSUME NEW w \in Vestings, vestings'[w].initialized
             PROVE  Sound(vestings'[w], slot)
  BY DEF Initialized
<1>1. vestings \in [Vestings -> Vesting]
  BY DEF LInv, TypeOK
<1>2. CASE w = v
  BY <1>1, <1>2
<1>3. CASE w # v
  <2>1. vestings'[w] = vestings[w]
    BY <1>1, <1>3
  <2> QED BY <2>1 DEF LInv, Initialized
<1> QED BY <1>2, <1>3

\* A deposit starts a schedule of which nothing has been withdrawn.
LEMMA CreateKeeps ==
  ASSUME LInv, NEW v \in Vestings, NEW s \in Safes, NEW u \in Users, NEW w \in Users,
         NEW m \in Mints, NEW d \in Durations, NEW p \in Periods, NEW a \in Deposits,
         CreateVesting(v, s, u, w, m, slot + d, p, a)
  PROVE  LInv'
<1> DEFINE new ==
       [initialized |-> TRUE, claimed |-> FALSE, safe |-> s, beneficiary |-> w,
        balance |-> a, start_balance |-> a,
        start_slot |-> slot, end_slot |-> slot + d, period_count |-> p,
        locked_nft_mint |-> m, whitelist_owned |-> 0]
<1>1. slot \in Nat /\ d \in Nat \ {0} /\ p \in Nat \ {0} /\ a \in Nat \ {0}
  BY LockupAssumption DEF LInv, TypeOK
<1>2. new \in Vesting
  BY <1>1 DEF Vesting
<1>3. vestings' = [vestings EXCEPT ![v] = new] /\ slot' = slot
  BY DEF CreateVesting
<1>4. TypeOK'
  <2>1. vestings' \in [Vestings -> Vesting]
    <3> HIDE DEF new
    <3> QED BY <1>2, <1>3 DEF LInv, TypeOK
  <2>2. wallet' \in [Users -> Nat] /\ vault' \in [Safes -> Nat]
    BY <1>1 DEF CreateVesting, LInv, TypeOK
  <2> QED BY <2>1, <2>2 DEF CreateVesting, LInv, TypeOK
<1>5. Sound(new, slot)
  <2>1. Schedule(new)
    BY <1>1 DEF Schedule
  <2>2. withdrawn_amount(new) = 0
    BY <1>1 DEF withdrawn_amount
  <2>3. Computable(new, slot) => 0 <= total_vested(new, slot)
    <3> HIDE DEF new
    <3> QED BY <1>1, <2>1, VestedBounds DEF Schedule
  <2> QED BY <1>1, <2>1, <2>2, <2>3 DEF Sound
<1>6. \A x \in Initialized' : Sound(vestings'[x], slot')
  <2> HIDE DEF new
  <2> QED BY <1>3, <1>5, OthersSound
<1> QED BY <1>4, <1>6 DEF LInv

\* So does an instruction that touches neither.
LEMMA AllSound ==
  ASSUME LInv, slot' = slot, vestings' = vestings
  PROVE  \A w \in Initialized' : Sound(vestings'[w], slot')
BY DEF LInv, Initialized

\* What the authority of a safe does.
LEMMA GovernedKeeps ==
  ASSUME LInv, Governed
  PROVE  LInv'
<1>1. PICK s \in Safes, u \in Users, w \in Users, l \in Whitelists, e \in Entries :
        \/ Initialize(s, u, l) \/ SetAuthority(s, u, w)
        \/ WhitelistAdd(s, u, e) \/ WhitelistDelete(s, u, e) \/ Migrate(s, u, w)
  BY DEF Governed
<1>2. slot' = slot /\ vestings' = vestings
  BY <1>1 DEF Initialize, SetAuthority, WhitelistAdd, WhitelistDelete, Migrate
<1>3. TypeOK'
  <2>0. \A list \in Lists : \A i : /\ add_at(list, i, e) \in Lists
                                  /\ add_at(list, i, Zero) \in Lists
    BY DEF Lists, add_at
  <2>1. CASE Initialize(s, u, l)
    BY <2>1 DEF Initialize, LInv, TypeOK, Safe, tokens
  <2>2. CASE SetAuthority(s, u, w)
    BY <2>2 DEF SetAuthority, LInv, TypeOK, Safe, tokens
  <2>3. CASE WhitelistAdd(s, u, e)
    BY <2>0, <2>3 DEF WhitelistAdd, push, LInv, TypeOK, tokens
  <2>4. CASE WhitelistDelete(s, u, e)
    BY <2>0, <2>4 DEF WhitelistDelete, delete, LInv, TypeOK, tokens
  <2>5. CASE Migrate(s, u, w)
    BY <2>5 DEF Migrate, LInv, TypeOK
  <2> QED BY <1>1, <2>1, <2>2, <2>3, <2>4, <2>5
<1> QED BY <1>2, <1>3, AllSound DEF LInv

\* The account an instruction works on.
LEMMA AccountType ==
  ASSUME LInv, NEW v \in Vestings, vestings[v].initialized
  PROVE  vestings[v] \in Vesting /\ Sound(vestings[v], slot)
BY DEF LInv, TypeOK, Initialized

\* A claim changes only that it was made.
LEMMA ClaimKeeps ==
  ASSUME LInv, NEW v \in Vestings, NEW s \in Safes, NEW u \in Users, NEW m \in Mints,
         Claim(v, s, u, m)
  PROVE  LInv'
<1> DEFINE old == vestings[v]
           new == [old EXCEPT !.claimed = TRUE]
<1>1. old.initialized
  BY DEF Claim, CanClaim, vesting
<1>2. old \in Vesting /\ Sound(old, slot)
  BY <1>1, AccountType
<1>3. vestings' = [vestings EXCEPT ![v] = new] /\ slot' = slot
  BY DEF Claim
<1>4. new \in Vesting
  <2> HIDE DEF old
  <2> QED BY <1>2 DEF Vesting
<1>5. Sound(new, slot)
  <2> HIDE DEF old
  <2>1. /\ new.start_slot = old.start_slot /\ new.end_slot = old.end_slot
        /\ new.period_count = old.period_count /\ new.start_balance = old.start_balance
        /\ new.balance = old.balance /\ new.whitelist_owned = old.whitelist_owned
    BY <1>2 DEF Vesting
  <2> HIDE DEF new
  <2> QED BY <1>2, <2>1
       DEF Sound, Schedule, Computable, withdrawn_amount, total_vested, linear_unlock,
           VestedPeriods, Period, PushedWindow, Overflow, Window
<1>6. TypeOK'
  <2>1. vestings' \in [Vestings -> Vesting]
    <3> HIDE DEF new
    <3> QED BY <1>3, <1>4 DEF LInv, TypeOK
  <2>2. receipts' \in [Mints -> [Users -> Nat]]
    <3>1. old.start_balance \in Nat
      BY <1>2 DEF Sound, Schedule
    <3> HIDE DEF old
    <3>2. receipts' = [receipts EXCEPT ![m][u] = @ + old.start_balance]
      BY DEF Claim, old
    <3> QED BY <3>1, <3>2 DEF LInv, TypeOK
  <2> QED BY <2>1, <2>2 DEF Claim, LInv, TypeOK
<1>7. \A x \in Initialized' : Sound(vestings'[x], slot')
  <2> HIDE DEF new
  <2> QED BY <1>3, <1>5, OthersSound
<1> QED BY <1>6, <1>7 DEF LInv

\* What is redeemed had vested and was not lent.
LEMMA RedeemKeeps ==
  ASSUME LInv, NEW v \in Vestings, NEW s \in Safes, NEW u \in Users, NEW w \in Users,
         NEW m \in Mints, NEW a \in Amounts, Redeem(v, s, u, w, m, a)
  PROVE  LInv'
<1> DEFINE old == vestings[v]
           new == [old EXCEPT !.balance = @ - a]
<1>1. old.initialized
  BY DEF Redeem, CanRedeem, vesting
<1>2. old \in Vesting /\ Sound(old, slot)
  BY <1>1, AccountType
<1>3. vestings' = [vestings EXCEPT ![v] = new] /\ slot' = slot
  BY DEF Redeem
<1>4. a \in Nat /\ Computable(old, slot) /\ a <= available_for_withdrawal(old, slot)
  BY LockupAssumption DEF Redeem, CanRedeem, Amounts
<1>5. total_vested(old, slot) \in 0 .. old.start_balance
  <2> HIDE DEF old
  <2> QED BY <1>2, <1>4, VestedBounds DEF Sound, LInv, TypeOK
<1>6. /\ a <= old.balance - old.whitelist_owned
      /\ a <= total_vested(old, slot) - withdrawn_amount(old)
  <2> HIDE DEF old
  <2> QED BY <1>2, <1>4, <1>5
       DEF available_for_withdrawal, available_for_whitelist, balance_vested,
           withdrawn_amount, Least, Sound, Schedule
<1>7. new \in Vesting
  <2> HIDE DEF old
  <2> QED BY <1>2, <1>4, <1>6 DEF Vesting
<1>8. Sound(new, slot)
  <2> HIDE DEF old
  <2>1. /\ new.start_slot = old.start_slot /\ new.end_slot = old.end_slot
        /\ new.period_count = old.period_count /\ new.start_balance = old.start_balance
        /\ new.balance = old.balance - a /\ new.whitelist_owned = old.whitelist_owned
    BY <1>2 DEF Vesting
  <2> HIDE DEF new
  <2>2. total_vested(new, slot) = total_vested(old, slot)
    BY <2>1 DEF total_vested, linear_unlock, VestedPeriods, Period, PushedWindow, Overflow,
                Window
  <2>3. Schedule(new)
    BY <1>2, <2>1 DEF Sound, Schedule
  <2> QED BY <1>2, <1>4, <1>5, <1>6, <2>1, <2>2, <2>3
       DEF Sound, Schedule, withdrawn_amount
<1>9. TypeOK'
  <2>1. vestings' \in [Vestings -> Vesting]
    <3> HIDE DEF new
    <3> QED BY <1>3, <1>7 DEF LInv, TypeOK
  <2>2. receipts' \in [Mints -> [Users -> Nat]]
    BY <1>4 DEF Redeem, LInv, TypeOK
  <2>3. vault' \in [Safes -> Nat] /\ wallet' \in [Users -> Nat]
    BY <1>4 DEF Redeem, LInv, TypeOK
  <2> QED BY <2>1, <2>2, <2>3 DEF Redeem, LInv, TypeOK
<1>10. \A x \in Initialized' : Sound(vestings'[x], slot')
  <2> HIDE DEF new
  <2> QED BY <1>3, <1>8, OthersSound
<1> QED BY <1>9, <1>10 DEF LInv

\* Lending and taking back change what an account has lent, and nothing else.
LEMMA LentKeeps ==
  ASSUME LInv, NEW v \in Vestings, vestings[v].initialized,
         NEW owned \in 0 .. vestings[v].balance,
         vestings' = [vestings EXCEPT ![v].whitelist_owned = owned],
         vault' \in [Safes -> Nat], lent' \in [Entries -> Nat],
         UNCHANGED <<slot, safes, whitelist, wallet, receipts, migrated>>
  PROVE  LInv'
<1> DEFINE old == vestings[v]
           new == [old EXCEPT !.whitelist_owned = owned]
<1>1. old \in Vesting /\ Sound(old, slot)
  BY AccountType
<1>2. vestings' = [vestings EXCEPT ![v] = new] /\ owned \in 0 .. old.balance
  OBVIOUS
<1>3. /\ new.start_slot = old.start_slot /\ new.end_slot = old.end_slot
      /\ new.period_count = old.period_count /\ new.start_balance = old.start_balance
      /\ new.balance = old.balance /\ new.whitelist_owned = owned
  <2> HIDE DEF old
  <2> QED BY <1>1 DEF Vesting
<1>4. new \in Vesting
  <2> HIDE DEF old
  <2> QED BY <1>1, <1>2 DEF Vesting
<1>5. Sound(new, slot)
  <2> HIDE DEF old, new
  <2> QED BY <1>1, <1>2, <1>3
       DEF Sound, Schedule, Computable, withdrawn_amount, total_vested, linear_unlock,
           VestedPeriods, Period, PushedWindow, Overflow, Window
<1> HIDE DEF new
<1>6. TypeOK'
  <2>1. vestings' \in [Vestings -> Vesting]
    BY <1>2, <1>4 DEF LInv, TypeOK
  <2> QED BY <2>1 DEF LInv, TypeOK
<1> QED BY <1>2, <1>5, <1>6, OthersSound DEF LInv

\* Both transfers to a whitelisted program.
LEMMA LendsKeeps ==
  ASSUME LInv, Lends
  PROVE  LInv'
<1>1. PICK v \in Vestings, s \in Safes, u \in Users, e \in Entries, a \in Amounts :
        \/ \E taken \in (0 - lent[e]) .. a : WhitelistWithdraw(v, s, u, e, a, taken)
        \/ WhitelistDeposit(v, s, u, e, a)
  BY DEF Lends
<1>2. a \in Nat /\ vestings \in [Vestings -> Vesting]
  BY LockupAssumption DEF Amounts, LInv, TypeOK
<1>3. CASE \E taken \in (0 - lent[e]) .. a : WhitelistWithdraw(v, s, u, e, a, taken)
  <2>1. PICK taken \in (0 - lent[e]) .. a : WhitelistWithdraw(v, s, u, e, a, taken)
    BY <1>3
  <2>2. vestings[v].initialized
    BY <2>1 DEF WhitelistWithdraw, CanLend, vesting
  <2> DEFINE owned == vestings[v].whitelist_owned + (a - 0)
  <2>3. vestings' = [vestings EXCEPT ![v].whitelist_owned = owned]
    BY <2>1 DEF WhitelistWithdraw, delegated_amount
  <2>4. a <= vestings[v].balance - vestings[v].whitelist_owned
    BY <2>1 DEF WhitelistWithdraw, CanLend, available_for_whitelist
  <2>5. owned \in 0 .. vestings[v].balance
    BY <1>2, <2>2, <2>4, AccountType DEF Sound, Schedule
  <2>6. taken <= vault[s] /\ 0 - taken <= lent[e] /\ vault' = [vault EXCEPT ![s] = @ - taken]
        /\ lent' = [lent EXCEPT ![e] = @ + taken]
    BY <2>1 DEF WhitelistWithdraw, stake
  <2>7. vault' \in [Safes -> Nat] /\ lent' \in [Entries -> Nat]
    BY <1>2, <2>6 DEF LInv, TypeOK
  <2>8. UNCHANGED <<slot, safes, whitelist, wallet, receipts, migrated>>
    BY <2>1 DEF WhitelistWithdraw
  <2> HIDE DEF owned
  <2> QED BY <2>2, <2>3, <2>5, <2>7, <2>8, LentKeeps
<1>4. CASE WhitelistDeposit(v, s, u, e, a)
  <2>1. vestings[v].initialized
    BY <1>4 DEF WhitelistDeposit, CanTakeBack, vesting
  <2> DEFINE owned == vestings[v].whitelist_owned - a
  <2>2. vestings' = [vestings EXCEPT ![v].whitelist_owned = owned]
        /\ a <= vestings[v].whitelist_owned
    BY <1>4 DEF WhitelistDeposit, TakeBack
  <2>3. owned \in 0 .. vestings[v].balance
    BY <1>2, <2>1, <2>2, AccountType DEF Sound, Schedule
  <2>4. a <= lent[e] /\ vault' = [vault EXCEPT ![s] = @ + a]
        /\ lent' = [lent EXCEPT ![e] = @ - a]
    BY <1>4 DEF WhitelistDeposit, unstake
  <2>5. vault' \in [Safes -> Nat] /\ lent' \in [Entries -> Nat]
    BY <1>2, <2>4 DEF LInv, TypeOK
  <2>6. UNCHANGED <<slot, safes, whitelist, wallet, receipts, migrated>>
    BY <1>4 DEF WhitelistDeposit
  <2> HIDE DEF owned
  <2> QED BY <2>1, <2>2, <2>3, <2>5, <2>6, LentKeeps
<1> QED BY <1>1, <1>3, <1>4

\* The clock, donations and receipts that change hands.
LEMMA OutsideKeeps ==
  ASSUME LInv, Outside
  PROVE  LInv'
<1>1. CASE Tick
  <2>1. TypeOK'
    BY <1>1, LockupAssumption DEF Tick, tokens, LInv, TypeOK
  <2>2. ASSUME NEW v \in Initialized' PROVE Sound(vestings'[v], slot')
    <3>1. vestings'[v] = vestings[v] /\ Sound(vestings[v], slot) /\ v \in Initialized
      BY <1>1, <2>2 DEF Tick, LInv, Initialized
    <3> DEFINE old == vestings[v]
    <3>2. slot \in Nat /\ slot' = slot + 1
      BY <1>1 DEF Tick, LInv, TypeOK
    <3>3. Computable(old, slot + 1) => withdrawn_amount(old) <= total_vested(old, slot + 1)
      <4> HIDE DEF old
      <4>0. Sound(old, slot)
        BY <3>1 DEF old
      <4>1. CASE Computable(old, slot)
        <5>1. total_vested(old, slot) <= total_vested(old, slot + 1)
          BY <3>2, <4>0, <4>1, VestedMonotone DEF Sound
        <5>2. total_vested(old, slot) \in Int
          BY <3>2, <4>0, <4>1, VestedBounds DEF Sound
        <5>3. Computable(old, slot + 1) /\ total_vested(old, slot + 1) \in Int
          <6>1. Computable(old, slot + 1)
            BY <3>2, <4>0, <4>1, VestedMonotone DEF Sound
          <6> QED BY <3>2, <4>0, <6>1, VestedBounds DEF Sound
        <5>4. withdrawn_amount(old) \in Int
          BY <4>0 DEF withdrawn_amount, Sound, Schedule
        <5> QED BY <4>0, <4>1, <5>1, <5>2, <5>3, <5>4 DEF Sound
      <4>2. CASE ~Computable(old, slot)
        <5>1. ASSUME Computable(old, slot + 1)
              PROVE  total_vested(old, slot + 1) = old.start_balance
          BY <3>2, <4>0, <4>2, <5>1, PeriodType DEF Computable, total_vested, Sound, Schedule
        <5> QED BY <4>0, <5>1 DEF withdrawn_amount, Sound, Schedule
      <4> QED BY <4>1, <4>2
    <3> QED BY <3>1, <3>2, <3>3 DEF Sound, Schedule
  <2> QED BY <2>1, <2>2 DEF LInv
<1>2. CASE \E u \in Users, s \in Safes : Donate(u, s)
  <2>1. PICK u \in Users, s \in Safes : Donate(u, s)
    BY <1>2
  <2>2. TypeOK'
    BY <2>1 DEF Donate, LInv, TypeOK
  <2>3. slot' = slot /\ vestings' = vestings
    BY <2>1 DEF Donate
  <2> QED BY <2>2, <2>3, AllSound DEF LInv
<1>3. CASE \E m \in Mints, u, w \in Users : GiveReceipt(m, u, w) \/ BurnReceipt(m, u)
  <2>1. PICK m \in Mints, u \in Users, w \in Users : GiveReceipt(m, u, w) \/ BurnReceipt(m, u)
    BY <1>3
  <2>2. receipts' \in [Mints -> [Users -> Nat]]
    <3>1. receipts \in [Mints -> [Users -> Nat]]
      BY DEF LInv, TypeOK
    <3> DEFINE less == [receipts EXCEPT ![m][u] = @ - 1]
    <3>2. receipts[m][u] > 0
      BY <2>1 DEF GiveReceipt, BurnReceipt
    <3>3. less \in [Mints -> [Users -> Nat]]
      BY <3>1, <3>2
    <3>4. receipts' = less \/ receipts' = [less EXCEPT ![m][w] = @ + 1]
      BY <2>1, <3>1 DEF GiveReceipt, BurnReceipt
    <3> HIDE DEF less
    <3> QED BY <3>3, <3>4
  <2>3. UNCHANGED <<slot, safes, whitelist, vestings, vault, wallet, lent, migrated>>
    BY <2>1 DEF GiveReceipt, BurnReceipt
  <2>4. TypeOK'
    BY <2>2, <2>3 DEF LInv, TypeOK
  <2> QED BY <2>3, <2>4, AllSound DEF LInv
<1> QED BY <1>1, <1>2, <1>3 DEF Outside

\* The invariant is inductive.
LEMMA StepKeeps == LInv /\ [Next]_vars => LInv'
<1> SUFFICES ASSUME LInv, [Next]_vars PROVE LInv'
  OBVIOUS
<1>1. CASE Vests
  <2>1. PICK v \in Vestings, s \in Safes, u \in Users, w \in Users, m \in Mints :
          \/ \E d \in Durations, p \in Periods, a \in Deposits :
               CreateVesting(v, s, u, w, m, slot + d, p, a)
          \/ Claim(v, s, u, m)
          \/ \E a \in Amounts : Redeem(v, s, u, w, m, a)
    BY <1>1 DEF Vests
  <2> QED BY <2>1, CreateKeeps, ClaimKeeps, RedeemKeeps
<1>2. CASE UNCHANGED vars
  BY <1>2, AllSound DEF vars, LInv, TypeOK
<1> QED BY <1>1, <1>2, GovernedKeeps, LendsKeeps, OutsideKeeps DEF Next

\* The invariant holds in every reachable state.
LEMMA Invariance == Spec => []LInv
<1>1. Init => LInv
  BY InitKeeps
<1>2. LInv /\ [Next]_vars => LInv'
  BY StepKeeps
<1> QED BY <1>1, <1>2, PTL DEF Spec

-----------------------------------------------------------------------------
(* The theorems                                                            *)

\* Every account of the lockup program is well-formed, and no u64 below zero,
\* after every sequence of instructions.
THEOREM TypeCorrect == Spec => []TypeOK
<1>1. LInv => TypeOK
  BY DEF LInv
<1> QED BY <1>1, Invariance, PTL

\* The subtractions of Vesting (withdrawn_amount, balance_vested,
\* available_for_whitelist) never wrap, for any schedule.
THEOREM SubtractionsSafe == Spec => []NoUnderflow
<1>1. LInv => NoUnderflow
  <2> SUFFICES ASSUME LInv, NEW v \in Initialized
               PROVE  /\ Computable(vestings[v], slot) => balance_vested(vestings[v], slot) >= 0
                      /\ available_for_whitelist(vestings[v]) >= 0
    BY DEF NoUnderflow
  <2> DEFINE old == vestings[v]
  <2>1. Sound(old, slot) /\ slot \in Nat
    BY DEF LInv, TypeOK
  <2> HIDE DEF old
  <2>2. available_for_whitelist(old) >= 0
    BY <2>1 DEF available_for_whitelist, Sound, Schedule
  <2>3. ASSUME Computable(old, slot) PROVE balance_vested(old, slot) >= 0
    <3>1. total_vested(old, slot) \in Nat
      BY <2>1, <2>3, VestedBounds DEF Sound, Schedule
    <3>2. withdrawn_amount(old) \in Int
      BY <2>1 DEF withdrawn_amount, Sound, Schedule
    <3> QED BY <2>1, <2>3, <3>1, <3>2 DEF balance_vested, Sound
  <2> QED BY <2>2, <2>3 DEF old
<1> QED BY <1>1, Invariance, PTL

\* A schedule has paid everything at its end; before, what has vested never
\* falls and is a number of equal parts, none late and none as many slots early
\* as the schedule has periods (linear_unlock, total_vested), whether or not
\* the window and the deposit divide into the periods.
THEOREM SchedulesKept == Spec => []VestsOnSchedule
<1>1. ASSUME LInv, NEW v \in Initialized,
             NEW i \in vestings[v].start_slot .. vestings[v].end_slot - 1,
             Computable(vestings[v], i)
      PROVE  /\ total_vested(vestings[v], i) <= total_vested(vestings[v], i + 1)
             /\ PaidOnTime(vestings[v], i)
  <2> DEFINE old == vestings[v]
  <2>1. /\ Schedule(old) /\ i \in Nat /\ i + 1 \in Nat /\ i <= i + 1
        /\ old.start_slot <= i /\ i < old.end_slot /\ Computable(old, i)
    <3>1. Schedule(old)
      BY <1>1 DEF LInv, Sound
    <3> QED BY <1>1, <3>1 DEF Schedule
  <2> HIDE DEF old
  <2>2. total_vested(old, i) <= total_vested(old, i + 1)
    BY <2>1, VestedMonotone
  <2>3. PaidOnTime(old, i)
    <3>1. Period(old) > 0
      BY <2>1 DEF Computable, Schedule
    <3> QED BY <2>1, <3>1, OnTime
  <2> QED BY <2>2, <2>3 DEF old
<1>2. ASSUME LInv, NEW v \in Initialized
      PROVE  total_vested(vestings[v], vestings[v].end_slot) = vestings[v].start_balance
  BY <1>2 DEF LInv, Sound, Schedule, total_vested
<1>3. LInv => VestsOnSchedule
  BY <1>1, <1>2 DEF VestsOnSchedule
<1> QED BY <1>3, Invariance, PTL

-----------------------------------------------------------------------------
(* Custody                                                                 *)

\* What account a may still take out of the vault of safe s.
ClaimOn(a, s) == IF a.initialized /\ a.safe = s THEN available_for_whitelist(a) ELSE 0

\* What it owes for receipts of mint m.
Owes(a, m) == IF a.initialized /\ a.claimed /\ a.locked_nft_mint = m THEN a.balance ELSE 0

\* The sums over all the accounts vs.
AllClaims(vs, s) == Total(Vestings, [v \in Vestings |-> ClaimOn(vs[v], s)])
AllOwed(vs, m) == Total(Vestings, [v \in Vestings |-> Owes(vs[v], m)])
AllLent(vs) == Total(Vestings, [v \in Vestings |-> vs[v].whitelist_owned])

\* An account that is not in use has lent nothing, and nothing is redeemed
\* before the claim.
Fresh(a) ==
  /\ ~a.initialized => a.whitelist_owned = 0
  /\ a.initialized /\ ~a.claimed => a.balance = a.start_balance

Backed ==
  /\ \A v \in Vestings : Fresh(vestings[v])
  /\ VaultBacksVestings /\ LoansAccounted /\ ReceiptsBacked

CInv == LInv /\ Backed

\* What is summed up is numbers.
LEMMA Numbers ==
  ASSUME NEW a \in Vesting
  PROVE  /\ \A s : ClaimOn(a, s) \in Int
         /\ \A m : Owes(a, m) \in Nat
         /\ a.whitelist_owned \in Nat /\ a.balance \in Nat
BY DEF Vesting, ClaimOn, Owes, available_for_whitelist

\* The sums of the properties, as sums over all accounts.
LEMMA WholeSums ==
  ASSUME NEW vs \in [Vestings -> Vesting]
  PROVE  /\ \A s : Total({v \in {w \in Vestings : vs[w].initialized} : vs[v].safe = s},
                         [v \in Vestings |-> available_for_whitelist(vs[v])])
                   = AllClaims(vs, s)
         /\ \A m : Total({v \in {w \in Vestings : vs[w].initialized} :
                             vs[v].claimed /\ vs[v].locked_nft_mint = m},
                         [v \in Vestings |-> vs[v].balance])
                   = AllOwed(vs, m)
<1>1. ASSUME NEW s
      PROVE  Total({v \in {w \in Vestings : vs[w].initialized} : vs[v].safe = s},
                   [v \in Vestings |-> available_for_whitelist(vs[v])])
             = AllClaims(vs, s)
  <2> DEFINE U == {v \in {w \in Vestings : vs[w].initialized} : vs[v].safe = s}
             f == [v \in Vestings |-> available_for_whitelist(vs[v])]
             g == [v \in Vestings |-> ClaimOn(vs[v], s)]
  <2>1. \A v \in U : f[v] \in Int /\ g[v] = f[v]
    BY Numbers DEF ClaimOn
  <2>2. \A v \in Vestings \ U : g[v] = 0
    BY DEF ClaimOn
  <2>3. U \in SUBSET Vestings
    OBVIOUS
  <2> HIDE DEF U, f, g
  <2> QED BY <2>1, <2>2, <2>3, TotalWhere, LockupAssumption DEF U, f, g, AllClaims, AllOwed
<1>2. ASSUME NEW m
      PROVE  Total({v \in {w \in Vestings : vs[w].initialized} :
                      vs[v].claimed /\ vs[v].locked_nft_mint = m},
                   [v \in Vestings |-> vs[v].balance])
             = AllOwed(vs, m)
  <2> DEFINE U == {v \in {w \in Vestings : vs[w].initialized} :
                     vs[v].claimed /\ vs[v].locked_nft_mint = m}
             f == [v \in Vestings |-> vs[v].balance]
             g == [v \in Vestings |-> Owes(vs[v], m)]
  <2>1. \A v \in U : f[v] \in Int /\ g[v] = f[v]
    BY Numbers DEF Owes
  <2>2. \A v \in Vestings \ U : g[v] = 0
    BY DEF Owes
  <2>3. U \in SUBSET Vestings
    OBVIOUS
  <2> HIDE DEF U, f, g
  <2> QED BY <2>1, <2>2, <2>3, TotalWhere, LockupAssumption DEF U, f, g, AllClaims, AllOwed
<1> QED BY <1>1, <1>2

\* The sums when one account changes.
LEMMA OneChanges ==
  ASSUME NEW vs \in [Vestings -> Vesting], NEW v \in Vestings, NEW new \in Vesting,
         NEW ws \in [Vestings -> Vesting], ws[v] = new,
         \A w \in Vestings \ {v} : ws[w] = vs[w]
  PROVE  /\ \A s : AllClaims(ws, s)
                   = AllClaims(vs, s)
                       + (ClaimOn(new, s) - ClaimOn(vs[v], s))
         /\ \A m : AllOwed(ws, m)
                   = AllOwed(vs, m)
                       + (Owes(new, m) - Owes(vs[v], m))
         /\ AllLent(ws)
            = AllLent(vs)
                + (new.whitelist_owned - vs[v].whitelist_owned)
<1>1. ASSUME NEW s
      PROVE  AllClaims(ws, s)
             = AllClaims(vs, s)
                 + (ClaimOn(new, s) - ClaimOn(vs[v], s))
  <2> DEFINE f == [w \in Vestings |-> ClaimOn(vs[w], s)]
             g == [w \in Vestings |-> ClaimOn(ws[w], s)]
  <2>1. Summable(f, Vestings) /\ Summable(g, Vestings)
    BY Numbers DEF Summable
  <2>2. AgreeBut(f, g, Vestings, v)
    BY DEF AgreeBut
  <2>4. g[v] = ClaimOn(new, s) /\ f[v] = ClaimOn(vs[v], s)
    OBVIOUS
  <2>3. Total(Vestings, g) = Total(Vestings, f) + (g[v] - f[v])
    <3> HIDE DEF f, g
    <3> QED BY <2>1, <2>2, TotalChange, LockupAssumption
  <2> QED BY <2>3, <2>4 DEF AllClaims, AllOwed, AllLent
<1>2. ASSUME NEW m
      PROVE  AllOwed(ws, m)
             = AllOwed(vs, m)
                 + (Owes(new, m) - Owes(vs[v], m))
  <2> DEFINE f == [w \in Vestings |-> Owes(vs[w], m)]
             g == [w \in Vestings |-> Owes(ws[w], m)]
  <2>1. Summable(f, Vestings) /\ Summable(g, Vestings)
    BY Numbers DEF Summable
  <2>2. AgreeBut(f, g, Vestings, v)
    BY DEF AgreeBut
  <2>4. g[v] = Owes(new, m) /\ f[v] = Owes(vs[v], m)
    OBVIOUS
  <2>3. Total(Vestings, g) = Total(Vestings, f) + (g[v] - f[v])
    <3> HIDE DEF f, g
    <3> QED BY <2>1, <2>2, TotalChange, LockupAssumption
  <2> QED BY <2>3, <2>4 DEF AllClaims, AllOwed, AllLent
<1>3. AllLent(ws)
      = AllLent(vs)
          + (new.whitelist_owned - vs[v].whitelist_owned)
  <2> DEFINE f == [w \in Vestings |-> vs[w].whitelist_owned]
             g == [w \in Vestings |-> ws[w].whitelist_owned]
  <2>1. Summable(f, Vestings) /\ Summable(g, Vestings)
    BY Numbers DEF Summable
  <2>2. AgreeBut(f, g, Vestings, v)
    BY DEF AgreeBut
  <2>4. g[v] = new.whitelist_owned /\ f[v] = vs[v].whitelist_owned
    OBVIOUS
  <2>3. Total(Vestings, g) = Total(Vestings, f) + (g[v] - f[v])
    <3> HIDE DEF f, g
    <3> QED BY <2>1, <2>2, TotalChange, LockupAssumption
  <2> QED BY <2>3, <2>4 DEF AllClaims, AllOwed, AllLent
<1> QED BY <1>1, <1>2, <1>3

\* The sums are numbers.
LEMMA SumsType ==
  ASSUME NEW vs \in [Vestings -> Vesting]
  PROVE  /\ \A s : AllClaims(vs, s) \in Int
         /\ \A m : AllOwed(vs, m) \in Int
         /\ AllLent(vs) \in Int
<1>1. ASSUME NEW s PROVE AllClaims(vs, s) \in Int
  <2> DEFINE f == [w \in Vestings |-> ClaimOn(vs[w], s)]
  <2>1. \A w \in Vestings : f[w] \in Int
    BY Numbers
  <2> HIDE DEF f
  <2> QED BY <2>1, TotalInt, LockupAssumption DEF f, AllClaims, AllOwed, AllLent
<1>2. ASSUME NEW m PROVE AllOwed(vs, m) \in Int
  <2> DEFINE f == [w \in Vestings |-> Owes(vs[w], m)]
  <2>1. \A w \in Vestings : f[w] \in Int
    BY Numbers
  <2> HIDE DEF f
  <2> QED BY <2>1, TotalInt, LockupAssumption DEF f, AllClaims, AllOwed, AllLent
<1>3. AllLent(vs) \in Int
  <2> DEFINE f == [w \in Vestings |-> vs[w].whitelist_owned]
  <2>1. \A w \in Vestings : f[w] \in Int
    BY Numbers
  <2> HIDE DEF f
  <2> QED BY <2>1, TotalInt, LockupAssumption DEF f, AllClaims, AllOwed, AllLent
<1> QED BY <1>1, <1>2, <1>3

\* The properties in terms of these sums.
LEMMA BackedForms ==
  ASSUME TypeOK
  PROVE  /\ VaultBacksVestings <=>
              \A s \in Safes \ migrated :
                vault[s] >= AllClaims(vestings, s)
         /\ LoansAccounted <=>
              Total(Entries, lent) <= AllLent(vestings)
         /\ ReceiptsBacked <=>
              \A m \in Mints :
                Total(Users, receipts[m])
                  <= AllOwed(vestings, m)
<1>1. vestings \in [Vestings -> Vesting]
  BY DEF TypeOK
<1>2. \A s : Total(AccountsOf(s), Available)
             = AllClaims(vestings, s)
  BY <1>1, WholeSums, Zenon DEF AccountsOf, Available, Initialized
<1>3. \A m : Total(ClaimedFor(m), Balances)
             = AllOwed(vestings, m)
  BY <1>1, WholeSums, Zenon DEF ClaimedFor, Balances, Initialized
<1>4. VaultBacksVestings <=>
        \A s \in Safes \ migrated :
          vault[s] >= AllClaims(vestings, s)
  BY <1>2, Zenon DEF VaultBacksVestings
<1>5. ReceiptsBacked <=>
        \A m \in Mints :
          Total(Users, receipts[m]) <= AllOwed(vestings, m)
  BY <1>3, Zenon DEF ReceiptsBacked, supply
<1>6. LoansAccounted <=>
        Total(Entries, lent) <= AllLent(vestings)
  BY Zenon DEF LoansAccounted, Loans, AllLent
<1> QED BY <1>4, <1>5, <1>6

\* An instruction keeps the sums if it changes one account, and the vaults, the
\* loans and the receipts no further than that account.
LEMMA BackedByOne ==
  ASSUME LInv, TypeOK', Backed, NEW v \in Vestings, NEW new \in Vesting,
         vestings' = [vestings EXCEPT ![v] = new], Fresh(new), migrated' = migrated,
         \A s \in Safes :
           vault'[s] - vault[s] >= ClaimOn(new, s) - ClaimOn(vestings[v], s),
         Total(Entries, lent') - Total(Entries, lent)
           <= new.whitelist_owned - vestings[v].whitelist_owned,
         \A m \in Mints :
           Total(Users, receipts'[m]) - Total(Users, receipts[m])
             <= Owes(new, m) - Owes(vestings[v], m)
  PROVE  Backed'
<1>0. /\ vestings \in [Vestings -> Vesting] /\ vestings[v] \in Vesting
      /\ vestings' \in [Vestings -> Vesting]
      /\ vault \in [Safes -> Nat] /\ vault' \in [Safes -> Nat]
      /\ lent \in [Entries -> Nat] /\ lent' \in [Entries -> Nat]
      /\ receipts \in [Mints -> [Users -> Nat]] /\ receipts' \in [Mints -> [Users -> Nat]]
  BY DEF LInv, TypeOK
<1>a. vestings'[v] = new /\ \A w \in Vestings \ {v} : vestings'[w] = vestings[w]
  BY <1>0
<1>b. /\ \A s : AllClaims(vestings', s)
                   = AllClaims(vestings, s) + (ClaimOn(new, s) - ClaimOn(vestings[v], s))
      /\ \A m : AllOwed(vestings', m)
                   = AllOwed(vestings, m) + (Owes(new, m) - Owes(vestings[v], m))
      /\ AllLent(vestings')
           = AllLent(vestings) + (new.whitelist_owned - vestings[v].whitelist_owned)
  <2> DEFINE vs == vestings
             ws == vestings'
  <2>1. /\ vs \in [Vestings -> Vesting] /\ ws \in [Vestings -> Vesting] /\ ws[v] = new
        /\ \A w \in Vestings \ {v} : ws[w] = vs[w]
    BY <1>0, <1>a
  <2> HIDE DEF vs, ws
  <2>2. /\ \A s : AllClaims(ws, s) = AllClaims(vs, s) + (ClaimOn(new, s) - ClaimOn(vs[v], s))
        /\ \A m : AllOwed(ws, m) = AllOwed(vs, m) + (Owes(new, m) - Owes(vs[v], m))
        /\ AllLent(ws) = AllLent(vs) + (new.whitelist_owned - vs[v].whitelist_owned)
    BY <2>1, OneChanges
  <2> QED BY <2>2 DEF vs, ws
<1>1. \A w \in Vestings : Fresh(vestings'[w])
  BY <1>a DEF Backed
<1>2. ASSUME NEW s \in Safes \ migrated
      PROVE  vault'[s] >= AllClaims(vestings', s)
  <2> DEFINE before == AllClaims(vestings, s)
             after == AllClaims(vestings', s)
  <2>1. after = before + (ClaimOn(new, s) - ClaimOn(vestings[v], s))
    BY <1>b
  <2>2. vault[s] >= before
    BY BackedForms DEF LInv, Backed
  <2>3. before \in Int
    BY <1>0, SumsType
  <2>4. ClaimOn(new, s) \in Int /\ ClaimOn(vestings[v], s) \in Int
    BY <1>0, Numbers
  <2>5. vault[s] \in Int /\ vault'[s] \in Int
        /\ vault'[s] - vault[s] >= ClaimOn(new, s) - ClaimOn(vestings[v], s)
    BY <1>0
  <2> HIDE DEF before, after
  <2>6. vault'[s] >= after
    BY <2>1, <2>2, <2>3, <2>4, <2>5
  <2> QED BY <2>6 DEF after
<1>3. Total(Entries, lent')
        <= AllLent(vestings')
  <2> DEFINE before == AllLent(vestings)
             after == AllLent(vestings')
  <2>1. after = before + (new.whitelist_owned - vestings[v].whitelist_owned)
    BY <1>b
  <2>2. Total(Entries, lent) <= before
    BY BackedForms DEF LInv, Backed
  <2>3. before \in Int
    BY <1>0, SumsType
  <2>4. new.whitelist_owned \in Int /\ vestings[v].whitelist_owned \in Int
    BY <1>0, Numbers
  <2>5. Total(Entries, lent) \in Int /\ Total(Entries, lent') \in Int
    BY <1>0, TotalInt, WhitelistAssumption
  <2> HIDE DEF before, after
  <2>6. Total(Entries, lent') <= after
    BY <2>1, <2>2, <2>3, <2>4, <2>5
  <2> QED BY <2>6 DEF after
<1>4. ASSUME NEW m \in Mints
      PROVE  Total(Users, receipts'[m])
               <= AllOwed(vestings', m)
  <2> DEFINE before == AllOwed(vestings, m)
             after == AllOwed(vestings', m)
  <2>1. after = before + (Owes(new, m) - Owes(vestings[v], m))
    BY <1>b
  <2>2. Total(Users, receipts[m]) <= before
    BY BackedForms DEF LInv, Backed
  <2>3. before \in Int
    BY <1>0, SumsType
  <2>4. Owes(new, m) \in Int /\ Owes(vestings[v], m) \in Int
    BY <1>0, Numbers
  <2>5. Total(Users, receipts[m]) \in Int /\ Total(Users, receipts'[m]) \in Int
    <3>1. receipts[m] \in [Users -> Nat] /\ receipts'[m] \in [Users -> Nat]
      BY <1>0
    <3> QED BY <3>1, TotalInt, LockupAssumption
  <2> HIDE DEF before, after
  <2>6. Total(Users, receipts'[m]) <= after
    BY <2>1, <2>2, <2>3, <2>4, <2>5
  <2> QED BY <2>6 DEF after
<1>5. VaultBacksVestings' /\ LoansAccounted' /\ ReceiptsBacked'
  <2>1. VaultBacksVestings'
    <3>1. \A s : Total(AccountsOf(s), Available)'
                 = AllClaims(vestings', s)
      BY <1>0, WholeSums, Zenon DEF AccountsOf, Available, Initialized
    <3> QED BY <1>2, <3>1 DEF VaultBacksVestings
  <2>2. ReceiptsBacked'
    <3>1. \A m : Total(ClaimedFor(m), Balances)'
                 = AllOwed(vestings', m)
      BY <1>0, WholeSums, Zenon DEF ClaimedFor, Balances, Initialized
    <3> QED BY <1>4, <3>1 DEF ReceiptsBacked, supply
  <2>3. LoansAccounted'
    BY <1>3, Zenon DEF LoansAccounted, Loans, AllLent
  <2> QED BY <2>1, <2>2, <2>3
<1> QED BY <1>1, <1>5 DEF Backed

\* So does one that changes no account, takes nothing out of a vault that is
\* not migrated, lends nothing and issues no receipts.
LEMMA BackedByNone ==
  ASSUME LInv, TypeOK', Backed, vestings' = vestings,
         \A s \in Safes \ migrated' : s \notin migrated /\ vault'[s] >= vault[s],
         lent' = lent,
         \A m \in Mints : Total(Users, receipts'[m]) <= Total(Users, receipts[m])
  PROVE  Backed'
<1>0. /\ vestings \in [Vestings -> Vesting]
      /\ vault \in [Safes -> Nat] /\ vault' \in [Safes -> Nat]
      /\ receipts \in [Mints -> [Users -> Nat]] /\ receipts' \in [Mints -> [Users -> Nat]]
  BY DEF LInv, TypeOK
<1>1. /\ \A s : AccountsOf(s)' = AccountsOf(s)
      /\ \A m : ClaimedFor(m)' = ClaimedFor(m)
      /\ Available' = Available /\ Balances' = Balances /\ Loans' = Loans
  BY DEF AccountsOf, ClaimedFor, Initialized, Available, Balances, Loans
<1>2. VaultBacksVestings'
  <2> SUFFICES ASSUME NEW s \in Safes \ migrated'
               PROVE  vault'[s] >= Total(AccountsOf(s), Available)
    BY <1>1, Zenon DEF VaultBacksVestings
  <2>1. vault[s] >= Total(AccountsOf(s), Available)
    BY DEF Backed, VaultBacksVestings
  <2>2. Total(AccountsOf(s), Available) \in Int
    <3>1. Total(AccountsOf(s), Available)
          = AllClaims(vestings, s)
      BY <1>0, WholeSums, Zenon DEF AccountsOf, Available, Initialized
    <3> QED BY <1>0, <3>1, SumsType
  <2>3. vault[s] \in Int /\ vault'[s] \in Int /\ vault'[s] >= vault[s]
    BY <1>0
  <2> QED BY <2>1, <2>2, <2>3
<1>3. ReceiptsBacked'
  <2> SUFFICES ASSUME NEW m \in Mints
               PROVE  Total(Users, receipts'[m]) <= Total(ClaimedFor(m), Balances)
    BY <1>1, Zenon DEF ReceiptsBacked, supply
  <2>1. Total(Users, receipts[m]) <= Total(ClaimedFor(m), Balances)
    BY DEF Backed, ReceiptsBacked, supply
  <2>2. Total(ClaimedFor(m), Balances) \in Int
    <3>1. Total(ClaimedFor(m), Balances)
          = AllOwed(vestings, m)
      BY <1>0, WholeSums, Zenon DEF ClaimedFor, Balances, Initialized
    <3> QED BY <1>0, <3>1, SumsType
  <2>3. Total(Users, receipts[m]) \in Int /\ Total(Users, receipts'[m]) \in Int
    <3>1. receipts[m] \in [Users -> Nat] /\ receipts'[m] \in [Users -> Nat]
      BY <1>0
    <3> QED BY <3>1, TotalInt, LockupAssumption
  <2> QED BY <2>1, <2>2, <2>3
<1>4. LoansAccounted'
  BY <1>1 DEF Backed, LoansAccounted
<1> QED BY <1>2, <1>3, <1>4 DEF Backed

\* A deposit adds a claim for what it puts into the vault.
LEMMA CreateBacked ==
  ASSUME CInv, TypeOK', NEW v \in Vestings, NEW s \in Safes, NEW u \in Users, NEW w \in Users,
         NEW m \in Mints, NEW d \in Durations, NEW p \in Periods, NEW a \in Deposits,
         CreateVesting(v, s, u, w, m, slot + d, p, a)
  PROVE  Backed'
<1> DEFINE old == vestings[v]
           new ==
       [initialized |-> TRUE, claimed |-> FALSE, safe |-> s, beneficiary |-> w,
        balance |-> a, start_balance |-> a,
        start_slot |-> slot, end_slot |-> slot + d, period_count |-> p,
        locked_nft_mint |-> m, whitelist_owned |-> 0]
<1>1. vestings' = [vestings EXCEPT ![v] = new] /\ ~old.initialized
  BY DEF CreateVesting, CanCreate
<1>2. a \in Nat /\ d \in Nat /\ p \in Nat /\ slot \in Nat /\ old \in Vesting
  BY LockupAssumption DEF CInv, LInv, TypeOK
<1>3. new \in Vesting
  BY <1>2 DEF Vesting
<1>4. Fresh(new)
  BY DEF Fresh
<1>5. old.whitelist_owned = 0
  BY <1>1 DEF CInv, Backed, Fresh
<1>6. /\ \A t : ClaimOn(new, t) = IF t = s THEN a ELSE 0
      /\ \A n : Owes(new, n) = 0
      /\ \A t : ClaimOn(old, t) = 0
      /\ \A n : Owes(old, n) = 0
      /\ new.whitelist_owned = 0
  BY <1>1, <1>2 DEF ClaimOn, Owes, available_for_whitelist
<1> HIDE DEF new, old
<1>7. /\ migrated' = migrated /\ lent' = lent /\ receipts' = receipts
      /\ vault' = [vault EXCEPT ![s] = @ + a]
  BY DEF CreateVesting
<1>8. \A t \in Safes : vault'[t] - vault[t] >= ClaimOn(new, t) - ClaimOn(old, t)
  BY <1>2, <1>6, <1>7 DEF CInv, LInv, TypeOK
<1>9. Total(Entries, lent') - Total(Entries, lent)
        <= new.whitelist_owned - old.whitelist_owned
  <2>1. Total(Entries, lent) \in Int
    BY TotalInt, WhitelistAssumption DEF CInv, LInv, TypeOK
  <2> QED BY <1>5, <1>6, <1>7, <2>1
<1>10. \A n \in Mints : Total(Users, receipts'[n]) - Total(Users, receipts[n])
                          <= Owes(new, n) - Owes(old, n)
  <2> SUFFICES ASSUME NEW n \in Mints
               PROVE  Total(Users, receipts[n]) - Total(Users, receipts[n]) <= 0 - 0
    BY <1>6, <1>7
  <2>1. receipts[n] \in [Users -> Nat]
    BY DEF CInv, LInv, TypeOK
  <2>2. Total(Users, receipts[n]) \in Int
    BY <2>1, TotalInt, LockupAssumption
  <2> QED BY <2>2
<1> QED BY <1>1, <1>3, <1>4, <1>7, <1>8, <1>9, <1>10, BackedByOne DEF CInv, old

\* The sums of tokens and receipts are numbers.
LEMMA TokensType ==
  ASSUME LInv
  PROVE  /\ Total(Entries, lent) \in Int
         /\ \A m \in Mints : Total(Users, receipts[m]) \in Int
<1>1. lent \in [Entries -> Nat] /\ \A m \in Mints : receipts[m] \in [Users -> Nat]
  BY DEF LInv, TypeOK
<1>2. \A m \in Mints : Total(Users, receipts[m]) \in Int
  <2> SUFFICES ASSUME NEW m \in Mints PROVE Total(Users, receipts[m]) \in Int
    OBVIOUS
  <2>1. receipts[m] \in [Users -> Nat]
    BY <1>1
  <2> QED BY <2>1, TotalInt, LockupAssumption
<1> QED BY <1>1, <1>2, TotalInt, WhitelistAssumption

\* Receipts of one mint and one holder come or go.
LEMMA ReceiptsChange ==
  ASSUME LInv, NEW n \in Mints, NEW u \in Users, NEW k \in Int,
         receipts' = [receipts EXCEPT ![n][u] = @ + k]
  PROVE  \A m \in Mints : Total(Users, receipts'[m]) - Total(Users, receipts[m])
                            = IF m = n THEN k ELSE 0
<1> SUFFICES ASSUME NEW m \in Mints
             PROVE  Total(Users, receipts'[m]) - Total(Users, receipts[m])
                      = IF m = n THEN k ELSE 0
  OBVIOUS
<1>1. receipts \in [Mints -> [Users -> Nat]]
  BY DEF LInv, TypeOK
<1>2. Total(Users, receipts[m]) \in Int
  BY TokensType
<1>3. CASE m = n
  <2> DEFINE f == receipts[m]
             g == receipts'[m]
  <2>1. Raised(f, g, Users, u, k)
    BY <1>1, <1>3 DEF Raised
  <2>2. Total(Users, g) = Total(Users, f) + k
    <3> HIDE DEF f, g
    <3> QED BY <2>1, TotalRaised, LockupAssumption
  <2>3. Total(Users, receipts'[m]) = Total(Users, receipts[m]) + k
    BY <2>2
  <2> QED BY <1>2, <1>3, <2>3
<1>4. CASE m # n
  <2>1. receipts'[m] = receipts[m]
    BY <1>1, <1>4
  <2> QED BY <1>2, <1>4, <2>1
<1> QED BY <1>3, <1>4

\* A claim issues receipts for the whole balance.
LEMMA ClaimBacked ==
  ASSUME CInv, TypeOK', NEW v \in Vestings, NEW s \in Safes, NEW u \in Users, NEW m \in Mints,
         Claim(v, s, u, m)
  PROVE  Backed'
<1> DEFINE old == vestings[v]
           new == [old EXCEPT !.claimed = TRUE]
<1>1. /\ old.initialized /\ ~old.claimed /\ old.locked_nft_mint = m
      /\ vestings' = [vestings EXCEPT ![v] = new]
  BY DEF Claim, CanClaim, vesting, locked_token
<1>2. old \in Vesting /\ old.balance = old.start_balance
  BY <1>1 DEF CInv, LInv, TypeOK, Backed, Fresh
<1> HIDE DEF old
<1>3. new \in Vesting
  BY <1>2 DEF Vesting
<1>4. /\ new.initialized = old.initialized /\ new.claimed = TRUE
      /\ new.balance = old.balance /\ new.whitelist_owned = old.whitelist_owned
      /\ new.safe = old.safe /\ new.locked_nft_mint = m
  BY <1>1, <1>2 DEF Vesting
<1> HIDE DEF new
<1>5. Fresh(new)
  BY <1>1, <1>4 DEF Fresh
<1>6. /\ \A t : ClaimOn(new, t) = ClaimOn(old, t)
      /\ \A n : Owes(new, n) - Owes(old, n) = IF n = m THEN old.balance ELSE 0
      /\ old.balance \in Nat /\ old.whitelist_owned \in Nat
  <2>1. old.balance \in Nat /\ old.whitelist_owned \in Nat
    BY <1>2 DEF Vesting
  <2> QED BY <1>1, <1>4, <2>1 DEF ClaimOn, Owes, available_for_whitelist
<1>7. /\ migrated' = migrated /\ lent' = lent /\ vault' = vault
      /\ receipts' = [receipts EXCEPT ![m][u] = @ + old.balance]
  BY <1>2 DEF Claim, old
<1>8. \A t \in Safes : vault'[t] - vault[t] >= ClaimOn(new, t) - ClaimOn(old, t)
  <2>1. \A t : ClaimOn(old, t) \in Int
    BY <1>2, Numbers
  <2>2. \A t \in Safes : vault[t] \in Int
    BY DEF CInv, LInv, TypeOK
  <2> QED BY <1>6, <1>7, <2>1, <2>2
<1>9. Total(Entries, lent') - Total(Entries, lent)
        <= new.whitelist_owned - old.whitelist_owned
  BY <1>4, <1>6, <1>7, TokensType DEF CInv
<1>10. \A n \in Mints : Total(Users, receipts'[n]) - Total(Users, receipts[n])
                          <= Owes(new, n) - Owes(old, n)
  <2>1. old.balance \in Int
    BY <1>6
  <2>2. \A n \in Mints : Total(Users, receipts'[n]) - Total(Users, receipts[n])
                           = IF n = m THEN old.balance ELSE 0
    BY <1>7, <2>1, ReceiptsChange DEF CInv
  <2> QED BY <1>6, <2>1, <2>2
<1> QED BY <1>1, <1>3, <1>5, <1>7, <1>8, <1>9, <1>10, BackedByOne DEF CInv, old

\* A redemption burns the receipts, lowers the balance and pays the same.
LEMMA RedeemBacked ==
  ASSUME CInv, TypeOK', NEW v \in Vestings, NEW s \in Safes, NEW u \in Users, NEW w \in Users,
         NEW m \in Mints, NEW a \in Amounts, Redeem(v, s, u, w, m, a)
  PROVE  Backed'
<1> DEFINE old == vestings[v]
           new == [old EXCEPT !.balance = @ - a]
<1>1. /\ old.initialized /\ old.claimed /\ old.locked_nft_mint = m /\ old.safe = s
      /\ vestings' = [vestings EXCEPT ![v] = new] /\ a \in Nat
  BY LockupAssumption DEF Redeem, CanRedeem, vesting, locked_token, Amounts
<1>2. old \in Vesting /\ new \in Vesting
  <2>1. vestings' \in [Vestings -> Vesting] /\ vestings \in [Vestings -> Vesting]
    BY DEF CInv, LInv, TypeOK
  <2> HIDE DEF new
  <2> QED BY <1>1, <2>1
<1> HIDE DEF old
<1>4. /\ new.initialized = old.initialized /\ new.claimed = old.claimed
      /\ new.balance = old.balance - a /\ new.whitelist_owned = old.whitelist_owned
      /\ new.safe = old.safe /\ new.locked_nft_mint = old.locked_nft_mint
  BY <1>2 DEF Vesting
<1> HIDE DEF new
<1>5. Fresh(new)
  BY <1>1, <1>4 DEF Fresh
<1>6. /\ \A t : ClaimOn(new, t) - ClaimOn(old, t) = IF t = s THEN -a ELSE 0
      /\ \A n : Owes(new, n) - Owes(old, n) = IF n = m THEN -a ELSE 0
      /\ old.balance \in Nat /\ old.whitelist_owned \in Nat
  <2>1. old.balance \in Nat /\ old.whitelist_owned \in Nat
    BY <1>2 DEF Vesting
  <2> QED BY <1>1, <1>4, <2>1 DEF ClaimOn, Owes, available_for_whitelist
<1>7. /\ migrated' = migrated /\ lent' = lent /\ vault' = [vault EXCEPT ![s] = @ - a]
      /\ receipts' = [receipts EXCEPT ![m][u] = @ - a]
  BY DEF Redeem
<1>8. \A t \in Safes : vault'[t] - vault[t] >= ClaimOn(new, t) - ClaimOn(old, t)
  <2>1. vault \in [Safes -> Nat]
    BY DEF CInv, LInv, TypeOK
  <2> QED BY <1>1, <1>6, <1>7, <2>1
<1>9. Total(Entries, lent') - Total(Entries, lent)
        <= new.whitelist_owned - old.whitelist_owned
  BY <1>4, <1>6, <1>7, TokensType DEF CInv
<1>10. \A n \in Mints : Total(Users, receipts'[n]) - Total(Users, receipts[n])
                          <= Owes(new, n) - Owes(old, n)
  <2>2. \A n \in Mints : Total(Users, receipts'[n]) - Total(Users, receipts[n])
                           = IF n = m THEN -a ELSE 0
    <3> DEFINE k == -a
    <3>0. k \in Int /\ receipts[m][u] - a = receipts[m][u] + k
      BY <1>1 DEF CInv, LInv, TypeOK
    <3>1. receipts' = [receipts EXCEPT ![m][u] = @ + k]
      <4> HIDE DEF k
      <4> QED BY <1>7, <3>0
    <3>2. \A n \in Mints : Total(Users, receipts'[n]) - Total(Users, receipts[n])
                             = IF n = m THEN k ELSE 0
      <4> HIDE DEF k
      <4>1. LInv /\ k \in Int
        BY <3>0 DEF CInv
      <4> QED BY <3>1, <4>1, ReceiptsChange, Zenon
    <3> QED BY <3>2
  <2> QED BY <1>1, <1>6, <2>2
<1> QED BY <1>1, <1>2, <1>5, <1>7, <1>8, <1>9, <1>10, BackedByOne DEF CInv, old

\* What is lent leaves the vault for the program and is charged to the account;
\* `charged' is what the account is charged, `taken' what leaves the vault.
LEMMA LentBacked ==
  ASSUME CInv, TypeOK', NEW v \in Vestings, NEW s \in Safes, NEW u \in Users, NEW e \in Entries,
         vesting(v, s, u), vestings[v].claimed,
         NEW charged \in Int, NEW taken \in Int, taken <= charged,
         vestings' = [vestings EXCEPT ![v].whitelist_owned = @ + charged],
         vault' = [vault EXCEPT ![s] = @ - taken], lent' = [lent EXCEPT ![e] = @ + taken],
         receipts' = receipts, migrated' = migrated
  PROVE  Backed'
<1> DEFINE old == vestings[v]
           new == [old EXCEPT !.whitelist_owned = @ + charged]
<1>1. /\ old.initialized /\ old.claimed /\ old.safe = s
      /\ vestings' = [vestings EXCEPT ![v] = new]
  BY DEF vesting
<1>2. old \in Vesting /\ new \in Vesting
  <2>1. vestings' \in [Vestings -> Vesting] /\ vestings \in [Vestings -> Vesting]
    BY DEF CInv, LInv, TypeOK
  <2> HIDE DEF new
  <2> QED BY <1>1, <2>1
<1> HIDE DEF old
<1>4. /\ new.initialized = old.initialized /\ new.claimed = old.claimed
      /\ new.balance = old.balance /\ new.whitelist_owned = old.whitelist_owned + charged
      /\ new.safe = old.safe /\ new.locked_nft_mint = old.locked_nft_mint
  BY <1>2 DEF Vesting
<1> HIDE DEF new
<1>5. Fresh(new)
  BY <1>1, <1>4 DEF Fresh
<1>6. /\ \A t : ClaimOn(new, t) - ClaimOn(old, t) = IF t = s THEN -charged ELSE 0
      /\ \A n : Owes(new, n) = Owes(old, n)
      /\ old.balance \in Nat /\ old.whitelist_owned \in Nat
  <2>1. old.balance \in Nat /\ old.whitelist_owned \in Nat
    BY <1>2 DEF Vesting
  <2> QED BY <1>1, <1>4, <2>1 DEF ClaimOn, Owes, available_for_whitelist
<1>8. \A t \in Safes : vault'[t] - vault[t] >= ClaimOn(new, t) - ClaimOn(old, t)
  <2>1. vault \in [Safes -> Nat]
    BY DEF CInv, LInv, TypeOK
  <2> QED BY <1>6, <2>1
<1>9. Total(Entries, lent') - Total(Entries, lent)
        <= new.whitelist_owned - old.whitelist_owned
  <2> DEFINE f == lent
             g == lent'
  <2>1. Raised(f, g, Entries, e, taken)
    BY DEF Raised, CInv, LInv, TypeOK
  <2>2. Total(Entries, g) = Total(Entries, f) + taken
    <3> HIDE DEF f, g
    <3> QED BY <2>1, TotalRaised, WhitelistAssumption
  <2>3. Total(Entries, lent') = Total(Entries, lent) + taken
    BY <2>2
  <2> QED BY <1>4, <1>6, <2>3, TokensType DEF CInv
<1>10. \A n \in Mints : Total(Users, receipts'[n]) - Total(Users, receipts[n])
                          <= Owes(new, n) - Owes(old, n)
  <2>1. \A n : Owes(old, n) \in Int
    BY <1>2, Numbers
  <2>2. \A n \in Mints : Total(Users, receipts[n]) \in Int
    BY TokensType DEF CInv
  <2> QED BY <1>6, <2>1, <2>2
<1> QED BY <1>1, <1>2, <1>5, <1>8, <1>9, <1>10, BackedByOne DEF CInv, old

\* Both transfers of a whitelisted program.
LEMMA LendsBacked ==
  ASSUME CInv, TypeOK', Lends
  PROVE  Backed'
<1>1. PICK v \in Vestings, s \in Safes, u \in Users, e \in Entries, a \in Amounts :
        \/ \E taken \in (0 - lent[e]) .. a : WhitelistWithdraw(v, s, u, e, a, taken)
        \/ WhitelistDeposit(v, s, u, e, a)
  BY DEF Lends
<1>2. /\ a \in Nat /\ vestings \in [Vestings -> Vesting]
      /\ vault \in [Safes -> Nat] /\ lent \in [Entries -> Nat]
  BY LockupAssumption DEF Amounts, CInv, LInv, TypeOK
<1>3. CASE \E taken \in (0 - lent[e]) .. a : WhitelistWithdraw(v, s, u, e, a, taken)
  <2>1. PICK taken \in (0 - lent[e]) .. a : WhitelistWithdraw(v, s, u, e, a, taken)
    BY <1>3
  <2>2. /\ vesting(v, s, u) /\ vestings[v].claimed
        /\ vault' = [vault EXCEPT ![s] = @ - taken]
        /\ lent' = [lent EXCEPT ![e] = @ + taken]
        /\ receipts' = receipts /\ migrated' = migrated
    BY <2>1 DEF WhitelistWithdraw, CanLend, stake
  <2>3. vestings' = [vestings EXCEPT ![v].whitelist_owned = @ + a]
    <3>1. vestings' = [vestings EXCEPT ![v].whitelist_owned = @ + (a - 0)]
      BY <2>1 DEF WhitelistWithdraw, delegated_amount
    <3>2. a - 0 = a
      BY <1>2
    <3> QED BY <3>1, <3>2
  <2>4. a \in Int /\ taken \in Int /\ taken <= a
    BY <1>2, <2>1 DEF WhitelistWithdraw
  <2> QED BY <2>2, <2>3, <2>4, LentBacked
<1>4. CASE WhitelistDeposit(v, s, u, e, a)
  <2> DEFINE k == -a
  <2>1. /\ vesting(v, s, u) /\ vestings[v].claimed
        /\ vault' = [vault EXCEPT ![s] = @ + a]
        /\ lent' = [lent EXCEPT ![e] = @ - a]
        /\ vestings' = [vestings EXCEPT ![v].whitelist_owned = @ - a]
        /\ receipts' = receipts /\ migrated' = migrated
    BY <1>4 DEF WhitelistDeposit, CanTakeBack, unstake, TakeBack
  <2>2. /\ vault[s] + a = vault[s] - k /\ lent[e] - a = lent[e] + k
        /\ vestings[v].whitelist_owned - a = vestings[v].whitelist_owned + k
    <3>1. vestings[v].whitelist_owned \in Int
      BY <1>2 DEF Vesting
    <3> QED BY <1>2, <3>1
  <2>3. /\ vault' = [vault EXCEPT ![s] = @ - k]
        /\ lent' = [lent EXCEPT ![e] = @ + k]
        /\ vestings' = [vestings EXCEPT ![v].whitelist_owned = @ + k]
    <3> HIDE DEF k
    <3> QED BY <2>1, <2>2
  <2>4. k \in Int /\ k <= k
    BY <1>2
  <2>5. vesting(v, s, u) /\ vestings[v].claimed /\ receipts' = receipts /\ migrated' = migrated
    BY <2>1
  <2> HIDE DEF k
  <2> QED BY <2>3, <2>4, <2>5, LentBacked
<1> QED BY <1>1, <1>3, <1>4

\* What the authority of a safe does: only a migration empties a vault.
LEMMA GovernedBacked ==
  ASSUME CInv, TypeOK', Governed
  PROVE  Backed'
<1>1. PICK s \in Safes, u \in Users, w \in Users, l \in Whitelists, e \in Entries :
        \/ Initialize(s, u, l) \/ SetAuthority(s, u, w)
        \/ WhitelistAdd(s, u, e) \/ WhitelistDelete(s, u, e) \/ Migrate(s, u, w)
  BY DEF Governed
<1>2. vestings' = vestings /\ lent' = lent /\ receipts' = receipts
  BY <1>1
     DEF Initialize, SetAuthority, WhitelistAdd, WhitelistDelete, Migrate, tokens
<1>3. vault \in [Safes -> Nat]
  BY DEF CInv, LInv, TypeOK
<1>4. \A t \in Safes \ migrated' : t \notin migrated /\ vault'[t] >= vault[t]
  <2>1. CASE Migrate(s, u, w)
    BY <1>3, <2>1 DEF Migrate
  <2>2. CASE ~Migrate(s, u, w)
    <3>1. vault' = vault /\ migrated' = migrated
      BY <1>1, <2>2 DEF Initialize, SetAuthority, WhitelistAdd, WhitelistDelete, tokens
    <3> QED BY <1>3, <3>1
  <2> QED BY <2>1, <2>2
<1>5. \A m \in Mints : Total(Users, receipts'[m]) <= Total(Users, receipts[m])
  BY <1>2, TokensType DEF CInv
<1> QED BY <1>2, <1>4, <1>5, BackedByNone DEF CInv

\* The clock, donations and receipts that change hands.
LEMMA OutsideBacked ==
  ASSUME CInv, TypeOK', Outside
  PROVE  Backed'
<1>1. vault \in [Safes -> Nat] /\ receipts \in [Mints -> [Users -> Nat]]
  BY DEF CInv, LInv, TypeOK
<1>2. \A m \in Mints : Total(Users, receipts[m]) \in Int
  BY TokensType DEF CInv
<1>3. vestings' = vestings /\ lent' = lent /\ migrated' = migrated
  BY DEF Outside, Tick, Donate, GiveReceipt, BurnReceipt, tokens
<1>4. \A t \in Safes : vault'[t] >= vault[t]
  <2>1. vault' = vault \/ \E s \in Safes : vault' = [vault EXCEPT ![s] = @ + 1]
    BY DEF Outside, Tick, Donate, GiveReceipt, BurnReceipt, tokens
  <2> QED BY <1>1, <2>1
<1>5. CASE receipts' = receipts
  BY <1>2, <1>3, <1>4, <1>5, BackedByNone DEF CInv
<1>6. CASE \E m \in Mints, u, w \in Users : GiveReceipt(m, u, w) \/ BurnReceipt(m, u)
  <2>1. PICK m \in Mints, u \in Users, w \in Users : GiveReceipt(m, u, w) \/ BurnReceipt(m, u)
    BY <1>6
  <2> DEFINE f == receipts[m]
             k == -1
             less == [f EXCEPT ![u] = @ + k]
  <2>2. f \in [Users -> Nat] /\ f[u] > 0
    BY <1>1, <2>1 DEF GiveReceipt, BurnReceipt
  <2>3. less \in [Users -> Int]
    BY <2>2
  <2>4. receipts'[m] = less \/ receipts'[m] = [less EXCEPT ![w] = @ + 1]
    <3>1. f[u] - 1 = f[u] + k
      BY <2>2
    <3>2. CASE BurnReceipt(m, u)
      <4>1. receipts' = [receipts EXCEPT ![m][u] = @ - 1]
        BY <3>2 DEF BurnReceipt
      <4>2. receipts'[m] = [f EXCEPT ![u] = @ - 1]
        BY <1>1, <4>1
      <4> QED BY <3>1, <4>2
    <3>3. CASE GiveReceipt(m, u, w)
      <4>1. /\ receipts' = [receipts EXCEPT ![m][u] = @ - 1, ![m][w] = @ + 1]
            /\ u # w
        BY <3>3 DEF GiveReceipt
      <4>2. receipts'[m] = [[f EXCEPT ![u] = @ - 1] EXCEPT ![w] = @ + 1]
        BY <1>1, <4>1
      <4> QED BY <3>1, <4>2
    <3> QED BY <2>1, <3>2, <3>3
  <2>5. \A n \in Mints : n # m => receipts'[n] = receipts[n]
    BY <1>1, <2>1 DEF GiveReceipt, BurnReceipt
  <2>6. Total(Users, less) = Total(Users, f) + k
    <3>1. Raised(f, less, Users, u, k) /\ k \in Int
      BY <2>2 DEF Raised
    <3> HIDE DEF f, k, less
    <3> QED BY <3>1, TotalRaised, LockupAssumption
  <2>7. Total(Users, [less EXCEPT ![w] = @ + 1]) = Total(Users, less) + 1
    <3> DEFINE more == [less EXCEPT ![w] = @ + 1]
    <3>1. Raised(less, more, Users, w, 1)
      BY <2>3 DEF Raised
    <3>2. Total(Users, more) = Total(Users, less) + 1
      <4> HIDE DEF less, more
      <4> QED BY <3>1, TotalRaised, LockupAssumption
    <3> QED BY <3>2
  <2>8. Total(Users, receipts'[m]) <= Total(Users, f)
    <3>1. Total(Users, f) \in Int
      BY <1>2
    <3> DEFINE sum == Total(Users, f)
               fewer == Total(Users, less)
               moved == Total(Users, [less EXCEPT ![w] = @ + 1])
    <3>2. sum \in Int /\ fewer = sum + (-1) /\ moved = fewer + 1
      BY <2>6, <2>7, <3>1
    <3>3. Total(Users, receipts'[m]) \in {fewer, moved}
      BY <2>4, Zenon
    <3> HIDE DEF sum, fewer, moved
    <3>4. Total(Users, receipts'[m]) <= sum
      BY <3>2, <3>3
    <3> QED BY <3>4 DEF sum
  <2>9. \A n \in Mints : Total(Users, receipts'[n]) <= Total(Users, receipts[n])
    BY <1>2, <2>5, <2>8
  <2> QED BY <1>3, <1>4, <2>9, BackedByNone DEF CInv
<1>7. receipts' = receipts
      \/ \E m \in Mints, u, w \in Users : GiveReceipt(m, u, w) \/ BurnReceipt(m, u)
  BY DEF Outside, Tick, Donate, tokens
<1> QED BY <1>5, <1>6, <1>7

\* A cluster without accounts owes nothing.
LEMMA InitBacked == Init => Backed
<1> SUFFICES ASSUME Init PROVE Backed
  OBVIOUS
<1>1. \A v \in Vestings : Fresh(vestings[v]) /\ ~vestings[v].initialized
                          /\ vestings[v].whitelist_owned = 0
  BY DEF Init, NewVesting, Fresh
<1>2. VaultBacksVestings
  <2>1. \A s : AccountsOf(s) = {}
    BY <1>1 DEF AccountsOf, Initialized
  <2>2. \A s \in Safes : vault[s] = 0
    BY DEF Init
  <2> QED BY <2>1, <2>2, TotalEmpty DEF VaultBacksVestings
<1>3. ReceiptsBacked
  <2>1. \A m : ClaimedFor(m) = {}
    BY <1>1 DEF ClaimedFor, Initialized
  <2>2. \A m \in Mints : Total(Users, receipts[m]) = 0
    <3>1. \A m \in Mints : \A u \in Users : receipts[m][u] = 0
      BY DEF Init
    <3> QED BY <3>1, TotalZero, LockupAssumption
  <2> QED BY <2>1, <2>2, TotalEmpty DEF ReceiptsBacked, supply
<1>4. LoansAccounted
  <2>1. Total(Entries, lent) = 0
    <3>1. \A e \in Entries : lent[e] = 0
      BY DEF Init
    <3> QED BY <3>1, TotalZero, WhitelistAssumption
  <2>2. Total(Vestings, Loans) = 0
    <3>1. \A v \in Vestings : Loans[v] = 0
      BY <1>1 DEF Loans
    <3> QED BY <3>1, TotalZero, LockupAssumption
  <2> QED BY <2>1, <2>2 DEF LoansAccounted
<1> QED BY <1>1, <1>2, <1>3, <1>4 DEF Backed

\* Custody is inductive on top of the invariant of the single accounts.
LEMMA BackedStep == CInv /\ [Next]_vars => CInv'
<1> SUFFICES ASSUME CInv, [Next]_vars PROVE CInv'
  OBVIOUS
<1>1. LInv' /\ TypeOK'
  BY StepKeeps DEF CInv, LInv
<1>2. CASE Vests
  <2>1. PICK v \in Vestings, s \in Safes, u \in Users, w \in Users, m \in Mints :
          \/ \E d \in Durations, p \in Periods, a \in Deposits :
               CreateVesting(v, s, u, w, m, slot + d, p, a)
          \/ Claim(v, s, u, m)
          \/ \E a \in Amounts : Redeem(v, s, u, w, m, a)
    BY <1>2 DEF Vests
  <2> QED BY <1>1, <2>1, CreateBacked, ClaimBacked, RedeemBacked DEF CInv
<1>3. CASE UNCHANGED vars
  <2>1. Backed'
    BY <1>3 DEF vars, CInv, Backed, VaultBacksVestings, LoansAccounted, ReceiptsBacked,
                AccountsOf, ClaimedFor, Available, Balances, Loans, Initialized, supply
  <2> QED BY <1>1, <2>1 DEF CInv
<1> QED BY <1>1, <1>2, <1>3, GovernedBacked, LendsBacked, OutsideBacked DEF Next, CInv

\* The books of all accounts together hold in every reachable state.
LEMMA Custody == Spec => []CInv
<1>1. Init => CInv
  BY InitKeeps, InitBacked DEF CInv
<1> QED BY <1>1, BackedStep, PTL DEF Spec

\* Until it is migrated, a vault holds what all the vesting accounts of its safe
\* together may still redeem or lend, for any number of safes and accounts.
THEOREM VestingsBacked == Spec => []VaultBacksVestings
<1>1. CInv => VaultBacksVestings
  BY DEF CInv, Backed
<1> QED BY <1>1, Custody, PTL

\* What all the whitelisted programs hold, of whatever safe, is charged to all
\* the vesting accounts together (whitelist_withdraw.rs, whitelist_deposit.rs).
THEOREM LoansCharged == Spec => []LoansAccounted
<1>1. CInv => LoansAccounted
  BY DEF CInv, Backed
<1> QED BY <1>1, Custody, PTL

\* There are never more receipts than the claimed accounts of the mint owe, also
\* when accounts share a mint.
THEOREM ReceiptsCovered == Spec => []ReceiptsBacked
<1>1. CInv => ReceiptsBacked
  BY DEF CInv, Backed
<1> QED BY <1>1, Custody, PTL

\* Until a safe is migrated, no transfer out of its vault fails for want of
\* tokens: whatever passes the checks of redeem.rs or of whitelist_withdraw.rs
\* is there.
PaymentsCovered ==
  \A v \in Vestings, s \in Safes \ migrated, u \in Users, a \in Amounts :
    /\ \A m \in Mints : CanRedeem(v, s, u, m, a) => a <= vault[s]
    /\ \A e \in Entries : CanLend(v, s, u, e, a) => a <= vault[s]

\* The payments that redeem.rs and whitelist_withdraw.rs agree to are covered
\* until the authority of the safe migrates its vault.  Afterwards the checks of
\* both still pass, and their transfers fail for want of tokens.
THEOREM PaymentsNeverFail == Spec => []PaymentsCovered
<1>1. ASSUME CInv, NEW v \in Vestings, NEW s \in Safes \ migrated, NEW u \in Users,
             NEW a \in Amounts, vesting(v, s, u), a <= available_for_whitelist(vestings[v])
      PROVE  a <= vault[s]
  <2>1. vestings \in [Vestings -> Vesting] /\ vault[s] \in Nat /\ a \in Nat
    BY <1>1, LockupAssumption DEF CInv, LInv, TypeOK, Amounts
  <2> DEFINE f == [w \in Vestings |-> ClaimOn(vestings[w], s)]
  <2>2. \A w \in Vestings : f[w] \in Nat
    <3> SUFFICES ASSUME NEW w \in Vestings PROVE ClaimOn(vestings[w], s) \in Nat
      OBVIOUS
    <3>1. CASE vestings[w].initialized
      <4>1. Sound(vestings[w], slot)
        BY <1>1, <3>1 DEF CInv, LInv, Initialized
      <4> QED BY <4>1 DEF Sound, Schedule, ClaimOn, available_for_whitelist
    <3>2. CASE ~vestings[w].initialized
      BY <3>2 DEF ClaimOn
    <3> QED BY <3>1, <3>2
  <2>3. f[v] <= Total(Vestings, f)
    <3> HIDE DEF f
    <3> QED BY <2>2, TotalNat, LockupAssumption
  <2>4. f[v] = available_for_whitelist(vestings[v])
    BY <1>1 DEF ClaimOn, vesting
  <2>5. vault[s] >= Total(Vestings, f)
    BY <1>1, BackedForms DEF CInv, LInv, Backed, AllClaims
  <2>6. Total(Vestings, f) \in Nat
    <3> HIDE DEF f
    <3> QED BY <2>2, TotalNat, LockupAssumption
  <2>7. available_for_whitelist(vestings[v]) \in Int
    BY <2>2, <2>4
  <2> HIDE DEF f
  <2> QED BY <1>1, <2>1, <2>3, <2>4, <2>5, <2>6, <2>7
<1>2. ASSUME CInv, NEW v \in Vestings, NEW s \in Safes, NEW u \in Users, NEW m \in Mints,
             NEW a \in Amounts, CanRedeem(v, s, u, m, a)
      PROVE  vesting(v, s, u) /\ a <= available_for_whitelist(vestings[v])
  <2> DEFINE old == vestings[v]
  <2>1. /\ vesting(v, s, u) /\ old.initialized /\ Computable(old, slot)
        /\ a <= available_for_withdrawal(old, slot)
    BY <1>2 DEF CanRedeem, vesting
  <2>2. Sound(old, slot) /\ a \in Nat /\ slot \in Nat
    BY <1>2, <2>1, LockupAssumption DEF CInv, LInv, TypeOK, Initialized, Amounts
  <2> HIDE DEF old
  <2>3. total_vested(old, slot) \in 0 .. old.start_balance
    BY <2>1, <2>2, VestedBounds DEF Sound
  <2>4. a <= available_for_whitelist(old)
    BY <2>1, <2>2, <2>3
       DEF available_for_withdrawal, available_for_whitelist, balance_vested,
           withdrawn_amount, Least, Sound, Schedule
  <2> QED BY <2>1, <2>4 DEF old
<1>3. CInv => PaymentsCovered
  BY <1>1, <1>2 DEF PaymentsCovered, CanLend
<1> QED BY <1>3, Custody, PTL

-----------------------------------------------------------------------------
(* Steps                                                                   *)

\* What an instruction may do to an account in use.
Amended(old, new) ==
  /\ new = [old EXCEPT !.claimed = new.claimed, !.balance = new.balance,
                       !.whitelist_owned = new.whitelist_owned]
  /\ old.claimed => new.claimed
  /\ new.balance <= old.balance

\* Records that agree on all other fields.
LEMMA ThreeFields ==
  ASSUME NEW old \in Vesting, NEW new \in Vesting,
         new.initialized = old.initialized, new.safe = old.safe,
         new.beneficiary = old.beneficiary, new.start_balance = old.start_balance,
         new.start_slot = old.start_slot, new.end_slot = old.end_slot,
         new.period_count = old.period_count, new.locked_nft_mint = old.locked_nft_mint
  PROVE  new = [old EXCEPT !.claimed = new.claimed, !.balance = new.balance,
                           !.whitelist_owned = new.whitelist_owned]
BY DEF Vesting

\* An account that stays as it is.
LEMMA SameAmended ==
  ASSUME NEW old \in Vesting
  PROVE  Amended(old, old)
<1>1. old = [old EXCEPT !.claimed = old.claimed, !.balance = old.balance,
                        !.whitelist_owned = old.whitelist_owned]
  BY ThreeFields
<1>2. old.balance \in Nat
  BY DEF Vesting
<1> QED BY <1>1, <1>2 DEF Amended

\* An instruction amends every account if it amends the one it works on.
LEMMA OthersAmended ==
  ASSUME LInv, NEW v \in Vestings, NEW new,
         vestings' = [vestings EXCEPT ![v] = new],
         vestings[v].initialized => Amended(vestings[v], new)
  PROVE  \A w \in Initialized : Amended(vestings[w], vestings'[w])
<1> SUFFICES ASSUME NEW w \in Initialized PROVE Amended(vestings[w], vestings'[w])
  OBVIOUS
<1>1. vestings \in [Vestings -> Vesting] /\ w \in Vestings /\ vestings[w].initialized
  BY DEF LInv, TypeOK, Initialized
<1>2. CASE w = v
  BY <1>1, <1>2
<1>3. CASE w # v
  <2>1. vestings'[w] = vestings[w] /\ vestings[w] \in Vesting
    BY <1>1, <1>3
  <2> QED BY <2>1, SameAmended
<1> QED BY <1>2, <1>3

\* The terms of a vesting account are those of its deposit for ever
\* (initialized in create_vesting.rs, claimed in claim.rs).
THEOREM TermsKept == Spec => TermsFixed
<1>1. ASSUME LInv, LInv', Next
      PROVE  \A v \in Initialized : Amended(vestings[v], vestings'[v])
  <2>0. vestings \in [Vestings -> Vesting] /\ vestings' \in [Vestings -> Vesting]
    BY <1>1 DEF LInv, TypeOK
  <2>1. CASE vestings' = vestings
    <3> SUFFICES ASSUME NEW v \in Initialized PROVE Amended(vestings[v], vestings'[v])
      OBVIOUS
    <3>1. vestings[v] \in Vesting
      BY <2>0 DEF Initialized
    <3> QED BY <2>1, <3>1, SameAmended
  <2>2. CASE Vests
    <3>1. PICK v \in Vestings, s \in Safes, u \in Users, w \in Users, m \in Mints :
            \/ \E d \in Durations, p \in Periods, a \in Deposits :
                 CreateVesting(v, s, u, w, m, slot + d, p, a)
            \/ Claim(v, s, u, m)
            \/ \E a \in Amounts : Redeem(v, s, u, w, m, a)
      BY <2>2 DEF Vests
    <3>2. CASE \E d \in Durations, p \in Periods, a \in Deposits :
                 CreateVesting(v, s, u, w, m, slot + d, p, a)
      <4>1. ~vestings[v].initialized /\ \E new : vestings' = [vestings EXCEPT ![v] = new]
        BY <3>2 DEF CreateVesting, CanCreate
      <4> QED BY <1>1, <4>1, OthersAmended
    <3>3. CASE Claim(v, s, u, m)
      <4> DEFINE old == vestings[v]
                 new == [old EXCEPT !.claimed = TRUE]
      <4>1. vestings' = [vestings EXCEPT ![v] = new]
        BY <3>3 DEF Claim
      <4>2. old \in Vesting /\ new \in Vesting
        <5> HIDE DEF new
        <5> QED BY <2>0, <4>1
      <4>3. Amended(old, new)
        <5> HIDE DEF old
        <5>1. new = [old EXCEPT !.claimed = new.claimed, !.balance = new.balance,
                                !.whitelist_owned = new.whitelist_owned]
          BY <4>2, ThreeFields DEF Vesting
        <5>2. new.claimed /\ new.balance = old.balance /\ old.balance \in Nat
          BY <4>2 DEF Vesting
        <5> QED BY <5>1, <5>2 DEF Amended
      <4> HIDE DEF new
      <4> QED BY <1>1, <4>1, <4>3, OthersAmended
    <3>4. CASE \E a \in Amounts : Redeem(v, s, u, w, m, a)
      <4>1. PICK a \in Amounts : Redeem(v, s, u, w, m, a)
        BY <3>4
      <4> DEFINE old == vestings[v]
                 new == [old EXCEPT !.balance = @ - a]
      <4>2. vestings' = [vestings EXCEPT ![v] = new] /\ a \in Nat
        BY <4>1, LockupAssumption DEF Redeem, Amounts
      <4>3. old \in Vesting /\ new \in Vesting
        <5> HIDE DEF new
        <5> QED BY <2>0, <4>2
      <4>4. Amended(old, new)
        <5> HIDE DEF old
        <5>1. new = [old EXCEPT !.claimed = new.claimed, !.balance = new.balance,
                                !.whitelist_owned = new.whitelist_owned]
          BY <4>3, ThreeFields DEF Vesting
        <5>2. new.claimed = old.claimed /\ new.balance = old.balance - a
              /\ old.balance \in Nat
          BY <4>3 DEF Vesting
        <5> QED BY <4>2, <5>1, <5>2 DEF Amended
      <4> HIDE DEF new
      <4> QED BY <1>1, <4>2, <4>4, OthersAmended
    <3> QED BY <3>1, <3>2, <3>3, <3>4
  <2>3. CASE Lends
    <3>1. PICK v \in Vestings, owned \in Int :
            vestings' = [vestings EXCEPT ![v].whitelist_owned = owned]
      <4>1. PICK v \in Vestings, s \in Safes, u \in Users, e \in Entries, a \in Amounts :
              \/ \E taken \in (0 - lent[e]) .. a : WhitelistWithdraw(v, s, u, e, a, taken)
              \/ WhitelistDeposit(v, s, u, e, a)
        BY <2>3 DEF Lends
      <4>2. vestings[v].whitelist_owned \in Int /\ a \in Int
        BY <2>0, LockupAssumption DEF Vesting, Amounts
      <4> QED BY <4>1, <4>2 DEF WhitelistWithdraw, WhitelistDeposit, TakeBack, delegated_amount
    <3> DEFINE old == vestings[v]
               new == [old EXCEPT !.whitelist_owned = owned]
    <3>2. vestings' = [vestings EXCEPT ![v] = new]
      BY <3>1
    <3>3. old \in Vesting /\ new \in Vesting
      <4> HIDE DEF new
      <4> QED BY <2>0, <3>2
    <3>4. Amended(old, new)
      <4> HIDE DEF old
      <4>1. new = [old EXCEPT !.claimed = new.claimed, !.balance = new.balance,
                              !.whitelist_owned = new.whitelist_owned]
        BY <3>3, ThreeFields DEF Vesting
      <4>2. new.claimed = old.claimed /\ new.balance = old.balance /\ old.balance \in Nat
        BY <3>3 DEF Vesting
      <4> QED BY <4>1, <4>2 DEF Amended
    <3> HIDE DEF new
    <3> QED BY <1>1, <3>2, <3>4, OthersAmended
  <2>4. CASE Governed
    <3>1. vestings' = vestings
      BY <2>4 DEF Governed, Initialize, SetAuthority, WhitelistAdd, WhitelistDelete, Migrate
    <3> QED BY <2>1, <3>1
  <2>5. CASE Outside
    <3>1. vestings' = vestings
      BY <2>5 DEF Outside, Tick, Donate, GiveReceipt, BurnReceipt
    <3> QED BY <2>1, <3>1
  <2> QED BY <1>1, <2>2, <2>3, <2>4, <2>5 DEF Next
<1> DEFINE Step == \A v \in Initialized :
             LET old == vestings[v] new == vestings'[v]
             IN  /\ new = [old EXCEPT !.claimed = new.claimed, !.balance = new.balance,
                                      !.whitelist_owned = new.whitelist_owned]
                 /\ old.claimed => new.claimed
                 /\ new.balance <= old.balance
<1>2. LInv /\ LInv' /\ [Next]_vars => [Step]_vars
  BY <1>1 DEF Amended
<1> QED BY <1>2, Invariance, PTL DEF Spec, TermsFixed

\* Unless it is migrated, a vault pays and lends only what it takes off a
\* claimed account of its safe (redeem.rs, whitelist_withdraw.rs).
THEOREM VaultsGuarded == Spec => VaultFallsByClaims
<1> DEFINE Charged(s) ==
             \E v \in Initialized :
               /\ vestings[v].safe = s /\ vestings[v].claimed
               /\ vault[s] - vault'[s]
                    <= available_for_whitelist(vestings[v]) - available_for_whitelist(vestings'[v])
<1>1. ASSUME LInv, LInv', Next, NEW z \in Safes, vault'[z] < vault[z]
      PROVE  z \in migrated' \/ Charged(z)
  <2>0. /\ vestings \in [Vestings -> Vesting] /\ vestings' \in [Vestings -> Vesting]
        /\ vault \in [Safes -> Nat] /\ vault' \in [Safes -> Nat]
    BY <1>1 DEF LInv, TypeOK
  <2>1. ASSUME NEW v \in Vestings, NEW s \in Safes, NEW u \in Users, vesting(v, s, u),
               vestings[v].claimed,
               NEW a \in Nat, NEW taken \in Int, taken <= a, vault' = [vault EXCEPT ![s] = @ - taken],
               available_for_whitelist(vestings'[v]) = available_for_whitelist(vestings[v]) - a
        PROVE  Charged(z)
    <3>1. z = s /\ vault'[z] = vault[z] - taken
      BY <1>1, <2>0, <2>1
    <3>2. v \in Initialized /\ vestings[v].safe = z
      BY <2>1, <3>1 DEF vesting, Initialized
    <3>3. available_for_whitelist(vestings[v]) \in Int
      BY <2>0 DEF available_for_whitelist, Vesting
    <3>4. vault[z] - vault'[z]
            <= available_for_whitelist(vestings[v]) - available_for_whitelist(vestings'[v])
      BY <2>0, <2>1, <3>1, <3>3
    <3> QED BY <2>1, <3>2, <3>4
  <2>2. CASE Vests
    <3>1. PICK v \in Vestings, s \in Safes, u \in Users, w \in Users, m \in Mints :
            \/ \E d \in Durations, p \in Periods, a \in Deposits :
                 CreateVesting(v, s, u, w, m, slot + d, p, a)
            \/ Claim(v, s, u, m)
            \/ \E a \in Amounts : Redeem(v, s, u, w, m, a)
      BY <2>2 DEF Vests
    <3>2. CASE \E d \in Durations, p \in Periods, a \in Deposits :
                 CreateVesting(v, s, u, w, m, slot + d, p, a)
      <4>1. PICK a \in Deposits : vault' = [vault EXCEPT ![s] = @ + a]
        BY <3>2 DEF CreateVesting
      <4>2. a \in Nat
        BY LockupAssumption
      <4> QED BY <1>1, <2>0, <4>1, <4>2
    <3>3. CASE Claim(v, s, u, m)
      BY <1>1, <2>0, <3>3 DEF Claim
    <3>4. CASE \E a \in Amounts : Redeem(v, s, u, w, m, a)
      <4>1. PICK a \in Amounts : Redeem(v, s, u, w, m, a)
        BY <3>4
      <4>2. /\ vesting(v, s, u) /\ vestings[v].claimed
            /\ vault' = [vault EXCEPT ![s] = @ - a] /\ a \in Nat
            /\ vestings'[v].balance = vestings[v].balance - a
            /\ vestings'[v].whitelist_owned = vestings[v].whitelist_owned
        <5>1. vestings' = [vestings EXCEPT ![v].balance = @ - a]
          BY <4>1 DEF Redeem
        <5>2. /\ vestings'[v].balance = vestings[v].balance - a
              /\ vestings'[v].whitelist_owned = vestings[v].whitelist_owned
          BY <2>0, <5>1 DEF Vesting
        <5> QED BY <4>1, <5>2, LockupAssumption DEF Redeem, CanRedeem, Amounts
      <4>3. available_for_whitelist(vestings'[v]) = available_for_whitelist(vestings[v]) - a
        <5>1. vestings[v].balance \in Nat /\ vestings[v].whitelist_owned \in Nat
          BY <2>0 DEF Vesting
        <5> QED BY <4>2, <5>1 DEF available_for_whitelist
      <4>4. a \in Int /\ a <= a
        BY <4>2
      <4> HIDE DEF Charged
      <4> QED BY <2>1, <4>2, <4>3, <4>4
    <3> QED BY <3>1, <3>2, <3>3, <3>4
  <2>3. CASE Lends
    <3>1. PICK v \in Vestings, s \in Safes, u \in Users, e \in Entries, a \in Amounts :
            \/ \E taken \in (0 - lent[e]) .. a : WhitelistWithdraw(v, s, u, e, a, taken)
            \/ WhitelistDeposit(v, s, u, e, a)
      BY <2>3 DEF Lends
    <3>2. a \in Nat
      BY LockupAssumption DEF Amounts
    <3>3. CASE \E taken \in (0 - lent[e]) .. a : WhitelistWithdraw(v, s, u, e, a, taken)
      <4>1. PICK taken \in (0 - lent[e]) .. a : WhitelistWithdraw(v, s, u, e, a, taken)
        BY <3>3
      <4>2. /\ vesting(v, s, u) /\ vestings[v].claimed
            /\ vault' = [vault EXCEPT ![s] = @ - taken]
            /\ taken \in Int /\ taken <= a
        BY <3>2, <4>1 DEF WhitelistWithdraw, CanLend, stake
      <4>3. vestings' = [vestings EXCEPT ![v].whitelist_owned = @ + (a - 0)]
        BY <4>1 DEF WhitelistWithdraw, delegated_amount
      <4>4. /\ vestings'[v].balance = vestings[v].balance
            /\ vestings'[v].whitelist_owned = vestings[v].whitelist_owned + (a - 0)
            /\ vestings[v].balance \in Nat /\ vestings[v].whitelist_owned \in Nat
        BY <2>0, <4>3 DEF Vesting
      <4>5. available_for_whitelist(vestings'[v]) = available_for_whitelist(vestings[v]) - a
        BY <3>2, <4>4 DEF available_for_whitelist
      <4> QED BY <2>1, <3>2, <4>2, <4>5
    <3>4. CASE WhitelistDeposit(v, s, u, e, a)
      <4>1. vault' = [vault EXCEPT ![s] = @ + a]
        BY <3>4 DEF WhitelistDeposit, unstake
      <4> QED BY <1>1, <2>0, <3>2, <4>1
    <3> QED BY <3>1, <3>3, <3>4
  <2>4. CASE Governed
    <3>1. PICK s \in Safes, u \in Users, w \in Users, l \in Whitelists, e \in Entries :
            \/ Initialize(s, u, l) \/ SetAuthority(s, u, w)
            \/ WhitelistAdd(s, u, e) \/ WhitelistDelete(s, u, e) \/ Migrate(s, u, w)
      BY <2>4 DEF Governed
    <3>2. CASE Migrate(s, u, w)
      BY <1>1, <2>0, <3>2 DEF Migrate
    <3>3. CASE ~Migrate(s, u, w)
      <4>1. vault' = vault
        BY <3>1, <3>3 DEF Initialize, SetAuthority, WhitelistAdd, WhitelistDelete, tokens
      <4> QED BY <1>1, <2>0, <4>1
    <3> QED BY <3>2, <3>3
  <2>5. CASE Outside
    <3>1. vault' = vault \/ \E s \in Safes : vault' = [vault EXCEPT ![s] = @ + 1]
      BY <2>5 DEF Outside, Tick, Donate, GiveReceipt, BurnReceipt, tokens
    <3> QED BY <1>1, <2>0, <3>1
  <2> QED BY <1>1, <2>2, <2>3, <2>4, <2>5 DEF Next
<1> DEFINE Step == \A s \in Safes :
             vault'[s] < vault[s] =>
               \/ s \in migrated'
               \/ \E v \in Initialized :
                    /\ vestings[v].safe = s /\ vestings[v].claimed
                    /\ vault[s] - vault'[s]
                         <= available_for_whitelist(vestings[v])
                              - available_for_whitelist(vestings'[v])
<1>2. LInv /\ LInv' /\ [Next]_vars => [Step]_vars
  BY <1>1
<1> QED BY <1>2, Invariance, PTL DEF Spec, VaultFallsByClaims
=============================================================================
