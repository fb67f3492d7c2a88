------------------------------- MODULE Crank -------------------------------
(***************************************************************************)
(* The crank (crank/src/lib.rs): a process outside the program that reads  *)
(* the event queue of a market, works out which OpenOrders accounts its    *)
(* events belong to, and lets workers send ConsumeEvents transactions with *)
(* that list.  A transaction that was sent may land at any later time, in  *)
(* any order, or never; nobody waits for it.  The queue is the sequence    *)
(* that the segments of the account make up (module AccountQueue), and an  *)
(* event stands for its owner: the order of owners is that of their keys.  *)
(***************************************************************************)
EXTENDS Integers, FiniteSets, SequencesExt, Bags

CONSTANTS
  Owners,          \* keys of OpenOrders accounts
  EventCap,        \* room of the event queue
  NumWorkers,      \* num_workers of the command line
  EventsPerWorker, \* events_per_worker
  NumAccounts,     \* num_accounts
  OnceAccounts,    \* accounts of a single consume_events: 32
  MatchBatch,      \* most events of one MatchOrders
  MaxEvents,       \* bound of the model: events ever queued
  MaxInFlight      \* bound of the model: transactions in flight

\* The threadpool panics without workers, and the number of workers is
\* computed by a division; ConsumeEvents takes 16 bits.
ASSUME CrankAssumption ==
  /\ Owners \subseteq Nat /\ Owners # {}
  /\ NumWorkers \in Nat \ {0} /\ EventsPerWorker \in Nat
  /\ EventsPerWorker % 65536 # 0
  /\ EventCap \in Nat \ {0} /\ NumAccounts \in Nat /\ OnceAccounts \in Nat
  /\ MatchBatch \in Nat /\ MaxEvents \in Nat /\ MaxInFlight \in Nat

VARIABLES
  queue,       \* owners of the queued events, oldest first
  popped,      \* events consumed so far
  round,       \* what consume_events_loop works on: the list, what is left to
               \* send, and what it was made from
  in_flight,   \* transactions that were sent: each a list and a limit
  running      \* FALSE once consume_events_loop has returned an error

crank_vars == <<queue, popped, round, in_flight, running>>

NoRound == [accounts |-> <<>>, tasks |-> 0, front |-> 0, len |-> 0]

CrankInit ==
  /\ queue = <<>> /\ popped = 0
  /\ round = NoRound /\ in_flight = EmptyBag /\ running = TRUE

-----------------------------------------------------------------------------
(* The program                                                             *)

\* The matching crank has the transaction simulated before it is sent, and
\* MatchOrders fails as a whole when the queue has no room.
MatchOrders(events) ==
  /\ Len(queue) + Len(events) <= EventCap
  /\ popped + Len(queue) + Len(events) <= MaxEvents
  /\ queue' = queue \o events
  /\ UNCHANGED <<popped, round, in_flight, running>>

\* The half in which the owner may be, of a slice of several accounts: of
\* where it starts and how long it is.
Half(accounts, owner, slice) ==
  LET mid == slice[1] + slice[2] \div 2
  IN  <<IF accounts[mid] > owner THEN slice[1] ELSE mid,
        slice[2] - slice[2] \div 2>>

\* binary_search of the slice of accounts finds this owner.
binary_search(accounts, owner) ==
  LET base[slice \in Nat \X Nat] ==
        IF slice[2] = 1 THEN slice[1] ELSE base[Half(accounts, owner, slice)]
  IN  accounts # <<>> /\ accounts[base[<<1, Len(accounts)>>]] = owner

\* How many events ConsumeEvents takes: it stops at the limit, at the end of
\* the queue, and at an event whose owner is not found.
Consumable(tx) ==
  Max({n \in 0 .. Len(queue) :
         n <= tx.limit /\ \A i \in 1 .. n : binary_search(tx.accounts, queue[i])})

ConsumeEvents(tx) ==
  /\ queue' = SubSeq(queue, Consumable(tx) + 1, Len(queue))
  /\ popped' = popped + Consumable(tx)

-----------------------------------------------------------------------------
(* consume_events_loop and its workers                                     *)

\* The owners of the first n events.
FirstOwners(n) == {queue[i] : i \in 1 .. n}

\* Mutant: all owners are collected, and the first in order of keys are used.
used_accounts_Lowest ==
  {o \in FirstOwners(Len(queue)) :
     Cardinality({p \in FirstOwners(Len(queue)) : p < o}) < NumAccounts}

\* The set that is filled from the front of the queue until it is large enough.
used_accounts ==
  FirstOwners(Min({n \in 1 .. Len(queue) :
    n = Len(queue) \/ Cardinality(FirstOwners(n)) >= NumAccounts}))

\* The order in which a BTreeSet yields its members, and sort leaves them.
Sorted(owners) ==
  CHOOSE accounts \in [1 .. Cardinality(owners) -> owners] :
    \A i, j \in DOMAIN accounts : i < j => accounts[i] < accounts[j]

\* Mutant: the accounts are listed in the order in which they are met.
orders_accounts_AsMet ==
  SetToSortSeq(used_accounts,
    LAMBDA o, p : SelectInSeq(queue, LAMBDA q : q = o)
                    < SelectInSeq(queue, LAMBDA q : q = p))

orders_accounts == Sorted(used_accounts)

\* How many workers get the list.
Workers(len) ==
  LET wanted == (2 * len) \div EventsPerWorker + 1
  IN  IF wanted < NumWorkers THEN wanted ELSE NumWorkers

\* The pool has joined: nothing of the last round is left to send.  An empty
\* queue is read again after a pause.
ReadQueue ==
  /\ running /\ round.tasks = 0 /\ queue # <<>>
  /\ round' = [accounts |-> orders_accounts, tasks |-> Workers(Len(queue)),
               front |-> popped, len |-> Len(queue)]
  /\ UNCHANGED <<queue, popped, in_flight, running>>

\* An error of the request ends the loop, and so does a panic when a queue is
\* taken apart (module AccountQueue).
ReadFails ==
  /\ running /\ round.tasks = 0
  /\ running' = FALSE
  /\ UNCHANGED <<queue, popped, round, in_flight>>

\* With as many in flight as the model keeps, another one has expired.
Sent(tx) ==
  IF BagCardinality(in_flight) < MaxInFlight
  THEN in_flight' = in_flight (+) SetToBag({tx})
  ELSE \E old \in BagToSet(in_flight) :
         in_flight' = (in_flight (-) SetToBag({old})) (+) SetToBag({tx})

\* The limit is cut to the 16 bits of the instruction.
to_consume == EventsPerWorker % 65536

\* A worker sends its transaction without preflight and without waiting for it.
consume_events_once ==
  /\ round.tasks > 0
  /\ Sent([accounts |-> round.accounts, limit |-> to_consume])
  /\ round' = [round EXCEPT !.tasks = @ - 1]
  /\ UNCHANGED <<queue, popped, running>>

\* An error of a worker is only logged.
SendFails ==
  /\ round.tasks > 0
  /\ round' = [round EXCEPT !.tasks = @ - 1]
  /\ UNCHANGED <<queue, popped, in_flight, running>>

\* The command that consumes events once, after a look at the whole queue: it
\* uses the first accounts in order of keys, and takes the number of accounts
\* of the instruction, market, queue and two wallets included, for the limit.
consume_events ==
  LET all    == Sorted(FirstOwners(Len(queue)))
      lowest == SubSeq(all, 1, Min({OnceAccounts, Len(all)}))
  IN  /\ queue # <<>>
      /\ Sent([accounts |-> lowest, limit |-> Len(lowest) + 4])
      /\ UNCHANGED <<queue, popped, round, running>>

-----------------------------------------------------------------------------
(* The cluster                                                             *)

Land(tx) ==
  /\ BagIn(tx, in_flight)
  /\ ConsumeEvents(tx)
  /\ in_flight' = in_flight (-) SetToBag({tx})
  /\ UNCHANGED <<round, running>>

\* The blockhash of a transaction expires before it lands.
Expire(tx) ==
  /\ BagIn(tx, in_flight)
  /\ in_flight' = in_flight (-) SetToBag({tx})
  /\ UNCHANGED <<queue, popped, round, running>>

-----------------------------------------------------------------------------

CrankNext ==
  \/ \E events \in BoundedSeq(Owners, MatchBatch) : MatchOrders(events)
  \/ ReadQueue \/ ReadFails
  \/ consume_events_once \/ SendFails
  \/ consume_events
  \/ \E tx \in BagToSet(in_flight) : Land(tx) \/ Expire(tx)

\* A transaction that names this account lands.
LandFor(owner) ==
  \E tx \in BagToSet(in_flight) :
    owner \in ToSet(tx.accounts) /\ Land(tx)

\* The loop and its workers keep going; sending does not fail for ever, and of
\* the transactions that are sent again and again for an account some land.
Fairness ==
  /\ WF_crank_vars(ReadQueue)
  /\ WF_crank_vars(consume_events_once \/ SendFails)
  /\ SF_crank_vars(consume_events_once)
  /\ \A owner \in Owners : SF_crank_vars(LandFor(owner))

CrankSpec == CrankInit /\ [][CrankNext]_crank_vars /\ Fairness

-----------------------------------------------------------------------------
(* Properties                                                              *)

\* As long as nobody has consumed since the queue was read, the list of a round
\* finds every event up to the one that needs an account too many, and the
\* workers of the round are enough for all events, unless all of them are busy
\* (used_accounts, and the number of workers, in consume_events_loop).
FreshRoundServes ==
  round.len > 0 /\ round.front = popped =>
    /\ \A i \in 1 .. round.len :
         Cardinality(FirstOwners(i)) <= NumAccounts
           => binary_search(round.accounts, queue[i])
    /\ \/ Workers(round.len) = NumWorkers
       \/ Workers(round.len) * to_consume >= round.len

\* The crank never starves the event at the head, whichever of its stale,
\* lost, late or useless transactions land: while the loop runs it is consumed
\* in the end, and with it MatchOrders finds room again (consume_events_loop).
QueueDrains ==
  \A n \in 0 .. MaxEvents - 1 :
    (popped = n /\ queue # <<>>) ~> (popped > n \/ ~running)
=============================================================================
