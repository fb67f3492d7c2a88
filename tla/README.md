# A TLA+ model of the serum-dex programs

This directory holds a model of the on-chain exchange of this repository
(`dex/`), of its crank (`crank/`) and of the lockup program (`lockup/`), checked
with TLC and proved with TLAPS. It is written from the source;
`PROJECT.json` maps every definition to the lines it stands for.

## The system

Clients, cranks and programs talk only through *accounts* of the Solana ledger.
An instruction is a transaction: it runs alone on the accounts it names, and an
error reverts everything it wrote. All the concurrency of the system is the
order in which instructions of different parties reach the ledger, so an action
of the model is one whole successful instruction, and an instruction that would
fail is a disabled action.

| Component | State it keeps | Operations | What makes it correct | Modelled |
|---|---|---|---|---|
| Market (`dex/src/state.rs`, `matching.rs`) | `MarketState` totals, `OpenOrders` accounts, request queue, event queue, bids, asks, two vaults | NewOrder, CancelOrder, CancelOrderByClientId, MatchOrders, ConsumeEvents, SettleFunds, SweepFees, DisableMarket, InitializeMarket | vaults hold what the books say; locked funds are exactly those of live orders; an order is in one place; every event can be consumed; price-time priority, limits and order types are respected; progress under the cranks | `Matching`, `Market`, `MarketProperties` |
| Fee schedule (`dex/src/fees.rs`) | none | fee, maker rebate, referrer rebate, fee set aside, tier of a balance | rounding never makes a fee smaller than what is paid out of it, nor a bid unable to pay | `Fees`, `FeeSchedule` |
| Order book tree (`dex/src/critbit.rs`) | slab of nodes with a free list | insert_leaf, remove_by_key, find_min, find_max | an ordered map; no node lost, none in two places | `CritBit` refines `OrderedMap` |
| Account queues (`state.rs`, `Queue`) | ring buffer with head and count | push_back, peek_front, pop_front, revert_pushes | a bounded sequence | `AccountQueue` refines `BoundedQueue` |
| Accounts of instructions (`state.rs`, account parsing) | the headers of all accounts | MarketState::load, InitializeMarket, the load of each other account | an account keeps its role and its market; whatever a queue names can be loaded; vaults pay | `Accounts` |
| Packing of requests, events, instructions (`state.rs`, `instruction.rs`) | none | new, as_view, pack, unpack | every field arrives unchanged | `Encoding` |
| Crank (`crank/src/lib.rs`) | snapshots of the queues, transactions in flight | consume_events_loop, consume_events, match_orders | never gets stuck behind the head of the queue | `Crank` |
| Lockup (`lockup/`) | safes, vesting accounts, vaults, receipts, whitelists | Initialize, SetAuthority, CreateVesting, Claim, Redeem, WhitelistAdd, WhitelistDelete, WhitelistWithdraw, WhitelistDeposit, Migrate | vaults back what may be redeemed; nobody is paid early, twice or for another; loans are charged | `VestingSchedule`, `Whitelist`, `Lockup` |
| Registry (`registry/`) | registrar, capabilities, entities, stake accounts | Initialize, RegisterCapability, CreateEntity, UpdateEntity, JoinEntity | authority of every change | no, see below |
| `common/src/pack.rs` | none | unpack_mut and friends | a failed handler leaves the account as it was | as the atomicity of `Lockup`'s actions |
| Node, RPC, CLIs, generated clients | none of the protocol | | | no: input, output and code generation |

How they interact: a trader's NewOrder locks funds in its `OpenOrders` account
and queues a *request*. Anyone's MatchOrders takes requests from the front of
the request queue, matches them against the book, moves the totals of the market
and queues *events*. Anyone's ConsumeEvents applies events, in order, to the
`OpenOrders` accounts passed to it, and stops at the first one whose account is
missing. SettleFunds pays what is free, SweepFees what the market earned. Between
these steps every amount is in one of several places: requested, on the book, in
an event, free, owed.

The crank is the party that in practice sends MatchOrders and ConsumeEvents. It
reads the event queue, lists the accounts at its front, and lets workers send
transactions with that list, which land late, out of order or never.

In the lockup program a depositor creates a vesting account; the beneficiary
claims receipts for it, burns them to redeem what has vested, and may lend what
has not to programs on the whitelist of the safe. Three books have to agree: the
vault (with the token program), the vesting account, and the receipts; and a
whitelisted program moves tokens of the vault in a call in the middle of an
instruction.

What is hard about it: requests and events are acted on long after they were
made; the same trade is booked in three accounts in three transactions; amounts
are rounded up for the taker and down for the maker; the arithmetic of matching
is unchecked u64 arithmetic; a check that fails in ConsumeEvents fails for ever;
batches of any size by anyone; queues and books that are full; addresses chosen
by whoever sends the transaction; cranks that act on a queue that has moved on;
schedules that do not divide into periods. The list, with lines and the
properties that cover them, is `hazards` in `PROJECT.json`.

## Modules

```
Fees                                        fee formulas
  ├── Matching ── Market ─┬─ MarketProperties ─┬─ MCMarket
  │                       └─ FeeSchedule ──────┘  the laws of the fee formulas
  └── Encoding
BoundedQueue ══ AccountQueue                ══ : is refined by
OrderedMap ══ CritBit
Accounts ── MCAccounts
Crank
VestingSchedule, Whitelist ── Lockup ── MCLockup
Sums                                        used by MarketProperties, Lockup, Accounts

                     the proofs
Lemmas (Fees, Sums)                         used by all below
FeeSchedule ── FeeProofs
MarketProperties ── MarketProofs ── MarketAccountsProofs
CritBit ── CritBitProofs
Encoding, AccountQueue, Crank ── StateProofs
Accounts ── AccountsProofs
Lockup ── LockupProofs
```

* **`Fees`** — `fees.rs`. `ONE` stands for the 2^64 of the fixed-point rates; the
  formulas are the same for any `ONE >= 10000`, which is what the proofs assume.
  `from_srm_and_msrm_balances` is the tier a balance earns.
* **`Matching`** — `matching.rs` as operators on a record of the accounts that
  MatchOrders writes (`bids`, `asks`, `market`, `req_q`, `event_q`, and `ok`,
  FALSE once the event queue overflowed). `new_ask` and `new_bid` are one pass
  of the functions of that name: each trades with at most one resting order.
  `process_requests` is the loop over passes. An order whose limit runs out
  keeps its place at the front of the queue with what is left (`Remaining`).
* **`Market`** — `state.rs`. Variables and code:

  | Variable | Code |
  |---|---|
  | `market` | `MarketState`: deposits, accrued fees and referrer rebates, the Disabled flag |
  | `open_orders[t]` | the `OpenOrders` account of `t`: free and total amounts, referrer rebates, slots (id, side bit, client id) |
  | `req_q`, `next_seq_num` | the request queue and the counter of its header |
  | `event_q` | the event queue |
  | `bids`, `asks` | the leaves of the two slabs |
  | `coin_vault`, `pc_vault` | balances of the token accounts (external program) |

  Actions have the names of the instructions. NewOrder V1 is V2 with
  DecrementTake. The inputs are sets of constants: `Instructions`, `FeeTiers`,
  `MatchLimits`, `ConsumeLimits`, any subset of accounts for ConsumeEvents, any
  id, side and slot of a known order for CancelOrder.
* **`MarketProperties`** — the properties, and the fairness of the cranks.
* **`FeeSchedule`** — the laws that the proptests of `fees.rs` sample, over all pairs of
  tiers and quantities. A law is the same in every state: as properties they are stated
  of the initial state (`Init => ...`), where TLC evaluates them once, beside the run of
  the market that relies on them.
* **`MCMarket`** — the small instances.
* **`AccountQueue`** — the `Queue` of `state.rs`: an array of `BufWords \div ItemWords` items, `head`, `count` and the `seq_num` of an
  event queue (in a request queue `seq_num` only counts). `Contents` is what `iter`
  yields; with it as `queue` the module implements **`BoundedQueue`**, the sequence
  that `Matching` and `Market` use. `Segments` is the queue as the crank reads it
  from the account (`parse_event_queue`).
* **`CritBit`** — the slab of `critbit.rs`: `slab` is the header and the array of nodes
  of one account; `insert` and `remove` hand nodes out and take them back, the tree
  is rewritten in place. Each call is an action, and `last` records it with its
  argument and its answer, so that the refinement of **`OrderedMap`** compares
  answers as well as contents. Order ids are numbers of `KeyBits` bits. The loops
  that walk down the tree are recursive functions on handles.
* **`Encoding`** — how a request, an event and an instruction is written into words
  and read back. Fields serve for several kinds of item (the owner's slot, the
  client id, the maker's order id), and a zero stands for "none". `StateProofs`
  shows that nothing is confused, which is why the queues of `Matching` may hold
  requests and events as records.
* **`Accounts`** — several markets and all the accounts of the program. An account is
  known by its flags, its market and its owner; an action takes any addresses and
  its guard is what `MarketState::load`, `load_orders_mut`, the loads of queues and
  books, and `process_initialize_market` check of them. It complements `Market`,
  where the accounts are the right ones.

  | Variable | Code |
  |---|---|
  | `account[a]` | the flags, market and owner in the header of `a`; of a queue or a book, the `OpenOrders` accounts it names |
  | `market[a]` | the `MarketState` in `a`: the accounts it was listed with, and what it owes |
  | `balance[t]` | the token accounts |
* **`Crank`** — `consume_events_loop` with its workers, the command `consume_events`,
  and the cluster between them and the program.

  | Variable | Code |
  |---|---|
  | `queue`, `popped` | the owners in the event queue; how many events were consumed |
  | `round` | one turn of the loop: the sorted account list, the workers that have not sent yet, and what was read |
  | `in_flight` | transactions sent and not yet landed or expired |
  | `running` | FALSE once the loop has returned an error |

  `binary_search` is the search of the standard library over the list as it was
  passed, so that a list that is not sorted misses accounts as it would there.
* **`VestingSchedule`** — `impl Vesting`: what has vested, what may be redeemed or lent.
* **`Whitelist`** — the fifty items at byte offsets, with `index_of` as it is: it
  returns an offset that its callers use as an index.
* **`Lockup`** — the program. One action per instruction; `stake` and `unstake` are the
  calls of the whitelisted program of the repository's tests, which takes any part of
  what it was approved and returns any part of what it holds. Either is relayed with
  data that the program of the safe does not look at, so a program may also send tokens
  back when it is offered some, and an amount may be zero. The clock, donations to
  vaults, and receipts given away or burned by their holders are the environment.
  `Initialize` takes any whitelist account, as `initialize.rs` does: nothing asks whether
  another safe has it already, and then the authority of either safe writes it, past the
  `governance` check of the other. No property says who may list a program.

  | Variable | Code |
  |---|---|
  | `safes`, `whitelist`, `vestings` | the accounts of those types |
  | `vault`, `wallet`, `receipts` | token accounts and their mints (external program) |
  | `lent` | what each whitelisted program has of the vaults (external program) |
  | `migrated` | history: the safes whose vault was taken by their authority |
* **`MCLockup`, `MCAccounts`** — the small instances.
* **`Sums`** — `Total(S, f)`, the sum of a function over a finite set.
* **`Lemmas`** — what the proofs share: division, powers of two, induction over sets of
  numbers, iteration, extremal elements of finite sets, recursive functions, sums, and the
  bounds of fees.
* **`FeeProofs`, `MarketProofs`, `MarketAccountsProofs`, `CritBitProofs`, `StateProofs`,
  `AccountsProofs`, `LockupProofs`** — proofs, see below.

Definitions whose name has the form `f_Something` next to `f` are mutants: `f`
with a plausible mistake, used to see that a property would notice it.

### What is abstracted

* For the matching, the slab is the set of its leaves, with room for `BookCap`, and a
  queue a sequence of at most `ReqCap` or `EventCap`: what `CritBit` and
  `AccountQueue` are shown to implement.
* An order id is a record of a price and the low word, compared like the u128.
  `SEQ_MASK` is 2^64 - 1.
* Prices are never zero (`NonZeroU64` in the instruction), so the branch of
  `new_bid` for an order without a limit price is unreachable and left out.
* Native amounts are integers: an u64 subtraction that would wrap makes the value
  negative and violates `NoUnderflow`. Additions are far from 2^64 in the model;
  NewOrder's checked multiplications that would fail are instructions that do
  nothing.
* Wallets of the traders are not tracked: a deposit succeeds or the whole
  instruction fails. The fee tier of an order is any of `FeeTiers`, whatever the
  balances of the trader; so a tier may change between two orders.
* `MarketState::load` accepts only the flags Initialized and Market, so a
  disabled market fails *every* instruction (`Loads`), cancels, consuming and
  settling included, and `check_enabled` in NewOrder never fails by itself. That
  is why deadlock is not checked: a disabled market has stopped.
* Debug assertions are properties (`OrderInOnePlace`), not guards.
* Vaults in `Market` receive and pay through the program only. Anybody may donate to
  a vault; then `VaultsMatchBooks` is a lower bound, as `VaultsPay` states it in
  `Accounts`.
* `Accounts` keeps which `OpenOrders` accounts a queue or book names and the total a
  market owes. Its MatchOrders moves the orders of one account at a time, its amounts
  are single tokens. The number and order of the accounts of an instruction, and the
  lengths of token accounts, are left out.
* `Crank` keeps the owner of each event. At most `MaxInFlight` transactions are
  remembered: sending one more drops one, which is an expiry.
* In `Lockup` an address passed to an instruction is of the right program, size and
  rent, and a whitelist entry stands for its program, instance and nonce. Quantities
  are integers and `NoUnderflow` says that the u64 subtractions do not wrap.

## Runs

| Run | Checks | Instance |
|---|---|---|
| `limit` | types, custody, accounting, slots, priority, prices; the three laws of fees.rs | 2 traders x 2 slots, bids and asks of 1 or 2 lots at 2 prices, two fee tiers, books of 2, request queue 2, event queue 6, batches of 1 and 2, 3 requests; all 49 pairs of tiers, quantities to 3000 |
| `mixed` | accounting and slots through self-trades, post-only and IOC; what each order type may do; progress | 2 traders x 2 slots, seven orders of every type and behaviour, books of 1, batches of 2 and an event queue of 8, fairness of the cranks, 3 requests |
| `queue` | the ring buffer is a bounded sequence; the crank reads it | three places and two words of slop, three items, seven pushes: two turns around |
| `slab` | the slab is an ordered map, loses no node, has room after booting | eight nodes (four orders), five ids of three bits |
| `crank` | the head of the event queue is always consumed | three owners, lists of two, two workers, two transactions in flight, four events; a second crank that lists one account |
| `accounts` | roles of accounts, vaults | ten accounts of four sizes, six listings, five token accounts, two users |
| `lockup_accounts` | vaults, receipts and loans agree, terms stay | one safe, two vesting accounts that may share a mint, two users, one program |
| `lockup_schedule` | schedules, no payment early or for another | every schedule of up to five slots and four periods, any portions, two safes |
| `queue_requests` | a finding, see below | the request queue of a market listed by the crank: 76 words, requests of 10, events of 11 |
| `lockup_lending` | a finding, see below | one account, one program |
| `lockup_supply` | a finding, see below | two accounts with one mint, receipts burned by Redeem only |
| `lockup_window` | a finding, see below | one account, five slots, three periods |

**Bounds and why they are enough.** `MaxSeq` bounds the requests ever made. Three
requests are a maker, a taker and a third order or a cancel that meets what is
left of them; with a book of one order in `mixed` the second order of a side boots the
first, and a slot that was freed is taken again by the third. Quantities of one and two
lots give exact, partial and over-fills in both directions. `PcLot = 3700` makes
the fees and rebates of a lot nonzero and inexact, and the referrer's share of
them too. Books of one and two orders and an event queue of six are full in many
states, so that booting and a reverted MatchOrders happen. Traders are symmetric
(`SYMMETRY`) in `limit`, not in `mixed`: symmetry is not sound for progress.

A slab of an even number of nodes has one node left when it is full, so an
insertion takes it for the leaf, finds none for the parent and gives it back; with
eight nodes that happens among four orders, whose trees take every shape. All orders
of the run have one quantity, so that one whose id is inserted again looks as before;
that it is replaced, contents included, is shown by the theorem `SlabIsOrderedMap` only. An event
queue of three places wraps twice in seven pushes. The program asks for 201 nodes
and 128 events or more; nothing in the code depends on these numbers.

The crank needs more owners than it lists, so that a stale list can miss the head,
and two transactions in flight, so that they overtake each other. The listings of
`accounts` are two that go together, one with bids and asks in one account, and ones
that want a market as request queue, an account of another market, the same account
twice, a vault of somebody else. The two safes of
`lockup_schedule` have one whitelist account, which `initialize.rs` allows. In `lockup_schedule` three and four periods do not
divide windows of one, three and five slots, nor does a deposit of four divide by
three; a period of no slots is among them.

**Fairness.** `FairSpec` assumes that MatchOrders with the limit of the crank
(`match_orders` sends 2) and ConsumeEvents for the owner of the event at the head
happen again and again while they can. That is `consume_events_loop` of the
crank, an endless loop whose account list starts with the owner of the head, and
`match_orders`, a command that the operator of a market repeats. When they can is
spelled out in the formulas (`FairSpec`), so that nothing depends on how ENABLED is
evaluated. Nothing is assumed of traders. The progress properties allow for `disabled`: see above.
With an event queue smaller than eight the crank's batch of two can be refused
for ever; `OnePassFits` is the general fact, four free places for each pass.

`Crank` justifies the second half of this assumption: its `Fairness` is that of the
loop and its workers (a thread pool: WF), that sending does not fail for ever, and
that of the transactions sent again and again for one account some land (SF, since
each single one may expire). An error of the RPC request ends the loop, so
`QueueDrains` holds `\/ ~running`. Nothing is assumed of MatchOrders or of the other
crank.

### What the properties say

* `VaultsMatchBooks`, `DepositsMatchAccounts`, `LockedMatchesOrders` — the chain from
  the tokens to the orders: vault = deposits + fees + referrer rebates; deposits
  = what the accounts own once queued events are applied; locked = what requests,
  leaves and queued events hold, to the unit.
* `NoUnderflow` — none of the unchecked subtractions wraps.
* `OrderInOnePlace`, `EventsConsumable` — the life of an order through three queues
  and a reusable slot (the slot names the order wherever it is); the event queue can
  always be drained.
* `BookInOrder`, `PriceTimePriority`, `FillsWithinLimit`, `OrdersRespected` — what a
  trader is promised by the matching: books that are not crossed and in the order of
  age within a price, the best price and oldest order first, limits, order types and
  self-trade behaviour.
* `OnePassFits`, `RequestsServed`, `LeavingOrdersLeave` — capacity and progress.
* `PositiveNetFees`, `MarketOrderCannotCheat`, `AddRemoveFees` — rounding.

* `IsBoundedQueue`, `CrankReadsQueue` — the ring buffer loses, repeats and reorders
  nothing, seen from the program and from the crank.

* `check_invariants` — what the test of that name in `critbit.rs` samples, that every
  node has one parent or is free, and that the counts of the header are right.
  `BootMakesRoom` — the second `insert_leaf(..).unwrap()` of the matching cannot
  panic. `IsOrderedMap` — the test's comparison with a BTreeMap, for full slabs too.

* `OneRoleEach`, `AccountsKept` — no account serves two markets or two purposes, and
  none is initialized again or handed to another owner. `NamedOwnersLoad` — an
  `OpenOrders` account that a request, event or order names can be loaded by the
  instruction that will need it. `VaultsPay` — the vaults of all markets together hold
  what is owed from them, the market that keeps coin and pc in one vault included.

* `FreshRoundServes` — what the loop lists is found by the program as long as nobody was
  faster. `QueueDrains` — in spite of stale lists, the head is consumed.

* `VaultBacksVestings`, `ReceiptsBacked`, `LoansAccounted` — vault, receipts and loans
  against the sum of the vesting accounts, shared mints included: these are bounds,
  since receipts may be burned and vaults donated to. `LoansAccounted` is one sum over
  all safes: a program that two safes list may return to one what it took from the
  other. `VaultFallsByClaims` — what leaves a vault is charged to an account of that safe.
* `TermsFixed`, `VestsOnSchedule`, `NoUnderflow` — terms are those of the deposit; a
  schedule has paid the whole deposit at its end, takes nothing back before, and pays
  each part when an even division of its window would be due it, or earlier by less than
  `period_count` slots; and what was withdrawn had vested.

### Findings

`consume_events_loop` reads the *request* queue with `parse_event_queue`
(`crank/src/lib.rs:516`), as items of 88 bytes where there are requests of 80, only
to log "Size of request queue is". `parse_req_queue` (line 454) exists and is not
used there. In the account of 640 bytes that the crank itself creates (line 1071)
there is room for seven requests but six events: when seven are queued, the slice
of line 451 is out of range and the consume loop panics (run `queue_requests`,
seven pushes). The sizes take a u128 to be aligned to 8 bytes, as it is on the
chain and in the compilers of that time.

`whitelist_withdraw` revokes the approval it gave to the program before it reads what
is left of it (`lockup/program/src/whitelist_withdraw.rs:207`). What is left of a
revoked approval is nothing, so `whitelist_owned`, "The amount of tokens in custody of
whitelisted programs" (`lockup/src/accounts/vesting.rs:43`), grows by the whole amount
even if the program took less, and nothing gives the difference back (run
`lockup_lending`). `LoansAccounted` is the half that does hold.

The receipts' mint of a vesting account: "The supply should always equal the `balance`
field." (`lockup/src/accounts/vesting.rs:38-39`). CreateVesting asks only that the mint
has no supply (`create_vesting.rs:149`), which is true of the mint of another account
that is not claimed yet. Two accounts then share the mint, and when both are claimed the
supply is the sum of their balances: that of neither (run `lockup_supply`, in which
nobody burns receipts outside Redeem). The supply is also zero until the account is
claimed, and less than the balance after a holder burned receipts. `ReceiptsBacked` is
what does hold.

`linear_unlock`: "If we can't perfectly partition the vesting window, push the start
window back so that we can." (`lockup/src/accounts/vesting.rs:95-96`). The start is
pushed back by the remainder of the window, where it would take what the remainder lacks
of a period. Five slots for three periods become seven, with periods of two slots: the
first part is paid at once, the last a slot before the end (run `lockup_window`).
Three slots for four periods become six, with periods of one slot; one slot for four
becomes two, with periods of none, and redeeming fails with a division by zero until the
end slot (`Computable`). `VestsOnSchedule` is what does hold.

Of the whitelist: "Inserts the given WhitelistEntry at the first available index. [...] If
the Whitelist is full, returns None." (`lockup/src/accounts/whitelist.rs:62-64`). `index_of`
returns a byte offset, which its callers multiply by the size of an item again, so that
only the first of the fifty items can ever be written; a second entry makes the push
panic. `Whitelist` models that (`CanPush`, `push`): the second WhitelistAdd is not
enabled. A failed instruction changes nothing, so no state shows it and no run is about it.

Also met, where no document says otherwise:

* `InitializeMarket` does not ask whether lots have a size
  (`dex/src/state.rs:1360-1415`, `:2344-2444`). With `pc_lot_size = 0` every bid panics
  (`:2219`). With `coin_lot_size = 0` an ask that has a part of itself cancelled by a
  self-trade leaves with an Out that locks nothing more; its slot is freed (`:2146`,
  `:2168`) while what is left of it stays on the book, and the next event of that order
  fails the check at `:2091` for ever. The runs have lots of a size; the theorems name
  the hypothesis (`LotsHaveSize`).
* `Initialize` of the lockup accepts the whitelist of another safe, see `Lockup` above.
* The single `consume_events` of the crank sorts the accounts before it cuts the list
  to 32, and may leave out the owner of the head: it then consumes nothing.
* `InitializeMarket` accepts one account for bids and asks; such a market never matches,
  since MatchOrders borrows both. A disabled market refuses every instruction, and
  what its accounts hold stays there.
* `as_view` reads an event without flags as an Out.

## Proofs

TLAPS proves the following for every value of the constants that satisfies the named
assumptions next to their declarations (`OneAssumption`, `MatchingAssumption`,
`MarketAssumption`, `SlabAssumption`, `AnswersAssumption`, `FreeAssumption`,
`MaxQtyAssumption`, `QueueAssumption`, `CrankAssumption`, `AccountsAssumption`,
`WhitelistAssumption`, `LockupAssumption`). Because the lemmas are in one module, `ONE` and
its assumption are in scope of every proof that uses it; those of the lockup, the accounts,
the slab, the queues and the crank do not depend on it. Most say that a constant
is a number or that a set is finite. Those that say more: rates have a precision of at
least 1/10000, the sequence numbers of a market do not run out, a vault signer is off the
curve, so that no user has its address; and the events per worker are no multiple of 2^16,
which would leave the workers a limit of 0. Coin and pc lots are any numbers, zero
included.

### Hypotheses

Ten theorems are about the values of the constants that also satisfy a formula they name:

| Hypothesis | Says | Theorems |
|---|---|---|
| `LotsHaveSize` | `coin_lot_size` and `pc_lot_size` are not zero. InitializeMarket does not check it; see the findings for what happens otherwise | `LimitsHold`, `LocksMatch`, `DepositsMatch`, `OrdersInOnePlace`, `QueueNeverJams`, `NothingUnderflows` |
| `IdsApart` | fewer than 2^63 requests to a market | `TypesAreRespected`, `PriorityHolds` |
| `EventsPerWorker < 65536` | the 16 bits in which the crank sends this number hold it | `FreshRoundsServe` |
| `ItemWords = EventWords` | the crank reads an event queue, not a request queue | `CrankAgrees` |

### Fees and encodings

* `FeesPositive`, `FeesCoverTrades`, `FeesInvertible` (`FeeProofs`) — the three fee
  laws, of every positive quantity and every tier, which the properties of the run ask
  of the quantities up to `MaxQty`. They rest on `Lemmas`: division by `ONE`
  with its remainder, monotonicity of products, and for each tier the bounds of
  its rate. The proof that net fees are positive is where the numbers matter: the
  lowest taker rate (10 bps) covers the highest maker rebate (5 bps and a unit)
  and a fifth of itself.
* `HoldingMoreNeverCosts` (`FeeProofs`) — more SRM or MSRM never raises the fee of a
  trade: the tiers are in the order of balances (`TiersInOrder`) and the rates in the
  order of tiers (`RateMonotone`).
* `RequestSurvives`, `EventSurvives`, `InstructionSurvives`, `OnlyPacked`
  (`StateProofs`) — what is read is what was written, by cases on the kind of item;
  and an instruction's bytes are the only ones that unpack to it. `Encoding` has no
  behaviour and no run: these are statements about its operators.
* `QueueTypeCorrect`, `QueueRefines`, `CrankAgrees` (`StateProofs`) — from
  `QueueAssumption`: the header stays within the account, the ring buffer implements
  `BoundedQueue` (one lemma per operation, each comparing `Contents` before and
  after; `PositionWraps` and `PositionsDiffer` are the arithmetic of the indices), and
  if items are events the crank's segments are the queue.

### The crank

`FreshRoundsServe` (`StateProofs`) is `FreshRoundServes` for any number of owners, workers,
events and listed accounts; the run has three owners, two workers and a list of two. Its
hypothesis is `EventsPerWorker < 65536`: the crank plans with `events_per_worker` but sends
it as 16 bits (`crank/src/lib.rs:578` and `:644`), and with more the workers of a round
would take fewer events than it counts on.

* **Sorting.** `Sorted` chooses a list in ascending order. That there is one, for any finite
  set of keys, goes by its size, the largest key last (`SortExists`); that every key is in it
  follows from counting (`SortedLists`).
* **Searching.** The binary search is a recursive function on slices, which exists by
  `Descent`, the lemma that the walks of the slab rest on. In an ascending list it ends
  at any account that is in it (`SearchEnds`), by the length of the slice.
* **The list.** `Serves`: an event with no more than `NumAccounts` owners up to it is among
  the first events whose owners were collected, or adds no owner to them.
* **The round.** The invariant `RoundInv` adds to the property that, until somebody consumes,
  the events the round was made from are still the first of the queue: what MatchOrders
  appends changes none of them, and a transaction that consumes an event moves `popped` past
  the `front` of the round for good.

### The market

The eleven properties of run `limit` that are about the market, and `OrdersRespected` of
`mixed`, hold for any number of traders and slots, any instructions, prices, fee tiers,
capacities and batches. `TypeCorrect`, `CustodyOfVaults`, `PassesFit`,
`BookStaysInOrder`, `TypesAreRespected` and `PriorityHolds` hold for any lot sizes, zero
included; the other six for lots that have a size. The invariants come in layers, each inductive together with those below it:

| Layer | Says | Theorems |
|---|---|---|
| `IInv` | `TypeOK` and `VaultsMatchBooks` | `TypeCorrect`, `CustodyOfVaults` |
| `QInv` | a bid that waits has funds left to pay with; queued fills are within their limits | `LimitsHold`, `PassesFit` |
| `BInv` | bids do not meet asks; ages (the sequence numbers in ids) rise from the book to the end of the request queue, and ids differ | `BookStaysInOrder`, `TypesAreRespected`, `PriorityHolds` |
| `Tally` | what would be queued if all orders were cancelled now agrees with the accounts | `LocksMatch`, `DepositsMatch` |
| `SlotInv` | what carries an order's id agrees with its slot, and nothing of an order is queued behind its final Out | `OrdersInOnePlace`, `QueueNeverJams` |
| `Funded` | no account's free funds or rebates, and no accrued fee, is negative | `NothingUnderflows` |

* **Batches.** MatchOrders and ConsumeEvents are loops, here recursive functions; their
  existence and values are proved once (`Iteration` in `Lemmas`), and what one
  pass keeps is kept by the loop. `ProcessRequestsKeeps` is the first use of this: a
  MatchOrders of any limit keeps types and capacities and moves money only between
  deposits, fees and rebates.
* **Shapes of a pass.** `Pass` says that a pass cancels, drops, posts, self-trades or
  trades, and what changes in each case; `new_bid` and `new_ask` with their branches
  are expanded once, to show that there is no other case. That needs `QInv`: a bid whose
  remaining funds were zero could send a pass through a combination of branches that
  has none of these shapes. Every layer above is proved by cases on the shape.
* **`BInv`** is stronger than `BookInOrder`: an order posted by a later pass
  of the same batch is younger than all of its side only if the request queue behind it
  is in order too, and the id of a bid complements its sequence number.
* **Action properties** are about whole batches. `SoFar` and `Gone` say of the records
  between the first pass of a call and the last what has been queued and what has left
  the book since; at the last pass they are `OrdersRespected` and `PriceTimePriority`.
  Both properties look an order up by its id on either side, and the ids of bids and asks
  are apart only while fewer than half of all sequence numbers were used. This is the
  hypothesis `IdsApart` of `TypesAreRespected` and `PriorityHolds`: fewer than 2^63
  requests to a market.
* **`Tally`** is why the accounting can be proved at all. `LockedMatchesOrders` and
  `DepositsMatchAccounts` are sums over requests, leaves and events. Under a partial fill
  all three change, but in what would be queued if every order were cancelled (`Drained`)
  only the two halves of the trade are new, and those balance: what the taker and the maker
  give up is what they receive, the fee, and the rebates. A cancel changes nothing in it.
  Consuming an event moves its summand to the account.
* **`SlotInv`** contains `OrderInOnePlace`, and what it lacks to be inductive: nothing
  of an order is queued behind the Out that frees its slot, or else a reused slot would
  receive what belongs to an order before. `QueueNeverJams` then follows for every event
  in turn while ConsumeEvents runs, since each applied event leaves the rest of the queue
  `Consistent` with the slots.
* **`Funded`**: with `Tally` no total is below what queued events will take from it.
  `EventGives` and `FeesPositive` say that no event takes more than it unlocks.

### The slab

`SlabTypeCorrect`, `SlabInvariants`, `BootingMakesRoom` and `SlabIsOrderedMap`
(`CritBitProofs`) are the four properties of run `slab`, for any number of nodes, any length
of the ids and any set of them; the run has eight nodes and ids of three bits. The invariant
(`SlabSound`) is `SlabInv`: the last answer is an order or none, and the slab is `Sound`:

| Part | Says |
|---|---|
| `Pool` | every node handed out is in use or free, and the free ones are a list of `free_list_len` from its head (`Chain`) |
| `Tree` | each branch tests a later bit than the one above it, its children have that bit 0 and 1 and agree with it before; each node but the root has one parent |
| counts | `2 * leaf_count - 1` nodes in use, `leaf_count` orders, no two with one id |

`check_invariants` alone is not inductive: it does not say how the nodes below a branch
agree, without which an insertion could branch at the wrong place.

* **Bits.** `Bit` is a quotient's remainder. `AgreeAll`: ids with the same bits are the same;
  `FirstBitDecides`: of two ids the one with a 1 at the first difference is larger, so the
  order of the tree from left to right is that of prices and ages.
* **Walks.** The loops of `critbit.rs` are recursive functions on handles. That there is such
  a function is proved for any nodes, cycles included (`Descent`: of each node, where the
  walks that lead through it end). Where it ends in a tree follows from ranks that rise with
  each step (`Ranks`): of the nodes for which a claim fails, take one of the highest rank.
  So no induction over trees is needed.
* **Where walks end.** `Finds`: at the only leaf that can have the id. `MinMax`: at
  the order that no other is below, or above. `InsertAt`: at the node whose place the new
  parent takes. `ParentAt`: at the parent of the leaf where the search ends.
* **Rewriting.** A node keeps its handle when its contents move: `SplitTree` and `MergeTree`
  show that the tree with a handle reused and its old contents under another is a tree.
  `Inserts` and `Removes` do the same for the free list.
* **Refinement.** Each call of the slab is one of `OrderedMap` on the set of its leaves, with
  the same answer (`SlabStep`). That a slab is refused an order only when it is full is
  arithmetic: `n` orders use `2n - 1` nodes, and one more needs two (`Capacity`).

### The lockup

* `TypeCorrect`, `SubtractionsSafe`, `SchedulesKept`, `TermsKept`, `VaultsGuarded`
  (`LockupProofs`). The inductive invariant is
  `LInv`: types, and every account in use is `Sound`, that is, its window is not
  empty, `whitelist_owned <= balance <= start_balance`, and what was withdrawn is at
  most what has vested. The last part is what makes `balance_vested` safe, and it
  survives the clock by `VestedMonotone`: a quotient grows with its dividend, a
  schedule whose periods have no length cannot be redeemed before its end, and at the
  end everything has vested. `Parts` (some of n equal parts are no more than the
  whole) bounds the last period. The last two theorems are about steps and use the
  invariant before and after.
* `SchedulesKept` — a period is the pushed window divided by their number, rounded down,
  so that the periods fill that window but for less than `period_count` slots. What has
  been paid is some number of parts: no less than an even division of the window has
  (`OnTime`, `PartsPaid`: a part that were late would be one of more than
  `period_count`), and less than `period_count` slots ahead of it.
* `VestingsBacked`, `LoansCharged`, `ReceiptsCovered`, `PaymentsNeverFail` — the three
  sums over accounts, and that the vault of a safe that was not migrated never lacks what
  a checked instruction pays. After a migration it may: the checks of Redeem and
  WhitelistWithdraw still pass, and their transfers fail. `LoansCharged` is, like its
  property, one sum over all safes. The invariant is `CInv == LInv /\ Backed`. `Backed` adds to the three sums that an
  account not in use has lent nothing and that an unclaimed one still has its whole
  deposit (`Fresh`): without the first, creating an account would change the loans, and
  without the second, claiming could create more receipts than the account stands behind.
  Each step changes one account, hence one summand (`Lemmas`).

### Accounts

* `RolesApart`, `NamesLoad`, `VaultsCover`, `AccountsFixed` (`AccountsProofs`) — all four
  properties of run `accounts`, for any number of accounts, markets and listings. The
  invariant is `AInv == TypeOK /\ Listed /\ OneRoleEach /\ NamedOwnersLoad /\ Solvent`.
  `Listed` says that a market is where its own header says and that its listing passed
  the checks of `process_initialize_market`: only so do the accounts that a later
  instruction passes have to be those that were initialized together. `Solvent` is
  `VaultsPay` vault by vault. That two markets never share a vault comes from the signer:
  a vault is signed for by one address, and that address belongs to one market.

### Only model-checked

`QueueDrains`, `RequestsServed` and `LeavingOrdersLeave` are liveness properties, which TLAPS
does not prove. Every other property of a passing run is stated by a theorem.

## Not modelled

* Registry: its instructions assign the fields of one account each, most of their access
  control is marked `todo`, and stake, withdraw and donate return
  `NotReadySeeNextMajorVersion` or do nothing. There is no interaction to check yet.
* Node, RPC handlers, command line tools, client generator: input, output and generated
  code. What places orders, settles and lists markets in the crank packs one
  instruction each.
* Of `common/src/pack.rs`: the layouts, which are those of serde.
* Of the fuzz harness: its generator; its assertions are `VaultsMatchBooks` and
  `EventsConsumable`.

## Plan

1. *(done)* Fees, Matching, Market, their runs, types and custody proved.
2. *(done)* Ring buffer (`AccountQueue`) refines a bounded sequence, proved.
   Critbit slab (`CritBit`) refines the ordered map, model-checked first, then proved.
3. *(done)* Lockup; the crank; accounts of several markets; encoding, proved.
   Lockup: types, terms, schedules and the way out of a vault proved.
4. *(done)* Lockup: the sums over accounts. Accounts: roles, names and vaults.
5. *(done)* Market: matching, order of the book, accounting, slots and subtractions proved.
6. *(done)* Crank: what a round lists and how many workers it has, proved.
7. An abstract custody ledger that the market implements, with a refinement proof.
