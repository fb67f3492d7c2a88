------------------------------- MODULE Lockup -------------------------------
(***************************************************************************)
(* The lockup program (lockup/program/src): safes that hold the tokens of  *)
(* vesting accounts in a vault, receipts for those tokens, and whitelisted *)
(* programs to which a beneficiary may lend locked tokens.  One action is  *)
(* one instruction, which the runtime applies as a whole or not at all: a  *)
(* failed check, a failed call or a panic is an action that is not         *)
(* enabled.  An address passed in an instruction is a parameter of the     *)
(* action; that it names an account of the right program, size and rent is *)
(* left out.                                                               *)
(***************************************************************************)
EXTENDS VestingSchedule, Whitelist, Sums

CONSTANTS
  Users,         \* keys that sign: depositors, beneficiaries, authorities
  Nobody,        \* the key of an account that is not initialized
  Safes,         \* safes, each with its vault and the derived vault authority
  Whitelists,    \* whitelist accounts
  Vestings,      \* vesting accounts
  Mints,         \* mints of receipts
  MintAuthority, \* the safe whose vault authority may mint each of them
  Deposits, Durations, Periods,   \* what instructions may ask for
  Wealth,        \* tokens each user starts with
  MaxSlot,       \* bound of the model: the last slot
  HoldersBurn    \* whether holders burn receipts themselves

ASSUME LockupAssumption ==
  /\ IsFiniteSet(Users) /\ IsFiniteSet(Vestings)
  /\ Nobody \notin Users /\ MintAuthority \in [Mints -> Safes]
  /\ Deposits \subseteq Nat \ {0} /\ Durations \subseteq Nat \ {0}
  /\ Periods \subseteq Nat \ {0} /\ Wealth \in Nat /\ MaxSlot \in Nat
  /\ HoldersBurn \in BOOLEAN

VARIABLES
  slot,          \* the clock
  safes,         \* the Safe accounts
  whitelist,     \* the whitelist accounts
  vestings,      \* the Vesting accounts
  vault,         \* tokens in the vault of each safe
  wallet,        \* tokens of each user
  lent,          \* tokens that left the vaults for each whitelisted program
  receipts,      \* receipts of each mint by owner
  migrated       \* safes whose vault was migrated (of the model only)

vars == <<slot, safes, whitelist, vestings, vault, wallet, lent, receipts, migrated>>
tokens == <<vault, wallet, lent, receipts>>

Safe ==
  [initialized : BOOLEAN, authority : Users \union {Nobody},
   whitelist : Whitelists \union {Nobody}]

Vesting ==
  [initialized : BOOLEAN, claimed : BOOLEAN,
   safe : Safes \union {Nobody}, beneficiary : Users \union {Nobody},
   balance : Nat, start_balance : Nat,
   start_slot : Nat, end_slot : Nat, period_count : Nat,
   locked_nft_mint : Mints \union {Nobody}, whitelist_owned : Nat]

\* A zeroed account.
NewVesting ==
  [initialized |-> FALSE, claimed |-> FALSE, safe |-> Nobody, beneficiary |-> Nobody,
   balance |-> 0, start_balance |-> 0, start_slot |-> 0, end_slot |-> 0,
   period_count |-> 0, locked_nft_mint |-> Nobody, whitelist_owned |-> 0]

supply(m) == Total(Users, receipts[m])

Init ==
  /\ slot = 0
  /\ safes = [s \in Safes |->
       [initialized |-> FALSE, authority |-> Nobody, whitelist |-> Nobody]]
  /\ whitelist = [l \in Whitelists |-> Empty]
  /\ vestings = [v \in Vestings |-> NewVesting]
  /\ vault = [s \in Safes |-> 0]
  /\ wallet = [u \in Users |-> Wealth]
  /\ lent = [e \in Entries |-> 0]
  /\ receipts = [m \in Mints |-> [u \in Users |-> 0]]
  /\ migrated = {}

-----------------------------------------------------------------------------
(* access_control.rs                                                       *)

\* The safe that is passed is in use; its vault and vault authority follow.
safe(s) == safes[s].initialized

\* The whitelist that is passed is the one the safe was initialized with.
WhitelistOf(s) == whitelist[safes[s].whitelist]

governance(s, signer) == safe(s) /\ safes[s].authority = signer

\* Mutant: the vesting account may belong to another safe.
vesting_AnySafe(v, s, signer) ==
  /\ safe(s)
  /\ vestings[v].initialized
  /\ vestings[v].beneficiary = signer

\* The account is initialized, the signer its beneficiary, s its safe.
vesting(v, s, signer) ==
  /\ safe(s)
  /\ vestings[v].initialized
  /\ vestings[v].beneficiary = signer
  /\ vestings[v].safe = s

\* The receipts that are passed are the beneficiary's, of the account's mint.
locked_token(v, s, m) == MintAuthority[m] = s /\ vestings[v].locked_nft_mint = m

-----------------------------------------------------------------------------
(* Safes                                                                   *)

\* Nothing asks whether another safe has the same whitelist, whose authority
\* may then change it too.
Initialize(s, authority, list) ==
  /\ ~safes[s].initialized
  /\ safes' = [safes EXCEPT ![s] =
       [initialized |-> TRUE, authority |-> authority, whitelist |-> list]]
  /\ UNCHANGED <<slot, whitelist, vestings, tokens, migrated>>

SetAuthority(s, signer, new_authority) ==
  /\ governance(s, signer)
  /\ safes' = [safes EXCEPT ![s].authority = new_authority]
  /\ UNCHANGED <<slot, whitelist, vestings, tokens, migrated>>

WhitelistAdd(s, signer, e) ==
  /\ governance(s, signer)
  /\ CanPush(WhitelistOf(s), e)
  /\ whitelist' = [whitelist EXCEPT ![safes[s].whitelist] = push(@, e)]
  /\ UNCHANGED <<slot, safes, vestings, tokens, migrated>>

WhitelistDelete(s, signer, e) ==
  /\ governance(s, signer)
  /\ CanDelete(WhitelistOf(s), e)
  /\ whitelist' = [whitelist EXCEPT ![safes[s].whitelist] = delete(@, e)]
  /\ UNCHANGED <<slot, safes, vestings, tokens, migrated>>

\* Everything in the vault goes to the receiver; the vesting accounts stay.
Migrate(s, signer, receiver) ==
  /\ governance(s, signer)
  /\ vault' = [vault EXCEPT ![s] = 0]
  /\ wallet' = [wallet EXCEPT ![receiver] = @ + vault[s]]
  /\ migrated' = migrated \union {s}
  /\ UNCHANGED <<slot, safes, whitelist, vestings, lent, receipts>>

-----------------------------------------------------------------------------
(* Vesting accounts                                                        *)

\* Mutant: the account may be in use.
CanCreate_Again(v, s, m, end_slot, period_count, amount) ==
  /\ safe(s)
  /\ end_slot > slot /\ period_count # 0 /\ amount # 0
  /\ MintAuthority[m] = s /\ supply(m) = 0

\* The account and the receipts are fresh, the schedule makes sense.
CanCreate(v, s, m, end_slot, period_count, amount) ==
  /\ safe(s)
  /\ ~vestings[v].initialized
  /\ end_slot > slot /\ period_count # 0 /\ amount # 0
  /\ MintAuthority[m] = s /\ supply(m) = 0

CreateVesting(v, s, depositor, beneficiary, m, end_slot, period_count, amount) ==
  /\ CanCreate(v, s, m, end_slot, period_count, amount)
  /\ vestings' = [vestings EXCEPT ![v] =
       [initialized |-> TRUE, claimed |-> FALSE, safe |-> s, beneficiary |-> beneficiary,
        balance |-> amount, start_balance |-> amount,
        start_slot |-> slot, end_slot |-> end_slot, period_count |-> period_count,
        locked_nft_mint |-> m, whitelist_owned |-> 0]]
  /\ amount <= wallet[depositor]
  /\ wallet' = [wallet EXCEPT ![depositor] = @ - amount]
  /\ vault' = [vault EXCEPT ![s] = @ + amount]
  /\ UNCHANGED <<slot, safes, whitelist, lent, receipts, migrated>>

CanClaim(v, s, signer, m) ==
  /\ vesting(v, s, signer) /\ locked_token(v, s, m)
  /\ ~vestings[v].claimed

Claim(v, s, signer, m) ==
  /\ CanClaim(v, s, signer, m)
  /\ receipts' = [receipts EXCEPT ![m][signer] = @ + vestings[v].start_balance]
  /\ vestings' = [vestings EXCEPT ![v].claimed = TRUE]
  /\ UNCHANGED <<slot, safes, whitelist, vault, wallet, lent, migrated>>

CanRedeem(v, s, signer, m, amount) ==
  /\ vesting(v, s, signer) /\ locked_token(v, s, m)
  /\ vestings[v].claimed
  /\ Computable(vestings[v], slot)
  /\ amount <= available_for_withdrawal(vestings[v], slot)

\* Mutant: the receipts are not burned.
Redeem_KeepReceipts(v, s, signer, receiver, m, amount) ==
  /\ CanRedeem(v, s, signer, m, amount)
  /\ vestings' = [vestings EXCEPT ![v].balance = @ - amount]
  /\ amount <= vault[s]
  /\ vault' = [vault EXCEPT ![s] = @ - amount]
  /\ wallet' = [wallet EXCEPT ![receiver] = @ + amount]
  /\ UNCHANGED <<slot, safes, whitelist, lent, receipts, migrated>>

\* deduct, burn the receipts, transfer out of the vault.
Redeem(v, s, signer, receiver, m, amount) ==
  /\ CanRedeem(v, s, signer, m, amount)
  /\ vestings' = [vestings EXCEPT ![v].balance = @ - amount]
  /\ amount <= receipts[m][signer]
  /\ receipts' = [receipts EXCEPT ![m][signer] = @ - amount]
  /\ amount <= vault[s]
  /\ vault' = [vault EXCEPT ![s] = @ - amount]
  /\ wallet' = [wallet EXCEPT ![receiver] = @ + amount]
  /\ UNCHANGED <<slot, safes, whitelist, lent, migrated>>

-----------------------------------------------------------------------------
(* Whitelisted programs                                                    *)

\* The relayed call.  The test program's Stake takes part of the approved amount;
\* its instruction data is not looked at, so it may be an Unstake as well, which
\* sends tokens back: `taken' is then negative.
stake(s, e, taken) ==
  /\ taken <= vault[s] /\ 0 - taken <= lent[e]
  /\ vault' = [vault EXCEPT ![s] = @ - taken]
  /\ lent' = [lent EXCEPT ![e] = @ + taken]

\* Its Unstake: it sends back part of what it holds.
unstake(s, e, returned) ==
  /\ returned <= lent[e]
  /\ lent' = [lent EXCEPT ![e] = @ - returned]
  /\ vault' = [vault EXCEPT ![s] = @ + returned]

CanLend(v, s, signer, e, amount) ==
  /\ vesting(v, s, signer)
  /\ vestings[v].claimed
  /\ amount <= available_for_whitelist(vestings[v])
  /\ contains_derived(WhitelistOf(s), e)

\* Mutant: what was approved is read instead of what is left.
delegated_amount_Approved(amount, taken) == amount

\* What the delegate has left when it is read: nothing, the approval has been
\* revoked by then.
delegated_amount(amount, taken) == 0

\* approve, the call of the program, revoke, and the account is updated.
WhitelistWithdraw(v, s, signer, e, amount, taken) ==
  /\ CanLend(v, s, signer, e, amount)
  /\ taken <= amount /\ stake(s, e, taken)
  /\ vestings' = [vestings EXCEPT ![v].whitelist_owned =
                    @ + (amount - delegated_amount(amount, taken))]
  /\ UNCHANGED <<slot, safes, whitelist, wallet, receipts, migrated>>

\* Mutant: more may come back than the account has lent.
TakeBack_Unasserted(v, returned) ==
  vestings' = [vestings EXCEPT ![v].whitelist_owned = @ - returned]

\* Mutant: any deposit settles all that the account has lent.
TakeBack_All(v, returned) ==
  /\ returned > 0 /\ returned <= vestings[v].whitelist_owned
  /\ vestings' = [vestings EXCEPT ![v].whitelist_owned = 0]

\* The assertions on what the call has moved, and the update.
TakeBack(v, returned) ==
  /\ returned > 0 /\ returned <= vestings[v].whitelist_owned
  /\ vestings' = [vestings EXCEPT ![v].whitelist_owned = @ - returned]

CanTakeBack(v, s, signer, e) ==
  /\ vesting(v, s, signer)
  /\ vestings[v].claimed
  /\ contains_derived(WhitelistOf(s), e)

WhitelistDeposit(v, s, signer, e, returned) ==
  /\ CanTakeBack(v, s, signer, e)
  /\ unstake(s, e, returned)
  /\ TakeBack(v, returned)
  /\ UNCHANGED <<slot, safes, whitelist, wallet, receipts, migrated>>

-----------------------------------------------------------------------------
(* What happens outside the program                                        *)

Tick ==
  /\ slot < MaxSlot /\ slot' = slot + 1
  /\ UNCHANGED <<safes, whitelist, vestings, tokens, migrated>>

\* Anybody may send tokens to a vault.
Donate(u, s) ==
  /\ wallet[u] > 0
  /\ wallet' = [wallet EXCEPT ![u] = @ - 1]
  /\ vault' = [vault EXCEPT ![s] = @ + 1]
  /\ UNCHANGED <<slot, safes, whitelist, vestings, lent, receipts, migrated>>

\* A holder gives a receipt to somebody, or burns it.
GiveReceipt(m, from, to) ==
  /\ receipts[m][from] > 0 /\ from # to
  /\ receipts' = [receipts EXCEPT ![m][from] = @ - 1, ![m][to] = @ + 1]
  /\ UNCHANGED <<slot, safes, whitelist, vestings, vault, wallet, lent, migrated>>

BurnReceipt(m, holder) ==
  /\ HoldersBurn /\ receipts[m][holder] > 0
  /\ receipts' = [receipts EXCEPT ![m][holder] = @ - 1]
  /\ UNCHANGED <<slot, safes, whitelist, vestings, vault, wallet, lent, migrated>>

-----------------------------------------------------------------------------

\* An amount an instruction may ask for.
Amounts == 0 .. Wealth

Governed ==
  \E s \in Safes, u, w \in Users, l \in Whitelists, e \in Entries :
    \/ Initialize(s, u, l)
    \/ SetAuthority(s, u, w)
    \/ WhitelistAdd(s, u, e)
    \/ WhitelistDelete(s, u, e)
    \/ Migrate(s, u, w)

Vests ==
  \E v \in Vestings, s \in Safes, u, w \in Users, m \in Mints :
    \/ \E d \in Durations, p \in Periods, a \in Deposits :
         CreateVesting(v, s, u, w, m, slot + d, p, a)
    \/ Claim(v, s, u, m)
    \/ \E a \in Amounts : Redeem(v, s, u, w, m, a)

Lends ==
  \E v \in Vestings, s \in Safes, u \in Users, e \in Entries, a \in Amounts :
    \/ \E taken \in (0 - lent[e]) .. a : WhitelistWithdraw(v, s, u, e, a, taken)
    \/ WhitelistDeposit(v, s, u, e, a)

Outside ==
  \/ Tick
  \/ \E u \in Users, s \in Safes : Donate(u, s)
  \/ \E m \in Mints, u, w \in Users : GiveReceipt(m, u, w) \/ BurnReceipt(m, u)

Next == Governed \/ Vests \/ Lends \/ Outside

Spec == Init /\ [][Next]_vars

-----------------------------------------------------------------------------
(* Safety                                                                  *)

Initialized == {v \in Vestings : vestings[v].initialized}

\* The accounts are well-formed, and no unsigned field is below zero.
TypeOK ==
  /\ slot \in 0 .. MaxSlot
  /\ safes \in [Safes -> Safe]
  /\ whitelist \in [Whitelists -> Lists]
  /\ vestings \in [Vestings -> Vesting]
  /\ vault \in [Safes -> Nat]
  /\ wallet \in [Users -> Nat]
  /\ lent \in [Entries -> Nat]
  /\ receipts \in [Mints -> [Users -> Nat]]
  /\ migrated \subseteq Safes

\* What each vesting account may still redeem or lend, what it owes for
\* receipts, and what it has lent.
Available == [v \in Vestings |-> available_for_whitelist(vestings[v])]
Balances == [v \in Vestings |-> vestings[v].balance]
Loans == [v \in Vestings |-> vestings[v].whitelist_owned]

AccountsOf(s) == {v \in Initialized : vestings[v].safe = s}

ClaimedFor(m) ==
  {v \in Initialized : vestings[v].claimed /\ vestings[v].locked_nft_mint = m}

\* Until it is migrated, the vault of a safe holds what all its vesting
\* accounts together may still redeem or lend (create_vesting.rs, redeem.rs,
\* whitelist_withdraw.rs, whitelist_deposit.rs): the transfer of a redemption
\* never fails because another account, or another safe, took the tokens.
VaultBacksVestings ==
  \A s \in Safes \ migrated :
    vault[s] >= Total(AccountsOf(s), Available)

\* There are never more receipts of a mint than the claimed accounts of that
\* mint owe, even when accounts share a mint (create_vesting.rs accepts a mint
\* without supply, claim.rs mints once, redeem.rs burns what it pays).
ReceiptsBacked ==
  \A m \in Mints : supply(m) <= Total(ClaimedFor(m), Balances)

\* The u64 subtractions of a vesting account never wrap: nobody has withdrawn
\* more than has vested since (balance_vested), and no account has lent more
\* than its balance (available_for_whitelist).
NoUnderflow ==
  \A v \in Initialized :
    /\ Computable(vestings[v], slot) => balance_vested(vestings[v], slot) >= 0
    /\ available_for_whitelist(vestings[v]) >= 0

\* Before its end a schedule has paid some number k of its equal parts: all the
\* parts that an even division of the window has paid by then, and none that is
\* due as many as period_count slots later.  linear_unlock moves the start of
\* the window back by the remainder, so the parts come early, never late.
PaidOnTime(a, i) ==
  LET elapsed == i - a.start_slot
      part    == a.start_balance \div a.period_count
  IN  \E k \in 0 .. a.period_count :
        /\ total_vested(a, i) = k * part
        /\ (elapsed * a.period_count) \div Window(a) <= k
        /\ k * Window(a) < (elapsed + a.period_count) * a.period_count

\* A schedule has paid the whole deposit at its end ("The slot at which all the
\* tokens associated with this account should be vested.", vesting.rs:32),
\* whatever the division of deposit and window leaves over; before that it
\* never takes back and is on time.
VestsOnSchedule ==
  \A v \in Initialized :
    LET a == vestings[v]
    IN  /\ total_vested(a, a.end_slot) = a.start_balance
        /\ \A i \in a.start_slot .. a.end_slot - 1 :
             Computable(a, i) =>
               /\ total_vested(a, i) <= total_vested(a, i + 1)
               /\ PaidOnTime(a, i)

\* What all the whitelisted programs hold is charged to all the vesting accounts
\* together: tokens cannot leave through a program and be redeemed as well.  It
\* is one sum for all safes, since a program on the whitelists of two safes may
\* return to the vault of one what it took from the other.
LoansAccounted == Total(Entries, lent) <= Total(Vestings, Loans)

\* The terms of a vesting account are those of its deposit for ever: nobody
\* creates the account again, a claim is not undone, and no balance grows.
TermsFixed ==
  [][\A v \in Initialized :
       LET old == vestings[v] new == vestings'[v]
       IN  /\ new = [old EXCEPT !.claimed = new.claimed, !.balance = new.balance,
                                !.whitelist_owned = new.whitelist_owned]
           /\ old.claimed => new.claimed
           /\ new.balance <= old.balance]_vars

\* Unless it is migrated, a vault pays and lends only on behalf of a claimed
\* account of its safe, whose claim on the vault falls by at least as much.
VaultFallsByClaims ==
  [][\A s \in Safes :
       vault'[s] < vault[s] =>
         \/ s \in migrated'
         \/ \E v \in Initialized :
              /\ vestings[v].safe = s /\ vestings[v].claimed
              /\ vault[s] - vault'[s]
                   <= available_for_whitelist(vestings[v]) - available_for_whitelist(vestings'[v])
    ]_vars

-----------------------------------------------------------------------------
(* What the documentation says and the code does not do                    *)

\* "The supply should always equal the `balance` field." (locked_nft_mint,
\* vesting.rs:38), at least once the receipts have been claimed.
SupplyIsBalance ==
  \A v \in Initialized :
    vestings[v].claimed =>
      supply(vestings[v].locked_nft_mint) = vestings[v].balance

\* "If we can't perfectly partition the vesting window, push the start window
\* back so that we can." (linear_unlock, vesting.rs:95)
WindowPartitioned ==
  \A v \in Initialized :
    PushedWindow(vestings[v]) % vestings[v].period_count = 0

\* whitelist_owned is the amount in the custody of whitelisted programs.
CustodyOfPrograms == Total(Entries, lent) = Total(Vestings, Loans)
=============================================================================
