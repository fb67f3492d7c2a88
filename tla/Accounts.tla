------------------------------ MODULE Accounts ------------------------------
(***************************************************************************)
(* Several markets side by side: which accounts an instruction of the dex  *)
(* may be given (MarketState::load*, account_parser and                    *)
(* process_initialize_market in dex/src/state.rs).  An account of the      *)
(* program is told apart by its header alone, and whoever sends a          *)
(* transaction chooses the addresses.  One action is one instruction; a    *)
(* failed check or borrow is an action that is not enabled.                *)
(*                                                                         *)
(* What the instructions do inside one market is module Market.  Of the    *)
(* contents of queues and books this module keeps the OpenOrders accounts  *)
(* they name, and of the funds what a market owes to anybody, be it as     *)
(* deposit, fee or rebate.                                                 *)
(***************************************************************************)
EXTENDS Integers, FiniteSets, Sums

CONSTANTS
  Addresses,     \* accounts that the dex program owns
  Size,          \* what each is large enough for, or just right
  Tokens,        \* token accounts
  TokenOwner,    \* the key that may sign for each: a user or a vault signer
  TokenMint,     \* the mint of each
  Delegated,     \* the token accounts with a delegate
  Layouts,       \* the accounts that an InitializeMarket may name
  Users,         \* keys that sign
  Nobody,        \* the key in a zeroed account
  MaxOwed        \* bound of the model: tokens a market owes

Currency == {"coin", "pc"}

\* create_program_address is injective.
gen_vault_signer_key(nonce, m) == <<nonce, m>>

Listing ==
  [market : Addresses, req_q : Addresses, event_q : Addresses,
   bids : Addresses, asks : Addresses, coin_vault : Tokens, pc_vault : Tokens,
   vault_signer_nonce : Nat]

\* A vault signer is not on the curve: nobody signs for it, whatever the nonce.
ASSUME AccountsAssumption ==
  /\ TokenOwner \in [Tokens -> Users \cup (Nat \X Addresses)]
  /\ Layouts \subseteq Listing
  /\ Users \cap (Nat \X Addresses) = {}
  /\ Nobody \notin Users /\ Nobody \notin Addresses /\ Nobody \notin Layouts
  /\ MaxOwed \in Nat

VARIABLES
  account,       \* header and contents of each account
  market,        \* the MarketState in each account that holds one
  balance        \* of the token accounts

vars == <<account, market, balance>>

AccountFlag == {"Initialized", "Market", "OpenOrders", "RequestQueue",
                "EventQueue", "Bids", "Asks", "Disabled"}

Zeroed == [account_flags |-> {}, market |-> Nobody, owner |-> Nobody, names |-> {}]

NoMarket == [layout |-> Nobody, owed |-> [coin |-> 0, pc |-> 0]]

Init ==
  /\ account = [a \in Addresses |-> Zeroed]
  /\ market = [a \in Addresses |-> NoMarket]
  /\ balance = [t \in Tokens |-> IF TokenOwner[t] \in Users THEN MaxOwed ELSE 0]

Has(a, flag) == account[a].account_flags = {"Initialized", flag}

-----------------------------------------------------------------------------
(* InitializeMarket                                                        *)

DexAccounts(l) == {l.market, l.req_q, l.event_q, l.bids, l.asks}

\* Mutant: only the market is looked at.
AreZeroed_Market(l) == account[l.market].account_flags = {}

\* Header and padding of the five accounts are zero.
AreZeroed(l) == \A a \in DexAccounts(l) : account[a].account_flags = {}

\* A market is cast from all the bytes of its account, an event queue has 128
\* items and a side of the book 100 nodes; a request queue needs one item.
Fit(l) ==
  /\ Size[l.market] = "market"
  /\ \A a \in {l.event_q, l.bids, l.asks} : Size[a] = "large"

\* The queues stay borrowed until the end, each book only while it is written.
CanBorrow(l) ==
  /\ l.req_q \notin {l.market, l.event_q, l.bids, l.asks}
  /\ l.event_q \notin {l.market, l.bids, l.asks}

\* Mutant: a vault may belong to anybody.
VaultChecked_Any(l, vault) == vault \notin Delegated

VaultChecked(l, vault) ==
  /\ TokenOwner[vault] = gen_vault_signer_key(l.vault_signer_nonce, l.market)
  /\ vault \notin Delegated

Header(flag, m) == [Zeroed EXCEPT !.account_flags = {"Initialized", flag}, !.market = m]

\* The books are written one after the other: bids, asks.
InitializeMarket(l) ==
  /\ AreZeroed(l) /\ Fit(l) /\ CanBorrow(l)
  /\ VaultChecked(l, l.coin_vault) /\ VaultChecked(l, l.pc_vault)
  /\ account' = [account EXCEPT
       ![l.req_q] = Header("RequestQueue", l.market),
       ![l.event_q] = Header("EventQueue", l.market),
       ![l.bids] = Header("Bids", l.market),
       ![l.asks] = Header("Asks", l.market),
       ![l.market] = Header("Market", l.market)]
  /\ market' = [market EXCEPT ![l.market] = [NoMarket EXCEPT !.layout = l]]
  /\ UNCHANGED balance

-----------------------------------------------------------------------------
(* Loading the accounts of an instruction.  An address that must equal one *)
(* of the market's is taken from the market.                               *)

\* MarketState::load wants these two flags and no other.
MarketLoads(m) == Has(m, "Market")

Layout(m) == market[m].layout

\* Mutant: an account is initialized for whoever comes.
NeedsInit_Always(oo) == TRUE

NeedsInit(oo) == account[oo].account_flags = {}

\* The OpenOrders account as load_orders_mut leaves it.
LoadedOrders(m, oo, owner) ==
  IF NeedsInit(oo)
  THEN [Zeroed EXCEPT !.account_flags = {"Initialized", "OpenOrders"},
                      !.market = m, !.owner = owner]
  ELSE account[oo]

\* Mutant: the account may belong to another market.
OrdersLoad_AnyMarket(m, oo, owner, init) ==
  /\ Size[oo] = "orders"
  /\ NeedsInit(oo) => init
  /\ LoadedOrders(m, oo, owner).account_flags = {"Initialized", "OpenOrders"}
  /\ owner # Nobody => LoadedOrders(m, oo, owner).owner = owner

\* Without an owner (Nobody) any owner will do.
OrdersLoad(m, oo, owner, init) ==
  /\ Size[oo] = "orders"
  /\ NeedsInit(oo) => init
  /\ LoadedOrders(m, oo, owner).account_flags = {"Initialized", "OpenOrders"}
  /\ LoadedOrders(m, oo, owner).market = m
  /\ owner # Nobody => LoadedOrders(m, oo, owner).owner = owner

vault(m) == [coin |-> Layout(m).coin_vault, pc |-> Layout(m).pc_vault]

mint(m, currency) == TokenMint[vault(m)[currency]]

Move(funds, from, to, amount) ==
  [t \in Tokens |-> (funds[t] + (IF t = to THEN amount ELSE 0))
                              - (IF t = from THEN amount ELSE 0)]

-----------------------------------------------------------------------------
(* The instructions of a market                                            *)

\* The request names the account of its order.
Request(m, oo, loaded) ==
  /\ Has(Layout(m).req_q, "RequestQueue") /\ oo # Layout(m).req_q
  /\ account' = [account EXCEPT ![oo] = loaded,
                                ![Layout(m).req_q].names = @ \union {oo}]

\* The owner signs for the payer; what free funds cover is not transferred.
NewOrder(m, oo, owner) ==
  /\ MarketLoads(m)
  /\ OrdersLoad(m, oo, owner, TRUE)
  /\ Request(m, oo, LoadedOrders(m, oo, owner))
  /\ \E currency \in Currency, payer \in Tokens :
       /\ TokenOwner[payer] = owner /\ TokenMint[payer] = mint(m, currency)
       /\ \E amount \in 0 .. balance[payer] :
            /\ market[m].owed.coin + market[m].owed.pc + amount <= MaxOwed
            /\ market' = [market EXCEPT ![m].owed[currency] = @ + amount]
            /\ balance' = Move(balance, payer, vault(m)[currency], amount)

\* CancelOrder and CancelOrderByClientId
CancelOrder(m, oo, owner) ==
  /\ MarketLoads(m)
  /\ OrdersLoad(m, oo, owner, FALSE)
  /\ Request(m, oo, account[oo])
  /\ UNCHANGED <<market, balance>>

\* Orders move from the requests to the books and end as events; the model moves
\* those of one account at a time.
MatchOrders(m, oo) ==
  LET l == Layout(m)
      Names(a) == account[a].names
      Some(a) == {Names(a), Names(a) \ {oo}, Names(a) \union {oo}}
  IN  /\ MarketLoads(m)
      /\ Has(l.req_q, "RequestQueue") /\ Has(l.event_q, "EventQueue")
      /\ Has(l.bids, "Bids") /\ Has(l.asks, "Asks")
      /\ oo \in Names(l.req_q) \union Names(l.bids) \union Names(l.asks)
      /\ \E left \in {Names(l.req_q), Names(l.req_q) \ {oo}},
            ended \in {Names(l.event_q), Names(l.event_q) \union {oo}},
            bids \in Some(l.bids), asks \in Some(l.asks) :
           account' = [account EXCEPT
             ![l.req_q].names = left, ![l.event_q].names = ended,
             ![l.bids].names = bids, ![l.asks].names = asks]
      /\ UNCHANGED <<market, balance>>

\* The last event that names this account is consumed, by anybody.
ConsumeEvents(m, oo) ==
  /\ MarketLoads(m)
  /\ Has(Layout(m).event_q, "EventQueue")
  /\ oo \in account[Layout(m).event_q].names
  /\ OrdersLoad(m, oo, Nobody, FALSE)
  /\ account' = [account EXCEPT ![Layout(m).event_q].names = @ \ {oo}]
  /\ UNCHANGED <<market, balance>>

\* send_from_vault: the key derived from the market and its nonce signs.
SignedByVault(m, currency) ==
  TokenOwner[vault(m)[currency]] = gen_vault_signer_key(Layout(m).vault_signer_nonce, m)

Wallets(m, currency) == {t \in Tokens : TokenMint[t] = mint(m, currency)}

\* The owner names any wallets of the right mints; the rebate goes to the wallet
\* of the referrer (without one it becomes a fee, and is not paid here).
SettleFunds(m, oo, owner) ==
  /\ MarketLoads(m)
  /\ OrdersLoad(m, oo, owner, FALSE)
  /\ \A c \in Currency : SignedByVault(m, c)
  /\ \E coin \in 0 .. market[m].owed.coin, pc, rebate \in 0 .. market[m].owed.pc,
        coin_wallet \in Wallets(m, "coin"), pc_wallet, referrer \in Wallets(m, "pc") :
       LET v == vault(m)
           moved == Move(Move(Move(balance, v.coin, coin_wallet, coin),
                              v.pc, pc_wallet, pc), v.pc, referrer, rebate)
       IN  /\ pc + rebate <= market[m].owed.pc
           /\ balance[v.coin] >= coin
           /\ Move(balance, v.coin, coin_wallet, coin)[v.pc] >= pc
           /\ moved[v.pc] >= 0
           /\ market' = [market EXCEPT ![m].owed.coin = @ - coin,
                                       ![m].owed.pc = @ - (pc + rebate)]
           /\ balance' = moved
  /\ UNCHANGED account

\* The fees are a part of what is owed in pc.
SweepFees(m) ==
  /\ MarketLoads(m)
  /\ SignedByVault(m, "pc")
  /\ \E wallet \in Wallets(m, "pc"), amount \in 0 .. market[m].owed.pc :
       /\ amount <= balance[vault(m).pc]
       /\ market' = [market EXCEPT ![m].owed.pc = @ - amount]
       /\ balance' = Move(balance, vault(m).pc, wallet, amount)
  /\ UNCHANGED account

DisableMarket(m) ==
  /\ MarketLoads(m)
  /\ account' = [account EXCEPT ![m].account_flags = @ \union {"Disabled"}]
  /\ UNCHANGED <<market, balance>>

-----------------------------------------------------------------------------

Next ==
  \/ \E l \in Layouts : InitializeMarket(l)
  \/ \E m, oo \in Addresses, owner \in Users :
       \/ NewOrder(m, oo, owner)
       \/ CancelOrder(m, oo, owner)
       \/ SettleFunds(m, oo, owner)
  \/ \E m, oo \in Addresses : MatchOrders(m, oo) \/ ConsumeEvents(m, oo)
  \/ \E m \in Addresses : DisableMarket(m) \/ SweepFees(m)

Spec == Init /\ [][Next]_vars

-----------------------------------------------------------------------------
(* Properties                                                              *)

Markets == {m \in Addresses : Layout(m) # Nobody}

Role == [market |-> "Market", req_q |-> "RequestQueue", event_q |-> "EventQueue",
         bids |-> "Bids", asks |-> "Asks"]

\* An account serves one market, in one role: no two listings, and no listing
\* and OpenOrders account, ever get hold of the same one (the zeroed headers of
\* InitializeMarket, the empty flags of load_orders_mut).  The one exception the
\* code allows is a market whose asks are its bids, which then cannot match.
OneRoleEach ==
  \A m \in Markets : \A r \in DOMAIN Role :
    LET a == Layout(m)[r]
    IN  /\ account[a].market = m
        /\ Role[r] \in account[a].account_flags \/ (r = "bids" /\ a = Layout(m).asks)
        /\ \A s \in DOMAIN Role :
             a = Layout(m)[s] => r = s \/ {r, s} = {"bids", "asks"}

\* What an account is, which market it serves and who owns it never changes:
\* nobody can initialize it again (init of OpenOrders, InitializeMarket).
AccountsKept ==
  [][\A a \in Addresses :
       account[a].account_flags # {} =>
         /\ account'[a].account_flags \ {"Disabled"} = account[a].account_flags \ {"Disabled"}
         /\ account'[a].market = account[a].market
         /\ account'[a].owner = account[a].owner
         /\ Layout(a)' = Layout(a)]_vars

\* Every account that a request, an order or an event names is an OpenOrders
\* account of that market, so that ConsumeEvents, which loads it without owner
\* and rent, never fails on the event at the head of the queue (load_orders_mut).
NamedOwnersLoad ==
  \A m \in Markets : \A r \in {"req_q", "event_q", "bids", "asks"} :
    \A oo \in account[Layout(m)[r]].names : Has(oo, "OpenOrders") /\ account[oo].market = m

\* Every vault can pay, signed by its market, what all markets that use it owe,
\* also when coin and pc have the same vault (InitializeMarket, NewOrder,
\* SettleFunds, SweepFees).
VaultsPay ==
  \A m \in Markets, c \in Currency :
    /\ SignedByVault(m, c)
    /\ balance[vault(m)[c]]
         >= Total({n \in Markets \X Currency : vault(n[1])[n[2]] = vault(m)[c]},
                  [n \in Markets \X Currency |-> market[n[1]].owed[n[2]]])
=============================================================================
