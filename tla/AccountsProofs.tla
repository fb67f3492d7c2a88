--------------------------- MODULE AccountsProofs ---------------------------
(***************************************************************************)
(* The accounts of the dex keep to one role in one market, and what a      *)
(* market owes is in its vaults, for any number of accounts, markets,      *)
(* users and tokens and whatever listings and accounts are tried.          *)
(*                                                                         *)
(* The inductive invariant is AInv.  What it adds to the properties is     *)
(* where an account gets its flags from: a market exists exactly where a   *)
(* header says so and has a listing that was checked (Listed).             *)
(***************************************************************************)
EXTENDS Accounts, Lemmas

AccountRec ==
  [account_flags : SUBSET AccountFlag, market : Addresses \cup {Nobody},
   owner : Users \cup {Nobody}, names : SUBSET Addresses]

MarketRec ==
  [layout : Layouts \cup {Nobody}, owed : [Currency -> Nat]]

TypeOK ==
  /\ account \in [Addresses -> AccountRec]
  /\ market \in [Addresses -> MarketRec]
  /\ balance \in [Tokens -> Nat]

\* What InitializeMarket has checked of a listing and no step can change.
Checked(l) ==
  /\ Fit(l) /\ CanBorrow(l)
  /\ VaultChecked(l, l.coin_vault) /\ VaultChecked(l, l.pc_vault)

\* A market is where a header says so, and has been listed there.
Listed ==
  \A m \in Addresses :
    /\ "Market" \in account[m].account_flags => m \in Markets
    /\ m \in Markets => Layout(m).market = m /\ Checked(Layout(m))

\* VaultsPay without the sum.
Solvent ==
  \A m \in Markets :
    IF Layout(m).coin_vault = Layout(m).pc_vault
    THEN balance[Layout(m).coin_vault] >= market[m].owed["coin"] + market[m].owed["pc"]
    ELSE /\ balance[Layout(m).coin_vault] >= market[m].owed["coin"]
         /\ balance[Layout(m).pc_vault] >= market[m].owed["pc"]

AInv == TypeOK /\ Listed /\ OneRoleEach /\ NamedOwnersLoad /\ Solvent

-----------------------------------------------------------------------------
(* The records                                                             *)

LEMMA ListingFields ==
  ASSUME NEW l \in Layouts
  PROVE  /\ l.market \in Addresses /\ l.req_q \in Addresses
         /\ l.event_q \in Addresses /\ l.bids \in Addresses /\ l.asks \in Addresses
         /\ l.coin_vault \in Tokens /\ l.pc_vault \in Tokens
         /\ l.vault_signer_nonce \in Nat
         /\ \A r \in DOMAIN Role : l[r] \in Addresses
         /\ l # Nobody
  BY AccountsAssumption DEF Listing, Role

LEMMA AccountFields ==
  ASSUME NEW r \in AccountRec
  PROVE  /\ r.account_flags \in SUBSET AccountFlag
         /\ r.market \in Addresses \cup {Nobody}
         /\ r.owner \in Users \cup {Nobody} /\ r.names \in SUBSET Addresses
  BY DEF AccountRec

LEMMA MarketFields ==
  ASSUME NEW r \in MarketRec
  PROVE  /\ r.layout \in Layouts \cup {Nobody} /\ r.owed \in [Currency -> Nat]
         /\ r.owed["coin"] \in Nat /\ r.owed["pc"] \in Nat
  BY DEF MarketRec, Currency

\* A market of the cluster, and its listing.
LEMMA ListingOf ==
  ASSUME TypeOK, NEW m \in Markets
  PROVE  m \in Addresses /\ Layout(m) \in Layouts /\ market[m] \in MarketRec
  BY MarketFields DEF TypeOK, Markets, Layout

\* A vault belongs to one market, and no user signs for it.
LEMMA VaultsOwned ==
  ASSUME NEW l \in Layouts, Checked(l), NEW v \in {l.coin_vault, l.pc_vault}
  PROVE  /\ v \in Tokens /\ TokenOwner[v] = <<l.vault_signer_nonce, l.market>>
         /\ TokenOwner[v] \notin Users
<1>1. v \in Tokens /\ TokenOwner[v] = <<l.vault_signer_nonce, l.market>>
  BY ListingFields DEF Checked, VaultChecked, gen_vault_signer_key
<1>2. <<l.vault_signer_nonce, l.market>> \in Nat \X Addresses
  BY ListingFields
<1> QED BY <1>1, <1>2, AccountsAssumption

\* Two markets have no vault in common.
LEMMA VaultsApart ==
  ASSUME NEW l \in Layouts, Checked(l), NEW v \in {l.coin_vault, l.pc_vault},
         NEW k \in Layouts, Checked(k), v \in {k.coin_vault, k.pc_vault}
  PROVE  l.market = k.market
  BY VaultsOwned

-----------------------------------------------------------------------------
(* What all instructions but InitializeMarket do to the accounts           *)

\* An account in use stays what it is, but for a market that is disabled.
StillThat(b, c) ==
  b.account_flags # {} =>
    /\ c.market = b.market /\ c.owner = b.owner
    /\ \/ c.account_flags = b.account_flags
       \/ /\ "Market" \in b.account_flags
          /\ c.account_flags = b.account_flags \cup {"Disabled"}

Kept == \A a \in Addresses : StillThat(account[a], account'[a])

\* An account that gets into use becomes an OpenOrders account.
Fresh(b, c) ==
  b.account_flags = {} => c.account_flags \in {{}, {"Initialized", "OpenOrders"}}

Quiet ==
  /\ Kept
  /\ \A a \in Addresses : Fresh(account[a], account'[a])
  /\ \A a \in Addresses : Layout(a)' = Layout(a)

Lists == {"req_q", "event_q", "bids", "asks"}

Orders(m, oo) == Has(oo, "OpenOrders") /\ account[oo].market = m

\* What a step adds to the names of an account are accounts of the market.
GoodNames ==
  \A m \in Markets, r \in Lists :
    \A oo \in account'[Layout(m)[r]].names :
      oo \in account[Layout(m)[r]].names \/ Orders(m, oo)'

RolesOf(m) ==
  \A r \in DOMAIN Role :
    LET a == Layout(m)[r]
    IN  /\ account[a].market = m
        /\ Role[r] \in account[a].account_flags \/ (r = "bids" /\ a = Layout(m).asks)
        /\ \A s \in DOMAIN Role :
             a = Layout(m)[s] => r = s \/ {r, s} = {"bids", "asks"}

\* The accounts of a market are in use.
LEMMA RolesUsed ==
  ASSUME OneRoleEach, NEW m \in Markets, NEW r \in DOMAIN Role
  PROVE  /\ account[Layout(m)[r]].account_flags # {}
         /\ account[Layout(m)[r]].market = m
<1>1. RolesOf(m) /\ "asks" \in DOMAIN Role
  BY DEF OneRoleEach, RolesOf, Role
<1>2. Role["asks"] \in account[Layout(m)["asks"]].account_flags
  BY <1>1, Zenon DEF RolesOf
<1>3. account[Layout(m)[r]].market = m
  BY <1>1, Zenon DEF RolesOf
<1>4. \/ Role[r] \in account[Layout(m)[r]].account_flags
      \/ Layout(m)[r] = Layout(m)["asks"]
  BY <1>1 DEF RolesOf
<1> QED BY <1>2, <1>3, <1>4

\* A market whose listing stays keeps its accounts in their roles.
LEMMA RolesKept ==
  ASSUME TypeOK, OneRoleEach, Kept, NEW m \in Markets, Layout(m)' = Layout(m)
  PROVE  RolesOf(m)'
<1> DEFINE l == Layout(m)
<1>1. l \in Layouts
  BY ListingOf
<1>2. RolesOf(m)
  BY DEF OneRoleEach, RolesOf
<1> SUFFICES ASSUME NEW r \in DOMAIN Role
             PROVE  /\ account'[l[r]].market = m
                    /\ Role[r] \in account'[l[r]].account_flags
                         \/ (r = "bids" /\ l[r] = l.asks)
                    /\ \A s \in DOMAIN Role :
                         l[r] = l[s] => r = s \/ {r, s} = {"bids", "asks"}
  BY DEF RolesOf
<1> DEFINE a == l[r]
<1>3. a \in Addresses
  BY <1>1, ListingFields
<1>4. account[a].account_flags # {} /\ account[a].market = m
  BY RolesUsed
<1>5. StillThat(account[a], account'[a])
  BY <1>3 DEF Kept
<1>6. /\ account'[a].market = m
      /\ \A f \in account[a].account_flags : f \in account'[a].account_flags
  <2> HIDE DEF a
  <2> QED BY <1>4, <1>5 DEF StillThat
<1>7. Role[r] \in account[a].account_flags \/ (r = "bids" /\ a = l.asks)
  BY <1>2 DEF RolesOf
<1>8. \A s \in DOMAIN Role : a = l[s] => r = s \/ {r, s} = {"bids", "asks"}
  BY <1>2 DEF RolesOf
<1> QED BY <1>6, <1>7, <1>8

\* An OpenOrders account stays one of its market.
LEMMA OrdersKept ==
  ASSUME Kept, NEW m, NEW oo \in Addresses, Orders(m, oo)
  PROVE  Orders(m, oo)'
<1>1. StillThat(account[oo], account'[oo])
  BY DEF Kept
<1>2. /\ account[oo].account_flags = {"Initialized", "OpenOrders"}
      /\ account[oo].market = m
  BY DEF Orders, Has
<1>3. /\ account'[oo].account_flags = {"Initialized", "OpenOrders"}
      /\ account'[oo].market = m
  BY <1>1, <1>2 DEF StillThat
<1> QED BY <1>3 DEF Orders, Has

\* What the accounts of a market name.
LEMMA NamesOf ==
  ASSUME TypeOK, NEW m \in Markets, NEW r \in Lists
  PROVE  /\ Layout(m)[r] \in Addresses
         /\ account[Layout(m)[r]].names \in SUBSET Addresses
         /\ NamedOwnersLoad =>
              \A oo \in account[Layout(m)[r]].names : Orders(m, oo)
<1>1. Layout(m)[r] \in Addresses
  BY ListingOf, ListingFields DEF Lists, Role
<1>2. account[Layout(m)[r]] \in AccountRec
  BY <1>1 DEF TypeOK
<1>3. ASSUME NamedOwnersLoad, NEW oo \in account[Layout(m)[r]].names
      PROVE  Orders(m, oo)
  BY <1>3 DEF NamedOwnersLoad, Orders, Lists
<1> QED BY <1>1, <1>2, <1>3, AccountFields

\* Such a step keeps the listings, the roles and the names.
LEMMA QuietKeeps ==
  ASSUME AInv, Quiet, GoodNames
  PROVE  Listed' /\ OneRoleEach' /\ NamedOwnersLoad' /\ Markets' = Markets
<1>1. Markets' = Markets
  BY DEF Quiet, Markets
<1>2. Listed'
  <2> SUFFICES ASSUME NEW m \in Addresses
               PROVE  /\ "Market" \in account'[m].account_flags => m \in Markets
                      /\ m \in Markets => Layout(m).market = m /\ Checked(Layout(m))
    BY <1>1 DEF Listed, Quiet
  <2>1. /\ "Market" \in account[m].account_flags => m \in Markets
        /\ m \in Markets => Layout(m).market = m /\ Checked(Layout(m))
    BY DEF AInv, Listed
  <2>2. StillThat(account[m], account'[m]) /\ Fresh(account[m], account'[m])
    BY DEF Quiet, Kept
  <2>3. "Market" \in account'[m].account_flags => "Market" \in account[m].account_flags
    BY <2>2 DEF StillThat, Fresh
  <2> QED BY <2>1, <2>3
<1>3. OneRoleEach'
  <2>1. \A m \in Markets : RolesOf(m)'
    <3> TAKE m \in Markets
    <3>1. m \in Addresses
      BY DEF Markets
    <3> QED BY <3>1, RolesKept DEF AInv, Quiet
  <2> QED BY <1>1, <2>1 DEF OneRoleEach, RolesOf
<1>4. NamedOwnersLoad'
  <2> SUFFICES ASSUME NEW m \in Markets, NEW r \in Lists,
                      NEW oo \in account'[Layout(m)[r]].names
               PROVE  Orders(m, oo)'
    <3>1. \A m \in Markets : Layout(m)' = Layout(m)
      BY DEF Markets, Quiet
    <3> QED BY <1>1, <3>1 DEF NamedOwnersLoad, Orders, Lists
  <2>1. CASE oo \in account[Layout(m)[r]].names
    <3>1. oo \in Addresses /\ Orders(m, oo)
      BY <2>1, NamesOf DEF AInv
    <3> QED BY <3>1, OrdersKept DEF Quiet
  <2>2. CASE oo \notin account[Layout(m)[r]].names
    BY <2>2 DEF GoodNames
  <2> QED BY <2>1, <2>2
<1> QED BY <1>1, <1>2, <1>3, <1>4

-----------------------------------------------------------------------------
(* The accounts an instruction is given                                    *)

\* A market that loads is listed.
LEMMA Loaded ==
  ASSUME AInv, NEW m \in Addresses, MarketLoads(m)
  PROVE  /\ m \in Markets /\ Layout(m) \in Layouts /\ Layout(m).market = m
         /\ Checked(Layout(m)) /\ market[m] \in MarketRec
         /\ account[m] \in AccountRec
<1>1. "Market" \in account[m].account_flags
  BY DEF MarketLoads, Has
<1>2. m \in Markets
  BY <1>1 DEF AInv, Listed
<1>3. Layout(m).market = m /\ Checked(Layout(m))
  BY <1>2 DEF AInv, Listed
<1>4. account[m] \in AccountRec
  BY DEF AInv, TypeOK
<1> QED BY <1>2, <1>3, <1>4, ListingOf DEF AInv

\* An account with other names is another account of the same kind.
LEMMA Renamed ==
  ASSUME NEW b \in AccountRec, NEW N \in SUBSET Addresses
  PROVE  /\ [b EXCEPT !.names = N] \in AccountRec
         /\ [b EXCEPT !.names = N].names = N
         /\ StillThat(b, [b EXCEPT !.names = N])
         /\ Fresh(b, [b EXCEPT !.names = N])
<1> DEFINE c == [b EXCEPT !.names = N]
<1>1. /\ c \in AccountRec /\ c.names = N /\ c.account_flags = b.account_flags
      /\ c.market = b.market /\ c.owner = b.owner
  BY DEF AccountRec
<1> HIDE DEF c
<1>2. StillThat(b, c) /\ Fresh(b, c)
  BY <1>1 DEF StillThat, Fresh
<1> QED BY <1>1, <1>2 DEF c

OrdersOf(m, oo, loaded) ==
  /\ loaded \in AccountRec
  /\ loaded.account_flags = {"Initialized", "OpenOrders"}
  /\ loaded.market = m
  /\ StillThat(account[oo], loaded) /\ Fresh(account[oo], loaded)
  /\ loaded.names \in {account[oo].names, {}}

\* What load_orders_mut makes of an account.
LEMMA OrdersLoaded ==
  ASSUME TypeOK, NEW m \in Addresses, NEW oo \in Addresses,
         NEW owner \in Users \cup {Nobody}, NEW init, OrdersLoad(m, oo, owner, init)
  PROVE  /\ OrdersOf(m, oo, LoadedOrders(m, oo, owner))
         /\ init = FALSE => LoadedOrders(m, oo, owner) = account[oo]
<1> DEFINE loaded == LoadedOrders(m, oo, owner)
           new == [Zeroed EXCEPT !.account_flags = {"Initialized", "OpenOrders"},
                                 !.market = m, !.owner = owner]
<1>1. new \in AccountRec /\ new.names = {}
  BY DEF AccountRec, AccountFlag, Zeroed
<1>2. /\ loaded.account_flags = {"Initialized", "OpenOrders"} /\ loaded.market = m
      /\ NeedsInit(oo) => init
  BY DEF OrdersLoad
<1>3. account[oo] \in AccountRec
  BY DEF TypeOK
<1>4. loaded = IF NeedsInit(oo) THEN new ELSE account[oo]
  BY DEF LoadedOrders
<1> HIDE DEF loaded, new
<1>5. CASE NeedsInit(oo)
  <2>1. loaded = new /\ account[oo].account_flags = {}
    BY <1>4, <1>5 DEF NeedsInit
  <2>2. StillThat(account[oo], loaded) /\ Fresh(account[oo], loaded)
    BY <1>2, <2>1 DEF StillThat, Fresh
  <2> QED BY <1>1, <1>2, <1>5, <2>1, <2>2 DEF loaded, OrdersOf
<1>6. CASE ~NeedsInit(oo)
  <2>1. loaded = account[oo] /\ account[oo].account_flags # {}
    BY <1>4, <1>6 DEF NeedsInit
  <2>2. StillThat(account[oo], loaded) /\ Fresh(account[oo], loaded)
    BY <2>1 DEF StillThat, Fresh
  <2> QED BY <1>2, <1>3, <2>1, <2>2 DEF loaded, OrdersOf
<1> QED BY <1>5, <1>6

-----------------------------------------------------------------------------
(* Instructions that only name accounts                                    *)

\* What such an instruction does to the accounts.
AccountsQuiet ==
  /\ account' \in [Addresses -> AccountRec]
  /\ Kept /\ (\A a \in Addresses : Fresh(account[a], account'[a]))
  /\ GoodNames

LEMMA RequestQuiet ==
  ASSUME AInv, NEW m \in Addresses, MarketLoads(m), NEW oo \in Addresses,
         NEW owner \in Users \cup {Nobody}, NEW init, OrdersLoad(m, oo, owner, init),
         Request(m, oo, LoadedOrders(m, oo, owner))
  PROVE  AccountsQuiet
<1> DEFINE loaded == LoadedOrders(m, oo, owner)
           q == Layout(m).req_q
           N == account[q].names \union {oo}
           queue == [account[q] EXCEPT !.names = N]
<1>1. /\ m \in Markets /\ Layout(m) \in Layouts /\ q \in Addresses
      /\ account \in [Addresses -> AccountRec] /\ account[q] \in AccountRec
      /\ account[oo] \in AccountRec
  BY Loaded, ListingFields DEF AInv, TypeOK
<1>2. /\ loaded \in AccountRec
      /\ loaded.account_flags = {"Initialized", "OpenOrders"} /\ loaded.market = m
      /\ StillThat(account[oo], loaded) /\ Fresh(account[oo], loaded)
      /\ loaded.names \in {account[oo].names, {}}
  <2>1. TypeOK
    BY DEF AInv
  <2>2. OrdersOf(m, oo, loaded)
    BY <2>1, OrdersLoaded
  <2> QED BY <2>2 DEF OrdersOf
<1>3. N \in SUBSET Addresses
  <2> HIDE DEF q
  <2> QED BY <1>1, AccountFields
<1>4. /\ queue \in AccountRec /\ queue.names = N
      /\ StillThat(account[q], queue) /\ Fresh(account[q], queue)
  <2> HIDE DEF N, q
  <2> QED BY <1>1, <1>3, Renamed
<1>5. oo # q /\ account' = [account EXCEPT ![oo] = loaded, ![q] = queue]
  <2>1. oo # q /\ account' = [account EXCEPT ![oo] = loaded, ![q].names = @ \union {oo}]
    BY DEF Request
  <2> HIDE DEF loaded, q
  <2> QED BY <1>1, <2>1
<1> HIDE DEF loaded, q, queue
<1>6. \A a \in Addresses :
        account'[a] = IF a = oo THEN loaded ELSE IF a = q THEN queue ELSE account[a]
  BY <1>1, <1>5
<1>7. account' \in [Addresses -> AccountRec]
  BY <1>1, <1>2, <1>4, <1>5
<1>8. Kept /\ \A a \in Addresses : Fresh(account[a], account'[a])
  BY <1>2, <1>4, <1>6 DEF Kept, StillThat, Fresh
<1>9. Orders(m, oo)'
  BY <1>2, <1>6 DEF Orders, Has
<1>10. GoodNames
  <2> SUFFICES ASSUME NEW n \in Markets, NEW r \in Lists,
                      NEW x \in account'[Layout(n)[r]].names,
                      x \notin account[Layout(n)[r]].names
               PROVE  Orders(n, x)'
    BY DEF GoodNames
  <2>1. Layout(n)[r] \in Addresses /\ r \in DOMAIN Role
    BY NamesOf DEF AInv, Lists, Role
  <2>2. Layout(n)[r] = q /\ x = oo
    <3> DEFINE b == Layout(n)[r]
    <3> HIDE DEF b
    <3>1. b = oo => account'[b].names \in {account[b].names, {}}
      BY <1>2, <1>6, <2>1 DEF b
    <3>2. b = q /\ b # oo
      BY <1>6, <2>1, <3>1 DEF b
    <3>3. account'[b].names = N /\ account[b].names = account[q].names
      BY <1>4, <1>6, <2>1, <3>2 DEF b
    <3> QED BY <3>2, <3>3 DEF b
  <2>3. account[q].market = n
    BY <2>1, <2>2, RolesUsed DEF AInv
  <2>4. account[q].market = m
    BY <1>1, RolesUsed DEF AInv, Role, q
  <2> QED BY <1>9, <2>2, <2>3, <2>4
<1> QED BY <1>7, <1>8, <1>10 DEF AccountsQuiet

LEMMA MatchQuiet ==
  ASSUME AInv, NEW m \in Addresses, NEW oo \in Addresses, MatchOrders(m, oo)
  PROVE  AccountsQuiet
<1> DEFINE l == Layout(m)
           Names(a) == account[a].names
           Given == Names(l.req_q) \union Names(l.bids) \union Names(l.asks)
<1>1. /\ MarketLoads(m) /\ oo \in Given
  BY DEF MatchOrders
<1>2. /\ m \in Markets /\ l \in Layouts /\ account \in [Addresses -> AccountRec]
      /\ l.req_q \in Addresses /\ l.event_q \in Addresses
      /\ l.bids \in Addresses /\ l.asks \in Addresses
  BY <1>1, Loaded, ListingFields DEF AInv, TypeOK
<1>3. PICK left \in {Names(l.req_q), Names(l.req_q) \ {oo}},
           ended \in {Names(l.event_q), Names(l.event_q) \union {oo}},
           bids \in {Names(l.bids), Names(l.bids) \ {oo}, Names(l.bids) \union {oo}},
           asks \in {Names(l.asks), Names(l.asks) \ {oo}, Names(l.asks) \union {oo}} :
        account' = [account EXCEPT
             ![l.req_q].names = left, ![l.event_q].names = ended,
             ![l.bids].names = bids, ![l.asks].names = asks]
  BY Zenon DEF MatchOrders
<1>4. Orders(m, oo)
  <2>1. l["req_q"] = l.req_q /\ l["bids"] = l.bids /\ l["asks"] = l.asks
    OBVIOUS
  <2>2. PICK r \in {"req_q", "bids", "asks"} : oo \in account[l[r]].names
    BY <1>1, <2>1
  <2>3. r \in Lists
    BY DEF Lists
  <2> QED BY <1>2, <2>2, <2>3, NamesOf DEF AInv
<1> DEFINE a1 == [account EXCEPT ![l.req_q].names = left]
           a2 == [a1 EXCEPT ![l.event_q].names = ended]
           a3 == [a2 EXCEPT ![l.bids].names = bids]
           Named(f) ==
             /\ f \in [Addresses -> AccountRec]
             /\ \A a \in Addresses :
                  /\ f[a].account_flags = account[a].account_flags
                  /\ f[a].market = account[a].market
                  /\ f[a].owner = account[a].owner
                  /\ f[a].names \subseteq account[a].names \union {oo}
<1>5. ASSUME NEW f, Named(f), NEW x \in Addresses,
             NEW N, N \subseteq account[x].names \union {oo}
      PROVE  Named([f EXCEPT ![x].names = N])
  <2> DEFINE c == [f[x] EXCEPT !.names = N]
             g == [f EXCEPT ![x] = c]
  <2>1. f[x] \in AccountRec /\ N \in SUBSET Addresses
    BY <1>2, <1>5, AccountFields
  <2>2. /\ c \in AccountRec /\ c.names = N
        /\ c.account_flags = f[x].account_flags
        /\ c.market = f[x].market /\ c.owner = f[x].owner
    BY <2>1 DEF AccountRec
  <2>3. [f EXCEPT ![x].names = N] = g
    OBVIOUS
  <2> HIDE DEF c
  <2>4. g \in [Addresses -> AccountRec] /\ \A a \in Addresses : g[a] = IF a = x THEN c ELSE f[a]
    BY <1>5, <2>2
  <2> HIDE DEF g
  <2>5. Named(g)
    BY <1>5, <2>2, <2>4
  <2> QED BY <2>3, <2>5
<1>6. Named(account')
  <2> HIDE DEF Named
  <2>1. Named(account)
    BY <1>2 DEF Named
  <2>2. Named(a1)
    BY <1>2, <1>3, <1>5, <2>1
  <2>3. Named(a2)
    BY <1>2, <1>3, <1>5, <2>2
  <2>4. Named(a3)
    BY <1>2, <1>3, <1>5, <2>3
  <2>5. Named([a3 EXCEPT ![l.asks].names = asks])
    <3> HIDE DEF a3
    <3> QED BY <1>2, <1>3, <1>5, <2>4
  <2> QED BY <1>3, <2>5
<1> HIDE DEF Given
<1>7. Kept /\ \A a \in Addresses : Fresh(account[a], account'[a])
  BY <1>6 DEF Kept, StillThat, Fresh
<1>8. GoodNames
  <2> SUFFICES ASSUME NEW n \in Markets, NEW r \in Lists,
                      NEW x \in account'[Layout(n)[r]].names,
                      x \notin account[Layout(n)[r]].names
               PROVE  Orders(n, x)'
    BY DEF GoodNames
  <2> DEFINE q == Layout(n)[r]
  <2>1. q \in Addresses /\ r \in DOMAIN Role
    BY NamesOf DEF AInv, Lists, Role
  <2> HIDE DEF q
  <2>2. x = oo /\ account'[q].names # account[q].names
    BY <1>6, <2>1 DEF q
  <2>3. q \in {l.req_q, l.event_q, l.bids, l.asks}
    BY <1>2, <1>3, <2>1, <2>2
  <2>4. \A s \in {"req_q", "event_q", "bids", "asks"} :
          s \in DOMAIN Role /\ account[l[s]].market = m
    BY <1>2, RolesUsed DEF AInv, Role
  <2>5. account[q].market = m
    BY <2>3, <2>4
  <2>6. account[q].market = n
    BY <2>1, RolesUsed DEF AInv, q
  <2>7. oo \in Addresses /\ Orders(m, oo)'
    BY <1>4, <1>7, OrdersKept
  <2> QED BY <2>2, <2>5, <2>6, <2>7
<1> QED BY <1>6, <1>7, <1>8 DEF AccountsQuiet

LEMMA ConsumeQuiet ==
  ASSUME AInv, NEW m \in Addresses, NEW oo \in Addresses, ConsumeEvents(m, oo)
  PROVE  AccountsQuiet
<1> DEFINE q == Layout(m).event_q
           N == account[q].names \ {oo}
           queue == [account[q] EXCEPT !.names = N]
<1>1. MarketLoads(m) /\ account' = [account EXCEPT ![q] = queue]
  BY DEF ConsumeEvents
<1>2. /\ m \in Markets /\ q \in Addresses
      /\ account \in [Addresses -> AccountRec] /\ account[q] \in AccountRec
  BY <1>1, Loaded, ListingFields DEF AInv, TypeOK
<1>3. N \in SUBSET Addresses
  <2> HIDE DEF q
  <2> QED BY <1>2, AccountFields
<1>4. /\ queue \in AccountRec /\ queue.names = N
      /\ StillThat(account[q], queue) /\ Fresh(account[q], queue)
  <2> HIDE DEF N, q
  <2> QED BY <1>2, <1>3, Renamed
<1> HIDE DEF q, queue
<1>5. \A a \in Addresses : account'[a] = IF a = q THEN queue ELSE account[a]
  BY <1>1, <1>2
<1>6. account' \in [Addresses -> AccountRec]
  BY <1>1, <1>2, <1>4
<1>7. Kept /\ \A a \in Addresses : Fresh(account[a], account'[a])
  BY <1>4, <1>5 DEF Kept, StillThat, Fresh
<1>8. \A a \in Addresses : account'[a].names \subseteq account[a].names
  BY <1>4, <1>5
<1>9. GoodNames
  BY <1>8, NamesOf DEF GoodNames, AInv
<1> QED BY <1>6, <1>7, <1>9 DEF AccountsQuiet

LEMMA DisableQuiet ==
  ASSUME AInv, NEW m \in Addresses, DisableMarket(m)
  PROVE  AccountsQuiet
<1> DEFINE flags == account[m].account_flags \union {"Disabled"}
           off == [account[m] EXCEPT !.account_flags = flags]
<1>1. MarketLoads(m) /\ account' = [account EXCEPT ![m] = off]
  BY DEF DisableMarket
<1>2. account \in [Addresses -> AccountRec] /\ account[m] \in AccountRec
  BY DEF AInv, TypeOK
<1>3. "Market" \in account[m].account_flags /\ flags \in SUBSET AccountFlag
  BY <1>1, <1>2, AccountFields DEF MarketLoads, Has, AccountFlag
<1>4. /\ off \in AccountRec /\ off.account_flags = flags
      /\ off.market = account[m].market /\ off.owner = account[m].owner
      /\ off.names = account[m].names
  <2> HIDE DEF flags
  <2> QED BY <1>2, <1>3 DEF AccountRec
<1> HIDE DEF off
<1>5. \A a \in Addresses : account'[a] = IF a = m THEN off ELSE account[a]
  BY <1>1, <1>2
<1>6. account' \in [Addresses -> AccountRec]
  BY <1>1, <1>2, <1>4
<1>7. Kept /\ \A a \in Addresses : Fresh(account[a], account'[a])
  BY <1>3, <1>4, <1>5 DEF Kept, StillThat, Fresh
<1>8. \A a \in Addresses : account'[a].names = account[a].names
  BY <1>4, <1>5
<1>9. GoodNames
  BY <1>8, NamesOf DEF GoodNames, AInv
<1> QED BY <1>6, <1>7, <1>9 DEF AccountsQuiet

-----------------------------------------------------------------------------
(* Instructions that move funds                                            *)

\* What a market with listing l owes is in its vaults.
Pays(l, owed, funds) ==
  IF l.coin_vault = l.pc_vault
  THEN funds[l.coin_vault] >= owed["coin"] + owed["pc"]
  ELSE funds[l.coin_vault] >= owed["coin"] /\ funds[l.pc_vault] >= owed["pc"]

\* Only users and the market with listing l lose tokens.
OthersKeep(l, funds, after) ==
  \A t \in Tokens :
    \/ TokenOwner[t] \in Users
    \/ t \in {l.coin_vault, l.pc_vault}
    \/ after[t] >= funds[t]

\* What a transfer does to each balance.
Transferred(funds, after, from, to, amount) ==
  /\ \A t \in Tokens :
       /\ after[t] \in Int /\ after[t] >= funds[t] - amount
       /\ t # from => after[t] >= funds[t]
       /\ t # from /\ t = to => after[t] = funds[t] + amount
  /\ after[from] >= 0 => after \in [Tokens -> Nat]

LEMMA MovedFunds ==
  ASSUME NEW funds \in [Tokens -> Nat], NEW from \in Tokens, NEW to \in Tokens,
         NEW amount \in Nat
  PROVE  Transferred(funds, Move(funds, from, to, amount), from, to, amount)
  BY DEF Move, Transferred

\* Market m owes something else and its vaults pay for it.
LEMMA Paid ==
  ASSUME AInv, NEW m \in Addresses, m \in Markets, NEW o \in [Currency -> Nat],
         market' = [market EXCEPT ![m].owed = o],
         balance' \in [Tokens -> Nat], OthersKeep(Layout(m), balance, balance'),
         Pays(Layout(m), o, balance')
  PROVE  /\ market' \in [Addresses -> MarketRec]
         /\ \A a \in Addresses : Layout(a)' = Layout(a)
         /\ Solvent'
<1> DEFINE rec == [market[m] EXCEPT !.owed = o]
<1>1. market \in [Addresses -> MarketRec] /\ balance \in [Tokens -> Nat]
  BY DEF AInv, TypeOK
<1>2. rec \in MarketRec /\ rec.layout = market[m].layout /\ rec.owed = o
  BY <1>1 DEF MarketRec
<1>3. market' = [market EXCEPT ![m] = rec]
  OBVIOUS
<1> HIDE DEF rec
<1>4. \A a \in Addresses : market'[a] = IF a = m THEN rec ELSE market[a]
  BY <1>1, <1>3
<1>5. \A a \in Addresses : Layout(a)' = Layout(a)
  BY <1>2, <1>4 DEF Layout
<1>6. Markets' = Markets
  BY <1>5 DEF Markets
<1>7. Solvent'
  <2> SUFFICES ASSUME NEW n \in Markets
               PROVE  Pays(Layout(n), market'[n].owed, balance')
    BY <1>5, <1>6 DEF Solvent, Pays, Markets
  <2>1. CASE n = m
    BY <1>2, <1>4, <2>1
  <2>2. CASE n # m
    <3> DEFINE l == Layout(n)
               k == Layout(m)
    <3>1. n \in Addresses /\ l \in Layouts /\ market[n] \in MarketRec /\ k \in Layouts
      BY ListingOf DEF AInv
    <3>2. /\ l.market = n /\ Checked(l) /\ k.market = m /\ Checked(k)
      BY <3>1 DEF AInv, Listed
    <3>3. market'[n] = market[n] /\ Pays(l, market[n].owed, balance)
      BY <1>4, <2>2, <3>1 DEF AInv, Solvent, Pays
    <3> HIDE DEF l, k
    <3>4. \A v \in {l.coin_vault, l.pc_vault} :
            v \in Tokens /\ TokenOwner[v] \notin Users /\ v \notin {k.coin_vault, k.pc_vault}
      BY <2>2, <3>1, <3>2, VaultsOwned, VaultsApart
    <3>5. \A v \in {l.coin_vault, l.pc_vault} :
            balance[v] \in Nat /\ balance'[v] \in Nat /\ balance'[v] >= balance[v]
      BY <1>1, <3>4 DEF OthersKeep, k
    <3>6. market[n].owed["coin"] \in Nat /\ market[n].owed["pc"] \in Nat
      BY <3>1, MarketFields
    <3>7. Pays(l, market[n].owed, balance')
      BY <3>3, <3>5, <3>6 DEF Pays
    <3> QED BY <3>3, <3>7 DEF l
  <2> QED BY <2>1, <2>2
<1>8. market' \in [Addresses -> MarketRec]
  BY <1>1, <1>2, <1>3
<1> QED BY <1>5, <1>7, <1>8

\* The market an instruction is sent to, its vaults and what it owes.
LEMMA MarketFunds ==
  ASSUME AInv, NEW m \in Addresses, MarketLoads(m)
  PROVE  LET l == Layout(m)
         IN  /\ l.coin_vault \in Tokens /\ l.pc_vault \in Tokens
             /\ TokenOwner[l.coin_vault] \notin Users
             /\ TokenOwner[l.pc_vault] \notin Users
             /\ vault(m)["coin"] = l.coin_vault /\ vault(m)["pc"] = l.pc_vault
             /\ market[m].owed \in [Currency -> Nat]
             /\ market[m].owed["coin"] \in Nat /\ market[m].owed["pc"] \in Nat
             /\ Pays(l, market[m].owed, balance)
<1>1. /\ m \in Markets /\ Layout(m) \in Layouts /\ Checked(Layout(m))
      /\ market[m] \in MarketRec
  BY Loaded
<1>2. Pays(Layout(m), market[m].owed, balance)
  BY <1>1 DEF AInv, Solvent, Pays
<1>3. vault(m)["coin"] = Layout(m).coin_vault /\ vault(m)["pc"] = Layout(m).pc_vault
  BY DEF vault
<1> QED BY <1>1, <1>2, <1>3, VaultsOwned, MarketFields

MoneyOK ==
  /\ market' \in [Addresses -> MarketRec] /\ balance' \in [Tokens -> Nat]
  /\ \A a \in Addresses : Layout(a)' = Layout(a)
  /\ Solvent'

LEMMA NewOrderPays ==
  ASSUME AInv, NEW m \in Addresses, NEW oo \in Addresses, NEW owner \in Users,
         NewOrder(m, oo, owner)
  PROVE  MoneyOK
<1> DEFINE l == Layout(m)
           owed == market[m].owed
<1>1. MarketLoads(m)
  BY DEF NewOrder
<1>2. PICK currency \in Currency, payer \in Tokens :
        /\ TokenOwner[payer] = owner
        /\ \E amount \in 0 .. balance[payer] :
             /\ market' = [market EXCEPT ![m].owed[currency] = @ + amount]
             /\ balance' = Move(balance, payer, vault(m)[currency], amount)
  BY DEF NewOrder
<1>3. PICK amount \in 0 .. balance[payer] :
        /\ market' = [market EXCEPT ![m].owed[currency] = @ + amount]
        /\ balance' = Move(balance, payer, vault(m)[currency], amount)
  BY <1>2
<1>4. /\ l.coin_vault \in Tokens /\ l.pc_vault \in Tokens
      /\ TokenOwner[l.coin_vault] \notin Users /\ TokenOwner[l.pc_vault] \notin Users
      /\ vault(m)["coin"] = l.coin_vault /\ vault(m)["pc"] = l.pc_vault
      /\ owed \in [Currency -> Nat] /\ owed["coin"] \in Nat /\ owed["pc"] \in Nat
      /\ Pays(l, owed, balance)
  BY <1>1, MarketFunds
<1>5. balance \in [Tokens -> Nat] /\ balance[payer] \in Nat /\ amount \in Nat
      /\ amount <= balance[payer] /\ market \in [Addresses -> MarketRec]
  BY <1>3 DEF AInv, TypeOK
<1> DEFINE v == vault(m)[currency]
           o == [owed EXCEPT ![currency] = owed[currency] + amount]
<1>6. market' = [market EXCEPT ![m].owed = o]
  BY <1>3
<1>7. v = (IF currency = "coin" THEN l.coin_vault ELSE l.pc_vault) /\ v \in Tokens
  BY <1>4 DEF Currency
<1>8. payer # l.coin_vault /\ payer # l.pc_vault
  BY <1>2, <1>4
<1> HIDE DEF l, v
<1>9. /\ o \in [Currency -> Nat]
      /\ o["coin"] = owed["coin"] + (IF currency = "coin" THEN amount ELSE 0)
      /\ o["pc"] = owed["pc"] + (IF currency = "pc" THEN amount ELSE 0)
  <2> HIDE DEF owed
  <2> QED BY <1>4, <1>5 DEF Currency
<1>10. Transferred(balance, balance', payer, v, amount)
  <2>1. Transferred(balance, Move(balance, payer, v, amount), payer, v, amount)
    BY <1>5, <1>7, MovedFunds
  <2> QED BY <1>3, <2>1 DEF v
<1>11. balance' \in [Tokens -> Nat]
  <2>1. balance'[payer] >= balance[payer] - amount /\ balance'[payer] \in Int
    BY <1>10 DEF Transferred
  <2>2. balance'[payer] >= 0
    BY <1>5, <2>1
  <2> QED BY <1>10, <2>2 DEF Transferred
<1>12. OthersKeep(l, balance, balance')
  BY <1>2, <1>10 DEF OthersKeep, Transferred
<1> HIDE DEF o, owed
<1>13. Pays(l, o, balance')
  <2>1. balance[l.coin_vault] \in Nat /\ balance[l.pc_vault] \in Nat
    BY <1>4, <1>5
  <2>2. /\ balance'[l.coin_vault] >= balance[l.coin_vault]
        /\ balance'[l.coin_vault] \in Int
        /\ v = l.coin_vault => balance'[l.coin_vault] = balance[l.coin_vault] + amount
    BY <1>4, <1>8, <1>10 DEF Transferred
  <2>3. /\ balance'[l.pc_vault] >= balance[l.pc_vault] /\ balance'[l.pc_vault] \in Int
        /\ v = l.pc_vault => balance'[l.pc_vault] = balance[l.pc_vault] + amount
    BY <1>4, <1>8, <1>10 DEF Transferred
  <2> QED BY <1>4, <1>5, <1>7, <1>9, <2>1, <2>2, <2>3 DEF Pays, Currency
<1>14. m \in Markets
  BY <1>1, Loaded
<1> QED BY <1>6, <1>9, <1>11, <1>12, <1>13, <1>14, Paid DEF MoneyOK, l

LEMMA SettlePays ==
  ASSUME AInv, NEW m \in Addresses, NEW oo \in Addresses, NEW owner \in Users,
         SettleFunds(m, oo, owner)
  PROVE  MoneyOK
<1> DEFINE l == Layout(m)
           owed == market[m].owed
           v == vault(m)
<1>1. MarketLoads(m)
  BY DEF SettleFunds
<1>2. PICK coin \in 0 .. market[m].owed.coin, pc \in 0 .. market[m].owed.pc,
           rebate \in 0 .. market[m].owed.pc,
           coin_wallet \in Wallets(m, "coin"), pc_wallet \in Wallets(m, "pc"),
           referrer \in Wallets(m, "pc") :
        LET moved == Move(Move(Move(balance, v.coin, coin_wallet, coin),
                               v.pc, pc_wallet, pc), v.pc, referrer, rebate)
        IN  /\ pc + rebate <= market[m].owed.pc
            /\ balance[v.coin] >= coin
            /\ Move(balance, v.coin, coin_wallet, coin)[v.pc] >= pc
            /\ moved[v.pc] >= 0
            /\ market' = [market EXCEPT ![m].owed.coin = @ - coin,
                                        ![m].owed.pc = @ - (pc + rebate)]
            /\ balance' = moved
  BY Zenon DEF SettleFunds
<1> DEFINE c == l.coin_vault
           p == l.pc_vault
           f1 == Move(balance, c, coin_wallet, coin)
           f2 == Move(f1, p, pc_wallet, pc)
           f3 == Move(f2, p, referrer, rebate)
<1>3. v.coin = c /\ v.pc = p
  BY DEF vault
<1>4. /\ c \in Tokens /\ p \in Tokens
      /\ owed \in [Currency -> Nat] /\ owed["coin"] \in Nat /\ owed["pc"] \in Nat
      /\ Pays(l, owed, balance)
  BY <1>1, MarketFunds
<1>5. /\ balance \in [Tokens -> Nat] /\ market \in [Addresses -> MarketRec]
      /\ coin_wallet \in Tokens /\ pc_wallet \in Tokens /\ referrer \in Tokens
  BY DEF AInv, TypeOK, Wallets
<1>6. coin \in Nat /\ pc \in Nat /\ rebate \in Nat
  BY <1>4
<1>7. /\ coin <= owed["coin"] /\ pc + rebate <= owed["pc"]
      /\ balance[c] >= coin /\ f1[p] >= pc /\ f3[p] >= 0
      /\ balance' = f3
  BY <1>2, <1>3
<1> DEFINE o == [owed EXCEPT !["coin"] = owed["coin"] - coin,
                             !["pc"] = owed["pc"] - (pc + rebate)]
<1>8. market' = [market EXCEPT ![m].owed = o]
  BY <1>2
<1>9. /\ o \in [Currency -> Nat] /\ o["coin"] = owed["coin"] - coin
      /\ o["pc"] = owed["pc"] - (pc + rebate)
  <2> HIDE DEF owed
  <2> QED BY <1>4, <1>6, <1>7 DEF Currency
<1> HIDE DEF l, owed, v, o
<1>10. Transferred(balance, f1, c, coin_wallet, coin) /\ f1 \in [Tokens -> Nat]
  <2>1. Transferred(balance, f1, c, coin_wallet, coin)
    <3> HIDE DEF c
    <3> QED BY <1>4, <1>5, <1>6, MovedFunds
  <2> HIDE DEF c, f1
  <2>2. f1[c] \in Int /\ f1[c] >= balance[c] - coin /\ balance[c] \in Nat
    BY <1>4, <1>5, <2>1 DEF Transferred
  <2>3. f1[c] >= 0
    BY <1>6, <1>7, <2>2
  <2> QED BY <2>1, <2>3 DEF Transferred
<1> HIDE DEF f1
<1>11. Transferred(f1, f2, p, pc_wallet, pc) /\ f2 \in [Tokens -> Nat]
  <2>1. Transferred(f1, f2, p, pc_wallet, pc)
    <3> HIDE DEF p
    <3> QED BY <1>4, <1>5, <1>6, <1>10, MovedFunds
  <2> HIDE DEF p, f2
  <2>2. f2[p] \in Int /\ f2[p] >= f1[p] - pc /\ f1[p] \in Nat
    BY <1>4, <1>10, <2>1 DEF Transferred
  <2>3. f2[p] >= 0
    BY <1>6, <1>7, <2>2
  <2> QED BY <2>1, <2>3 DEF Transferred
<1> HIDE DEF f2
<1>12. Transferred(f2, f3, p, referrer, rebate) /\ f3 \in [Tokens -> Nat]
  <2>1. Transferred(f2, f3, p, referrer, rebate)
    <3> HIDE DEF p
    <3> QED BY <1>4, <1>5, <1>6, <1>11, MovedFunds
  <2> QED BY <1>7, <2>1 DEF Transferred
<1> HIDE DEF f3, c, p
<1>13. OthersKeep(l, balance, f3)
  <2> SUFFICES ASSUME NEW t \in Tokens, t # c, t # p PROVE f3[t] >= balance[t]
    BY DEF OthersKeep, c, p
  <2>1. balance[t] \in Int /\ f1[t] \in Int /\ f2[t] \in Int /\ f3[t] \in Int
    BY <1>5, <1>10, <1>11, <1>12
  <2>2. f1[t] >= balance[t] /\ f2[t] >= f1[t] /\ f3[t] >= f2[t]
    BY <1>10, <1>11, <1>12 DEF Transferred
  <2> QED BY <2>1, <2>2
<1>14. Pays(l, o, f3)
  <2>1. /\ balance[c] \in Int /\ f1[c] \in Int /\ f2[c] \in Int /\ f3[c] \in Int
        /\ balance[p] \in Int /\ f1[p] \in Int /\ f2[p] \in Int /\ f3[p] \in Int
    BY <1>4, <1>5, <1>10, <1>11, <1>12
  <2>2. /\ f1[c] >= balance[c] - coin
        /\ c # p => f2[c] >= f1[c] /\ f3[c] >= f2[c] /\ f1[p] >= balance[p]
        /\ f2[p] >= f1[p] - pc /\ f3[p] >= f2[p] - rebate
    BY <1>4, <1>10, <1>11, <1>12 DEF Transferred
  <2>3. IF c = p THEN balance[c] >= owed["coin"] + owed["pc"]
                 ELSE balance[c] >= owed["coin"] /\ balance[p] >= owed["pc"]
    BY <1>4 DEF Pays, c, p
  <2>4. IF c = p THEN f3[c] >= o["coin"] + o["pc"]
                 ELSE f3[c] >= o["coin"] /\ f3[p] >= o["pc"]
    BY <1>4, <1>6, <1>9, <2>1, <2>2, <2>3
  <2> QED BY <2>4 DEF Pays, c, p
<1>15. m \in Markets
  BY <1>1, Loaded
<1> QED BY <1>7, <1>8, <1>9, <1>12, <1>13, <1>14, <1>15, Paid DEF MoneyOK, l

LEMMA SweepPays ==
  ASSUME AInv, NEW m \in Addresses, SweepFees(m)
  PROVE  MoneyOK
<1> DEFINE l == Layout(m)
           owed == market[m].owed
<1>1. MarketLoads(m)
  BY DEF SweepFees
<1>2. PICK wallet \in Wallets(m, "pc"), amount \in 0 .. market[m].owed.pc :
        /\ amount <= balance[vault(m).pc]
        /\ market' = [market EXCEPT ![m].owed.pc = @ - amount]
        /\ balance' = Move(balance, vault(m).pc, wallet, amount)
  BY DEF SweepFees
<1> DEFINE c == l.coin_vault
           p == l.pc_vault
           o == [owed EXCEPT !["pc"] = owed["pc"] - amount]
<1>3. vault(m).pc = p
  BY DEF vault
<1>4. /\ c \in Tokens /\ p \in Tokens
      /\ owed \in [Currency -> Nat] /\ owed["coin"] \in Nat /\ owed["pc"] \in Nat
      /\ Pays(l, owed, balance)
  BY <1>1, MarketFunds
<1>5. /\ balance \in [Tokens -> Nat] /\ wallet \in Tokens
      /\ amount \in Nat /\ amount <= owed["pc"] /\ amount <= balance[p]
  BY <1>2, <1>3, <1>4 DEF AInv, TypeOK, Wallets
<1>6. market' = [market EXCEPT ![m].owed = o]
  BY <1>2
<1>7. /\ o \in [Currency -> Nat] /\ o["coin"] = owed["coin"]
      /\ o["pc"] = owed["pc"] - amount
  <2> HIDE DEF owed
  <2> QED BY <1>4, <1>5 DEF Currency
<1> HIDE DEF l, owed, o, p, c
<1>8. Transferred(balance, balance', p, wallet, amount)
  BY <1>2, <1>3, <1>4, <1>5, MovedFunds
<1>9. balance'[p] \in Int /\ balance'[p] >= balance[p] - amount /\ balance[p] \in Nat
  BY <1>4, <1>5, <1>8 DEF Transferred
<1>10. balance' \in [Tokens -> Nat]
  <2>1. balance'[p] >= 0
    BY <1>5, <1>9
  <2> QED BY <1>8, <2>1 DEF Transferred
<1>11. OthersKeep(l, balance, balance')
  BY <1>8 DEF OthersKeep, Transferred, p
<1>12. Pays(l, o, balance')
  <2>1. IF c = p THEN balance[c] >= owed["coin"] + owed["pc"]
                 ELSE balance[c] >= owed["coin"] /\ balance[p] >= owed["pc"]
    BY <1>4 DEF Pays, c, p
  <2>2. /\ balance[c] \in Int /\ balance'[c] \in Int
        /\ c # p => balance'[c] >= balance[c]
    BY <1>4, <1>5, <1>8 DEF Transferred
  <2>3. IF c = p THEN balance'[c] >= o["coin"] + o["pc"]
                 ELSE balance'[c] >= o["coin"] /\ balance'[p] >= o["pc"]
    BY <1>4, <1>5, <1>7, <1>9, <2>1, <2>2
  <2> QED BY <2>3 DEF Pays, c, p
<1>13. m \in Markets
  BY <1>1, Loaded
<1> QED BY <1>6, <1>7, <1>10, <1>11, <1>12, <1>13, Paid DEF MoneyOK, l

-----------------------------------------------------------------------------
(* InitializeMarket                                                        *)

LEMMA HeaderType ==
  ASSUME NEW flag \in AccountFlag, NEW m \in Addresses
  PROVE  /\ Header(flag, m) \in AccountRec
         /\ Header(flag, m).account_flags = {"Initialized", flag}
         /\ Header(flag, m).market = m /\ Header(flag, m).names = {}
  BY DEF Header, Zeroed, AccountRec, AccountFlag

\* The accounts it writes were zeroed, and each gets a header.
LEMMA Initialized ==
  ASSUME AInv, NEW l \in Layouts, InitializeMarket(l)
  PROVE  /\ account' \in [Addresses -> AccountRec]
         /\ \A a \in Addresses :
              \/ account'[a] = account[a] /\ a \notin DexAccounts(l)
              \/ /\ account[a].account_flags = {} /\ a \in DexAccounts(l)
                 /\ account'[a].market = l.market /\ account'[a].names = {}
                 /\ "Market" \in account'[a].account_flags => a = l.market
         /\ \A r \in DOMAIN Role :
              "Initialized" \in account'[l[r]].account_flags
              /\ (Role[r] \in account'[l[r]].account_flags
                    \/ (r = "bids" /\ l[r] = l.asks))
<1> DEFINE m == l.market
           q == l.req_q
           e == l.event_q
           b == l.bids
           s == l.asks
           H1 == Header("RequestQueue", m)
           H2 == Header("EventQueue", m)
           H3 == Header("Bids", m)
           H4 == Header("Asks", m)
           H5 == Header("Market", m)
<1>1. /\ m \in Addresses /\ q \in Addresses /\ e \in Addresses
      /\ b \in Addresses /\ s \in Addresses
      /\ account \in [Addresses -> AccountRec]
  BY ListingFields DEF AInv, TypeOK
<1>2. /\ \A a \in {m, q, e, b, s} : account[a].account_flags = {}
      /\ account' = [account EXCEPT ![q] = H1, ![e] = H2, ![b] = H3, ![s] = H4, ![m] = H5]
      /\ Fit(l) /\ CanBorrow(l)
  BY DEF InitializeMarket, AreZeroed, DexAccounts
<1>3. /\ q # m /\ q # e /\ q # b /\ q # s /\ e # m /\ e # b /\ e # s
      /\ b # m /\ s # m
  BY <1>2 DEF Fit, CanBorrow
<1>4. /\ H1 \in AccountRec /\ H2 \in AccountRec /\ H3 \in AccountRec
      /\ H4 \in AccountRec /\ H5 \in AccountRec
      /\ H1.account_flags = {"Initialized", "RequestQueue"}
      /\ H2.account_flags = {"Initialized", "EventQueue"}
      /\ H3.account_flags = {"Initialized", "Bids"}
      /\ H4.account_flags = {"Initialized", "Asks"}
      /\ H5.account_flags = {"Initialized", "Market"}
      /\ \A H \in {H1, H2, H3, H4, H5} : H.market = m /\ H.names = {}
  <2>1. \A f \in {"RequestQueue", "EventQueue", "Bids", "Asks", "Market"} :
          f \in AccountFlag
    BY DEF AccountFlag
  <2> HIDE DEF m
  <2> QED BY <1>1, <2>1, HeaderType
<1>5. DexAccounts(l) = {m, q, e, b, s}
  BY DEF DexAccounts
<1>6. l["market"] = m /\ l["req_q"] = q /\ l["event_q"] = e /\ l["bids"] = b /\ l["asks"] = s
  OBVIOUS
<1> HIDE DEF m, q, e, b, s, H1, H2, H3, H4, H5
<1>7. \A a \in Addresses :
        account'[a] = IF a = m THEN H5 ELSE IF a = s THEN H4 ELSE IF a = b THEN H3
                      ELSE IF a = e THEN H2 ELSE IF a = q THEN H1 ELSE account[a]
  BY <1>1, <1>2
<1>8. account' \in [Addresses -> AccountRec]
  BY <1>1, <1>2, <1>4
<1>9. ASSUME NEW a \in Addresses
      PROVE  \/ account'[a] = account[a] /\ a \notin {m, q, e, b, s}
             \/ /\ account[a].account_flags = {} /\ a \in {m, q, e, b, s}
                /\ account'[a].market = m /\ account'[a].names = {}
                /\ "Market" \in account'[a].account_flags => a = m
  <2>1. CASE a \notin {m, q, e, b, s}
    BY <1>7, <2>1
  <2>2. CASE a = m
    BY <1>2, <1>4, <1>7, <2>2
  <2>3. CASE a # m /\ a \in {q, e, b, s}
    <3>1. account'[a] \in {H1, H2, H3, H4}
      BY <1>7, <2>3
    <3>2. \A H \in {H1, H2, H3, H4} : "Market" \notin H.account_flags
      BY <1>4
    <3> QED BY <1>2, <1>4, <2>3, <3>1, <3>2
  <2> QED BY <2>1, <2>2, <2>3
<1>10. /\ account'[m] = H5 /\ account'[q] = H1 /\ account'[e] = H2 /\ account'[s] = H4
       /\ b # s => account'[b] = H3
  BY <1>1, <1>3, <1>7
<1>11. ASSUME NEW r \in DOMAIN Role
       PROVE  "Initialized" \in account'[l[r]].account_flags
              /\ (Role[r] \in account'[l[r]].account_flags \/ (r = "bids" /\ l[r] = s))
  <2>1. r \in {"market", "req_q", "event_q", "bids", "asks"}
    BY DEF Role
  <2> QED BY <1>4, <1>6, <1>10, <2>1 DEF Role
<1> QED BY <1>5, <1>8, <1>9, <1>11 DEF m, s

LEMMA InitializeOK ==
  ASSUME AInv, NEW l \in Layouts, InitializeMarket(l)
  PROVE  AInv' /\ Kept /\ \A a \in Addresses :
           account[a].account_flags # {} => Layout(a)' = Layout(a)
<1> DEFINE m == l.market
           rec == [NoMarket EXCEPT !.layout = l]
<1>1. /\ account' \in [Addresses -> AccountRec]
      /\ \A a \in Addresses :
           \/ account'[a] = account[a] /\ a \notin DexAccounts(l)
           \/ /\ account[a].account_flags = {} /\ a \in DexAccounts(l)
              /\ account'[a].market = m /\ account'[a].names = {}
              /\ "Market" \in account'[a].account_flags => a = m
      /\ \A r \in DOMAIN Role :
           "Initialized" \in account'[l[r]].account_flags
           /\ (Role[r] \in account'[l[r]].account_flags
                 \/ (r = "bids" /\ l[r] = l.asks))
  BY Initialized
<1>2. /\ market' = [market EXCEPT ![m] = rec] /\ balance' = balance
      /\ Checked(l) /\ account[m].account_flags = {}
  BY DEF InitializeMarket, Checked, AreZeroed, DexAccounts
<1>3. /\ m \in Addresses /\ market \in [Addresses -> MarketRec]
      /\ balance \in [Tokens -> Nat]
  BY ListingFields DEF AInv, TypeOK
<1>4. rec \in MarketRec /\ rec.layout = l /\ rec.owed["coin"] = 0 /\ rec.owed["pc"] = 0
  BY DEF MarketRec, NoMarket, Currency
<1> HIDE DEF rec
<1>5. \A a \in Addresses : market'[a] = IF a = m THEN rec ELSE market[a]
  BY <1>2, <1>3
<1>6. m \notin Markets
  <2> SUFFICES ASSUME m \in Markets PROVE FALSE
    OBVIOUS
  <2>1. Layout(m).market = m
    BY <1>3 DEF AInv, Listed
  <2>2. "market" \in DOMAIN Role /\ Layout(m)["market"] = m
    BY <2>1 DEF Role
  <2> QED BY <1>2, <2>2, RolesUsed DEF AInv
<1>7. /\ Layout(m)' = l /\ \A a \in Addresses \ {m} : Layout(a)' = Layout(a)
      /\ l # Nobody
  BY <1>3, <1>4, <1>5, ListingFields DEF Layout
<1>8. Markets' = Markets \cup {m}
  BY <1>3, <1>7 DEF Markets
<1>9. Kept
  BY <1>1 DEF Kept, StillThat
<1>10. TypeOK'
  BY <1>1, <1>2, <1>3, <1>4 DEF TypeOK
<1>11. Listed'
  <2> SUFFICES ASSUME NEW n \in Addresses
               PROVE  /\ "Market" \in account'[n].account_flags => n \in Markets'
                      /\ n \in Markets' => Layout(n)'.market = n /\ Checked(Layout(n)')
    BY DEF Listed, Checked, Fit, CanBorrow, VaultChecked
  <2>1. CASE n = m
    BY <1>2, <1>7, <1>8, <2>1
  <2>2. CASE n # m
    <3>1. /\ "Market" \in account[n].account_flags => n \in Markets
          /\ n \in Markets => Layout(n).market = n /\ Checked(Layout(n))
      BY DEF AInv, Listed
    <3>2. "Market" \in account'[n].account_flags => account'[n] = account[n]
      BY <1>1, <2>2
    <3> QED BY <1>7, <1>8, <2>2, <3>1, <3>2
  <2> QED BY <2>1, <2>2
<1>12. OneRoleEach'
  <2>1. ASSUME NEW n \in Markets PROVE RolesOf(n)'
    <3>1. n # m /\ n \in Addresses
      BY <1>6 DEF Markets
    <3>2. Layout(n)' = Layout(n)
      BY <1>7, <3>1
    <3> QED BY <1>9, <3>2, RolesKept DEF AInv
  <2>2. RolesOf(m)'
    <3> SUFFICES ASSUME NEW r \in DOMAIN Role
                 PROVE  /\ account'[l[r]].market = m
                        /\ Role[r] \in account'[l[r]].account_flags
                             \/ (r = "bids" /\ l[r] = l.asks)
                        /\ \A s \in DOMAIN Role :
                             l[r] = l[s] => r = s \/ {r, s} = {"bids", "asks"}
      BY <1>7 DEF RolesOf
    <3>1. DOMAIN Role = {"market", "req_q", "event_q", "bids", "asks"}
      BY DEF Role
    <3>2. /\ l["market"] = l.market /\ l["req_q"] = l.req_q /\ l["event_q"] = l.event_q
          /\ l["bids"] = l.bids /\ l["asks"] = l.asks
      OBVIOUS
    <3>3. l[r] \in Addresses /\ l[r] \in DexAccounts(l)
      BY <3>1, <3>2, ListingFields DEF DexAccounts
    <3>4. account'[l[r]].market = m
      BY <1>1, <3>3
    <3>5. ASSUME NEW s \in DOMAIN Role, l[r] = l[s]
          PROVE  r = s \/ {r, s} = {"bids", "asks"}
      <4>1. /\ l.req_q # l.market /\ l.req_q # l.event_q /\ l.req_q # l.bids
            /\ l.req_q # l.asks /\ l.event_q # l.market /\ l.event_q # l.bids
            /\ l.event_q # l.asks /\ l.bids # l.market /\ l.asks # l.market
        BY <1>2 DEF Checked, Fit, CanBorrow
      <4> QED BY <3>1, <3>2, <3>5, <4>1
    <3> QED BY <1>1, <3>4, <3>5
  <2> QED BY <1>8, <2>1, <2>2 DEF OneRoleEach, RolesOf
<1>13. NamedOwnersLoad'
  <2> SUFFICES ASSUME NEW n \in Markets', NEW r \in Lists,
                      NEW oo \in account'[Layout(n)'[r]].names
               PROVE  Orders(n, oo)'
    BY DEF NamedOwnersLoad, Orders, Lists
  <2>1. CASE n = m
    <3>1. r \in DOMAIN Role /\ Layout(n)' = l
      BY <1>7, <2>1 DEF Role, Lists
    <3>2. l[r] \in Addresses /\ l[r] \in DexAccounts(l)
      BY <3>1, ListingFields DEF DexAccounts, Lists
    <3>3. account'[l[r]].names = {}
      BY <1>1, <3>2
    <3> QED BY <3>1, <3>3
  <2>2. CASE n # m
    <3>1. n \in Markets /\ n \in Addresses /\ Layout(n)' = Layout(n)
      BY <1>7, <1>8, <2>2 DEF Markets
    <3> DEFINE a == Layout(n)[r]
    <3>2. a \in Addresses /\ r \in DOMAIN Role
      BY <3>1, NamesOf DEF AInv, Role, Lists
    <3>3. account[a].account_flags # {}
      BY <3>1, <3>2, RolesUsed DEF AInv
    <3> HIDE DEF a
    <3>4. account'[a] = account[a]
      BY <1>1, <3>2, <3>3
    <3>5. oo \in account[a].names
      BY <3>1, <3>4 DEF a
    <3>6. oo \in Addresses /\ Orders(n, oo)
      BY <3>1, <3>5, NamesOf DEF AInv, a
    <3> QED BY <1>9, <3>6, OrdersKept
  <2> QED BY <2>1, <2>2
<1>14. Solvent'
  <2> SUFFICES ASSUME NEW n \in Markets'
               PROVE  Pays(Layout(n)', market'[n].owed, balance')
    BY DEF Solvent, Pays
  <2>1. CASE n = m
    <3>1. balance[l.coin_vault] \in Nat /\ balance[l.pc_vault] \in Nat
      BY <1>3, ListingFields
    <3> QED BY <1>2, <1>3, <1>4, <1>5, <1>7, <2>1, <3>1 DEF Pays
  <2>2. CASE n # m
    <3>1. n \in Markets /\ n \in Addresses
      BY <1>8, <2>2 DEF Markets
    <3>2. Pays(Layout(n), market[n].owed, balance)
      BY <3>1 DEF AInv, Solvent, Pays
    <3> QED BY <1>2, <1>5, <1>7, <2>2, <3>1, <3>2
  <2> QED BY <2>1, <2>2
<1>15. ASSUME NEW a \in Addresses, account[a].account_flags # {}
       PROVE  Layout(a)' = Layout(a)
  <2>1. a # m
    BY <1>2, <1>15
  <2> QED BY <1>7, <2>1
<1> QED BY <1>9, <1>10, <1>11, <1>12, <1>13, <1>14, <1>15 DEF AInv

-----------------------------------------------------------------------------
(* The theorems                                                            *)

LEMMA InitOK == Init => AInv
<1> SUFFICES ASSUME Init PROVE AInv
  OBVIOUS
<1>1. TypeOK
  <2>1. Zeroed \in AccountRec
    BY DEF AccountRec, Zeroed
  <2>2. NoMarket \in MarketRec
    BY DEF MarketRec, NoMarket, Currency
  <2>3. balance \in [Tokens -> Nat]
    BY AccountsAssumption DEF Init
  <2> QED BY <2>1, <2>2, <2>3 DEF TypeOK, Init
<1>2. Markets = {} /\ \A a \in Addresses : account[a].account_flags = {}
  BY DEF Markets, Layout, Init, NoMarket, Zeroed
<1> QED BY <1>1, <1>2 DEF AInv, Listed, OneRoleEach, NamedOwnersLoad, Solvent

\* Nothing happens to an account, or only to what it names, or it is a market
\* that is disabled.
Used(a) ==
  account[a].account_flags # {} =>
    StillThat(account[a], account'[a]) /\ Layout(a)' = Layout(a)

LEMMA QuietStep ==
  ASSUME AInv, AccountsQuiet, MoneyOK
  PROVE  AInv' /\ \A a \in Addresses : Used(a)
<1>1. Quiet /\ GoodNames
  BY DEF AccountsQuiet, MoneyOK, Quiet
<1>2. Listed' /\ OneRoleEach' /\ NamedOwnersLoad'
  BY <1>1, QuietKeeps
<1>3. TypeOK'
  BY DEF AccountsQuiet, MoneyOK, TypeOK
<1>4. Solvent'
  BY DEF MoneyOK
<1> QED BY <1>1, <1>2, <1>3, <1>4 DEF AInv, Quiet, Kept, Used

LEMMA AccountsStay ==
  ASSUME AInv, UNCHANGED account
  PROVE  AccountsQuiet
<1>1. account \in [Addresses -> AccountRec]
  BY DEF AInv, TypeOK
<1>2. \A m \in Markets, r \in Lists :
        account'[Layout(m)[r]].names = account[Layout(m)[r]].names
  OBVIOUS
<1> QED BY <1>1, <1>2 DEF AccountsQuiet, Kept, StillThat, Fresh, GoodNames

LEMMA MoneyStays ==
  ASSUME AInv, UNCHANGED <<market, balance>>
  PROVE  MoneyOK
  BY DEF MoneyOK, AInv, TypeOK, Layout, Solvent, Markets

LEMMA NextOK ==
  ASSUME AInv, [Next]_vars
  PROVE  AInv' /\ \A a \in Addresses : Used(a)
<1>1. ASSUME NEW l \in Layouts, InitializeMarket(l)
      PROVE  AInv' /\ \A a \in Addresses : Used(a)
  BY <1>1, InitializeOK DEF Kept, Used
<1>2. ASSUME NEW m \in Addresses, NEW oo \in Addresses, NEW owner \in Users,
             NewOrder(m, oo, owner)
      PROVE  AccountsQuiet /\ MoneyOK
  <2>1. /\ MarketLoads(m) /\ OrdersLoad(m, oo, owner, TRUE)
        /\ Request(m, oo, LoadedOrders(m, oo, owner))
    BY <1>2 DEF NewOrder
  <2>2. owner \in Users \cup {Nobody}
    OBVIOUS
  <2> QED BY <1>2, <2>1, <2>2, RequestQuiet, NewOrderPays
<1>3. ASSUME NEW m \in Addresses, NEW oo \in Addresses, NEW owner \in Users,
             CancelOrder(m, oo, owner)
      PROVE  AccountsQuiet /\ MoneyOK
  <2>1. /\ MarketLoads(m) /\ OrdersLoad(m, oo, owner, FALSE)
        /\ Request(m, oo, account[oo]) /\ UNCHANGED <<market, balance>>
    BY <1>3 DEF CancelOrder
  <2>2. owner \in Users \cup {Nobody} /\ TypeOK
    BY DEF AInv
  <2>3. LoadedOrders(m, oo, owner) = account[oo]
    BY <2>1, <2>2, OrdersLoaded
  <2>4. Request(m, oo, LoadedOrders(m, oo, owner))
    BY <2>1, <2>3
  <2>5. AccountsQuiet
    BY <2>1, <2>2, <2>4, RequestQuiet
  <2> QED BY <2>1, <2>5, MoneyStays
<1>4. ASSUME NEW m \in Addresses, NEW oo \in Addresses, NEW owner \in Users,
             SettleFunds(m, oo, owner)
      PROVE  AccountsQuiet /\ MoneyOK
  <2>1. UNCHANGED account
    BY <1>4 DEF SettleFunds
  <2> QED BY <1>4, <2>1, AccountsStay, SettlePays
<1>5. ASSUME NEW m \in Addresses, NEW oo \in Addresses, MatchOrders(m, oo)
      PROVE  AccountsQuiet /\ MoneyOK
  <2>1. UNCHANGED <<market, balance>>
    BY <1>5 DEF MatchOrders
  <2> QED BY <1>5, <2>1, MatchQuiet, MoneyStays
<1>6. ASSUME NEW m \in Addresses, NEW oo \in Addresses, ConsumeEvents(m, oo)
      PROVE  AccountsQuiet /\ MoneyOK
  <2>1. UNCHANGED <<market, balance>>
    BY <1>6 DEF ConsumeEvents
  <2> QED BY <1>6, <2>1, ConsumeQuiet, MoneyStays
<1>7. ASSUME NEW m \in Addresses, DisableMarket(m)
      PROVE  AccountsQuiet /\ MoneyOK
  <2>1. UNCHANGED <<market, balance>>
    BY <1>7 DEF DisableMarket
  <2> QED BY <1>7, <2>1, DisableQuiet, MoneyStays
<1>8. ASSUME NEW m \in Addresses, SweepFees(m)
      PROVE  AccountsQuiet /\ MoneyOK
  <2>1. UNCHANGED account
    BY <1>8 DEF SweepFees
  <2> QED BY <1>8, <2>1, AccountsStay, SweepPays
<1>9. CASE UNCHANGED vars
  <2>1. UNCHANGED account /\ UNCHANGED <<market, balance>>
    BY <1>9 DEF vars
  <2> QED BY <2>1, AccountsStay, MoneyStays, QuietStep
<1>10. CASE Next
  <2>1. \/ \E l \in Layouts : InitializeMarket(l)
        \/ AccountsQuiet /\ MoneyOK
    BY <1>10, <1>2, <1>3, <1>4, <1>5, <1>6, <1>7, <1>8 DEF Next
  <2> QED BY <2>1, <1>1, QuietStep
<1> QED BY <1>9, <1>10

LEMMA Inductive == Spec => []AInv
<1>1. AInv /\ [Next]_vars => AInv'
  BY NextOK
<1> QED BY <1>1, InitOK, PTL DEF Spec

\* Whatever accounts are handed to InitializeMarket and to the instructions of
\* the traders, no account ever gets two roles or serves two markets, but for
\* a market that has its bids for asks (state.rs process_initialize_market,
\* load_orders_mut).
THEOREM RolesApart == Spec => []OneRoleEach
<1>1. AInv => OneRoleEach
  BY DEF AInv
<1> QED BY <1>1, Inductive, PTL

\* ConsumeEvents can always load the account that an event names, though it
\* has neither owner nor rent to initialize one with (load_orders_mut).
THEOREM NamesLoad == Spec => []NamedOwnersLoad
<1>1. AInv => NamedOwnersLoad
  BY DEF AInv
<1> QED BY <1>1, Inductive, PTL

\* The sum over the currencies that share a vault.
LEMMA SolventPays == AInv => VaultsPay
<1> SUFFICES ASSUME AInv, NEW m \in Markets, NEW c \in Currency
             PROVE  /\ SignedByVault(m, c)
                    /\ balance[vault(m)[c]]
                         >= Total({n \in Markets \X Currency :
                                     vault(n[1])[n[2]] = vault(m)[c]},
                                  [n \in Markets \X Currency |-> market[n[1]].owed[n[2]]])
  BY DEF VaultsPay
<1> DEFINE l == Layout(m)
           v == vault(m)[c]
           S == {n \in Markets \X Currency : vault(n[1])[n[2]] = v}
           f == [n \in Markets \X Currency |-> market[n[1]].owed[n[2]]]
           C == <<m, "coin">>
           P == <<m, "pc">>
<1>1. /\ m \in Addresses /\ l \in Layouts /\ market[m] \in MarketRec
      /\ l.market = m /\ Checked(l)
  BY ListingOf DEF AInv, Listed
<1>2. \A n \in Markets : /\ vault(n)["coin"] = Layout(n).coin_vault
                         /\ vault(n)["pc"] = Layout(n).pc_vault
  BY DEF vault
<1>3. SignedByVault(m, c)
  BY <1>1, <1>2 DEF SignedByVault, Checked, VaultChecked, Currency
<1>4. ASSUME NEW n \in S PROVE n = C \/ n = P
  <2>1. n[1] \in Markets /\ n[2] \in Currency /\ n = <<n[1], n[2]>>
    OBVIOUS
  <2> DEFINE k == Layout(n[1])
  <2>2. /\ n[1] \in Addresses /\ k \in Layouts /\ k.market = n[1] /\ Checked(k)
    BY <2>1, ListingOf DEF AInv, Listed
  <2>3. v \in {l.coin_vault, l.pc_vault} /\ v \in {k.coin_vault, k.pc_vault}
    BY <1>2, <2>1 DEF Currency
  <2> HIDE DEF k, v
  <2>4. n[1] = m
    BY <1>1, <2>2, <2>3, VaultsApart
  <2> QED BY <2>1, <2>4 DEF Currency
<1>5. C \in Markets \X Currency /\ P \in Markets \X Currency /\ C # P
  BY DEF Currency
<1>6. f[C] = market[m].owed["coin"] /\ f[P] = market[m].owed["pc"]
  BY <1>5
<1>7. f[C] \in Nat /\ f[P] \in Nat
  BY <1>1, <1>6, MarketFields
<1>8. Pays(l, market[m].owed, balance)
  BY DEF AInv, Solvent, Pays
<1>9. balance[l.coin_vault] \in Nat /\ balance[l.pc_vault] \in Nat
  BY <1>1, ListingFields DEF AInv, TypeOK
<1>10. /\ v = IF c = "coin" THEN l.coin_vault ELSE l.pc_vault
       /\ C \in S <=> l.coin_vault = v
       /\ P \in S <=> l.pc_vault = v
  BY <1>2, <1>5 DEF Currency
<1> HIDE DEF S, f, C, P, v, l
<1>11. \A x : f[x] \in Int => Total({x}, f) = f[x]
  <2> TAKE x
  <2> HAVE f[x] \in Int
  <2>1. Total({} \union {x}, f) = f[x] + Total({}, f)
    BY FS_EmptySet, TotalAdd
  <2>2. {} \union {x} = {x} /\ Total({}, f) = 0
    BY TotalEmpty
  <2> QED BY <2>1, <2>2
<1>12. Total({C, P}, f) = f[C] + f[P]
  <2> DEFINE one == {C}
             fc == f[C]
             fp == f[P]
  <2>1. IsFiniteSet(one) /\ P \notin one
    BY <1>5, FS_Singleton
  <2>2. \A y \in one \union {P} : f[y] \in Int
    <3>1. fc \in Int /\ fp \in Int
      BY <1>7
    <3> HIDE DEF fc, fp
    <3> QED BY <3>1 DEF fc, fp
  <2>3. Total(one, f) = fc
    <3>1. fc \in Int
      BY <1>7
    <3> QED BY <1>11, <3>1
  <2>4. one \union {P} = {C, P}
    OBVIOUS
  <2> HIDE DEF one
  <2>5. Total(one \union {P}, f) = fp + Total(one, f)
    BY <2>1, <2>2, TotalAdd
  <2>6. fc \in Int /\ fp \in Int
    BY <1>7
  <2> DEFINE both == {C, P}
  <2>7. Total(both, f) = fp + Total(one, f)
    BY <2>4, <2>5, Zenon
  <2> HIDE DEF fc, fp, both
  <2>8. Total(both, f) = fc + fp
    BY <2>3, <2>6, <2>7
  <2> QED BY <2>8 DEF fc, fp, both
<1>13. balance[v] >= Total(S, f)
  <2>1. CASE l.coin_vault = l.pc_vault
    <3>1. S = {C, P}
      BY <1>4, <1>10, <2>1
    <3> QED BY <1>6, <1>8, <1>10, <1>12, <2>1, <3>1 DEF Pays
  <2>2. CASE l.coin_vault # l.pc_vault /\ c = "coin"
    <3>1. S = {C}
      BY <1>4, <1>10, <2>2
    <3> QED BY <1>6, <1>7, <1>8, <1>10, <1>11, <2>2, <3>1 DEF Pays
  <2>3. CASE l.coin_vault # l.pc_vault /\ c # "coin"
    <3>1. S = {P}
      BY <1>4, <1>10, <2>3
    <3>2. Total({P}, f) = f[P]
      BY <1>7, <1>11
    <3>3. v = l.pc_vault /\ balance[v] >= f[P]
      BY <1>6, <1>8, <1>10, <2>3 DEF Pays
    <3> QED BY <3>1, <3>2, <3>3
  <2> QED BY <2>1, <2>2, <2>3
<1> QED BY <1>3, <1>13 DEF S, f, v

\* Every vault holds what its market owes and pays it out on the market's own
\* signature: a market cannot be drained through the payers, the wallets or
\* the vaults that an instruction names (InitializeMarket, send_from_vault).
THEOREM VaultsCover == Spec => []VaultsPay
  BY SolventPays, Inductive, PTL

\* Nobody can initialize an account again, or have it serve another market or
\* another owner (load_orders_mut, process_initialize_market).
THEOREM AccountsFixed == Spec => AccountsKept
<1> DEFINE Step ==
       \A a \in Addresses :
         account[a].account_flags # {} =>
           /\ account'[a].account_flags \ {"Disabled"} = account[a].account_flags \ {"Disabled"}
           /\ account'[a].market = account[a].market
           /\ account'[a].owner = account[a].owner
           /\ Layout(a)' = Layout(a)
<1>1. AInv /\ [Next]_vars => [Step]_vars
  <2> SUFFICES ASSUME AInv, [Next]_vars, NEW a \in Addresses,
                      account[a].account_flags # {}
               PROVE  /\ account'[a].account_flags \ {"Disabled"}
                           = account[a].account_flags \ {"Disabled"}
                      /\ account'[a].market = account[a].market
                      /\ account'[a].owner = account[a].owner
                      /\ Layout(a)' = Layout(a)
    OBVIOUS
  <2>1. StillThat(account[a], account'[a]) /\ Layout(a)' = Layout(a)
    BY NextOK DEF Used
  <2> QED BY <2>1 DEF StillThat
<1> QED BY <1>1, Inductive, PTL DEF Spec, AccountsKept
=============================================================================
