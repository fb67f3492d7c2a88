----------------------------- MODULE MCAccounts -----------------------------
(***************************************************************************)
(* A small cluster for module Accounts: two accounts of the size of a      *)
(* market, two of that of OpenOrders, a small one that does as a request   *)
(* queue, and five large ones; listings that go together, that want        *)
(* accounts of another one, an account twice or a vault of somebody else.  *)
(***************************************************************************)
EXTENDS Accounts

CONSTANTS m1, m2, o1, o2, o3, b1, b2, b3, b4, b5, u1, u2,
          vault1, vault2, vault3, wallet1, wallet2, coins, cash

SizeOf ==
  [a \in {m1, m2, o1, o2, o3, b1, b2, b3, b4, b5} |->
     CASE a \in {m1, m2} -> "market" [] a \in {o1, o2} -> "orders" [] a = o3 -> "small" [] OTHER -> "large"]

\* The first market keeps coin and pc in one vault.
OwnerOf ==
  [t \in {vault1, vault2, vault3, wallet1, wallet2} |->
     CASE t = vault1 -> <<0, m1>> [] t \in {vault2, vault3} -> <<0, m2>>
       [] t = wallet1 -> u1 [] t = wallet2 -> u2]

MintOf ==
  [t \in {vault1, vault2, vault3, wallet1, wallet2} |->
     IF t \in {vault3, wallet2} THEN cash ELSE coins]

Listed(m, req_q, event_q, bids, asks, coin_vault, pc_vault) ==
  [market |-> m, req_q |-> req_q, event_q |-> event_q, bids |-> bids, asks |-> asks,
   coin_vault |-> coin_vault, pc_vault |-> pc_vault, vault_signer_nonce |-> 0]

Listings ==
  {Listed(m1, o3, b1, b2, b3, vault1, vault1),
   Listed(m1, o3, b1, b2, b2, vault1, vault1),
   Listed(m2, o2, b4, b5, b5, vault2, vault3),
   Listed(m2, m1, b4, b2, b3, vault2, vault3),
   Listed(m1, m2, b4, b2, b3, vault1, wallet1),
   Listed(m1, b1, b1, b2, b3, vault1, vault1)}
=============================================================================
