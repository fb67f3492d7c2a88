SPECIFICATION Spec

CONSTANTS
  m1 = m1
  m2 = m2
  o1 = o1
  o2 = o2
  o3 = o3
  b1 = b1
  b2 = b2
  b3 = b3
  b4 = b4
  b5 = b5
  u1 = u1
  u2 = u2
  vault1 = vault1
  vault2 = vault2
  vault3 = vault3
  wallet1 = wallet1
  wallet2 = wallet2
  coins = coins
  cash = cash
  Nobody = Nobody
  Addresses = {m1, m2, o1, o2, o3, b1, b2, b3, b4, b5}
  Size <- SizeOf
  Tokens = {vault1, vault2, vault3, wallet1, wallet2}
  TokenOwner <- OwnerOf
  TokenMint <- MintOf
  Delegated = {}
  Layouts <- Listings
  Users = {u1, u2}
  MaxOwed = 2

INVARIANTS
  OneRoleEach
  NamedOwnersLoad
  VaultsPay

PROPERTIES
  AccountsKept

\* When every market is disabled nothing can happen any more.
CHECK_DEADLOCK FALSE
