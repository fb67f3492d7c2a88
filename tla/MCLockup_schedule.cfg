\* One account with every schedule of up to five slots and four periods,
\* redeemed and lent in any portions, and a second safe beside its own.
CONSTANTS
  Entries = {e1}
  Zero = Zero
  LEN = 2
  ITEM_SIZE = 65
  Users = {u1}
  Nobody = Nobody
  Safes = {s1, s2}
  Whitelists = {l1}
  Vestings = {v1}
  Mints = {m1}
  MintAuthority <- MintsOfOne
  Deposits = {4}
  Durations = {1, 3, 5}
  Periods = {1, 3, 4}
  Wealth = 4
  MaxSlot = 5
  HoldersBurn = FALSE
SPECIFICATION Spec
INVARIANTS
  NoUnderflow
  VestsOnSchedule
PROPERTIES
  VaultFallsByClaims
CHECK_DEADLOCK FALSE
