\* One safe, two vesting accounts that may share the mint of their receipts,
\* and one whitelisted program: receipts, loans and redemptions interleaved.
CONSTANTS
  Entries = {e1}
  Zero = Zero
  LEN = 2
  ITEM_SIZE = 65
  Users = {u1, u2}
  Nobody = Nobody
  Safes = {s1}
  Whitelists = {l1}
  Vestings = {v1, v2}
  Mints = {m1}
  MintAuthority <- MintsOfOne
  Deposits = {2}
  Durations = {2}
  Periods = {2}
  Wealth = 2
  MaxSlot = 2
  HoldersBurn = TRUE
SYMMETRY Symmetry
SPECIFICATION Spec
INVARIANTS
  TypeOK
  VaultBacksVestings
  ReceiptsBacked
  LoansAccounted
PROPERTIES
  TermsFixed
CHECK_DEADLOCK FALSE
