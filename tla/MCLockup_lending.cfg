\* A program that takes less than it was approved.
CONSTANTS
  Entries = {e1}
  Zero = Zero
  LEN = 2
  ITEM_SIZE = 65
  Users = {u1}
  Nobody = Nobody
  Safes = {s1}
  Whitelists = {l1}
  Vestings = {v1}
  Mints = {m1}
  MintAuthority <- MintsOfOne
  Deposits = {2}
  Durations = {1}
  Periods = {1}
  Wealth = 2
  MaxSlot = 1
  HoldersBurn = FALSE
SPECIFICATION Spec
INVARIANTS
  CustodyOfPrograms
CHECK_DEADLOCK FALSE
