\* A window of five slots for three periods.
CONSTANTS
  Entries = {e1}
  Zero = Zero
  LEN = 2
  ITEM_SIZE = 65
  Users = {u1}
  Nobody = Nobody
  Safes = {s1}
  Whitelists = {l1}
  Vestings = {v1}
  Mints = {m1}
  MintAuthority <- MintsOfOne
  Deposits = {3}
  Durations = {5}
  Periods = {3}
  Wealth = 3
  MaxSlot = 5
  HoldersBurn = FALSE
SPECIFICATION Spec
INVARIANTS
  WindowPartitioned
CHECK_DEADLOCK FALSE
