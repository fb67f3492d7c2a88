\* More owners than the crank lists, two workers, and a single consume_events
\* that lists one account only.
CONSTANTS
  Owners = {1, 2, 3}
  EventCap = 3
  NumWorkers = 2
  EventsPerWorker = 3
  NumAccounts = 2
  OnceAccounts = 1
  MatchBatch = 2
  MaxEvents = 4
  MaxInFlight = 2
SPECIFICATION CrankSpec
INVARIANTS
  FreshRoundServes
PROPERTIES
  QueueDrains
CHECK_DEADLOCK FALSE
