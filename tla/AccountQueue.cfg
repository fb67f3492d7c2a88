\* An event queue of three places and two words of slop; pushes enough to wrap
\* around twice.
CONSTANTS
  Items = {zero, a, b}
  Zero = zero
  BufWords = 35
  ItemWords = 11
  EventWords = 11
  MaxSeq = 7
SPECIFICATION Spec
INVARIANTS
  TypeOK
  CrankReadsQueue
PROPERTIES
  IsBoundedQueue
