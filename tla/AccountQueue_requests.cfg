\* The request queue of a listed market (crank/src/lib.rs:1071): 640 bytes with
\* a header of four words, room for seven requests of ten words.
CONSTANTS
  Items = {zero}
  Zero = zero
  BufWords = 76
  ItemWords = 10
  EventWords = 11
  MaxSeq = 14
SPECIFICATION Spec
INVARIANTS
  RequestQueueReadable
