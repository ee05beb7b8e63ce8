\* The ring is lapped, and the counters wrap and stall.
SPECIFICATION RingFairSpec
CONSTANTS
  w1 = w1
  w2 = w2
  Words <- WordPair
  Zero = Zero
  RingSize = 2
  CounterModulus = 4
  MaxPosts = 6
INVARIANTS RingTypeOK NothingLostUntilLapped RendersWhatWasPublished
PROPERTIES FifoUntilLapped EveryPostIsHeard
