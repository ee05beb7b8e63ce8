\* Up to five events and a pool of two.
SPECIFICATION AlsaFairSpec
CONSTANTS
  AlsaKeys <- OneKey
  PoolSize = 2
  MaxEvents = 5
INVARIANTS AlsaTypeOK NoHoleInTheNotes
PROPERTY NotesTakenOrLoopEnds
\* The keyboard falls silent, or main() has left its loop.
CHECK_DEADLOCK FALSE
