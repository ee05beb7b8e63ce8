\* Five messages: every order of pushes, waits and wakeups.
SPECIFICATION FairSpec
CONSTANTS
  Keys <- TwoKeys
  MaxMessages = 5
INVARIANTS TypeOK EventsTellKeysHeld
PROPERTIES FifoSpec EveryEventIsTaken
