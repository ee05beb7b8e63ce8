\* A server that may refuse, and may die at any time.
SPECIFICATION FairSpec
CONSTANTS
  MaxNumSamples = 6
  MaxRequest = 10
INVARIANTS TypeOK MixesOnlyALiveSynth ReturnsOnlyWhenAnswered NeverJoinsWithLock
PROPERTIES FillsTheRequest InitReturns QuitExits
