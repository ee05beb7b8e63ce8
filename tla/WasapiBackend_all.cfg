\* Every interleaving of the two threads and the device.
SPECIFICATION FairSpec
CONSTANTS
  BufferFrames = 7
  MaxNumFrames = 5
INVARIANTS TypeOK MixesOnlyAStartedSynth BufferNeverOverrun
PROPERTIES ReleasesWhatItRendered StopEnds
