\* A server that refuses to start the stream.
SPECIFICATION Spec
CONSTANTS
  MaxNumSamples = 6
  MaxRequest = 10
INVARIANT StartReportsRefusal
