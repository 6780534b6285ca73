SPECIFICATION FairSpec
CONSTANTS
  HeadLen = 2
  Chunk = 3
  BodyLimit = 6
  Bodies = {0, 1, 3, 6, 7}
  MaxFrames = 3
INVARIANTS Aligned WithinFrame AcceptedBodyReceived
PROPERTIES ImplementsFifo EveryFrameReceived
CHECK_DEADLOCK FALSE
