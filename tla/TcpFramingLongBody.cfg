SPECIFICATION Spec
CONSTANTS
  HeadLen = 2
  Chunk = 3
  BodyLimit = 6
  Bodies = {4, 5}
  MaxFrames = 2
INVARIANT AcceptedBodyReceived
CHECK_DEADLOCK FALSE
