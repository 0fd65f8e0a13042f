CONSTANTS
  RX_BUF_SIZE = 3
  Frames <- AckFrames
  NONE = NONE
  CounterRange = 1
  MayProbe = FALSE
SPECIFICATION Spec
INVARIANT AckInfoOfThisFrame
