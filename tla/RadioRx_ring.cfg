CONSTANTS
  RX_BUF_SIZE = 3
  Frames <- RingFrames
  NONE = NONE
  CounterRange = 1
  MayProbe = FALSE
SPECIFICATION FairSpec
PROPERTIES ImplementsFifo HeadDelivered
