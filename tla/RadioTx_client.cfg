CONSTANTS
  MaxRetry = 2
  MaxCcaFail = 2
  MaxAborts = 1
SPECIFICATION FairSpec
INVARIANTS
  OneStartToken NeverForgotten SemaphoreOfOperation
PROPERTIES ImplementsService TransmitAnswered
