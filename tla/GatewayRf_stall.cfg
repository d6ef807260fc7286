\* Sends succeed and no queue overflows: a lost update is enough.
CONSTANTS
  NODE_QUEUE_SIZE = 3
  RF_QUEUE_SIZE = 2
  LIMIT = 1
  BURST = 1
  TOKEN_RATE = 1
  MAX_SEQ_NUMBER = 1
  SendMayFail = FALSE
  MaxGenerated = 2
SPECIFICATION FairSpec
PROPERTY WaitingPacketsForRfSent
