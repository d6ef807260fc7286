\* Two packets: both wait in node_queue, rf_queue refuses the second, and the
\* bucket of two tokens is contended for at every level.  No property of this
\* run reads a sequence number: MAX_SEQ_NUMBER is least.
CONSTANTS
  NODE_QUEUE_SIZE = 3
  RF_QUEUE_SIZE = 1
  LIMIT = 1
  BURST = 2
  TOKEN_RATE = 1
  MAX_SEQ_NUMBER = 1
  SendMayFail = TRUE
  MaxGenerated = 2
SPECIFICATION FairSpec
INVARIANTS TypeOK TokenBounds PopNeverNull
PROPERTIES AirInOrder TbfServed
