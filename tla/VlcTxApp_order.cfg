\* Five packets: the queue can be full, be emptied and be refilled.
\* Their sequence numbers carry into the second byte.
\* A segmentation fault stops the process.
CONSTANTS
  QUEUE_LIMIT = 3
  MaxPackets = 5
  FirstSeq = 252
  PAYLOAD_SIZE = 2
SPECIFICATION Spec
INVARIANTS SizeNotNegative QueueReportBelowLimit
PROPERTY WrittenInOrder
CHECK_DEADLOCK FALSE
