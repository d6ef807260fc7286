\* The lengths of the deployed driver and firmware, and a ring of six frames:
\* both sides wrap, the ring fills up and the PRU waits.
CONSTANTS
  PAYLOAD_LEN = 74
  ADDRESS_LENGTH = 2
  SEQ_NUMBER_LENGTH = 4
  ECC_LEN = 16
  MTU_VALUE = 150
  BUFFER_LIMIT = 604
  MaxBacklog = 2
SPECIFICATION FairSpec
INVARIANTS CopiesNextFrame SampleFresh
PROPERTIES RingIsChannel RingMoves
