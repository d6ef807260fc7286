\* The lengths of the driver and of TXPRU.p.
CONSTANTS
  PAYLOAD_LEN = 74
  ADDRESS_LENGTH = 2
  ECC_LEN = 16
  SEQ_NUMBER_LENGTH = 4
  SEQ_NUMBER_LENGTH_PRU = 24
  BUFFER_LIMIT = 6004
SPECIFICATION Spec
INVARIANT SendsNextPacket
