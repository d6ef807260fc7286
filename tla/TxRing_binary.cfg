\* The lengths of the driver and of the committed TXPRU.bin, which was not
\* built from TXPRU.p as it is now.  The ring as deployed: 60 packets of 100
\* bytes.
CONSTANTS
  PAYLOAD_LEN = 74
  ADDRESS_LENGTH = 2
  ECC_LEN = 16
  SEQ_NUMBER_LENGTH = 4
  SEQ_NUMBER_LENGTH_PRU = 4
  BUFFER_LIMIT = 6004
SPECIFICATION FairSpec
INVARIANT SendsNextPacket
PROPERTIES RingIsChannel KeepsSending
