\* The field of eight elements with four parity symbols, shortened by one:
\* two errors can be repaired and up to three happen.
CONSTANTS
  MM = 3
  GFPOLY = 11
  NROOTS = 4
  EBADMSG = 74
  SELF_ID = 1
  RS_ERROR_ID = 6
  DUMMY_PACKET_NODE_ID = 7
  OtherNodes = {2}
  DataSeqs = {0, 3}
  DummySeq = 5
  SentPayload = 200
  MaxErrors = 3
  INT_BITS = 8
SPECIFICATION FrameSpec
INVARIANTS CorrectsWithinReach DecodeInBounds DeliveredExactly
           ErrorsAccounted
