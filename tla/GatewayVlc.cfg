\* Two sequence numbers, which wrap, two packets, an array that takes two,
\* a window of one, bytes of two bits.
CONSTANTS
  CHAR_BIT = 2
  PATTERN_ROOM = 1
  MAX_SEQ_NUMBER = 2
  MAX_UNACKED_VLC_PACKET = 3
  max_ACK_bit_pattern = 1
  MaxPackets = 2
SPECIFICATION FairSpec
INVARIANTS TypeOK NoFalseAck ResentOncePerMark
PROPERTIES HeldIsResolved
CHECK_DEADLOCK FALSE
