---------------------------- MODULE ReportCodec ----------------------------
(***************************************************************************)
(* The status report of a node on the wire: how the node packs it          *)
(* (node (rf)_node1/status_report_packet.c, and again inside send_report)  *)
(* and how the gateway unpacks it (gateway (eth)_gateway/                  *)
(* status_report_packet.c).  ack_bit_pattern_test/main.c tries the same    *)
(* two loops on one pattern.                                               *)
(*                                                                         *)
(* The wire is a sequence: the node's number, the ACK number, the pattern  *)
(* length (an int each side copies with memcpy), the bytes of the pattern, *)
(* then the number of VLC transmitters and, for each, its number and the   *)
(* quality of its link.  Nothing on the wire says where the pattern ends:  *)
(* both sides work it out of the length, which can be negative when the    *)
(* node's threads race, and the link qualities are found behind it.        *)
(*                                                                         *)
(* The wire has room for PATTERN_ROOM bytes of pattern.  In send_report it *)
(* is sendbuf, 1024 bytes less the header and the other fields; the        *)
(* function of the same name as the encoder here, which nobody calls,      *)
(* allocates 1000.  Neither tests the length, and neither side has         *)
(* anything to say about a longer pattern: module NodeReceiver does not    *)
(* encode one.                                                             *)
(***************************************************************************)
EXTENDS Integers, Sequences

CONSTANTS
  CHAR_BIT,      \* bits of an unsigned char: 8 in the build
  PATTERN_ROOM   \* bytes a pattern can have: 998 in send_report

\* The second conjunct is true of every CHAR_BIT: the provers, which do not
\* calculate powers, need to be told.
ASSUME CodecAssumption ==
  /\ CHAR_BIT \in Nat \ {0}
  /\ PATTERN_ROOM \in Nat \ {0}
  /\ \A n \in 0 .. CHAR_BIT - 1 : 2^(n + 1) = 2 * 2^n

Byte == 0 .. 2^CHAR_BIT - 1

\* len / CHAR_BIT + (len % CHAR_BIT == 0 ? 0 : 1) with C's division, which
\* truncates towards zero: a negative length can still occupy a byte.  Below
\* zero the loop that runs so many times does not run.
PatternBytes(len) ==
  LET quotient == IF len >= 0 THEN len \div CHAR_BIT
                  ELSE -((-len) \div CHAR_BIT)
      bytes == quotient + (IF len % CHAR_BIT = 0 THEN 0 ELSE 1)
  IN  IF bytes > 0 THEN bytes ELSE 0

-----------------------------------------------------------------------------
(* The node: convert_report_packet_to_string.                              *)

\* Where the copying of bits into byte i stops.
LastBit(len, i) ==
  LET remaining == len - i * CHAR_BIT
  IN  i * CHAR_BIT + (IF remaining > CHAR_BIT THEN CHAR_BIT ELSE remaining)

\* Byte i: its bits enter from the most significant position down.
TempByte(bits, len, i) ==
  LET sum[j \in i * CHAR_BIT .. (i + 1) * CHAR_BIT] ==
        IF j >= LastBit(len, i) THEN 0
        ELSE bits[j + 1] * 2^(CHAR_BIT - 1 - (j - i * CHAR_BIT)) + sum[j + 1]
  IN  sum[i * CHAR_BIT]

convert_report_packet_to_string(r) ==
  << r.node_id, r.ACK_number, r.pattern_length >>
  \o [i \in 1 .. PatternBytes(r.pattern_length) |->
        TempByte(r.bits, r.pattern_length, i - 1)]
  \o << Len(r.vlc_data) >>
  \o [i \in 1 .. 2 * Len(r.vlc_data) |->
        LET v == r.vlc_data[(i + 1) \div 2]
        IN  IF i % 2 = 1 THEN v.vlc_tx_id ELSE v.vlc_link_quality]

-----------------------------------------------------------------------------
(* The gateway: generate_status_report_from_string.                        *)

\* Mutant of ShiftUntil: a byte that is exactly full is taken for a partial
\* one that lacks a bit.
ShiftUntilLate(len, i) ==
  LET remaining == len - i * CHAR_BIT
  IN  IF remaining > CHAR_BIT THEN 0 ELSE CHAR_BIT + 1 - remaining

\* conv_shift_until: the lowest bit of byte i that belongs to the pattern.
ShiftUntil(len, i) ==
  LET remaining == len - i * CHAR_BIT
  IN  IF remaining >= CHAR_BIT THEN 0 ELSE CHAR_BIT - remaining

\* How many bits byte i yields: j runs down from CHAR_BIT - 1 to ShiftUntil.
BitsOfByte(len, i) ==
  IF ShiftUntil(len, i) > CHAR_BIT THEN 0 ELSE CHAR_BIT - ShiftUntil(len, i)

\* byte >> j & 0x1
BitAt(byte, j) == IF (byte \div 2^j) % 2 = 1 THEN 1 ELSE 0

\* Only the last byte can yield fewer than CHAR_BIT.
ACK_bit_pattern(bytes, len) ==
  LET last == Len(bytes) - 1
      many == IF bytes = << >> THEN 0
              ELSE last * CHAR_BIT + BitsOfByte(len, last)
  IN  [k \in 1 .. many |->
        BitAt(bytes[1 + (k - 1) \div CHAR_BIT],
              CHAR_BIT - 1 - ((k - 1) % CHAR_BIT))]

generate_status_report_from_string(w) ==
  LET len == w[3]
      at  == 4 + PatternBytes(len)
  IN  [node_id |-> w[1], ACK_number |-> w[2], pattern_length |-> len,
       bits |-> ACK_bit_pattern(SubSeq(w, 4, at - 1), len),
       vlc_data |-> [i \in 1 .. w[at] |->
                       [vlc_tx_id |-> w[at + 2 * i - 1],
                        vlc_link_quality |-> w[at + 2 * i]]]]
=============================================================================
