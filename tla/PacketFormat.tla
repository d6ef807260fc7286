---------------------------- MODULE PacketFormat ----------------------------
(***************************************************************************)
(* The bytes of a packet on its way from the gateway to the node over VLC. *)
(* The gateway puts it into an Ethernet frame (transmit_packet_vlc), the   *)
(* transmitter reads its fields (generate_gateway_packet_from_bytes) and   *)
(* writes them in another order to the VLC device (transmit_to_vlc), and   *)
(* the node reads them there (generate_from_bytes).                        *)
(*                                                                         *)
(* A packet is a record of its fields; numbers are stored as the memory of *)
(* the three machines, all little-endian, holds them.  Buffers are         *)
(* sequences of bytes: buff[i] of the code is buff[i + 1] here.            *)
(***************************************************************************)
EXTENDS Integers, Sequences

BYTE == 256

\* The two bytes of a 16-bit number, or of the lower half of a longer one.
Low(n)  == n % BYTE
High(n) == (n \div BYTE) % BYTE

\* Three fields of 16 bits and one of 32.
Fields(a, b, c, d) ==
  LET upper == d \div (BYTE * BYTE)
  IN  <<Low(a), High(a), Low(b), High(b), Low(c), High(c),
        Low(d), High(d), Low(upper), High(upper)>>

Read16(buff, idx) == buff[idx + 1] + BYTE * buff[idx + 2]
Read32(buff, idx) == Read16(buff, idx) + BYTE * BYTE * Read16(buff, idx + 2)

\* What follows the Ethernet header.  The gateway counts transmitters from 0,
\* the others count them from 1.
transmit_packet_vlc(content) ==
  Fields(content.node_id, content.vlc_id + 1, content.payload_len,
         content.seq_number) \o content.data

generate_gateway_packet_from_bytes(buff) ==
  LET payload_len == Read16(buff, 4)
  IN  [node_id |-> Read16(buff, 0), vlc_id |-> Read16(buff, 2),
       payload_len |-> payload_len, seq_number |-> Read32(buff, 6),
       data |-> SubSeq(buff, 11, 10 + payload_len)]

transmit_to_vlc(packet) ==
  Fields(packet.payload_len, packet.node_id, packet.vlc_id,
         packet.seq_number) \o packet.data

\* On the node.
generate_from_bytes(buff) ==
  LET payload_len == Read16(buff, 0)
  IN  [node_id |-> Read16(buff, 2), vlc_id |-> Read16(buff, 4),
       payload_len |-> payload_len, seq_number |-> Read32(buff, 6),
       data |-> SubSeq(buff, 11, 10 + payload_len)]
=============================================================================
