------------------------------- MODULE TxRing -------------------------------
(***************************************************************************)
(* The ring of packets in the PRU's memory, between the transmit driver    *)
(* (phy_timer_handler in VLC TX1 (Eth)_ourvlc/ourvlc-1.c) and the firmware *)
(* that modulates the LED (VLC TX1 (Eth)_vlc_tx/TXPRU/TXPRU.p).            *)
(*                                                                         *)
(* The memory starts with write_idx, stored by the driver, and read_idx,   *)
(* stored by the PRU; the packets follow from offset FIRST on.  Processor  *)
(* and PRU run concurrently: each access to the shared memory is a step.   *)
(* Each side computes the length of a packet for itself.  Offsets are the  *)
(* real ones; of the bytes the model keeps whose packet they are.  Packets *)
(* are numbered from the oldest one not yet sent, 1, and those sent are 0: *)
(* each end of a transmission renumbers them, and the model needs no bound.*)
(*                                                                         *)
(* The repository holds two versions of the firmware: TXPRU.bin, which is  *)
(* loaded, and the source TXPRU.p, changed since; they differ in one       *)
(* constant.  A packet's payload length is read from the ring, and is that *)
(* of every packet as long as the PRU reads it where a packet begins.      *)
(***************************************************************************)
EXTENDS Naturals

CONSTANTS
  PAYLOAD_LEN,                  \* payload of every packet, data and dummy
  ADDRESS_LENGTH, ECC_LEN,
  SEQ_NUMBER_LENGTH,            \* as ourvlc-1.h has it
  SEQ_NUMBER_LENGTH_PRU,        \* of the firmware: 24 in TXPRU.p, 4 in the
                                \* committed TXPRU.bin
  BUFFER_LIMIT                  \* the ring wraps at this offset or beyond

ASSUME RingAssumption ==
  /\ PAYLOAD_LEN \in Nat /\ ADDRESS_LENGTH \in Nat /\ ECC_LEN \in Nat
  /\ SEQ_NUMBER_LENGTH \in Nat /\ SEQ_NUMBER_LENGTH_PRU \in Nat
  /\ BUFFER_LIMIT \in Nat

FIRST == 4
DATA_LENGTH_BYTE == 2

\* Bytes that write_packet_to_pru_memory copies for one packet.
DriverLength ==
  DATA_LENGTH_BYTE + PAYLOAD_LEN + 2 * ADDRESS_LENGTH + SEQ_NUMBER_LENGTH
    + ECC_LEN

\* Mutant of PruLength: the parity bytes are forgotten.
PruLengthNoEcc ==
  DATA_LENGTH_BYTE + PAYLOAD_LEN + 2 * ADDRESS_LENGTH + SEQ_NUMBER_LENGTH_PRU

\* Bytes by which the PRU moves on for the same packet.
PruLength ==
  DATA_LENGTH_BYTE + PAYLOAD_LEN + 2 * ADDRESS_LENGTH + SEQ_NUMBER_LENGTH_PRU
    + ECC_LEN

VARIABLES
  mem,            \* the packets in memory: [n : number, at : offset]
  mem_write_idx,  \* the two words at the start of the memory
  mem_read_idx,
  write_idx,      \* of the driver, ahead of mem_write_idx until published
  is_write_next,  \* of the driver
  handler,        \* where phy_timer_handler is
  r9,             \* the PRU's offset into the ring
  pru,            \* where the firmware is
  packets         \* history: packets written and not sent

driver == <<write_idx, is_write_next, handler>>
firmware == <<r9, pru>>
vars == <<mem, mem_write_idx, mem_read_idx, driver, firmware, packets>>

Init ==
  /\ mem = {}
  /\ mem_write_idx = FIRST /\ mem_read_idx = FIRST
  /\ write_idx = FIRST /\ is_write_next = TRUE
  /\ handler = "write"
  /\ r9 = 0 /\ pru = "check"
  /\ packets = 0

Wrapped(idx) == IF idx >= BUFFER_LIMIT THEN FIRST ELSE idx

Overlaps(at, p) == p.at < at + DriverLength /\ at < p.at + DriverLength

-----------------------------------------------------------------------------
(* phy_timer_handler, one run after another.                               *)

\* Copy a packet, of tx_queue or the dummy, to write_idx.
WritePacket ==
  /\ handler = "write" /\ is_write_next
  /\ packets' = packets + 1
  /\ mem' = {p \in mem : ~Overlaps(mem_write_idx, p)}
              \cup {[n |-> packets + 1, at |-> mem_write_idx]}
  /\ write_idx' = Wrapped(mem_write_idx + DriverLength)
  /\ is_write_next' = FALSE
  /\ handler' = "check"
  /\ UNCHANGED <<mem_write_idx, mem_read_idx, firmware>>

\* A run that finds is_write_next cleared goes straight to the read index.
SkipWrite ==
  /\ handler = "write" /\ ~is_write_next
  /\ handler' = "check"
  /\ UNCHANGED <<mem, mem_write_idx, mem_read_idx, write_idx, is_write_next,
                 packets, firmware>>

\* Mutant of CheckRead: the read index is not looked at.
CheckReadAlways ==
  /\ handler = "check"
  /\ handler' = "publish"
  /\ UNCHANGED <<mem, mem_write_idx, mem_read_idx, write_idx, is_write_next,
                 packets, firmware>>

\* A full ring, which would look empty, is not published.
CheckRead ==
  /\ handler = "check"
  /\ handler' = IF mem_read_idx # write_idx THEN "publish" ELSE "write"
  /\ UNCHANGED <<mem, mem_write_idx, mem_read_idx, write_idx, is_write_next,
                 packets, firmware>>

\* Mutant of Publish: the driver is not told that it may write again.
PublishOnce ==
  /\ handler = "publish"
  /\ mem_write_idx' = write_idx
  /\ handler' = "write"
  /\ UNCHANGED <<mem, mem_read_idx, write_idx, is_write_next, packets,
                 firmware>>

Publish ==
  /\ handler = "publish"
  /\ mem_write_idx' = write_idx
  /\ is_write_next' = TRUE
  /\ handler' = "write"
  /\ UNCHANGED <<mem, mem_read_idx, write_idx, packets, firmware>>

phy_timer_handler == WritePacket \/ SkipWrite \/ CheckRead \/ Publish

-----------------------------------------------------------------------------
(* The firmware.                                                           *)

\* CHECK_INDEX: loop until the two indices differ.
CHECK_INDEX ==
  /\ pru = "check" /\ mem_write_idx # mem_read_idx
  /\ r9' = mem_read_idx
  /\ pru' = "send"
  /\ UNCHANGED <<mem, mem_write_idx, mem_read_idx, driver, packets>>

\* The numbers once the oldest packet is sent.
OneLess(n) == IF n = 0 THEN 0 ELSE n - 1
Renumber == /\ mem' = {[n |-> OneLess(p.n), at |-> p.at] : p \in mem}
            /\ packets' = OneLess(packets)

\* Preamble to body have been shifted out, read byte by byte since
\* CHECK_INDEX; PACKET_DONE stores where the next packet starts.
PACKET_DONE ==
  /\ pru = "send"
  /\ r9' = Wrapped(r9 + PruLength)
  /\ mem_read_idx' = r9'
  /\ pru' = "check"
  /\ Renumber
  /\ UNCHANGED <<mem_write_idx, driver>>

TXPRU == CHECK_INDEX \/ PACKET_DONE

Next == phy_timer_handler \/ TXPRU

Spec == Init /\ [][Next]_vars

(* The timer fires periodically and the firmware is an endless loop.       *)
Fairness == WF_vars(phy_timer_handler) /\ WF_vars(TXPRU)

FairSpec == Spec /\ Fairness
-----------------------------------------------------------------------------
(* Properties.                                                             *)

\* As long as the PRU transmits, the packet at its offset is the next one in
\* the order of writing, whole: the PRU never starts in the middle of a
\* packet, repeats one, skips one or has one overwritten under it.
SendsNextPacket == pru = "send" => [n |-> 1, at |-> r9] \in mem

\* The two indices implement the counter of RingChannel.
Channel == INSTANCE RingChannel WITH
  Slots <- (BUFFER_LIMIT - FIRST) \div DriverLength,
  pending <- ((mem_write_idx + (BUFFER_LIMIT - FIRST) - mem_read_idx)
                % (BUFFER_LIMIT - FIRST)) \div DriverLength

\* Seen through its indices the ring is a counter that goes up by one when
\* the driver publishes and down by one when the PRU is done with a packet.
RingIsChannel == Channel!Spec

\* The PRU goes on sending for ever: the driver, waiting for the read index
\* to move, and the PRU, waiting for the write index to move, never wait for
\* each other.
KeepsSending == []<>(pru = "send") /\ []<>(pru = "check")
=============================================================================
