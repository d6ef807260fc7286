------------------------------- MODULE RxRing -------------------------------
(***************************************************************************)
(* Reception of VLC frames on the node, up to the measurement of the link: *)
(*                                                                         *)
(*   RXPRU --> ring --> pru_phy_decoding --> mac_rx --> socket             *)
(*                                                         |               *)
(*      vlc_quality_measurement <-- Frame_Rx <-- receive_vlc               *)
(*                                                                         *)
(* RXPRU (node (rf)_node1/RXPRU/RXPRU.p) is the firmware that demodulates  *)
(* the light, pru_phy_decoding the thread of the receive driver            *)
(* (node (rf)_ourvlc/ourvlc-1.c), the last two are threads of the node's   *)
(* application (node (rf)_node1/main.c).  They run concurrently, and each  *)
(* access to what two of them share is a step.                             *)
(*                                                                         *)
(* The PRU's memory starts with write_idx, stored by the PRU, and          *)
(* read_idx, stored by the driver; the frames follow from offset FIRST on. *)
(* Offsets are those of the code; of the bytes the model keeps whose frame *)
(* they are.  Frames are numbered from the oldest one the driver is not    *)
(* done with, 1, and those it is done with are 0: each end of the driver's *)
(* loop renumbers them, and the model needs no bound on them.              *)
(*                                                                         *)
(* The firmware is loaded once, before the driver: it stores FIRST in both *)
(* indices.  What it hears and drops by itself (a wrong delimiter, a       *)
(* length other than PAYLOAD_LEN, anything on the air while it waits in    *)
(* FINAL) changes nothing.                                                 *)
(***************************************************************************)
EXTENDS Naturals

CONSTANTS
  PAYLOAD_LEN,              \* the one payload length RXPRU accepts
  ADDRESS_LENGTH, SEQ_NUMBER_LENGTH, ECC_LEN,
  MTU_VALUE,                \* largest payload the driver accepts
  BUFFER_LIMIT,             \* the ring wraps at this offset or beyond
  MaxBacklog                \* frames the kernel keeps for the socket

FIRST == 4
DATA_LENGTH_BYTE == 2

\* Bytes the PRU writes for a frame: the length, then what r16 counts.
PruLength ==
  DATA_LENGTH_BYTE
    + (PAYLOAD_LEN + 2 * ADDRESS_LENGTH + SEQ_NUMBER_LENGTH + ECC_LEN)

\* Mutant of DriverLength: the parity is not skipped.
DriverLengthNoEcc ==
  (PAYLOAD_LEN + 2 * ADDRESS_LENGTH + SEQ_NUMBER_LENGTH) + DATA_LENGTH_BYTE

\* Bytes by which the driver moves on: datalen + ECC_LEN.
DriverLength ==
  (PAYLOAD_LEN + 2 * ADDRESS_LENGTH + SEQ_NUMBER_LENGTH)
    + DATA_LENGTH_BYTE + ECC_LEN

RingSize == BUFFER_LIMIT - FIRST

\* The deployed ring holds a whole number of frames (6000 bytes, 100 each).
ASSUME RxAssumption ==
  /\ PAYLOAD_LEN \in Nat /\ ADDRESS_LENGTH \in Nat /\ ECC_LEN \in Nat
  /\ SEQ_NUMBER_LENGTH \in Nat /\ MTU_VALUE \in Nat /\ MaxBacklog \in Nat
  /\ BUFFER_LIMIT \in Nat /\ RingSize > PruLength
  /\ RingSize % PruLength = 0

VARIABLES
  mem,            \* the whole frames in memory: [n : number, at : offset]
  mem_write_idx,  \* the two words at the start of the memory
  mem_read_idx,
  r20,            \* the PRU's offset
  pru,            \* where the firmware is
  read_idx,       \* of pru_phy_decoding
  driver,         \* where pru_phy_decoding is
  frames,         \* history: frames written and not done with
  backlog,        \* frames in the socket of receive_vlc
  Frame_Rx,       \* Frame_Rx[0]: a VLC frame came in since the last reset
  sample,         \* the value of Frame_Rx last averaged into VLC_LQ
  measure,        \* where vlc_quality_measurement is
  fresh           \* history: a frame came in since Frame_Rx was sampled

ring     == <<mem, mem_write_idx, mem_read_idx, frames>>
firmware == <<r20, pru>>
decoding == <<read_idx, driver>>
quality  == <<Frame_Rx, sample, measure, fresh>>
vars == <<ring, firmware, decoding, backlog, quality>>

Init ==
  /\ mem = {} /\ frames = 0
  /\ mem_write_idx = FIRST /\ mem_read_idx = FIRST
  /\ r20 = 0 /\ pru = "hunt"
  /\ read_idx = 0 /\ driver = "read"
  /\ backlog = 0
  /\ Frame_Rx = 0 /\ sample = 0 /\ measure = "sample" /\ fresh = FALSE

Overlaps(at, p) == p.at < at + PruLength /\ at < p.at + PruLength

-----------------------------------------------------------------------------
(* The firmware.                                                           *)

\* A frame with the expected length: the PRU takes the offset from write_idx
\* and starts to write there.
PROCESS_LENGTH ==
  /\ pru = "hunt"
  /\ r20' = mem_write_idx
  /\ mem' = {p \in mem : ~Overlaps(mem_write_idx, p)}
  /\ pru' = "body"
  /\ UNCHANGED <<mem_write_idx, mem_read_idx, frames, decoding, backlog,
                 quality>>

\* The rest of the frame, byte by byte; r20 wraps at any of them.
BODY ==
  /\ pru = "body"
  /\ r20' = FIRST + ((r20 - FIRST + PruLength) % RingSize)
  /\ frames' = frames + 1
  /\ mem' = mem \cup {[n |-> frames + 1, at |-> r20]}
  /\ pru' = "final"
  /\ UNCHANGED <<mem_write_idx, mem_read_idx, decoding, backlog, quality>>

\* Mutant of FINAL: the PRU does not wait for the driver.
FINAL_NoWait ==
  /\ pru = "final"
  /\ pru' = "publish"
  /\ UNCHANGED <<ring, r20, decoding, backlog, quality>>

\* FINAL spins as long as publishing would make a full ring look empty.
FINAL ==
  /\ pru = "final" /\ mem_read_idx # r20
  /\ pru' = "publish"
  /\ UNCHANGED <<ring, r20, decoding, backlog, quality>>

STORE_WRITE_IDX ==
  /\ pru = "publish"
  /\ mem_write_idx' = r20
  /\ pru' = "hunt"
  /\ UNCHANGED <<mem, mem_read_idx, frames, r20, decoding, backlog, quality>>

RXPRU == PROCESS_LENGTH \/ BODY \/ FINAL \/ STORE_WRITE_IDX

-----------------------------------------------------------------------------
(* pru_phy_decoding.                                                       *)

LoadRead ==
  /\ driver = "read"
  /\ read_idx' = mem_read_idx
  /\ driver' = "write"
  /\ UNCHANGED <<ring, firmware, backlog, quality>>

\* Nothing new: sleep and start over.
LoadWrite ==
  /\ driver = "write"
  /\ driver' = IF mem_write_idx = read_idx THEN "read" ELSE "copy"
  /\ UNCHANGED <<ring, firmware, read_idx, backlog, quality>>

\* The frame is copied out, decoded and given to mac_rx, which drops it when
\* it gets no memory; the kernel drops it when the socket's queue is full.
\* A length out of range leaves everything as it is, for ever.
Deliver ==
  /\ driver = "copy"
  /\ PAYLOAD_LEN > 0 /\ PAYLOAD_LEN <= MTU_VALUE
  /\ \/ backlog < MaxBacklog /\ backlog' = backlog + 1
     \/ UNCHANGED backlog
  /\ driver' = "store"
  /\ UNCHANGED <<ring, firmware, read_idx, quality>>

\* The numbers once the driver is done with the oldest frame.
OneLess(n) == IF n = 0 THEN 0 ELSE n - 1
Renumber == /\ mem' = {[n |-> OneLess(p.n), at |-> p.at] : p \in mem}
            /\ frames' = OneLess(frames)

Wrapped(idx) == IF idx >= BUFFER_LIMIT THEN FIRST ELSE idx

\* Mutant of Store: the read index is not stored back.
StoreMissing ==
  /\ driver = "store"
  /\ Renumber
  /\ driver' = "read"
  /\ UNCHANGED <<mem_write_idx, mem_read_idx, read_idx, firmware, backlog,
                 quality>>

Store ==
  /\ driver = "store"
  /\ mem_read_idx' = Wrapped(read_idx + DriverLength)
  /\ Renumber
  /\ driver' = "read"
  /\ UNCHANGED <<mem_write_idx, read_idx, firmware, backlog, quality>>

pru_phy_decoding == LoadRead \/ LoadWrite \/ Deliver \/ Store

-----------------------------------------------------------------------------
(* The application.                                                        *)

\* A frame for this node or a dummy: noted in Frame_Rx.  (What else
\* receive_vlc does with it is in VlcFrame and NodeReceiver.)
receive_vlc ==
  /\ backlog > 0
  /\ backlog' = backlog - 1
  /\ Frame_Rx' = 1 /\ fresh' = TRUE
  /\ UNCHANGED <<ring, firmware, decoding, sample, measure>>

\* vlc_quality_measurement averages Frame_Rx into VLC_LQ, then resets it.
MeasureSample ==
  /\ measure = "sample" /\ measure' = "reset"
  /\ sample' = Frame_Rx
  /\ fresh' = FALSE
  /\ UNCHANGED <<ring, firmware, decoding, backlog, Frame_Rx>>

\* Mutant of MeasureReset: Frame_Rx is left as it is.
MeasureResetMissing ==
  /\ measure = "reset" /\ measure' = "sample"
  /\ UNCHANGED <<ring, firmware, decoding, backlog, Frame_Rx, sample, fresh>>

MeasureReset ==
  /\ measure = "reset" /\ measure' = "sample"
  /\ Frame_Rx' = 0
  /\ UNCHANGED <<ring, firmware, decoding, backlog, sample, fresh>>

vlc_quality_measurement == MeasureSample \/ MeasureReset

-----------------------------------------------------------------------------
Next == RXPRU \/ pru_phy_decoding \/ receive_vlc \/ vlc_quality_measurement

Spec == Init /\ [][Next]_vars

(* The firmware finishes a frame it has started and stores its index; it   *)
(* need not hear another one.  The other three are endless loops that      *)
(* Linux schedules.                                                        *)
Fairness == /\ WF_vars(RXPRU /\ pru # "hunt")
            /\ WF_vars(pru_phy_decoding)
            /\ WF_vars(receive_vlc)
            /\ WF_vars(vlc_quality_measurement)

FairSpec == Spec /\ Fairness
-----------------------------------------------------------------------------
(* Properties.                                                             *)

\* While the driver copies, the frame at its offset is the next one in the
\* order of reception, and whole: it never starts in the middle of a frame,
\* where it would find a length out of range and never leave, never repeats
\* or skips one, and has none overwritten by the PRU under it.
CopiesNextFrame == driver = "copy" => [n |-> 1, at |-> read_idx] \in mem

\* The two indices implement the counter of RingChannel.
Channel == INSTANCE RingChannel WITH
  Slots <- RingSize \div PruLength,
  pending <- ((mem_write_idx + RingSize - mem_read_idx) % RingSize)
               \div PruLength

\* Seen through its indices the ring is a counter that goes up by one when
\* the PRU publishes and down by one when the driver takes: a full ring is
\* never mistaken for an empty one and no store moves an index twice.
RingIsChannel == Channel!Spec

\* vlc_quality_measurement never averages the same frame in twice: when it
\* is about to sample a set Frame_Rx, a frame came in since its last sample.
SampleFresh == measure = "sample" /\ Frame_Rx = 1 => fresh

\* The driver and the PRU never wait for each other for ever: a published
\* frame is taken, and a frame held back in FINAL is published.
RingMoves ==
  /\ (mem_write_idx # mem_read_idx) ~> (driver = "store")
  /\ (pru = "final") ~> (pru = "hunt")
=============================================================================
