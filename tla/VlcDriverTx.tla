----------------------------- MODULE VlcDriverTx -----------------------------
(***************************************************************************)
(* The transmit half of the VLC network driver, a Linux kernel module      *)
(* (VLC TX1 (Eth)_ourvlc/ourvlc-1.c).                                      *)
(*                                                                         *)
(*   network stack --> vlc_tx --> tx_queue --> phy_timer_handler --> PRU   *)
(*                        ^                           |                    *)
(*                        +---------- ppool <---------+                    *)
(*                                                                         *)
(* Packets travel in buffers that are linked, through their next fields,   *)
(* either into the pool of free buffers or into tx_queue.  The stack calls *)
(* vlc_tx for one packet at a time while the device queue is not stopped.  *)
(* phy_timer_handler is a Xenomai real-time timer: it preempts vlc_tx at   *)
(* any instruction, never the other way round, and the board has one core, *)
(* so a run of the handler is one step and every access of vlc_tx to what  *)
(* they share is one.  spin_lock_bh, taken only when the module parameter  *)
(* flag_lock is set, disables bottom halves and not a real-time timer: it  *)
(* changes nothing here and flag_lock keeps its default, 0.                *)
(*                                                                         *)
(* The PRU is external: at each run of the handler it has, or has not,     *)
(* read far enough for the next packet to be published (module TxRing      *)
(* models the ring between the two).                                       *)
(***************************************************************************)
EXTENDS Naturals, FiniteSets

CONSTANTS
  Buffers,     \* the buffers vlc_setup_pool allocates (pool_size of them)
  NULL,        \* the null pointer
  MaxPackets   \* bound: packets handed to vlc_tx

ASSUME DriverAssumption ==
  /\ IsFiniteSet(Buffers) /\ Buffers # {} /\ NULL \notin Buffers
  /\ MaxPackets \in Nat

VARIABLES
  next,           \* next field of every buffer
  ppool,          \* head of the pool
  tx_queue,       \* head of the packets to transmit
  data,           \* the packet in every buffer, by number; 0: none yet
  stopped,        \* netif_queue_stopped
  is_write_next,  \* the handler may write another packet
  pc,             \* where vlc_tx is
  tmp_pkt,        \* tmp_pkt of vlc_tx, the buffer it fills
  head,           \* register: the next field that becomes the new ppool
  last_pkt,       \* last_pkt of vlc_enqueue_pkt
  accepted,       \* history: packets handed to vlc_tx, also their number
  written,        \* history: packets copied to the PRU
  latest,         \* history: number of the last one copied
  reopened        \* history: the interface was taken down and opened again

links   == <<next, ppool, tx_queue>>
locals  == <<tmp_pkt, head, last_pkt>>
history == <<accepted, written, latest, reopened>>
vars == <<links, data, stopped, is_write_next, pc, locals, history>>

Pointer == Buffers \cup {NULL}

\* No link leads out of S.
Closed(S) == \A b \in S : next[b] \in S \cup {NULL}

\* The list that starts at pointer p: what every closed set with p contains.
Chain(p) ==
  {b \in Buffers :
     \A S \in SUBSET Buffers : p \in S \cup {NULL} /\ Closed(S) => b \in S}

\* vlc_setup_pool has linked all the buffers, in some order, into the pool.
Init ==
  /\ ppool \in Buffers
  /\ \E rank \in [Buffers -> 1 .. Cardinality(Buffers)] :
       /\ \A b, c \in Buffers : rank[b] = rank[c] => b = c
       /\ rank[ppool] = 1
       /\ next = [b \in Buffers |->
                   IF \E c \in Buffers : rank[c] = rank[b] + 1
                   THEN CHOOSE c \in Buffers : rank[c] = rank[b] + 1
                   ELSE NULL]
  /\ tx_queue = NULL
  /\ data = [b \in Buffers |-> 0]
  /\ stopped = FALSE /\ is_write_next = TRUE
  /\ pc = "idle" /\ tmp_pkt = NULL /\ head = NULL /\ last_pkt = NULL
  /\ accepted = 0 /\ written = 0 /\ latest = 0 /\ reopened = FALSE

Goto(from, to) == pc = from /\ pc' = to

-----------------------------------------------------------------------------
(* vlc_tx.                                                                 *)

\* vlc_get_tx_buffer loads ppool and its next field.  A null ppool is not
\* tested for: the kernel faults.
GetLoad ==
  /\ ~stopped /\ accepted < MaxPackets
  /\ accepted' = accepted + 1
  /\ IF ppool = NULL
     THEN Goto("idle", "oops") /\ UNCHANGED locals
     ELSE /\ Goto("idle", "store")
          /\ tmp_pkt' = ppool /\ head' = next[ppool]
          /\ UNCHANGED last_pkt
  /\ UNCHANGED <<links, data, stopped, is_write_next, written, latest, reopened>>

GetStore ==
  /\ Goto("store", "stop")
  /\ ppool' = head
  /\ UNCHANGED <<next, tx_queue, data, stopped, is_write_next, locals,
                 history>>

\* Mutant of GetStop: the device queue is never stopped.
GetStopMissing ==
  /\ Goto("stop", "fill")
  /\ head' = NULL
  /\ UNCHANGED <<links, data, stopped, is_write_next, tmp_pkt, last_pkt,
                 history>>

\* The test that stops the device queue uses the value just stored, still in
\* its register, and not what ppool has become since.
GetStop ==
  /\ Goto("stop", "fill")
  /\ stopped' = (stopped \/ head = NULL)
  /\ head' = NULL                          \* dead from here on
  /\ UNCHANGED <<links, data, is_write_next, tmp_pkt, last_pkt, history>>

\* The buffer is vlc_tx's own while it is filled.
Fill ==
  /\ Goto("fill", "enqueue")
  /\ next' = [next EXCEPT ![tmp_pkt] = NULL]
  /\ data' = [data EXCEPT ![tmp_pkt] = accepted]
  /\ UNCHANGED <<ppool, tx_queue, stopped, is_write_next, locals, history>>

\* vlc_enqueue_pkt: find the end of tx_queue, and link the packet there.
EnqueueLoad ==
  /\ Goto("enqueue", IF tx_queue = NULL THEN "first" ELSE "walk")
  /\ last_pkt' = tx_queue
  /\ UNCHANGED <<links, data, stopped, is_write_next, tmp_pkt, head, history>>

EnqueueFirst ==
  /\ Goto("first", "idle")
  /\ tx_queue' = tmp_pkt
  /\ tmp_pkt' = NULL /\ last_pkt' = NULL
  /\ UNCHANGED <<next, ppool, data, stopped, is_write_next, head, history>>

\* Mutant of EnqueueWalk: the walk steps past the last packet.
EnqueueWalkPastEnd ==
  /\ Goto("walk", IF next[last_pkt] = NULL THEN "link" ELSE "walk")
  /\ last_pkt' = next[last_pkt]
  /\ UNCHANGED <<links, data, stopped, is_write_next, tmp_pkt, head, history>>

EnqueueWalk ==
  /\ Goto("walk", IF next[last_pkt] = NULL THEN "link" ELSE "walk")
  /\ last_pkt' = IF next[last_pkt] = NULL THEN last_pkt ELSE next[last_pkt]
  /\ UNCHANGED <<links, data, stopped, is_write_next, tmp_pkt, head, history>>

\* Mutant of EnqueueLink: the packet goes to the head of tx_queue, as in the
\* code that is commented out there ("FIXME - misorders packets").
EnqueueLinkAtHead ==
  /\ Goto("link", "idle")
  /\ next' = [next EXCEPT ![tmp_pkt] = tx_queue]
  /\ tx_queue' = tmp_pkt
  /\ tmp_pkt' = NULL /\ last_pkt' = NULL
  /\ UNCHANGED <<ppool, data, stopped, is_write_next, head, history>>

EnqueueLink ==
  /\ Goto("link", "idle")
  /\ next' = [next EXCEPT ![last_pkt] = tmp_pkt]
  /\ tmp_pkt' = NULL /\ last_pkt' = NULL
  /\ UNCHANGED <<ppool, tx_queue, data, stopped, is_write_next, head,
                 history>>

vlc_tx == \/ GetLoad \/ GetStore \/ GetStop \/ Fill
          \/ EnqueueLoad \/ EnqueueFirst \/ EnqueueWalk \/ EnqueueLink

-----------------------------------------------------------------------------
(* phy_timer_handler.                                                      *)

\* Mutant of SendHead: the buffer is released before it leaves tx_queue.
SendHeadReleasedFirst ==
  /\ tx_queue # NULL
  /\ tx_queue' = ppool
  /\ written' = written + 1 /\ latest' = data[tx_queue]
  /\ next' = [next EXCEPT ![tx_queue] = ppool]
  /\ ppool' = tx_queue
  /\ stopped' = (stopped /\ ppool # NULL)

\* Mutant of SendHead: the rest of tx_queue is forgotten with its head.
SendHeadAlone ==
  /\ tx_queue # NULL
  /\ tx_queue' = NULL
  /\ written' = written + 1 /\ latest' = data[tx_queue]
  /\ next' = [next EXCEPT ![tx_queue] = ppool]
  /\ ppool' = tx_queue
  /\ stopped' = (stopped /\ ppool # NULL)

\* Mutant of SendHead: the device queue is never woken.
SendHeadAsleep ==
  /\ tx_queue # NULL
  /\ tx_queue' = next[tx_queue]
  /\ written' = written + 1 /\ latest' = data[tx_queue]
  /\ next' = [next EXCEPT ![tx_queue] = ppool]
  /\ ppool' = tx_queue
  /\ UNCHANGED stopped

\* vlc_dequeue_pkt, write_packet_to_pru_memory and vlc_release_buffer on the
\* packet at the head of tx_queue.
SendHead ==
  /\ tx_queue # NULL
  /\ tx_queue' = next[tx_queue]
  /\ written' = written + 1 /\ latest' = data[tx_queue]
  /\ next' = [next EXCEPT ![tx_queue] = ppool]
  /\ ppool' = tx_queue
  /\ stopped' = (stopped /\ ppool # NULL)

\* Nothing to send: the dummy packet vlc_q_pkt goes out instead.
SendDummy ==
  /\ tx_queue = NULL
  /\ UNCHANGED <<links, stopped, written, latest>>

\* moved: the PRU's read index lets the packet just written be published,
\* which is what allows the next one.
phy_timer_handler(moved) ==
  /\ IF is_write_next THEN SendHead \/ SendDummy
     ELSE UNCHANGED <<links, stopped, written, latest>>
  /\ is_write_next' = moved
  /\ UNCHANGED <<data, pc, locals, accepted, reopened>>

-----------------------------------------------------------------------------
(* The interface is taken down, which waits for vlc_tx, and opened again:  *)
(* vlc_release does nothing, vlc_open starts the device queue.             *)
vlc_open ==
  /\ pc = "idle" /\ stopped
  /\ stopped' = FALSE
  /\ reopened' = TRUE
  /\ UNCHANGED <<links, data, is_write_next, pc, locals, accepted, written,
                 latest>>

Next == \/ vlc_tx
        \/ \E moved \in BOOLEAN : phy_timer_handler(moved)
        \/ vlc_open

Spec == Init /\ [][Next]_vars

(* vlc_tx runs to its end once called, the timer fires every slot_ns, and  *)
(* the PRU goes on reading.  Nobody has to hand over packets, nor to take  *)
(* the interface down.                                                     *)
Fairness == /\ WF_vars(vlc_tx /\ pc # "idle")
            /\ WF_vars(phy_timer_handler(TRUE))

FairSpec == Spec /\ Fairness
-----------------------------------------------------------------------------
(* Properties.                                                             *)

\* The type invariant.
TypeOK ==
  /\ next \in [Buffers -> Pointer]
  /\ ppool \in Pointer /\ tx_queue \in Pointer
  /\ data \in [Buffers -> Nat]
  /\ stopped \in BOOLEAN /\ is_write_next \in BOOLEAN
  /\ pc \in {"idle", "store", "stop", "fill", "enqueue", "first", "walk",
             "link", "oops"}
  /\ tmp_pkt \in Pointer /\ head \in Pointer /\ last_pkt \in Pointer
  /\ pc \in {"store", "stop", "fill", "enqueue", "first", "walk", "link"}
       => tmp_pkt \in Buffers
  /\ pc \in {"walk", "link"} => last_pkt \in Buffers
  /\ accepted \in Nat /\ written \in Nat /\ latest \in Nat
  /\ reopened \in BOOLEAN

\* vlc_tx may take a buffer without testing for one: whenever the stack may
\* call it, the pool holds a buffer, however the handler interleaves with
\* the previous call, as long as the interface has not been taken down and
\* opened again (vlc_open starts the device queue whatever the pool holds).
PoolReady == pc = "idle" /\ ~stopped /\ ~reopened => ppool # NULL

\* No buffer is free and waiting to be sent at the same time, although the
\* two lists share their links and vlc_tx can follow a link of tx_queue into
\* the pool.
ListsDisjoint == Chain(tx_queue) \cap Chain(ppool) = {}

\* What the driver promises to the stack above it.
Link == INSTANCE LossyLink WITH delivered <- written

\* The driver implements LossyLink: the PRU is given the packets in the order
\* of the calls of vlc_tx, none of them twice ("Fix the misorder packets") and
\* none that was not handed over, although some may be missing.
IsLossyLink == Link!Spec

\* A packet that is in tx_queue is eventually copied to the PRU.
QueuedIsWritten ==
  \A n \in 1 .. MaxPackets :
    (\E b \in Chain(tx_queue) : data[b] = n) ~> (latest >= n)

\* A device queue that is stopped with an empty pool, which is what it is
\* stopped for, is woken by vlc_release_buffer, although buffers are lost
\* where vlc_tx walks into the pool.  A queue that vlc_tx stops after the
\* handler has given a buffer back is outside the premise: the pool is then
\* not empty at any later release, and nothing wakes it.
StoppedForLackIsWoken == (stopped /\ ppool = NULL) ~> ~stopped
=============================================================================
