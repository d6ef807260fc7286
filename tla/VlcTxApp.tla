------------------------------ MODULE VlcTxApp ------------------------------
(***************************************************************************)
(* The application of the VLC transmitter (VLC TX1 (Eth)_vlc_tx/main.c and *)
(* packet_queue.c): main receives packets of the gateway from Ethernet and *)
(* queues them, transmit_vlc dequeues them and writes them to the vlc0     *)
(* device, send_queue_report tells the gateway how many are waiting, where *)
(* receive_vlc_report (gateway (eth)_gateway/main.c) stores it in vk.      *)
(*                                                                         *)
(* The three are threads of one process; neither the queue, a linked list  *)
(* with a size, nor queue_size is protected by a lock.  Each load and each *)
(* store of them is a step, as the unoptimised build executes it.  A node  *)
(* of the list is named by the packet it carries: malloc gives the address *)
(* of a freed node again only to main, which then clears its link first.   *)
(* What the packets look like on the way is in PacketFormat.               *)
(***************************************************************************)
EXTENDS PacketFormat

CONSTANTS
  QUEUE_LIMIT,  \* limit of vlc_queue, and of queue_size
  MaxPackets,   \* bound: packets that arrive for this transmitter
  FirstSeq,     \* sequence number of the first of them
  PAYLOAD_SIZE  \* bytes of payload the gateway puts into each

\* payload_len is a 16-bit number, seq_number one of 32 bits.
ASSUME AppAssumption ==
  /\ QUEUE_LIMIT \in Nat \ {0} /\ MaxPackets \in Nat
  /\ FirstSeq \in Nat /\ PAYLOAD_SIZE \in 0 .. BYTE * BYTE - 1
  /\ (FirstSeq + MaxPackets) \div (BYTE * BYTE) < BYTE * BYTE

NULL  == 0
N_VLC == 1
Nodes == 1 .. MaxPackets

\* The k-th packet the gateway sends; the payload is random there.
Packet(k) ==
  [node_id |-> 1, vlc_id |-> 0, payload_len |-> PAYLOAD_SIZE,
   seq_number |-> FirstSeq + k,
   data |-> [i \in 1 .. PAYLOAD_SIZE |-> (100 * k + i) % BYTE]]

VARIABLES
  head, tail, size,  \* struct Queue
  prev,              \* the link of every node, towards the tail
  data,              \* the packet of every node
  queue_size,        \* main.c's own count
  main_pc, tx_pc,    \* where the two threads are
  main_reg, tx_reg,  \* what each has loaded and not yet stored back
  temp,              \* the packet main holds, also how many have arrived
  from_queue,        \* the packet transmit_vlc holds
  vlc_buff,          \* the last packet written to vlc0
  latest,            \* history: its number
  reported,          \* the last queue_size sent to the gateway
  vk                 \* the gateway: queue length of this transmitter

queue     == <<head, tail, size, prev>>
main_vars == <<main_pc, main_reg, temp, data>>
written   == <<vlc_buff, latest>>
tx_vars   == <<tx_pc, tx_reg, from_queue, written>>
gateway   == <<reported, vk>>
vars == <<queue, queue_size, main_vars, tx_vars, gateway>>

Init ==
  /\ head = NULL /\ tail = NULL /\ size = 0
  /\ prev = [n \in Nodes |-> NULL]
  /\ queue_size = 0 /\ reported = 0 /\ vk = 0
  /\ main_pc = "recv" /\ main_reg = 0 /\ temp = NULL
  /\ tx_pc = "poll" /\ tx_reg = 0 /\ from_queue = NULL
  /\ data = [n \in Nodes |-> << >>] /\ vlc_buff = << >> /\ latest = 0

\* A segmentation fault of transmit_vlc ends the whole process.
Alive == tx_pc # "segfault"

MainGoto(from, to) == Alive /\ main_pc = from /\ main_pc' = to
TxGoto(from, to) == tx_pc = from /\ tx_pc' = to

-----------------------------------------------------------------------------
(* main.                                                                   *)

\* A frame seen on the Ethernet; the socket gets those of others as well.
is_for_this_tx(f) == f.src = "gateway" /\ f.dst = "vlc"

Frames ==
  [src : {"gateway", "vlc", "other"}, dst : {"gateway", "vlc", "other"},
   body : {transmit_packet_vlc(Packet(k)) : k \in Nodes}]

\* The next packet of the gateway for this transmitter is read.
Read(f) ==
  /\ temp < MaxPackets
  /\ is_for_this_tx(f) /\ f.body = transmit_packet_vlc(Packet(temp + 1))
  /\ temp' = temp + 1
  /\ data' = [data EXCEPT ![temp'] =
                generate_gateway_packet_from_bytes(f.body)]
  /\ UNCHANGED <<queue, queue_size, main_reg, tx_vars, gateway>>

\* Mutant of Receive: no test of queue_size.
ReceiveUnlimited ==
  /\ \E f \in Frames : Read(f)
  /\ MainGoto("recv", "limit")

\* It is dropped when queue_size is at the limit.
Receive ==
  /\ \E f \in Frames : Read(f)
  /\ MainGoto("recv", IF queue_size + 1 < QUEUE_LIMIT THEN "limit" ELSE "recv")

\* Enqueue.  A refused packet is counted in queue_size all the same.
EnqueueLimit ==
  /\ MainGoto("limit", IF size >= QUEUE_LIMIT THEN "count" ELSE "empty")
  /\ UNCHANGED <<queue, queue_size, main_reg, temp, data, tx_vars, gateway>>

EnqueueEmpty ==
  /\ MainGoto("empty", IF size = 0 THEN "head" ELSE "link")
  /\ UNCHANGED <<queue, queue_size, main_reg, temp, data, tx_vars, gateway>>

EnqueueHead ==
  /\ MainGoto("head", "tail")
  /\ head' = temp
  /\ UNCHANGED <<tail, size, prev, queue_size, main_reg, temp, data, tx_vars,
                 gateway>>

\* tail may have been dequeued, and freed, since size was tested.
EnqueueLink ==
  /\ MainGoto("link", "tail")
  /\ prev' = [prev EXCEPT ![tail] = temp]
  /\ UNCHANGED <<head, tail, size, queue_size, main_reg, temp, data, tx_vars,
                 gateway>>

EnqueueTail ==
  /\ MainGoto("tail", "size")
  /\ tail' = temp
  /\ UNCHANGED <<head, size, prev, queue_size, main_reg, temp, data, tx_vars,
                 gateway>>

EnqueueLoadSize ==
  /\ MainGoto("size", "size_store")
  /\ main_reg' = size
  /\ UNCHANGED <<queue, queue_size, temp, data, tx_vars, gateway>>

EnqueueStoreSize ==
  /\ MainGoto("size_store", "count")
  /\ size' = main_reg + 1 /\ main_reg' = 0
  /\ UNCHANGED <<head, tail, prev, queue_size, temp, data, tx_vars, gateway>>

CountLoad ==
  /\ MainGoto("count", "count_store")
  /\ main_reg' = queue_size
  /\ UNCHANGED <<queue, queue_size, temp, data, tx_vars, gateway>>

CountStore ==
  /\ MainGoto("count_store", "recv")
  /\ queue_size' = main_reg + 1 /\ main_reg' = 0
  /\ UNCHANGED <<queue, temp, data, tx_vars, gateway>>

main == \/ Receive \/ EnqueueLimit \/ EnqueueEmpty \/ EnqueueHead
        \/ EnqueueLink \/ EnqueueTail \/ EnqueueLoadSize
        \/ EnqueueStoreSize \/ CountLoad \/ CountStore

-----------------------------------------------------------------------------
(* transmit_vlc.                                                           *)

\* Mutant of Poll: the queue is not tested for being empty.
PollAlways ==
  /\ TxGoto("poll", "item")
  /\ UNCHANGED <<queue, queue_size, main_vars, tx_reg, from_queue, written,
                 gateway>>

\* isEmpty, in the loop and again in Dequeue: only this thread lowers size,
\* so the second test cannot fail.
Poll ==
  /\ size # 0
  /\ TxGoto("poll", "item")
  /\ UNCHANGED <<queue, queue_size, main_vars, tx_reg, from_queue, written,
                 gateway>>

DequeueItem ==
  /\ TxGoto("item", "next")
  /\ from_queue' = head
  /\ UNCHANGED <<queue, queue_size, main_vars, tx_reg, written, gateway>>

\* (pQueue->head)->prev
DequeueNext ==
  /\ TxGoto("next", IF head = NULL THEN "segfault" ELSE "advance")
  /\ tx_reg' = IF head = NULL THEN 0 ELSE prev[head]
  /\ UNCHANGED <<queue, queue_size, main_vars, from_queue, written, gateway>>

\* Mutant of DequeueAdvance: the head stays where it is.
DequeueAdvanceNot ==
  /\ TxGoto("advance", "size")
  /\ tx_reg' = 0
  /\ UNCHANGED <<queue, queue_size, main_vars, from_queue, written, gateway>>

DequeueAdvance ==
  /\ TxGoto("advance", "size")
  /\ head' = tx_reg /\ tx_reg' = 0
  /\ UNCHANGED <<tail, size, prev, queue_size, main_vars, from_queue, written,
                 gateway>>

DequeueLoadSize ==
  /\ TxGoto("size", "size_store")
  /\ tx_reg' = size
  /\ UNCHANGED <<queue, queue_size, main_vars, from_queue, written, gateway>>

\* Dequeue returns; transmit_vlc goes on with what it got, unless it is NULL.
DequeueStoreSize ==
  /\ TxGoto("size_store", IF from_queue = NULL THEN "poll" ELSE "write")
  /\ size' = tx_reg - 1 /\ tx_reg' = 0
  /\ UNCHANGED <<head, tail, prev, queue_size, main_vars, from_queue, written,
                 gateway>>

\* transmit_to_vlc, which retries write() until the device takes the packet.
Write ==
  /\ TxGoto("write", "count")
  /\ vlc_buff' = transmit_to_vlc(data[from_queue])
  /\ latest' = from_queue /\ from_queue' = NULL
  /\ UNCHANGED <<queue, queue_size, main_vars, tx_reg, gateway>>

UncountLoad ==
  /\ TxGoto("count", "count_store")
  /\ tx_reg' = queue_size
  /\ UNCHANGED <<queue, queue_size, main_vars, from_queue, written, gateway>>

UncountStore ==
  /\ TxGoto("count_store", "poll")
  /\ queue_size' = tx_reg - 1 /\ tx_reg' = 0
  /\ UNCHANGED <<queue, main_vars, from_queue, written, gateway>>

transmit_vlc == \/ Poll \/ DequeueItem \/ DequeueNext \/ DequeueAdvance
                \/ DequeueLoadSize \/ DequeueStoreSize \/ Write
                \/ UncountLoad \/ UncountStore

-----------------------------------------------------------------------------
send_queue_report ==
  /\ Alive
  /\ reported' = queue_size
  /\ UNCHANGED <<queue, queue_size, main_vars, tx_vars, vk>>

\* The addresses setup_vlc_address fills in, by position in the table.
vlc_addresses == [i \in 0 .. 1 |-> IF i = 0 THEN "vlc" ELSE "vlc2"]

\* The loop over the N_VLC transmitters compares with the first entry only.
is_vlc_tx_address(f) ==
  \E i \in 0 .. N_VLC - 1 : f.src = vlc_addresses[0] /\ f.dst = "gateway"

\* The gateway receives a report, perhaps an old one again: it must come from
\* the transmitter and name it.  Other frames change nothing.
receive_vlc_report ==
  /\ \E f \in [src : {"vlc", "vlc2", "other"}, dst : {"gateway", "other"},
                vlc_id : 0 .. N_VLC + 1] :
       is_vlc_tx_address(f) /\ f.vlc_id \in 1 .. N_VLC
  /\ vk' = reported
  /\ UNCHANGED <<queue, queue_size, main_vars, tx_vars, reported>>

Next == main \/ transmit_vlc \/ send_queue_report \/ receive_vlc_report

Spec == Init /\ [][Next]_vars
-----------------------------------------------------------------------------
(* Properties.                                                             *)

\* Packets reach vlc0 in the order of their arrival, each at most once, even
\* though the queue is not locked, and the node reads from the bytes what the
\* gateway put into them, with its transmitters counted from 1.
WrittenInOrder ==
  [][tx_pc = "write" /\ tx_pc' = "count" =>
       /\ latest' > latest
       /\ generate_from_bytes(vlc_buff')
            = [Packet(latest') EXCEPT !.vlc_id = @ + 1]]_vars

\* The gateway is never told of a full queue or more: the unlocked updates of
\* queue_size, which can take it below zero, never take it to the limit.
QueueReportBelowLimit == vk < QUEUE_LIMIT

\* size never promises less than nothing: transmit_vlc cannot take it below
\* zero, where isEmpty would never hold again.
SizeNotNegative == size >= 0
=============================================================================
