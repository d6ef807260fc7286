----------------------------- MODULE GatewayVlc -----------------------------
(***************************************************************************)
(* The VLC side of the gateway (gateway (eth)_gateway/main.c): packets are *)
(* sent through the light, kept until the node acknowledges them, and sent *)
(* again over RF when that takes too long.                                 *)
(*                                                                         *)
(*   schedule_packet --> vlc_queue --> transmit_vlc --> transmitter, node  *)
(*        |                                                |               *)
(*        +--> unacked_vlc_packet --> check_unacked        | status report *)
(*                     ^                                   |               *)
(*                     +---- receive_report <--------------+               *)
(*                                                                         *)
(* The configuration is the one the comment in schedule() describes, "Set  *)
(* 0 for RF, 1 for VLC (1 TX only)", with the check_unacked thread that    *)
(* main() creates in a line now commented out.  N_NODE and N_VLC are 1.    *)
(*                                                                         *)
(* status, unacked_vlc_packet and n_unacked_vlc_packet are shared without  *)
(* a lock; every access of theirs that another thread can tell apart is a  *)
(* step.  A packet is its sequence number, and numbers are used again once *)
(* MAX_SEQ_NUMBER packets were generated.  unsched_seq also advances, and  *)
(* wraps, when there is no packet, so the index under which                *)
(* schedule_packet marks a packet is in general not its sequence number,   *)
(* while check_unacked takes the two for the same.                         *)
(*                                                                         *)
(* schedule_packet pushes without the mutex transmit_vlc pops with.  The   *)
(* list and its size are kept apart here, and either may miss an update:   *)
(* when the size is too small the packets behind it are lost, when it is   *)
(* too large, or a packet was linked behind a node that had just been      *)
(* taken off, pop() dereferences a null head and the process ends.         *)
(*                                                                         *)
(* d_vlc and r, which nothing in this configuration reads, are left out,   *)
(* malloc() always succeeds, and the queues do not reach their limits,     *)
(* which are above MaxPackets.                                             *)
(***************************************************************************)
EXTENDS ReportCodec

CONSTANTS
  MAX_SEQ_NUMBER,          \* sequence numbers, in the gateway and the node
  MAX_UNACKED_VLC_PACKET,  \* size of the array unacked_vlc_packet
  max_ACK_bit_pattern,     \* the node's window
  MaxPackets               \* bound: packets generated

ASSUME VlcAssumption ==
  /\ MAX_SEQ_NUMBER \in Nat \ {0}
  /\ MAX_UNACKED_VLC_PACKET \in Nat \ {0}
  /\ max_ACK_bit_pattern \in Nat \ {0}
  /\ MaxPackets \in Nat

VARIABLES
  generated,     \* packets generated: arr_seq, before the modulo
  popped,        \* packets schedule_packet has taken from the node queue
  unsched_seq, unacked_seq, pkt_state, expire_time,   \* status
  vlc_list, vlc_size,     \* vlc_queue: the nodes from head on, and size
  freed,         \* transmit_vlc has freed the node schedule_packet holds
  unacked, n_unacked,     \* unacked_vlc_packet, n_unacked_vlc_packet
  sched,         \* schedule_packet: pc, temp, unsched_pkt_idx, loaded n
  tx,            \* transmit_vlc: pc and the packet it holds
  chk,           \* check_unacked: pc, j, l, expired, loaded n
  e,             \* error rate of the light path, in parts of 255
  received,      \* the node: numbers of the packets it has accepted
  rcv_seq,       \* the node: the first packet it still waits for
  marked,        \* history: how often an index was marked VLC_unacked
  resent         \* history: how often a packet was resent over RF

status  == <<unsched_seq, unacked_seq, pkt_state, expire_time>>
queue   == <<vlc_list, vlc_size, freed>>
array   == <<unacked, n_unacked>>
packets == <<generated, popped>>
node    == <<received, rcv_seq>>
history == <<marked, resent>>
vars == <<packets, status, queue, array, sched, tx, chk, e, node, history>>

N_NODE  == 1
NULL    == -1
GARBAGE == -2
VLC_unacked == 1
VLC_acked   == 2
RF          == 3
SeqNumbers  == 0 .. MAX_SEQ_NUMBER - 1

SchedIdle == [pc |-> "pop", temp |-> NULL, idx |-> 0, n |-> 0]

Init ==
  /\ generated = 0 /\ popped = 0
  /\ unsched_seq = 0 /\ unacked_seq = 0
  /\ pkt_state = [k \in SeqNumbers |-> 0]
  /\ expire_time = [k \in SeqNumbers |-> "passed"]     \* zero
  /\ vlc_list = << >> /\ vlc_size = 0 /\ freed = FALSE
  /\ unacked = [l \in 0 .. MAX_UNACKED_VLC_PACKET - 1 |-> GARBAGE]
  /\ n_unacked = 0
  /\ sched = SchedIdle
  /\ tx = [pc |-> "idle", packet |-> NULL]
  /\ chk = [pc |-> "start", j |-> 0, l |-> 0, expired |-> FALSE, n |-> 0]
  /\ e = 0 /\ received = {} /\ rcv_seq = 0
  /\ marked = [k \in SeqNumbers |-> 0]
  /\ resent = [k \in SeqNumbers |-> 0]

\* A null pointer was dereferenced: the threads are gone.
Dead == tx.pc = "dead"

\* The packet gets the number generated % MAX_SEQ_NUMBER.
generate_packet ==
  /\ ~Dead /\ generated < MaxPackets
  /\ generated' = generated + 1
  /\ UNCHANGED <<popped, status, queue, array, sched, tx, chk, e, node,
                 history>>

-----------------------------------------------------------------------------
(* schedule_packet, the branch for VLC.                                    *)

SchedGoto(from, to) == sched.pc = from /\ sched' = [sched EXCEPT !.pc = to]

\* pop(node_queues[i]); unsched_seq advances whether there was one or not.
SchedulePop ==
  /\ sched.pc = "pop"
  /\ unsched_seq' = (unsched_seq + 1) % MAX_SEQ_NUMBER
  /\ IF popped < generated
     THEN /\ popped' = popped + 1
          /\ sched' = [pc |-> "push", temp |-> popped % MAX_SEQ_NUMBER,
                       idx |-> unsched_seq, n |-> 0]
     ELSE UNCHANGED <<popped, sched>>
  /\ UNCHANGED <<generated, unacked_seq, pkt_state, expire_time, queue,
                 array, tx, chk, e, node, history>>

\* The push that takes no lock.  With a size of 0 the packet becomes the
\* head, whatever is there, otherwise it is linked behind the tail; then the
\* size is raised.  Once pop() has moved head past the only node, the packet
\* is linked behind that one and out of reach, unless it was linked before;
\* and when size++ and the size-- to come overlap, one of the two is lost.
SchedulePush ==
  /\ SchedGoto("push", "mark")
  /\ IF vlc_size = 0 THEN vlc_list' = << sched.temp >>
     ELSE \/ /\ vlc_list # << >> \/ tx.pc = "size"
             /\ vlc_list' = Append(vlc_list, sched.temp)
          \/ vlc_list = << >> /\ UNCHANGED vlc_list
  /\ \/ vlc_size' = vlc_size + 1
     \/ tx.pc = "size" /\ vlc_size' \in {vlc_size, vlc_size + 2}
  /\ UNCHANGED <<packets, status, freed, array, tx, chk, e, node, history>>

ScheduleMark ==
  /\ SchedGoto("mark", "expire")
  /\ pkt_state' = [pkt_state EXCEPT ![sched.idx] = VLC_unacked]
  /\ marked' = [marked EXCEPT ![sched.idx] = @ + 1]
  /\ UNCHANGED <<packets, unsched_seq, unacked_seq, expire_time, queue,
                 array, tx, chk, e, node, resent>>

ScheduleExpire ==
  /\ SchedGoto("expire", "room")
  /\ expire_time' = [expire_time EXCEPT ![sched.idx] = "ahead"]
  /\ UNCHANGED <<packets, unsched_seq, unacked_seq, pkt_state, queue, array,
                 tx, chk, e, node, history>>

\* A packet for which the array has no room is not kept.
ScheduleRoom ==
  /\ sched.pc = "room"
  /\ sched' = IF n_unacked + 1 < MAX_UNACKED_VLC_PACKET
              THEN [sched EXCEPT !.pc = "keep"] ELSE SchedIdle
  /\ freed' = (freed /\ sched'.pc = "keep")
  /\ UNCHANGED <<packets, status, vlc_list, vlc_size, array, tx, chk, e,
                 node, history>>

\* temp->data, when transmit_vlc may have freed temp: the old contents, what
\* free() writes over them, or a packet that was put since into the same
\* node, one of generate_packet or one check_unacked resends.
Copied == IF freed
          THEN {sched.temp, GARBAGE}
               \cup {k % MAX_SEQ_NUMBER : k \in popped .. generated - 1}
               \cup {k \in SeqNumbers : resent[k] > 0}
          ELSE {sched.temp}

ScheduleKeep ==
  /\ sched.pc = "keep" /\ sched' = [SchedIdle EXCEPT !.pc = "load"]
  /\ \E p \in Copied : unacked' = [unacked EXCEPT ![n_unacked] = p]
  /\ freed' = FALSE       \* like temp, of no use until the next push
  /\ UNCHANGED <<packets, status, vlc_list, vlc_size, n_unacked, tx, chk, e,
                 node, history>>

ScheduleLoad ==
  /\ sched.pc = "load"
  /\ sched' = [sched EXCEPT !.pc = "store", !.n = n_unacked]
  /\ UNCHANGED <<packets, status, queue, array, tx, chk, e, node, history>>

ScheduleStore ==
  /\ sched.pc = "store" /\ sched' = SchedIdle
  /\ n_unacked' = sched.n + 1
  /\ UNCHANGED <<packets, status, queue, unacked, tx, chk, e, node,
                 history>>

schedule_packet ==
  /\ ~Dead
  /\ \/ SchedulePop \/ SchedulePush \/ ScheduleMark \/ ScheduleExpire
     \/ ScheduleRoom \/ ScheduleKeep \/ ScheduleLoad \/ ScheduleStore

-----------------------------------------------------------------------------
(* transmit_vlc.                                                           *)

\* item = head, head = head->next.  Nobody else lowers the size, so what
\* is_empty() has found before the mutex was taken still holds.
TransmitPop ==
  /\ tx.pc = "idle" /\ vlc_size # 0
  /\ IF vlc_list = << >>
     THEN tx' = [pc |-> "dead", packet |-> NULL] /\ UNCHANGED vlc_list
     ELSE /\ tx' = [pc |-> "size", packet |-> Head(vlc_list)]
          /\ vlc_list' = Tail(vlc_list)
  /\ UNCHANGED <<packets, status, vlc_size, freed, array, sched, chk, e,
                 node, history>>

\* schedule_packet has pushed packet p and has not copied it yet.
Holds(p) == sched.pc \in {"mark", "expire", "room", "keep"} /\ sched.temp = p

\* size--, vlc_packet = temp->data, free(temp)
TransmitSize ==
  /\ tx.pc = "size"
  /\ tx' = [tx EXCEPT !.pc = "send"]
  /\ vlc_size' = vlc_size - 1
  /\ freed' = (freed \/ Holds(tx.packet))
  /\ UNCHANGED <<packets, status, vlc_list, array, sched, chk, e, node,
                 history>>

\* process_data of the node: packet k is recorded, rcv_seq advances over the
\* packets recorded and, when more than a pattern of them lies behind it,
\* leaves the rest behind.
LastOf(S) == CHOOSE k \in S : \A i \in S : i <= k

NodeReceive(k) ==
  LET S     == received \cup {k}
      last  == LastOf(S)
      first == CHOOSE i \in rcv_seq .. MAX_SEQ_NUMBER :
                 i \notin S /\ rcv_seq .. i - 1 \subseteq S
  IN  /\ received' = S
      /\ rcv_seq' = IF last - first + 1 > max_ACK_bit_pattern
                    THEN last - max_ACK_bit_pattern + 1 ELSE first

\* transmit_packet_vlc is repeated until sendto() succeeds; from there the
\* transmitter and the light deliver the packet or lose it, or deliver what
\* cannot be corrected, which the node accepts whatever number it carries.
\* (What a number beyond the node's array does is in NodeReceiver.)
transmit_packet_vlc ==
  /\ tx.pc = "send"
  /\ tx' = [pc |-> "idle", packet |-> NULL]
  /\ (\E k \in SeqNumbers : NodeReceive(k)) \/ UNCHANGED node
  /\ UNCHANGED <<packets, status, queue, array, sched, chk, e, history>>

transmit_vlc == TransmitPop \/ TransmitSize \/ transmit_packet_vlc

-----------------------------------------------------------------------------
(* check_unacked.                                                          *)

ChkGoto(from, to) == chk.pc = from /\ chk' = [chk EXCEPT !.pc = to]

NextPacket == [pc |-> "loop", j |-> chk.j + 1, l |-> 0, expired |-> FALSE,
               n |-> 0]

CheckStart ==
  /\ chk.pc = "start"
  /\ chk' = [chk EXCEPT !.pc = "loop", !.j = unacked_seq]
  /\ UNCHANGED <<packets, status, queue, array, sched, tx, e, node,
                 history>>

\* The clock is compared with expire_time before pkt_state is looked at.
CheckLoop ==
  /\ chk.pc = "loop"
  /\ chk' = IF chk.j < unsched_seq
            THEN [chk EXCEPT !.pc = "state",
                             !.expired = expire_time[chk.j] = "passed"]
            ELSE [chk EXCEPT !.pc = "start", !.j = 0]
  /\ UNCHANGED <<packets, status, queue, array, sched, tx, e, node,
                 history>>

\* Mutant of CheckState: the clock is compared the wrong way round.
CheckStateEarly ==
  /\ chk.pc = "state"
  /\ chk' = IF pkt_state[chk.j] = VLC_unacked /\ ~chk.expired
            THEN [chk EXCEPT !.pc = "find"] ELSE NextPacket
  /\ UNCHANGED <<packets, status, queue, array, sched, tx, e, node,
                 history>>

CheckState ==
  /\ chk.pc = "state"
  /\ chk' = IF pkt_state[chk.j] = VLC_unacked /\ chk.expired
            THEN [chk EXCEPT !.pc = "find"] ELSE NextPacket
  /\ UNCHANGED <<packets, status, queue, array, sched, tx, e, node,
                 history>>

CheckFind ==
  /\ chk.pc = "find"
  /\ chk' = IF chk.l >= n_unacked THEN NextPacket
            ELSE IF unacked[chk.l] = chk.j THEN [chk EXCEPT !.pc = "push"]
            ELSE [chk EXCEPT !.l = @ + 1]
  /\ UNCHANGED <<packets, status, queue, array, sched, tx, e, node,
                 history>>

\* push(rf_queue, resend)
CheckPush ==
  /\ ChkGoto("push", "mark")
  /\ resent' = [resent EXCEPT ![chk.j] = @ + 1]
  /\ UNCHANGED <<packets, status, queue, array, sched, tx, e, node,
                 marked>>

\* Mutant of CheckMark: the packet is left VLC_unacked.
CheckMarkMissing ==
  /\ ChkGoto("mark", "move")
  /\ UNCHANGED <<packets, status, queue, array, sched, tx, e, node,
                 history>>

CheckMark ==
  /\ ChkGoto("mark", "move")
  /\ pkt_state' = [pkt_state EXCEPT ![chk.j] = RF]
  /\ UNCHANGED <<packets, unsched_seq, unacked_seq, expire_time, queue,
                 array, sched, tx, e, node, history>>

\* The last packet takes the place of the one resent.
CheckMove ==
  /\ ChkGoto("move", "load")
  /\ unacked' = [unacked EXCEPT ![chk.l] = unacked[n_unacked - 1]]
  /\ UNCHANGED <<packets, status, queue, n_unacked, sched, tx,
                 e, node, history>>

CheckLoad ==
  /\ chk.pc = "load"
  /\ chk' = [chk EXCEPT !.pc = "store", !.n = n_unacked]
  /\ UNCHANGED <<packets, status, queue, array, sched, tx, e, node,
                 history>>

CheckStore ==
  /\ chk.pc = "store"
  /\ n_unacked' = chk.n - 1
  /\ chk' = NextPacket
  /\ UNCHANGED <<packets, status, queue, unacked, sched, tx,
                 e, node, history>>

check_unacked ==
  /\ ~Dead
  /\ \/ CheckStart \/ CheckLoop \/ CheckState \/ CheckFind \/ CheckPush
     \/ CheckMark \/ CheckMove \/ CheckLoad \/ CheckStore

\* The clock passes an expire_time.
Expire ==
  /\ ~Dead
  /\ \E k \in SeqNumbers :
       /\ expire_time[k] = "ahead"
       /\ expire_time' = [expire_time EXCEPT ![k] = "passed"]
  /\ UNCHANGED <<packets, unsched_seq, unacked_seq, pkt_state, queue,
                 array, sched, tx, chk, e, node, history>>

-----------------------------------------------------------------------------
(* The node's reports, which NodeReceiver models in detail, and the frames *)
(* on the RF channel.                                                      *)

StatusReport(q) ==
  LET last == IF received = {} THEN 0 ELSE LastOf(received)
      len  == last - rcv_seq + 1
  IN  [node_id |-> 1, ACK_number |-> rcv_seq, pattern_length |-> len,
       bits |-> [i \in 1 .. (IF len > 0 THEN len ELSE 0) |->
                   IF rcv_seq + i - 1 \in received THEN 1 ELSE 0],
       vlc_data |-> << [vlc_tx_id |-> 1, vlc_link_quality |-> q] >>]

\* What may reach the RF socket: a report of the node as it stands (any
\* number of them may have been lost before), when its pattern has room in
\* the node's buffer, or bytes of another station that would make a report.
Frames ==
  { [src |-> "other", dst |-> "gateway",
     wire |-> << 1, MAX_SEQ_NUMBER, 0, 1, 1, 1 >>] } \cup
  (IF PatternBytes(StatusReport(1).pattern_length) <= PATTERN_ROOM
   THEN { [src |-> "node", dst |-> "gateway",
           wire |-> convert_report_packet_to_string(StatusReport(1))] }
   ELSE {})

\* A packet resent over RF arrives.
NodeReceiveRf ==
  /\ ~Dead
  /\ \E k \in SeqNumbers : resent[k] > 0 /\ NodeReceive(k)
  /\ UNCHANGED <<packets, status, queue, array, sched, tx, chk, e, history>>

-----------------------------------------------------------------------------
(* receive_report.                                                         *)

\* The address table; setup_node_address gives both its entries the address
\* of the one node, the second beyond the N_NODE entries it has room for.
node_addresses == [i \in 0 .. 1 |-> "node"]

\* Mutant of is_from_node: who sent the frame is not tested.
is_from_anyone(f) == f.dst = "gateway"

is_from_node(f) ==
  \E i \in 0 .. N_NODE - 1 : f.src = node_addresses[i] /\ f.dst = "gateway"

\* Mutant of Acknowledges: the bit is compared with the number the decoder
\* yields, as the pattern is meant to be read.
AcknowledgesOne(bit) == bit = 1

\* report.ACK_bit_pattern[i] == '1': the character, whose code is 49.
Acknowledges(bit) == bit = 49

\* The packets report r acknowledges one by one.  Bit i, counted from 0, is
\* taken for packet ACK_number + i - 1.  With ACK_number 0 that is, for the
\* first bit, the word before the array, which malloc() keeps part of the
\* array's size in: never VLC_unacked, which is 1.
Acknowledged(r) ==
  {k \in SeqNumbers :
     /\ pkt_state[k] = VLC_unacked
     /\ \E i \in DOMAIN r.bits :
          k = r.ACK_number + (i - 1) - 1 /\ Acknowledges(r.bits[i])}

\* A packet acknowledged leaves the array; the last one takes its place.
WithoutAcked(ks) ==
  LET gone[n \in 0 .. MAX_SEQ_NUMBER] ==
        IF n = 0 THEN [a |-> unacked, n |-> n_unacked]
        ELSE LET g == gone[n - 1]
                 at == {l \in 0 .. g.n - 1 : g.a[l] = n - 1}
             IN  IF n - 1 \in ks /\ at # {}
                 THEN [a |-> [g.a EXCEPT ![CHOOSE l \in at :
                                             \A m \in at : l <= m]
                                           = g.a[g.n - 1]],
                       n |-> g.n - 1]
                 ELSE g
  IN  gone[MAX_SEQ_NUMBER]

receive_report ==
  /\ ~Dead
  /\ \E f \in Frames :
       IF is_from_node(f)
       THEN LET r == generate_status_report_from_string(f.wire)
                g == WithoutAcked(Acknowledged(r))
            IN  /\ unacked_seq' = r.ACK_number
                /\ pkt_state' = [k \in SeqNumbers |->
                                   IF k \in Acknowledged(r) THEN VLC_acked
                                   ELSE pkt_state[k]]
                /\ unacked' = g.a /\ n_unacked' = g.n
                /\ e' = 2^CHAR_BIT - 1 - r.vlc_data[1].vlc_link_quality
       ELSE UNCHANGED <<unacked_seq, pkt_state, array, e>>
  /\ UNCHANGED <<packets, unsched_seq, expire_time, queue, sched, tx, chk,
                 node, history>>

-----------------------------------------------------------------------------
Next ==
  \/ generate_packet \/ schedule_packet \/ transmit_vlc \/ check_unacked
  \/ receive_report \/ NodeReceiveRf \/ Expire

Spec == Init /\ [][Next]_vars

(* The threads are endless loops, which Linux schedules, and time passes;  *)
(* the node and the channel owe nothing.                                   *)
Fairness == /\ WF_vars(schedule_packet)
            /\ WF_vars(check_unacked)
            /\ WF_vars(Expire)

FairSpec == Spec /\ Fairness
-----------------------------------------------------------------------------
(* Properties.                                                             *)

\* The type invariant: in particular the array is never written outside its
\* bounds, whatever updates of n_unacked_vlc_packet are lost, and the size of
\* vlc_queue does not become negative.
TypeOK ==
  /\ generated \in 0 .. MaxPackets /\ popped \in 0 .. generated
  /\ unsched_seq \in SeqNumbers /\ unacked_seq \in 0 .. MAX_SEQ_NUMBER
  /\ pkt_state \in [SeqNumbers -> {0, VLC_unacked, VLC_acked, RF}]
  /\ expire_time \in [SeqNumbers -> {"passed", "ahead"}]
  /\ vlc_list \in Seq(SeqNumbers) /\ vlc_size \in Nat /\ freed \in BOOLEAN
  /\ unacked \in [0 .. MAX_UNACKED_VLC_PACKET - 1 ->
                    SeqNumbers \cup {GARBAGE}]
  /\ n_unacked \in 0 .. MAX_UNACKED_VLC_PACKET - 1
  /\ chk.pc = "move" => n_unacked > 0
  /\ e \in Byte /\ received \subseteq SeqNumbers
  /\ rcv_seq \in 0 .. MAX_SEQ_NUMBER

\* The node has accepted packet k, or its window has passed k: it waits for
\* packets from max_ACK_bit_pattern below the last one on.
Settled(k) ==
  k \in received \/ \E i \in received : k + max_ACK_bit_pattern <= i

\* The gateway never takes a packet for delivered that the node still waits
\* for: neither those below unacked_seq, where check_unacked does not look,
\* nor those marked VLC_acked.  For the latter two faults of receive_report
\* cancel out: the bit is compared with a character it never equals, and it
\* would otherwise be credited to the packet before the one it stands for
\* (and the array be shortened under check_unacked, which TypeOK would show).
\* (What the node gave up, when its window slid, counts as delivered, and so
\* does a number it read from a frame that could not be corrected.)
NoFalseAck ==
  \A k \in SeqNumbers :
    k < unacked_seq \/ pkt_state[k] = VLC_acked => Settled(k)

\* A packet is resent over RF at most once for every time schedule_packet has
\* marked its index, although the copy kept for it may be repeated in the
\* array: after a lost update of its length, when the node it was copied from
\* had been freed, or when its number was used again.
ResentOncePerMark == \A k \in SeqNumbers : resent[k] <= marked[k]

Held(k) == /\ pkt_state[k] = VLC_unacked
           /\ \E l \in 0 .. n_unacked - 1 : unacked[l] = k

LooksAt(k) == ~Dead /\ chk.pc = "state" /\ chk.j = k

\* A packet that is held for resending and that check_unacked looks at again
\* and again does not stay held for ever: it is resent, or the array loses
\* it.  check_unacked looks at those from unacked_seq up to unsched_seq, which
\* keeps running round; that it comes by is a matter of the periods of the
\* two loops.
HeldIsResolved ==
  \A k \in SeqNumbers : []<>LooksAt(k) => (Held(k) ~> ~Held(k))
=============================================================================
