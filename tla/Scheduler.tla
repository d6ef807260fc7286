----------------------------- MODULE Scheduler -----------------------------
(***************************************************************************)
(* schedule() of the gateway (gateway (eth)_gateway/main.c): the greedy    *)
(* choice, for one node, between keeping its next packet, sending it over  *)
(* RF, and sending it over a set of VLC transmitters.  It adds the         *)
(* transmitter that lowers the cost most until none does; the cost of a    *)
(* set K is                                                                *)
(*                                                                         *)
(*    -gn + (sum of vk over K) + r * (product of e over K)                 *)
(*                                                                         *)
(* schedule() runs in the thread of schedule_packet and takes no lock,     *)
(* while the other threads of the gateway change what it reads: r          *)
(* (transmit_rf), gn (generate_packet), vk (receive_vlc_report) and e      *)
(* (receive_report).  An iteration of a loop is a step here.               *)
(*                                                                         *)
(* The error probabilities are doubles; here they are multiples of 1/SCALE *)
(* and costs are scaled by UNIT, so that they stay integers.  The          *)
(* committed code ends by overwriting the choice with RF (retval), after   *)
(* computing it.                                                           *)
(***************************************************************************)
EXTENDS Integers

CONSTANTS
  N_VLC,                  \* number of VLC transmitters
  SCALE,                  \* error probabilities are multiples of 1/SCALE
  MAX_LENGTH,             \* bound on r, gn and vk
  MAX_PICKS               \* bound on the transmitters added in one call

IDLE_MODE == -1
RF_MODE == 0
VLC_MODE == 1

Transmitters == 0..N_VLC-1
Lengths == 0..MAX_LENGTH
UNIT == SCALE ^ (MAX_PICKS + 1)

VARIABLES
  gn, r, vk, e,           \* lengths of the node's, RF and VLC queues, errors
  mode_temp, tgt,         \* choice so far and its scaled cost
  v_sum, err,             \* queues and scaled error product of the set so far
  vlc_src_set, n_vlc_src, \* array of candidates
  vlc_tgt_set, n_vlc_tgt, \* array of the transmitters chosen
  i, vlc_tmp,             \* position in the scan, best candidate of the scan
  mode,                   \* retval.mode of the last call
  pc

shared == <<gn, r, vk, e>>
locals == <<mode_temp, tgt, v_sum, err, vlc_src_set, n_vlc_src, vlc_tgt_set,
            n_vlc_tgt, i, vlc_tmp>>
vars == <<shared, locals, mode, pc>>

\* The queue lengths and probabilities at the start of the gateway.
Init ==
  /\ gn = 0 /\ r = 0
  /\ vk = [k \in Transmitters |-> 0]
  /\ e = [k \in Transmitters |-> 0]
  /\ mode = IDLE_MODE /\ pc = "idle"
  /\ mode_temp = IDLE_MODE /\ tgt = 0 /\ v_sum = 0 /\ err = UNIT
  /\ vlc_src_set = [k \in Transmitters |-> k] /\ n_vlc_src = N_VLC
  /\ vlc_tgt_set = [k \in Transmitters |-> 0] /\ n_vlc_tgt = 0
  /\ i = 0 /\ vlc_tmp = -1

----------------------------------------------------------------------------
\* The call: locals get their initial values, all transmitters are
\* candidates.  The malloc'ed vlc_tgt_set is read only up to n_vlc_tgt.
Enter ==
  /\ pc = "idle" /\ pc' = "rf_test"
  /\ mode_temp' = IDLE_MODE /\ tgt' = 0 /\ v_sum' = 0 /\ err' = UNIT
  /\ vlc_src_set' = [k \in Transmitters |-> k] /\ n_vlc_src' = N_VLC
  /\ vlc_tgt_set' = [k \in Transmitters |-> 0] /\ n_vlc_tgt' = 0
  /\ i' = 0 /\ vlc_tmp' = -1
  /\ UNCHANGED <<shared, mode>>

\* RF beats idling ...
RfTest ==
  /\ pc = "rf_test"
  /\ IF r - gn < 0
     THEN mode_temp' = RF_MODE /\ pc' = "rf_target"
     ELSE UNCHANGED mode_temp /\ pc' = "while"
  /\ UNCHANGED <<shared, mode, tgt, v_sum, err, vlc_src_set,
                 n_vlc_src, vlc_tgt_set, n_vlc_tgt, i, vlc_tmp>>

\* ... and its cost, from gn and r read once more, is the one to beat.
RfTarget ==
  /\ pc = "rf_target" /\ pc' = "while"
  /\ tgt' = (r - gn) * UNIT
  /\ UNCHANGED <<shared, mode, mode_temp, v_sum, err, vlc_src_set,
                 n_vlc_src, vlc_tgt_set, n_vlc_tgt, i, vlc_tmp>>

\* while(n_vlc_src > 0): one more round while there are candidates.
Round ==
  /\ pc = "while"
  /\ IF n_vlc_src > 0
     THEN pc' = "scan" /\ i' = 0 /\ vlc_tmp' = -1
     ELSE pc' = "return" /\ UNCHANGED <<i, vlc_tmp>>
  /\ UNCHANGED <<shared, mode, mode_temp, tgt, v_sum, err,
                 vlc_src_set, n_vlc_src, vlc_tgt_set, n_vlc_tgt>>

\* Scaled cost of adding transmitter k to the set chosen so far.
Cost(k) == (v_sum + vk[k] - gn) * UNIT + (r * err * e[k]) \div SCALE

\* One candidate: the code takes the position i for the transmitter.
Scan ==
  /\ pc = "scan" /\ i < n_vlc_src
  /\ IF Cost(i) < tgt
     THEN vlc_tmp' = i /\ tgt' = Cost(i)
     ELSE UNCHANGED <<vlc_tmp, tgt>>
  /\ i' = i + 1
  /\ UNCHANGED <<shared, mode, pc, mode_temp, v_sum, err,
                 vlc_src_set, n_vlc_src, vlc_tgt_set, n_vlc_tgt>>

\* The last candidate takes the place of the chosen one, if that is found.
Remove ==
  LET at == {j \in 0..n_vlc_src-1 : vlc_src_set[j] = vlc_tmp}
      vlc_tmp_idx == CHOOSE j \in at : \A l \in at : j <= l
  IN IF at = {}
     THEN UNCHANGED <<vlc_src_set, n_vlc_src>>
     ELSE /\ vlc_src_set' =
               [vlc_src_set EXCEPT ![vlc_tmp_idx] = vlc_src_set[n_vlc_src-1]]
          /\ n_vlc_src' = n_vlc_src - 1

\* The best candidate of the scan joins the set; a write of vlc_tgt_set
\* beyond its end is kept here as one more element.
Pick ==
  /\ pc = "scan" /\ i = n_vlc_src /\ vlc_tmp # -1
  /\ n_vlc_tgt < MAX_PICKS
  /\ pc' = "while"
  /\ mode_temp' = VLC_MODE
  /\ v_sum' = v_sum + vk[vlc_tmp]
  /\ err' = (err * e[vlc_tmp]) \div SCALE
  /\ Remove
  /\ vlc_tgt_set' = [k \in DOMAIN vlc_tgt_set \cup {n_vlc_tgt} |->
                       IF k = n_vlc_tgt THEN vlc_tmp ELSE vlc_tgt_set[k]]
  /\ n_vlc_tgt' = n_vlc_tgt + 1
  /\ UNCHANGED <<shared, mode, tgt, i, vlc_tmp>>

\* No candidate lowers the cost.
Break ==
  /\ pc = "scan" /\ i = n_vlc_src /\ vlc_tmp = -1
  /\ pc' = "return"
  /\ UNCHANGED <<shared, locals, mode>>

\* What the caller gets, whatever was computed: RF, and transmitter 0.
Return ==
  /\ pc = "return" /\ pc' = "idle"
  /\ mode' = RF_MODE
  /\ vlc_tgt_set' = [vlc_tgt_set EXCEPT ![0] = 0]
  /\ n_vlc_tgt' = 1
  /\ UNCHANGED <<shared, mode_temp, tgt, v_sum, err, vlc_src_set,
                 n_vlc_src, i, vlc_tmp>>

schedule ==
  Enter \/ RfTest \/ RfTarget \/ Round \/ Scan \/ Pick \/ Break \/ Return

\* Between two calls schedule_packet takes a packet from the node's queue.
SchedulePacket ==
  /\ pc = "idle"
  /\ gn > 0 /\ gn' = gn - 1
  /\ UNCHANGED <<r, vk, e, locals, mode, pc>>

\* The other threads: a packet is generated, leaves the RF queue, or joins it
\* again unacknowledged; a transmitter reports its queue, a node its link.
Interfere ==
  /\ \/ gn' = gn + 1 /\ UNCHANGED <<r, vk, e>>
     \/ r' \in {r - 1, r + 1} /\ UNCHANGED <<gn, vk, e>>
     \/ /\ \E k \in Transmitters, n \in Lengths : vk' = [vk EXCEPT ![k] = n]
        /\ UNCHANGED <<gn, r, e>>
     \/ /\ \E k \in Transmitters, n \in 0..SCALE : e' = [e EXCEPT ![k] = n]
        /\ UNCHANGED <<gn, r, vk>>
  /\ gn' \in Lengths /\ r' \in Lengths
  /\ UNCHANGED <<locals, mode, pc>>

Next == schedule \/ SchedulePacket \/ Interfere

Spec == Init /\ [][Next]_vars

----------------------------------------------------------------------------
\* A transmitter that was added to vlc_tgt_set is out of vlc_src_set
\* (main.c:265, 270), so that no packet goes to a transmitter twice, however
\* the queues and links change while schedule() runs.
TargetsOnce ==
  pc \in {"while", "scan", "return"} =>
    /\ \A j, k \in 0..n_vlc_tgt-1 : vlc_tgt_set[j] = vlc_tgt_set[k] => j = k
    /\ \A j \in 0..n_vlc_tgt-1, k \in 0..n_vlc_src-1 :
         vlc_tgt_set[j] # vlc_src_set[k]
=============================================================================
