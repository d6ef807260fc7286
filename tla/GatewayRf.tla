----------------------------- MODULE GatewayRf -----------------------------
(***************************************************************************)
(* The RF path of the gateway (gateway (eth)_gateway/main.c), in the mode  *)
(* the committed schedule() selects: every packet goes to RF.              *)
(*                                                                         *)
(*   generate_packet -> node_queue -> schedule_packet -> rf_queue          *)
(*     -> transmit_rf -> tbf_queue -> tbf_transmit -> air                  *)
(*                                                                         *)
(* with add_token refilling the token bucket.  Each is a POSIX thread.     *)
(* Queue operations are made under node_queue_mutex or rf_queue_mutex and  *)
(* are one step each.  The counters gn, r, n_token and tbf_queue_length    *)
(* are plain ints shared without a lock: every x++ and x-- is a load step  *)
(* and a store step, as the unoptimised build executes it.  The repository *)
(* is built for one node (N_NODE = 1), so the node index is left out.      *)
(***************************************************************************)
EXTENDS Integers, Sequences

CONSTANTS
  NODE_QUEUE_SIZE,   \* limit of node_queue
  RF_QUEUE_SIZE,     \* limit of rf_queue
  LIMIT,             \* limit of tbf_queue
  BURST,             \* capacity of the token bucket
  TOKEN_RATE,        \* tokens added per TOKEN_PERIOD
  MAX_SEQ_NUMBER,    \* sequence numbers are 0 .. MAX_SEQ_NUMBER - 1
  SendMayFail,       \* TRUE iff sendto() may return an error
  MaxGenerated       \* bound: number of packets generate_packet makes

ASSUME GatewayAssumption ==
  /\ NODE_QUEUE_SIZE \in Nat \ {0}
  /\ RF_QUEUE_SIZE \in Nat \ {0}
  /\ LIMIT \in Nat \ {0}
  /\ BURST \in Nat
  /\ TOKEN_RATE \in Nat \ {0}
  /\ MAX_SEQ_NUMBER \in Nat \ {0}
  /\ SendMayFail \in BOOLEAN
  /\ MaxGenerated \in Nat

VARIABLES
  node_queue, rf_queue, tbf_queue,   \* the packet queues, head first
  gn, r, n_token, tbf_queue_length,  \* the shared counters
  arr_seq, unsched_seq, pkt_state,   \* struct gateway_status
  pc,         \* pc[t]: where thread t is
  reg,        \* reg[t]: value thread t has loaded and not yet stored back
  temp,       \* temp[t]: the packet thread t holds; << >> is NULL
  generated,  \* history: number of packets generated so far
  on_air      \* history: id of the last packet sent, 0 before the first

queues   == <<node_queue, rf_queue, tbf_queue>>
counters == <<gn, r, n_token, tbf_queue_length>>
status   == <<arr_seq, unsched_seq, pkt_state>>
history  == <<generated, on_air>>
vars     == <<queues, counters, status, pc, reg, temp, history>>

Threads == {"generate_packet", "schedule_packet", "transmit_rf",
            "add_token", "tbf_transmit"}

SeqNumbers == 0 .. MAX_SEQ_NUMBER - 1

\* A packet: its sequence number, and the order in which it was generated.
Packet == [id : Nat, seq : SeqNumbers]

\* Values of pkt_state: 0 from initializeGatewayStatus, RF once scheduled.
NOT_SCHEDULED == 0
RF == 3

\* Values of scheduling_result.mode.
IDLE_MODE == -1
RF_MODE == 0

Init ==
  /\ node_queue = << >> /\ rf_queue = << >> /\ tbf_queue = << >>
  /\ gn = 0 /\ r = 0 /\ n_token = 0 /\ tbf_queue_length = 0
  /\ arr_seq = 0 /\ unsched_seq = 0
  /\ pkt_state = [s \in SeqNumbers |-> NOT_SCHEDULED]
  /\ pc = [t \in Threads |-> "idle"]
  /\ reg = [t \in Threads |-> 0]
  /\ temp = [t \in Threads |-> << >>]
  /\ generated = 0 /\ on_air = 0

-----------------------------------------------------------------------------
(* Queues and counters.                                                    *)

\* Mutants of Push: a limit test off by one; insertion at the head.
PushOverLimit(q, p, limit) == IF Len(q) > limit THEN q ELSE q \o p
PushAtHead(q, p, limit)    == IF Len(q) >= limit THEN q ELSE p \o q

\* push() of the item sequence p (one packet, or NULL): refused when full.
Push(q, p, limit) == IF Len(q) >= limit THEN q ELSE q \o p

\* pop(): the popped packet, or NULL for an empty queue, and what remains.
Popped(q)   == IF q = << >> THEN << >> ELSE <<Head(q)>>
AfterPop(q) == IF q = << >> THEN << >> ELSE Tail(q)

Goto(t, from, to) == pc[t] = from /\ pc' = [pc EXCEPT ![t] = to]
Load(t, counter)  == reg' = [reg EXCEPT ![t] = counter]
Stored(t)         == reg' = [reg EXCEPT ![t] = 0]   \* the value is dead
Hold(t, p)        == temp' = [temp EXCEPT ![t] = p]

-----------------------------------------------------------------------------
(* generate_packet: one packet per period while gn leaves room.            *)

GenerateNode ==
  /\ Goto("generate_packet", "idle", "push")
  /\ gn + 1 < NODE_QUEUE_SIZE
  /\ generated < MaxGenerated
  /\ generated' = generated + 1
  /\ Hold("generate_packet", <<[id |-> generated + 1, seq |-> arr_seq]>>)
  /\ arr_seq' = (arr_seq + 1) % MAX_SEQ_NUMBER
  /\ UNCHANGED <<queues, counters, unsched_seq, pkt_state, reg, on_air>>

GeneratePush ==
  /\ Goto("generate_packet", "push", "load")
  /\ node_queue' = Push(node_queue, temp["generate_packet"], NODE_QUEUE_SIZE)
  /\ Hold("generate_packet", << >>)
  /\ UNCHANGED <<rf_queue, tbf_queue, counters, status, reg, history>>

GenerateLoad ==
  /\ Goto("generate_packet", "load", "store")
  /\ Load("generate_packet", gn)
  /\ UNCHANGED <<queues, counters, status, temp, history>>

GenerateStore ==
  /\ Goto("generate_packet", "store", "idle")
  /\ gn' = reg["generate_packet"] + 1
  /\ Stored("generate_packet")
  /\ UNCHANGED <<queues, r, n_token, tbf_queue_length, status, temp,
                 history>>

generate_packet ==
  GenerateNode \/ GeneratePush \/ GenerateLoad \/ GenerateStore

-----------------------------------------------------------------------------
(* schedule_packet: pop, advance unsched_seq (for an empty queue too), and *)
(* hand the packet to RF.  unsched_seq and pkt_state are written by this   *)
(* thread alone in RF mode.                                                *)

\* What schedule() returns.  It computes a greedy choice between RF and the
\* VLC transmitters from gn, r, vk and e, and then overrides it.
schedule == RF_MODE

SchedulePop ==
  /\ schedule # IDLE_MODE
  /\ Goto("schedule_packet", "idle",
          IF node_queue = << >> THEN "idle" ELSE "load_gn")
  /\ Hold("schedule_packet", Popped(node_queue))
  /\ node_queue' = AfterPop(node_queue)
  /\ unsched_seq' = (unsched_seq + 1) % MAX_SEQ_NUMBER
  /\ UNCHANGED <<rf_queue, tbf_queue, counters, arr_seq, pkt_state, reg,
                 history>>

ScheduleLoadGn ==
  /\ Goto("schedule_packet", "load_gn", "store_gn")
  /\ Load("schedule_packet", gn)
  /\ UNCHANGED <<queues, counters, status, temp, history>>

ScheduleStoreGn ==
  /\ Goto("schedule_packet", "store_gn", "push")
  /\ gn' = reg["schedule_packet"] - 1
  /\ Stored("schedule_packet")
  /\ UNCHANGED <<queues, r, n_token, tbf_queue_length, status, temp,
                 history>>

SchedulePush ==
  /\ schedule = RF_MODE
  /\ Goto("schedule_packet", "push", "load_r")
  /\ rf_queue' = Push(rf_queue, temp["schedule_packet"], RF_QUEUE_SIZE)
  /\ Hold("schedule_packet", << >>)
  /\ UNCHANGED <<node_queue, tbf_queue, counters, status, reg, history>>

\* The value unsched_seq had when this packet was popped.
unsched_pkt_idx == (unsched_seq + MAX_SEQ_NUMBER - 1) % MAX_SEQ_NUMBER

ScheduleLoadR ==
  /\ Goto("schedule_packet", "load_r", "store_r")
  /\ pkt_state' = [pkt_state EXCEPT ![unsched_pkt_idx] = RF]
  /\ Load("schedule_packet", r)
  /\ UNCHANGED <<queues, counters, arr_seq, unsched_seq, temp, history>>

ScheduleStoreR ==
  /\ Goto("schedule_packet", "store_r", "idle")
  /\ r' = reg["schedule_packet"] + 1
  /\ Stored("schedule_packet")
  /\ UNCHANGED <<queues, gn, n_token, tbf_queue_length, status, temp,
                 history>>

schedule_packet ==
  \/ SchedulePop \/ ScheduleLoadGn \/ ScheduleStoreGn
  \/ SchedulePush \/ ScheduleLoadR \/ ScheduleStoreR

-----------------------------------------------------------------------------
(* transmit_rf: move packets to tbf_queue while tbf_queue_length < LIMIT.  *)

RfIsEmpty ==
  /\ rf_queue # << >>
  /\ Goto("transmit_rf", "idle", "length")
  /\ UNCHANGED <<queues, counters, status, reg, temp, history>>

RfLength ==
  /\ Goto("transmit_rf", "length",
          IF tbf_queue_length < LIMIT THEN "pop" ELSE "idle")
  /\ UNCHANGED <<queues, counters, status, reg, temp, history>>

RfPop ==
  /\ Goto("transmit_rf", "pop",
          IF rf_queue = << >> THEN "idle" ELSE "push")
  /\ Hold("transmit_rf", Popped(rf_queue))
  /\ rf_queue' = AfterPop(rf_queue)
  /\ UNCHANGED <<node_queue, tbf_queue, counters, status, reg, history>>

\* push() is refused by a full tbf_queue and its result is not looked at.
RfPush ==
  /\ Goto("transmit_rf", "push", "load_length")
  /\ tbf_queue' = Push(tbf_queue, temp["transmit_rf"], LIMIT)
  /\ Hold("transmit_rf", << >>)
  /\ UNCHANGED <<node_queue, rf_queue, counters, status, reg, history>>

RfLoadLength ==
  /\ Goto("transmit_rf", "load_length", "store_length")
  /\ Load("transmit_rf", tbf_queue_length)
  /\ UNCHANGED <<queues, counters, status, temp, history>>

RfStoreLength ==
  /\ Goto("transmit_rf", "store_length", "load_r")
  /\ tbf_queue_length' = reg["transmit_rf"] + 1
  /\ Stored("transmit_rf")
  /\ UNCHANGED <<queues, gn, r, n_token, status, temp, history>>

RfLoadR ==
  /\ Goto("transmit_rf", "load_r", "store_r")
  /\ Load("transmit_rf", r)
  /\ UNCHANGED <<queues, counters, status, temp, history>>

RfStoreR ==
  /\ Goto("transmit_rf", "store_r", "idle")
  /\ r' = reg["transmit_rf"] - 1
  /\ Stored("transmit_rf")
  /\ UNCHANGED <<queues, gn, n_token, tbf_queue_length, status, temp,
                 history>>

transmit_rf ==
  \/ RfIsEmpty \/ RfLength \/ RfPop \/ RfPush
  \/ RfLoadLength \/ RfStoreLength \/ RfLoadR \/ RfStoreR

-----------------------------------------------------------------------------
(* add_token: the test and the addition read n_token separately.           *)

\* Mutants of TokenTest: the comparison off by one, and the wrong way round.
TokenTestLax ==
  /\ BURST - n_token >= TOKEN_RATE - 1
  /\ Goto("add_token", "idle", "load")
  /\ UNCHANGED <<queues, counters, status, reg, temp, history>>

TokenTestReversed ==
  /\ BURST - n_token <= TOKEN_RATE
  /\ Goto("add_token", "idle", "load")
  /\ UNCHANGED <<queues, counters, status, reg, temp, history>>

TokenTest ==
  /\ BURST - n_token >= TOKEN_RATE
  /\ Goto("add_token", "idle", "load")
  /\ UNCHANGED <<queues, counters, status, reg, temp, history>>

TokenLoad ==
  /\ Goto("add_token", "load", "store")
  /\ Load("add_token", n_token)
  /\ UNCHANGED <<queues, counters, status, temp, history>>

TokenStore ==
  /\ Goto("add_token", "store", "idle")
  /\ n_token' = reg["add_token"] + TOKEN_RATE
  /\ Stored("add_token")
  /\ UNCHANGED <<queues, gn, r, tbf_queue_length, status, temp, history>>

add_token == TokenTest \/ TokenLoad \/ TokenStore

-----------------------------------------------------------------------------
(* tbf_transmit: send one packet per token.                                *)

\* Mutant of TbfIsEmpty: the emptiness test is missing.
TbfIsEmptyMissing ==
  /\ Goto("tbf_transmit", "idle", "token")
  /\ UNCHANGED <<queues, counters, status, reg, temp, history>>

TbfIsEmpty ==
  /\ tbf_queue # << >>
  /\ Goto("tbf_transmit", "idle", "token")
  /\ UNCHANGED <<queues, counters, status, reg, temp, history>>

TbfToken ==
  /\ Goto("tbf_transmit", "token", IF n_token > 0 THEN "pop" ELSE "idle")
  /\ UNCHANGED <<queues, counters, status, reg, temp, history>>

TbfPop ==
  /\ Goto("tbf_transmit", "pop",
          IF tbf_queue = << >> THEN "idle" ELSE "send")
  /\ Hold("tbf_transmit", Popped(tbf_queue))
  /\ tbf_queue' = AfterPop(tbf_queue)
  /\ UNCHANGED <<node_queue, rf_queue, counters, status, reg, history>>

\* transmit_packet_rf() returned a positive byte count.
TbfSent ==
  /\ Goto("tbf_transmit", "send", "load_token")
  /\ on_air' = Head(temp["tbf_transmit"]).id
  /\ Hold("tbf_transmit", << >>)
  /\ UNCHANGED <<queues, counters, status, reg, generated>>

\* sendto() failed: the packet is forgotten, and so is its length count.
TbfSendFailed ==
  /\ SendMayFail
  /\ Goto("tbf_transmit", "send", "idle")
  /\ Hold("tbf_transmit", << >>)
  /\ UNCHANGED <<queues, counters, status, reg, history>>

TbfLoadToken ==
  /\ Goto("tbf_transmit", "load_token", "store_token")
  /\ Load("tbf_transmit", n_token)
  /\ UNCHANGED <<queues, counters, status, temp, history>>

TbfStoreToken ==
  /\ Goto("tbf_transmit", "store_token", "load_length")
  /\ n_token' = reg["tbf_transmit"] - 1
  /\ Stored("tbf_transmit")
  /\ UNCHANGED <<queues, gn, r, tbf_queue_length, status, temp, history>>

TbfLoadLength ==
  /\ Goto("tbf_transmit", "load_length", "store_length")
  /\ Load("tbf_transmit", tbf_queue_length)
  /\ UNCHANGED <<queues, counters, status, temp, history>>

TbfStoreLength ==
  /\ Goto("tbf_transmit", "store_length", "idle")
  /\ tbf_queue_length' = reg["tbf_transmit"] - 1
  /\ Stored("tbf_transmit")
  /\ UNCHANGED <<queues, gn, r, n_token, status, temp, history>>

tbf_transmit ==
  \/ TbfIsEmpty \/ TbfToken \/ TbfPop \/ TbfSent \/ TbfSendFailed
  \/ TbfLoadToken \/ TbfStoreToken \/ TbfLoadLength \/ TbfStoreLength

-----------------------------------------------------------------------------
Next == \/ generate_packet \/ schedule_packet \/ transmit_rf
        \/ add_token \/ tbf_transmit

Spec == Init /\ [][Next]_vars

(* Every thread is an endless loop over usleep() and mutex sections of a   *)
(* few instructions, scheduled by Linux: a thread that can go on does.     *)
Fairness ==
  /\ WF_vars(generate_packet)
  /\ WF_vars(schedule_packet)
  /\ WF_vars(transmit_rf)
  /\ WF_vars(add_token)
  /\ WF_vars(tbf_transmit)

FairSpec == Spec /\ Fairness
-----------------------------------------------------------------------------
(* Properties.                                                             *)

PcValues == {"idle", "push", "load", "store", "load_gn", "store_gn",
             "load_r", "store_r", "length", "pop", "load_length",
             "store_length", "token", "send", "load_token", "store_token"}

QueuesOK ==
  /\ node_queue \in Seq(Packet) /\ Len(node_queue) <= NODE_QUEUE_SIZE
  /\ rf_queue \in Seq(Packet) /\ Len(rf_queue) <= RF_QUEUE_SIZE
  /\ tbf_queue \in Seq(Packet) /\ Len(tbf_queue) <= LIMIT

CountersOK ==
  gn \in Int /\ r \in Int /\ n_token \in Int /\ tbf_queue_length \in Int

StatusOK ==
  /\ arr_seq \in SeqNumbers /\ unsched_seq \in SeqNumbers
  /\ pkt_state \in [SeqNumbers -> {NOT_SCHEDULED, RF}]

HandsOK ==
  temp \in [Threads -> Seq(Packet)] /\ \A t \in Threads : Len(temp[t]) <= 1

\* The type invariant: every queue holds packets and respects the limit it
\* was constructed with (construct_queue in main), every counter is an int,
\* a thread holds at most one packet.
TypeOK ==
  /\ QueuesOK /\ CountersOK /\ StatusOK /\ HandsOK
  /\ pc \in [Threads -> PcValues]
  /\ reg \in [Threads -> Int]
  /\ generated \in Nat /\ on_air \in Nat

\* The token bucket never holds a negative number of tokens nor more than
\* BURST (gateway.h: "MAXIMUM NUMBER OF TOKEN"), although add_token and
\* tbf_transmit update n_token without a lock and may lose each other's
\* updates.
TokenBounds == 0 <= n_token /\ n_token <= BURST

\* Why TokenBounds holds: the inductive strengthening.  A value add_token has
\* tested or loaded only gets smaller until it stores, since only tbf_transmit
\* interferes and it only decrements; a value tbf_transmit has tested or
\* loaded only gets larger until it stores, since only add_token interferes.
TokenInv ==
  /\ TokenBounds
  /\ pc["add_token"] = "load" => n_token + TOKEN_RATE <= BURST
  /\ pc["add_token"] = "store" => /\ 0 <= reg["add_token"]
                                  /\ n_token <= reg["add_token"]
                                  /\ reg["add_token"] + TOKEN_RATE <= BURST
  /\ pc["tbf_transmit"] \in {"pop", "send", "load_token"} => 1 <= n_token
  /\ pc["tbf_transmit"] = "store_token" => /\ 1 <= reg["tbf_transmit"]
                                           /\ reg["tbf_transmit"] <= n_token

\* transmit_rf and tbf_transmit test is_empty() before they take the mutex
\* and pop() after; the pop still never returns NULL, since no other thread
\* pops the same queue.
PopNeverNull ==
  /\ pc["transmit_rf"] \in {"length", "pop"} => rf_queue # << >>
  /\ pc["tbf_transmit"] \in {"token", "pop"} => tbf_queue # << >>
  /\ pc["tbf_transmit"] = "send" => temp["tbf_transmit"] # << >>

\* Packets leave the gateway in the order they were generated and never
\* twice, through three queues, five threads and refused pushes.
AirInOrder ==
  [][pc["tbf_transmit"] = "send" /\ pc'["tbf_transmit"] = "load_token"
       => on_air' > on_air]_vars

\* A packet in tbf_queue is eventually taken out and handed to sendto():
\* no interleaving of add_token and tbf_transmit loses tokens for ever.
TbfServed ==
  \A i \in 1 .. MaxGenerated :
    (\E k \in DOMAIN tbf_queue : tbf_queue[k].id = i)
      ~> (\A k \in DOMAIN tbf_queue : tbf_queue[k].id # i)

\* What transmit_rf says of itself: "SEND THE WAITING PACKETS FOR RF".
\* A packet in rf_queue is eventually taken out of it.
WaitingPacketsForRfSent ==
  \A i \in 1 .. MaxGenerated :
    (\E k \in DOMAIN rf_queue : rf_queue[k].id = i)
      ~> (\A k \in DOMAIN rf_queue : rf_queue[k].id # i)
=============================================================================
