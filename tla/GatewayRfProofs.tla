--------------------------- MODULE GatewayRfProofs ---------------------------
(***************************************************************************)
(* Proofs about GatewayRf, for every value of its constants: the type      *)
(* invariant, the bounds of the token bucket, the absence of a NULL pop,   *)
(* and the order of the packets on the air.                                *)
(***************************************************************************)
EXTENDS GatewayRf, TLAPS

\* push() keeps a queue of packets within the limit it was constructed with.
LEMMA PushType ==
  ASSUME NEW q \in Seq(Packet), NEW p \in Seq(Packet), NEW limit \in Nat,
         Len(q) <= limit, Len(p) <= 1
  PROVE  Push(q, p, limit) \in Seq(Packet) /\ Len(Push(q, p, limit)) <= limit
BY DEF Push

\* pop() yields at most one packet and never lengthens the queue.
LEMMA PopType ==
  ASSUME NEW q \in Seq(Packet)
  PROVE  /\ Popped(q) \in Seq(Packet) /\ Len(Popped(q)) <= 1
         /\ AfterPop(q) \in Seq(Packet) /\ Len(AfterPop(q)) <= Len(q)
         /\ q # << >> => Popped(q) # << >>
BY DEF Popped, AfterPop

\* Sequence numbers stay in range when they wrap at MAX_SEQ_NUMBER.
LEMMA SeqNumberWrap ==
  ASSUME NEW s \in SeqNumbers
  PROVE  /\ (s + 1) % MAX_SEQ_NUMBER \in SeqNumbers
         /\ (s + MAX_SEQ_NUMBER - 1) % MAX_SEQ_NUMBER \in SeqNumbers
BY GatewayAssumption DEF SeqNumbers

(***************************************************************************)
(* Type correctness.  Each part of TypeOK is kept by every step: by the    *)
(* actions that change it, one case each, and by the others trivially.     *)
(***************************************************************************)

\* The queues stay within their limits.
LEMMA QueuesStep == TypeOK /\ Next => QueuesOK'
<1> SUFFICES ASSUME TypeOK, Next PROVE QueuesOK'
  OBVIOUS
<1>0. /\ QueuesOK
      /\ \A t \in Threads : temp[t] \in Seq(Packet) /\ Len(temp[t]) <= 1
      /\ NODE_QUEUE_SIZE \in Nat /\ RF_QUEUE_SIZE \in Nat /\ LIMIT \in Nat
      /\ {"generate_packet", "schedule_packet", "transmit_rf"} \subseteq Threads
  BY GatewayAssumption DEF TypeOK, HandsOK, Threads
<1>1. CASE GeneratePush
  <2>1. node_queue' = Push(node_queue, temp["generate_packet"], NODE_QUEUE_SIZE)
    BY <1>1 DEF GeneratePush
  <2>2. node_queue' \in Seq(Packet) /\ Len(node_queue') <= NODE_QUEUE_SIZE
    BY <1>0, <2>1, PushType DEF QueuesOK
  <2>. QED
    BY <1>0, <1>1, <2>2 DEF GeneratePush, QueuesOK
<1>2. CASE SchedulePop
  <2>1. node_queue' = AfterPop(node_queue)
    BY <1>2 DEF SchedulePop
  <2>2. node_queue' \in Seq(Packet) /\ Len(node_queue') <= NODE_QUEUE_SIZE
    BY <1>0, <2>1, PopType DEF QueuesOK
  <2>. QED
    BY <1>0, <1>2, <2>2 DEF SchedulePop, QueuesOK
<1>3. CASE SchedulePush
  <2>1. rf_queue' = Push(rf_queue, temp["schedule_packet"], RF_QUEUE_SIZE)
    BY <1>3 DEF SchedulePush
  <2>2. rf_queue' \in Seq(Packet) /\ Len(rf_queue') <= RF_QUEUE_SIZE
    BY <1>0, <2>1, PushType DEF QueuesOK
  <2>. QED
    BY <1>0, <1>3, <2>2 DEF SchedulePush, QueuesOK
<1>4. CASE RfPop
  <2>1. rf_queue' = AfterPop(rf_queue)
    BY <1>4 DEF RfPop
  <2>2. rf_queue' \in Seq(Packet) /\ Len(rf_queue') <= RF_QUEUE_SIZE
    BY <1>0, <2>1, PopType DEF QueuesOK
  <2>. QED
    BY <1>0, <1>4, <2>2 DEF RfPop, QueuesOK
<1>5. CASE RfPush
  <2>1. tbf_queue' = Push(tbf_queue, temp["transmit_rf"], LIMIT)
    BY <1>5 DEF RfPush
  <2>2. tbf_queue' \in Seq(Packet) /\ Len(tbf_queue') <= LIMIT
    BY <1>0, <2>1, PushType DEF QueuesOK
  <2>. QED
    BY <1>0, <1>5, <2>2 DEF RfPush, QueuesOK
<1>6. CASE TbfPop
  <2>1. tbf_queue' = AfterPop(tbf_queue)
    BY <1>6 DEF TbfPop
  <2>2. tbf_queue' \in Seq(Packet) /\ Len(tbf_queue') <= LIMIT
    BY <1>0, <2>1, PopType DEF QueuesOK
  <2>. QED
    BY <1>0, <1>6, <2>2 DEF TbfPop, QueuesOK
<1>7. CASE UNCHANGED queues
  BY <1>0, <1>7 DEF queues, QueuesOK
<1>. QED
  BY <1>1, <1>2, <1>3, <1>4, <1>5, <1>6, <1>7
     DEF Next, generate_packet, schedule_packet, transmit_rf, add_token,
         tbf_transmit, GenerateNode, GenerateLoad, GenerateStore,
         ScheduleLoadGn, ScheduleStoreGn, ScheduleLoadR, ScheduleStoreR,
         RfIsEmpty, RfLength, RfLoadLength, RfStoreLength, RfLoadR, RfStoreR,
         TokenTest, TokenLoad, TokenStore, TbfIsEmpty, TbfToken, TbfSent,
         TbfSendFailed, TbfLoadToken, TbfStoreToken, TbfLoadLength,
         TbfStoreLength

\* The counters stay ints, and so do the values loaded from them.
LEMMA CountersStep ==
  TypeOK /\ Next => CountersOK' /\ reg' \in [Threads -> Int]
<1> SUFFICES ASSUME TypeOK, Next PROVE CountersOK' /\ reg' \in [Threads -> Int]
  OBVIOUS
<1> USE GatewayAssumption DEF TypeOK, CountersOK, Threads
<1>1. CASE GenerateStore
  BY <1>1 DEF GenerateStore, Stored
<1>2. CASE ScheduleStoreGn
  BY <1>2 DEF ScheduleStoreGn, Stored
<1>3. CASE ScheduleStoreR
  BY <1>3 DEF ScheduleStoreR, Stored
<1>4. CASE RfStoreLength
  BY <1>4 DEF RfStoreLength, Stored
<1>5. CASE RfStoreR
  BY <1>5 DEF RfStoreR, Stored
<1>6. CASE TokenStore
  BY <1>6 DEF TokenStore, Stored
<1>7. CASE TbfStoreToken
  BY <1>7 DEF TbfStoreToken, Stored
<1>8. CASE TbfStoreLength
  BY <1>8 DEF TbfStoreLength, Stored
<1>9. CASE UNCHANGED counters /\ UNCHANGED reg
  BY <1>9 DEF counters
<1>10. CASE UNCHANGED counters /\ \E t \in Threads :
              Load(t, gn) \/ Load(t, r) \/ Load(t, n_token)
                \/ Load(t, tbf_queue_length)
  BY <1>10 DEF counters, Load
<1>11. generate_packet => GenerateStore \/ (UNCHANGED counters /\ UNCHANGED reg)
          \/ (UNCHANGED counters /\ Load("generate_packet", gn))
  BY DEF generate_packet, GenerateNode, GeneratePush, GenerateLoad
<1>12. schedule_packet => ScheduleStoreGn \/ ScheduleStoreR
          \/ (UNCHANGED counters /\ UNCHANGED reg)
          \/ (UNCHANGED counters /\ Load("schedule_packet", gn))
          \/ (UNCHANGED counters /\ Load("schedule_packet", r))
  BY DEF schedule_packet, SchedulePop, ScheduleLoadGn, SchedulePush,
         ScheduleLoadR
<1>13. transmit_rf => RfStoreLength \/ RfStoreR
          \/ (UNCHANGED counters /\ UNCHANGED reg)
          \/ (UNCHANGED counters /\ Load("transmit_rf", tbf_queue_length))
          \/ (UNCHANGED counters /\ Load("transmit_rf", r))
  BY DEF transmit_rf, RfIsEmpty, RfLength, RfPop, RfPush, RfLoadLength, RfLoadR
<1>14. add_token => TokenStore \/ (UNCHANGED counters /\ UNCHANGED reg)
          \/ (UNCHANGED counters /\ Load("add_token", n_token))
  BY DEF add_token, TokenTest, TokenLoad
<1>15. tbf_transmit => TbfStoreToken \/ TbfStoreLength
          \/ (UNCHANGED counters /\ UNCHANGED reg)
          \/ (UNCHANGED counters /\ Load("tbf_transmit", n_token))
          \/ (UNCHANGED counters /\ Load("tbf_transmit", tbf_queue_length))
  BY DEF tbf_transmit, TbfIsEmpty, TbfToken, TbfPop, TbfSent, TbfSendFailed,
         TbfLoadToken, TbfLoadLength
<1>. QED
  BY <1>1, <1>2, <1>3, <1>4, <1>5, <1>6, <1>7, <1>8, <1>9, <1>10, <1>11,
     <1>12, <1>13, <1>14, <1>15 DEF Next

\* Sequence numbers stay in range and pkt_state takes no other value.
LEMMA StatusStep == TypeOK /\ Next => StatusOK'
<1> SUFFICES ASSUME TypeOK, Next PROVE StatusOK'
  OBVIOUS
<1> USE DEF TypeOK, StatusOK
<1>1. CASE GenerateNode
  BY <1>1, SeqNumberWrap DEF GenerateNode
<1>2. CASE SchedulePop
  BY <1>2, SeqNumberWrap DEF SchedulePop
<1>3. CASE ScheduleLoadR
  BY <1>3, SeqNumberWrap DEF ScheduleLoadR, unsched_pkt_idx
<1>4. CASE UNCHANGED status
  BY <1>4 DEF status
<1>. QED
  BY <1>1, <1>2, <1>3, <1>4
     DEF Next, generate_packet, schedule_packet, transmit_rf, add_token,
         tbf_transmit, GeneratePush, GenerateLoad, GenerateStore,
         ScheduleLoadGn, ScheduleStoreGn, SchedulePush, ScheduleStoreR,
         RfIsEmpty, RfLength, RfPop, RfPush, RfLoadLength, RfStoreLength,
         RfLoadR, RfStoreR, TokenTest, TokenLoad, TokenStore, TbfIsEmpty,
         TbfToken, TbfPop, TbfSent, TbfSendFailed, TbfLoadToken,
         TbfStoreToken, TbfLoadLength, TbfStoreLength

\* A thread that takes hold of at most one packet keeps HandsOK.
LEMMA HoldType ==
  ASSUME HandsOK, NEW t \in Threads, NEW p \in Seq(Packet), Len(p) <= 1,
         Hold(t, p)
  PROVE  HandsOK'
BY DEF HandsOK, Hold

\* A thread never holds more than one packet.
LEMMA HandsStep == TypeOK /\ Next => HandsOK'
<1> SUFFICES ASSUME TypeOK, Next PROVE HandsOK'
  OBVIOUS
<1>1. HandsOK /\ QueuesOK
  BY DEF TypeOK
<1>2. CASE \E t \in Threads : Hold(t, << >>)
  <2>1. << >> \in Seq(Packet) /\ Len(<< >>) <= 1
    OBVIOUS
  <2>2. PICK t \in Threads : Hold(t, << >>)
    BY <1>2
  <2>. QED
    BY <1>1, <2>1, <2>2, HoldType
<1>3. CASE GenerateNode
  <2> DEFINE p == [id |-> generated + 1, seq |-> arr_seq]
  <2>1. p \in Packet
    BY DEF TypeOK, StatusOK, Packet
  <2>2. Hold("generate_packet", <<p>>) /\ "generate_packet" \in Threads
    BY <1>3 DEF GenerateNode, Threads
  <2> HIDE DEF p
  <2>3. <<p>> \in Seq(Packet) /\ Len(<<p>>) <= 1
    BY <2>1
  <2>. QED
    BY <1>1, <2>2, <2>3, HoldType
<1>4. CASE SchedulePop
  BY <1>1, <1>4, HoldType, PopType DEF SchedulePop, QueuesOK, Threads
<1>5. CASE RfPop
  BY <1>1, <1>5, HoldType, PopType DEF RfPop, QueuesOK, Threads
<1>6. CASE TbfPop
  BY <1>1, <1>6, HoldType, PopType DEF TbfPop, QueuesOK, Threads
<1>7. CASE UNCHANGED temp
  BY <1>1, <1>7 DEF HandsOK
<1>. QED
  BY <1>2, <1>3, <1>4, <1>5, <1>6, <1>7
     DEF Threads, Next, generate_packet, schedule_packet, transmit_rf,
         add_token, tbf_transmit, GeneratePush, GenerateLoad, GenerateStore,
         ScheduleLoadGn, ScheduleStoreGn, SchedulePush, ScheduleLoadR,
         ScheduleStoreR, RfIsEmpty, RfLength, RfPush, RfLoadLength,
         RfStoreLength, RfLoadR, RfStoreR, TokenTest, TokenLoad, TokenStore,
         TbfIsEmpty, TbfToken, TbfSent, TbfSendFailed, TbfLoadToken,
         TbfStoreToken, TbfLoadLength, TbfStoreLength

\* A thread only goes to places it has code for.
LEMMA PcStep == TypeOK /\ Next => pc' \in [Threads -> PcValues]
<1> SUFFICES ASSUME TypeOK, Next PROVE pc' \in [Threads -> PcValues]
  OBVIOUS
<1>1. ASSUME NEW t \in Threads, NEW from, NEW to \in PcValues, Goto(t, from, to)
      PROVE  pc' \in [Threads -> PcValues]
  BY <1>1 DEF TypeOK, Goto
<1>. USE DEF Threads, PcValues
<1>2. CASE generate_packet
  BY <1>1, <1>2 DEF generate_packet, GenerateNode, GeneratePush, GenerateLoad,
                    GenerateStore
<1>3. CASE schedule_packet
  BY <1>1, <1>3 DEF schedule_packet, SchedulePop, ScheduleLoadGn,
                    ScheduleStoreGn, SchedulePush, ScheduleLoadR,
                    ScheduleStoreR
<1>4. CASE transmit_rf
  BY <1>1, <1>4 DEF transmit_rf, RfIsEmpty, RfLength, RfPop, RfPush,
                    RfLoadLength, RfStoreLength, RfLoadR, RfStoreR
<1>5. CASE add_token
  BY <1>1, <1>5 DEF add_token, TokenTest, TokenLoad, TokenStore
<1>6. CASE tbf_transmit
  BY <1>1, <1>6 DEF tbf_transmit, TbfIsEmpty, TbfToken, TbfPop, TbfSent,
                    TbfSendFailed, TbfLoadToken, TbfStoreToken,
                    TbfLoadLength, TbfStoreLength
<1>. QED
  BY <1>2, <1>3, <1>4, <1>5, <1>6 DEF Next

\* The history variables stay numbers.
LEMMA HistoryStep ==
  TypeOK /\ PopNeverNull /\ Next => generated' \in Nat /\ on_air' \in Nat
<1> SUFFICES ASSUME TypeOK, PopNeverNull, Next
             PROVE  generated' \in Nat /\ on_air' \in Nat
  OBVIOUS
<1>1. CASE GenerateNode
  BY <1>1 DEF GenerateNode, TypeOK
<1>2. CASE TbfSent
  <2>1. /\ temp["tbf_transmit"] \in Seq(Packet)
        /\ temp["tbf_transmit"] # << >>
    BY <1>2 DEF TbfSent, Goto, PopNeverNull, TypeOK, HandsOK, Threads
  <2>2. Head(temp["tbf_transmit"]) \in Packet
    BY <2>1
  <2>. QED
    BY <1>2, <2>2 DEF TbfSent, Packet, TypeOK
<1>3. CASE UNCHANGED history
  BY <1>3 DEF history, TypeOK
<1>. QED
  BY <1>1, <1>2, <1>3
     DEF Next, generate_packet, schedule_packet, transmit_rf, add_token,
         tbf_transmit, GeneratePush, GenerateLoad, GenerateStore,
         SchedulePop, ScheduleLoadGn, ScheduleStoreGn, SchedulePush,
         ScheduleLoadR, ScheduleStoreR, RfIsEmpty, RfLength, RfPop, RfPush,
         RfLoadLength, RfStoreLength, RfLoadR, RfStoreR, TokenTest,
         TokenLoad, TokenStore, TbfIsEmpty, TbfToken, TbfPop, TbfSendFailed,
         TbfLoadToken, TbfStoreToken, TbfLoadLength, TbfStoreLength
(***************************************************************************)
(* No NULL pop.                                                            *)
(***************************************************************************)

\* push() never empties a queue.
LEMMA PushNotEmpty ==
  ASSUME NEW q \in Seq(Packet), NEW p \in Seq(Packet), NEW limit, q # << >>
  PROVE  Push(q, p, limit) # << >>
BY DEF Push

\* What a thread has seen in the queue it pops stays there until it pops.
LEMMA PopNeverNullStep == TypeOK /\ PopNeverNull /\ Next => PopNeverNull'
<1> SUFFICES ASSUME TypeOK, PopNeverNull, Next PROVE PopNeverNull'
  OBVIOUS
<1>. USE DEF PopNeverNull, TypeOK, HandsOK, Threads, Goto, Hold, queues
<1>1. CASE generate_packet
  BY <1>1 DEF generate_packet, GenerateNode, GeneratePush, GenerateLoad,
              GenerateStore
<1>2. CASE schedule_packet
  <2>1. CASE SchedulePush
    BY <2>1, PushNotEmpty DEF SchedulePush, QueuesOK
  <2>. QED
    BY <1>2, <2>1 DEF schedule_packet, SchedulePop, ScheduleLoadGn,
                      ScheduleStoreGn, ScheduleLoadR, ScheduleStoreR
<1>3. CASE transmit_rf
  <2>1. CASE RfPush
    BY <2>1, PushNotEmpty DEF RfPush, QueuesOK
  <2>. QED
    BY <1>3, <2>1 DEF transmit_rf, RfIsEmpty, RfLength, RfPop, RfLoadLength,
                      RfStoreLength, RfLoadR, RfStoreR
<1>4. CASE add_token
  BY <1>4 DEF add_token, TokenTest, TokenLoad, TokenStore
<1>5. CASE tbf_transmit
  <2>1. CASE TbfPop
    BY <2>1, PopType DEF TbfPop, QueuesOK
  <2>. QED
    BY <1>5, <2>1 DEF tbf_transmit, TbfIsEmpty, TbfToken, TbfSent,
                      TbfSendFailed, TbfLoadToken, TbfStoreToken,
                      TbfLoadLength, TbfStoreLength
<1>. QED
  BY <1>1, <1>2, <1>3, <1>4, <1>5 DEF Next

\* TypeOK and PopNeverNull together are inductive: a packet is read from a
\* thread's hands in TbfSent, where PopNeverNull says that there is one.
LEMMA TypeStep ==
  TypeOK /\ PopNeverNull /\ [Next]_vars => TypeOK' /\ PopNeverNull'
<1> SUFFICES ASSUME TypeOK, PopNeverNull, [Next]_vars
             PROVE  TypeOK' /\ PopNeverNull'
  OBVIOUS
<1>1. CASE Next
  BY <1>1, QueuesStep, CountersStep, StatusStep, HandsStep, PcStep,
     HistoryStep, PopNeverNullStep DEF TypeOK
<1>2. CASE UNCHANGED vars
  BY <1>2 DEF vars, queues, counters, status, history, TypeOK, QueuesOK,
              CountersOK, StatusOK, HandsOK, PopNeverNull
<1>. QED
  BY <1>1, <1>2

\* The gateway starts well typed.
LEMMA TypeInit == Init => TypeOK /\ PopNeverNull
<1> SUFFICES ASSUME Init PROVE TypeOK /\ PopNeverNull
  OBVIOUS
<1>1. QueuesOK /\ CountersOK /\ StatusOK
  BY GatewayAssumption DEF Init, QueuesOK, CountersOK, StatusOK, SeqNumbers
<1>2. HandsOK
  BY DEF Init, HandsOK
<1>. QED
  BY <1>1, <1>2 DEF Init, TypeOK, PopNeverNull, Threads, PcValues

\* Type correctness of the RF path, for any queue sizes, bucket and number of
\* packets: no thread ever leaves a queue above the limit it was constructed
\* with, or a status field out of range.
THEOREM TypeCorrect == Spec => []TypeOK
BY TypeInit, TypeStep, PTL DEF Spec

\* Neither transmit_rf nor tbf_transmit ever pops NULL, although both test
\* is_empty() outside the mutex.
THEOREM NoNullPop == Spec => []PopNeverNull
BY TypeInit, TypeStep, PTL DEF Spec

(***************************************************************************)
(* The token bucket.                                                       *)
(***************************************************************************)

\* TokenInv is inductive relative to the types.
LEMMA TokenInvStep == TypeOK /\ TokenInv /\ [Next]_vars => TokenInv'
<1> SUFFICES ASSUME TypeOK, TokenInv, [Next]_vars PROVE TokenInv'
  OBVIOUS
<1>. USE GatewayAssumption
     DEF TypeOK, CountersOK, TokenInv, TokenBounds, Threads, Goto, Load,
         Stored, counters
<1>1. CASE generate_packet
  BY <1>1 DEF generate_packet, GenerateNode, GeneratePush, GenerateLoad,
              GenerateStore
<1>2. CASE schedule_packet
  BY <1>2 DEF schedule_packet, SchedulePop, ScheduleLoadGn, ScheduleStoreGn,
              SchedulePush, ScheduleLoadR, ScheduleStoreR
<1>3. CASE transmit_rf
  BY <1>3 DEF transmit_rf, RfIsEmpty, RfLength, RfPop, RfPush, RfLoadLength,
              RfStoreLength, RfLoadR, RfStoreR
<1>4. CASE TokenTest
  BY <1>4 DEF TokenTest
<1>5. CASE TokenLoad
  BY <1>5 DEF TokenLoad
<1>6. CASE TokenStore
  BY <1>6 DEF TokenStore
<1>7. CASE TbfToken
  BY <1>7 DEF TbfToken
<1>8. CASE TbfLoadToken
  BY <1>8 DEF TbfLoadToken
<1>9. CASE TbfStoreToken
  BY <1>9 DEF TbfStoreToken
<1>10. CASE \/ TbfIsEmpty \/ TbfPop \/ TbfSent \/ TbfSendFailed
            \/ TbfLoadLength \/ TbfStoreLength
  BY <1>10 DEF TbfIsEmpty, TbfPop, TbfSent, TbfSendFailed, TbfLoadLength,
               TbfStoreLength
<1>11. CASE UNCHANGED vars
  BY <1>11 DEF vars
<1>. QED
  BY <1>1, <1>2, <1>3, <1>4, <1>5, <1>6, <1>7, <1>8, <1>9, <1>10, <1>11
     DEF Next, add_token, tbf_transmit

\* The token bucket holds between 0 and BURST tokens in every interleaving of
\* add_token and tbf_transmit, for every BURST and TOKEN_RATE: the unlocked
\* updates can lose each other but cannot leave the range.
THEOREM TokenBucketBounded == Spec => []TokenBounds
<1>1. Init => TokenInv
  BY GatewayAssumption DEF Init, TokenInv, TokenBounds, Threads
<1>2. TokenInv => TokenBounds
  BY DEF TokenInv
<1>. QED
  BY <1>1, <1>2, TokenInvStep, TypeCorrect, PTL DEF Spec

(***************************************************************************)
(* The order of the packets.                                               *)
(***************************************************************************)

\* The packets of q are in the order they were generated, after packet lo and
\* up to packet hi.
Band(q, lo, hi) ==
  /\ lo <= hi
  /\ \A i \in 1 .. Len(q) : lo < q[i].id /\ q[i].id <= hi
  /\ \A i, j \in 1 .. Len(q) : i < j => q[i].id < q[j].id

\* Seen from the air backwards, each queue and each thread's hands hold
\* packets of a band of their own.
Bands(a, b, c, d, f, g) ==
  /\ Band(temp["tbf_transmit"], on_air, a)    /\ Band(tbf_queue, a, b)
  /\ Band(temp["transmit_rf"], b, c)          /\ Band(rf_queue, c, d)
  /\ Band(temp["schedule_packet"], d, f)      /\ Band(node_queue, f, g)
  /\ Band(temp["generate_packet"], g, generated)

\* The inductive invariant.
OrderInv == \E a, b, c, d, f, g \in Nat : Bands(a, b, c, d, f, g)

\* Packets have numbers.
LEMMA Numbered ==
  ASSUME NEW q \in Seq(Packet)
  PROVE  \A i \in 1 .. Len(q) : q[i].id \in Nat
<1>1. \A i \in 1 .. Len(q) : q[i] \in Packet
  OBVIOUS
<1>. QED
  BY <1>1 DEF Packet

\* Empty hands fit anywhere.
LEMMA BandEmpty ==
  ASSUME NEW lo \in Nat, NEW hi \in Nat, lo <= hi
  PROVE  Band(<< >>, lo, hi)
BY DEF Band

\* A band may grow upwards.
LEMMA BandGrows ==
  ASSUME NEW q \in Seq(Packet), NEW lo \in Nat, NEW hi \in Nat, NEW top \in Nat,
         Band(q, lo, hi), hi <= top
  PROVE  Band(q, lo, top)
BY Numbered DEF Band

\* push() of what a thread holds, whether the queue takes it or not: the
\* queue's band now reaches to where the thread's did.
LEMMA PushBand ==
  ASSUME NEW q \in Seq(Packet), NEW p \in Seq(Packet), Len(p) <= 1, NEW limit,
         NEW lo \in Nat, NEW mid \in Nat, NEW hi \in Nat,
         Band(q, lo, mid), Band(p, mid, hi)
  PROVE  Band(Push(q, p, limit), lo, hi) /\ Band(<< >>, hi, hi)
<1>0. Band(<< >>, hi, hi)
  BY BandEmpty
<1>1. CASE Len(q) >= limit
  BY <1>0, <1>1, BandGrows DEF Push, Band
<1>2. CASE ~(Len(q) >= limit)
  <2>1. /\ \A i \in 1 .. Len(q) : q[i].id \in Nat /\ (q \o p)[i] = q[i]
        /\ \A i \in 1 .. Len(p) : p[i].id \in Nat
        /\ \A i \in 1 .. Len(q \o p) :
             i \in 1 .. Len(q) \/ (i = Len(q) + 1 /\ Len(p) = 1 /\ (q \o p)[i] = p[1])
    <3>1. /\ Len(q) \in Nat /\ Len(p) \in Nat /\ Len(q \o p) = Len(q) + Len(p)
      OBVIOUS
    <3>2. \A i \in 1 .. Len(q) + Len(p) :
            (q \o p)[i] = IF i <= Len(q) THEN q[i] ELSE p[i - Len(q)]
      OBVIOUS
    <3>3. \A i \in 1 .. Len(q) : (q \o p)[i] = q[i]
      BY <3>1, <3>2
    <3>4. \A i \in 1 .. Len(q) + Len(p) :
            ~(i <= Len(q)) => Len(p) = 1 /\ i = Len(q) + 1 /\ i - Len(q) = 1
      <4>1. \A m, k \in Nat : k <= 1 =>
              \A i \in 1 .. m + k : ~(i <= m) => k = 1 /\ i = m + 1 /\ i - m = 1
        BY SMT
      <4>. QED
        BY <3>1, <4>1, Zenon
    <3>5. \A i \in 1 .. Len(q) + Len(p) :
            i \in 1 .. Len(q) \/ (i = Len(q) + 1 /\ Len(p) = 1 /\ (q \o p)[i] = p[1])
      BY <3>1, <3>2, <3>4
    <3>. QED
      BY <3>1, <3>3, <3>5, Numbered
  <2>2. ASSUME NEW i \in 1 .. Len(q \o p)
        PROVE  lo < (q \o p)[i].id /\ (q \o p)[i].id <= hi
    <3>1. lo <= mid /\ mid <= hi
      BY DEF Band
    <3>2. CASE i \in 1 .. Len(q)
      <4>1. (q \o p)[i] = q[i] /\ q[i].id \in Nat
        BY <2>1, <3>2
      <4>2. lo < q[i].id /\ q[i].id <= mid
        BY <3>2 DEF Band
      <4>. QED
        BY <3>1, <4>1, <4>2
    <3>3. CASE Len(p) = 1 /\ (q \o p)[i] = p[1]
      <4>1. 1 \in 1 .. Len(p) /\ p[1].id \in Nat
        BY <2>1, <3>3
      <4>2. mid < p[1].id /\ p[1].id <= hi
        BY <4>1 DEF Band
      <4>. QED
        BY <3>1, <3>3, <4>1, <4>2
    <3>. QED
      BY <2>1, <3>2, <3>3
  <2>3. \A i, j \in 1 .. Len(q \o p) : i < j => (q \o p)[i].id < (q \o p)[j].id
    BY <2>1 DEF Band
  <2>4. lo <= hi
    BY DEF Band
  <2>. QED
    BY <1>0, <1>2, <2>2, <2>3, <2>4 DEF Push, Band
<1>. QED
  BY <1>1, <1>2

\* pop() divides a queue's band at the packet it takes.
LEMMA PopBand ==
  ASSUME NEW q \in Seq(Packet), NEW x \in Nat, NEW lo \in Nat, NEW hi \in Nat,
         Band(q, lo, hi), x <= lo
  PROVE  \E m \in Nat : Band(Popped(q), x, m) /\ Band(AfterPop(q), m, hi)
<1>1. CASE q = << >>
  <2>1. Band(<< >>, x, lo) /\ Band(<< >>, lo, hi)
    BY <1>1, BandEmpty
  <2>. QED
    BY <1>1, <2>1 DEF Popped, AfterPop
<1>2. CASE q # << >>
  <2>. DEFINE m == Head(q).id
  <2>1. /\ Len(q) >= 1 /\ Head(q) = q[1] /\ m \in Nat
        /\ \A i \in 1 .. Len(q) : q[i].id \in Nat
    BY <1>2, Numbered
  <2>2. lo < m /\ m <= hi
    BY <2>1 DEF Band
  <2>3. Band(<<Head(q)>>, x, m)
    <3>1. /\ Len(<<Head(q)>>) = 1 /\ <<Head(q)>>[1].id = m
      OBVIOUS
    <3>2. x <= m /\ x < m /\ m <= m
      BY <2>1, <2>2
    <3>. HIDE DEF m
    <3>. QED
      BY <3>1, <3>2 DEF Band
  <2>4. /\ Len(Tail(q)) = Len(q) - 1
        /\ \A i \in 1 .. Len(Tail(q)) : Tail(q)[i] = q[i + 1]
    BY <1>2
  <2>. HIDE DEF m
  <2>5. Band(Tail(q), m, hi)
    <3>1. \A i \in 1 .. Len(Tail(q)) : m < q[i + 1].id /\ q[i + 1].id <= hi
      BY <2>1, <2>4 DEF Band, m
    <3>2. \A i, j \in 1 .. Len(Tail(q)) : i < j => q[i + 1].id < q[j + 1].id
      BY <2>1, <2>4 DEF Band
    <3>. QED
      BY <2>2, <2>4, <3>1, <3>2 DEF Band
  <2>. QED
    BY <1>2, <2>1, <2>3, <2>5 DEF Popped, AfterPop
<1>. QED
  BY <1>1, <1>2

\* The packet sent has a higher number than the one before it.
LEMMA SentAfter ==
  ASSUME TypeOK, PopNeverNull, TbfSent, NEW a \in Nat, NEW b, NEW c, NEW d,
         NEW f, NEW g, Bands(a, b, c, d, f, g)
  PROVE  on_air' \in Nat /\ on_air < on_air' /\ on_air' <= a
<1>1. /\ temp["tbf_transmit"] \in Seq(Packet) /\ temp["tbf_transmit"] # << >>
      /\ on_air' = Head(temp["tbf_transmit"]).id
  BY DEF TbfSent, Goto, PopNeverNull, TypeOK, HandsOK, Threads
<1>2. /\ Head(temp["tbf_transmit"]) = temp["tbf_transmit"][1]
      /\ 1 \in 1 .. Len(temp["tbf_transmit"])
  BY <1>1
<1>3. temp["tbf_transmit"][1].id \in Nat
  BY <1>1, <1>2, Numbered
<1>4. Band(temp["tbf_transmit"], on_air, a)
  BY DEF Bands
<1>. QED
  BY <1>1, <1>2, <1>3, <1>4 DEF Band

\* Every step keeps the bands apart.
LEMMA OrderStep == TypeOK /\ PopNeverNull /\ OrderInv /\ [Next]_vars => OrderInv'
<1> SUFFICES ASSUME TypeOK, PopNeverNull, OrderInv, [Next]_vars PROVE OrderInv'
  OBVIOUS
<1>0. PICK a, b, c, d, f, g \in Nat : Bands(a, b, c, d, f, g)
  BY Zenon DEF OrderInv
<1>a. /\ node_queue \in Seq(Packet) /\ rf_queue \in Seq(Packet)
      /\ tbf_queue \in Seq(Packet) /\ temp \in [Threads -> Seq(Packet)]
      /\ \A t \in Threads : temp[t] \in Seq(Packet) /\ Len(temp[t]) <= 1
      /\ generated \in Nat /\ on_air \in Nat
  BY DEF TypeOK, QueuesOK, HandsOK
<1>b. /\ "tbf_transmit" \in Threads /\ "transmit_rf" \in Threads
      /\ "schedule_packet" \in Threads /\ "generate_packet" \in Threads
  BY DEF Threads
<1>c. on_air <= a /\ a <= b /\ b <= c /\ c <= d /\ d <= f /\ f <= g /\ g <= generated
  BY <1>0 DEF Bands, Band
<1>1. CASE GenerateNode
  <2>1. /\ temp' = [temp EXCEPT !["generate_packet"] =
                      <<[id |-> generated + 1, seq |-> arr_seq]>>]
        /\ generated' = generated + 1
        /\ UNCHANGED <<queues, on_air>>
    BY <1>1 DEF GenerateNode, Hold
  <2>2. Band(<<[id |-> generated + 1, seq |-> arr_seq]>>, g, generated + 1)
    BY <1>a, <1>c DEF Band
  <2>3. Bands(a, b, c, d, f, g)'
    BY <1>0, <1>a, <1>b, <2>1, <2>2 DEF Bands, queues
  <2>. QED
    BY <2>3, Zenon DEF OrderInv
<1>2. CASE GeneratePush
  <2>1. /\ temp' = [temp EXCEPT !["generate_packet"] = << >>]
        /\ node_queue' = Push(node_queue, temp["generate_packet"], NODE_QUEUE_SIZE)
        /\ UNCHANGED <<rf_queue, tbf_queue, generated, on_air>>
    BY <1>2 DEF GeneratePush, Hold, history
  <2>2. PICK m \in Nat : m = generated
    BY <1>a
  <2>3. Band(node_queue', f, m) /\ Band(<< >>, m, m)
    BY <1>0, <1>a, <1>b, <2>1, <2>2, PushBand DEF Bands
  <2>4. Bands(a, b, c, d, f, m)'
    BY <1>0, <1>a, <1>b, <2>1, <2>2, <2>3 DEF Bands
  <2>. QED
    BY <2>4, Zenon DEF OrderInv
<1>3. CASE SchedulePop
  <2>1. /\ temp' = [temp EXCEPT !["schedule_packet"] = Popped(node_queue)]
        /\ node_queue' = AfterPop(node_queue)
        /\ UNCHANGED <<rf_queue, tbf_queue, generated, on_air>>
    BY <1>3 DEF SchedulePop, Hold, history
  <2>2. PICK m \in Nat :
          Band(Popped(node_queue), d, m) /\ Band(AfterPop(node_queue), m, g)
    BY <1>0, <1>a, <1>c, PopBand DEF Bands
  <2>3. Bands(a, b, c, d, m, g)'
    BY <1>0, <1>a, <1>b, <2>1, <2>2 DEF Bands
  <2>. QED
    BY <2>3, Zenon DEF OrderInv
<1>4. CASE SchedulePush
  <2>1. /\ temp' = [temp EXCEPT !["schedule_packet"] = << >>]
        /\ rf_queue' = Push(rf_queue, temp["schedule_packet"], RF_QUEUE_SIZE)
        /\ UNCHANGED <<node_queue, tbf_queue, generated, on_air>>
    BY <1>4 DEF SchedulePush, Hold, history
  <2>2. Band(rf_queue', c, f) /\ Band(<< >>, f, f)
    BY <1>0, <1>a, <1>b, <2>1, PushBand DEF Bands
  <2>3. Bands(a, b, c, f, f, g)'
    BY <1>0, <1>a, <1>b, <2>1, <2>2 DEF Bands
  <2>. QED
    BY <2>3, Zenon DEF OrderInv
<1>5. CASE RfPop
  <2>1. /\ temp' = [temp EXCEPT !["transmit_rf"] = Popped(rf_queue)]
        /\ rf_queue' = AfterPop(rf_queue)
        /\ UNCHANGED <<node_queue, tbf_queue, generated, on_air>>
    BY <1>5 DEF RfPop, Hold, history
  <2>2. PICK m \in Nat :
          Band(Popped(rf_queue), b, m) /\ Band(AfterPop(rf_queue), m, d)
    BY <1>0, <1>a, <1>c, PopBand DEF Bands
  <2>3. Bands(a, b, m, d, f, g)'
    BY <1>0, <1>a, <1>b, <2>1, <2>2 DEF Bands
  <2>. QED
    BY <2>3, Zenon DEF OrderInv
<1>6. CASE RfPush
  <2>1. /\ temp' = [temp EXCEPT !["transmit_rf"] = << >>]
        /\ tbf_queue' = Push(tbf_queue, temp["transmit_rf"], LIMIT)
        /\ UNCHANGED <<node_queue, rf_queue, generated, on_air>>
    BY <1>6 DEF RfPush, Hold, history
  <2>2. Band(tbf_queue', a, c) /\ Band(<< >>, c, c)
    BY <1>0, <1>a, <1>b, <2>1, PushBand DEF Bands
  <2>3. Bands(a, c, c, d, f, g)'
    BY <1>0, <1>a, <1>b, <2>1, <2>2 DEF Bands
  <2>. QED
    BY <2>3, Zenon DEF OrderInv
<1>7. CASE TbfPop
  <2>1. /\ temp' = [temp EXCEPT !["tbf_transmit"] = Popped(tbf_queue)]
        /\ tbf_queue' = AfterPop(tbf_queue)
        /\ UNCHANGED <<node_queue, rf_queue, generated, on_air>>
    BY <1>7 DEF TbfPop, Hold, history
  <2>2. PICK m \in Nat :
          Band(Popped(tbf_queue), on_air, m) /\ Band(AfterPop(tbf_queue), m, b)
    BY <1>0, <1>a, <1>c, PopBand DEF Bands
  <2>3. Bands(m, b, c, d, f, g)'
    BY <1>0, <1>a, <1>b, <2>1, <2>2 DEF Bands
  <2>. QED
    BY <2>3, Zenon DEF OrderInv
<1>8. CASE TbfSent \/ TbfSendFailed
  <2>1. /\ temp' = [temp EXCEPT !["tbf_transmit"] = << >>]
        /\ UNCHANGED <<queues, generated>>
    BY <1>8 DEF TbfSent, TbfSendFailed, Hold, history
  <2>2. on_air' \in Nat /\ on_air' <= a
    <3>1. CASE TbfSent
      BY <1>0, <3>1, SentAfter
    <3>2. CASE TbfSendFailed
      BY <1>a, <1>c, <3>2 DEF TbfSendFailed, history
    <3>. QED
      BY <1>8, <3>1, <3>2
  <2>3. Band(<< >>, on_air', a)
    BY <2>2, BandEmpty
  <2>4. Bands(a, b, c, d, f, g)'
    BY <1>0, <1>a, <1>b, <2>1, <2>3 DEF Bands, queues
  <2>. QED
    BY <2>4, Zenon DEF OrderInv
<1>9. CASE UNCHANGED <<queues, temp, history>>
  <2>1. Bands(a, b, c, d, f, g)'
    BY <1>0, <1>9 DEF Bands, queues, history
  <2>. QED
    BY <2>1, Zenon DEF OrderInv
<1>. QED
  BY <1>1, <1>2, <1>3, <1>4, <1>5, <1>6, <1>7, <1>8, <1>9
     DEF Next, vars, generate_packet, schedule_packet, transmit_rf, add_token,
         tbf_transmit, GenerateLoad, GenerateStore, ScheduleLoadGn,
         ScheduleStoreGn, ScheduleLoadR, ScheduleStoreR, RfIsEmpty, RfLength,
         RfLoadLength, RfStoreLength, RfLoadR, RfStoreR, TokenTest, TokenLoad,
         TokenStore, TbfIsEmpty, TbfToken, TbfLoadToken, TbfStoreToken,
         TbfLoadLength, TbfStoreLength
\* Packets go on the air in the order they were generated, none of them twice,
\* whatever the sizes of the queues, the losses and the interleaving.
THEOREM SentInOrder == Spec => AirInOrder
<1>1. Init => OrderInv
  <2>. SUFFICES ASSUME Init PROVE OrderInv
    OBVIOUS
  <2>1. Band(<< >>, 0, 0) /\ 0 \in Nat
    BY BandEmpty
  <2>2. Bands(0, 0, 0, 0, 0, 0)
    BY <2>1 DEF Init, Bands, Threads
  <2>. QED
    BY <2>1, <2>2, Zenon DEF OrderInv
<1>2. TypeOK /\ PopNeverNull /\ OrderInv /\ [Next]_vars =>
        [pc["tbf_transmit"] = "send" /\ pc'["tbf_transmit"] = "load_token"
           => on_air' > on_air]_vars
  <2>. SUFFICES ASSUME TypeOK, PopNeverNull, OrderInv, Next,
                       pc["tbf_transmit"] = "send",
                       pc'["tbf_transmit"] = "load_token"
                PROVE  on_air' > on_air
    OBVIOUS
  <2>1. TbfSent
    BY DEF Next, generate_packet, schedule_packet, transmit_rf, add_token,
           tbf_transmit, Goto, TypeOK, Threads, GenerateNode, GeneratePush,
           GenerateLoad, GenerateStore, SchedulePop, ScheduleLoadGn,
           ScheduleStoreGn, SchedulePush, ScheduleLoadR, ScheduleStoreR,
           RfIsEmpty, RfLength, RfPop, RfPush, RfLoadLength, RfStoreLength,
           RfLoadR, RfStoreR, TokenTest, TokenLoad, TokenStore, TbfIsEmpty,
           TbfToken, TbfPop, TbfSendFailed, TbfLoadToken, TbfStoreToken,
           TbfLoadLength, TbfStoreLength
  <2>2. PICK a, b, c, d, f, g \in Nat : Bands(a, b, c, d, f, g)
    BY Zenon DEF OrderInv
  <2>. QED
    BY <2>1, <2>2, SentAfter
<1>. QED
  BY <1>1, <1>2, TypeInit, TypeStep, OrderStep, PTL DEF Spec, AirInOrder
=============================================================================
