------------------------- MODULE NodeReceiverProofs -------------------------
(***************************************************************************)
(* Proofs about NodeReceiver, for every size of the window, the queue and  *)
(* the sequence numbers: the status that process_data keeps without a lock *)
(* is what has arrived, and so are the reports send_report puts together   *)
(* from it while it changes; and the gateway decodes from their bytes what *)
(* the node encoded, for every width of a byte.                            *)
(***************************************************************************)
EXTENDS NodeReceiver, TLAPS, SequenceTheorems, WellFoundedInduction

\* The sequence numbers in a queue.
Queued(q) == {q[i] : i \in 1 .. Len(q)}

\* Where a thread can be.
Places == {"idle", "mark", "last", "advance", "slide", "ack_number", "length",
           "index", "bit", "send", "dead"}

\* The types, without what TypeOK says of corrupted numbers and of the room in
\* sendbuf: those rest on what has arrived and on how a report grows.
Types ==
  /\ process_queue \in Seq(Numbers) /\ Len(process_queue) <= MAX_PROCESS_QUEUE
  /\ rcv_state \in [Entries -> Bit]
  /\ rcv_seq \in 0 .. MAX_SEQ_NUMBER + PAGE_REST /\ last_rcv_seq \in Entries
  /\ pc \in [Threads -> Places]
  /\ pc["process_data"] = "last" => cur < MAX_SEQ_NUMBER + PAGE_REST
  /\ cur \in Numbers /\ reg \in Nat
  /\ report \in Report /\ sent \in Report
  /\ arrivals \in Nat /\ arrived \subseteq Numbers

\* Every number is an integer.
LEMMA NumbersAreInts == Numbers \subseteq Int /\ SeqNumbers \subseteq Numbers
BY NodeAssumption DEF Numbers, SeqNumbers

\* What push adds to a queue of sequence numbers.
LEMMA AppendQueued ==
  ASSUME NEW q \in Seq(Numbers), NEW s \in Numbers
  PROVE  /\ Append(q, s) \in Seq(Numbers)
         /\ Len(Append(q, s)) = Len(q) + 1
         /\ Queued(Append(q, s)) = Queued(q) \cup {s}
<1>1. /\ Append(q, s) \in Seq(Numbers) /\ Len(Append(q, s)) = Len(q) + 1
      /\ \A i \in 1 .. Len(q) : Append(q, s)[i] = q[i]
      /\ Append(q, s)[Len(q) + 1] = s
  OBVIOUS
<1>2. Queued(Append(q, s)) \subseteq Queued(q) \cup {s}
  BY <1>1 DEF Queued
<1>3. Queued(q) \cup {s} \subseteq Queued(Append(q, s))
  BY <1>1 DEF Queued
<1> QED
  BY <1>1, <1>2, <1>3

\* What pop takes from it.
LEMMA HeadQueued ==
  ASSUME NEW q \in Seq(Numbers), q # << >>
  PROVE  /\ Head(q) \in Numbers /\ Tail(q) \in Seq(Numbers)
         /\ Len(Tail(q)) = Len(q) - 1
         /\ Queued(q) = Queued(Tail(q)) \cup {Head(q)}
<1>1. /\ Head(q) \in Numbers /\ Tail(q) \in Seq(Numbers)
      /\ Len(q) \in Nat /\ Len(q) >= 1 /\ Len(Tail(q)) = Len(q) - 1
      /\ Head(q) = q[1]
      /\ \A i \in 1 .. Len(q) - 1 : Tail(q)[i] = q[i + 1]
  OBVIOUS
<1>2. Queued(Tail(q)) \cup {Head(q)} \subseteq Queued(q)
  BY <1>1 DEF Queued
<1>3. Queued(q) \subseteq Queued(Tail(q)) \cup {Head(q)}
  <2> SUFFICES ASSUME NEW i \in 1 .. Len(q)
               PROVE  q[i] \in Queued(Tail(q)) \cup {Head(q)}
    BY DEF Queued
  <2>1. CASE i = 1
    BY <1>1, <2>1
  <2>2. CASE i # 1
    <3>1. i - 1 \in 1 .. Len(Tail(q)) /\ Tail(q)[i - 1] = q[i]
      BY <1>1, <2>2
    <3> QED
      BY <3>1 DEF Queued
  <2> QED
    BY <2>1, <2>2
<1> QED
  BY <1>1, <1>2, <1>3

\* Every step of every thread keeps the type invariant.
LEMMA TypeStep == Types /\ [Next]_vars => Types'
<1> SUFFICES ASSUME Types, [Next]_vars PROVE Types'
  OBVIOUS
<1> USE NodeAssumption, NumbersAreInts
        DEF Types, Goto, Threads, Places, node_status, reporting
<1>1. CASE receive
  <2>1. PICK s \in Numbers : receive_rf(s)
    BY <1>1, NumbersAreInts DEF receive, receive_vlc
  <2>2. /\ process_queue' \in Seq(Numbers)
        /\ Len(process_queue') <= MAX_PROCESS_QUEUE
        /\ arrived' \subseteq Numbers
    <3>1. CASE Len(process_queue) >= MAX_PROCESS_QUEUE
      BY <2>1, <3>1 DEF receive_rf, PushProcess
    <3>2. CASE ~(Len(process_queue) >= MAX_PROCESS_QUEUE)
      <4>1. Len(process_queue) \in Nat /\ Len(process_queue) < MAX_PROCESS_QUEUE
        BY <3>2
      <4>2. /\ process_queue' = Append(process_queue, s)
            /\ arrived' = arrived \cup {s}
        BY <2>1, <3>2 DEF receive_rf, PushProcess
      <4>3. /\ process_queue' \in Seq(Numbers)
            /\ Len(process_queue') = Len(process_queue) + 1
        BY <4>2, AppendQueued
      <4> QED
        BY <2>1, <3>2, <4>1, <4>2, <4>3 DEF receive_rf
    <3> QED
      BY <3>1, <3>2
  <2> QED
    BY <2>1, <2>2 DEF receive_rf
<1>2. CASE ProcessPop
  BY <1>2, HeadQueued DEF ProcessPop
<1>3. CASE ProcessMark
  <2>1. cur \in Int
    OBVIOUS
  <2>2. pc'["process_data"] = "last" => cur < MAX_SEQ_NUMBER + PAGE_REST
    BY <1>3, <2>1 DEF ProcessMark, Entries
  <2> QED
    BY <1>3, <2>2 DEF ProcessMark, Bit
<1>4. CASE ProcessLast
  BY <1>4 DEF ProcessLast, Entries
<1>5. CASE ProcessAdvance
  BY <1>5 DEF ProcessAdvance, StateAt, Entries
<1>6. CASE ProcessSlide
  <2>1. 0 \in Numbers
    BY DEF Numbers, SeqNumbers
  <2> QED
    BY <1>6, <2>1, SMTT(30) DEF ProcessSlide, Entries
<1>7. CASE ReportAck
  <2>1. report' = [ACK_number |-> rcv_seq, pattern_length |-> 0, bits |-> << >>]
    BY <1>7 DEF ReportAck, NoReport
  <2>2. << >> \in Seq({0, 1}) /\ rcv_seq \in Nat
    OBVIOUS
  <2>3. report' \in Report
    BY <2>1, <2>2 DEF Report, Bit
  <2> QED
    BY <1>7, <2>3 DEF ReportAck
<1>8. CASE ReportLast
  BY <1>8 DEF ReportLast, Entries
<1>9. CASE ReportLength
  <2>1. reg - rcv_seq + 1 \in Int
    OBVIOUS
  <2>2. report' = [report EXCEPT !.pattern_length = reg - rcv_seq + 1]
    BY <1>9 DEF ReportLength
  <2>3. report' \in Report
    BY <2>1, <2>2 DEF Report, Bit
  <2>4. pc' \in [Threads -> Places]
    BY <1>9 DEF Places, ReportLength
  <2>5. /\ UNCHANGED <<process_queue, node_status, cur, sent, arrivals, arrived>>
        /\ reg' = 0 /\ pc'["process_data"] = pc["process_data"]
    BY <1>9 DEF ReportLength
  <2> QED
    BY <2>3, <2>4, <2>5, SMTT(20)
<1>10. CASE ReportIndex
  <2>1. rcv_seq + Len(report.bits) \in Nat
    BY DEF Report
  <2> QED
    BY <1>10, <2>1 DEF ReportIndex
<1>11. CASE ReportBit
  <2>1. StateAt(reg) \subseteq {0, 1}
    BY DEF StateAt, Bit
  <2>2. PICK b \in {0, 1} : report' = [report EXCEPT !.bits = Append(@, b)]
    BY <1>11, <2>1 DEF ReportBit
  <2>3. Append(report.bits, b) \in Seq({0, 1})
    BY DEF Report, Bit
  <2>4. report' \in Report
    BY <2>2, <2>3 DEF Report, Bit
  <2>5. pc' \in [Threads -> Places]
    BY <1>11 DEF Places, ReportBit
  <2>6. /\ UNCHANGED <<process_queue, node_status, cur, sent, arrivals, arrived>>
        /\ reg' = 0 /\ pc'["process_data"] = pc["process_data"]
    BY <1>11 DEF ReportBit
  <2> QED
    BY <2>4, <2>5, <2>6, SMTT(20)
<1>12. CASE ReportSend
  BY <1>12 DEF ReportSend, NoReport, Report, Bit
<1>13. CASE ReportFault
  BY <1>13 DEF ReportFault
<1>14. CASE UNCHANGED vars
  BY <1>14 DEF vars, node_status, reporting
<1> QED
  BY <1>1, <1>2, <1>3, <1>4, <1>5, <1>6, <1>7, <1>8, <1>9, <1>10, <1>11,
     <1>12, <1>13, <1>14
     DEF Next, process_data, send_report

\* The node starts in a state of its types.
LEMMA TypeInit == Init => Types
<1> SUFFICES ASSUME Init PROVE Types
  OBVIOUS
<1>1. pc \in [Threads -> Places]
  BY DEF Init, Threads, Places
<1> QED
  BY <1>1, NodeAssumption
     DEF Init, Types, NoReport, Report, Bit, SeqNumbers, Numbers, Entries, Places

(***************************************************************************)
(* The status.                                                             *)
(***************************************************************************)

\* What the threads hold and what rcv_state records has arrived.
ArrivedInv ==
  /\ Queued(process_queue) \subseteq arrived
  /\ pc["process_data"] \in {"mark", "last"} => cur \in arrived
  /\ \A k \in Entries : rcv_state[k] = 1 => k \in arrived

\* Only a corrupted number takes last_rcv_seq and rcv_seq past the array.
StrayInv ==
  /\ last_rcv_seq \in SeqNumbers \cup arrived
  /\ rcv_seq <= MAX_SEQ_NUMBER \/ rcv_seq - 1 \in arrived
       \/ rcv_seq + max_ACK_bit_pattern - 1 \in arrived

\* Every packet that has arrived is queued, in the hands of process_data, or
\* recorded where a report finds it.
RecordInv ==
  \A k \in arrived :
    \/ k \in Queued(process_queue)
    \/ k < rcv_seq
    \/ rcv_state[k] = 1 /\ k <= last_rcv_seq
    \/ pc["process_data"] \in {"mark", "dead"} /\ k = cur
    \/ pc["process_data"] = "last" /\ k = cur /\ rcv_state[k] = 1

\* What a packet from either link changes.
LEMMA ReceiveStep ==
  ASSUME Types, receive
  PROVE  /\ UNCHANGED <<node_status, pc, cur, reporting>>
         /\ \/ UNCHANGED <<process_queue, arrived>>
            \/ \E s \in Numbers :
                 /\ Queued(process_queue') = Queued(process_queue) \cup {s}
                 /\ arrived' = arrived \cup {s}
<1>1. PICK s \in Numbers : receive_rf(s)
  BY NumbersAreInts DEF receive, receive_vlc
<1>2. process_queue \in Seq(Numbers)
  BY DEF Types
<1> QED
  BY <1>1, <1>2, AppendQueued DEF receive_rf, PushProcess

\* Every step keeps ArrivedInv.
LEMMA ArrivedStep == Types /\ ArrivedInv /\ [Next]_vars => ArrivedInv'
<1> SUFFICES ASSUME Types, ArrivedInv, [Next]_vars PROVE ArrivedInv'
  OBVIOUS
<1>0. /\ process_queue \in Seq(Numbers)
      /\ pc \in [Threads -> Places] /\ "process_data" \in Threads
      /\ "send_report" \in Threads
      /\ rcv_state \in [Entries -> Bit] /\ cur \in Numbers
  BY DEF Types, Threads, Places
<1> USE DEF ArrivedInv, Goto, node_status
<1>1. CASE receive
  BY <1>1, ReceiveStep
<1>2. CASE ProcessPop
  BY <1>2, <1>0, HeadQueued DEF ProcessPop
<1>3. CASE ProcessMark
  BY <1>0, <1>3 DEF ProcessMark
<1>4. CASE ProcessLast
  BY <1>0, <1>4 DEF ProcessLast
<1>5. CASE ProcessAdvance
  BY <1>0, <1>5 DEF ProcessAdvance
<1>6. CASE ProcessSlide
  BY <1>0, <1>6 DEF ProcessSlide
<1>7. CASE ReportAck
  BY <1>0, <1>7 DEF ReportAck
<1>8. CASE ReportLast
  BY <1>0, <1>8 DEF ReportLast
<1>9. CASE ReportLength
  BY <1>0, <1>9 DEF ReportLength
<1>10. CASE ReportIndex
  BY <1>0, <1>10 DEF ReportIndex
<1>11. CASE ReportBit
  BY <1>0, <1>11 DEF ReportBit
<1>12. CASE ReportSend
  BY <1>0, <1>12 DEF ReportSend
<1>13. CASE ReportFault
  BY <1>0, <1>13 DEF ReportFault
<1>14. CASE UNCHANGED vars
  BY <1>0, <1>14 DEF vars, node_status, reporting
<1> QED
  BY <1>1, <1>2, <1>3, <1>4, <1>5, <1>6, <1>7, <1>8, <1>9, <1>10, <1>11,
     <1>12, <1>13, <1>14
     DEF Next, process_data, send_report

\* Every step keeps RecordInv: process_data records a packet before it
\* lets go of it, and rcv_seq never goes back.
LEMMA RecordStep == Types /\ ArrivedInv /\ RecordInv /\ [Next]_vars => RecordInv'
<1> SUFFICES ASSUME Types, ArrivedInv, RecordInv, [Next]_vars PROVE RecordInv'
  OBVIOUS
<1>0. /\ process_queue \in Seq(Numbers) /\ arrived \subseteq Numbers /\ Numbers \subseteq Int
      /\ pc \in [Threads -> Places] /\ "process_data" \in Threads
      /\ "send_report" \in Threads
      /\ rcv_state \in [Entries -> Bit] /\ cur \in Numbers
      /\ rcv_seq \in Nat /\ last_rcv_seq \in Nat /\ MAX_SEQ_NUMBER \in Nat
      /\ max_ACK_bit_pattern \in Nat
  BY NodeAssumption, NumbersAreInts DEF Types, Threads, Places, Entries
<1> USE DEF RecordInv, Goto, node_status
<1>1. CASE receive
  <2>1. UNCHANGED <<node_status, pc, cur>>
    BY <1>1, ReceiveStep
  <2>2. CASE UNCHANGED <<process_queue, arrived>>
    BY <2>1, <2>2
  <2>3. CASE \E s \in Numbers :
               /\ Queued(process_queue') = Queued(process_queue) \cup {s}
               /\ arrived' = arrived \cup {s}
    BY <2>1, <2>3
  <2> QED
    BY <1>1, <2>2, <2>3, ReceiveStep
<1>2. CASE ProcessPop
  BY <1>2, <1>0, HeadQueued DEF ProcessPop
<1>3. CASE ProcessMark
  BY <1>0, <1>3 DEF ProcessMark
<1>4. CASE ProcessLast
  BY <1>0, <1>4 DEF ProcessLast
<1>5. CASE ProcessAdvance
  BY <1>5, <1>0 DEF ProcessAdvance, StateAt, Bit
<1>6. CASE ProcessSlide
  BY <1>0, <1>6 DEF ProcessSlide
<1>7. CASE ReportAck
  BY <1>0, <1>7 DEF ReportAck
<1>8. CASE ReportLast
  BY <1>0, <1>8 DEF ReportLast
<1>9. CASE ReportLength
  BY <1>0, <1>9 DEF ReportLength
<1>10. CASE ReportIndex
  BY <1>0, <1>10 DEF ReportIndex
<1>11. CASE ReportBit
  BY <1>0, <1>11 DEF ReportBit
<1>12. CASE ReportSend
  BY <1>0, <1>12 DEF ReportSend
<1>13. CASE ReportFault
  BY <1>0, <1>13 DEF ReportFault
<1>14. CASE UNCHANGED vars
  BY <1>0, <1>14 DEF vars, node_status, reporting
<1> QED
  BY <1>1, <1>2, <1>3, <1>4, <1>5, <1>6, <1>7, <1>8, <1>9, <1>10, <1>11,
     <1>12, <1>13, <1>14
     DEF Next, process_data, send_report

\* Every step keeps the ACK number sound: rcv_seq moves over packets that have
\* arrived, or slides to the window.
LEMMA CumulativeStep ==
  Types /\ ArrivedInv /\ CumulativeAckSound /\ [Next]_vars
    => CumulativeAckSound'
<1> SUFFICES ASSUME Types, ArrivedInv, CumulativeAckSound, [Next]_vars
             PROVE  CumulativeAckSound'
  OBVIOUS
<1>0. /\ rcv_seq \in Nat /\ last_rcv_seq \in Nat /\ MAX_SEQ_NUMBER \in Nat
      /\ max_ACK_bit_pattern \in Nat
      /\ \A k \in Entries : rcv_state[k] = 1 => k \in arrived
      /\ cur \in Int
  BY NodeAssumption, NumbersAreInts DEF Types, Entries, ArrivedInv
<1> USE DEF CumulativeAckSound, Goto, node_status
<1>1. CASE receive
  BY <1>0, <1>1, ReceiveStep
<1>2. CASE ProcessPop
  BY <1>0, <1>2 DEF ProcessPop
<1>3. CASE ProcessMark
  BY <1>0, <1>3 DEF ProcessMark
<1>4. CASE ProcessLast
  BY <1>4, <1>0 DEF ProcessLast
<1>5. CASE ProcessAdvance
  BY <1>5, <1>0 DEF ProcessAdvance, StateAt, Bit
<1>6. CASE ProcessSlide
  BY <1>0, <1>6 DEF ProcessSlide
<1>7. CASE ReportAck
  BY <1>0, <1>7 DEF ReportAck
<1>8. CASE ReportLast
  BY <1>0, <1>8 DEF ReportLast
<1>9. CASE ReportLength
  BY <1>0, <1>9 DEF ReportLength
<1>10. CASE ReportIndex
  BY <1>0, <1>10 DEF ReportIndex
<1>11. CASE ReportBit
  BY <1>0, <1>11 DEF ReportBit
<1>12. CASE ReportSend
  BY <1>0, <1>12 DEF ReportSend
<1>13. CASE ReportFault
  BY <1>0, <1>13 DEF ReportFault
<1>14. CASE UNCHANGED vars
  BY <1>0, <1>14 DEF vars, node_status, reporting
<1> QED
  BY <1>1, <1>2, <1>3, <1>4, <1>5, <1>6, <1>7, <1>8, <1>9, <1>10, <1>11,
     <1>12, <1>13, <1>14
     DEF Next, process_data, send_report

\* Every step keeps StrayInv.
LEMMA StrayStep ==
  Types /\ ArrivedInv /\ StrayInv /\ [Next]_vars => StrayInv'
<1> SUFFICES ASSUME Types, ArrivedInv, StrayInv, [Next]_vars
             PROVE  StrayInv'
  OBVIOUS
<1>0. /\ rcv_seq \in Nat /\ last_rcv_seq \in Nat /\ MAX_SEQ_NUMBER \in Nat
      /\ max_ACK_bit_pattern \in Nat
      /\ \A k \in Entries : rcv_state[k] = 1 => k \in arrived
      /\ cur \in Int
  BY NodeAssumption, NumbersAreInts DEF Types, Entries, ArrivedInv
<1> USE DEF StrayInv, Goto, node_status
<1>1. CASE receive
  BY <1>0, <1>1, ReceiveStep
<1>2. CASE ProcessPop
  BY <1>0, <1>2 DEF ProcessPop
<1>3. CASE ProcessMark
  BY <1>0, <1>3 DEF ProcessMark
<1>4. CASE ProcessLast
  BY <1>4, <1>0 DEF ProcessLast, ArrivedInv
<1>5. CASE ProcessAdvance
  BY <1>5, <1>0 DEF ProcessAdvance, StateAt, Bit
<1>6. CASE ProcessSlide
  BY <1>0, <1>6 DEF ProcessSlide, SeqNumbers
<1>7. CASE ReportAck
  BY <1>0, <1>7 DEF ReportAck
<1>8. CASE ReportLast
  BY <1>0, <1>8 DEF ReportLast
<1>9. CASE ReportLength
  BY <1>0, <1>9 DEF ReportLength
<1>10. CASE ReportIndex
  BY <1>0, <1>10 DEF ReportIndex
<1>11. CASE ReportBit
  BY <1>0, <1>11 DEF ReportBit
<1>12. CASE ReportSend
  BY <1>0, <1>12 DEF ReportSend
<1>13. CASE ReportFault
  BY <1>0, <1>13 DEF ReportFault
<1>14. CASE UNCHANGED vars
  BY <1>0, <1>14 DEF vars, node_status, reporting
<1> QED
  BY <1>1, <1>2, <1>3, <1>4, <1>5, <1>6, <1>7, <1>8, <1>9, <1>10, <1>11,
     <1>12, <1>13, <1>14
     DEF Next, process_data, send_report

\* The status starts empty.
LEMMA StatusInit ==
  Init => ArrivedInv /\ RecordInv /\ CumulativeAckSound /\ StrayInv
BY NodeAssumption
   DEF Init, ArrivedInv, RecordInv, CumulativeAckSound, StrayInv, Queued,
       SeqNumbers

\* For every size of the window: a packet below the ACK number has arrived or
\* lies further behind last_rcv_seq than a report can say.
THEOREM AckSound == Spec => []CumulativeAckSound
BY TypeInit, TypeStep, StatusInit, ArrivedStep, CumulativeStep, PTL DEF Spec

\* process_data loses no packet it is done with.
THEOREM AllRecorded == Spec => []ProcessedRecorded
<1>1. Types /\ RecordInv => ProcessedRecorded
  BY DEF Types, RecordInv, ProcessedRecorded, Queued
<1> QED
  BY <1>1, TypeInit, TypeStep, StatusInit, ArrivedStep, RecordStep, PTL
     DEF Spec

(***************************************************************************)
(* The reports.                                                            *)
(***************************************************************************)

\* A report whose ACK number is still rcv_seq claims what has arrived, and
\* the next bit it claims is the one behind those it has, inside the window.
ReportInv ==
  /\ sent.ACK_number <= rcv_seq /\ report.ACK_number <= rcv_seq
  /\ pc["send_report"] # "ack_number" =>
       sent.ACK_number <= report.ACK_number
  /\ pc["send_report"] = "length" => reg <= last_rcv_seq
  /\ pc["send_report"] \in {"last", "length"} => Len(report.bits) = 0
  /\ report.ACK_number = rcv_seq /\ pc["send_report"] \in {"index", "bit"} =>
       report.pattern_length <= last_rcv_seq - rcv_seq + 1
  /\ pc["send_report"] \in {"index", "bit"} =>
       Len(report.bits) < report.pattern_length
  /\ report.ACK_number = rcv_seq =>
       /\ \A j \in 1 .. Len(report.bits) :
            report.bits[j] = 1 => report.ACK_number + j - 1 \in arrived
       /\ pc["send_report"] = "bit" => reg = rcv_seq + Len(report.bits)

\* The other threads leave the report alone; rcv_seq only grows.
LEMMA OthersStep ==
  ASSUME Types, receive \/ process_data
  PROVE  /\ UNCHANGED <<reg, report, sent>>
         /\ pc'["send_report"] = pc["send_report"]
         /\ rcv_seq' \in Nat /\ rcv_seq' >= rcv_seq /\ arrived \subseteq arrived'
         /\ last_rcv_seq' \in Nat /\ last_rcv_seq' >= last_rcv_seq
<1>0. /\ pc \in [Threads -> Places]
      /\ "process_data" \in Threads /\ "send_report" \in Threads
      /\ rcv_seq \in Nat /\ last_rcv_seq \in Nat /\ cur \in Int
      /\ max_ACK_bit_pattern \in Nat
  BY NodeAssumption, NumbersAreInts DEF Types, Threads, Places, Entries
<1>1. CASE receive
  BY <1>0, <1>1, ReceiveStep DEF node_status, reporting
<1>2. CASE process_data
  <2>1. CASE ProcessPop \/ ProcessMark \/ ProcessLast
    <3>1. /\ UNCHANGED <<reg, report, sent, rcv_seq, arrived>>
          /\ last_rcv_seq' \in Nat /\ last_rcv_seq' >= last_rcv_seq
      BY <1>0, <2>1
         DEF ProcessPop, ProcessMark, ProcessLast, node_status, reporting
    <3>2. pc'["send_report"] = pc["send_report"]
      BY <1>0, <2>1 DEF ProcessPop, ProcessMark, ProcessLast, Goto
    <3> QED
      BY <1>0, <3>1, <3>2
  <2>2. CASE ProcessAdvance
    BY <1>0, <2>2 DEF ProcessAdvance, Goto, reporting, StateAt
  <2>3. CASE ProcessSlide
    BY <1>0, <2>3 DEF ProcessSlide, Goto, reporting
  <2> QED
    BY <1>2, <2>1, <2>2, <2>3 DEF process_data
<1> QED
  BY <1>1, <1>2

\* Every step keeps ReportInv.
LEMMA ReportStep == Types /\ ArrivedInv /\ ReportInv /\ [Next]_vars => ReportInv'
<1> SUFFICES ASSUME Types, ArrivedInv, ReportInv, [Next]_vars PROVE ReportInv'
  OBVIOUS
<1>0. /\ pc \in [Threads -> Places] /\ "send_report" \in Threads
      /\ rcv_seq \in Nat /\ reg \in Nat /\ sent.ACK_number \in Nat
      /\ report \in Report
      /\ report.ACK_number \in Nat /\ report.bits \in Seq({0, 1})
      /\ Len(report.bits) \in Nat /\ report.pattern_length \in Int
      /\ last_rcv_seq \in Nat
  BY NodeAssumption DEF Types, Threads, Places, Report, Bit, Entries
<1>1. CASE receive \/ process_data
  <2>1. /\ UNCHANGED <<reg, report, sent>>
        /\ pc'["send_report"] = pc["send_report"]
        /\ rcv_seq' \in Nat /\ rcv_seq' >= rcv_seq /\ arrived \subseteq arrived'
        /\ last_rcv_seq' \in Nat /\ last_rcv_seq' >= last_rcv_seq
    BY <1>1, OthersStep
  <2>2. CASE rcv_seq' = rcv_seq
    BY <1>0, <2>1, <2>2 DEF ReportInv
  <2>3. CASE rcv_seq' # rcv_seq
    BY <1>0, <2>1, <2>3 DEF ReportInv
  <2> QED
    BY <2>2, <2>3
<1>2. CASE ReportAck
  <2>1. report'.ACK_number = rcv_seq /\ Len(report'.bits) = 0
    BY <1>2 DEF ReportAck, NoReport
  <2> QED
    BY <1>0, <1>2, <2>1 DEF ReportAck, ReportInv, Goto, node_status
<1>3. CASE ReportLast
  BY <1>0, <1>3 DEF ReportLast, ReportInv, Goto, node_status
<1>4. CASE ReportLength
  <2>1. /\ report'.ACK_number = report.ACK_number /\ report'.bits = report.bits
        /\ report'.pattern_length = reg - rcv_seq + 1
    BY <1>0, <1>4 DEF ReportLength, Report
  <2> QED
    BY <1>0, <1>4, <2>1 DEF ReportLength, ReportInv, Goto, node_status
<1>5. CASE ReportIndex
  BY <1>0, <1>5 DEF ReportIndex, ReportInv, Goto, node_status
<1>6. CASE ReportBit
  <2>1. PICK b \in StateAt(reg) :
          /\ report'.ACK_number = report.ACK_number
          /\ report'.pattern_length = report.pattern_length
          /\ report'.bits = Append(report.bits, b)
    BY <1>0, <1>6 DEF ReportBit, Report
  <2>2. b \in {0, 1} /\ (b = 1 /\ reg \in Entries => reg \in arrived)
    BY <2>1 DEF StateAt, ArrivedInv, Types, Bit
  <2>3. /\ Len(report'.bits) = Len(report.bits) + 1
        /\ report'.bits[Len(report.bits) + 1] = b
        /\ \A j \in 1 .. Len(report.bits) : report'.bits[j] = report.bits[j]
    BY <1>0, <2>1, <2>2
  <2>4. /\ UNCHANGED <<rcv_seq, last_rcv_seq, arrived, sent>>
        /\ pc'["send_report"] \notin {"bit", "last", "length", "ack_number"}
        /\ pc["send_report"] = "bit"
        /\ pc'["send_report"] = "index" =>
             Len(report'.bits) < report.pattern_length
    BY <1>0, <1>6 DEF ReportBit, Goto, node_status
  <2>5. ASSUME report.ACK_number = rcv_seq,
               NEW j \in 1 .. Len(report'.bits), report'.bits[j] = 1
        PROVE  report.ACK_number + j - 1 \in arrived
    <3>1. CASE j = Len(report.bits) + 1
      <4>2. reg = report.ACK_number + j - 1
        BY <1>0, <2>4, <2>5, <3>1 DEF ReportInv
      <4>3. reg <= last_rcv_seq
        BY <1>0, <2>4, <2>5, <3>1, <4>2 DEF ReportInv
      <4>4. reg \in Entries
        BY <1>0, <4>3, NodeAssumption DEF Entries, Types
      <4>1. reg \in arrived
        BY <2>2, <2>3, <2>5, <3>1, <4>4
      <4> QED
        BY <4>1, <4>2
    <3>2. CASE j # Len(report.bits) + 1
      <4>1. j \in 1 .. Len(report.bits)
        BY <1>0, <2>3, <3>2
      <4> QED
        BY <2>3, <2>5, <4>1 DEF ReportInv
    <3> QED
      BY <3>1, <3>2
  <2> QED
    BY <1>0, <2>1, <2>3, <2>4, <2>5 DEF ReportInv
<1>7. CASE ReportSend
  <2>1. report'.ACK_number = 0 /\ Len(report'.bits) = 0
    BY <1>7 DEF ReportSend, NoReport
  <2> QED
    BY <1>0, <1>7, <2>1 DEF ReportSend, ReportInv, Goto, node_status
<1>8. CASE ReportFault
  BY <1>0, <1>8 DEF ReportFault, ReportInv, Goto, node_status, reporting
<1>9. CASE UNCHANGED vars
  BY <1>9 DEF ReportInv, vars, node_status, reporting
<1> QED
  BY <1>1, <1>2, <1>3, <1>4, <1>5, <1>6, <1>7, <1>8, <1>9 DEF Next, send_report

\* The first report is empty.
LEMMA ReportInit == Init => ReportInv
BY DEF Init, ReportInv, NoReport

\* For every window and every interleaving with process_data: a report during
\* which rcv_seq did not move claims only packets that have arrived.
THEOREM ReportsExact == Spec => []StableReportExact
<1>1. Types /\ ReportInv => StableReportExact
  BY DEF Types, Report, ReportInv, StableReportExact
<1> QED
  BY <1>1, TypeInit, TypeStep, StatusInit, ArrivedStep, ReportInit, ReportStep,
     PTL DEF Spec

\* The gateway never sees the ACK number of a node go back.
THEOREM AckNumbersGrow == Spec => ReportsAdvance
<1>1. Types /\ ReportInv /\ [Next]_vars =>
        [sent'.ACK_number >= sent.ACK_number]_sent
  <2> SUFFICES ASSUME Types, ReportInv, [Next]_vars, sent' # sent
               PROVE  sent'.ACK_number >= sent.ACK_number
    OBVIOUS
  <2>1. ReportSend
    BY DEF Next, receive, receive_rf, receive_vlc, process_data, ProcessPop,
       ProcessMark, ProcessLast, ProcessAdvance, ProcessSlide, send_report,
       ReportAck, ReportLast, ReportLength, ReportIndex, ReportBit, ReportFault, vars,
       reporting
  <2> QED
    BY <2>1 DEF ReportSend, Goto, ReportInv, Types, Report
<1> QED
  BY <1>1, TypeInit, TypeStep, StatusInit, ArrivedStep, ReportInit, ReportStep,
     PTL DEF Spec, ReportsAdvance

-----------------------------------------------------------------------------
(* What the gateway decodes.  The powers of two are kept as a function p on  *)
(* 0 .. CHAR_BIT and the least counterexample takes the place of induction.  *)

\* A non-empty set of natural numbers has a least element.
LEMMA Least ==
  ASSUME NEW T \in SUBSET Nat, T # {}
  PROVE  \E x \in T : \A y \in T : x <= y
<1>1. PICK x \in T : \A y \in T : ~(<<y, x>> \in OpToRel(<, Nat))
  BY WFMin, NatLessThanWellFounded
<1>2. ASSUME NEW y \in T PROVE x <= y
  <2>1. ~(y < x)
    BY <1>1 DEF OpToRel
  <2> QED
    BY <2>1
<1> QED
  BY <1>2

\* p[n] is the n-th power of two, up to the C-th.
Doubling(p, C) == p[0] = 1 /\ \A n \in 0 .. C - 1 : p[n + 1] = 2 * p[n]

\* They are positive.
LEMMA PowersPositive ==
  ASSUME NEW C \in Nat, NEW p, Doubling(p, C)
  PROVE  \A n \in 0 .. C : p[n] \in Nat /\ p[n] > 0
<1> DEFINE T == {n \in 0 .. C : ~(p[n] \in Nat /\ p[n] > 0)}
<1> SUFFICES ASSUME T # {} PROVE FALSE
  OBVIOUS
<1>1. T \in SUBSET Nat
  OBVIOUS
<1>2. PICK x \in T : \A y \in T : x <= y
  BY <1>1, Least, Zenon
<1>3. x \in 0 .. C /\ ~(p[x] \in Nat /\ p[x] > 0)
  OBVIOUS
<1>4. x # 0
  BY <1>3 DEF Doubling
<1>5. x - 1 \in 0 .. C - 1 /\ x - 1 \in 0 .. C /\ (x - 1) + 1 = x /\ ~(x <= x - 1)
  BY <1>3, <1>4
<1>6. p[x - 1] \in Nat /\ p[x - 1] > 0
  BY <1>2, <1>5
<1>7. p[x] = 2 * p[x - 1]
  <2>1. p[(x - 1) + 1] = 2 * p[x - 1]
    BY <1>5 DEF Doubling
  <2> QED
    BY <1>5, <2>1
<1> QED
  BY <1>3, <1>6, <1>7

\* A power is an even multiple of every smaller one.
LEMMA PowersDivide ==
  ASSUME NEW C \in Nat, NEW p, Doubling(p, C), NEW v \in 0 .. C
  PROVE  \A u \in v + 1 .. C : \E m \in Nat : p[u] = (2 * m) * p[v]
<1> DEFINE T == {u \in v + 1 .. C : ~\E m \in Nat : p[u] = (2 * m) * p[v]}
<1> SUFFICES ASSUME T # {} PROVE FALSE
  OBVIOUS
<1>1. T \in SUBSET Nat
  OBVIOUS
<1>2. PICK x \in T : \A y \in T : x <= y
  BY <1>1, Least, Zenon
<1>3. x \in v + 1 .. C /\ ~\E m \in Nat : p[x] = (2 * m) * p[v]
  OBVIOUS
<1>4. x - 1 \in 0 .. C - 1 /\ x - 1 \in 0 .. C /\ (x - 1) + 1 = x /\ ~(x <= x - 1)
  BY <1>3
<1>5. p[x] = 2 * p[x - 1]
  <2>1. p[(x - 1) + 1] = 2 * p[x - 1]
    BY <1>4 DEF Doubling
  <2> QED
    BY <1>4, <2>1
<1>6. p[v] \in Nat /\ p[x - 1] \in Nat
  BY <1>4, PowersPositive
<1>7. CASE x - 1 = v
  <2>1. p[x] = (2 * 1) * p[v]
    BY <1>5, <1>6, <1>7
  <2> QED
    BY <1>3, <2>1
<1>8. CASE x - 1 # v
  <2>1. x - 1 \in v + 1 .. C
    BY <1>3, <1>8
  <2>2. PICK m \in Nat : p[x - 1] = (2 * m) * p[v]
    BY <1>2, <1>4, <2>1
  <2>3. p[x] = 2 * ((2 * m) * p[v])
    BY <1>5, <2>2
  <2>4. 2 * m \in Nat /\ p[x] = (2 * (2 * m)) * p[v]
    BY <1>6, <2>3
  <2> QED
    BY <1>3, <2>4
<1> QED
  BY <1>7, <1>8

\* Dividing a sum whose first part is a multiple.
LEMMA DivideSum ==
  ASSUME NEW d \in Nat, d > 0, NEW m \in Nat, NEW s \in Nat
  PROVE  (m * d + s) \div d = m + (s \div d)
<1>1. s \div d \in Nat /\ s % d \in Nat /\ s % d < d /\ s = d * (s \div d) + (s % d)
  BY SMTT(30)
<1>2. PICK q \in Nat, r \in Nat : q = s \div d /\ r < d /\ s = d * q + r
  BY <1>1
<1>3. m * d + s = d * (m + q) + r
  BY <1>2, SMTT(30)
<1>4. \A k, t \in Nat : t < d => (d * k + t) \div d = k
  BY SMTT(30)
<1> QED
  BY <1>2, <1>3, <1>4

\* S[t] is the number whose binary digits, from the lowest, are c[1] .. c[t].
Sums(S, c, p, C) ==
  S[0] = 0 /\ \A t \in 1 .. C : S[t] = c[t] * p[t - 1] + S[t - 1]

\* There are such numbers.
LEMMA SumsExist ==
  ASSUME NEW C \in Nat, NEW p, Doubling(p, C), NEW c \in [1 .. C -> {0, 1}]
  PROVE  \E S \in [0 .. C -> Nat] : Sums(S, c, p, C)
<1> DEFINE P(n) == \E S \in [0 .. n -> Nat] : Sums(S, c, p, n)
           T == {n \in 0 .. C : ~P(n)}
<1> SUFFICES ASSUME T # {} PROVE FALSE
  <2>1. C \in 0 .. C
    OBVIOUS
  <2> QED
    BY <2>1
<1>1. T \in SUBSET Nat
  OBVIOUS
<1>2. PICK x \in T : \A y \in T : x <= y
  BY <1>1, Least, Zenon
<1>3. x \in 0 .. C /\ ~P(x)
  OBVIOUS
<1>4. x # 0
  <2>1. P(0)
    <3>1. [n \in 0 .. 0 |-> 0] \in [0 .. 0 -> Nat]
      OBVIOUS
    <3>2. Sums([n \in 0 .. 0 |-> 0], c, p, 0)
      BY DEF Sums
    <3> QED
      BY <3>1, <3>2
  <2> QED
    BY <1>3, <2>1
<1>5. x - 1 \in 0 .. C /\ ~(x <= x - 1) /\ x \in Nat /\ x - 1 \in Nat /\ x \in 1 .. C
  BY <1>3, <1>4
<1>6. PICK S \in [0 .. x - 1 -> Nat] : Sums(S, c, p, x - 1)
  <2>1. x - 1 \notin T
    BY <1>2, <1>5
  <2> QED
    BY <1>5, <2>1
<1>7. p[x - 1] \in Nat /\ c[x] \in {0, 1} /\ S[x - 1] \in Nat
  BY <1>5, PowersPositive
<1> DEFINE v == c[x] * p[x - 1] + S[x - 1]
           R == [n \in 0 .. x |-> IF n = x THEN v ELSE S[n]]
<1>8. v \in Nat
  <2>1. CASE c[x] = 0
    BY <1>7, <2>1
  <2>2. CASE c[x] = 1
    BY <1>7, <2>2
  <2> QED
    BY <1>7, <2>1, <2>2
<1>9. R[x] = v /\ \A n \in 0 .. x - 1 : R[n] = S[n]
  BY <1>5
<1>10. R \in [0 .. x -> Nat]
  BY <1>5, <1>8
<1> HIDE DEF R
<1>11. Sums(R, c, p, x)
  <2>1. R[0] = 0
    BY <1>5, <1>6, <1>9 DEF Sums
  <2>2. ASSUME NEW t \in 1 .. x PROVE R[t] = c[t] * p[t - 1] + R[t - 1]
    <3>1. CASE t = x
      BY <1>5, <1>9, <3>1
    <3>2. CASE t # x
      <4>1. t \in 1 .. x - 1 /\ t \in 0 .. x - 1 /\ t - 1 \in 0 .. x - 1
        BY <1>5, <3>2
      <4>2. S[t] = c[t] * p[t - 1] + S[t - 1]
        BY <1>6, <4>1 DEF Sums
      <4> QED
        BY <1>9, <4>1, <4>2
    <3> QED
      BY <3>1, <3>2
  <2> QED
    BY <2>1, <2>2 DEF Sums
<1>12. P(x)
  BY <1>10, <1>11
<1> QED
  BY <1>3, <1>12

\* They fit into as many bits as they have digits.
LEMMA SumsFit ==
  ASSUME NEW C \in Nat, NEW p, Doubling(p, C), NEW c \in [1 .. C -> {0, 1}],
         NEW S, Sums(S, c, p, C)
  PROVE  \A t \in 0 .. C : S[t] \in Nat /\ S[t] < p[t]
<1> DEFINE T == {t \in 0 .. C : ~(S[t] \in Nat /\ S[t] < p[t])}
<1> SUFFICES ASSUME T # {} PROVE FALSE
  OBVIOUS
<1>1. T \in SUBSET Nat
  OBVIOUS
<1>2. PICK x \in T : \A y \in T : x <= y
  BY <1>1, Least, Zenon
<1>3. x \in 0 .. C /\ ~(S[x] \in Nat /\ S[x] < p[x])
  OBVIOUS
<1>4. x # 0
  BY <1>3 DEF Sums, Doubling
<1>5. /\ x - 1 \in 0 .. C - 1 /\ x - 1 \in 0 .. C /\ (x - 1) + 1 = x
      /\ ~(x <= x - 1) /\ x \in 1 .. C
  BY <1>3, <1>4
<1>6. S[x - 1] \in Nat /\ S[x - 1] < p[x - 1]
  BY <1>2, <1>5
<1>7. p[x - 1] \in Nat /\ p[x] = 2 * p[x - 1]
  <2>1. p[(x - 1) + 1] = 2 * p[x - 1] /\ p[x - 1] \in Nat
    BY <1>5, PowersPositive DEF Doubling
  <2> QED
    BY <1>5, <2>1
<1>8. S[x] = c[x] * p[x - 1] + S[x - 1] /\ c[x] \in {0, 1}
  BY <1>5 DEF Sums
<1>9. CASE c[x] = 0
  BY <1>3, <1>6, <1>7, <1>8, <1>9
<1>10. CASE c[x] = 1
  BY <1>3, <1>6, <1>7, <1>8, <1>10
<1> QED
  BY <1>8, <1>9, <1>10

\* Shifting and masking finds the digits again.
LEMMA BinaryDigits ==
  ASSUME NEW C \in Nat, NEW p, Doubling(p, C), NEW c \in [1 .. C -> {0, 1}],
         NEW S, Sums(S, c, p, C), NEW t \in 1 .. C
  PROVE  (S[C] \div p[t - 1]) % 2 = c[t]
<1> DEFINE d == p[t - 1]
           Found(u) == (S[u] \div d) % 2 = c[t]
           T == {u \in t .. C : ~Found(u)}
<1>0. t - 1 \in 0 .. C /\ t \in 0 .. C /\ t \in Nat /\ C \in t .. C
  OBVIOUS
<1> SUFFICES ASSUME T # {} PROVE FALSE
  BY <1>0
<1>1. T \in SUBSET Nat
  OBVIOUS
<1>2. PICK x \in T : \A y \in T : x <= y
  BY <1>1, Least, Zenon
<1>3. x \in t .. C /\ ~Found(x)
  OBVIOUS
<1>4. d \in Nat /\ d > 0 /\ c[t] \in {0, 1}
  BY <1>0, PowersPositive
<1>5. /\ x - 1 \in 0 .. C /\ x \in 1 .. C /\ ~(x <= x - 1)
      /\ (x # t => x - 1 \in t .. C /\ x - 1 \in (t - 1) + 1 .. C)
  BY <1>3
<1>6. S[x] = c[x] * p[x - 1] + S[x - 1] /\ c[x] \in {0, 1} /\ S[x - 1] \in Nat
  BY <1>5, SumsFit DEF Sums
<1>7. CASE x = t
  <2>1. S[t - 1] \in Nat /\ S[t - 1] < d
    BY <1>0, SumsFit
  <2>2. S[x] = c[t] * d + S[t - 1]
    BY <1>6, <1>7
  <2>3. \A s \in Nat : s < d => s \div d = 0
    BY <1>4, SMTT(30)
  <2> HIDE DEF d
  <2>4. S[x] \div d = c[t] + 0
    <3>1. c[t] \in Nat /\ S[t - 1] \div d = 0
      <4>1. c[t] \in Nat
        BY <1>4
      <4> QED
        BY <2>1, <2>3, <4>1, Zenon
    <3>2. (c[t] * d + S[t - 1]) \div d = c[t] + (S[t - 1] \div d)
      BY <1>4, <2>1, <3>1, DivideSum, Zenon
    <3> QED
      BY <2>2, <3>1, <3>2, Zenon
  <2>5. (S[x] \div d) % 2 = c[t]
    BY <1>4, <2>4
  <2> QED
    BY <1>3, <2>5
<1>8. CASE x # t
  <2>1. PICK m \in Nat : p[x - 1] = (2 * m) * d
    BY <1>0, <1>5, <1>8, PowersDivide
  <2>2. Found(x - 1)
    BY <1>2, <1>5, <1>8
  <2> HIDE DEF d
  <2>3. PICK k \in Nat : S[x] = (2 * k) * d + S[x - 1]
    <3>1. CASE c[x] = 0
      <4>1. S[x] = (2 * 0) * d + S[x - 1]
        BY <1>4, <1>6, <2>1, <3>1
      <4> QED
        BY <4>1
    <3>2. CASE c[x] = 1
      <4>1. S[x] = (2 * m) * d + S[x - 1]
        BY <1>4, <1>6, <2>1, <3>2
      <4> QED
        BY <4>1
    <3> QED
      BY <1>6, <3>1, <3>2
  <2>4. 2 * k \in Nat /\ S[x] \div d = 2 * k + (S[x - 1] \div d)
    <3>1. 2 * k \in Nat
      OBVIOUS
    <3>2. ((2 * k) * d + S[x - 1]) \div d = 2 * k + (S[x - 1] \div d)
      BY <1>4, <1>6, <3>1, DivideSum, Zenon
    <3> QED
      BY <2>3, <3>1, <3>2, Zenon
  <2>5. S[x - 1] \div d \in Nat
    BY <1>4, <1>6, SMTT(30)
  <2>6. \A z \in Nat : (2 * k + z) % 2 = z % 2
    BY SMTT(30)
  <2>7. (S[x] \div d) % 2 = (S[x - 1] \div d) % 2
    BY <2>4, <2>5, <2>6
  <2> QED
    BY <1>3, <2>2, <2>7
<1> QED
  BY <1>7, <1>8

\* f is zero from lo to z.
Zero(f, lo, z) == \A t \in lo .. z : f[t] = 0

\* Digits that are zero add nothing.
LEMMA SumsZero ==
  ASSUME NEW C \in Nat, NEW p, Doubling(p, C), NEW c \in [1 .. C -> {0, 1}],
         NEW S, Sums(S, c, p, C), NEW z \in 0 .. C,
         Zero(c, 1, z)
  PROVE  Zero(S, 0, z)
<1> USE DEF Zero
<1> DEFINE T == {t \in 0 .. z : S[t] # 0}
<1> SUFFICES ASSUME T # {} PROVE FALSE
  OBVIOUS
<1>1. T \in SUBSET Nat
  OBVIOUS
<1>2. PICK x \in T : \A y \in T : x <= y
  BY <1>1, Least, Zenon
<1>3. x \in 0 .. z /\ S[x] # 0
  OBVIOUS
<1>4. x # 0
  BY <1>3 DEF Sums
<1>5. x - 1 \in 0 .. z /\ x - 1 \in 0 .. C /\ ~(x <= x - 1) /\ x \in 1 .. C /\ x \in 1 .. z
  BY <1>3, <1>4
<1>6. S[x - 1] = 0 /\ p[x - 1] \in Nat
  BY <1>2, <1>5, PowersPositive
<1>7. S[x] = c[x] * p[x - 1] + S[x - 1] /\ c[x] = 0
  BY <1>5 DEF Sums
<1> QED
  BY <1>3, <1>6, <1>7

\* The loop over the bits of one byte, with e the position behind its last bit
\* and stop the one behind the last bit of the pattern.
Loop(f, bits, lo, e, stop) ==
  [j \in lo .. e |->
    IF j >= stop THEN 0
    ELSE bits[j + 1] * 2^(CHAR_BIT - 1 - (j - lo)) + f[j + 1]]

\* The powers of two up to the size of a byte.
LEMMA BytePowers ==
  /\ CHAR_BIT \in Nat /\ CHAR_BIT > 0
  /\ Doubling([n \in 0 .. CHAR_BIT |-> 2^n], CHAR_BIT)
<1>1. CHAR_BIT \in Nat /\ CHAR_BIT > 0
  BY CodecAssumption
<1> DEFINE p == [n \in 0 .. CHAR_BIT |-> 2^n]
<1>2. p[0] = 2^0 /\ 2^0 = 1
  BY <1>1
<1>3. ASSUME NEW n \in 0 .. CHAR_BIT - 1 PROVE p[n + 1] = 2 * p[n]
  <2>1. n + 1 \in 0 .. CHAR_BIT /\ n \in 0 .. CHAR_BIT
    BY <1>1
  <2>2. 2^(n + 1) = 2 * 2^n
    BY CodecAssumption, Zenon
  <2> QED
    BY <2>1, <2>2, Zenon
<1> QED
  BY <1>1, <1>2, <1>3 DEF Doubling

\* What the loop computes: each bit of the pattern is the bit of the byte at
\* its distance from the top.
LEMMA LoopBits ==
  ASSUME NEW bits, NEW lo \in Nat, NEW e \in Nat, e = lo + CHAR_BIT,
         NEW stop \in lo .. e,
         \A k \in lo + 1 .. stop : bits[k] \in {0, 1},
         NEW sum, sum = CHOOSE f : f = Loop(f, bits, lo, e, stop),
         NEW k \in lo .. stop - 1
  PROVE  BitAt(sum[lo], CHAR_BIT - 1 - (k - lo)) = bits[k + 1]
<1> DEFINE C == CHAR_BIT
           p == [n \in 0 .. C |-> 2^n]
           c == [t \in 1 .. C |-> IF e - t >= stop THEN 0 ELSE bits[e - t + 1]]
<1>1. C \in Nat /\ C > 0 /\ Doubling(p, C)
  BY BytePowers
<1>2. c \in [1 .. C -> {0, 1}]
  <2>1. ASSUME NEW t \in 1 .. C, ~(e - t >= stop)
        PROVE  e - t + 1 \in lo + 1 .. stop
    BY <1>1, <2>1
  <2> QED
    BY <2>1
<1>3. \A t \in 1 .. C : c[t] = IF e - t >= stop THEN 0 ELSE bits[e - t + 1]
  OBVIOUS
<1>4. \A n \in 0 .. C : p[n] = 2^n
  OBVIOUS
<1> HIDE DEF p, c
<1>5. \A j \in lo .. e :
        /\ e - j \in 0 .. C
        /\ ~(j >= stop) => /\ e - j \in 1 .. C /\ (e - j) - 1 = C - 1 - (j - lo)
                           /\ C - 1 - (j - lo) \in 0 .. C /\ j + 1 \in lo .. e
                           /\ e - (e - j) = j /\ e - (j + 1) = (e - j) - 1
                           /\ c[e - j] = bits[j + 1]
  BY <1>1, <1>3
<1>6. \E f : f = Loop(f, bits, lo, e, stop)
  <2>1. PICK S \in [0 .. C -> Nat] : Sums(S, c, p, C)
    BY <1>1, <1>2, SumsExist
  <2>2. PICK z \in 0 .. C : z = e - stop
    BY <1>1
  <2>3. Zero(S, 0, z)
    <3>1. Zero(c, 1, z)
      BY <1>1, <1>3, <2>2 DEF Zero
    <3> QED
      BY <1>1, <1>2, <2>1, <3>1, SumsZero, Zenon
  <2> DEFINE f == [j \in lo .. e |-> S[e - j]]
  <2>4. ASSUME NEW j \in lo .. e
        PROVE  f[j] = IF j >= stop THEN 0
                      ELSE bits[j + 1] * 2^(CHAR_BIT - 1 - (j - lo)) + f[j + 1]
    <3>1. CASE j >= stop
      <4>1. e - j \in 0 .. z
        BY <2>2, <3>1
      <4> QED
        BY <2>3, <3>1, <4>1 DEF Zero
    <3>2. CASE ~(j >= stop)
      <4>1. S[e - j] = c[e - j] * p[(e - j) - 1] + S[(e - j) - 1]
        BY <1>5, <2>1, <3>2 DEF Sums
      <4>2. f[j] = S[e - j] /\ f[j + 1] = S[(e - j) - 1]
        BY <1>5, <3>2
      <4>3. p[(e - j) - 1] = 2^(CHAR_BIT - 1 - (j - lo)) /\ c[e - j] = bits[j + 1]
        BY <1>4, <1>5, <3>2
      <4> QED
        BY <3>2, <4>1, <4>2, <4>3, Zenon
    <3> QED
      BY <3>1, <3>2
  <2>5. f = [j \in lo .. e |-> f[j]]
    OBVIOUS
  <2> HIDE DEF f
  <2>6. f = Loop(f, bits, lo, e, stop)
    BY <2>4, <2>5, Zenon DEF Loop
  <2> QED
    BY <2>6
<1>7. sum = Loop(sum, bits, lo, e, stop)
  BY <1>6, Zenon
<1>8. \A j \in lo .. e :
        sum[j] = IF j >= stop THEN 0
                 ELSE bits[j + 1] * 2^(CHAR_BIT - 1 - (j - lo)) + sum[j + 1]
  <2>1. \A j \in lo .. e : Loop(sum, bits, lo, e, stop)[j] =
          IF j >= stop THEN 0
          ELSE bits[j + 1] * 2^(CHAR_BIT - 1 - (j - lo)) + sum[j + 1]
    BY Zenon DEF Loop
  <2> QED
    BY <1>7, <2>1, Zenon
<1> DEFINE R == [t \in 0 .. C |-> sum[e - t]]
<1>9. Sums(R, c, p, C)
  <2>1. R[0] = 0
    <3>1. e - 0 = e /\ e \in lo .. e /\ e >= stop /\ 0 \in 0 .. C
      BY <1>1
    <3>2. sum[e] = 0
      BY <1>8, <3>1, Zenon
    <3>3. R[0] = sum[e - 0]
      BY <3>1, Zenon
    <3> QED
      BY <3>1, <3>2, <3>3, Zenon
  <2>2. ASSUME NEW t \in 1 .. C PROVE R[t] = c[t] * p[t - 1] + R[t - 1]
    <3> DEFINE j == e - t
    <3>1. /\ j \in lo .. e /\ j + 1 \in lo .. e /\ e - j = t /\ e - (t - 1) = j + 1
          /\ t - 1 \in 0 .. C /\ t \in 0 .. C
      BY <1>1
    <3>2. R[t] = sum[j] /\ R[t - 1] = sum[j + 1]
      BY <3>1
    <3>3. p[t - 1] \in Nat
      BY <1>1, <3>1, PowersPositive
    <3> HIDE DEF j
    <3>4. CASE j >= stop
      <4>1. j + 1 >= stop /\ c[t] = 0
        BY <1>3, <3>1, <3>4 DEF j
      <4>2. sum[j] = 0 /\ sum[j + 1] = 0
        BY <1>8, <3>1, <3>4, <4>1
      <4>3. R[t] = 0 /\ R[t - 1] = 0
        BY <3>2, <4>2, Zenon
      <4>4. 0 = 0 * p[t - 1] + 0
        BY <3>3
      <4> QED
        BY <4>1, <4>3, <4>4, Zenon
    <3>5. CASE ~(j >= stop)
      <4>1. c[t] = bits[j + 1] /\ p[t - 1] = 2^(CHAR_BIT - 1 - (j - lo))
        BY <1>4, <1>5, <3>1, <3>5
      <4>2. sum[j] = bits[j + 1] * 2^(CHAR_BIT - 1 - (j - lo)) + sum[j + 1]
        BY <1>8, <3>1, <3>5, Zenon
      <4> QED
        BY <3>2, <4>1, <4>2, Zenon
    <3> QED
      BY <3>4, <3>5
  <2> QED
    BY <2>1, <2>2 DEF Sums
<1>10. R[C] = sum[lo]
  BY <1>1
<1> HIDE DEF R
<1>11. /\ e - k \in 1 .. C /\ (e - k) - 1 = C - 1 - (k - lo)
       /\ C - 1 - (k - lo) \in 0 .. C /\ c[e - k] = bits[k + 1]
       /\ bits[k + 1] \in {0, 1}
  <2>1. k \in lo .. e /\ ~(k >= stop) /\ k + 1 \in lo + 1 .. stop
    OBVIOUS
  <2> QED
    BY <1>5, <2>1
<1>12. (R[C] \div p[(e - k) - 1]) % 2 = c[e - k]
  <2>1. PICK t \in 1 .. C : t = e - k
    BY <1>11, Zenon
  <2>2. (R[C] \div p[t - 1]) % 2 = c[t]
    BY <1>1, <1>2, <1>9, BinaryDigits, SMTT(30)
  <2> QED
    BY <2>1, <2>2, Zenon
<1>13. (sum[lo] \div 2^(C - 1 - (k - lo))) % 2 = bits[k + 1]
  BY <1>4, <1>10, <1>11, <1>12, Zenon
<1> QED
  BY <1>11, <1>13, Zenon DEF BitAt

\* Byte i of the packed pattern holds its bits from the top down.
LEMMA TempByteBits ==
  ASSUME NEW len \in Nat, NEW bits, \A k \in 1 .. len : bits[k] \in {0, 1},
         NEW i \in Nat, NEW j \in 0 .. CHAR_BIT - 1, i * CHAR_BIT + j < len
  PROVE  BitAt(TempByte(bits, len, i), CHAR_BIT - 1 - j)
           = bits[i * CHAR_BIT + j + 1]
<1>1. CHAR_BIT \in Nat /\ CHAR_BIT > 0
  BY BytePowers
<1>2. PICK lo \in Nat : lo = i * CHAR_BIT
  BY <1>1, SMTT(30)
<1>3. PICK e \in Nat : e = (i + 1) * CHAR_BIT
  BY <1>1, SMTT(30)
<1>4. e = lo + CHAR_BIT
  BY <1>1, <1>2, <1>3, SMTT(30)
<1>5. PICK stop : stop = LastBit(len, i)
  OBVIOUS
<1>6. stop \in lo .. e /\ stop <= len /\ lo + j \in lo .. stop - 1
  <2>1. stop = lo + (IF len - lo > CHAR_BIT THEN CHAR_BIT ELSE len - lo)
    BY <1>2, <1>5, Zenon DEF LastBit
  <2>2. lo + j < len
    BY <1>2
  <2> QED
    BY <1>1, <1>4, <2>1, <2>2
<1>7. PICK sum : sum = CHOOSE f : f = Loop(f, bits, lo, e, stop)
  OBVIOUS
<1>8. TempByte(bits, len, i) = sum[lo]
  BY <1>2, <1>3, <1>5, <1>7, Zenon DEF TempByte, Loop
<1>9. \A k \in lo + 1 .. stop : bits[k] \in {0, 1}
  BY <1>6
<1>10. PICK k \in lo .. stop - 1 : k = lo + j
  BY <1>6
<1>11. BitAt(sum[lo], CHAR_BIT - 1 - (k - lo)) = bits[k + 1]
  BY <1>3, <1>4, <1>6, <1>7, <1>9, LoopBits, SMTT(30)
<1>12. k - lo = j
  BY <1>10
<1> QED
  BY <1>2, <1>8, <1>10, <1>11, <1>12, Zenon

\* Division with remainder.
LEMMA Quotient ==
  ASSUME NEW d \in Nat, d > 0, NEW n \in Nat
  PROVE  /\ n \div d \in Nat /\ n % d \in 0 .. d - 1
         /\ n = (n \div d) * d + (n % d)
  BY SMTT(30)

\* Comparing multiples of d compares the factors.
LEMMA SmallerFactor ==
  ASSUME NEW d \in Nat, d > 0, NEW i \in Nat, NEW n \in Nat, NEW len \in Int,
         i * d < len, len <= n * d + d
  PROVE  i < n + 1
<1> SUFFICES ASSUME ~(i < n + 1) PROVE FALSE
  OBVIOUS
<1>1. PICK t \in Nat : i = n + 1 + t
  <2>1. i - (n + 1) \in Nat /\ i = n + 1 + (i - (n + 1))
    OBVIOUS
  <2> QED
    BY <2>1
<1>2. i * d = n * d + d + t * d /\ t * d \in Nat /\ n * d \in Nat
  BY <1>1, SMTT(30)
<1> QED
  BY <1>2

\* The bytes of a pattern: the last one is needed, and they are enough.
LEMMA PatternBytesFit ==
  ASSUME NEW len \in Int
  PROVE  /\ PatternBytes(len) \in Nat
         /\ len > 0 => \E n \in Nat : /\ PatternBytes(len) = n + 1
                                      /\ n * CHAR_BIT < len
                                      /\ len <= n * CHAR_BIT + CHAR_BIT
         /\ len <= 0 => PatternBytes(len) \in {0, 1}
<1>1. CHAR_BIT \in Nat /\ CHAR_BIT > 0
  BY BytePowers
<1>2. CASE len > 0
  <2>1. PICK q \in Nat, r \in 0 .. CHAR_BIT - 1 :
          q = len \div CHAR_BIT /\ r = len % CHAR_BIT /\ len = q * CHAR_BIT + r
    BY <1>1, <1>2, Quotient
  <2>2. PatternBytes(len) =
          IF q + (IF r = 0 THEN 0 ELSE 1) > 0 THEN q + (IF r = 0 THEN 0 ELSE 1)
          ELSE 0
    BY <1>2, <2>1 DEF PatternBytes
  <2>3. CASE r = 0
    <3>1. q # 0
      BY <1>1, <1>2, <2>1, <2>3, SMTT(30)
    <3>2. PatternBytes(len) = (q - 1) + 1 /\ q - 1 \in Nat
      BY <2>2, <2>3, <3>1
    <3>3. (q - 1) * CHAR_BIT + CHAR_BIT = q * CHAR_BIT
      BY <1>1, SMTT(30)
    <3>4. (q - 1) * CHAR_BIT \in Int
      BY <1>1, SMTT(30)
    <3>5. (q - 1) * CHAR_BIT < len /\ len <= (q - 1) * CHAR_BIT + CHAR_BIT
      BY <1>1, <2>1, <2>3, <3>3, <3>4
    <3> QED
      BY <1>2, <3>2, <3>5
  <2>4. CASE r # 0
    <3>1. PatternBytes(len) = q + 1
      BY <2>2, <2>4
    <3>2. q * CHAR_BIT \in Int
      BY <1>1, SMTT(30)
    <3>3. q * CHAR_BIT < len /\ len <= q * CHAR_BIT + CHAR_BIT
      BY <1>1, <2>1, <2>4, <3>2
    <3> QED
      BY <1>2, <3>1, <3>3
  <2> QED
    BY <2>3, <2>4
<1>3. CASE len <= 0
  <2>1. PICK q \in Nat : q = (-len) \div CHAR_BIT
    BY <1>1, <1>3, Quotient
  <2>2. len = 0 => q = 0
    BY <1>1, <2>1
  <2>3. len >= 0 => len \div CHAR_BIT = 0 /\ len % CHAR_BIT = 0
    BY <1>1, <1>3
  <2> QED
    BY <1>3, <2>1, <2>2, <2>3 DEF PatternBytes
<1> QED
  BY <1>2, <1>3

\* A pattern whose bits are as many as its length says is read back from its
\* bytes; a negative length stands for no bits.
LEMMA PatternReadBack ==
  ASSUME NEW len \in Int, NEW bits \in Seq({0, 1}),
         Len(bits) = (IF len > 0 THEN len ELSE 0),
         NEW bytes, Len(bytes) = PatternBytes(len),
         bytes = << >> <=> PatternBytes(len) = 0,
         \A i \in 1 .. PatternBytes(len) : bytes[i] = TempByte(bits, len, i - 1)
  PROVE  ACK_bit_pattern(bytes, len) = bits
<1>1. CHAR_BIT \in Nat /\ CHAR_BIT > 0
  BY BytePowers
<1> DEFINE many == IF bytes = << >> THEN 0
                   ELSE (Len(bytes) - 1) * CHAR_BIT
                          + BitsOfByte(len, Len(bytes) - 1)
           bit(k) == BitAt(bytes[1 + (k - 1) \div CHAR_BIT],
                           CHAR_BIT - 1 - ((k - 1) % CHAR_BIT))
<1>2. ACK_bit_pattern(bytes, len) = [k \in 1 .. many |-> bit(k)]
  BY Zenon DEF ACK_bit_pattern
<1>3. many = Len(bits)
  <2>1. CASE len > 0
    <3>1. PICK n \in Nat : /\ PatternBytes(len) = n + 1
                           /\ n * CHAR_BIT < len
                           /\ len <= n * CHAR_BIT + CHAR_BIT
      BY <2>1, PatternBytesFit
    <3>2. PICK b \in Int : b = n * CHAR_BIT
      BY <1>1, SMTT(30)
    <3>3. bytes # << >> /\ Len(bytes) - 1 = n
      BY <3>1
    <3>4. ShiftUntil(len, n) = IF len - b >= CHAR_BIT THEN 0
                               ELSE CHAR_BIT - (len - b)
      BY <3>2, Zenon DEF ShiftUntil
    <3>5. BitsOfByte(len, n) = len - b
      BY <1>1, <3>1, <3>2, <3>4 DEF BitsOfByte
    <3>6. many = b + (len - b)
      BY <3>2, <3>3, <3>5, Zenon
    <3> QED
      BY <2>1, <3>6
  <2>2. CASE len <= 0
    <3>1. PatternBytes(len) \in {0, 1}
      BY <2>2, PatternBytesFit
    <3>2. CASE PatternBytes(len) = 0
      BY <2>2, <3>2
    <3>3. CASE PatternBytes(len) = 1
      <4>1. bytes # << >> /\ Len(bytes) - 1 = 0 /\ 0 * CHAR_BIT = 0
        BY <1>1, <3>3
      <4>2. ShiftUntil(len, 0) = CHAR_BIT - len
        BY <1>1, <2>2, <4>1 DEF ShiftUntil
      <4>3. BitsOfByte(len, 0) = 0
        BY <1>1, <2>2, <4>2 DEF BitsOfByte
      <4>4. many = 0 + 0
        BY <4>1, <4>3, Zenon
      <4> QED
        BY <2>2, <4>4
    <3> QED
      BY <3>1, <3>2, <3>3
  <2> QED
    BY <2>1, <2>2
<1>4. ASSUME NEW k \in 1 .. Len(bits) PROVE bit(k) = bits[k]
  <2>1. len > 0 /\ len \in Nat /\ Len(bits) = len
    <3>1. k \in Nat /\ k >= 1 /\ k <= Len(bits)
      OBVIOUS
    <3> QED
      BY <3>1
  <2>2. PICK i \in Nat, j \in 0 .. CHAR_BIT - 1 :
          /\ i = (k - 1) \div CHAR_BIT /\ j = (k - 1) % CHAR_BIT
          /\ k - 1 = i * CHAR_BIT + j
    <3>1. k - 1 \in Nat
      BY <2>1
    <3> QED
      BY <1>1, <3>1, Quotient
  <2>3. i * CHAR_BIT + j < len /\ i * CHAR_BIT + j + 1 = k
    <3>1. i * CHAR_BIT \in Int
      BY <1>1, SMTT(30)
    <3> QED
      BY <2>1, <2>2, <3>1
  <2>4. 1 + i \in 1 .. PatternBytes(len) /\ (1 + i) - 1 = i
    <3>1. PICK n \in Nat : /\ PatternBytes(len) = n + 1
                           /\ n * CHAR_BIT < len
                           /\ len <= n * CHAR_BIT + CHAR_BIT
      BY <2>1, PatternBytesFit
    <3>2. i * CHAR_BIT < len
      <4>1. i * CHAR_BIT \in Int
        BY <1>1, SMTT(30)
      <4> QED
        BY <2>2, <2>3, <4>1
    <3>3. i < n + 1
      BY <1>1, <3>1, <3>2, SmallerFactor
    <3> QED
      BY <3>1, <3>3
  <2>5. bytes[1 + i] = TempByte(bits, len, i)
    BY <2>4
  <2>6. \A m \in 1 .. len : bits[m] \in {0, 1}
    BY <2>1
  <2>7. BitAt(TempByte(bits, len, i), CHAR_BIT - 1 - j)
          = bits[i * CHAR_BIT + j + 1]
    BY <2>1, <2>3, <2>6, TempByteBits, ZenonT(60)
  <2> QED
    BY <2>2, <2>3, <2>5, <2>7, Zenon
<1> HIDE DEF many, bit
<1>5. [k \in 1 .. many |-> bit(k)] = [k \in 1 .. Len(bits) |-> bits[k]]
  BY <1>3, <1>4, Zenon
<1>6. bits = [k \in 1 .. Len(bits) |-> bits[k]]
  OBVIOUS
<1> QED
  BY <1>2, <1>5, <1>6, Zenon

\* Sequence r continues with q where p ends.
Behind(p, q, r) == \A i \in 1 .. Len(q) : r[Len(p) + i] = q[i]

\* The elements of a concatenation.
LEMMA Joined ==
  ASSUME NEW S, NEW p \in Seq(S), NEW q \in Seq(S)
  PROVE  /\ p \o q \in Seq(S) /\ Len(p \o q) = Len(p) + Len(q)
         /\ \A i \in 1 .. Len(p) : (p \o q)[i] = p[i]
         /\ Behind(p, q, p \o q)
<1> DEFINE m == Len(p)
           n == Len(q)
           r == p \o q
<1>1. \A i \in 1 .. m + n : r[i] = IF i <= m THEN p[i] ELSE q[i - m]
  BY ConcatProperties, Zenon
<1>2. m \in Nat /\ n \in Nat
  BY LenProperties, Zenon
<1>3. r \in Seq(S) /\ Len(r) = m + n
  BY ConcatProperties, Zenon
<1> HIDE DEF m, n, r
<1>4. /\ \A i \in 1 .. m : r[i] = p[i]
      /\ \A i \in 1 .. n : r[m + i] = q[i]
  <2>1. \A i \in 1 .. m : i \in 1 .. m + n /\ i <= m
    BY <1>2
  <2>2. \A i \in 1 .. n :
          m + i \in 1 .. m + n /\ ~(m + i <= m) /\ (m + i) - m = i
    BY <1>2
  <2>3. ASSUME NEW i \in 1 .. n PROVE r[m + i] = q[i]
    <3>1. r[m + i] = q[(m + i) - m]
      BY <1>1, <2>2, Zenon
    <3> QED
      BY <2>2, <3>1, Zenon
  <2> QED
    BY <1>1, <2>1, <2>3, Zenon
<1>5. Behind(p, q, r)
  BY <1>4, Zenon DEF m, n, Behind
<1> QED
  BY <1>3, <1>4, <1>5, Zenon DEF m, n, r

\* A function on 1 .. n is a sequence of length n.
LEMMA Sequence ==
  ASSUME NEW S, NEW n \in Nat, NEW p \in [1 .. n -> S]
  PROVE  p \in Seq(S) /\ Len(p) = n
<1>1. p \in Seq(S)
  BY SeqDef, Zenon
<1>2. Len(p) \in Nat /\ DOMAIN p = 1 .. Len(p)
  BY <1>1, LenProperties, Zenon
<1>3. DOMAIN p = 1 .. n
  OBVIOUS
<1> QED
  BY <1>1, <1>2, <1>3, SMT

\* Where the fields a, b, c, the n bytes p, the count v and the m entries q of
\* a report lie on the wire.
Placed(w, a, b, c, n, p, v, m, q) ==
  /\ \E U : w \in Seq(U)
  /\ Len(w) = (4 + n) + m
  /\ w[1] = a /\ w[2] = b /\ w[3] = c
  /\ \A i \in 1 .. n : w[3 + i] = p[i]
  /\ w[4 + n] = v
  /\ \A i \in 1 .. m : w[(4 + n) + i] = q[i]

\* The node puts them there.
LEMMA WireFields ==
  ASSUME NEW a, NEW b, NEW c, NEW n \in Nat, NEW S, NEW p \in [1 .. n -> S],
         NEW v, NEW m \in Nat, NEW q \in [1 .. m -> S]
  PROVE  Placed(<< a, b, c >> \o p \o << v >> \o q, a, b, c, n, p, v, m, q)
<1> DEFINE U == S \cup {a, b, c, v}
           h == << a, b, c >>
           d == << v >>
           hp == h \o p
           hpd == hp \o d
           w == hpd \o q
<1>1. /\ h \in Seq(U) /\ Len(h) = 3 /\ h[1] = a /\ h[2] = b /\ h[3] = c
      /\ d \in Seq(U) /\ Len(d) = 1 /\ d[1] = v
  OBVIOUS
<1>2. p \in [1 .. n -> U] /\ q \in [1 .. m -> U]
  OBVIOUS
<1> HIDE DEF U, h, d
<1>4. p \in Seq(U) /\ Len(p) = n
  BY <1>2, Sequence, Zenon
<1>5. q \in Seq(U) /\ Len(q) = m
  BY <1>2, Sequence, Zenon
<1>6. /\ hp \in Seq(U) /\ Len(hp) = Len(h) + Len(p)
      /\ \A i \in 1 .. Len(h) : hp[i] = h[i]
      /\ Behind(h, p, hp)
  BY <1>1, <1>4, Joined, Zenon
<1> HIDE DEF hp
<1>7. /\ hpd \in Seq(U) /\ Len(hpd) = Len(hp) + Len(d)
      /\ \A i \in 1 .. Len(hp) : hpd[i] = hp[i]
      /\ Behind(hp, d, hpd)
  BY <1>1, <1>6, Joined, Zenon
<1> HIDE DEF hpd
<1>8. /\ w \in Seq(U) /\ Len(w) = Len(hpd) + Len(q)
      /\ \A i \in 1 .. Len(hpd) : w[i] = hpd[i]
      /\ Behind(hpd, q, w)
  BY <1>5, <1>7, Joined, Zenon
<1> HIDE DEF w
<1>9. Len(hp) = 3 + n /\ Len(hpd) = 4 + n /\ Len(w) = (4 + n) + m
  BY <1>1, <1>4, <1>5, <1>6, <1>7, <1>8
<1>10. /\ hp[1] = a /\ hp[2] = b /\ hp[3] = c
       /\ \A i \in 1 .. n : hp[3 + i] = p[i]
  BY <1>1, <1>4, <1>6 DEF Behind
<1>11. hpd[(3 + n) + 1] = v
  BY <1>1, <1>7, <1>9 DEF Behind
<1>12. \A i \in 1 .. 3 + n : w[i] = hp[i]
  BY <1>7, <1>8, <1>9
<1>13. w[1] = a /\ w[2] = b /\ w[3] = c /\ \A i \in 1 .. n : w[3 + i] = p[i]
  <2>1. /\ 1 \in 1 .. 3 + n /\ 2 \in 1 .. 3 + n /\ 3 \in 1 .. 3 + n
        /\ \A i \in 1 .. n : 3 + i \in 1 .. 3 + n
    OBVIOUS
  <2> QED
    BY <1>10, <1>12, <2>1, ZenonT(40)
<1>14. w[4 + n] = v
  <2>1. (3 + n) + 1 = 4 + n /\ 4 + n \in 1 .. 4 + n
    OBVIOUS
  <2> QED
    BY <1>8, <1>9, <1>11, <2>1
<1>15. \A i \in 1 .. m : w[(4 + n) + i] = q[i]
  BY <1>5, <1>8, <1>9, Zenon DEF Behind
<1> QED
  BY <1>8, <1>9, <1>13, <1>14, <1>15 DEF Placed, w, hpd, hp, h, d

\* The bytes the gateway takes from between the fields.
LEMMA BytesBetween ==
  ASSUME NEW U, NEW w \in Seq(U), NEW n \in Nat, 4 + n <= Len(w)
  PROVE  LET s == SubSeq(w, 4, (4 + n) - 1)
         IN  /\ Len(s) = n /\ (s = << >> <=> n = 0)
             /\ \A i \in 1 .. n : s[i] = w[3 + i]
<1> DEFINE s == SubSeq(w, 4, (4 + n) - 1)
<1>1. s \in Seq(U) /\ Len(s) = n
  OBVIOUS
<1>2. \A i \in 1 .. n : s[i] = w[3 + i]
  OBVIOUS
<1> HIDE DEF s
<1>3. s = << >> <=> n = 0
  BY <1>1, EmptySeq
<1> QED
  BY <1>1, <1>2, <1>3, Zenon DEF s

\* What a report says of one transmitter.
LinkData(A, B) == [vlc_tx_id : A, vlc_link_quality : B]

\* A report whose bits are as many as its length says is decoded as it was
\* encoded, for any number of transmitters.
LEMMA ReportReadBack ==
  ASSUME NEW a, NEW b, NEW len \in Int, NEW bits \in Seq({0, 1}),
         Len(bits) = (IF len > 0 THEN len ELSE 0),
         NEW A, NEW B, NEW d \in Seq(LinkData(A, B)),
         NEW r, r = [node_id |-> a, ACK_number |-> b, pattern_length |-> len,
                     bits |-> bits, vlc_data |-> d]
  PROVE  generate_status_report_from_string(convert_report_packet_to_string(r))
           = r
<1> DEFINE n == PatternBytes(len)
           m == 2 * Len(d)
           p == [i \in 1 .. n |-> TempByte(bits, len, i - 1)]
           q == [i \in 1 .. m |->
                  LET v == d[(i + 1) \div 2]
                  IN  IF i % 2 = 1 THEN v.vlc_tx_id ELSE v.vlc_link_quality]
           w == convert_report_packet_to_string(r)
           S == {p[i] : i \in 1 .. n} \cup {q[i] : i \in 1 .. m}
<1>1. n \in Nat /\ Len(d) \in Nat /\ m \in Nat
  <2>1. n \in Nat
    BY PatternBytesFit
  <2>2. Len(d) \in Nat
    BY LenProperties, Zenon
  <2> QED
    BY <2>1, <2>2
<1>2. w = << a, b, len >> \o p \o << Len(d) >> \o q
  BY DEF convert_report_packet_to_string
<1>3. p \in [1 .. n -> S] /\ q \in [1 .. m -> S]
  OBVIOUS
<1>4. \A i \in 1 .. n : p[i] = TempByte(bits, len, i - 1)
  OBVIOUS
<1>5. \A i \in 1 .. Len(d) : q[2 * i - 1] = d[i].vlc_tx_id
                            /\ q[2 * i] = d[i].vlc_link_quality
  <2> TAKE i \in 1 .. Len(d)
  <2>1. /\ 2 * i - 1 \in 1 .. m /\ ((2 * i - 1) + 1) \div 2 = i
        /\ (2 * i - 1) % 2 = 1
        /\ 2 * i \in 1 .. m /\ (2 * i + 1) \div 2 = i /\ (2 * i) % 2 # 1
    BY <1>1
  <2> QED
    BY <2>1, Zenon
<1> HIDE DEF n, m, p, q, w, S
<1>6. Placed(w, a, b, len, n, p, Len(d), m, q)
  BY <1>1, <1>2, <1>3, WireFields, Zenon
<1>7. /\ w[1] = a /\ w[2] = b /\ w[3] = len /\ w[4 + n] = Len(d)
      /\ \A i \in 1 .. n : w[3 + i] = p[i]
      /\ \A i \in 1 .. m : w[(4 + n) + i] = q[i]
  BY <1>6 DEF Placed
<1> DEFINE s == SubSeq(w, 4, (4 + n) - 1)
<1>9. /\ Len(s) = n /\ (s = << >> <=> n = 0)
      /\ \A i \in 1 .. n : s[i] = w[3 + i]
  <2>1. PICK U : w \in Seq(U)
    BY <1>6, Zenon DEF Placed
  <2>2. 4 + n <= Len(w)
    BY <1>1, <1>6 DEF Placed
  <2> QED
    BY <1>1, <2>1, <2>2, BytesBetween
<1> HIDE DEF s
<1>10. ACK_bit_pattern(s, len) = bits
  <2>1. \A i \in 1 .. n : s[i] = TempByte(bits, len, i - 1)
    BY <1>4, <1>7, <1>9
  <2> QED
    BY <1>9, <2>1, PatternReadBack DEF n
<1> DEFINE g == [i \in 1 .. Len(d) |->
                  [vlc_tx_id |-> w[(4 + n) + 2 * i - 1],
                   vlc_link_quality |-> w[(4 + n) + 2 * i]]]
<1>11. g = d
  <2>1. ASSUME NEW i \in 1 .. Len(d)
        PROVE  [vlc_tx_id |-> w[(4 + n) + 2 * i - 1],
                vlc_link_quality |-> w[(4 + n) + 2 * i]] = d[i]
    <3>1. /\ 2 * i - 1 \in 1 .. m /\ 2 * i \in 1 .. m
          /\ (4 + n) + 2 * i - 1 = (4 + n) + (2 * i - 1)
      BY <1>1 DEF m
    <3>2. /\ w[(4 + n) + 2 * i - 1] = d[i].vlc_tx_id
          /\ w[(4 + n) + 2 * i] = d[i].vlc_link_quality
      BY <1>5, <1>7, <3>1
    <3>3. d[i] \in LinkData(A, B)
      BY ElementOfSeq, Zenon
    <3> QED
      BY <3>2, <3>3 DEF LinkData
  <2>2. d = [i \in 1 .. Len(d) |-> d[i]]
    OBVIOUS
  <2> QED
    BY <2>1, <2>2, Zenon
<1>12. generate_status_report_from_string(w) =
         [node_id |-> w[1], ACK_number |-> w[2], pattern_length |-> len,
          bits |-> ACK_bit_pattern(s, len), vlc_data |-> g]
  BY <1>7, Zenon DEF generate_status_report_from_string, n, s
<1> QED
  BY <1>7, <1>10, <1>11, <1>12, Zenon DEF w

-----------------------------------------------------------------------------
\* A report has as many bits as its length says, none for a negative length.
Fits(r) ==
  Len(r.bits) = (IF r.pattern_length > 0 THEN r.pattern_length ELSE 0)

\* The bits sendbuf has room for.
Room == PATTERN_ROOM * CHAR_BIT

\* There is room for one.
LEMMA RoomForOne == Room \in Nat /\ Room > 0
BY CodecAssumption DEF Room

\* send_report reads the length once and counts up to it, whatever rcv_seq does
\* meanwhile: the report it sends fits its length, and sendbuf.
PatternInv ==
  /\ Fits(sent) /\ Len(sent.bits) <= Room
  /\ pc["send_report"] \in {"last", "length"} => report.bits = << >>
  /\ pc["send_report"] \in {"index", "bit"} =>
       Len(report.bits) < report.pattern_length /\ Len(report.bits) < Room
  /\ pc["send_report"] = "send" => Fits(report) /\ Len(report.bits) <= Room

\* Every step keeps PatternInv.
LEMMA PatternStep == Types /\ PatternInv /\ [Next]_vars => PatternInv'
<1> SUFFICES ASSUME Types, PatternInv, [Next]_vars PROVE PatternInv'
  OBVIOUS
<1>0. /\ pc \in [Threads -> Places] /\ "send_report" \in Threads
      /\ rcv_seq \in Nat /\ reg \in Nat /\ report \in Report
      /\ report.pattern_length \in Int /\ report.bits \in Seq({0, 1})
      /\ Len(report.bits) \in Nat
  BY NodeAssumption DEF Types, Threads, Places, Report, Bit
<1>1. CASE receive \/ process_data
  <2>1. UNCHANGED <<report, sent>> /\ pc'["send_report"] = pc["send_report"]
    BY <1>1, OthersStep
  <2> QED
    BY <2>1 DEF PatternInv, Fits
<1>2. CASE ReportAck
  <2>1. report'.bits = << >> /\ sent' = sent /\ pc'["send_report"] = "last"
    BY <1>0, <1>2 DEF ReportAck, NoReport, Goto
  <2> QED
    BY <2>1 DEF PatternInv, Fits
<1>3. CASE ReportLast
  <2>1. /\ UNCHANGED <<report, sent>>
        /\ pc["send_report"] = "last" /\ pc'["send_report"] = "length"
    BY <1>0, <1>3 DEF ReportLast, Goto
  <2> QED
    BY <2>1 DEF PatternInv, Fits
<1>4. CASE ReportLength
  <2> DEFINE l == reg - rcv_seq + 1
  <2>1. report'.pattern_length = l /\ report'.bits = report.bits /\ l \in Int
    BY <1>0, <1>4 DEF ReportLength, Report
  <2>2. /\ sent' = sent /\ pc["send_report"] = "length"
        /\ pc'["send_report"] = IF l > 0 THEN "index" ELSE "send"
    BY <1>0, <1>4 DEF ReportLength, Goto
  <2>3. Len(report'.bits) = 0
    BY <2>1, <2>2 DEF PatternInv
  <2> HIDE DEF l
  <2>4. CASE l > 0
    BY <2>1, <2>2, <2>3, <2>4, RoomForOne DEF PatternInv, Fits
  <2>5. CASE ~(l > 0)
    BY <2>1, <2>2, <2>3, <2>5, RoomForOne DEF PatternInv, Fits
  <2> QED
    BY <2>4, <2>5
<1>5. CASE ReportIndex
  <2>1. /\ UNCHANGED <<report, sent>>
        /\ pc["send_report"] = "index" /\ pc'["send_report"] = "bit"
    BY <1>0, <1>5 DEF ReportIndex, Goto
  <2> QED
    BY <2>1 DEF PatternInv, Fits
<1>6. CASE ReportBit
  <2>1. PICK b \in StateAt(reg) :
          /\ report'.pattern_length = report.pattern_length
          /\ report'.bits = Append(report.bits, b)
    BY <1>0, <1>6 DEF ReportBit, Report
  <2>2. /\ sent' = sent /\ pc["send_report"] = "bit"
        /\ pc'["send_report"] =
             IF Len(report'.bits) >= report.pattern_length THEN "send"
             ELSE IF Len(report'.bits) < Room THEN "index" ELSE "dead"
    BY <1>0, <1>6 DEF ReportBit, Goto, Room
  <2>3. Len(report'.bits) = Len(report.bits) + 1
    <3>1. b \in {0, 1}
      BY <2>1 DEF StateAt, Types, Bit
    <3> QED
      BY <1>0, <2>1, <3>1
  <2>4. Len(report.bits) < report.pattern_length /\ Len(report.bits) < Room
    BY <2>2 DEF PatternInv
  <2>5. CASE Len(report'.bits) < report.pattern_length
    BY <1>0, <2>1, <2>2, <2>3, <2>4, <2>5 DEF PatternInv, Fits
  <2>6. CASE ~(Len(report'.bits) < report.pattern_length)
    BY <1>0, <2>1, <2>2, <2>3, <2>4, <2>6, RoomForOne DEF PatternInv, Fits
  <2> QED
    BY <2>5, <2>6
<1>7. CASE ReportSend
  <2>1. /\ sent' = report /\ pc["send_report"] = "send"
        /\ pc'["send_report"] = "ack_number"
    BY <1>0, <1>7 DEF ReportSend, Goto
  <2> QED
    BY <2>1 DEF PatternInv, Fits
<1>8. CASE ReportFault
  <2>1. UNCHANGED <<report, sent>> /\ pc'["send_report"] = "dead"
    BY <1>0, <1>8 DEF ReportFault, Goto, reporting
  <2> QED
    BY <2>1 DEF PatternInv, Fits
<1>9. CASE UNCHANGED vars
  BY <1>9 DEF PatternInv, Fits, vars, reporting
<1> QED
  BY <1>1, <1>2, <1>3, <1>4, <1>5, <1>6, <1>7, <1>8, <1>9 DEF Next, send_report

\* The first report is empty.
LEMMA PatternInit == Init => PatternInv
BY RoomForOne DEF Init, PatternInv, Fits, NoReport

\* For every size of the window, of the queue and of sendbuf, and whatever
\* numbers corrupted frames carry: process_queue keeps its limit, what is sent
\* fits into sendbuf, and rcv_seq and last_rcv_seq stay within the pages of
\* rcv_state, within the array unless a corrupted number lay behind it.
THEOREM TypeCorrect == Spec => []TypeOK
<1>1. Types /\ StrayInv /\ PatternInv => TypeOK
  BY DEF Types, Places, StrayInv, PatternInv, Room, TypeOK
<1> QED
  BY <1>1, TypeInit, TypeStep, StatusInit, ArrivedStep, StrayStep, PatternInit,
     PatternStep, PTL DEF Spec

\* For every CHAR_BIT, every window, every size of sendbuf and every
\* interleaving: what the gateway decodes from a report that was sent, its bits
\* and the link quality behind them, is what the node put into it, also when
\* rcv_seq moved while it was put together.  A report that does not fit into
\* sendbuf is not sent as it should be, and nothing is said of it.
THEOREM ReportsDecode == Spec => []ReportDecodes
<1>1. Types /\ PatternInv => ReportDecodes
  <2> SUFFICES ASSUME Types, PatternInv, NEW q \in Byte,
                 NEW r, r = [node_id |-> SELF_ID, ACK_number |-> sent.ACK_number,
                             pattern_length |-> sent.pattern_length,
                             bits |-> sent.bits,
                             vlc_data |-> << [vlc_tx_id |-> 1,
                                              vlc_link_quality |-> q] >>]
               PROVE  generate_status_report_from_string(
                        convert_report_packet_to_string(r)) = r
    BY Zenon DEF ReportDecodes
  <2>1. /\ sent.ACK_number \in Int /\ sent.pattern_length \in Int
        /\ sent.bits \in Seq({0, 1})
    BY DEF Types, Report, Bit
  <2>2. Len(sent.bits) =
          (IF sent.pattern_length > 0 THEN sent.pattern_length ELSE 0)
    BY DEF PatternInv, Fits
  <2>3. PICK b, len \in Int, bits \in Seq({0, 1}) :
          /\ b = sent.ACK_number /\ len = sent.pattern_length
          /\ bits = sent.bits
    BY <2>1, Zenon
  <2>4. PICK d \in Seq(LinkData(1 .. 1, Byte)) :
          d = << [vlc_tx_id |-> 1, vlc_link_quality |-> q] >>
    <3>1. << [vlc_tx_id |-> 1, vlc_link_quality |-> q] >>
            \in Seq(LinkData(1 .. 1, Byte))
      BY DEF LinkData
    <3> QED
      BY <3>1
  <2>5. r = [node_id |-> SELF_ID, ACK_number |-> b, pattern_length |-> len,
             bits |-> bits, vlc_data |-> d]
    BY <2>3, <2>4, Zenon
  <2>6. Len(bits) = (IF len > 0 THEN len ELSE 0)
    BY <2>2, <2>3, Zenon
  <2> QED
    BY <2>5, <2>6, ReportReadBack, ZenonT(60)
<1> QED
  BY <1>1, TypeInit, TypeStep, PatternInit, PatternStep, PTL DEF Spec
=============================================================================
