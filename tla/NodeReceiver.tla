---------------------------- MODULE NodeReceiver ----------------------------
(***************************************************************************)
(* The receiver application of the node (node (rf)_node1/main.c).          *)
(*                                                                         *)
(*   receive_rf  --+                                                       *)
(*                 +--> process_queue --> process_data --> status          *)
(*   receive_vlc --+                                         |             *)
(*                                                      send_report        *)
(*                                                                         *)
(* Each is a POSIX thread.  process_queue is accessed under its mutex and  *)
(* an operation on it is one step.  struct node_status (rcv_seq,           *)
(* rcv_state, last_rcv_seq) is shared without a lock: every                *)
(* access that another thread can see between is a step of its own.        *)
(*                                                                         *)
(* A frame that could not be corrected is queued with whatever number its  *)
(* four bytes make, and process_data indexes rcv_state with it unchecked.  *)
(* rcv_state has MAX_SEQ_NUMBER entries; it is larger than malloc's mmap   *)
(* threshold, so that the zero-filled rest of its last page, PAGE_REST     *)
(* more, behaves like part of it.  A store further out hits another        *)
(* mapping or none; it ends the model, as "dead", like the store that      *)
(* leaves the buffer of a report: from there on the program may do         *)
(* anything and nothing is claimed.  A read out there finds any value, or  *)
(* is the end as well.                                                     *)
(*                                                                         *)
(* The report is kept as the fields send_report copies; ReportCodec says   *)
(* what becomes of them on the wire.                                       *)
(***************************************************************************)
EXTENDS ReportCodec

CONSTANTS
  MAX_SEQ_NUMBER,       \* sequence numbers are 0 .. MAX_SEQ_NUMBER - 1
  WildNumbers,          \* other numbers a frame can carry when it is corrupted
  PAGE_REST,            \* ints in the rest of the last page of rcv_state
  max_ACK_bit_pattern,  \* longest pattern process_data leaves to report
  MAX_PROCESS_QUEUE,    \* limit of process_queue
  MaxArrivals           \* bound: packets that arrive from both links

ASSUME NodeAssumption ==
  /\ MAX_SEQ_NUMBER \in Nat \ {0}
  /\ WildNumbers \subseteq Int
  /\ PAGE_REST \in Nat
  /\ max_ACK_bit_pattern \in Nat \ {0}
  /\ MAX_PROCESS_QUEUE \in Nat \ {0}
  /\ MaxArrivals \in Nat

VARIABLES
  process_queue,                     \* sequence numbers, head first
  rcv_seq, rcv_state, last_rcv_seq,  \* struct node_status
  pc,           \* where process_data and send_report are
  cur,          \* i of process_data: the packet being processed
  reg,          \* what send_report has loaded and not yet used
  report,       \* the report being put together in sendbuf
  sent,         \* the last report handed to sendto()
  arrivals,     \* history: number of arrivals, for the bound
  arrived       \* history: sequence numbers accepted into process_queue

node_status == <<rcv_seq, rcv_state, last_rcv_seq>>
reporting   == <<reg, report, sent>>
vars == <<process_queue, node_status, pc, cur, reporting, arrivals,
          arrived>>

SELF_ID    == 1
SeqNumbers == 0 .. MAX_SEQ_NUMBER - 1
Numbers    == SeqNumbers \cup WildNumbers
Entries    == 0 .. MAX_SEQ_NUMBER + PAGE_REST - 1
Threads    == {"process_data", "send_report"}

\* A report: ACK number, pattern length, and the bits copied so far.
NoReport == [ACK_number |-> 0, pattern_length |-> 0, bits |-> << >>]

Init ==
  /\ process_queue = << >>
  /\ rcv_seq = 0 /\ last_rcv_seq = 0
  /\ rcv_state = [s \in Entries |-> 0]
  /\ pc = [process_data |-> "idle", send_report |-> "ack_number"]
  /\ cur = 0 /\ reg = 0 /\ report = NoReport /\ sent = NoReport
  /\ arrivals = 0 /\ arrived = {}

\* A thread has accessed memory it should not have: all of them stop.
Dead == \E t \in Threads : pc[t] = "dead"

Goto(t, from, to) ==
  /\ ~Dead /\ pc[t] = from
  /\ pc' = [pc EXCEPT ![t] = to]

\* What reading rcv_state[k] may yield, of its lowest bit.
StateAt(k) == IF k \in Entries THEN {rcv_state[k]} ELSE {0, 1}

-----------------------------------------------------------------------------
(* The two receiving threads.                                              *)

\* Mutant of PushProcess: the limit is not tested.
PushProcessUnbounded(s) ==
  /\ process_queue' = Append(process_queue, s)
  /\ arrived' = arrived \cup {s}

\* push() under process_queue_mutex; refused by a full queue.
PushProcess(s) ==
  IF Len(process_queue) >= MAX_PROCESS_QUEUE
  THEN UNCHANGED <<process_queue, arrived>>
  ELSE /\ process_queue' = Append(process_queue, s)
       /\ arrived' = arrived \cup {s}

\* The RF socket sees all frames of the channel.
is_from_gateway(f) == f.src = "gateway" /\ f.dst = "node"

\* A packet of the gateway for this node: always queued.
receive_rf(s) ==
  /\ ~Dead /\ arrivals < MaxArrivals
  /\ arrivals' = arrivals + 1
  /\ PushProcess(s)
  /\ UNCHANGED <<node_status, pc, cur, reporting>>

\* A VLC frame for this node (SELF_ID, or RS_ERROR_ID which is renamed to
\* SELF_ID) is queued the same way, whatever number it carries: RS_ERROR_ID
\* marks the frames that could not be corrected, too.  A dummy is not queued;
\* what receive_vlc does with its fields is in VlcFrame, Frame_Rx is in RxRing.
receive_vlc(s) == receive_rf(s)

\* A frame of another station, or the node's own report, changes nothing.
receive ==
  \/ \E s \in SeqNumbers,
        f \in [src : {"gateway", "node"}, dst : {"gateway", "node"}] :
       is_from_gateway(f) /\ receive_rf(s)
  \/ \E s \in Numbers : receive_vlc(s)

-----------------------------------------------------------------------------
(* process_data.                                                           *)

ProcessPop ==
  /\ process_queue # << >>
  /\ Goto("process_data", "idle", "mark")
  /\ cur' = Head(process_queue)
  /\ process_queue' = Tail(process_queue)
  /\ UNCHANGED <<node_status, reporting, arrivals, arrived>>

\* Mutant of ProcessMark: the packet at rcv_seq itself is not recorded.
ProcessMarkAbove ==
  /\ Goto("process_data", "mark",
          IF cur > rcv_seq /\ cur \notin Entries THEN "dead" ELSE "last")
  /\ rcv_state' = IF cur > rcv_seq /\ cur \in Entries
                  THEN [rcv_state EXCEPT ![cur] = 1] ELSE rcv_state
  /\ UNCHANGED <<process_queue, rcv_seq, last_rcv_seq, cur,
                 reporting, arrivals, arrived>>

\* An old number, or a negative one, is not recorded.
ProcessMark ==
  /\ Goto("process_data", "mark",
          IF cur >= rcv_seq /\ cur \notin Entries THEN "dead" ELSE "last")
  /\ rcv_state' = IF cur >= rcv_seq /\ cur \in Entries
                  THEN [rcv_state EXCEPT ![cur] = 1] ELSE rcv_state
  /\ UNCHANGED <<process_queue, rcv_seq, last_rcv_seq, cur,
                 reporting, arrivals, arrived>>

ProcessLast ==
  /\ Goto("process_data", "last", "advance")
  /\ last_rcv_seq' = IF cur > last_rcv_seq THEN cur ELSE last_rcv_seq
  /\ UNCHANGED <<process_queue, rcv_seq, rcv_state, cur, reporting,
                 arrivals, arrived>>

\* One test of the while loop; rcv_seq is stored at every iteration.
\* Past the last page a 1 is the end, too.
ProcessAdvance ==
  /\ \E b \in StateAt(rcv_seq) :
       /\ Goto("process_data", "advance",
               IF b = 0 THEN "slide"
               ELSE IF rcv_seq \in Entries THEN "advance" ELSE "dead")
       /\ rcv_seq' = IF b = 1 /\ rcv_seq \in Entries THEN rcv_seq + 1
                     ELSE rcv_seq
  /\ UNCHANGED <<process_queue, rcv_state, last_rcv_seq, cur,
                 reporting, arrivals, arrived>>

\* Mutants of ProcessSlide: the window is kept one packet too short; the
\* window slides whatever its length.
ProcessSlideTooFar ==
  /\ Goto("process_data", "slide", "idle")
  /\ rcv_seq' = IF last_rcv_seq - rcv_seq + 1 >= max_ACK_bit_pattern
                THEN last_rcv_seq - max_ACK_bit_pattern + 2 ELSE rcv_seq
  /\ cur' = 0
  /\ UNCHANGED <<process_queue, rcv_state, last_rcv_seq, reporting,
                 arrivals, arrived>>

ProcessSlideAlways ==
  /\ Goto("process_data", "slide", "idle")
  /\ rcv_seq' = last_rcv_seq - max_ACK_bit_pattern + 1
  /\ cur' = 0
  /\ UNCHANGED <<process_queue, rcv_state, last_rcv_seq, reporting,
                 arrivals, arrived>>

\* The window of unreported packets slides when it is longer than a pattern.
ProcessSlide ==
  /\ Goto("process_data", "slide", "idle")
  /\ rcv_seq' = IF last_rcv_seq - rcv_seq + 1 > max_ACK_bit_pattern
                THEN last_rcv_seq - max_ACK_bit_pattern + 1 ELSE rcv_seq
  /\ cur' = 0                       \* dead until the next pop
  /\ UNCHANGED <<process_queue, rcv_state, last_rcv_seq, reporting,
                 arrivals, arrived>>

process_data == \/ ProcessPop \/ ProcessMark \/ ProcessLast
                \/ ProcessAdvance \/ ProcessSlide

-----------------------------------------------------------------------------
(* send_report: reads status piece by piece while process_data runs.       *)

ReportAck ==
  /\ Goto("send_report", "ack_number", "last")
  /\ report' = [NoReport EXCEPT !.ACK_number = rcv_seq]
  /\ UNCHANGED <<process_queue, node_status, cur, reg, sent,
                 arrivals, arrived>>

ReportLast ==
  /\ Goto("send_report", "last", "length")
  /\ reg' = last_rcv_seq
  /\ UNCHANGED <<process_queue, node_status, cur, report, sent,
                 arrivals, arrived>>

\* Mutant of ReportLength: the pattern stops short of last_rcv_seq.
ReportLengthShort ==
  /\ Goto("send_report", "length",
          IF reg - rcv_seq > 0 THEN "index" ELSE "send")
  /\ report' = [report EXCEPT !.pattern_length = reg - rcv_seq]
  /\ reg' = 0
  /\ UNCHANGED <<process_queue, node_status, cur, sent, arrivals,
                 arrived>>

ReportLength ==
  /\ Goto("send_report", "length",
          IF reg - rcv_seq + 1 > 0 THEN "index" ELSE "send")
  /\ report' = [report EXCEPT !.pattern_length = reg - rcv_seq + 1]
  /\ reg' = 0
  /\ UNCHANGED <<process_queue, node_status, cur, sent, arrivals,
                 arrived>>

\* Mutant of ReportIndex: the bits start one packet late.
ReportIndexLate ==
  /\ Goto("send_report", "index", "bit")
  /\ reg' = rcv_seq + Len(report.bits) + 1
  /\ UNCHANGED <<process_queue, node_status, cur, report, sent,
                 arrivals, arrived>>

\* rcv_seq is read again for every bit.
ReportIndex ==
  /\ Goto("send_report", "index", "bit")
  /\ reg' = rcv_seq + Len(report.bits)
  /\ UNCHANGED <<process_queue, node_status, cur, report, sent,
                 arrivals, arrived>>

\* The next bit; more bytes than sendbuf has room for are stored behind it.
ReportBit ==
  /\ \E b \in StateAt(reg) :
       report' = [report EXCEPT !.bits = Append(@, b)]
  /\ Goto("send_report", "bit",
          IF Len(report'.bits) >= report.pattern_length THEN "send"
          ELSE IF Len(report'.bits) < PATTERN_ROOM * CHAR_BIT THEN "index"
          ELSE "dead")
  /\ reg' = 0
  /\ UNCHANGED <<process_queue, node_status, cur, sent, arrivals,
                 arrived>>

\* An index beyond the last page where nothing is mapped.
ReportFault ==
  /\ reg \notin Entries
  /\ Goto("send_report", "bit", "dead")
  /\ UNCHANGED <<process_queue, node_status, cur, reporting, arrivals,
                 arrived>>

\* sendto() is repeated until it succeeds: failures are stuttering steps.
ReportSend ==
  /\ Goto("send_report", "send", "ack_number")
  /\ sent' = report
  /\ report' = NoReport
  /\ UNCHANGED <<process_queue, node_status, cur, reg, arrivals,
                 arrived>>

send_report == \/ ReportAck \/ ReportLast \/ ReportLength
               \/ ReportIndex \/ ReportBit \/ ReportFault \/ ReportSend

-----------------------------------------------------------------------------
Next == receive \/ process_data \/ send_report

Spec == Init /\ [][Next]_vars

(* The receiving threads wait for the links and owe nothing; the others    *)
(* are endless loops that Linux schedules.                                 *)
Fairness == /\ WF_vars(process_data)
            /\ WF_vars(send_report)

FairSpec == Spec /\ Fairness
-----------------------------------------------------------------------------
(* Properties.                                                             *)

Bit == {0, 1}
Report == [ACK_number : Nat, pattern_length : Int, bits : Seq(Bit)]

\* The type invariant.  The process queue respects its limit, and a report the
\* room in sendbuf; its pattern length may be negative.  rcv_seq and
\* last_rcv_seq stay within the pages of rcv_state, and leave the array itself
\* only when a corrupted number was queued that lies there.
TypeOK ==
  /\ process_queue \in Seq(Numbers)
  /\ Len(process_queue) <= MAX_PROCESS_QUEUE
  /\ rcv_state \in [Entries -> Bit]
  /\ rcv_seq \in 0 .. MAX_SEQ_NUMBER + PAGE_REST /\ last_rcv_seq \in Entries
  /\ last_rcv_seq \in SeqNumbers \cup arrived
  /\ rcv_seq <= MAX_SEQ_NUMBER \/ rcv_seq - 1 \in arrived
       \/ rcv_seq + max_ACK_bit_pattern - 1 \in arrived
  /\ pc \in [Threads -> {"idle", "mark", "last", "advance", "slide",
                         "ack_number", "length", "index", "bit", "send",
                         "dead"}]
  /\ pc["process_data"] = "last" => cur < MAX_SEQ_NUMBER + PAGE_REST
  /\ cur \in Numbers /\ reg \in Nat
  /\ report \in Report /\ sent \in Report
  /\ Len(sent.bits) <= PATTERN_ROOM * CHAR_BIT
  /\ arrivals \in Nat /\ arrived \subseteq Numbers

\* The ACK number is cumulative: every packet below rcv_seq has arrived, or
\* lies further behind last_rcv_seq than a report can say (the window that
\* process_data slid over it).
CumulativeAckSound ==
  \A k \in 0 .. rcv_seq - 1 :
    k \in arrived \/ k + max_ACK_bit_pattern <= last_rcv_seq

\* Every packet process_data is done with is covered by the ACK number or is
\* recorded inside the window that a report copies, in whatever order the
\* two links delivered it.
ProcessedRecorded ==
  pc["process_data"] = "idle" =>
    \A k \in arrived :
      \/ \E i \in DOMAIN process_queue : process_queue[i] = k
      \/ k < rcv_seq
      \/ rcv_state[k] = 1 /\ k <= last_rcv_seq

\* A report during which process_data did not move rcv_seq is exact where it
\* claims reception: bit j set means that packet ACK_number + j arrived.
\* send_report takes no lock, so nothing is claimed for the other reports.
StableReportExact ==
  pc["send_report"] = "send" /\ report.ACK_number = rcv_seq =>
    \A j \in DOMAIN report.bits :
      report.bits[j] = 1 => report.ACK_number + j - 1 \in arrived

\* What the gateway decodes from a report that was sent, one that fits into
\* sendbuf, is what the node put into it, the link quality behind the pattern
\* included: also for the reports that were put together while rcv_seq moved.
ReportDecodes ==
  \A q \in Byte :
    LET r == [node_id |-> SELF_ID, ACK_number |-> sent.ACK_number,
              pattern_length |-> sent.pattern_length, bits |-> sent.bits,
              vlc_data |-> << [vlc_tx_id |-> 1, vlc_link_quality |-> q] >>]
    IN  generate_status_report_from_string(convert_report_packet_to_string(r))
          = r

\* The ACK number of the reports never goes back.
ReportsAdvance == [][sent'.ACK_number >= sent.ACK_number]_sent

Reported(k) ==
  \/ k < sent.ACK_number
  \/ /\ k - sent.ACK_number + 1 \in DOMAIN sent.bits
     /\ sent.bits[k - sent.ACK_number + 1] = 1

\* Every packet accepted into process_queue is eventually reported to the
\* gateway as received, by the ACK number or by its bit, unless a corrupted
\* number or a pattern longer than sendbuf ends the program first.
EventuallyReported ==
  \A k \in SeqNumbers : (k \in arrived) ~> (Reported(k) \/ Dead)
=============================================================================
