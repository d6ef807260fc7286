-------------------------- MODULE GatewayVlcProofs --------------------------
(***************************************************************************)
(* Proofs about the VLC side of the gateway, module GatewayVlc: its array  *)
(* stays in its bounds, it takes no packet for delivered that the node     *)
(* still waits for, and it resends a packet once for every mark.           *)
(*                                                                         *)
(* First what receive_report reads out of a report, which is a matter of   *)
(* the code in ReportCodec; then the invariants of the three threads.      *)
(* Facts about recursive functions are proved by looking at a least        *)
(* counterexample, lemma Least.                                            *)
(***************************************************************************)
EXTENDS GatewayVlc, TLAPS, SequenceTheorems, WellFoundedInduction

\* A non-empty set of natural numbers has a least element.
LEMMA Least ==
  ASSUME NEW T \in SUBSET Nat, T # {}
  PROVE  \E x \in T : \A y \in T : x <= y
<1>1. PICK x \in T : \A y \in T : ~(<<y, x>> \in OpToRel(<, Nat))
  BY WFMin, NatLessThanWellFounded
<1>2. ASSUME NEW y \in T PROVE x <= y
  <2>1. ~(y < x)
    BY <1>1 DEF OpToRel
  <2> QED
    BY <2>1
<1> QED
  BY <1>2

\* A byte has more than one value.
LEMMA ByteSize == 2^CHAR_BIT \in Nat /\ 2^CHAR_BIT > 1
<1> DEFINE C == CHAR_BIT
           T == {n \in 0 .. C - 1 : ~(2^(n + 1) \in Nat /\ 2^(n + 1) > 1)}
<1>1. C \in Nat /\ C # 0
  BY CodecAssumption
<1>2. ASSUME NEW n \in 0 .. C - 1 PROVE 2^(n + 1) = 2 * 2^n
  BY CodecAssumption, Zenon
<1>3. ASSUME T # {} PROVE FALSE
  <2>1. T \in SUBSET Nat
    BY <1>1
  <2>2. PICK x \in T : \A y \in T : x <= y
    BY <1>3, <2>1, Least, Zenon
  <2>3. x \in 0 .. C - 1 /\ ~(2^(x + 1) \in Nat /\ 2^(x + 1) > 1)
    OBVIOUS
  <2>4. 2^(x + 1) = 2 * 2^x
    BY <1>2, <2>3, Zenon
  <2>5. CASE x = 0
    <3>1. 2^0 = 1
      OBVIOUS
    <3>2. 2^(x + 1) = 2
      BY <2>4, <2>5, <3>1
    <3> QED
      BY <2>3, <3>2
  <2>6. CASE x # 0
    <3>1. x - 1 \in 0 .. C - 1 /\ (x - 1) + 1 = x /\ ~(x <= x - 1)
      BY <1>1, <2>3, <2>6
    <3>2. 2^((x - 1) + 1) \in Nat /\ 2^((x - 1) + 1) > 1
      BY <2>2, <3>1, Zenon
    <3>3. 2^x \in Nat /\ 2^x > 1
      BY <3>1, <3>2, Zenon
    <3> QED
      BY <2>3, <2>4, <3>3
  <2> QED
    BY <2>5, <2>6
<1>4. C - 1 \in 0 .. C - 1 /\ (C - 1) + 1 = C
  BY <1>1
<1> QED
  BY <1>3, <1>4, Zenon

\* With nothing to remove, the array and its length stay as they are.
LEMMA NothingRemoved ==
  ASSUME MAX_SEQ_NUMBER \in Nat
  PROVE  WithoutAcked({}) = [a |-> unacked, n |-> n_unacked]
<1> DEFINE base == [a |-> unacked, n |-> n_unacked]
           F(gone) ==
             [n \in 0 .. MAX_SEQ_NUMBER |->
               IF n = 0 THEN [a |-> unacked, n |-> n_unacked]
               ELSE LET g == gone[n - 1]
                        at == {l \in 0 .. g.n - 1 : g.a[l] = n - 1}
                    IN  IF n - 1 \in {} /\ at # {}
                        THEN [a |-> [g.a EXCEPT ![CHOOSE l \in at :
                                                    \A m \in at : l <= m]
                                                  = g.a[g.n - 1]],
                              n |-> g.n - 1]
                        ELSE g]
           G == CHOOSE gone : gone = F(gone)
           c == [n \in 0 .. MAX_SEQ_NUMBER |-> base]
<1>1. WithoutAcked({}) = G[MAX_SEQ_NUMBER]
  BY DEF WithoutAcked
<1>2. \A gone : F(gone) = [n \in 0 .. MAX_SEQ_NUMBER |->
                             IF n = 0 THEN base ELSE gone[n - 1]]
  BY Zenon
<1> HIDE DEF F, base
<1>3. \A n \in 0 .. MAX_SEQ_NUMBER : n # 0 => n - 1 \in 0 .. MAX_SEQ_NUMBER
  BY SMT
<1>4. F(c) = c
  BY <1>2, <1>3, Zenon
<1>5. G = F(G)
  BY <1>4, Zenon
<1> HIDE DEF G
<1>6. \A n \in 0 .. MAX_SEQ_NUMBER :
        G[n] = IF n = 0 THEN base ELSE G[n - 1]
  BY <1>2, <1>5, Zenon
<1>7. \A n \in 0 .. MAX_SEQ_NUMBER : G[n] = base
  <2> DEFINE T == {n \in 0 .. MAX_SEQ_NUMBER : G[n] # base}
  <2> SUFFICES T = {}
    OBVIOUS
  <2> SUFFICES ASSUME T # {} PROVE FALSE
    OBVIOUS
  <2>1. T \in SUBSET Nat
    BY SMT
  <2>2. PICK x \in T : \A y \in T : x <= y
    BY <2>1, Least, Zenon
  <2>3. x \in 0 .. MAX_SEQ_NUMBER /\ G[x] # base
    OBVIOUS
  <2>4. x # 0 /\ G[x - 1] = G[x]
    BY <1>6, <2>3, Zenon
  <2>5. x - 1 \in T
    BY <1>3, <2>3, <2>4, Zenon
  <2> QED
    BY <2>2, <2>3, <2>5, SMT
<1>8. MAX_SEQ_NUMBER \in 0 .. MAX_SEQ_NUMBER
  BY SMT
<1> QED
  BY <1>1, <1>7, <1>8, Zenon DEF base

\* LastOf is the greatest of some sequence numbers.
LEMMA LastOfIs ==
  ASSUME MAX_SEQ_NUMBER \in Nat, NEW S \in SUBSET SeqNumbers, S # {}
  PROVE  LastOf(S) \in S /\ \A i \in S : i <= LastOf(S)
<1> DEFINE T == {MAX_SEQ_NUMBER - k : k \in S}
<1>0. \A k \in S : k \in Int /\ MAX_SEQ_NUMBER - k \in Nat
  BY DEF SeqNumbers
<1>1. T \in SUBSET Nat /\ T # {}
  BY <1>0
<1>2. PICK x \in T : \A y \in T : x <= y
  BY <1>1, Least, Zenon
<1>3. PICK k \in S : x = MAX_SEQ_NUMBER - k
  OBVIOUS
<1>4. ASSUME NEW i \in S PROVE i <= k
  <2>1. x <= MAX_SEQ_NUMBER - i
    BY <1>2
  <2> QED
    BY <1>0, <1>3, <2>1, SMT
<1> QED
  BY <1>4, Zenon DEF LastOf

\* The first packet from rcv_seq on that is not among some: there is one, at
\* the latest behind the last sequence number.
FirstOf(S) == CHOOSE i \in rcv_seq .. MAX_SEQ_NUMBER :
                i \notin S /\ rcv_seq .. i - 1 \subseteq S

LEMMA FirstOfIs ==
  ASSUME MAX_SEQ_NUMBER \in Nat, rcv_seq \in 0 .. MAX_SEQ_NUMBER,
         NEW S \in SUBSET SeqNumbers
  PROVE  FirstOf(S) \in rcv_seq .. MAX_SEQ_NUMBER
         /\ rcv_seq .. FirstOf(S) - 1 \subseteq S
<1> DEFINE T == {k \in rcv_seq .. MAX_SEQ_NUMBER : k \notin S}
<1>1. MAX_SEQ_NUMBER \in T /\ T \in SUBSET Nat
  BY DEF SeqNumbers
<1>2. PICK x \in T : \A y \in T : x <= y
  BY <1>1, Least, Zenon
<1>3. x \in rcv_seq .. MAX_SEQ_NUMBER /\ x \notin S
  OBVIOUS
<1>4. ASSUME NEW k \in rcv_seq .. x - 1 PROVE k \in S
  <2>1. k \in rcv_seq .. MAX_SEQ_NUMBER /\ ~(x <= k)
    BY <1>3, SMT
  <2> QED
    BY <1>2, <2>1
<1>5. x \notin S /\ rcv_seq .. x - 1 \subseteq S
  BY <1>3, <1>4
<1> HIDE DEF T
<1> QED
  BY <1>3, <1>5, Zenon DEF FirstOf

\* Sequence r continues with q where p ends.
Behind(p, q, r) == \A i \in 1 .. Len(q) : r[Len(p) + i] = q[i]

\* The elements of a concatenation.
LEMMA Joined ==
  ASSUME NEW S, NEW p \in Seq(S), NEW q \in Seq(S)
  PROVE  /\ p \o q \in Seq(S) /\ Len(p \o q) = Len(p) + Len(q)
         /\ \A i \in 1 .. Len(p) : (p \o q)[i] = p[i]
         /\ Behind(p, q, p \o q)
<1> DEFINE m == Len(p)
           n == Len(q)
           r == p \o q
<1>1. \A i \in 1 .. m + n : r[i] = IF i <= m THEN p[i] ELSE q[i - m]
  BY ConcatProperties, Zenon
<1>2. m \in Nat /\ n \in Nat
  BY LenProperties, Zenon
<1>3. r \in Seq(S) /\ Len(r) = m + n
  BY ConcatProperties, Zenon
<1> HIDE DEF m, n, r
<1>4. /\ \A i \in 1 .. m : r[i] = p[i]
      /\ \A i \in 1 .. n : r[m + i] = q[i]
  BY <1>1, <1>2, SMT
<1>5. Behind(p, q, r)
  BY <1>4, Zenon DEF m, n, Behind
<1> QED
  BY <1>3, <1>4, <1>5, Zenon DEF m, n, r

\* A function on 1 .. n is a sequence of length n.
LEMMA Sequence ==
  ASSUME NEW S, NEW n \in Nat, NEW p \in [1 .. n -> S]
  PROVE  p \in Seq(S) /\ Len(p) = n
<1>1. p \in Seq(S)
  BY SeqDef, Zenon
<1>2. Len(p) \in Nat /\ DOMAIN p = 1 .. Len(p)
  BY <1>1, LenProperties, Zenon
<1>3. DOMAIN p = 1 .. n
  OBVIOUS
<1> QED
  BY <1>1, <1>2, <1>3, SMT

\* Where the fields of a report lie on the wire, around a pattern of n bytes.
Placed(w, b, c, n, v, x) ==
  w[2] = b /\ w[3] = c /\ w[4 + n] = v /\ w[4 + n + 2] = x

\* A report with pattern p and the data q of one transmitter has them there.
LEMMA WireFields ==
  ASSUME NEW a, NEW b, NEW c, NEW n \in Nat, NEW S, NEW p \in [1 .. n -> S],
         NEW v, NEW q \in [1 .. 2 -> S]
  PROVE  Placed(<< a, b, c >> \o p \o << v >> \o q, b, c, n, v, q[2])
<1> DEFINE U == S \cup {a, b, c, v}
           h == << a, b, c >>
           d == << v >>
           hp == h \o p
           hpd == hp \o d
           w == hpd \o q
<1>1. /\ h \in Seq(U) /\ Len(h) = 3 /\ h[2] = b /\ h[3] = c
      /\ d \in Seq(U) /\ Len(d) = 1 /\ d[1] = v
  OBVIOUS
<1>2. p \in [1 .. n -> U] /\ q \in [1 .. 2 -> U]
  OBVIOUS
<1> HIDE DEF U, h, d
<1>3. p \in Seq(U) /\ Len(p) = n
  BY <1>2, Sequence, Zenon
<1>4. 2 \in Nat
  OBVIOUS
<1>5. q \in Seq(U) /\ Len(q) = 2
  BY <1>2, <1>4, Sequence, Zenon
<1>6. /\ hp \in Seq(U) /\ Len(hp) = Len(h) + Len(p)
      /\ \A i \in 1 .. Len(h) : hp[i] = h[i]
  BY <1>1, <1>3, Joined, Zenon
<1> HIDE DEF hp
<1>7. /\ hpd \in Seq(U) /\ Len(hpd) = Len(hp) + Len(d)
      /\ \A i \in 1 .. Len(hp) : hpd[i] = hp[i]
      /\ \A i \in 1 .. Len(d) : hpd[Len(hp) + i] = d[i]
  <2>1. hp \in Seq(U) /\ d \in Seq(U)
    BY <1>1, <1>6
  <2>2. hpd \in Seq(U) /\ Len(hpd) = Len(hp) + Len(d)
    BY <2>1, Joined, Zenon
  <2>3. \A i \in 1 .. Len(hp) : hpd[i] = hp[i]
    BY <2>1, Joined, Zenon
  <2>4. Behind(hp, d, hpd)
    BY <2>1, Joined, Zenon
  <2> QED
    BY <2>2, <2>3, <2>4 DEF Behind
<1> HIDE DEF hpd
<1>8. /\ \A i \in 1 .. Len(hpd) : w[i] = hpd[i]
      /\ \A i \in 1 .. Len(q) : w[Len(hpd) + i] = q[i]
  <2>1. hpd \in Seq(U) /\ q \in Seq(U)
    BY <1>5, <1>7
  <2>2. \A i \in 1 .. Len(hpd) : w[i] = hpd[i]
    BY <2>1, Joined, Zenon
  <2>3. Behind(hpd, q, w)
    BY <2>1, Joined, Zenon
  <2> QED
    BY <2>2, <2>3 DEF Behind
<1> HIDE DEF w
<1>9. Len(hp) = 3 + n /\ Len(hpd) = 4 + n
  BY <1>1, <1>3, <1>6, <1>7
<1>10. hp[2] = b /\ hp[3] = c
  BY <1>1, <1>6
<1>11. hpd[2] = b /\ hpd[3] = c /\ hpd[4 + n] = v
  <2>1. 2 \in 1 .. 3 + n /\ 3 \in 1 .. 3 + n /\ 1 \in 1 .. 1 /\ (3 + n) + 1 = 4 + n
    OBVIOUS
  <2> QED
    BY <1>1, <1>7, <1>9, <1>10, <2>1
<1>12. w[2] = b /\ w[3] = c /\ w[4 + n] = v /\ w[(4 + n) + 2] = q[2]
  BY <1>5, <1>8, <1>9, <1>11
<1> QED
  BY <1>12 DEF Placed, w, hpd, hp, h, d

\* The link quality the gateway finds, behind a pattern of n bytes.
LEMMA QualityDecoded ==
  ASSUME NEW w, NEW n \in Nat, PatternBytes(w[3]) = n, w[4 + n] = 1
  PROVE  generate_status_report_from_string(w).vlc_data[1].vlc_link_quality
           = w[4 + n + 2]
<1> DEFINE d == [i \in 1 .. w[4 + n] |->
                  [vlc_tx_id |-> w[4 + n + 2 * i - 1],
                   vlc_link_quality |-> w[4 + n + 2 * i]]]
<1>1. generate_status_report_from_string(w).vlc_data = d
  BY DEF generate_status_report_from_string
<1>2. d[1].vlc_link_quality = w[4 + n + 2 * 1]
  OBVIOUS
<1>3. 4 + n + 2 * 1 = 4 + n + 2
  OBVIOUS
<1> QED
  BY <1>1, <1>2, <1>3

\* The report of the node as it stands, when the gateway has unpacked it.
Report == generate_status_report_from_string(
            convert_report_packet_to_string(StatusReport(1)))

\* What the gateway reads in a report of the node: the number of the packet it
\* waits for, the quality the node gave, and a pattern that, compared with
\* the character '1', acknowledges nothing.
LEMMA ReportIs ==
  ASSUME received \subseteq SeqNumbers, rcv_seq \in 0 .. MAX_SEQ_NUMBER
  PROVE  /\ Report.ACK_number = rcv_seq
         /\ Report.vlc_data[1].vlc_link_quality = 1
         /\ Acknowledged(Report) = {}
<1> DEFINE last == IF received = {} THEN 0 ELSE LastOf(received)
           s == StatusReport(1)
           len == s.pattern_length
           n == PatternBytes(len)
           p == [i \in 1 .. n |-> TempByte(s.bits, len, i - 1)]
           q == [i \in 1 .. 2 * Len(s.vlc_data) |->
                  LET v == s.vlc_data[(i + 1) \div 2]
                  IN  IF i % 2 = 1 THEN v.vlc_tx_id ELSE v.vlc_link_quality]
           w == convert_report_packet_to_string(s)
<1>1. MAX_SEQ_NUMBER \in Nat /\ CHAR_BIT \in Nat \ {0}
  BY VlcAssumption, CodecAssumption
<1>2. rcv_seq \in Int /\ last \in Int
  <2>1. CASE received = {}
    BY <1>1, <2>1
  <2>2. CASE received # {}
    <3>1. LastOf(received) \in received
      BY <1>1, <2>2, LastOfIs
    <3>2. LastOf(received) \in SeqNumbers
      BY <3>1
    <3>3. LastOf(received) \in Int
      BY <1>1, <3>2 DEF SeqNumbers
    <3> QED
      BY <1>1, <2>2, <3>3
  <2> QED
    BY <2>1, <2>2
<1>3. /\ s.node_id = 1 /\ s.ACK_number = rcv_seq
      /\ len = last - rcv_seq + 1
      /\ s.vlc_data = << [vlc_tx_id |-> 1, vlc_link_quality |-> 1] >>
  BY DEF StatusReport
<1> HIDE DEF last
<1>4. w = << s.node_id, s.ACK_number, len >> \o p \o << Len(s.vlc_data) >> \o q
  BY DEF convert_report_packet_to_string
<1> HIDE DEF s
<1>5. len \in Int
  BY <1>2, <1>3
<1> HIDE DEF len
<1>6. n \in Nat
  BY <1>1, <1>5 DEF PatternBytes
<1>7. Len(s.vlc_data) = 1 /\ s.vlc_data[1].vlc_link_quality = 1
  BY <1>3
<1>8. q \in [1 .. 2 -> {q[1], q[2]}] /\ q[2] = 1
  BY <1>3, <1>7
<1> HIDE DEF n
<1> DEFINE S == {p[i] : i \in 1 .. n} \cup {q[1], q[2]}
<1>9. p \in [1 .. n -> S] /\ q \in [1 .. 2 -> S]
  BY <1>8
<1> HIDE DEF p, q, S, w
<1>10. w[2] = s.ACK_number /\ w[3] = len /\ w[4 + n] = 1 /\ w[4 + n + 2] = 1
  <2>1. Placed(w, s.ACK_number, len, n, Len(s.vlc_data), q[2])
    BY <1>4, <1>6, <1>9, WireFields, Zenon
  <2> QED
    BY <1>6, <1>7, <1>8, <2>1 DEF Placed
<1>11. Report = generate_status_report_from_string(w)
  BY DEF Report, w, s
<1>12. Report.ACK_number = rcv_seq
  BY <1>3, <1>10, <1>11 DEF generate_status_report_from_string
<1>13. Report.vlc_data[1].vlc_link_quality = 1
  <2>1. PatternBytes(w[3]) = n
    BY <1>10 DEF n
  <2> QED
    BY <1>6, <1>10, <1>11, <2>1, QualityDecoded
<1>14. Acknowledged(Report) = {}
  <2>1. \A byte, j : ~Acknowledges(BitAt(byte, j))
    BY DEF Acknowledges, BitAt
  <2>2. \A bytes, l : \A i \in DOMAIN ACK_bit_pattern(bytes, l) :
          \E byte, j : ACK_bit_pattern(bytes, l)[i] = BitAt(byte, j)
    BY Zenon DEF ACK_bit_pattern
  <2>3. PICK bytes, l : Report.bits = ACK_bit_pattern(bytes, l)
    BY <1>11 DEF generate_status_report_from_string
  <2>4. \A i \in DOMAIN Report.bits : \E byte, j : Report.bits[i] = BitAt(byte, j)
    BY <2>2, <2>3
  <2>5. \A i \in DOMAIN Report.bits : ~Acknowledges(Report.bits[i])
    BY <2>1, <2>4
  <2> QED
    BY <2>5 DEF Acknowledged
<1> QED
  BY <1>12, <1>13, <1>14

(***************************************************************************)
(* The invariants.                                                         *)
(***************************************************************************)

\* The numbers; the node queue holds the packets from popped to generated.
Counters ==
  /\ generated \in 0 .. MaxPackets /\ popped \in 0 .. generated
  /\ unsched_seq \in SeqNumbers /\ unacked_seq \in 0 .. MAX_SEQ_NUMBER

\* What is known of every packet.
Marks ==
  /\ pkt_state \in [SeqNumbers -> {0, VLC_unacked, VLC_acked, RF}]
  /\ expire_time \in [SeqNumbers -> {"passed", "ahead"}]
  /\ resent \in [SeqNumbers -> Nat] /\ marked \in [SeqNumbers -> Nat]

\* The node waits for no packet below rcv_seq.
Waiting ==
  /\ received \subseteq SeqNumbers /\ rcv_seq \in 0 .. MAX_SEQ_NUMBER
  /\ \A k \in SeqNumbers : k < rcv_seq => Settled(k)

\* transmit_vlc and its queue.
Light ==
  /\ vlc_list \in Seq(SeqNumbers) /\ vlc_size \in Nat /\ freed \in BOOLEAN
  /\ tx \in [pc : {"idle", "size", "send", "dead"},
             packet : SeqNumbers \cup {NULL}]
  /\ tx.pc = "size" => vlc_size > 0

\* schedule_packet.
Scheduling ==
  /\ sched \in [pc : {"pop", "push", "mark", "expire", "room", "keep", "load",
                      "store"},
                temp : SeqNumbers \cup {NULL}, idx : SeqNumbers, n : Int]
  /\ sched.pc \in {"push", "mark", "expire", "room", "keep"} =>
       sched.temp \in SeqNumbers

\* check_unacked.
Checking ==
  /\ chk \in [pc : {"start", "loop", "state", "find", "push", "mark", "move",
                    "load", "store"},
              j : 0 .. MAX_SEQ_NUMBER, l : Nat, expired : BOOLEAN, n : Int]
  /\ chk.pc \notin {"start", "loop"} => chk.j \in SeqNumbers

\* The array stays in its bounds: only schedule_packet raises n_unacked, by one
\* from what it has loaded since it found room, and what check_unacked stores
\* is below what it has loaded.
InBounds ==
  /\ n_unacked \in 0 .. MAX_UNACKED_VLC_PACKET - 1
  /\ sched.pc \in {"keep", "load"} => n_unacked <= MAX_UNACKED_VLC_PACKET - 2
  /\ sched.pc = "store" => sched.n \in 0 .. MAX_UNACKED_VLC_PACKET - 2
  /\ chk.pc \in {"push", "mark", "move", "load"} => n_unacked > 0
  /\ chk.pc = "store" => chk.n \in 1 .. MAX_UNACKED_VLC_PACKET - 1

\* The packets kept in it.
Kept ==
  unacked \in [0 .. MAX_UNACKED_VLC_PACKET - 1 -> SeqNumbers \cup {GARBAGE}]

\* All of this.
Shape == /\ Counters /\ Marks /\ Waiting /\ Light /\ Scheduling /\ Checking
         /\ InBounds /\ Kept /\ e \in Byte

\* Nothing ever marks a packet VLC_acked; a packet check_unacked is about to
\* resend is VLC_unacked; and one that is, unless it has just been resent and
\* is about to be marked RF, has a mark that no resending has used up.
Resending ==
  /\ \A k \in SeqNumbers : pkt_state[k] # VLC_acked
  /\ chk.pc \in {"find", "push", "mark"} => pkt_state[chk.j] = VLC_unacked
  /\ \A k \in SeqNumbers : resent[k] <= marked[k]
  /\ \A k \in SeqNumbers :
       pkt_state[k] = VLC_unacked /\ ~(chk.pc = "mark" /\ chk.j = k) =>
         resent[k] + 1 <= marked[k]

\* The node waits for no packet below unacked_seq.
Confirmed == \A k \in SeqNumbers : k < unacked_seq => Settled(k)

\* A report changes unacked_seq and e, and nothing else.
LEMMA ReportStep ==
  ASSUME Shape, receive_report
  PROVE  /\ unacked_seq' = unacked_seq \/ unacked_seq' = rcv_seq
         /\ e' = e \/ e' = 2^CHAR_BIT - 1 - 1
         /\ pkt_state' = pkt_state /\ UNCHANGED array
         /\ UNCHANGED <<packets, unsched_seq, expire_time, queue, sched, tx,
                        chk, node, history>>
<1>1. /\ received \subseteq SeqNumbers /\ rcv_seq \in 0 .. MAX_SEQ_NUMBER
      /\ pkt_state = [k \in SeqNumbers |-> pkt_state[k]]
  BY DEF Shape, Marks, Waiting
<1>2. PICK f \in Frames :
        IF is_from_node(f)
        THEN LET r == generate_status_report_from_string(f.wire)
                 g == WithoutAcked(Acknowledged(r))
             IN  /\ unacked_seq' = r.ACK_number
                 /\ pkt_state' = [k \in SeqNumbers |->
                                    IF k \in Acknowledged(r) THEN VLC_acked
                                    ELSE pkt_state[k]]
                 /\ unacked' = g.a /\ n_unacked' = g.n
                 /\ e' = 2^CHAR_BIT - 1 - r.vlc_data[1].vlc_link_quality
        ELSE UNCHANGED <<unacked_seq, pkt_state, array, e>>
  BY DEF receive_report
<1>3. UNCHANGED <<packets, unsched_seq, expire_time, queue, sched, tx, chk,
                  node, history>>
  BY DEF receive_report
<1>4. CASE is_from_node(f)
  <2>1. f.wire = convert_report_packet_to_string(StatusReport(1))
    BY <1>2, <1>4 DEF Frames, is_from_node, node_addresses, N_NODE
  <2>2. /\ unacked_seq' = Report.ACK_number
        /\ pkt_state' = [k \in SeqNumbers |->
                           IF k \in Acknowledged(Report) THEN VLC_acked
                           ELSE pkt_state[k]]
        /\ unacked' = WithoutAcked(Acknowledged(Report)).a
        /\ n_unacked' = WithoutAcked(Acknowledged(Report)).n
        /\ e' = 2^CHAR_BIT - 1 - Report.vlc_data[1].vlc_link_quality
    BY <1>2, <1>4, <2>1, Zenon DEF Report
  <2>3. /\ Report.ACK_number = rcv_seq
        /\ Report.vlc_data[1].vlc_link_quality = 1
        /\ Acknowledged(Report) = {}
    BY <1>1, ReportIs
  <2>4. WithoutAcked({}) = [a |-> unacked, n |-> n_unacked]
    BY VlcAssumption, NothingRemoved
  <2>5. unacked' = unacked /\ n_unacked' = n_unacked
    BY <2>2, <2>3, <2>4
  <2>6. pkt_state' = pkt_state
    BY <1>1, <2>2, <2>3
  <2> QED
    BY <1>3, <2>2, <2>3, <2>5, <2>6 DEF array
<1>5. CASE ~is_from_node(f)
  BY <1>2, <1>3, <1>5
<1> QED
  BY <1>4, <1>5

\* The counters keep their order.
LEMMA CountersStep == Shape /\ [Next]_vars => Counters'
<1> SUFFICES ASSUME Shape, [Next]_vars PROVE Counters'
  OBVIOUS
<1> USE VlcAssumption DEF Counters
<1>0. Counters
  BY DEF Shape
<1>1. CASE generate_packet
  BY <1>0, <1>1 DEF generate_packet, status
<1>2. CASE SchedulePop
  <2>1. unsched_seq' \in SeqNumbers
    BY <1>0, <1>2 DEF SchedulePop, SeqNumbers
  <2> QED
    BY <1>0, <1>2, <2>1 DEF SchedulePop
<1>3. CASE receive_report
  BY <1>0, <1>3, ReportStep DEF packets, Shape, Waiting
<1>4. CASE UNCHANGED <<generated, popped, unsched_seq, unacked_seq>>
  BY <1>0, <1>4
<1> QED
  BY <1>1, <1>2, <1>3, <1>4
     DEF Next, vars, schedule_packet, transmit_vlc, check_unacked,
         SchedulePush, ScheduleMark, ScheduleExpire, ScheduleRoom,
         ScheduleKeep, ScheduleLoad, ScheduleStore, TransmitPop, TransmitSize,
         transmit_packet_vlc, CheckStart, CheckLoop, CheckState, CheckFind,
         CheckPush, CheckMark, CheckMove, CheckLoad, CheckStore,
         NodeReceiveRf, Expire, status, array, packets

\* Marks are set for packets that exist.
LEMMA MarksStep == Shape /\ [Next]_vars => Marks'
<1> SUFFICES ASSUME Shape, [Next]_vars PROVE Marks'
  OBVIOUS
<1> USE VlcAssumption DEF Marks, Scheduling, Checking
<1>0. Marks /\ Scheduling /\ Checking
  BY DEF Shape
<1>1. CASE ScheduleMark
  <2>1. sched.idx \in SeqNumbers /\ marked[sched.idx] + 1 \in Nat
    BY <1>0
  <2>2. marked' \in [SeqNumbers -> Nat]
    BY <1>0, <1>1, <2>1 DEF ScheduleMark
  <2> QED
    BY <1>0, <1>1, <2>1, <2>2 DEF ScheduleMark
<1>2. CASE ScheduleExpire
  BY <1>0, <1>2 DEF ScheduleExpire, SchedGoto, history
<1>4. CASE CheckPush
  <2>1. chk.j \in SeqNumbers
    BY <1>0, <1>4 DEF CheckPush, ChkGoto
  <2>2. resent[chk.j] + 1 \in Nat
    BY <1>0, <2>1
  <2>3. resent' \in [SeqNumbers -> Nat]
    BY <1>0, <1>4, <2>2 DEF CheckPush
  <2> QED
    BY <1>0, <1>4, <2>3 DEF CheckPush, status
<1>5. CASE CheckMark
  BY <1>0, <1>5 DEF CheckMark, ChkGoto, history
<1>7. CASE Expire
  BY <1>0, <1>7 DEF Expire, history
<1>8. CASE receive_report
  BY <1>0, <1>8, ReportStep DEF history
<1>9. CASE UNCHANGED <<pkt_state, expire_time, history>>
  BY <1>0, <1>9 DEF history
<1> QED
  BY <1>1, <1>2, <1>4, <1>5, <1>7, <1>8, <1>9
     DEF Next, vars, schedule_packet, transmit_vlc, check_unacked,
         generate_packet, SchedulePop, SchedulePush, ScheduleRoom,
         ScheduleKeep, ScheduleLoad, ScheduleStore, TransmitPop, TransmitSize,
         transmit_packet_vlc, CheckStart, CheckLoop, CheckState, CheckFind,
         CheckMove, CheckLoad, CheckStore, NodeReceiveRf, status

\* Whatever packet the node accepts, it still waits for none below rcv_seq: it
\* has those it advances over, and those it leaves behind are as far below the
\* last one as its window is long.
LEMMA NodeStep ==
  ASSUME Waiting, NEW k \in SeqNumbers, NodeReceive(k)
  PROVE  Waiting' /\ received \subseteq received'
<1> DEFINE S == received \cup {k}
           last == LastOf(S)
           first == FirstOf(S)
           max == max_ACK_bit_pattern
<1>1. MAX_SEQ_NUMBER \in Nat /\ max \in Nat \ {0}
  BY VlcAssumption
<1>2. S \in SUBSET SeqNumbers /\ S # {} /\ rcv_seq \in 0 .. MAX_SEQ_NUMBER
  BY DEF Waiting
<1>3. received' = S /\ rcv_seq' = IF last - first + 1 > max THEN last - max + 1
                                  ELSE first
  BY DEF NodeReceive, FirstOf
<1> HIDE DEF S
<1>4. last \in S /\ \A i \in S : i <= last
  BY <1>1, <1>2, LastOfIs
<1>5. first \in rcv_seq .. MAX_SEQ_NUMBER /\ rcv_seq .. first - 1 \subseteq S
  BY <1>1, <1>2, FirstOfIs
<1> HIDE DEF last, first, max
<1>6. last \in 0 .. MAX_SEQ_NUMBER - 1
  BY <1>2, <1>4 DEF SeqNumbers
<1>7. rcv_seq' \in 0 .. MAX_SEQ_NUMBER
  BY <1>1, <1>2, <1>3, <1>5, <1>6
<1>8. ASSUME NEW i \in SeqNumbers, i < rcv_seq'
      PROVE  i \in S \/ \E m \in S : i + max_ACK_bit_pattern <= m
  <2>1. i \in Int /\ i >= 0
    BY <1>1 DEF SeqNumbers
  <2>2. CASE last - first + 1 > max
    <3>1. i + max <= last
      BY <1>1, <1>3, <1>5, <1>6, <1>8, <2>1, <2>2
    <3> QED
      BY <1>4, <3>1 DEF max
  <2>3. CASE ~(last - first + 1 > max) /\ i >= rcv_seq
    <3>1. i \in rcv_seq .. first - 1
      BY <1>2, <1>3, <1>5, <1>8, <2>1, <2>3
    <3> QED
      BY <1>5, <3>1
  <2>4. CASE i < rcv_seq
    <3>1. Settled(i)
      BY <2>4 DEF Waiting
    <3> QED
      BY <3>1 DEF Settled, S
  <2> QED
    BY <1>2, <2>1, <2>2, <2>3, <2>4
<1> QED
  BY <1>2, <1>3, <1>7, <1>8 DEF Waiting, Settled, S

\* No other step changes the node.
LEMMA WaitingStep ==
  Shape /\ [Next]_vars => Waiting' /\ received \subseteq received'
<1> SUFFICES ASSUME Shape, [Next]_vars
             PROVE  Waiting' /\ received \subseteq received'
  OBVIOUS
<1>0. Waiting
  BY DEF Shape
<1>1. CASE \E k \in SeqNumbers : NodeReceive(k)
  BY <1>0, <1>1, NodeStep
<1>2. CASE UNCHANGED node
  BY <1>0, <1>2 DEF node, Waiting, Settled
<1> QED
  BY <1>1, <1>2
     DEF Next, vars, schedule_packet, transmit_vlc, check_unacked,
         generate_packet, SchedulePop, SchedulePush, ScheduleMark,
         ScheduleExpire, ScheduleRoom, ScheduleKeep, ScheduleLoad,
         ScheduleStore, TransmitPop, TransmitSize, transmit_packet_vlc,
         CheckStart, CheckLoop, CheckState, CheckFind, CheckPush, CheckMark,
         CheckMove, CheckLoad, CheckStore, NodeReceiveRf, Expire, receive_report

\* The size of vlc_queue is not negative, whichever updates are lost.
LEMMA LightStep == Shape /\ [Next]_vars => Light'
<1> SUFFICES ASSUME Shape, [Next]_vars PROVE Light'
  OBVIOUS
<1> USE VlcAssumption DEF Light
<1>0. Light
  BY DEF Shape
<1>1. CASE SchedulePush
  <2>1. sched.temp \in SeqNumbers
    BY <1>1 DEF SchedulePush, SchedGoto, Shape, Scheduling
  <2>2. vlc_list' \in Seq(SeqNumbers)
    <3>1. << sched.temp >> \in Seq(SeqNumbers)
      BY <2>1
    <3>2. Append(vlc_list, sched.temp) \in Seq(SeqNumbers)
      BY <1>0, <2>1
    <3>3. \/ vlc_list' = << sched.temp >> \/ vlc_list' = vlc_list
          \/ vlc_list' = Append(vlc_list, sched.temp)
      BY <1>1, Zenon DEF SchedulePush
    <3> QED
      BY <1>0, <3>1, <3>2, <3>3
  <2>3. vlc_size' \in Nat /\ vlc_size' >= vlc_size /\ UNCHANGED <<freed, tx>>
    BY <1>0, <1>1 DEF SchedulePush
  <2> QED
    BY <1>0, <2>2, <2>3
<1>2. CASE TransmitPop
  <2>1. /\ vlc_list' \in Seq(SeqNumbers)
        /\ tx' \in [pc : {"size", "dead"}, packet : SeqNumbers \cup {NULL}]
        /\ UNCHANGED <<vlc_size, freed>> /\ vlc_size # 0
    BY <1>0, <1>2 DEF TransmitPop
  <2> QED
    BY <1>0, <2>1
<1>3. CASE TransmitSize
  <2>1. /\ tx' \in [pc : {"send"}, packet : SeqNumbers \cup {NULL}]
        /\ vlc_size' \in Nat /\ freed' \in BOOLEAN /\ UNCHANGED vlc_list
    BY <1>0, <1>3 DEF TransmitSize
  <2> QED
    BY <1>0, <2>1
<1>4. CASE transmit_packet_vlc
  BY <1>0, <1>4 DEF transmit_packet_vlc, queue
<1>5. CASE ScheduleRoom \/ ScheduleKeep
  <2>1. freed' \in BOOLEAN /\ UNCHANGED <<vlc_list, vlc_size, tx>>
    BY <1>0, <1>5 DEF ScheduleRoom, ScheduleKeep
  <2> QED
    BY <1>0, <2>1
<1>6. CASE UNCHANGED <<queue, tx>>
  BY <1>0, <1>6 DEF queue
<1> QED
  BY <1>1, <1>2, <1>3, <1>4, <1>5, <1>6
     DEF Next, vars, schedule_packet, transmit_vlc, check_unacked,
         generate_packet, SchedulePop, ScheduleMark, ScheduleExpire,
         ScheduleLoad, ScheduleStore, CheckStart, CheckLoop, CheckState,
         CheckFind, CheckPush, CheckMark, CheckMove, CheckLoad, CheckStore,
         NodeReceiveRf, Expire, receive_report

\* schedule_packet holds a packet of the node queue.
LEMMA SchedulingStep == Shape /\ [Next]_vars => Scheduling'
<1> SUFFICES ASSUME Shape, [Next]_vars PROVE Scheduling'
  OBVIOUS
<1> USE VlcAssumption DEF Counters, Scheduling, SeqNumbers, NULL
<1>0. Counters /\ Scheduling /\ n_unacked \in Nat
  BY DEF Shape, InBounds
<1>a. SchedIdle \in [pc : {"pop"}, temp : {NULL}, idx : SeqNumbers, n : Int]
  BY DEF SchedIdle
<1>1. CASE SchedulePop
  <2>1. popped % MAX_SEQ_NUMBER \in SeqNumbers
    BY <1>0
  <2> QED
    BY <1>0, <1>1, <2>1 DEF SchedulePop
<1>2. CASE SchedulePush
  BY <1>0, <1>2 DEF SchedulePush, SchedGoto
<1>3. CASE ScheduleMark
  BY <1>0, <1>3 DEF ScheduleMark, SchedGoto
<1>4. CASE ScheduleExpire
  BY <1>0, <1>4 DEF ScheduleExpire, SchedGoto
<1>5. CASE ScheduleRoom
  BY <1>0, <1>a, <1>5 DEF ScheduleRoom
<1>6. CASE ScheduleKeep
  BY <1>6 DEF ScheduleKeep, SchedIdle
<1>7. CASE ScheduleLoad
  <2>1. sched' = [pc |-> "store", temp |-> sched.temp, idx |-> sched.idx,
                  n |-> n_unacked]
    BY <1>0, <1>7 DEF ScheduleLoad
  <2>2. /\ sched.temp \in SeqNumbers \cup {NULL}
        /\ sched.idx \in SeqNumbers /\ n_unacked \in Int
    BY <1>0, <1>7 DEF ScheduleLoad
  <2> QED
    BY <2>1, <2>2
<1>8. CASE ScheduleStore
  BY <1>a, <1>8 DEF ScheduleStore
<1>9. CASE UNCHANGED <<sched>>
  BY <1>0, <1>9
<1> QED
  BY <1>1, <1>2, <1>3, <1>4, <1>5, <1>6, <1>7, <1>8, <1>9
     DEF Next, vars, schedule_packet, transmit_vlc, check_unacked,
         generate_packet, TransmitPop, TransmitSize, transmit_packet_vlc,
         CheckStart, CheckLoop, CheckState, CheckFind, CheckPush, CheckMark,
         CheckMove, CheckLoad, CheckStore, NodeReceiveRf, Expire,
         receive_report, status, array, packets

\* check_unacked looks at packets that were scheduled.
LEMMA CheckingStep == Shape /\ [Next]_vars => Checking'
<1> SUFFICES ASSUME Shape, [Next]_vars PROVE Checking'
  OBVIOUS
<1> USE VlcAssumption DEF Counters, Checking, SeqNumbers
<1>0. Counters /\ Checking /\ n_unacked \in Nat
  BY DEF Shape, InBounds
<1>a. chk.pc # "start" /\ chk.pc # "loop" =>
        NextPacket \in [pc : {"loop"}, j : 0 .. MAX_SEQ_NUMBER, l : Nat,
                       expired : BOOLEAN, n : Int]
  <2> SUFFICES ASSUME chk.pc # "start", chk.pc # "loop"
               PROVE  NextPacket \in [pc : {"loop"}, j : 0 .. MAX_SEQ_NUMBER,
                                     l : Nat, expired : BOOLEAN, n : Int]
    OBVIOUS
  <2>1. chk.j + 1 \in 0 .. MAX_SEQ_NUMBER
    BY <1>0
  <2> QED
    BY <2>1 DEF NextPacket
<1>b. /\ chk.pc \in {"start", "loop", "state", "find", "push", "mark", "move",
                     "load", "store"}
      /\ chk.j \in 0 .. MAX_SEQ_NUMBER /\ chk.l \in Nat
      /\ chk.expired \in BOOLEAN /\ chk.n \in Int
      /\ chk.pc \notin {"start", "loop"} => chk.j \in SeqNumbers
  BY <1>0
<1>1. CASE CheckStart
  BY <1>0, <1>1 DEF CheckStart
<1>2. CASE CheckLoop
  <2>1. CASE chk.j < unsched_seq
    <3>1. chk' = [pc |-> "state", j |-> chk.j, l |-> chk.l,
                  expired |-> (expire_time[chk.j] = "passed"), n |-> chk.n]
      BY <1>0, <1>2, <2>1 DEF CheckLoop
    <3> QED
      BY <1>0, <1>b, <2>1, <3>1
  <2>2. CASE ~(chk.j < unsched_seq)
    <3>1. chk' = [pc |-> "start", j |-> 0, l |-> chk.l,
                  expired |-> chk.expired, n |-> chk.n]
      BY <1>0, <1>2, <2>2 DEF CheckLoop
    <3> QED
      BY <1>b, <3>1
  <2> QED
    BY <2>1, <2>2
<1>3. CASE CheckState
  <2>1. chk.pc = "state" /\ (chk' = [chk EXCEPT !.pc = "find"] \/ chk' = NextPacket)
    BY <1>3 DEF CheckState
  <2>2. CASE chk' = [chk EXCEPT !.pc = "find"]
    BY <1>0, <2>1, <2>2
  <2>3. CASE chk' = NextPacket
    BY <1>a, <2>1, <2>3
  <2> QED
    BY <2>1, <2>2, <2>3
<1>4. CASE CheckFind
  <2>1. /\ chk.pc = "find"
        /\ \/ chk' = NextPacket
           \/ chk' = [chk EXCEPT !.pc = "push"]
           \/ chk' = [chk EXCEPT !.l = @ + 1]
    BY <1>4 DEF CheckFind
  <2>2. CASE chk' = [chk EXCEPT !.pc = "push"]
    BY <1>0, <2>1, <2>2
  <2>3. CASE chk' = NextPacket
    BY <1>a, <2>1, <2>3
  <2>4. CASE chk' = [chk EXCEPT !.l = @ + 1]
    <3>1. chk' = [pc |-> "find", j |-> chk.j, l |-> chk.l + 1,
                  expired |-> chk.expired, n |-> chk.n]
      BY <1>0, <2>1, <2>4
    <3> QED
      BY <1>b, <2>1, <3>1
  <2> QED
    BY <2>1, <2>2, <2>3, <2>4
<1>5. CASE CheckPush
  BY <1>0, <1>5 DEF CheckPush, ChkGoto
<1>6. CASE CheckMark
  BY <1>0, <1>6 DEF CheckMark, ChkGoto
<1>7. CASE CheckMove
  BY <1>0, <1>7 DEF CheckMove, ChkGoto
<1>8. CASE CheckLoad
  <2>1. chk.pc = "load" /\ chk' = [pc |-> "store", j |-> chk.j, l |-> chk.l,
                                 expired |-> chk.expired, n |-> n_unacked]
    BY <1>0, <1>8 DEF CheckLoad
  <2> QED
    BY <1>0, <1>b, <2>1
<1>9. CASE CheckStore
  <2>1. chk.pc = "store" /\ chk' = NextPacket
    BY <1>9 DEF CheckStore
  <2> QED
    BY <1>a, <2>1
<1>10. CASE UNCHANGED <<chk>>
  BY <1>0, <1>10
<1> QED
  BY <1>1, <1>2, <1>3, <1>4, <1>5, <1>6, <1>7, <1>8, <1>9, <1>10
     DEF Next, vars, schedule_packet, transmit_vlc, check_unacked,
         generate_packet, SchedulePop, SchedulePush, ScheduleMark,
         ScheduleExpire, ScheduleRoom, ScheduleKeep, ScheduleLoad,
         ScheduleStore, TransmitPop, TransmitSize, transmit_packet_vlc,
         NodeReceiveRf, Expire, receive_report, status, array, packets

\* No step of either thread takes the array out of its bounds.
LEMMA InBoundsStep == Shape /\ [Next]_vars => InBounds'
<1> SUFFICES ASSUME Shape, [Next]_vars PROVE InBounds'
  OBVIOUS
<1> USE VlcAssumption DEF InBounds
<1>0. InBounds /\ Scheduling /\ Checking
  BY DEF Shape
<1>1. CASE SchedulePop
  <2>1. sched'.pc \in {"pop", "push"} /\ UNCHANGED <<chk, n_unacked>>
    BY <1>0, <1>1 DEF SchedulePop, array, Scheduling
  <2> QED
    BY <1>0, <2>1
<1>2. CASE SchedulePush
  <2>1. sched'.pc = "mark" /\ UNCHANGED <<chk, n_unacked>>
    BY <1>0, <1>2 DEF SchedulePush, SchedGoto, array, Scheduling
  <2> QED
    BY <1>0, <2>1
<1>3. CASE ScheduleMark
  <2>1. sched'.pc = "expire" /\ UNCHANGED <<chk, n_unacked>>
    BY <1>0, <1>3 DEF ScheduleMark, SchedGoto, array, Scheduling
  <2> QED
    BY <1>0, <2>1
<1>4. CASE ScheduleExpire
  <2>1. sched'.pc = "room" /\ UNCHANGED <<chk, n_unacked>>
    BY <1>0, <1>4 DEF ScheduleExpire, SchedGoto, array, Scheduling
  <2> QED
    BY <1>0, <2>1
<1>5. CASE ScheduleRoom
  <2>1. /\ UNCHANGED <<chk, n_unacked>>
        /\ \/ sched'.pc = "pop"
           \/ sched'.pc = "keep" /\ n_unacked + 1 < MAX_UNACKED_VLC_PACKET
    BY <1>0, <1>5 DEF ScheduleRoom, SchedIdle, array, Scheduling
  <2> QED
    BY <1>0, <2>1
<1>6. CASE ScheduleKeep
  <2>1. sched.pc = "keep" /\ sched'.pc = "load" /\ UNCHANGED <<chk, n_unacked>>
    BY <1>0, <1>6 DEF ScheduleKeep, SchedIdle, Scheduling
  <2> QED
    BY <1>0, <2>1
<1>7. CASE ScheduleLoad
  <2>1. /\ sched.pc = "load" /\ sched'.pc = "store" /\ sched'.n = n_unacked
        /\ UNCHANGED <<chk, n_unacked>>
    BY <1>0, <1>7 DEF ScheduleLoad, array, Scheduling
  <2> QED
    BY <1>0, <2>1
<1>8. CASE ScheduleStore
  <2>1. /\ sched.pc = "store" /\ sched'.pc = "pop" /\ n_unacked' = sched.n + 1
        /\ UNCHANGED chk
    BY <1>0, <1>8 DEF ScheduleStore, SchedIdle, Scheduling
  <2> QED
    BY <1>0, <2>1
<1>9. CASE CheckStart
  <2>1. chk'.pc = "loop" /\ UNCHANGED <<sched, n_unacked>>
    BY <1>0, <1>9 DEF CheckStart, array, Checking
  <2> QED
    BY <1>0, <2>1
<1>10. CASE CheckLoop
  <2>1. chk'.pc \in {"state", "start"} /\ UNCHANGED <<sched, n_unacked>>
    BY <1>0, <1>10 DEF CheckLoop, array, Checking
  <2> QED
    BY <1>0, <2>1
<1>11. CASE CheckState
  <2>1. chk'.pc \in {"find", "loop"} /\ UNCHANGED <<sched, n_unacked>>
    BY <1>0, <1>11 DEF CheckState, NextPacket, array, Checking
  <2> QED
    BY <1>0, <2>1
<1>12. CASE CheckFind
  <2>1. /\ \/ chk'.pc \in {"find", "loop"}
           \/ chk'.pc = "push" /\ ~(chk.l >= n_unacked)
        /\ chk.l \in Nat /\ UNCHANGED <<sched, n_unacked>>
    BY <1>0, <1>12 DEF CheckFind, NextPacket, array, Checking
  <2> QED
    BY <1>0, <2>1
<1>13. CASE CheckPush
  <2>1. chk.pc = "push" /\ chk'.pc = "mark" /\ UNCHANGED <<sched, n_unacked>>
    BY <1>0, <1>13 DEF CheckPush, ChkGoto, array, Checking
  <2> QED
    BY <1>0, <2>1
<1>14. CASE CheckMark
  <2>1. chk.pc = "mark" /\ chk'.pc = "move" /\ UNCHANGED <<sched, n_unacked>>
    BY <1>0, <1>14 DEF CheckMark, ChkGoto, array, Checking
  <2> QED
    BY <1>0, <2>1
<1>15. CASE CheckMove
  <2>1. chk.pc = "move" /\ chk'.pc = "load" /\ UNCHANGED <<sched, n_unacked>>
    BY <1>0, <1>15 DEF CheckMove, ChkGoto, Checking
  <2> QED
    BY <1>0, <2>1
<1>16. CASE CheckLoad
  <2>1. /\ chk.pc = "load" /\ chk'.pc = "store" /\ chk'.n = n_unacked
        /\ UNCHANGED <<sched, n_unacked>>
    BY <1>0, <1>16 DEF CheckLoad, array, Checking
  <2> QED
    BY <1>0, <2>1
<1>17. CASE CheckStore
  <2>1. /\ chk.pc = "store" /\ chk'.pc = "loop" /\ n_unacked' = chk.n - 1
        /\ UNCHANGED sched
    BY <1>0, <1>17 DEF CheckStore, NextPacket, Checking
  <2> QED
    BY <1>0, <2>1
<1>18. CASE receive_report
  BY <1>0, <1>18, ReportStep DEF array
<1>19. CASE UNCHANGED <<n_unacked, sched, chk>>
  BY <1>0, <1>19
<1> QED
  BY <1>1, <1>2, <1>3, <1>4, <1>5, <1>6, <1>7, <1>8, <1>9, <1>10,
     <1>11, <1>12, <1>13, <1>14, <1>15, <1>16, <1>17, <1>18, <1>19
     DEF Next, vars, schedule_packet, transmit_vlc, check_unacked,
         generate_packet, TransmitPop, TransmitSize, transmit_packet_vlc,
         NodeReceiveRf, Expire, status, array, packets

\* What is copied into the array is a packet, or garbage.
LEMMA KeptStep == Shape /\ [Next]_vars => Kept'
<1> SUFFICES ASSUME Shape, [Next]_vars PROVE Kept'
  OBVIOUS
<1> USE VlcAssumption DEF Counters, Kept
<1>0. Counters /\ Kept
  BY DEF Shape
<1>1. CASE ScheduleKeep
  <2>1. sched.temp \in SeqNumbers
    BY <1>1 DEF ScheduleKeep, Shape, Scheduling
  <2>2. \A k \in popped .. generated - 1 : k % MAX_SEQ_NUMBER \in SeqNumbers
    BY <1>0 DEF SeqNumbers
  <2>3. Copied \subseteq SeqNumbers \cup {GARBAGE}
    BY <2>1, <2>2 DEF Copied
  <2> QED
    BY <1>0, <1>1, <2>3 DEF ScheduleKeep
<1>2. CASE CheckMove
  <2>1. n_unacked - 1 \in 0 .. MAX_UNACKED_VLC_PACKET - 1
    BY <1>2 DEF CheckMove, ChkGoto, Shape, InBounds
  <2> QED
    BY <1>0, <1>2, <2>1 DEF CheckMove
<1>3. CASE receive_report
  BY <1>0, <1>3, ReportStep DEF array
<1>4. CASE UNCHANGED <<unacked>>
  BY <1>0, <1>4
<1> QED
  BY <1>1, <1>2, <1>3, <1>4
     DEF Next, vars, schedule_packet, transmit_vlc, check_unacked,
         generate_packet, SchedulePop, SchedulePush, ScheduleMark,
         ScheduleExpire, ScheduleRoom, ScheduleLoad, ScheduleStore,
         TransmitPop, TransmitSize, transmit_packet_vlc, CheckStart,
         CheckLoop, CheckState, CheckFind, CheckPush, CheckMark, CheckLoad,
         CheckStore, NodeReceiveRf, Expire, status, array, packets

\* Every step keeps what is said of the marks.
LEMMA ResendingStep == Shape /\ Resending /\ [Next]_vars => Resending'
<1> SUFFICES ASSUME Shape, Resending, [Next]_vars PROVE Resending'
  OBVIOUS
<1> USE DEF Resending, VLC_unacked, VLC_acked, RF
<1>0. Marks /\ Scheduling /\ Checking
  BY DEF Shape
<1>a. \A k \in SeqNumbers : resent[k] \in Nat /\ marked[k] \in Nat
  BY <1>0 DEF Marks
<1>1. CASE ScheduleMark
  <2>1. sched.idx \in SeqNumbers /\ UNCHANGED <<chk, resent>>
    BY <1>0, <1>1 DEF ScheduleMark, Scheduling
  <2>2. \A k \in SeqNumbers :
          /\ pkt_state'[k] = IF k = sched.idx THEN VLC_unacked ELSE pkt_state[k]
          /\ marked'[k] = IF k = sched.idx THEN marked[k] + 1 ELSE marked[k]
    BY <1>0, <1>1 DEF ScheduleMark, Marks
  <2>3. chk.pc \in {"find", "push", "mark"} => chk.j \in SeqNumbers
    BY <1>0 DEF Checking
  <2> QED
    BY <1>a, <2>1, <2>2, <2>3
<1>2. CASE CheckPush
  <2>1. /\ chk.pc = "push" /\ chk'.pc = "mark" /\ chk'.j = chk.j
        /\ chk.j \in SeqNumbers /\ UNCHANGED <<pkt_state, marked>>
    BY <1>0, <1>2 DEF CheckPush, ChkGoto, Checking, status
  <2>2. \A k \in SeqNumbers :
          resent'[k] = IF k = chk.j THEN resent[k] + 1 ELSE resent[k]
    BY <1>0, <1>2 DEF CheckPush, Marks
  <2> QED
    BY <1>a, <2>1, <2>2
<1>3. CASE CheckMark
  <2>1. /\ chk.pc = "mark" /\ chk'.pc = "move" /\ chk'.j = chk.j
        /\ chk.j \in SeqNumbers /\ UNCHANGED history
    BY <1>0, <1>3 DEF CheckMark, ChkGoto, Checking
  <2>2. \A k \in SeqNumbers :
          pkt_state'[k] = IF k = chk.j THEN RF ELSE pkt_state[k]
    BY <1>0, <1>3 DEF CheckMark, Marks
  <2> QED
    BY <1>a, <2>1, <2>2 DEF history
<1>4. CASE CheckState
  <2>1. /\ chk.pc = "state" /\ UNCHANGED <<pkt_state, history>>
        /\ \/ chk'.pc = "find" /\ chk'.j = chk.j /\ pkt_state[chk.j] = VLC_unacked
           \/ chk'.pc = "loop"
    BY <1>0, <1>4 DEF CheckState, NextPacket, Checking, status
  <2> QED
    BY <2>1 DEF history
<1>5. CASE CheckFind
  <2>1. /\ chk.pc = "find" /\ UNCHANGED <<pkt_state, history>>
        /\ \/ chk'.pc \in {"find", "push"} /\ chk'.j = chk.j
           \/ chk'.pc = "loop"
    BY <1>0, <1>5 DEF CheckFind, NextPacket, Checking, status
  <2> QED
    BY <2>1 DEF history
<1>6. CASE CheckStart \/ CheckLoop \/ CheckMove \/ CheckLoad \/ CheckStore
  <2> DEFINE Elsewhere == /\ chk.pc \notin {"find", "push", "mark"}
                         /\ chk'.pc \notin {"find", "push", "mark"}
                         /\ UNCHANGED <<pkt_state, history>>
  <2>1. ASSUME CheckStart PROVE Elsewhere
    BY <1>0, <2>1 DEF CheckStart, Checking, status
  <2>2. ASSUME CheckLoop PROVE Elsewhere
    BY <1>0, <2>2 DEF CheckLoop, Checking, status
  <2>3. ASSUME CheckMove PROVE Elsewhere
    BY <1>0, <2>3 DEF CheckMove, ChkGoto, Checking, status
  <2>4. ASSUME CheckLoad PROVE Elsewhere
    BY <1>0, <2>4 DEF CheckLoad, Checking, status
  <2>5. ASSUME CheckStore PROVE Elsewhere
    BY <1>0, <2>5 DEF CheckStore, NextPacket, Checking, status
  <2>6. Elsewhere
    BY <1>6, <2>1, <2>2, <2>3, <2>4, <2>5
  <2> QED
    BY <2>6 DEF history
<1>7. CASE receive_report
  <2>1. UNCHANGED <<pkt_state, chk, history>>
    BY <1>7, ReportStep
  <2> QED
    BY <2>1 DEF history
<1>8. CASE UNCHANGED <<pkt_state, chk, history>>
  BY <1>8 DEF history
<1> QED
  BY <1>1, <1>2, <1>3, <1>4, <1>5, <1>6, <1>7, <1>8
     DEF Next, vars, schedule_packet, transmit_vlc, check_unacked,
         generate_packet, SchedulePop, SchedulePush, ScheduleExpire,
         ScheduleRoom, ScheduleKeep, ScheduleLoad, ScheduleStore,
         TransmitPop, TransmitSize, transmit_packet_vlc, NodeReceiveRf,
         Expire, status

\* unacked_seq follows what rcv_seq was at some earlier moment, and the node
\* never waits again for a packet it does not wait for.
LEMMA ConfirmedStep == Shape /\ Confirmed /\ [Next]_vars => Confirmed'
<1> SUFFICES ASSUME Shape, Confirmed, [Next]_vars PROVE Confirmed'
  OBVIOUS
<1>1. \A k \in SeqNumbers : Settled(k) => Settled(k)'
  BY WaitingStep DEF Settled
<1>2. \A k \in SeqNumbers : k < rcv_seq => Settled(k)
  BY DEF Shape, Waiting
<1>3. unacked_seq' = unacked_seq \/ unacked_seq' = rcv_seq
  <2>1. CASE receive_report
    BY <2>1, ReportStep
  <2>2. CASE UNCHANGED unacked_seq
    BY <2>2
  <2> QED
    BY <2>1, <2>2
       DEF Next, vars, schedule_packet, transmit_vlc, check_unacked,
         generate_packet, SchedulePop, SchedulePush, ScheduleMark,
         ScheduleExpire, ScheduleRoom, ScheduleKeep, ScheduleLoad,
         ScheduleStore, TransmitPop, TransmitSize, transmit_packet_vlc,
         CheckStart, CheckLoop, CheckState, CheckFind, CheckPush, CheckMark,
         CheckMove, CheckLoad, CheckStore, NodeReceiveRf, Expire, status
<1> QED
  BY <1>1, <1>2, <1>3 DEF Confirmed

\* The error rate is a byte.
LEMMA ByteStep == Shape /\ [Next]_vars => (e \in Byte)'
<1> SUFFICES ASSUME Shape, [Next]_vars PROVE e' \in Byte
  OBVIOUS
<1>1. e \in Byte /\ 2^CHAR_BIT - 1 - 1 \in Byte
  BY ByteSize DEF Shape, Byte
<1>2. CASE receive_report
  BY <1>1, <1>2, ReportStep
<1>3. CASE UNCHANGED e
  BY <1>1, <1>3
<1> QED
  BY <1>2, <1>3
     DEF Next, vars, schedule_packet, transmit_vlc, check_unacked,
         generate_packet, SchedulePop, SchedulePush, ScheduleMark,
         ScheduleExpire, ScheduleRoom, ScheduleKeep, ScheduleLoad,
         ScheduleStore, TransmitPop, TransmitSize, transmit_packet_vlc,
         CheckStart, CheckLoop, CheckState, CheckFind, CheckPush, CheckMark,
         CheckMove, CheckLoad, CheckStore, NodeReceiveRf, Expire

\* Together, the parts hold initially and are kept.
LEMMA ShapeInvariant == Spec => []Shape
<1>1. Init => Shape
  <2> SUFFICES ASSUME Init PROVE Shape
    OBVIOUS
  <2>1. Counters /\ Marks /\ Waiting
    BY VlcAssumption DEF Init, Counters, Marks, Waiting, SeqNumbers
  <2>2. Light
    <3>1. vlc_list \in Seq(SeqNumbers)
      BY DEF Init
    <3> QED
      BY <3>1 DEF Init, Light
  <2>3. Scheduling
    BY VlcAssumption DEF Init, Scheduling, SchedIdle, SeqNumbers
  <2>4. Checking
    BY VlcAssumption DEF Init, Checking
  <2>5. InBounds /\ Kept
    <3>1. Kept
      BY DEF Init, Kept
    <3> QED
      BY VlcAssumption, <3>1 DEF Init, InBounds, SchedIdle
  <2>6. e \in Byte
    BY ByteSize DEF Init, Byte
  <2> QED
    BY <2>1, <2>2, <2>3, <2>4, <2>5, <2>6 DEF Shape
<1>2. Shape /\ [Next]_vars => Shape'
  BY CountersStep, MarksStep, WaitingStep, LightStep, SchedulingStep, CheckingStep,
     InBoundsStep, KeptStep, ByteStep DEF Shape
<1> QED
  BY <1>1, <1>2, PTL DEF Spec

\* Whatever updates of n_unacked_vlc_packet the two threads lose: the array is
\* only accessed inside its bounds, whatever its size.
THEOREM GatewayTypeCorrect == Spec => []TypeOK
<1>1. Shape => TypeOK
  <2> SUFFICES ASSUME Shape PROVE TypeOK
    OBVIOUS
  <2>1. Counters
    BY DEF Shape
  <2>2. chk.pc = "move" => n_unacked > 0
    BY DEF Shape, InBounds
  <2> QED
    BY <2>1, <2>2 DEF Counters, Shape, Marks, Waiting, Light, InBounds, Kept, TypeOK
<1> QED
  BY <1>1, ShapeInvariant, PTL

\* For any number of packets, any window of the node and any losses and delays:
\* a packet the gateway takes for delivered is one the node has accepted or has
\* given up when its window slid.
THEOREM AcksAreTrue == Spec => []NoFalseAck
<1>1. Init => Resending /\ Confirmed
  BY VlcAssumption DEF Init, Resending, Confirmed, SeqNumbers, VLC_acked,
     VLC_unacked
<1>2. Resending /\ Confirmed => NoFalseAck
  BY DEF Resending, Confirmed, NoFalseAck
<1> QED
  BY <1>1, <1>2, ShapeInvariant, ResendingStep, ConfirmedStep, PTL DEF Spec

\* However check_unacked and schedule_packet interleave, whatever the array
\* holds and however often the numbers wrap: a packet is resent over RF at most
\* once for every time its index was marked.
THEOREM ResentWithinMarks == Spec => []ResentOncePerMark
<1>1. Init => Resending
  BY VlcAssumption DEF Init, Resending, SeqNumbers, VLC_acked, VLC_unacked
<1>2. Resending => ResentOncePerMark
  BY DEF Resending, ResentOncePerMark
<1> QED
  BY <1>1, <1>2, ShapeInvariant, ResendingStep, PTL DEF Spec
=============================================================================
