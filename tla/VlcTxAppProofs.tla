--------------------------- MODULE VlcTxAppProofs ---------------------------
(***************************************************************************)
(* Proofs about VlcTxApp, for every queue limit and any number of packets: *)
(* the unlocked counters stay within their bounds, and packets are written *)
(* in the order of their arrival.                                          *)
(***************************************************************************)
EXTENDS VlcTxApp, SequenceTheorems, TLAPS

\* The nodes of the list, and those the threads hold, are named by packets
\* that have arrived.
AppType ==
  /\ temp \in 0 .. MaxPackets
  /\ head \in 0 .. temp /\ tail \in 0 .. temp
  /\ from_queue \in 0 .. temp /\ latest \in 0 .. temp
  /\ prev \in [Nodes -> 0 .. MaxPackets]
  /\ \A n \in Nodes : prev[n] <= temp
  /\ size \in Int /\ queue_size \in Int
  /\ main_reg \in Int /\ tx_reg \in Int
  /\ tx_pc = "advance" => tx_reg \in 0 .. temp
  /\ reported \in Int /\ vk \in Int
  /\ tx_pc \in {"poll", "item", "next", "advance", "size", "size_store",
                "write", "count", "count_store", "segfault"}

\* Every load and store keeps AppType.
LEMMA AppTypeStep == AppType /\ [Next]_vars => AppType'
<1> SUFFICES ASSUME AppType, [Next]_vars PROVE AppType'
  OBVIOUS
<1> USE AppAssumption
        DEF AppType, NULL, Nodes, MainGoto, TxGoto, queue, main_vars, tx_vars, written,
           gateway
<1>1. CASE Receive
  BY <1>1 DEF Receive, Read
<1>2. CASE EnqueueLimit
  BY <1>2 DEF EnqueueLimit
<1>3. CASE EnqueueEmpty
  BY <1>3 DEF EnqueueEmpty
<1>4. CASE EnqueueHead
  BY <1>4 DEF EnqueueHead
<1>5. CASE EnqueueLink
  <2>1. prev' = [prev EXCEPT ![tail] = temp] /\ temp \in 0 .. MaxPackets
    BY <1>5 DEF EnqueueLink
  <2>2. CASE tail \in Nodes
    BY <1>5, <2>1, <2>2 DEF EnqueueLink
  <2>3. CASE tail \notin Nodes
    <3>1. prev' = prev
      BY <2>1, <2>3
    <3> QED
      BY <1>5, <3>1 DEF EnqueueLink
  <2> QED
    BY <2>2, <2>3
<1>6. CASE EnqueueTail
  BY <1>6 DEF EnqueueTail
<1>7. CASE EnqueueLoadSize
  BY <1>7 DEF EnqueueLoadSize
<1>8. CASE EnqueueStoreSize
  BY <1>8 DEF EnqueueStoreSize
<1>9. CASE CountLoad
  BY <1>9 DEF CountLoad
<1>10. CASE CountStore
  BY <1>10 DEF CountStore
<1>11. CASE Poll
  BY <1>11 DEF Poll
<1>12. CASE DequeueItem
  BY <1>12 DEF DequeueItem
<1>13. CASE DequeueNext
  BY <1>13 DEF DequeueNext
<1>14. CASE DequeueAdvance
  BY <1>14 DEF DequeueAdvance
<1>15. CASE DequeueLoadSize
  BY <1>15 DEF DequeueLoadSize
<1>16. CASE DequeueStoreSize
  BY <1>16 DEF DequeueStoreSize
<1>17. CASE Write
  BY <1>17 DEF Write
<1>18. CASE UncountLoad
  BY <1>18 DEF UncountLoad
<1>19. CASE UncountStore
  BY <1>19 DEF UncountStore
<1>20. CASE send_queue_report
  BY <1>20 DEF send_queue_report
<1>21. CASE receive_vlc_report
  BY <1>21 DEF receive_vlc_report
<1>22. CASE UNCHANGED vars
  BY <1>22 DEF vars
<1> QED
  BY <1>1, <1>2, <1>3, <1>4, <1>5, <1>6, <1>7, <1>8, <1>9, <1>10, <1>11,
     <1>12, <1>13, <1>14, <1>15, <1>16, <1>17, <1>18, <1>19, <1>20,
     <1>21, <1>22
     DEF Next, main, transmit_vlc

\* The memory safety of the queue's accesses, up to the one it lacks: every
\* pointer main and transmit_vlc follow leads to a node that exists or is
\* NULL, whatever the interleaving.
LEMMA AppTypeCorrect == Spec => []AppType
<1>1. Init => AppType
  BY AppAssumption DEF Init, AppType, NULL, Nodes
<1> QED
  BY <1>1, AppTypeStep, PTL DEF Spec

(***************************************************************************)
(* size.                                                                   *)
(***************************************************************************)

\* Why size does not become negative: transmit_vlc tests it before a Dequeue
\* and is the only one to lower it; main, which interferes, only ever stores
\* a value of at least one.
SizeInv ==
  /\ size >= 0
  /\ main_pc = "size_store" => main_reg >= 0
  /\ tx_pc \in {"item", "next", "advance", "size", "size_store"} => size > 0
  /\ tx_pc = "size_store" => tx_reg > 0

\* Every load and store keeps SizeInv.
LEMMA SizeStep == AppType /\ SizeInv /\ [Next]_vars => SizeInv'
<1> SUFFICES ASSUME AppType, SizeInv, [Next]_vars PROVE SizeInv'
  OBVIOUS
<1> USE DEF AppType, SizeInv, MainGoto, TxGoto, queue, main_vars, tx_vars, written,
           gateway
<1>1. CASE Receive
  BY <1>1 DEF Receive, Read
<1>2. CASE EnqueueLimit
  BY <1>2 DEF EnqueueLimit
<1>3. CASE EnqueueEmpty
  BY <1>3 DEF EnqueueEmpty
<1>4. CASE EnqueueHead
  BY <1>4 DEF EnqueueHead
<1>5. CASE EnqueueLink
  BY <1>5 DEF EnqueueLink
<1>6. CASE EnqueueTail
  BY <1>6 DEF EnqueueTail
<1>7. CASE EnqueueLoadSize
  BY <1>7 DEF EnqueueLoadSize
<1>8. CASE EnqueueStoreSize
  BY <1>8 DEF EnqueueStoreSize
<1>9. CASE CountLoad
  BY <1>9 DEF CountLoad
<1>10. CASE CountStore
  BY <1>10 DEF CountStore
<1>11. CASE Poll
  BY <1>11 DEF Poll
<1>12. CASE DequeueItem
  BY <1>12 DEF DequeueItem
<1>13. CASE DequeueNext
  BY <1>13 DEF DequeueNext
<1>14. CASE DequeueAdvance
  BY <1>14 DEF DequeueAdvance
<1>15. CASE DequeueLoadSize
  BY <1>15 DEF DequeueLoadSize
<1>16. CASE DequeueStoreSize
  BY <1>16 DEF DequeueStoreSize
<1>17. CASE Write
  BY <1>17 DEF Write
<1>18. CASE UncountLoad
  BY <1>18 DEF UncountLoad
<1>19. CASE UncountStore
  BY <1>19 DEF UncountStore
<1>20. CASE send_queue_report
  BY <1>20 DEF send_queue_report
<1>21. CASE receive_vlc_report
  BY <1>21 DEF receive_vlc_report
<1>22. CASE UNCHANGED vars
  BY <1>22 DEF vars
<1> QED
  BY <1>1, <1>2, <1>3, <1>4, <1>5, <1>6, <1>7, <1>8, <1>9, <1>10, <1>11,
     <1>12, <1>13, <1>14, <1>15, <1>16, <1>17, <1>18, <1>19, <1>20,
     <1>21, <1>22
     DEF Next, main, transmit_vlc

\* The unlocked size++ of Enqueue and size-- of Dequeue lose updates, but
\* never take size below zero, for any limit and any number of packets.
THEOREM SizeStaysNatural == Spec => []SizeNotNegative
<1>1. Init => SizeInv
  BY DEF Init, SizeInv
<1>2. SizeInv => SizeNotNegative
  BY DEF SizeInv, SizeNotNegative
<1> QED
  BY <1>1, <1>2, AppTypeCorrect, SizeStep, PTL DEF Spec

(***************************************************************************)
(* queue_size.                                                             *)
(***************************************************************************)

\* Why queue_size stays below the limit: main adds one to a value it has
\* tested and that transmit_vlc can only replace by a smaller one than the
\* limit less one.
CountInv ==
  /\ queue_size < QUEUE_LIMIT /\ reported < QUEUE_LIMIT /\ vk < QUEUE_LIMIT
  /\ main_pc \in {"limit", "empty", "head", "link", "tail", "size",
                  "size_store", "count"} => queue_size + 1 < QUEUE_LIMIT
  /\ main_pc = "count_store" => main_reg + 1 < QUEUE_LIMIT
  /\ tx_pc = "count_store" => tx_reg < QUEUE_LIMIT

\* Every load and store keeps CountInv.
LEMMA CountStep == AppType /\ CountInv /\ [Next]_vars => CountInv'
<1> SUFFICES ASSUME AppType, CountInv, [Next]_vars PROVE CountInv'
  OBVIOUS
<1> USE AppAssumption
        DEF AppType, CountInv, MainGoto, TxGoto, queue, main_vars, tx_vars, written,
           gateway
<1>1. CASE Receive
  BY <1>1 DEF Receive, Read
<1>2. CASE EnqueueLimit
  BY <1>2 DEF EnqueueLimit
<1>3. CASE EnqueueEmpty
  BY <1>3 DEF EnqueueEmpty
<1>4. CASE EnqueueHead
  BY <1>4 DEF EnqueueHead
<1>5. CASE EnqueueLink
  BY <1>5 DEF EnqueueLink
<1>6. CASE EnqueueTail
  BY <1>6 DEF EnqueueTail
<1>7. CASE EnqueueLoadSize
  BY <1>7 DEF EnqueueLoadSize
<1>8. CASE EnqueueStoreSize
  BY <1>8 DEF EnqueueStoreSize
<1>9. CASE CountLoad
  BY <1>9 DEF CountLoad
<1>10. CASE CountStore
  BY <1>10 DEF CountStore
<1>11. CASE Poll
  BY <1>11 DEF Poll
<1>12. CASE DequeueItem
  BY <1>12 DEF DequeueItem
<1>13. CASE DequeueNext
  BY <1>13 DEF DequeueNext
<1>14. CASE DequeueAdvance
  BY <1>14 DEF DequeueAdvance
<1>15. CASE DequeueLoadSize
  BY <1>15 DEF DequeueLoadSize
<1>16. CASE DequeueStoreSize
  BY <1>16 DEF DequeueStoreSize
<1>17. CASE Write
  BY <1>17 DEF Write
<1>18. CASE UncountLoad
  BY <1>18 DEF UncountLoad
<1>19. CASE UncountStore
  BY <1>19 DEF UncountStore
<1>20. CASE send_queue_report
  BY <1>20 DEF send_queue_report
<1>21. CASE receive_vlc_report
  BY <1>21 DEF receive_vlc_report
<1>22. CASE UNCHANGED vars
  BY <1>22 DEF vars
<1> QED
  BY <1>1, <1>2, <1>3, <1>4, <1>5, <1>6, <1>7, <1>8, <1>9, <1>10, <1>11,
     <1>12, <1>13, <1>14, <1>15, <1>16, <1>17, <1>18, <1>19, <1>20,
     <1>21, <1>22
     DEF Next, main, transmit_vlc

\* The gateway is never told of a full queue, for any limit: the counter that
\* three threads share without a lock drifts, but only downwards.
THEOREM ReportsBelowLimit == Spec => []QueueReportBelowLimit
<1>1. Init => CountInv
  BY AppAssumption DEF Init, CountInv
<1>2. CountInv => QueueReportBelowLimit
  BY DEF CountInv, QueueReportBelowLimit
<1> QED
  BY <1>1, <1>2, AppTypeCorrect, CountStep, PTL DEF Spec

(***************************************************************************)
(* The order of the packets.                                               *)
(***************************************************************************)

\* Why the order survives the races: links lead to later packets, and main
\* stores to head only while size is zero, when transmit_vlc is not inside
\* Dequeue and cannot enter it.  So head is always later than what
\* transmit_vlc has taken.
OrderInv ==
  /\ \A n \in Nodes : prev[n] = NULL \/ prev[n] > n
  /\ main_pc \in {"limit", "empty", "head", "link"} =>
       /\ head < temp /\ from_queue < temp /\ latest < temp
       /\ \A n \in Nodes : prev[n] < temp
       /\ tx_pc = "advance" => tx_reg < temp
  /\ main_pc \in {"limit", "empty", "head", "link", "tail"} => tail < temp
  /\ main_pc = "head" =>
       size = 0 /\ tx_pc \in {"poll", "write", "count", "count_store"}
  /\ from_queue # NULL => from_queue > latest
  /\ tx_pc = "next" => from_queue = head
  /\ tx_pc = "advance" => /\ from_queue = head /\ head # NULL
                          /\ tx_reg = NULL \/ tx_reg > from_queue
  /\ tx_pc \in {"poll", "item", "size", "size_store", "write", "count",
                "count_store"} =>
       head = NULL \/ (head > latest /\ head > from_queue)
  /\ tx_pc = "write" => from_queue # NULL

LEMMA OrderStep == AppType /\ SizeInv /\ OrderInv /\ [Next]_vars => OrderInv'
<1> SUFFICES ASSUME AppType, SizeInv, OrderInv, [Next]_vars PROVE OrderInv'
  OBVIOUS
<1> USE AppAssumption
        DEF AppType, SizeInv, OrderInv, NULL, Nodes, Alive, MainGoto, TxGoto,
            queue, main_vars, tx_vars, written,
           gateway
<1>1. CASE Receive
  BY <1>1 DEF Receive, Read
<1>2. CASE EnqueueLimit
  BY <1>2 DEF EnqueueLimit
<1>3. CASE EnqueueEmpty
  BY <1>3 DEF EnqueueEmpty
<1>4. CASE EnqueueHead
  BY <1>4 DEF EnqueueHead
<1>5. CASE EnqueueLink
  BY <1>5 DEF EnqueueLink
<1>6. CASE EnqueueTail
  BY <1>6 DEF EnqueueTail
<1>7. CASE EnqueueLoadSize
  BY <1>7 DEF EnqueueLoadSize
<1>8. CASE EnqueueStoreSize
  BY <1>8 DEF EnqueueStoreSize
<1>9. CASE CountLoad
  BY <1>9 DEF CountLoad
<1>10. CASE CountStore
  BY <1>10 DEF CountStore
<1>11. CASE Poll
  BY <1>11 DEF Poll
<1>12. CASE DequeueItem
  BY <1>12 DEF DequeueItem
<1>13. CASE DequeueNext
  BY <1>13 DEF DequeueNext
<1>14. CASE DequeueAdvance
  BY <1>14 DEF DequeueAdvance
<1>15. CASE DequeueLoadSize
  BY <1>15 DEF DequeueLoadSize
<1>16. CASE DequeueStoreSize
  BY <1>16 DEF DequeueStoreSize
<1>17. CASE Write
  BY <1>17 DEF Write
<1>18. CASE UncountLoad
  BY <1>18 DEF UncountLoad
<1>19. CASE UncountStore
  BY <1>19 DEF UncountStore
<1>20. CASE send_queue_report
  BY <1>20 DEF send_queue_report
<1>21. CASE receive_vlc_report
  BY <1>21 DEF receive_vlc_report
<1>22. CASE UNCHANGED vars
  BY <1>22 DEF vars
<1> QED
  BY <1>1, <1>2, <1>3, <1>4, <1>5, <1>6, <1>7, <1>8, <1>9, <1>10, <1>11,
     <1>12, <1>13, <1>14, <1>15, <1>16, <1>17, <1>18, <1>19, <1>20,
     <1>21, <1>22
     DEF Next, main, transmit_vlc

\* Numbers of 16 and of 32 bits.
U16 == {n \in Nat : n < BYTE * BYTE}

U32 == {n \in Nat : n \div (BYTE * BYTE) < BYTE * BYTE}

\* The fields the receiving ends read from a buffer.
HasFields(buff, a, b, c, d) ==
  /\ Read16(buff, 0) = a /\ Read16(buff, 2) = b
  /\ Read16(buff, 4) = c /\ Read32(buff, 6) = d

\* A 16-bit number is the sum of its bytes.
LEMMA Bytes16 ==
  ASSUME NEW n \in Nat, n < 65536
  PROVE  /\ n % 256 \in Nat /\ (n \div 256) % 256 \in Nat
         /\ (n % 256) + 256 * ((n \div 256) % 256) = n
BY SMT

\* A 32-bit number is the sum of its bytes and its upper half.
LEMMA Bytes32 ==
  ASSUME NEW n \in Nat, n \div 65536 < 65536
  PROVE  /\ n \div 65536 \in Nat
         /\ n % 256 \in Nat /\ (n \div 256) % 256 \in Nat
         /\ ((n % 256) + 256 * ((n \div 256) % 256)) + 65536 * (n \div 65536) = n
BY SMT

\* Where the elements of two sequences of bytes are in their concatenation.
LEMMA Join ==
  ASSUME NEW p \in Seq(Nat), NEW q \in Seq(Nat)
  PROVE  /\ \A i \in 1 .. Len(p) : (p \o q)[i] = p[i]
         /\ \A i \in 1 .. Len(q) : (p \o q)[Len(p) + i] = q[i]
<1> DEFINE m == Len(p)
           n == Len(q)
           r == p \o q
<1>1. \A i \in 1 .. m + n : r[i] = IF i <= m THEN p[i] ELSE q[i - m]
  BY ConcatProperties, Zenon
<1>2. m \in Nat /\ n \in Nat
  BY SMT
<1> HIDE DEF m, n, r
<1>3. \A i \in 1 .. m : r[i] = p[i]
  BY <1>1, <1>2, SMT
<1>4. \A i \in 1 .. n : r[m + i] = q[i]
  BY <1>1, <1>2, SMT
<1> QED
  BY <1>3, <1>4, Zenon DEF m, n, r

\* SubSeqProperties for bytes.
LEMMA CutBytes ==
  \A s : \A i \in Int, j \in Int :
    (\A x \in i .. j : s[x] \in Nat) =>
      /\ SubSeq(s, i, j) \in Seq(Nat)
      /\ i <= j => Len(SubSeq(s, i, j)) = j - i + 1
      /\ ~(i <= j) => Len(SubSeq(s, i, j)) = 0
      /\ \A x \in 1 .. j - i + 1 : SubSeq(s, i, j)[x] = s[i + x - 1]
<1>1. \A S, s : \A i \in Int, j \in Int :
        (\A x \in i .. j : s[x] \in S) =>
          /\ SubSeq(s, i, j) \in Seq(S)
          /\ Len(SubSeq(s, i, j)) = IF i <= j THEN j - i + 1 ELSE 0
          /\ \A x \in 1 .. j - i + 1 : SubSeq(s, i, j)[x] = s[i + x - 1]
  BY SubSeqProperties, Zenon
<1>2. \A s : \A i \in Int, j \in Int :
        (\A x \in i .. j : s[x] \in Nat) =>
          /\ SubSeq(s, i, j) \in Seq(Nat)
          /\ Len(SubSeq(s, i, j)) = IF i <= j THEN j - i + 1 ELSE 0
          /\ \A x \in 1 .. j - i + 1 : SubSeq(s, i, j)[x] = s[i + x - 1]
  BY <1>1, Zenon
<1> QED
  BY <1>2, Zenon

\* A payload that lies behind m bytes of a buffer is read back from there.
LEMMA Cut ==
  ASSUME NEW buff, NEW v \in Seq(Nat), NEW m \in Nat,
         \A i \in 1 .. Len(v) : buff[m + i] = v[i]
  PROVE  SubSeq(buff, m + 1, m + Len(v)) = v
<1> DEFINE n == Len(v)
           k == m + 1
           e == m + n
           w == SubSeq(buff, k, e)
<1>1. k \in Int /\ e \in Int /\ n \in Nat /\ e - k + 1 = n
  BY SMTT(30)
<1>2. \A i \in 1 .. n : v[i] \in Nat
  BY SMT
<1>3. \A i \in k .. e : buff[i] \in Nat
  <2> SUFFICES ASSUME NEW i \in k .. e PROVE buff[i] \in Nat
    OBVIOUS
  <2>1. i - m \in 1 .. n /\ m + (i - m) = i
    BY SMT
  <2> QED
    BY <1>2, <2>1, Zenon
<1>4. \A i \in 1 .. n : k + i - 1 = m + i
  BY SMT
<1>5. k <= e => n # 0
  BY SMT
<1>6. ~(k <= e) => n = 0
  BY SMT
<1> HIDE DEF k, e
<1>7. /\ w \in Seq(Nat)
      /\ k <= e => Len(w) = e - k + 1
      /\ ~(k <= e) => Len(w) = 0
      /\ \A i \in 1 .. e - k + 1 : w[i] = buff[k + i - 1]
  <2>1. k \in Int /\ e \in Int
    BY <1>1
  <2> HIDE DEF n
  <2>2. w \in Seq(Nat)
    BY <2>1, <1>3, CutBytes, Zenon
  <2>3. k <= e => Len(w) = e - k + 1
    BY <2>1, <1>3, CutBytes, Zenon
  <2>4. ~(k <= e) => Len(w) = 0
    BY <2>1, <1>3, CutBytes, Zenon
  <2>5. \A i \in 1 .. e - k + 1 : w[i] = buff[k + i - 1]
    BY <2>1, <1>3, CutBytes, ZenonT(40)
  <2> QED
    BY <2>2, <2>3, <2>4, <2>5
<1> HIDE DEF w
<1>8. Len(w) = n
  BY <1>7, <1>1, <1>6, Zenon
<1>9. \A i \in 1 .. n : w[i] = v[i]
  BY <1>1, <1>7, <1>4, Zenon
<1>10. w = v
  BY <1>7, <1>8, <1>9, SeqEqual, Zenon
<1> QED
  BY <1>10, Zenon DEF w, k, e

\* A header and the payload behind it are read back from where they lie.
LEMMA Layout ==
  ASSUME NEW h \in Seq(Nat), NEW v \in Seq(Nat)
  PROVE  /\ \A i \in 1 .. Len(h) : (h \o v)[i] = h[i]
         /\ SubSeq(h \o v, Len(h) + 1, Len(h) + Len(v)) = v
<1> DEFINE buff == h \o v
           m == Len(h)
<1>0. m \in Nat /\ Len(v) \in Nat
  BY SMT
<1>1. /\ \A i \in 1 .. m : buff[i] = h[i]
      /\ \A i \in 1 .. Len(v) : buff[m + i] = v[i]
  BY Join, Zenon
<1> HIDE DEF buff, m
<1>2. SubSeq(buff, m + 1, m + Len(v)) = v
  BY <1>0, <1>1, Cut, Zenon
<1> QED
  BY <1>1, <1>2, Zenon DEF buff, m

\* The header has ten bytes.
LEMMA FieldSeq ==
  ASSUME NEW a \in U16, NEW b \in U16, NEW c \in U16, NEW d \in U32
  PROVE  Fields(a, b, c, d) \in Seq(Nat) /\ Len(Fields(a, b, c, d)) = 10
BY SMT DEF Fields, Low, High, U16, U32, BYTE

\* The receiving ends find the fields in the ten bytes of a header.
LEMMA Reads ==
  ASSUME NEW a \in U16, NEW b \in U16, NEW c \in U16, NEW d \in U32, NEW buff,
         \A i \in 1 .. 10 : buff[i] = Fields(a, b, c, d)[i]
  PROVE  HasFields(buff, a, b, c, d)
<1> DEFINE e == d \div 65536
<1>0. /\ a \in Nat /\ b \in Nat /\ c \in Nat /\ d \in Nat
      /\ a < 65536 /\ b < 65536 /\ c < 65536 /\ d \div 65536 < 65536
  BY SMT DEF U16, U32, BYTE
<1>1. /\ buff[1] = a % 256 /\ buff[2] = (a \div 256) % 256
      /\ buff[3] = b % 256 /\ buff[4] = (b \div 256) % 256
      /\ buff[5] = c % 256 /\ buff[6] = (c \div 256) % 256
      /\ buff[7] = d % 256 /\ buff[8] = (d \div 256) % 256
      /\ buff[9] = e % 256 /\ buff[10] = (e \div 256) % 256
  <2>1. LET h == Fields(a, b, c, d)
        IN  /\ buff[1] = h[1] /\ buff[2] = h[2] /\ buff[3] = h[3]
            /\ buff[4] = h[4] /\ buff[5] = h[5] /\ buff[6] = h[6]
            /\ buff[7] = h[7] /\ buff[8] = h[8] /\ buff[9] = h[9]
            /\ buff[10] = h[10]
    BY SMT
  <2> QED
    BY <2>1, SMT DEF Fields, Low, High, BYTE
<1>2. Read16(buff, 0) = a
  BY <1>0, <1>1, Bytes16, SMT DEF Read16, BYTE
<1>3. Read16(buff, 2) = b
  BY <1>0, <1>1, Bytes16, SMT DEF Read16, BYTE
<1>4. Read16(buff, 4) = c
  BY <1>0, <1>1, Bytes16, SMT DEF Read16, BYTE
<1>5. e \in Nat /\ Read16(buff, 8) = e
  BY <1>0, <1>1, Bytes16, Bytes32, SMT DEF Read16, BYTE
<1>6. Read16(buff, 6) = (d % 256) + 256 * ((d \div 256) % 256)
  BY <1>1, SMT DEF Read16, BYTE
<1>7. Read32(buff, 6) = d
  BY <1>0, <1>5, <1>6, Bytes32, SMT DEF Read32, BYTE
<1> QED
  BY <1>2, <1>3, <1>4, <1>7, SMT DEF HasFields

\* They find them, and the payload, in the bytes of a packet.
LEMMA PacketBytes ==
  ASSUME NEW a \in U16, NEW b \in U16, NEW c \in U16, NEW d \in U32,
         NEW s \in Seq(Nat)
  PROVE  LET buff == Fields(a, b, c, d) \o s
         IN  /\ HasFields(buff, a, b, c, d)
             /\ SubSeq(buff, 11, 10 + Len(s)) = s
<1> DEFINE h == Fields(a, b, c, d)
           buff == h \o s
           n == Len(s)
<1>1. h \in Seq(Nat) /\ Len(h) = 10
  BY FieldSeq, Zenon
<1>2. buff = h \o s
  OBVIOUS
<1> HIDE DEF h, buff
<1>3. \A i \in 1 .. 10 : buff[i] = h[i]
  <2>1. \A i \in 1 .. Len(h) : (h \o s)[i] = h[i]
    BY <1>1, Layout, Zenon
  <2> QED
    BY <1>1, <1>2, <2>1, Zenon
<1>4. SubSeq(buff, 10 + 1, 10 + n) = s
  BY <1>1, <1>2, Layout, Zenon
<1>5. SubSeq(buff, 11, 10 + n) = s
  <2>1. 10 + 1 = 11
    BY SMT
  <2> QED
    BY <1>4, <2>1, Zenon
<1>6. HasFields(buff, a, b, c, d)
  <2>1. \A i \in 1 .. 10 : buff[i] = Fields(a, b, c, d)[i]
    BY <1>3, Zenon DEF h
  <2> QED
    BY <2>1, Reads, Zenon
<1> QED
  BY <1>5, <1>6, Zenon DEF h, buff

\* A quotient grows with what is divided.
LEMMA QuotientGrows ==
  ASSUME NEW a \in Nat, NEW b \in Nat, NEW w \in Nat, w > 0, a <= b
  PROVE  a \div w <= b \div w /\ a \div w \in Nat /\ b \div w \in Nat
<1>1. \A n \in Nat : /\ n \div w \in Nat
                    /\ w * (n \div w) <= n /\ n < w * (n \div w) + w
  BY SMTT(30)
<1>2. \A x, y \in Nat : y < x => w * y + w <= w * x
  BY SMTT(30)
<1>3. PICK x \in Nat : x = a \div w /\ w * x <= a
  BY <1>1
<1>4. PICK y \in Nat : y = b \div w /\ b < w * y + w
  BY <1>1
<1>5. ~(y < x)
  <2> SUFFICES ASSUME y < x PROVE FALSE
    OBVIOUS
  <2>1. w * x \in Nat /\ w * y \in Nat /\ w * y + w <= w * x
    BY <1>2
  <2> QED
    BY <1>3, <1>4, <2>1
<1> QED
  BY <1>3, <1>4, <1>5

\* Numbers indexed from 1 to n are a sequence of length n.
LEMMA FunctionIsSeq ==
  ASSUME NEW n \in Nat, NEW f \in [1 .. n -> Nat]
  PROVE  f \in Seq(Nat) /\ n = Len(f)
<1>1. f \in Seq(Nat)
  BY SeqDef, Zenon
<1>2. DOMAIN f = 1 .. n /\ DOMAIN f = 1 .. Len(f) /\ Len(f) \in Nat
  BY <1>1, LenProperties, Zenon
<1>3. \A m \in Nat : 1 .. n = 1 .. m => n = m
  <2> SUFFICES ASSUME NEW m \in Nat, 1 .. n = 1 .. m PROVE n = m
    OBVIOUS
  <2>1. \A i \in Int : (1 <= i /\ i <= n) <=> (1 <= i /\ i <= m)
    BY SMTT(30)
  <2> QED
    BY <2>1
<1> QED
  BY <1>1, <1>2, <1>3

\* The fields of the k-th packet fit.
LEMMA FieldsFit ==
  ASSUME NEW k \in Nodes
  PROVE  PAYLOAD_SIZE \in U16 /\ FirstSeq + k \in U32 /\ 1 \in U16
<1> DEFINE W == BYTE * BYTE
<1>1. W \in Nat /\ W > 1
  BY SMT DEF BYTE
<1>2. PAYLOAD_SIZE \in 0 .. W - 1 /\ FirstSeq \in Nat /\ MaxPackets \in Nat
  BY AppAssumption, Zenon
<1>3. (FirstSeq + MaxPackets) \div W < W
  BY AppAssumption, Zenon
<1>4. U16 = {n \in Nat : n < W} /\ U32 = {n \in Nat : n \div W < W}
  BY Zenon DEF U16, U32
<1> HIDE DEF W
<1>5. /\ FirstSeq + k \in Nat /\ FirstSeq + MaxPackets \in Nat
      /\ FirstSeq + k <= FirstSeq + MaxPackets
  BY <1>2 DEF Nodes
<1>6. PAYLOAD_SIZE \in U16 /\ 1 \in U16
  BY <1>1, <1>2, <1>4
<1>7. (FirstSeq + k) \div W < W
  <2> DEFINE a == FirstSeq + k
             b == FirstSeq + MaxPackets
  <2> HIDE DEF a, b
  <2>1. a \div W <= b \div W /\ a \div W \in Nat /\ b \div W \in Nat
    BY <1>1, <1>5, QuotientGrows DEF a, b
  <2>2. b \div W < W
    BY <1>3 DEF b
  <2>3. a \div W < W
    BY <1>1, <2>1, <2>2
  <2> QED
    BY <2>3 DEF a
<1> QED
  BY <1>4, <1>5, <1>6, <1>7

\* The payload of the k-th packet is a sequence of its length.
LEMMA PayloadIs ==
  ASSUME NEW k \in Nodes
  PROVE  LET s == [i \in 1 .. PAYLOAD_SIZE |-> (100 * k + i) % BYTE]
         IN  s \in Seq(Nat) /\ PAYLOAD_SIZE = Len(s)
<1> DEFINE s == [i \in 1 .. PAYLOAD_SIZE |-> (100 * k + i) % BYTE]
<1>1. PAYLOAD_SIZE \in Nat /\ k \in Nat
  BY FieldsFit DEF Nodes, U16
<1>2. \A i \in 1 .. PAYLOAD_SIZE : (100 * k + i) % BYTE \in Nat
  BY <1>1 DEF BYTE
<1>3. s \in [1 .. PAYLOAD_SIZE -> Nat]
  BY <1>2, Zenon
<1> HIDE DEF s
<1>4. s \in Seq(Nat) /\ PAYLOAD_SIZE = Len(s)
  BY <1>1, <1>3, FunctionIsSeq, Zenon
<1> QED
  BY <1>4, Zenon DEF s

\* What the gateway puts into a packet is what the node reads, after the
\* transmitter has taken the fields apart and put them together in another
\* order; the gateway counts transmitters from 0, the others from 1.
LEMMA PacketSurvives ==
  ASSUME NEW k \in Nodes
  PROVE  generate_from_bytes(transmit_to_vlc(
           generate_gateway_packet_from_bytes(transmit_packet_vlc(Packet(k)))))
             = [Packet(k) EXCEPT !.vlc_id = @ + 1]
<1> DEFINE s == [i \in 1 .. PAYLOAD_SIZE |-> (100 * k + i) % BYTE]
           q == FirstSeq + k
           read == [node_id |-> 1, vlc_id |-> 1, payload_len |-> PAYLOAD_SIZE,
                    seq_number |-> q, data |-> s]
           eth == transmit_packet_vlc(Packet(k))
           vlc == transmit_to_vlc(read)
<1>1. PAYLOAD_SIZE \in U16 /\ q \in U32 /\ 1 \in U16
  BY FieldsFit, Zenon
<1>2. s \in Seq(Nat)
  BY PayloadIs, Zenon
<1>3. PAYLOAD_SIZE = Len(s)
  BY PayloadIs, Zenon
<1>4. eth = Fields(1, 1, PAYLOAD_SIZE, q) \o s
  <2>1. Packet(k).node_id = 1 /\ Packet(k).vlc_id + 1 = 1
        /\ Packet(k).payload_len = PAYLOAD_SIZE
        /\ Packet(k).seq_number = q /\ Packet(k).data = s
    BY SMT DEF Packet
  <2> QED
    BY <2>1, Zenon DEF transmit_packet_vlc
<1>5. vlc = Fields(PAYLOAD_SIZE, 1, 1, q) \o s
  BY Zenon DEF transmit_to_vlc
<1> HIDE DEF s, q
<1>6. [Packet(k) EXCEPT !.vlc_id = @ + 1] = read
  <2>1. Packet(k) = [node_id |-> 1, vlc_id |-> 0,
                     payload_len |-> PAYLOAD_SIZE, seq_number |-> q,
                     data |-> s]
    BY Zenon DEF Packet, s, q
  <2> QED
    BY <2>1, SMT
<1> HIDE DEF eth, vlc
<1>7. /\ HasFields(eth, 1, 1, PAYLOAD_SIZE, q)
      /\ SubSeq(eth, 11, 10 + PAYLOAD_SIZE) = s
  <2> DEFINE b == Fields(1, 1, PAYLOAD_SIZE, q) \o s
  <2>1. HasFields(b, 1, 1, PAYLOAD_SIZE, q) /\ SubSeq(b, 11, 10 + Len(s)) = s
    BY <1>1, <1>2, PacketBytes, ZenonT(40)
  <2> QED
    BY <1>3, <1>4, <2>1, Zenon
<1>8. /\ HasFields(vlc, PAYLOAD_SIZE, 1, 1, q)
      /\ SubSeq(vlc, 11, 10 + PAYLOAD_SIZE) = s
  <2> DEFINE b == Fields(PAYLOAD_SIZE, 1, 1, q) \o s
  <2>1. HasFields(b, PAYLOAD_SIZE, 1, 1, q) /\ SubSeq(b, 11, 10 + Len(s)) = s
    BY <1>1, <1>2, PacketBytes, ZenonT(40)
  <2> QED
    BY <1>3, <1>5, <2>1, Zenon
<1>9. generate_gateway_packet_from_bytes(eth) = read
  BY <1>7, Zenon DEF HasFields, generate_gateway_packet_from_bytes
<1>10. generate_from_bytes(vlc) = read
  BY <1>8, Zenon DEF HasFields, generate_from_bytes
<1> QED
  BY <1>6, <1>9, <1>10, Zenon DEF eth, vlc

\* The packet of a node is the one the gateway sent with that number.
DataInv ==
  /\ data = [n \in Nodes |-> data[n]]
  /\ \A n \in Nodes :
       n <= temp =>
         data[n] = generate_gateway_packet_from_bytes(
                     transmit_packet_vlc(Packet(n)))

LEMMA DataStep == AppType /\ DataInv /\ [Next]_vars => DataInv'
<1> SUFFICES ASSUME AppType, DataInv, [Next]_vars PROVE DataInv'
  OBVIOUS
<1>1. CASE Receive
  <2>1. PICK f \in Frames : Read(f)
    BY <1>1 DEF Receive
  <2> DEFINE Sent(k) == generate_gateway_packet_from_bytes(
                          transmit_packet_vlc(Packet(k)))
  <2>2. /\ temp' = temp + 1 /\ temp \in Nat /\ temp < MaxPackets
        /\ data' = [data EXCEPT ![temp + 1] = Sent(temp + 1)]
    BY <2>1 DEF Read, AppType
  <2>3. /\ data = [n \in Nodes |-> data[n]]
        /\ \A n \in Nodes : n <= temp => data[n] = Sent(n)
    BY DEF DataInv
  <2> HIDE DEF Sent
  <2>4. data' = [n \in Nodes |->
                   IF n = temp + 1 THEN Sent(temp + 1) ELSE data[n]]
    BY <2>2, <2>3, Zenon
  <2>5. data' = [n \in Nodes |-> data'[n]]
    BY <2>4, Zenon
  <2>6. ASSUME NEW n \in Nodes, n <= temp' PROVE data'[n] = Sent(n)
    <3>1. n = temp + 1 \/ n <= temp
      BY <2>2, <2>6, AppAssumption, SMT DEF Nodes
    <3>2. n = temp + 1 \/ n # temp + 1
      OBVIOUS
    <3> QED
      BY <2>3, <2>4, <3>1, <3>2, Zenon
  <2> QED
    BY <2>5, <2>6, Zenon DEF DataInv, Sent
<1>2. CASE ~Receive
  <2>1. UNCHANGED <<temp, data>>
    BY <1>2 DEF Next, main, transmit_vlc, vars, main_vars,
       EnqueueLimit, EnqueueEmpty, EnqueueHead, EnqueueLink, EnqueueTail,
       EnqueueLoadSize, EnqueueStoreSize, CountLoad, CountStore, Poll,
       DequeueItem, DequeueNext, DequeueAdvance, DequeueLoadSize,
       DequeueStoreSize, Write, UncountLoad, UncountStore,
       send_queue_report, receive_vlc_report
  <2> QED
    BY <2>1 DEF DataInv
<1> QED
  BY <1>1, <1>2

\* What transmit_vlc does when it writes, in a state that satisfies the
\* invariants.
LEMMA WriteStep ==
  ASSUME AppType, OrderInv, DataInv, [Next]_vars,
         tx_pc = "write", tx_pc' = "count"
  PROVE  /\ latest' > latest
         /\ generate_from_bytes(vlc_buff')
              = [Packet(latest') EXCEPT !.vlc_id = @ + 1]
<1>1. Write
  BY DEF Next, main, transmit_vlc, vars, tx_vars, TxGoto, Receive, Read,
     EnqueueLimit, EnqueueEmpty, EnqueueHead, EnqueueLink, EnqueueTail,
     EnqueueLoadSize, EnqueueStoreSize, CountLoad, CountStore, Poll,
     DequeueItem, DequeueNext, DequeueAdvance, DequeueLoadSize,
     DequeueStoreSize, UncountLoad, UncountStore,
     send_queue_report, receive_vlc_report
<1>2. /\ vlc_buff' = transmit_to_vlc(data[from_queue])
      /\ latest' = from_queue
  BY <1>1 DEF Write
<1>3. from_queue \in Nodes /\ from_queue <= temp /\ from_queue > latest
  BY AppAssumption DEF AppType, OrderInv, Nodes, NULL
<1>4. data[from_queue] = generate_gateway_packet_from_bytes(
                           transmit_packet_vlc(Packet(from_queue)))
  BY <1>3 DEF DataInv
<1> QED
  BY <1>2, <1>3, <1>4, PacketSurvives

\* For any number of packets, whatever is lost in the unlocked queue: what is
\* written to vlc0 are the gateway's packets, in the order of their arrival,
\* none twice and none altered.
THEOREM WritesInOrder == Spec => WrittenInOrder
<1>1. Init => AppType /\ SizeInv /\ OrderInv /\ DataInv
  BY AppAssumption
     DEF Init, AppType, SizeInv, OrderInv, DataInv, NULL, Nodes
<1>2. AppType /\ OrderInv /\ DataInv /\ [Next]_vars =>
        [tx_pc = "write" /\ tx_pc' = "count" =>
           /\ latest' > latest
           /\ generate_from_bytes(vlc_buff')
                = [Packet(latest') EXCEPT !.vlc_id = @ + 1]]_vars
  BY WriteStep
<1> QED
  BY <1>1, <1>2, AppTypeStep, SizeStep, OrderStep, DataStep, PTL
     DEF Spec, WrittenInOrder
=============================================================================
