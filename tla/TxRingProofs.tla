---------------------------- MODULE TxRingProofs ----------------------------
(***************************************************************************)
(* Proofs about TxRing, for every length of a packet and every size of the *)
(* ring, provided that the driver and the firmware agree on the length and *)
(* that the ring holds a whole number of packets: the PRU always sends the *)
(* next packet, whole, and the two indices implement the counter of        *)
(* RingChannel.  The committed TXPRU.bin meets the condition, with 60      *)
(* packets of 100 bytes; TXPRU.p as it is now, whose packets are 20 bytes  *)
(* longer than the driver's, does not, and LengthsMustAgree shows that the *)
(* condition cannot be dropped.                                            *)
(*                                                                         *)
(* The last part is about the contents of those packets, module VlcFrame:  *)
(* for every code, how a frame with errors is counted, and which frames    *)
(* the node gets.                                                          *)
(***************************************************************************)
EXTENDS TxRing, VlcFrame, TLAPS, FiniteSetTheorems, WellFoundedInduction

L == DriverLength

Size == BUFFER_LIMIT - FIRST

\* The slots of the ring are 0 .. K - 1, and At(i) is where slot i starts.
K == Size \div L

At(i) == FIRST + i * L

\* What the driver and the committed TXPRU.bin have.
Fits == /\ PruLength = DriverLength
        /\ BUFFER_LIMIT > FIRST /\ Size % L = 0

\* The slot n places behind slot r.
Slot(r, n) == IF r + n < K THEN r + n ELSE r + n - K

\* Multiples of a length.
LEMMA Multiples ==
  ASSUME NEW x \in Nat, NEW l \in Nat, l > 0, x % l = 0
  PROVE  x \div l \in Nat /\ x = (x \div l) * l
OBVIOUS

\* The next multiple.
LEMMA NextMultiple ==
  ASSUME NEW i \in Nat, NEW l \in Nat
  PROVE  i * l \in Nat /\ (i + 1) * l = i * l + l
OBVIOUS

\* Two multiples are at least the length apart.
LEMMA MultiplesApart ==
  ASSUME NEW i \in Nat, NEW j \in Nat, NEW l \in Nat, i < j
  PROVE  i * l + l <= j * l
OBVIOUS

\* A remainder of something smaller than the divisor, or than twice that.
LEMMA Remainder ==
  ASSUME NEW s \in Nat, s > 0, NEW x \in 0 .. s - 1
  PROVE  x % s = x /\ (s + x) % s = x
OBVIOUS

\* A multiple divided by the length.
LEMMA Quotient ==
  ASSUME NEW d \in Nat, NEW l \in Nat, l > 0
  PROVE  (d * l) \div l = d
OBVIOUS

\* Where the slots lie: one behind the other up to BUFFER_LIMIT.
LEMMA Slots ==
  ASSUME Fits
  PROVE  /\ L \in Nat /\ L > 0 /\ K \in Nat /\ K > 0
         /\ At(0) = FIRST /\ At(K) = BUFFER_LIMIT
         /\ \A i \in 0 .. K : At(i) \in Nat
         /\ \A i \in 0 .. K - 1 : At(i + 1) = At(i) + L
         /\ \A i, j \in 0 .. K : i < j => At(i) + L <= At(j)
<1>1. L \in Nat /\ L > 0
  BY RingAssumption DEF L, DriverLength, DATA_LENGTH_BYTE
<1>2. Size \in Nat /\ Size > 0 /\ FIRST \in Nat
  BY RingAssumption DEF Fits, Size, FIRST
<1>3. K \in Nat /\ Size = K * L
  BY <1>1, <1>2, Multiples DEF Fits, K
<1>4. K > 0
  <2>1. K = 0 => Size = 0
    BY <1>1, <1>3
  <2> QED
    BY <1>2, <1>3, <2>1
<1>5. At(0) = FIRST
  BY <1>1, <1>2 DEF At
<1>6. At(K) = BUFFER_LIMIT
  BY <1>2, <1>3, RingAssumption DEF At, Size
<1>7. ASSUME NEW i \in 0 .. K PROVE At(i) \in Nat
  BY <1>1, <1>2, <1>3, NextMultiple DEF At
<1>8. ASSUME NEW i \in 0 .. K - 1 PROVE At(i + 1) = At(i) + L
  <2>1. i \in Nat
    BY <1>3
  <2>2. i * L \in Nat /\ (i + 1) * L = i * L + L
    BY <1>1, <2>1, NextMultiple
  <2> HIDE DEF L
  <2> QED
    BY <1>1, <1>2, <2>2 DEF At
<1>9. ASSUME NEW i \in 0 .. K, NEW j \in 0 .. K, i < j
      PROVE  At(i) + L <= At(j)
  <2>1. i \in Nat /\ j \in Nat
    BY <1>3
  <2>2. i * L \in Nat /\ j * L \in Nat /\ i * L + L <= j * L
    BY <1>1, <1>9, <2>1, NextMultiple, MultiplesApart
  <2> QED
    BY <1>1, <1>2, <2>2 DEF At
<1> QED
  BY <1>1, <1>3, <1>4, <1>5, <1>6, <1>7, <1>8, <1>9

\* The indices tell how many slots they are apart.
LEMMA Distance ==
  ASSUME Fits, NEW r \in 0 .. K - 1, NEW n \in 0 .. K - 1
  PROVE  ((At(Slot(r, n)) + Size - At(r)) % Size) \div L = n
<1>1. L \in Nat /\ L > 0 /\ K \in Nat /\ K > 0
  BY Slots
<1>2. Size \in Nat /\ Size > 0 /\ FIRST \in Nat
  BY RingAssumption DEF Fits, Size, FIRST
<1>3. Size = K * L
  BY <1>1, <1>2, Multiples DEF Fits, K
<1>4. r \in Nat /\ n \in Nat /\ n < K
  BY <1>1
<1>5. n * L \in Nat /\ n * L + L <= K * L
  BY <1>1, <1>4, NextMultiple, MultiplesApart
<1>6. n * L \in 0 .. Size - 1
  BY <1>1, <1>3, <1>5
<1>7. \/ At(Slot(r, n)) + Size - At(r) = n * L
      \/ At(Slot(r, n)) + Size - At(r) = Size + n * L
  <2>1. CASE r + n < K
    <3>1. (r + n) * L = r * L + n * L /\ r * L \in Nat
      BY <1>1, <1>4
    <3> QED
      BY <1>1, <1>2, <1>5, <2>1, <3>1 DEF Slot, At
  <2>2. CASE ~(r + n < K)
    <3>1. (r + n - K) * L = r * L + n * L - K * L /\ r * L \in Nat
      BY <1>1, <1>4
    <3> QED
      BY <1>1, <1>2, <1>3, <1>5, <2>2, <3>1 DEF Slot, At
  <2> QED
    BY <2>1, <2>2
<1>8. (At(Slot(r, n)) + Size - At(r)) % Size = n * L
  BY <1>2, <1>6, <1>7, Remainder
<1> QED
  BY <1>1, <1>4, <1>8, Quotient

\* Going on by one slot, as both sides do.
LEMMA Advance ==
  ASSUME Fits, NEW r \in 0 .. K - 1
  PROVE  Wrapped(At(r) + L) = At(Slot(r, 1)) /\ Slot(r, 1) \in 0 .. K - 1
<1>1. /\ K \in Nat /\ K > 0 /\ L \in Nat /\ L > 0
      /\ At(0) = FIRST /\ At(K) = BUFFER_LIMIT
      /\ At(r + 1) = At(r) + L
      /\ r + 1 < K => At(r + 1) + L <= At(K)
      /\ At(r + 1) \in Nat /\ At(K) \in Nat
  <2>1. r + 1 \in 0 .. K /\ K \in 0 .. K
    BY Slots
  <2> QED
    BY <2>1, Slots
<1> HIDE DEF At
<1>2. CASE r + 1 < K
  BY <1>1, <1>2 DEF Wrapped, Slot
<1>3. CASE r + 1 = K
  BY <1>1, <1>3 DEF Wrapped, Slot
<1> QED
  BY <1>1, <1>2, <1>3

\* The packets in memory: in slots, numbered, and from slot r on the oldest
\* of those not yet sent.
Stored(r) ==
  /\ \A p \in mem : p.n \in Nat /\ \E i \in 0 .. K - 1 : p.at = At(i)
  /\ \A m \in 1 .. packets : [n |-> m, at |-> At(Slot(r, m - 1))] \in mem

\* The ring when slot r is read next and n packets are published.
RingAt(r, n) ==
  /\ mem_read_idx = At(r) /\ mem_write_idx = At(Slot(r, n))
  /\ is_write_next \in BOOLEAN
  /\ handler \in {"write", "check", "publish"}
  /\ pru \in {"check", "send"}
  /\ packets = IF is_write_next THEN n ELSE n + 1
  /\ is_write_next => handler = "write"
  /\ ~is_write_next => write_idx = At(Slot(r, n + 1))
  /\ handler = "publish" => n + 1 < K
  /\ pru = "send" => r9 = mem_read_idx /\ n > 0
  /\ Stored(r)

\* The inductive invariant: the indices stand at slots.
RingInv == \E r, n \in 0 .. K - 1 : RingAt(r, n)

\* Two slots overlap only if they are the same.
LEMMA OverlapsSame ==
  ASSUME Fits, NEW i \in 0 .. K - 1, NEW j \in 0 .. K - 1, NEW p,
         p.at = At(j), Overlaps(At(i), p)
  PROVE  i = j
<1>1. /\ K \in Nat /\ L \in Nat /\ i \in 0 .. K /\ j \in 0 .. K
  BY Slots
<1>2. /\ At(i) \in Nat /\ At(j) \in Nat
      /\ i < j => At(i) + L <= At(j)
      /\ j < i => At(j) + L <= At(i)
  BY <1>1, Slots
<1> HIDE DEF At
<1> QED
  BY <1>1, <1>2 DEF Overlaps, L

\* The driver writes into a slot that holds nothing left to send.
LEMMA WriteStep ==
  ASSUME Fits, NEW r \in 0 .. K - 1, NEW n \in 0 .. K - 1, RingAt(r, n),
         WritePacket
  PROVE  RingAt(r, n)'
<1> DEFINE w == Slot(r, n)
<1>1. K \in Nat /\ K > 0 /\ r \in Nat /\ n \in Nat
  BY Slots
<1>2. w \in 0 .. K - 1
  BY <1>1 DEF Slot
<1>3. /\ packets = n /\ mem_write_idx = At(w) /\ packets' = n + 1
      /\ mem' = {p \in mem : ~Overlaps(At(w), p)}
                  \cup {[n |-> n + 1, at |-> At(w)]}
  BY DEF RingAt, WritePacket
<1>4. \A m \in 1 .. n : [n |-> m, at |-> At(Slot(r, m - 1))] \in mem'
  <2> SUFFICES ASSUME NEW m \in 1 .. n
               PROVE  [n |-> m, at |-> At(Slot(r, m - 1))] \in mem'
    OBVIOUS
  <2>1. Slot(r, m - 1) \in 0 .. K - 1 /\ Slot(r, m - 1) # w
    BY <1>1 DEF Slot
  <2>2. [n |-> m, at |-> At(Slot(r, m - 1))] \in mem
    BY <1>3 DEF RingAt, Stored
  <2>3. ~Overlaps(At(w), [n |-> m, at |-> At(Slot(r, m - 1))])
    BY <1>2, <2>1, OverlapsSame
  <2> QED
    BY <1>3, <2>2, <2>3
<1>5. [n |-> n + 1, at |-> At(Slot(r, (n + 1) - 1))] \in mem'
  <2>1. (n + 1) - 1 = n
    BY <1>1
  <2> QED
    BY <1>3, <2>1
<1>6. \A m \in 1 .. n + 1 : [n |-> m, at |-> At(Slot(r, m - 1))] \in mem'
  <2> SUFFICES ASSUME NEW m \in 1 .. n + 1
               PROVE  [n |-> m, at |-> At(Slot(r, m - 1))] \in mem'
    OBVIOUS
  <2>1. m \in 1 .. n \/ m = n + 1
    BY <1>1
  <2> QED
    BY <1>4, <1>5, <2>1
<1>7. \A p \in mem' : p.n \in Nat /\ \E i \in 0 .. K - 1 : p.at = At(i)
  BY <1>1, <1>2, <1>3 DEF RingAt, Stored
<1>8. Stored(r)'
  BY <1>3, <1>6, <1>7 DEF Stored
<1>9. write_idx' = At(Slot(r, n + 1))
  <2>1. Slot(w, 1) = Slot(r, n + 1)
    BY <1>1 DEF Slot
  <2> QED
    BY <1>2, <1>3, <2>1, Advance DEF WritePacket, L
<1> QED
  BY <1>3, <1>8, <1>9 DEF RingAt, WritePacket, firmware

\* The PRU is done with the packet of slot r; the next one is behind it.
LEMMA DoneStep ==
  ASSUME Fits, NEW r \in 0 .. K - 1, NEW n \in 0 .. K - 1, RingAt(r, n),
         PACKET_DONE
  PROVE  n > 0 /\ Slot(r, 1) \in 0 .. K - 1 /\ RingAt(Slot(r, 1), n - 1)'
<1> DEFINE s == Slot(r, 1)
<1>1. K \in Nat /\ K > 0 /\ r \in Nat /\ n \in Nat
  BY Slots
<1>2. n > 0 /\ r9 = At(r) /\ mem_read_idx = At(r) /\ PruLength = L
  BY DEF RingAt, PACKET_DONE, Fits, L
<1>3. s \in 0 .. K - 1 /\ mem_read_idx' = At(s)
  BY <1>2, Advance DEF PACKET_DONE
<1>4. \A m \in Nat : m <= K - 1 => Slot(s, m) = Slot(r, m + 1)
  BY <1>1 DEF Slot
<1>5. packets \in Nat /\ packets > 0 /\ packets' = packets - 1 /\ packets <= K
  BY <1>1, <1>2 DEF RingAt, PACKET_DONE, Renumber, OneLess
<1>6. \A m \in 1 .. packets - 1 :
        [n |-> m, at |-> At(Slot(s, m - 1))] \in mem'
  <2> SUFFICES ASSUME NEW m \in 1 .. packets - 1
               PROVE  [n |-> m, at |-> At(Slot(s, m - 1))] \in mem'
    OBVIOUS
  <2> DEFINE p == [n |-> m + 1, at |-> At(Slot(r, (m + 1) - 1))]
  <2>1. m \in Nat /\ m + 1 \in 1 .. packets /\ (m + 1) - 1 = m
        /\ m - 1 \in Nat /\ m - 1 <= K - 1 /\ (m - 1) + 1 = m
    BY <1>1, <1>5
  <2>2. p \in mem
    BY <2>1 DEF RingAt, Stored
  <2>3. OneLess(p.n) = m
    BY <2>1 DEF OneLess
  <2>4. p.at = At(Slot(s, m - 1))
    BY <1>4, <2>1
  <2>5. [n |-> OneLess(p.n), at |-> p.at] \in mem'
    BY <2>2 DEF PACKET_DONE, Renumber
  <2> QED
    BY <2>3, <2>4, <2>5
<1>7. \A p \in mem' : p.n \in Nat /\ \E i \in 0 .. K - 1 : p.at = At(i)
  <2> SUFFICES ASSUME NEW q \in mem
               PROVE  /\ OneLess(q.n) \in Nat
                      /\ \E i \in 0 .. K - 1 : q.at = At(i)
    BY DEF PACKET_DONE, Renumber
  <2> QED
    BY DEF RingAt, Stored, OneLess
<1>8. Stored(s)'
  BY <1>5, <1>6, <1>7 DEF Stored
<1>9. /\ mem_write_idx' = At(Slot(s, n - 1))
      /\ ~is_write_next => write_idx' = At(Slot(s, (n - 1) + 1))
  <2>1. n - 1 \in Nat /\ n - 1 <= K - 1 /\ n \in Nat /\ n <= K - 1
        /\ (n - 1) + 1 = n
    BY <1>1, <1>2
  <2> QED
    BY <1>4, <2>1 DEF RingAt, PACKET_DONE, driver
<1>10. /\ UNCHANGED <<is_write_next, handler>> /\ pru' = "check"
       /\ packets' = IF is_write_next THEN n - 1 ELSE (n - 1) + 1
       /\ handler = "publish" => (n - 1) + 1 < K
  BY <1>1, <1>2, <1>5 DEF RingAt, PACKET_DONE, driver
<1> QED
  BY <1>2, <1>3, <1>8, <1>9, <1>10 DEF RingAt

\* Publishing keeps one slot free.
LEMMA PublishStep ==
  ASSUME Fits, NEW r \in 0 .. K - 1, NEW n \in 0 .. K - 1, RingAt(r, n),
         Publish
  PROVE  n + 1 < K /\ RingAt(r, n + 1)'
<1>1. K \in Nat /\ n \in Nat /\ n + 1 < K /\ ~is_write_next
  BY Slots DEF RingAt, Publish
<1>2. Stored(r)'
  BY DEF RingAt, Stored, Publish
<1> QED
  BY <1>1, <1>2 DEF RingAt, Publish, firmware

\* The other steps move no index.
LEMMA OtherStep ==
  ASSUME Fits, NEW r \in 0 .. K - 1, NEW n \in 0 .. K - 1, RingAt(r, n),
         SkipWrite \/ CheckRead \/ CHECK_INDEX \/ UNCHANGED vars
  PROVE  RingAt(r, n)'
<1>1. K \in Nat /\ K > 0 /\ r \in Nat /\ n \in Nat
  BY Slots
<1>2. UNCHANGED <<mem, mem_write_idx, mem_read_idx, write_idx, is_write_next,
                  packets>>
  BY DEF SkipWrite, CheckRead, CHECK_INDEX, vars, driver
<1>3. Stored(r)'
  BY <1>2 DEF RingAt, Stored
<1>4. CASE SkipWrite
  BY <1>2, <1>3, <1>4 DEF RingAt, SkipWrite, firmware
<1>5. CASE CheckRead
  <2>1. n + 1 = K => Slot(r, n + 1) = r
    BY <1>1 DEF Slot
  <2>2. mem_read_idx # write_idx /\ ~is_write_next => n + 1 < K
    BY <1>1, <2>1 DEF RingAt
  <2> QED
    BY <1>2, <1>3, <1>5, <2>2 DEF RingAt, CheckRead, firmware
<1>6. CASE CHECK_INDEX
  <2>1. Slot(r, 0) = r
    BY <1>1 DEF Slot
  <2>2. n > 0
    BY <1>1, <1>6, <2>1 DEF RingAt, CHECK_INDEX
  <2> QED
    BY <1>2, <1>3, <1>6, <2>2 DEF RingAt, CHECK_INDEX, driver
<1>7. CASE UNCHANGED vars
  BY <1>2, <1>3, <1>7 DEF RingAt, vars, driver, firmware
<1> QED
  BY <1>4, <1>5, <1>6, <1>7

\* The ring starts empty.
LEMMA RingInit == ASSUME Fits, Init PROVE RingAt(0, 0) /\ 0 \in 0 .. K - 1
<1>1. K \in Nat /\ K > 0 /\ At(0) = FIRST /\ Slot(0, 0) = 0
  BY Slots DEF Slot
<1>2. Stored(0)
  BY DEF Init, Stored
<1> QED
  BY <1>1, <1>2 DEF Init, RingAt

\* Every step of either side keeps the invariant.
LEMMA RingStep == ASSUME Fits, RingInv, [Next]_vars PROVE RingInv'
<1>1. PICK r \in 0 .. K - 1, n \in 0 .. K - 1 : RingAt(r, n)
  BY DEF RingInv
<1>2. CASE WritePacket
  BY <1>1, <1>2, WriteStep DEF RingInv
<1>3. CASE PACKET_DONE
  <2>1. n - 1 \in 0 .. K - 1
    BY <1>1, <1>3, DoneStep, Slots
  <2> QED
    BY <1>1, <1>3, <2>1, DoneStep DEF RingInv
<1>4. CASE Publish
  <2>1. n + 1 \in 0 .. K - 1
    BY <1>1, <1>4, PublishStep, Slots
  <2> QED
    BY <1>1, <1>4, <2>1, PublishStep DEF RingInv
<1>5. CASE SkipWrite \/ CheckRead \/ CHECK_INDEX \/ UNCHANGED vars
  BY <1>1, <1>5, OtherStep DEF RingInv
<1> QED
  BY <1>2, <1>3, <1>4, <1>5 DEF Next, phy_timer_handler, TXPRU

\* For every ring that fits: the PRU never starts in the middle of a packet,
\* repeats or skips one, or has one overwritten under it.
THEOREM AlwaysNextPacket == ASSUME Fits PROVE Spec => []SendsNextPacket
<1>1. Init => RingInv
  BY RingInit DEF RingInv
<1>2. RingInv /\ [Next]_vars => RingInv'
  BY RingStep
<1>3. RingInv => SendsNextPacket
  <2> SUFFICES ASSUME RingInv, pru = "send"
               PROVE  [n |-> 1, at |-> r9] \in mem
    BY DEF SendsNextPacket
  <2>1. PICK r \in 0 .. K - 1, n \in 0 .. K - 1 : RingAt(r, n)
    BY DEF RingInv
  <2>2. K \in Nat /\ Slot(r, 1 - 1) = r
    BY Slots DEF Slot
  <2>3. 1 \in 1 .. packets /\ r9 = At(r)
    BY <2>1, <2>2 DEF RingAt
  <2> QED
    BY <2>1, <2>2, <2>3 DEF RingAt, Stored
<1> QED
  BY <1>1, <1>2, <1>3, PTL DEF Spec

\* Firmware of another length loses its place with the first packet that the
\* next one follows: where it stores its read index no packet begins, or not
\* the next one.
THEOREM LengthsMustAgree ==
  ASSUME PruLength # DriverLength, PACKET_DONE,
         r9 \in Nat, r9 + PruLength < BUFFER_LIMIT,
         mem \subseteq [n : Nat, at : Nat],
         \A p \in mem : p.n = 2 => p.at = r9 + DriverLength
  PROVE  mem_read_idx' = r9' /\ [n |-> 1, at |-> r9'] \notin mem'
<1>1. DriverLength \in Nat /\ PruLength \in Nat
  BY RingAssumption DEF DriverLength, PruLength, DATA_LENGTH_BYTE
<1>2. r9' = r9 + PruLength /\ mem_read_idx' = r9'
  BY <1>1, RingAssumption DEF PACKET_DONE, Wrapped
<1>3. mem' = {[n |-> OneLess(p.n), at |-> p.at] : p \in mem}
  BY DEF PACKET_DONE, Renumber
<1>4. SUFFICES ASSUME NEW p \in mem,
                      [n |-> 1, at |-> r9'] = [n |-> OneLess(p.n), at |-> p.at]
               PROVE  FALSE
  BY <1>2, <1>3
<1>5. OneLess(p.n) = 1 /\ p.at = r9'
  BY <1>4
<1>6. p.n = 2
  BY <1>4, <1>5 DEF OneLess
<1> QED
  BY <1>1, <1>2, <1>5, <1>6

\* The number of published packets, as the two indices tell it.
Pending == ((mem_write_idx + (BUFFER_LIMIT - FIRST) - mem_read_idx)
              % (BUFFER_LIMIT - FIRST)) \div DriverLength

\* It is the n of the invariant.
LEMMA PendingIs ==
  ASSUME Fits, NEW r \in 0 .. K - 1, NEW n \in 0 .. K - 1,
         mem_read_idx = At(r), mem_write_idx = At(Slot(r, n))
  PROVE  Pending = n
BY Distance DEF Pending, Size, L

\* For every ring that fits: the offsets implement a counter of published
\* packets, which publishing raises and the end of a transmission lowers by
\* one, and which stays below the number of slots.
THEOREM RingRefines == ASSUME Fits PROVE Spec => RingIsChannel
<1>1. Init => RingInv /\ Pending = 0
  BY RingInit, PendingIs DEF RingInv, RingAt
<1>2. RingInv /\ [Next]_vars => RingInv'
  BY RingStep
<1>3. RingInv /\ [Next]_vars =>
        \/ Pending < K - 1 /\ Pending' = Pending + 1
        \/ Pending > 0 /\ Pending' = Pending - 1
        \/ Pending' = Pending
  <2> SUFFICES ASSUME RingInv, [Next]_vars
               PROVE  \/ Pending < K - 1 /\ Pending' = Pending + 1
                      \/ Pending > 0 /\ Pending' = Pending - 1
                      \/ Pending' = Pending
    OBVIOUS
  <2>1. PICK r \in 0 .. K - 1, n \in 0 .. K - 1 : RingAt(r, n)
    BY DEF RingInv
  <2>2. Pending = n /\ n \in Nat /\ K \in Nat
    BY <2>1, PendingIs, Slots DEF RingAt
  <2>3. ASSUME NEW q \in 0 .. K - 1, NEW m \in 0 .. K - 1, RingAt(q, m)'
        PROVE  Pending' = m
    <3>1. /\ mem_read_idx' = At(q) /\ mem_write_idx' = At(Slot(q, m))
      BY <2>3 DEF RingAt
    <3> QED
      BY <3>1, Distance DEF Pending, Size, L
  <2>4. CASE PACKET_DONE
    <3>1. /\ n > 0 /\ Slot(r, 1) \in 0 .. K - 1 /\ n - 1 \in 0 .. K - 1
          /\ RingAt(Slot(r, 1), n - 1)'
      BY <2>1, <2>2, <2>4, DoneStep
    <3> QED
      BY <2>2, <2>3, <3>1
  <2>5. CASE Publish
    <3>1. n + 1 \in 0 .. K - 1 /\ RingAt(r, n + 1)'
      BY <2>1, <2>2, <2>5, PublishStep
    <3> QED
      BY <2>2, <2>3, <3>1
  <2>6. CASE WritePacket \/ SkipWrite \/ CheckRead \/ CHECK_INDEX
               \/ UNCHANGED vars
    <3>1. RingAt(r, n)'
      BY <2>1, <2>6, WriteStep, OtherStep
    <3> QED
      BY <2>2, <2>3, <3>1
  <2> QED
    BY <2>4, <2>5, <2>6 DEF Next, phy_timer_handler, TXPRU
<1>4. Pending = 0 => Channel!Init
  BY DEF Pending, Channel!Init
<1>5. \/ Pending < K - 1 /\ Pending' = Pending + 1
      \/ Pending > 0 /\ Pending' = Pending - 1
      \/ Pending' = Pending
      => [Channel!Next]_Pending
  BY DEF Pending, K, Size, L, Channel!Next, Channel!Publish, Channel!Take
<1> QED
  BY <1>1, <1>2, <1>3, <1>4, <1>5, PTL
     DEF Spec, RingIsChannel, Channel!Spec, Pending

-----------------------------------------------------------------------------
(* What is in the packets: VlcFrame, from the transmit driver's copy into    *)
(* the ring to receive_vlc of the node.  The theorems are about every code   *)
(* and every field; what the decoder does to the data is taken from          *)
(* CorrectsWithinReach where it matters, and not needed where it does not.   *)

\* What decode_rs8 can return: a number of errors that the parity can stand
\* for, or -EBADMSG.
Counts == 0 .. NROOTS \cup {0 - EBADMSG}

\* The constants as numbers: half is the smallest power of two that an int
\* does not hold.
LEMMA FrameNumbers ==
  /\ NROOTS \in Nat /\ EBADMSG \in Nat /\ EBADMSG > 0
  /\ \E half \in Nat : /\ 2^(INT_BITS - 1) = half /\ 2^INT_BITS = 2 * half
                       /\ EBADMSG < half /\ NROOTS < half
<1>1. NROOTS \in Nat /\ EBADMSG \in Nat /\ EBADMSG > 0
  <2>1. NN \in Int
    BY RsAssumption DEF NN
  <2>2. NROOTS \in 1 .. NN - 1 /\ EBADMSG \in Nat \ {0}
    BY RsAssumption
  <2> QED
    BY <2>1, <2>2
<1>2. 2^(INT_BITS - 1) \in Int
  BY FrameAssumption
<1>3. /\ 2^INT_BITS = 2 * 2^(INT_BITS - 1)
      /\ EBADMSG < 2^(INT_BITS - 1) /\ NROOTS < 2^(INT_BITS - 1)
  BY FrameAssumption
<1> QED
  BY <1>1, <1>2, <1>3

\* A non-empty set of natural numbers has a least element.
LEMMA Least ==
  ASSUME NEW T \in SUBSET Nat, T # {}
  PROVE  \E x \in T : \A y \in T : x <= y
<1>1. PICK x \in T : \A y \in T : ~(<<y, x>> \in OpToRel(<, Nat))
  BY WFMin, NatLessThanWellFounded
<1>2. ASSUME NEW y \in T PROVE x <= y
  <2>1. ~(y < x)
    BY <1>1 DEF OpToRel
  <2> QED
    BY <2>1
<1> QED
  BY <1>2

\* deg_lambda is never more than the number of roots of the generator.
LEMMA DegreeBounded ==
  ASSUME NROOTS \in Nat, NEW lambda
  PROVE  Degree(lambda) \in 0 .. NROOTS
<1> DEFINE P(i) == /\ i = 0 \/ lambda[i] # NN
                   /\ \A j \in i + 1 .. NROOTS : lambda[j] = NN
           High(j) == \A k \in j + 1 .. NROOTS : lambda[k] = NN
           T == {i \in 0 .. NROOTS : High(i)}
<1>1. T \in SUBSET Nat /\ NROOTS \in T
  OBVIOUS
<1>2. PICK x \in T : \A y \in T : x <= y
  BY <1>1, Least
<1>3. x \in 0 .. NROOTS /\ High(x)
  OBVIOUS
<1>4. x = 0 \/ lambda[x] # NN
  <2> SUFFICES ASSUME x # 0, lambda[x] = NN PROVE FALSE
    OBVIOUS
  <2>1. x - 1 \in 0 .. NROOTS /\ ~(x <= x - 1)
        /\ \A k \in (x - 1) + 1 .. NROOTS : k = x \/ k \in x + 1 .. NROOTS
    BY <1>3
  <2>2. High(x - 1)
    BY <1>3, <2>1
  <2> QED
    BY <1>2, <2>1, <2>2
<1>5. \E i \in 0 .. NROOTS : P(i)
  BY <1>3, <1>4
<1>6. (CHOOSE i \in 0 .. NROOTS : P(i)) \in 0 .. NROOTS
  BY <1>5, Zenon
<1> QED
  BY <1>6, Zenon DEF Degree

\* Whatever the word: a number of roots other than deg_lambda is an error.
LEMMA DecodeCounts ==
  ASSUME NROOTS \in Nat, NEW data, NEW par
  PROVE  decode_rs8(data, par).count \in Counts
<1> DEFINE s == Syndromes(data \o par)
           lambda == BerlekampMassey(s)
           roots == Roots(lambda, Degree(lambda))
           fixed == Corrected(data, s, lambda, roots)
           zero == \A i \in DOMAIN s : s[i] = NN
<1>1. decode_rs8(data, par) =
        IF zero THEN [count |-> 0, data |-> data]
        ELSE IF Cardinality(roots) # Degree(lambda)
        THEN [count |-> 0 - EBADMSG, data |-> data]
        ELSE [count |-> Cardinality(roots), data |-> fixed]
  BY Zenon DEF decode_rs8
<1>2. Degree(lambda) \in 0 .. NROOTS
  BY DegreeBounded, Zenon
<1> HIDE DEF s, lambda, roots, fixed, zero
<1>3. CASE zero
  BY <1>1, <1>3 DEF Counts
<1>4. CASE ~zero /\ Cardinality(roots) # Degree(lambda)
  BY <1>1, <1>4 DEF Counts
<1>5. CASE ~zero /\ Cardinality(roots) = Degree(lambda)
  BY <1>1, <1>2, <1>5 DEF Counts
<1> QED
  BY <1>3, <1>4, <1>5

\* Through the unsigned variable and back: positive unless there was none, and
\* the same int.
LEMMA CountTravels ==
  ASSUME NEW n \in Counts
  PROVE  /\ n \in Int /\ (AsUnsigned(n) > 0 <=> n # 0)
         /\ AsInt(AsUnsigned(n)) = n
<1>1. NROOTS \in Nat /\ EBADMSG \in Nat /\ EBADMSG > 0
  BY FrameNumbers
<1>2. PICK half \in Nat : /\ 2^(INT_BITS - 1) = half /\ 2^INT_BITS = 2 * half
                          /\ EBADMSG < half /\ NROOTS < half
  BY FrameNumbers
<1>3. n \in 0 .. NROOTS \/ n = 0 - EBADMSG
  BY DEF Counts
<1>4. AsUnsigned(n) = n % (2 * half)
  BY <1>2 DEF AsUnsigned
<1>5. \A u : AsInt(u) = IF u >= half THEN u - 2 * half ELSE u
  BY <1>2 DEF AsInt
<1>6. CASE n \in 0 .. NROOTS
  <2>1. n % (2 * half) = n
    BY <1>1, <1>2, <1>6
  <2> QED
    BY <1>1, <1>2, <1>4, <1>5, <1>6, <2>1
<1>7. CASE n = 0 - EBADMSG
  <2>1. n % (2 * half) = 2 * half - EBADMSG
    BY <1>1, <1>2, <1>7, SMTT(30)
  <2> QED
    BY <1>1, <1>2, <1>4, <1>5, <1>7, <2>1
<1> QED
  BY <1>3, <1>6, <1>7

\* What receive_vlc does with the label of a decoded frame: who gets it, and
\* how its errors are counted.
LEMMA VerdictIs ==
  ASSUME NEW d, d.count \in Counts,
         NEW v, v = Verdict(Label(d))
  PROVE  /\ v.queued = (\/ d.count # 0 /\ d.data[1] # DUMMY_PACKET_NODE_ID
                        \/ d.count = 0 /\ d.data[1] \in {SELF_ID, RS_ERROR_ID})
         /\ v.queued => v.seq = d.data[2]
         /\ v.queued /\ (d.count # 0 \/ d.data[1] # RS_ERROR_ID) =>
              /\ v.corrected = IF d.count >= 0 THEN d.count ELSE 0
              /\ v.uncorrected = IF d.count < 0 THEN 0 - d.count ELSE 0
<1>1. /\ d.count \in Int /\ (AsUnsigned(d.count) > 0 <=> d.count # 0)
      /\ AsInt(AsUnsigned(d.count)) = d.count
  BY CountTravels
<1>2. DUMMY_PACKET_NODE_ID \notin {SELF_ID, RS_ERROR_ID}
  BY FrameAssumption
<1> DEFINE f == Label(d)
           t == AsUnsigned(d.count)
<1>3. /\ f.node_id = IF t > 0 /\ d.data[1] # DUMMY_PACKET_NODE_ID
                     THEN RS_ERROR_ID ELSE d.data[1]
      /\ f.seq = d.data[2]
      /\ f.payload = IF t > 0 THEN t ELSE SentPayload
  BY DEF Label
<1> DEFINE n == IF f.node_id = RS_ERROR_ID THEN AsInt(f.payload) ELSE 0
<1>4. v = IF f.node_id \notin {SELF_ID, RS_ERROR_ID} THEN Ignored
          ELSE [queued |-> TRUE, seq |-> f.seq,
                corrected |-> IF n >= 0 THEN n ELSE 0,
                uncorrected |-> IF n < 0 THEN 0 - n ELSE 0]
  BY Zenon DEF Verdict
<1>5. Ignored.queued = FALSE
  BY DEF Ignored
<1> HIDE DEF f, t, n
<1>6. CASE d.count # 0 /\ d.data[1] # DUMMY_PACKET_NODE_ID
  <2>1. f.node_id = RS_ERROR_ID /\ f.payload = t
    BY <1>1, <1>3, <1>6 DEF t
  <2>2. n = d.count
    BY <1>1, <2>1 DEF n, t
  <2>3. v = [queued |-> TRUE, seq |-> f.seq,
             corrected |-> IF n >= 0 THEN n ELSE 0,
             uncorrected |-> IF n < 0 THEN 0 - n ELSE 0]
    BY <1>4, <2>1
  <2> QED
    BY <1>1, <1>3, <1>6, <2>2, <2>3
<1>7. CASE d.count # 0 /\ d.data[1] = DUMMY_PACKET_NODE_ID
  <2>1. f.node_id = DUMMY_PACKET_NODE_ID
    BY <1>3, <1>7
  <2>2. v = Ignored
    BY <1>2, <1>4, <2>1
  <2> QED
    BY <1>5, <1>7, <2>2
<1>8. CASE d.count = 0
  <2>1. f.node_id = d.data[1]
    BY <1>1, <1>3, <1>8 DEF t
  <2>2. d.data[1] # RS_ERROR_ID => n = 0
    BY <2>1 DEF n
  <2>3. CASE d.data[1] \in {SELF_ID, RS_ERROR_ID}
    <3>1. v = [queued |-> TRUE, seq |-> f.seq,
               corrected |-> IF n >= 0 THEN n ELSE 0,
               uncorrected |-> IF n < 0 THEN 0 - n ELSE 0]
      BY <1>4, <2>1, <2>3
    <3> QED
      BY <1>3, <1>8, <2>2, <2>3, <3>1
  <2>4. CASE d.data[1] \notin {SELF_ID, RS_ERROR_ID}
    <3>1. v = Ignored
      BY <1>4, <2>1, <2>4
    <3> QED
      BY <1>5, <1>8, <2>4, <3>1
  <2> QED
    BY <2>3, <2>4
<1> QED
  BY <1>6, <1>7, <1>8

\* What the node gets is the label of what the decoder returned.
LabelInv ==
  stage = "node" => decoded.count \in Counts /\ skb = Label(decoded)

\* Every step keeps it.
LEMMA LabelStep ==
  ASSUME LabelInv, [FrameNext]_frame_vars
  PROVE  LabelInv'
<1>1. CASE \E frame \in Frames : write_packet_to_pru_memory(frame)
  BY <1>1 DEF write_packet_to_pru_memory, LabelInv
<1>2. CASE Light
  BY <1>2 DEF Light, LabelInv
<1>3. CASE pru_phy_decoding
  <2>1. PICK data, par : decoded' = decode_rs8(data, par)
    BY <1>3, Zenon DEF pru_phy_decoding
  <2>2. NROOTS \in Nat
    <3>1. NN \in Int
      BY RsAssumption DEF NN
    <3> QED
      BY <3>1, RsAssumption
  <2>3. decoded'.count \in Counts
    BY <2>1, <2>2, DecodeCounts
  <2>4. skb' = Label(decoded')
    BY <1>3, Zenon DEF pru_phy_decoding
  <2> QED
    BY <2>3, <2>4 DEF LabelInv
<1>4. CASE receive_vlc
  BY <1>4 DEF receive_vlc, LabelInv
<1>5. CASE UNCHANGED frame_vars
  BY <1>5 DEF frame_vars, LabelInv
<1> QED
  BY <1>1, <1>2, <1>3, <1>4, <1>5 DEF FrameNext

\* No frame arrives twice: verdict changes with receive_vlc, or is reset.
LEMMA VerdictStep ==
  ASSUME [FrameNext]_frame_vars, stage' = "tx"
  PROVE  \/ UNCHANGED <<stage, sent, errors, decoded, verdict>>
         \/ /\ stage = "node" /\ UNCHANGED <<sent, errors, decoded>>
            /\ verdict' = Verdict(skb)
<1>1. CASE \E frame \in Frames : write_packet_to_pru_memory(frame)
  BY <1>1 DEF write_packet_to_pru_memory
<1>2. CASE Light
  BY <1>2 DEF Light
<1>3. CASE pru_phy_decoding
  BY <1>3 DEF pru_phy_decoding
<1>4. CASE receive_vlc
  BY <1>4 DEF receive_vlc
<1>5. CASE UNCHANGED frame_vars
  BY <1>5 DEF frame_vars
<1> QED
  BY <1>1, <1>2, <1>3, <1>4, <1>5 DEF FrameNext

\* The counting of errors is right after every step.
LEMMA AccountStep ==
  ASSUME LabelInv,
         ErrorsAccounted, [FrameNext]_frame_vars
  PROVE  ErrorsAccounted'
<1> SUFFICES ASSUME stage' = "tx", verdict'.queued,
                    decoded'.count # 0 \/ decoded'.data[1] # RS_ERROR_ID
             PROVE  IF decoded'.count < 0
                    THEN verdict'.uncorrected = EBADMSG /\ verdict'.corrected = 0
                    ELSE /\ verdict'.uncorrected = 0
                         /\ verdict'.corrected = decoded'.count
  BY DEF ErrorsAccounted
<1>1. CASE UNCHANGED <<stage, sent, errors, decoded, verdict>>
  BY <1>1 DEF ErrorsAccounted
<1>2. CASE /\ stage = "node" /\ UNCHANGED <<sent, errors, decoded>>
           /\ verdict' = Verdict(skb)
  <2>1. decoded.count \in Counts /\ verdict' = Verdict(Label(decoded))
    BY <1>2 DEF LabelInv
  <2>2. verdict'.queued
          /\ (decoded.count # 0 \/ decoded.data[1] # RS_ERROR_ID) =>
          /\ verdict'.corrected = IF decoded.count >= 0 THEN decoded.count ELSE 0
          /\ verdict'.uncorrected = IF decoded.count < 0 THEN 0 - decoded.count
                                    ELSE 0
    BY <2>1, VerdictIs
  <2>3. /\ decoded.count \in 0 .. NROOTS \/ decoded.count = 0 - EBADMSG
        /\ NROOTS \in Nat /\ EBADMSG \in Nat /\ EBADMSG > 0
    BY <2>1, FrameNumbers DEF Counts
  <2> QED
    BY <1>2, <2>2, <2>3
<1> QED
  BY <1>1, <1>2, VerdictStep

\* For every code, every pattern of errors, in reach of the code or not: a frame
\* the decoder gave up on is counted as uncorrected and as nothing else, a
\* repaired one with its number of errors.
THEOREM AccountedAlways ==
  FrameSpec => []ErrorsAccounted
<1>1. FrameInit => LabelInv /\ ErrorsAccounted
  BY DEF FrameInit, LabelInv, ErrorsAccounted, Ignored
<1>2. LabelInv /\ [FrameNext]_frame_vars => LabelInv'
  BY LabelStep
<1>3. LabelInv /\ ErrorsAccounted /\ [FrameNext]_frame_vars =>
        ErrorsAccounted'
  BY AccountStep
<1> QED
  BY <1>1, <1>2, <1>3, PTL DEF FrameSpec

\* A frame under way is one of Frames, its number of errors a number.
SentInv ==
  /\ stage # "tx" => sent \in Frames
  /\ stage \in {"driver", "node"} => errors \in Nat

\* Every step keeps it.
LEMMA SentStep ==
  ASSUME SentInv, [FrameNext]_frame_vars
  PROVE  SentInv'
<1>1. CASE \E frame \in Frames : write_packet_to_pru_memory(frame)
  BY <1>1 DEF write_packet_to_pru_memory, SentInv
<1>2. CASE Light
  <2>1. PICK hit \in SUBSET (1 .. Len(sent) + NROOTS) :
          errors' = Cardinality(hit)
    BY <1>2 DEF Light
  <2>2. Len(sent) = 2
    BY <1>2 DEF Light, SentInv, Frames
  <2>3. NROOTS \in Nat
    <3>1. NN \in Int
      BY RsAssumption DEF NN
    <3> QED
      BY <3>1, RsAssumption
  <2>4. IsFiniteSet(1 .. Len(sent) + NROOTS)
    BY <2>2, <2>3, FS_Interval
  <2>5. Cardinality(hit) \in Nat
    BY <2>4, FS_Subset, FS_CardinalityType
  <2>6. errors' \in Nat
    BY <2>1, <2>5
  <2> QED
    BY <1>2, <2>6 DEF Light, SentInv
<1>3. CASE pru_phy_decoding
  <2>1. stage = "driver" /\ stage' = "node" /\ sent' = sent /\ errors' = errors
    BY <1>3 DEF pru_phy_decoding
  <2> QED
    BY <2>1 DEF SentInv
<1>4. CASE receive_vlc
  BY <1>4 DEF receive_vlc, SentInv
<1>5. CASE UNCHANGED frame_vars
  BY <1>5 DEF frame_vars, SentInv
<1> QED
  BY <1>1, <1>2, <1>3, <1>4, <1>5 DEF FrameNext

\* Delivery is right after every step, if the decoder is.
LEMMA DeliverStep ==
  ASSUME LabelInv, SentInv,
         CorrectsWithinReach, DeliveredExactly,
         [FrameNext]_frame_vars
  PROVE  DeliveredExactly'
<1> SUFFICES ASSUME stage' = "tx", sent' # << >>, WithinReach'
             PROVE  /\ verdict'.queued =
                         (\/ sent'[1] = SELF_ID
                          \/ sent'[1] # DUMMY_PACKET_NODE_ID /\ errors' > 0)
                    /\ verdict'.queued => verdict'.seq = sent'[2]
  BY DEF DeliveredExactly
<1>1. CASE UNCHANGED <<stage, sent, errors, decoded, verdict>>
  BY <1>1 DEF DeliveredExactly, WithinReach
<1>2. CASE /\ stage = "node" /\ UNCHANGED <<sent, errors, decoded>>
           /\ verdict' = Verdict(skb)
  <2>1. decoded.count \in Counts /\ verdict' = Verdict(Label(decoded))
    BY <1>2 DEF LabelInv
  <2>2. decoded.count = errors /\ decoded.data = sent
    BY <1>2 DEF CorrectsWithinReach, WithinReach
  <2>3. /\ verdict'.queued =
             (\/ decoded.count # 0 /\ decoded.data[1] # DUMMY_PACKET_NODE_ID
              \/ /\ decoded.count = 0
                 /\ decoded.data[1] \in {SELF_ID, RS_ERROR_ID})
        /\ verdict'.queued => verdict'.seq = decoded.data[2]
    BY <2>1, VerdictIs
  <2>4. errors \in Nat /\ sent \in Frames
    BY <1>2 DEF SentInv
  <2>5. sent[1] \in {SELF_ID, DUMMY_PACKET_NODE_ID} \cup OtherNodes
    BY <2>4 DEF Frames
  <2>6. /\ sent[1] = RS_ERROR_ID => sent[1] = SELF_ID
        /\ SELF_ID # DUMMY_PACKET_NODE_ID
    BY <2>5, FrameAssumption
  <2>7. errors > 0 <=> errors # 0
    BY <2>4
  <2> DEFINE had == errors # 0 /\ sent[1] # DUMMY_PACKET_NODE_ID
             clean == errors = 0 /\ sent[1] \in {SELF_ID, RS_ERROR_ID}
             mine == sent[1] = SELF_ID
             other == sent[1] # DUMMY_PACKET_NODE_ID /\ errors > 0
  <2>8. verdict'.queued = (had \/ clean)
    BY <2>2, <2>3
  <2>9. (had \/ clean) <=> (mine \/ other)
    <3>1. CASE errors = 0
      BY <2>6, <2>7, <3>1
    <3>2. CASE errors # 0
      BY <2>6, <2>7, <3>2
    <3> QED
      BY <3>1, <3>2
  <2>10. sent' = sent /\ errors' = errors
    BY <1>2
  <2>11. verdict'.queued => verdict'.seq = sent'[2]
    BY <2>2, <2>3, <2>10
  <2>12. verdict'.queued =
           (\/ sent'[1] = SELF_ID
            \/ sent'[1] # DUMMY_PACKET_NODE_ID /\ errors' > 0)
    BY <2>8, <2>9, <2>10
  <2> QED
    BY <2>11, <2>12
<1> QED
  BY <1>1, <1>2, VerdictStep

\* For every code and every numbering of the nodes: if the decoder corrects what
\* is in reach of the code, then exactly the frames of this node and those of
\* other nodes that had errors reach process_queue, never a dummy, with the
\* sequence number they were sent with.
THEOREM DeliveredIfCorrected ==
  FrameSpec /\ []CorrectsWithinReach => []DeliveredExactly
<1>1. FrameInit => LabelInv /\ SentInv /\ DeliveredExactly
  BY DEF FrameInit, LabelInv, SentInv, DeliveredExactly
<1>2. LabelInv /\ [FrameNext]_frame_vars => LabelInv'
  BY LabelStep
<1>3. SentInv /\ [FrameNext]_frame_vars => SentInv'
  BY SentStep
<1>4. LabelInv /\ SentInv /\ CorrectsWithinReach /\
        DeliveredExactly /\ [FrameNext]_frame_vars =>
        DeliveredExactly'
  BY DeliverStep
<1> QED
  BY <1>1, <1>2, <1>3, <1>4, PTL DEF FrameSpec
=============================================================================
