---------------------------- MODULE RxRingProofs ----------------------------
(***************************************************************************)
(* Proofs about RxRing, for every length of a frame and every size of a    *)
(* ring that holds a whole number of frames: the driver always copies the  *)
(* next frame, whole, the two indices implement the counter of             *)
(* RingChannel, and no frame is measured twice.  The slots of the ring are *)
(* handled as in TxRingProofs.                                             *)
(***************************************************************************)
EXTENDS RxRing, TLAPS

L == PruLength

\* The slots of the ring are 0 .. K - 1, and At(i) is where slot i starts.
K == RingSize \div L

At(i) == FIRST + i * L

\* The slot n places behind slot r.
Slot(r, n) == IF r + n < K THEN r + n ELSE r + n - K

\* Multiples of a length.
LEMMA Multiples ==
  ASSUME NEW x \in Nat, NEW l \in Nat, l > 0, x % l = 0
  PROVE  x \div l \in Nat /\ x = (x \div l) * l
OBVIOUS

\* The next multiple.
LEMMA NextMultiple ==
  ASSUME NEW i \in Nat, NEW l \in Nat
  PROVE  i * l \in Nat /\ (i + 1) * l = i * l + l
OBVIOUS

\* Two multiples are at least the length apart.
LEMMA MultiplesApart ==
  ASSUME NEW i \in Nat, NEW j \in Nat, NEW l \in Nat, i < j
  PROVE  i * l + l <= j * l
OBVIOUS

\* A remainder of something smaller than the divisor, or than twice that.
LEMMA Remainder ==
  ASSUME NEW s \in Nat, s > 0, NEW x \in 0 .. s - 1
  PROVE  x % s = x /\ (s + x) % s = x
OBVIOUS

\* A multiple divided by the length.
LEMMA Quotient ==
  ASSUME NEW d \in Nat, NEW l \in Nat, l > 0
  PROVE  (d * l) \div l = d
OBVIOUS

\* Where the slots lie: one behind the other up to BUFFER_LIMIT.
LEMMA Slots ==
  /\ L \in Nat /\ L > 0 /\ K \in Nat /\ K > 0
  /\ At(0) = FIRST /\ At(K) = BUFFER_LIMIT
  /\ \A i \in 0 .. K : At(i) \in Nat
  /\ \A i \in 0 .. K - 1 : At(i + 1) = At(i) + L
  /\ \A i, j \in 0 .. K : i < j => At(i) + L <= At(j)
<1>1. L \in Nat /\ L > 0
  BY RxAssumption DEF L, PruLength, DATA_LENGTH_BYTE
<1>2. RingSize \in Nat /\ RingSize > 0 /\ FIRST \in Nat
  <2>1. PruLength \in Nat
    BY RxAssumption DEF PruLength, DATA_LENGTH_BYTE
  <2> QED
    BY <2>1, RxAssumption DEF RingSize, FIRST
<1>3. K \in Nat /\ RingSize = K * L
  BY <1>1, <1>2, Multiples, RxAssumption DEF K, L
<1>4. K > 0
  <2>1. K = 0 => RingSize = 0
    BY <1>1, <1>3
  <2> QED
    BY <1>2, <1>3, <2>1
<1>5. At(0) = FIRST
  BY <1>1, <1>2 DEF At
<1>6. At(K) = BUFFER_LIMIT
  BY <1>2, <1>3, RxAssumption DEF At, RingSize
<1>7. ASSUME NEW i \in 0 .. K PROVE At(i) \in Nat
  BY <1>1, <1>2, <1>3, NextMultiple DEF At
<1>8. ASSUME NEW i \in 0 .. K - 1 PROVE At(i + 1) = At(i) + L
  <2>1. i \in Nat
    BY <1>3
  <2>2. i * L \in Nat /\ (i + 1) * L = i * L + L
    BY <1>1, <2>1, NextMultiple
  <2> HIDE DEF L
  <2> QED
    BY <1>1, <1>2, <2>2 DEF At
<1>9. ASSUME NEW i \in 0 .. K, NEW j \in 0 .. K, i < j
      PROVE  At(i) + L <= At(j)
  <2>1. i \in Nat /\ j \in Nat
    BY <1>3
  <2>2. i * L \in Nat /\ j * L \in Nat /\ i * L + L <= j * L
    BY <1>1, <1>9, <2>1, NextMultiple, MultiplesApart
  <2> QED
    BY <1>1, <1>2, <2>2 DEF At
<1> QED
  BY <1>1, <1>3, <1>4, <1>5, <1>6, <1>7, <1>8, <1>9

\* The indices tell how many slots they are apart.
LEMMA Distance ==
  ASSUME NEW r \in 0 .. K - 1, NEW n \in 0 .. K - 1
  PROVE  ((At(Slot(r, n)) + RingSize - At(r)) % RingSize) \div L = n
<1>1. L \in Nat /\ L > 0 /\ K \in Nat /\ K > 0
  BY Slots
<1>2. RingSize \in Nat /\ RingSize > 0 /\ FIRST \in Nat
  <2>1. PruLength \in Nat
    BY RxAssumption DEF PruLength, DATA_LENGTH_BYTE
  <2> QED
    BY <2>1, RxAssumption DEF RingSize, FIRST
<1>3. RingSize = K * L
  BY <1>1, <1>2, Multiples, RxAssumption DEF K, L
<1>4. r \in Nat /\ n \in Nat /\ n < K
  BY <1>1
<1>5. n * L \in Nat /\ n * L + L <= K * L
  BY <1>1, <1>4, NextMultiple, MultiplesApart
<1>6. n * L \in 0 .. RingSize - 1
  BY <1>1, <1>3, <1>5
<1>7. \/ At(Slot(r, n)) + RingSize - At(r) = n * L
      \/ At(Slot(r, n)) + RingSize - At(r) = RingSize + n * L
  <2>1. CASE r + n < K
    <3>1. (r + n) * L = r * L + n * L /\ r * L \in Nat
      BY <1>1, <1>4
    <3> QED
      BY <1>1, <1>2, <1>5, <2>1, <3>1 DEF Slot, At
  <2>2. CASE ~(r + n < K)
    <3>1. (r + n - K) * L = r * L + n * L - K * L /\ r * L \in Nat
      BY <1>1, <1>4
    <3> QED
      BY <1>1, <1>2, <1>3, <1>5, <2>2, <3>1 DEF Slot, At
  <2> QED
    BY <2>1, <2>2
<1>8. (At(Slot(r, n)) + RingSize - At(r)) % RingSize = n * L
  BY <1>2, <1>6, <1>7, Remainder
<1> QED
  BY <1>1, <1>4, <1>8, Quotient

\* Going on by one slot, the driver's way and the PRU's.
LEMMA Advance ==
  ASSUME NEW r \in 0 .. K - 1
  PROVE  /\ Slot(r, 1) \in 0 .. K - 1
         /\ Wrapped(At(r) + DriverLength) = At(Slot(r, 1))
         /\ FIRST + ((At(r) - FIRST + PruLength) % RingSize) = At(Slot(r, 1))
<1>1. /\ K \in Nat /\ K > 0 /\ L \in Nat /\ L > 0
      /\ At(0) = FIRST /\ At(K) = BUFFER_LIMIT
      /\ At(r + 1) = At(r) + L
      /\ r + 1 < K => At(r + 1) + L <= At(K)
      /\ At(r + 1) \in Nat /\ At(K) \in Nat /\ At(r) \in Nat
  <2>1. r + 1 \in 0 .. K /\ K \in 0 .. K /\ r \in 0 .. K
    BY Slots
  <2> QED
    BY <2>1, Slots
<1>2. DriverLength = L
  BY RxAssumption DEF L, DriverLength, PruLength, DATA_LENGTH_BYTE
<1>3. RingSize \in Nat /\ RingSize > 0 /\ FIRST \in Nat
  <2>1. PruLength \in Nat
    BY RxAssumption DEF PruLength, DATA_LENGTH_BYTE
  <2> QED
    BY <2>1, RxAssumption DEF RingSize, FIRST
<1>4. At(r) - FIRST + PruLength = At(r + 1) - FIRST
  BY <1>1, <1>3 DEF L
<1>5. RingSize = At(K) - FIRST
  BY <1>1 DEF RingSize
<1> HIDE DEF At
<1>6. CASE r + 1 < K
  <2>1. Slot(r, 1) = r + 1
    BY <1>1, <1>6 DEF Slot
  <2>2. At(r + 1) - FIRST \in 0 .. RingSize - 1
    <3>1. At(r) >= FIRST
      BY Slots, <1>1 DEF At
    <3> QED
      BY <1>1, <1>3, <1>5, <1>6, <3>1
  <2>3. (At(r + 1) - FIRST) % RingSize = At(r + 1) - FIRST
    BY <1>3, <2>2, Remainder
  <2>4. FIRST + ((At(r) - FIRST + PruLength) % RingSize) = At(r + 1)
    BY <1>1, <1>3, <1>4, <2>3
  <2>5. Wrapped(At(r) + L) = At(r + 1)
    BY <1>1, <1>6 DEF Wrapped
  <2> QED
    BY <1>1, <1>2, <1>6, <2>1, <2>4, <2>5
<1>7. CASE r + 1 = K
  <2>1. Slot(r, 1) = 0
    BY <1>1, <1>7 DEF Slot
  <2>2. (RingSize + 0) % RingSize = 0 /\ RingSize + 0 = RingSize
    BY <1>3, Remainder
  <2>3. FIRST + ((At(r) - FIRST + PruLength) % RingSize) = At(0)
    <3>1. At(r) - FIRST + PruLength = RingSize
      BY <1>4, <1>5, <1>7
    <3> QED
      BY <1>1, <1>3, <2>2, <3>1
  <2>4. Wrapped(At(r) + L) = At(0)
    BY <1>1, <1>7 DEF Wrapped
  <2> QED
    BY <1>1, <1>2, <2>1, <2>3, <2>4
<1> QED
  BY <1>1, <1>6, <1>7

\* The frames in memory: in slots, numbered, and from slot r on the oldest of
\* those the driver is not done with.
Stored(r) ==
  /\ \A p \in mem : p.n \in Nat /\ \E i \in 0 .. K - 1 : p.at = At(i)
  /\ \A m \in 1 .. frames : [n |-> m, at |-> At(Slot(r, m - 1))] \in mem

\* The ring when slot r is read next and n frames are published.
RingAt(r, n) ==
  /\ mem_read_idx = At(r) /\ mem_write_idx = At(Slot(r, n))
  /\ pru \in {"hunt", "body", "final", "publish"}
  /\ driver \in {"read", "write", "copy", "store"}
  /\ frames = IF pru \in {"hunt", "body"} THEN n ELSE n + 1
  /\ pru = "body" =>
       /\ r20 = At(Slot(r, n))
       /\ \A p \in mem : p.at # At(Slot(r, n))
  /\ pru \in {"final", "publish"} => r20 = At(Slot(r, n + 1))
  /\ pru = "publish" => n + 1 < K
  /\ driver # "read" => read_idx = mem_read_idx
  /\ driver \in {"copy", "store"} => n > 0
  /\ Stored(r)

\* The inductive invariant: the indices stand at slots.
RingInv == \E r, n \in 0 .. K - 1 : RingAt(r, n)

\* Two slots overlap if and only if they are the same.
LEMMA OverlapsSame ==
  ASSUME NEW i \in 0 .. K - 1, NEW j \in 0 .. K - 1, NEW p, p.at = At(j)
  PROVE  Overlaps(At(i), p) <=> i = j
<1>1. K \in Nat /\ L \in Nat /\ L > 0 /\ i \in 0 .. K /\ j \in 0 .. K
  BY Slots
<1>2. /\ At(i) \in Nat /\ At(j) \in Nat
      /\ i < j => At(i) + L <= At(j)
      /\ j < i => At(j) + L <= At(i)
  BY <1>1, Slots
<1> HIDE DEF At
<1> QED
  BY <1>1, <1>2 DEF Overlaps, L

\* The PRU starts to write into a slot that holds no frame left to copy.
LEMMA StartStep ==
  ASSUME NEW r \in 0 .. K - 1, NEW n \in 0 .. K - 1, RingAt(r, n),
         PROCESS_LENGTH
  PROVE  RingAt(r, n)'
<1> DEFINE w == Slot(r, n)
<1>1. K \in Nat /\ K > 0 /\ r \in Nat /\ n \in Nat
  BY Slots
<1>2. w \in 0 .. K - 1
  BY <1>1 DEF Slot
<1>3. /\ frames = n /\ frames' = n /\ mem_write_idx = At(w) /\ r20' = At(w)
      /\ mem' = {p \in mem : ~Overlaps(At(w), p)}
  BY DEF RingAt, PROCESS_LENGTH
<1>4. \A m \in 1 .. n : [n |-> m, at |-> At(Slot(r, m - 1))] \in mem'
  <2> SUFFICES ASSUME NEW m \in 1 .. n
               PROVE  [n |-> m, at |-> At(Slot(r, m - 1))] \in mem'
    OBVIOUS
  <2>1. Slot(r, m - 1) \in 0 .. K - 1 /\ Slot(r, m - 1) # w
    BY <1>1 DEF Slot
  <2>2. [n |-> m, at |-> At(Slot(r, m - 1))] \in mem
    BY <1>3 DEF RingAt, Stored
  <2>3. ~Overlaps(At(w), [n |-> m, at |-> At(Slot(r, m - 1))])
    BY <1>2, <2>1, OverlapsSame
  <2> QED
    BY <1>3, <2>2, <2>3
<1>5. \A p \in mem' : p.n \in Nat /\ \E i \in 0 .. K - 1 : p.at = At(i)
  BY <1>3 DEF RingAt, Stored
<1>6. \A p \in mem' : p.at # At(w)
  BY <1>2, <1>3, OverlapsSame
<1>7. Stored(r)'
  BY <1>3, <1>4, <1>5 DEF Stored
<1> QED
  BY <1>3, <1>6, <1>7 DEF RingAt, PROCESS_LENGTH, decoding

\* It has written the frame.
LEMMA BodyStep ==
  ASSUME NEW r \in 0 .. K - 1, NEW n \in 0 .. K - 1, RingAt(r, n), BODY
  PROVE  RingAt(r, n)'
<1> DEFINE w == Slot(r, n)
<1>1. K \in Nat /\ K > 0 /\ r \in Nat /\ n \in Nat
  BY Slots
<1>2. w \in 0 .. K - 1
  BY <1>1 DEF Slot
<1>3. /\ frames = n /\ frames' = n + 1 /\ r20 = At(w)
      /\ mem' = mem \cup {[n |-> n + 1, at |-> At(w)]}
  BY DEF RingAt, BODY
<1>4. [n |-> n + 1, at |-> At(Slot(r, (n + 1) - 1))] \in mem'
  <2>1. (n + 1) - 1 = n
    BY <1>1
  <2> QED
    BY <1>3, <2>1
<1>5. \A m \in 1 .. n + 1 : [n |-> m, at |-> At(Slot(r, m - 1))] \in mem'
  <2> SUFFICES ASSUME NEW m \in 1 .. n + 1
               PROVE  [n |-> m, at |-> At(Slot(r, m - 1))] \in mem'
    OBVIOUS
  <2>1. m \in 1 .. n \/ m = n + 1
    BY <1>1
  <2>2. m \in 1 .. n => [n |-> m, at |-> At(Slot(r, m - 1))] \in mem
    BY <1>3 DEF RingAt, Stored
  <2> QED
    BY <1>3, <1>4, <2>1, <2>2
<1>6. \A p \in mem' : p.n \in Nat /\ \E i \in 0 .. K - 1 : p.at = At(i)
  BY <1>1, <1>2, <1>3 DEF RingAt, Stored
<1>7. Stored(r)'
  BY <1>3, <1>5, <1>6 DEF Stored
<1>8. r20' = At(Slot(r, n + 1))
  <2>1. Slot(w, 1) = Slot(r, n + 1)
    BY <1>1 DEF Slot
  <2> QED
    BY <1>2, <1>3, <2>1, Advance DEF BODY
<1> QED
  BY <1>3, <1>7, <1>8 DEF RingAt, BODY, decoding

\* The driver is done with the frame of slot r; the next one is behind it.
LEMMA StoreStep ==
  ASSUME NEW r \in 0 .. K - 1, NEW n \in 0 .. K - 1, RingAt(r, n), Store
  PROVE  n > 0 /\ Slot(r, 1) \in 0 .. K - 1 /\ RingAt(Slot(r, 1), n - 1)'
<1> DEFINE s == Slot(r, 1)
<1>1. K \in Nat /\ K > 0 /\ r \in Nat /\ n \in Nat
  BY Slots
<1>2. n > 0 /\ read_idx = At(r) /\ mem_read_idx = At(r)
  BY DEF RingAt, Store
<1>3. s \in 0 .. K - 1 /\ mem_read_idx' = At(s)
  BY <1>2, Advance DEF Store
<1>4. \A m \in Nat : m <= K - 1 => Slot(s, m) = Slot(r, m + 1)
  BY <1>1 DEF Slot
<1>5. frames \in Nat /\ frames > 0 /\ frames' = frames - 1 /\ frames <= K
  BY <1>1, <1>2 DEF RingAt, Store, Renumber, OneLess
<1>6. \A m \in 1 .. frames - 1 :
        [n |-> m, at |-> At(Slot(s, m - 1))] \in mem'
  <2> SUFFICES ASSUME NEW m \in 1 .. frames - 1
               PROVE  [n |-> m, at |-> At(Slot(s, m - 1))] \in mem'
    OBVIOUS
  <2> DEFINE p == [n |-> m + 1, at |-> At(Slot(r, (m + 1) - 1))]
  <2>1. m \in Nat /\ m + 1 \in 1 .. frames /\ (m + 1) - 1 = m
        /\ m - 1 \in Nat /\ m - 1 <= K - 1 /\ (m - 1) + 1 = m
    BY <1>1, <1>5
  <2>2. p \in mem
    BY <2>1 DEF RingAt, Stored
  <2>3. OneLess(p.n) = m
    BY <2>1 DEF OneLess
  <2>4. p.at = At(Slot(s, m - 1))
    BY <1>4, <2>1
  <2>5. [n |-> OneLess(p.n), at |-> p.at] \in mem'
    BY <2>2 DEF Store, Renumber
  <2> QED
    BY <2>3, <2>4, <2>5
<1>7. \A p \in mem' : p.n \in Nat /\ \E q \in mem : p.at = q.at
  BY DEF Store, Renumber, RingAt, Stored, OneLess
<1>8. Stored(s)'
  BY <1>5, <1>6, <1>7 DEF Stored, RingAt
<1>9. /\ mem_write_idx' = At(Slot(s, n - 1))
      /\ Slot(s, n - 1) = Slot(r, n)
      /\ Slot(s, (n - 1) + 1) = Slot(r, n + 1)
  <2>1. n - 1 \in Nat /\ n - 1 <= K - 1 /\ n \in Nat /\ n <= K - 1
        /\ (n - 1) + 1 = n
    BY <1>1, <1>2
  <2> QED
    BY <1>4, <2>1 DEF RingAt, Store
<1>10. /\ UNCHANGED <<pru, r20>> /\ driver' = "read"
       /\ frames' = IF pru \in {"hunt", "body"} THEN n - 1 ELSE (n - 1) + 1
       /\ pru = "publish" => (n - 1) + 1 < K
  BY <1>1, <1>2, <1>5 DEF RingAt, Store, firmware
<1>11. pru = "body" => \A p \in mem' : p.at # At(Slot(r, n))
  BY <1>7 DEF RingAt
<1> QED
  BY <1>2, <1>3, <1>8, <1>9, <1>10, <1>11 DEF RingAt

\* Publishing keeps one slot free.
LEMMA PublishStep ==
  ASSUME NEW r \in 0 .. K - 1, NEW n \in 0 .. K - 1, RingAt(r, n),
         STORE_WRITE_IDX
  PROVE  n + 1 < K /\ RingAt(r, n + 1)'
<1>1. K \in Nat /\ n \in Nat /\ n + 1 < K
  BY Slots DEF RingAt, STORE_WRITE_IDX
<1>2. Stored(r)'
  BY DEF RingAt, Stored, STORE_WRITE_IDX
<1> QED
  BY <1>1, <1>2 DEF RingAt, STORE_WRITE_IDX, decoding

\* The other steps move no index.
LEMMA OtherStep ==
  ASSUME NEW r \in 0 .. K - 1, NEW n \in 0 .. K - 1, RingAt(r, n),
         \/ FINAL \/ LoadRead \/ LoadWrite \/ Deliver \/ receive_vlc
         \/ vlc_quality_measurement \/ UNCHANGED vars
  PROVE  RingAt(r, n)'
<1>1. K \in Nat /\ K > 0 /\ r \in Nat /\ n \in Nat
  BY Slots
<1>2. UNCHANGED <<mem, mem_write_idx, mem_read_idx, frames, r20>>
  BY DEF FINAL, LoadRead, LoadWrite, Deliver, receive_vlc, firmware, ring,
     vlc_quality_measurement, MeasureSample, MeasureReset, vars
<1>3. Stored(r)'
  BY <1>2 DEF RingAt, Stored
<1>4. CASE FINAL
  <2>1. n + 1 = K => Slot(r, n + 1) = r
    BY <1>1 DEF Slot
  <2>2. n + 1 < K
    BY <1>1, <1>4, <2>1 DEF RingAt, FINAL
  <2> QED
    BY <1>2, <1>3, <1>4, <2>2 DEF RingAt, FINAL, decoding
<1>5. CASE LoadRead
  BY <1>2, <1>3, <1>5 DEF RingAt, LoadRead, firmware
<1>6. CASE LoadWrite
  <2>1. Slot(r, 0) = r
    BY <1>1 DEF Slot
  <2>2. mem_write_idx # read_idx => n > 0
    BY <1>1, <1>6, <2>1 DEF RingAt, LoadWrite
  <2> QED
    BY <1>2, <1>3, <1>6, <2>2 DEF RingAt, LoadWrite, firmware
<1>7. CASE Deliver
  BY <1>2, <1>3, <1>7 DEF RingAt, Deliver, firmware
<1>8. CASE receive_vlc \/ vlc_quality_measurement \/ UNCHANGED vars
  BY <1>2, <1>3, <1>8
     DEF RingAt, receive_vlc, vlc_quality_measurement, MeasureSample,
         MeasureReset, vars, firmware, decoding
<1> QED
  BY <1>4, <1>5, <1>6, <1>7, <1>8

\* The ring starts empty.
LEMMA RingInit == ASSUME Init PROVE RingAt(0, 0) /\ 0 \in 0 .. K - 1
<1>1. K \in Nat /\ K > 0 /\ At(0) = FIRST /\ Slot(0, 0) = 0
  BY Slots DEF Slot
<1>2. Stored(0)
  BY DEF Init, Stored
<1> QED
  BY <1>1, <1>2 DEF Init, RingAt

\* Every step keeps the invariant.
LEMMA RingStep == ASSUME RingInv, [Next]_vars PROVE RingInv'
<1>1. PICK r \in 0 .. K - 1, n \in 0 .. K - 1 : RingAt(r, n)
  BY DEF RingInv
<1>2. CASE PROCESS_LENGTH \/ BODY
  BY <1>1, <1>2, StartStep, BodyStep DEF RingInv
<1>3. CASE Store
  <2>1. n - 1 \in 0 .. K - 1
    BY <1>1, <1>3, StoreStep, Slots
  <2> QED
    BY <1>1, <1>3, <2>1, StoreStep DEF RingInv
<1>4. CASE STORE_WRITE_IDX
  <2>1. n + 1 \in 0 .. K - 1
    BY <1>1, <1>4, PublishStep, Slots
  <2> QED
    BY <1>1, <1>4, <2>1, PublishStep DEF RingInv
<1>5. CASE \/ FINAL \/ LoadRead \/ LoadWrite \/ Deliver \/ receive_vlc
           \/ vlc_quality_measurement \/ UNCHANGED vars
  BY <1>1, <1>5, OtherStep DEF RingInv
<1> QED
  BY <1>2, <1>3, <1>4, <1>5 DEF Next, RXPRU, pru_phy_decoding

\* For every ring of whole frames: the driver never starts in the middle of a
\* frame, repeats or skips one, or has one overwritten while it copies.
THEOREM AlwaysNextFrame == Spec => []CopiesNextFrame
<1>1. Init => RingInv
  BY RingInit DEF RingInv
<1>2. RingInv /\ [Next]_vars => RingInv'
  BY RingStep
<1>3. RingInv => CopiesNextFrame
  <2> SUFFICES ASSUME RingInv, driver = "copy"
               PROVE  [n |-> 1, at |-> read_idx] \in mem
    BY DEF CopiesNextFrame
  <2>1. PICK r \in 0 .. K - 1, n \in 0 .. K - 1 : RingAt(r, n)
    BY DEF RingInv
  <2>2. K \in Nat /\ Slot(r, 1 - 1) = r
    BY Slots DEF Slot
  <2>3. 1 \in 1 .. frames /\ read_idx = At(r)
    BY <2>1, <2>2 DEF RingAt
  <2> QED
    BY <2>1, <2>2, <2>3 DEF RingAt, Stored
<1> QED
  BY <1>1, <1>2, <1>3, PTL DEF Spec

\* The number of published frames, as the two indices tell it.
Pending ==
  ((mem_write_idx + RingSize - mem_read_idx) % RingSize) \div PruLength

\* It is the n of the invariant.
LEMMA PendingIs ==
  ASSUME NEW r \in 0 .. K - 1, NEW n \in 0 .. K - 1,
         mem_read_idx = At(r), mem_write_idx = At(Slot(r, n))
  PROVE  Pending = n
BY Distance DEF Pending, L

\* For every ring of whole frames: the offsets implement a counter of
\* published frames, which the PRU raises and the driver lowers by one, and
\* which stays below the number of slots.
THEOREM RingRefines == Spec => RingIsChannel
<1>1. Init => RingInv /\ Pending = 0
  BY RingInit, PendingIs DEF RingInv, RingAt
<1>2. RingInv /\ [Next]_vars => RingInv'
  BY RingStep
<1>3. RingInv /\ [Next]_vars =>
        \/ Pending < K - 1 /\ Pending' = Pending + 1
        \/ Pending > 0 /\ Pending' = Pending - 1
        \/ Pending' = Pending
  <2> SUFFICES ASSUME RingInv, [Next]_vars
               PROVE  \/ Pending < K - 1 /\ Pending' = Pending + 1
                      \/ Pending > 0 /\ Pending' = Pending - 1
                      \/ Pending' = Pending
    OBVIOUS
  <2>1. PICK r \in 0 .. K - 1, n \in 0 .. K - 1 : RingAt(r, n)
    BY DEF RingInv
  <2>2. Pending = n /\ n \in Nat /\ K \in Nat
    BY <2>1, PendingIs, Slots DEF RingAt
  <2>3. ASSUME NEW q \in 0 .. K - 1, NEW m \in 0 .. K - 1, RingAt(q, m)'
        PROVE  Pending' = m
    <3>1. mem_read_idx' = At(q) /\ mem_write_idx' = At(Slot(q, m))
      BY <2>3 DEF RingAt
    <3> QED
      BY <3>1, Distance DEF Pending, L
  <2>4. CASE Store
    <3>1. /\ n > 0 /\ Slot(r, 1) \in 0 .. K - 1 /\ n - 1 \in 0 .. K - 1
          /\ RingAt(Slot(r, 1), n - 1)'
      BY <2>1, <2>2, <2>4, StoreStep
    <3> QED
      BY <2>2, <2>3, <3>1
  <2>5. CASE STORE_WRITE_IDX
    <3>1. n + 1 \in 0 .. K - 1 /\ RingAt(r, n + 1)'
      BY <2>1, <2>2, <2>5, PublishStep
    <3> QED
      BY <2>2, <2>3, <3>1
  <2>6. CASE \/ PROCESS_LENGTH \/ BODY \/ FINAL \/ LoadRead \/ LoadWrite
             \/ Deliver \/ receive_vlc \/ vlc_quality_measurement
             \/ UNCHANGED vars
    <3>1. RingAt(r, n)'
      BY <2>1, <2>6, StartStep, BodyStep, OtherStep
    <3> QED
      BY <2>2, <2>3, <3>1
  <2> QED
    BY <2>4, <2>5, <2>6 DEF Next, RXPRU, pru_phy_decoding
<1>4. Pending = 0 => Channel!Init
  BY DEF Pending, Channel!Init
<1>5. \/ Pending < K - 1 /\ Pending' = Pending + 1
      \/ Pending > 0 /\ Pending' = Pending - 1
      \/ Pending' = Pending
      => [Channel!Next]_Pending
  BY DEF Pending, K, L, Channel!Next, Channel!Publish, Channel!Take
<1> QED
  BY <1>1, <1>2, <1>3, <1>4, <1>5, PTL
     DEF Spec, RingIsChannel, Channel!Spec, Pending

\* However receive_vlc and vlc_quality_measurement interleave, the latter
\* never averages the same frame in twice.
THEOREM MeasuredOnce == Spec => []SampleFresh
<1>1. Init => SampleFresh
  BY DEF Init, SampleFresh
<1>2. SampleFresh /\ [Next]_vars => SampleFresh'
  <2> SUFFICES ASSUME SampleFresh, [Next]_vars PROVE SampleFresh'
    OBVIOUS
  <2>1. CASE receive_vlc
    BY <2>1 DEF receive_vlc, SampleFresh
  <2>2. CASE vlc_quality_measurement
    BY <2>2
       DEF vlc_quality_measurement, MeasureSample, MeasureReset, SampleFresh
  <2>3. CASE UNCHANGED quality
    BY <2>3 DEF quality, SampleFresh
  <2> QED
    BY <2>1, <2>2, <2>3
       DEF Next, RXPRU, PROCESS_LENGTH, BODY, FINAL, STORE_WRITE_IDX,
           pru_phy_decoding, LoadRead, LoadWrite, Deliver, Store, vars
<1> QED
  BY <1>1, <1>2, PTL DEF Spec
=============================================================================
