-------------------------- MODULE VlcDriverTxProofs --------------------------
(***************************************************************************)
(* Proofs about VlcDriverTx, for every set of buffers.                     *)
(***************************************************************************)
EXTENDS VlcDriverTx, Integers, TLAPS

\* The pool can be empty only while the device queue is stopped, or in the
\* window of vlc_get_tx_buffer between emptying it and stopping the queue.
\* Opening the interface again is the one thing that breaks this.
PoolInv ==
  reopened \/ /\ ppool = NULL => stopped \/ (pc = "stop" /\ head = NULL)
              /\ pc # "oops"

\* The buffers are linked into a pool that is not empty when the module is
\* loaded.
LEMMA TypeInit == Init => TypeOK
<1> SUFFICES ASSUME Init PROVE TypeOK
  OBVIOUS
<1>1. next \in [Buffers -> Pointer]
  <2>1. PICK rank \in [Buffers -> 1 .. Cardinality(Buffers)] :
          next = [b \in Buffers |->
                   IF \E c \in Buffers : rank[c] = rank[b] + 1
                   THEN CHOOSE c \in Buffers : rank[c] = rank[b] + 1
                   ELSE NULL]
    BY DEF Init
  <2>2. \A b \in Buffers :
          (IF \E c \in Buffers : rank[c] = rank[b] + 1
           THEN CHOOSE c \in Buffers : rank[c] = rank[b] + 1
           ELSE NULL) \in Pointer
    BY Zenon DEF Pointer
  <2> QED
    BY <2>1, <2>2, Zenon
<1> QED
  BY <1>1 DEF Init, TypeOK, Pointer

\* vlc_tx follows no null pointer and leaves every link in the driver a
\* pointer to one of its buffers.
LEMMA TypeStepTx == ASSUME TypeOK, vlc_tx PROVE TypeOK'
<1> USE DriverAssumption
<1>1. CASE GetLoad
  BY <1>1 DEF GetLoad, TypeOK, Pointer, Goto, links, locals, history
<1>2. CASE GetStore
  BY <1>2 DEF GetStore, TypeOK, Pointer, Goto, locals, history
<1>3. CASE GetStop
  BY <1>3 DEF GetStop, TypeOK, Pointer, Goto, links, history
<1>4. CASE Fill
  BY <1>4 DEF Fill, TypeOK, Pointer, Goto, locals, history
<1>5. CASE EnqueueLoad
  BY <1>5 DEF EnqueueLoad, TypeOK, Pointer, Goto, links, history
<1>6. CASE EnqueueFirst
  BY <1>6 DEF EnqueueFirst, TypeOK, Pointer, Goto, history
<1>7. CASE EnqueueWalk
  BY <1>7 DEF EnqueueWalk, TypeOK, Pointer, Goto, links, history
<1>8. CASE EnqueueLink
  BY <1>8 DEF EnqueueLink, TypeOK, Pointer, Goto, history
<1> QED
  BY <1>1, <1>2, <1>3, <1>4, <1>5, <1>6, <1>7, <1>8 DEF vlc_tx

LEMMA TypeStepTimer ==
  ASSUME TypeOK, NEW moved \in BOOLEAN, phy_timer_handler(moved)
  PROVE  TypeOK'
<1> USE DriverAssumption DEF phy_timer_handler, TypeOK, Pointer, locals
<1>1. CASE is_write_next /\ SendHead
  BY <1>1 DEF SendHead
<1>2. CASE is_write_next /\ SendDummy
  BY <1>2 DEF SendDummy, links
<1>3. CASE ~is_write_next
  BY <1>3 DEF links
<1> QED
  BY <1>1, <1>2, <1>3

LEMMA TypeStep == TypeOK /\ [Next]_vars => TypeOK'
<1> SUFFICES ASSUME TypeOK, [Next]_vars PROVE TypeOK'
  OBVIOUS
<1>1. CASE vlc_tx
  BY <1>1, TypeStepTx
<1>2. CASE \E moved \in BOOLEAN : phy_timer_handler(moved)
  BY <1>2, TypeStepTimer
<1>3. CASE vlc_open
  BY <1>3 DEF vlc_open, TypeOK, links, locals, history
<1>4. CASE UNCHANGED vars
  BY <1>4 DEF vars, TypeOK, links, locals, history
<1> QED
  BY <1>1, <1>2, <1>3, <1>4 DEF Next

\* Type correctness of the transmit driver, for any number of buffers: the
\* walk of vlc_enqueue_pkt in particular never leaves the buffers, although
\* the handler relinks them under it.
THEOREM DriverTypeCorrect == Spec => []TypeOK
<1> QED
  BY TypeInit, TypeStep, PTL DEF Spec

\* Every step of vlc_tx and of the handler keeps PoolInv while the interface
\* stays up.
LEMMA PoolInvStep == TypeOK /\ PoolInv /\ [Next]_vars => PoolInv'
<1> SUFFICES ASSUME TypeOK, PoolInv, [Next]_vars PROVE PoolInv'
  OBVIOUS
<1> USE DriverAssumption DEF PoolInv, TypeOK, Pointer
<1>1. CASE GetLoad
  BY <1>1 DEF GetLoad, Goto, links, locals, history
<1>2. CASE GetStore
  BY <1>2 DEF GetStore, Goto, locals, history
<1>3. CASE GetStop
  BY <1>3 DEF GetStop, Goto, links, history
<1>4. CASE Fill
  BY <1>4 DEF Fill, Goto, locals, history
<1>5. CASE EnqueueLoad
  BY <1>5 DEF EnqueueLoad, Goto, links, history
<1>6. CASE EnqueueFirst
  BY <1>6 DEF EnqueueFirst, Goto, history
<1>7. CASE EnqueueWalk
  BY <1>7 DEF EnqueueWalk, Goto, links, history
<1>8. CASE EnqueueLink
  BY <1>8 DEF EnqueueLink, Goto, history
<1>9. CASE \E moved \in BOOLEAN : phy_timer_handler(moved)
  BY <1>9 DEF phy_timer_handler, SendHead, SendDummy, links, locals
<1>10. CASE vlc_open
  BY <1>10 DEF vlc_open
<1>11. CASE UNCHANGED vars
  BY <1>11 DEF vars, links, locals, history
<1> QED
  BY <1>1, <1>2, <1>3, <1>4, <1>5, <1>6, <1>7, <1>8, <1>9, <1>10, <1>11
     DEF Next, vlc_tx

\* While the interface stays up, vlc_tx always finds a buffer in the pool,
\* whatever the pool size and wherever the timer preempts it.
THEOREM BufferAlwaysReady == Spec => []PoolReady
<1>1. Init => PoolInv
  BY DriverAssumption DEF Init, PoolInv
<1>2. PoolInv => PoolReady
  BY DEF PoolInv, PoolReady
<1> QED
  BY <1>1, <1>2, DriverTypeCorrect, PoolInvStep, PTL DEF Spec

\* And so taking the interface down and up is the only way to make vlc_tx
\* follow a null pool.
THEOREM NoFaultWhileUp == Spec => [](pc = "oops" => reopened)
<1>1. Init => PoolInv
  BY DriverAssumption DEF Init, PoolInv
<1>2. PoolInv => (pc = "oops" => reopened)
  BY DEF PoolInv
<1> QED
  BY <1>1, <1>2, DriverTypeCorrect, PoolInvStep, PTL DEF Spec

(***************************************************************************)
(* The two lists.                                                          *)
(***************************************************************************)

\* vlc_tx holds a buffer that is in neither list.
Holding == {"stop", "fill", "enqueue", "first", "walk", "link"}

\* Q holds tx_queue and P the pool, each closed under the links.  Packets are
\* numbered upwards along the links of Q, from latest on; rank falls along
\* those of P.  Buffers may be lost between the two: vlc_tx stores the pool it
\* loaded before the handler returned some.
Lists(Q, P, rank) ==
  /\ Q \cap P = {}
  /\ tx_queue \in Q \cup {NULL} /\ Closed(Q)
  /\ \A b \in Q : data[b] > latest /\ data[b] <= accepted
  /\ \A b \in Q : next[b] # NULL => data[next[b]] > data[b]
  /\ ppool \in P \cup {NULL} /\ Closed(P)
  /\ \A b \in P : next[b] # NULL => rank[next[b]] < rank[b]
  /\ pc = "store" => tmp_pkt \in P /\ head = next[tmp_pkt]
  /\ pc \in Holding => tmp_pkt \notin P \cup Q
  /\ pc \in Holding \cup {"store"} =>
       latest < accepted /\ \A b \in Q : data[b] < accepted
  /\ pc \in {"enqueue", "first", "walk", "link"} =>
       next[tmp_pkt] = NULL /\ data[tmp_pkt] = accepted
  /\ latest <= accepted

\* The inductive invariant.
ListInv ==
  \E Q, P \in SUBSET Buffers : \E rank \in [Buffers -> Int] : Lists(Q, P, rank)

\* vlc_setup_pool puts every buffer into the pool.
LEMMA ListInit == Init => ListInv
<1> SUFFICES ASSUME Init PROVE ListInv
  OBVIOUS
<1>1. PICK place \in [Buffers -> 1 .. Cardinality(Buffers)] :
        next = [b \in Buffers |->
                  IF \E c \in Buffers : place[c] = place[b] + 1
                  THEN CHOOSE c \in Buffers : place[c] = place[b] + 1
                  ELSE NULL]
  BY DEF Init
<1>2. \A b \in Buffers :
        next[b] = NULL \/ (next[b] \in Buffers /\ place[next[b]] = place[b] + 1)
  BY <1>1, Zenon
<1> DEFINE rank == [b \in Buffers |-> 0 - place[b]]
<1>3. \A b \in Buffers : place[b] \in Int
  BY SMT
<1>4. rank \in [Buffers -> Int]
  BY <1>3, SMT
<1>5. \A b \in Buffers : next[b] # NULL => rank[next[b]] < rank[b]
  BY <1>2, <1>3, SMT
<1> HIDE DEF rank
<1>6. Closed(Buffers) /\ Closed({})
  BY <1>2 DEF Closed
<1>7. Lists({}, Buffers, rank)
  BY <1>5, <1>6 DEF Init, Lists, Holding
<1> QED
  BY <1>4, <1>7, Zenon DEF ListInv

\* The handler moves the head of tx_queue to the pool.
LEMMA SendStep ==
  ASSUME TypeOK, NEW Q \in SUBSET Buffers, NEW P \in SUBSET Buffers,
         NEW rank \in [Buffers -> Int], Lists(Q, P, rank), SendHead,
         UNCHANGED <<data, pc, locals, accepted>>
  PROVE  ListInv' /\ data[tx_queue] > latest /\ data[tx_queue] <= accepted
<1>a. PICK x \in Buffers : x = tx_queue
  BY DEF SendHead, Lists
<1>b. PICK R \in SUBSET Buffers : R = {b \in Q : data[b] > data[x]}
  OBVIOUS
<1>c. PICK up \in Int : ppool # NULL => up = rank[ppool] + 1
  <2>1. CASE ppool = NULL
    <3>1. 0 \in Int
      OBVIOUS
    <3> QED
      BY <2>1, <3>1
  <2>2. CASE ppool # NULL
    <3>1. ppool \in Buffers
      BY <2>2 DEF Lists
    <3>2. rank[ppool] + 1 \in Int
      BY <3>1
    <3> QED
      BY <3>2
  <2> QED
    BY <2>1, <2>2
<1> DEFINE S == P \cup {x}
           new == [rank EXCEPT ![x] = up]
<1>1. /\ x \in Q /\ x \in Buffers /\ x \notin P /\ NULL \notin Buffers
      /\ data[x] > latest /\ data[x] <= accepted
  BY <1>a, DriverAssumption DEF SendHead, Lists
<1>2. /\ next \in [Buffers -> Pointer] /\ data \in [Buffers -> Nat]
      /\ accepted \in Nat /\ latest \in Nat
  BY DEF TypeOK
<1>3. /\ next' = [next EXCEPT ![x] = ppool] /\ tx_queue' = next[x]
      /\ ppool' = x /\ latest' = data[x] /\ data' = data /\ pc' = pc
      /\ tmp_pkt' = tmp_pkt /\ head' = head /\ accepted' = accepted
  BY <1>a DEF SendHead, locals
<1>4. /\ next'[x] = ppool /\ \A b \in Buffers : b # x => next'[b] = next[b]
  BY <1>1, <1>2, <1>3
<1>5. new \in [Buffers -> Int]
  OBVIOUS
<1>6. R \in SUBSET Buffers /\ S \in SUBSET Buffers /\ R \cap S = {} /\ x \notin R
  BY <1>b, <1>1, <1>2 DEF Lists
<1>7. tx_queue' \in R \cup {NULL}
  BY <1>b, <1>1, <1>3 DEF Lists, Closed
<1>8. Closed(R)'
  <2> SUFFICES ASSUME NEW b \in R PROVE next'[b] \in R \cup {NULL}
    BY DEF Closed
  <2>1. b \in Q /\ b # x /\ b \in Buffers /\ data[b] > data[x]
    BY <1>b, <1>2
  <2>2. next'[b] = next[b] /\ next[b] \in Q \cup {NULL}
    BY <1>4, <2>1 DEF Lists, Closed
  <2>3. CASE next[b] # NULL
    <3>1. data[next[b]] > data[b] /\ next[b] \in Buffers
      BY <2>1, <2>2, <2>3 DEF Lists
    <3>2. data[next[b]] > data[x]
      BY <1>1, <1>2, <2>1, <3>1
    <3> QED
      BY <1>b, <2>2, <2>3, <3>2
  <2> QED
    BY <2>2, <2>3
<1>9. ppool' \in S \cup {NULL} /\ Closed(S)'
  <2> SUFFICES ASSUME NEW b \in S PROVE next'[b] \in S \cup {NULL}
    BY <1>3 DEF Closed
  <2>1. CASE b = x
    BY <1>4, <2>1 DEF Lists
  <2>2. CASE b # x
    BY <1>4, <2>2 DEF Lists, Closed
  <2> QED
    BY <2>1, <2>2
<1>10. \A b \in S : next'[b] # NULL => new[next'[b]] < new[b]
  <2> SUFFICES ASSUME NEW b \in S, next'[b] # NULL
               PROVE  new[next'[b]] < new[b]
    OBVIOUS
  <2>1. CASE b = x
    <3>1. next'[b] = ppool /\ ppool \in P /\ ppool # x
      BY <1>1, <1>4, <2>1 DEF Lists
    <3>2. new[b] = rank[ppool] + 1 /\ new[ppool] = rank[ppool]
      BY <1>c, <1>1, <2>1, <3>1
    <3> QED
      BY <3>1, <3>2
  <2>2. CASE b # x
    <3>1. b \in P /\ next'[b] = next[b] /\ next[b] \in P /\ next[b] # x
      BY <1>1, <1>4, <2>2 DEF Lists, Closed
    <3>2. rank[next[b]] < rank[b]
      BY <3>1 DEF Lists
    <3>3. new[b] = rank[b] /\ new[next[b]] = rank[next[b]]
      BY <1>1, <2>2, <3>1
    <3> QED
      BY <3>1, <3>2, <3>3
  <2> QED
    BY <2>1, <2>2
<1>11. /\ \A b \in R : data'[b] > latest' /\ data'[b] <= accepted'
       /\ \A b \in R : next'[b] # NULL => data'[next'[b]] > data'[b]
  <2> SUFFICES ASSUME NEW b \in R
               PROVE  /\ data[b] > data[x] /\ data[b] <= accepted
                      /\ next'[b] # NULL => data[next'[b]] > data[b]
    BY <1>3
  <2>1. b \in Q /\ b # x /\ b \in Buffers /\ data[b] > data[x]
    BY <1>b, <1>2
  <2>2. next'[b] = next[b]
    BY <1>4, <2>1
  <2> QED
    BY <2>1, <2>2 DEF Lists
<1>12. pc' = "store" => tmp_pkt' \in S /\ head' = next'[tmp_pkt']
  BY <1>1, <1>3, <1>4 DEF Lists
<1>13. pc' \in Holding => tmp_pkt' \notin S \cup R
  BY <1>b, <1>1, <1>3 DEF Lists
<1>14. pc' \in Holding \cup {"store"} =>
         latest' < accepted' /\ \A b \in R : data'[b] < accepted'
  BY <1>b, <1>1, <1>3 DEF Lists
<1>15. pc' \in {"enqueue", "first", "walk", "link"} =>
         next'[tmp_pkt'] = NULL /\ data'[tmp_pkt'] = accepted'
  <2> SUFFICES ASSUME pc \in {"enqueue", "first", "walk", "link"}
               PROVE  next'[tmp_pkt] = NULL /\ data[tmp_pkt] = accepted
    BY <1>3
  <2>1. tmp_pkt \in Buffers /\ tmp_pkt # x
    BY <1>1 DEF Lists, Holding, TypeOK
  <2> QED
    BY <1>4, <2>1 DEF Lists
<1>16. latest' <= accepted'
  BY <1>1, <1>3
<1> HIDE DEF S, new
<1>17. Lists(R, S, new)'
  BY <1>6, <1>7, <1>8, <1>9, <1>10, <1>11, <1>12, <1>13, <1>14, <1>15, <1>16
     DEF Lists
<1> QED
  BY <1>a, <1>1, <1>5, <1>6, <1>17 DEF ListInv

\* vlc_tx links the packet behind last_pkt, in tx_queue, in the pool or in
\* neither.
LEMMA LinkStep ==
  ASSUME TypeOK, NEW Q \in SUBSET Buffers, NEW P \in SUBSET Buffers,
         NEW rank \in [Buffers -> Int], Lists(Q, P, rank), EnqueueLink
  PROVE  ListInv'
<1>a. PICK t \in Buffers, e \in Buffers : t = tmp_pkt /\ e = last_pkt
  BY DEF EnqueueLink, Goto, TypeOK
<1> DEFINE new == [rank EXCEPT ![t] = rank[e] - 1]
<1>1. /\ t \in Buffers /\ e \in Buffers /\ t \notin P \cup Q
      /\ NULL \notin Buffers /\ next[t] = NULL /\ data[t] = accepted
      /\ latest < accepted /\ \A b \in Q : data[b] < accepted
  BY <1>a, DriverAssumption DEF EnqueueLink, Goto, Lists, TypeOK, Holding
<1>2. /\ next \in [Buffers -> Pointer] /\ data \in [Buffers -> Nat]
      /\ accepted \in Nat /\ latest \in Nat
  BY DEF TypeOK
<1>3. /\ next' = [next EXCEPT ![e] = t] /\ tx_queue' = tx_queue
      /\ ppool' = ppool /\ latest' = latest /\ data' = data /\ pc' = "idle"
      /\ accepted' = accepted
  BY <1>a DEF EnqueueLink, Goto, history
<1>4. /\ next'[e] = t /\ \A b \in Buffers : b # e => next'[b] = next[b]
  BY <1>1, <1>2, <1>3
<1>5. CASE e \in Q
  <2>1. Lists(Q \cup {t}, P, rank)'
    <3>1. (Q \cup {t}) \cap P = {} /\ tx_queue' \in (Q \cup {t}) \cup {NULL}
      BY <1>1, <1>3 DEF Lists
    <3>2. Closed(Q \cup {t})'
      <4> SUFFICES ASSUME NEW b \in Q \cup {t}
                   PROVE  next'[b] \in (Q \cup {t}) \cup {NULL}
        BY DEF Closed
      <4> QED
        BY <1>1, <1>4 DEF Lists, Closed
    <3>3. \A b \in Q \cup {t} : data'[b] > latest' /\ data'[b] <= accepted'
      BY <1>1, <1>2, <1>3 DEF Lists
    <3>4. \A b \in Q \cup {t} : next'[b] # NULL => data'[next'[b]] > data'[b]
      <4> SUFFICES ASSUME NEW b \in Q \cup {t}, next'[b] # NULL
                   PROVE  data[next'[b]] > data[b]
        BY <1>3
      <4>1. CASE b = e
        BY <1>1, <1>2, <1>4, <1>5, <4>1
      <4>2. CASE b # e
        BY <1>1, <1>4, <4>2 DEF Lists
      <4> QED
        BY <4>1, <4>2
    <3>5. ppool' \in P \cup {NULL} /\ Closed(P)'
      BY <1>3, <1>4, <1>5 DEF Lists, Closed
    <3>6. \A b \in P : next'[b] # NULL => rank[next'[b]] < rank[b]
      BY <1>4, <1>5 DEF Lists
    <3> QED
      BY <1>1, <1>2, <1>3, <3>1, <3>2, <3>3, <3>4, <3>5, <3>6
         DEF Lists, Holding
  <2> QED
    BY <1>1, <2>1 DEF ListInv
<1>6. CASE e \in P
  <2>1. new \in [Buffers -> Int] /\ new[t] = rank[e] - 1
        /\ \A b \in Buffers : b # t => new[b] = rank[b]
    BY <1>1
  <2> HIDE DEF new
  <2>2. Lists(Q, P \cup {t}, new)'
    <3>1. Q \cap (P \cup {t}) = {} /\ ppool' \in (P \cup {t}) \cup {NULL}
      BY <1>1, <1>3 DEF Lists
    <3>2. Closed(P \cup {t})'
      <4> SUFFICES ASSUME NEW b \in P \cup {t}
                   PROVE  next'[b] \in (P \cup {t}) \cup {NULL}
        BY DEF Closed
      <4> QED
        BY <1>1, <1>4 DEF Lists, Closed
    <3>3. \A b \in P \cup {t} : next'[b] # NULL => new[next'[b]] < new[b]
      <4> SUFFICES ASSUME NEW b \in P \cup {t}, next'[b] # NULL
                   PROVE  new[next'[b]] < new[b]
        OBVIOUS
      <4>1. CASE b = e
        BY <1>1, <1>4, <1>6, <2>1, <4>1
      <4>2. CASE b # e
        <5>1. b \in P /\ next'[b] = next[b] /\ next[b] \in P
          BY <1>1, <1>4, <4>2 DEF Lists, Closed
        <5>2. rank[next[b]] < rank[b] /\ next[b] # t /\ b # t
          BY <1>1, <4>2, <5>1 DEF Lists
        <5> QED
          BY <2>1, <5>1, <5>2
      <4> QED
        BY <4>1, <4>2
    <3>4. tx_queue' \in Q \cup {NULL} /\ Closed(Q)'
      BY <1>3, <1>4, <1>6 DEF Lists, Closed
    <3>5. \A b \in Q : next'[b] # NULL => data'[next'[b]] > data'[b]
      BY <1>3, <1>4, <1>6 DEF Lists
    <3> QED
      BY <1>1, <1>2, <1>3, <3>1, <3>2, <3>3, <3>4, <3>5 DEF Lists, Holding
  <2> QED
    BY <1>1, <2>1, <2>2 DEF ListInv
<1>7. CASE e \notin Q \cup P
  <2>1. Closed(Q)' /\ Closed(P)'
    BY <1>4, <1>7 DEF Lists, Closed
  <2>2. Lists(Q, P, rank)'
    BY <1>1, <1>2, <1>3, <1>4, <1>7, <2>1 DEF Lists, Holding
  <2> QED
    BY <2>2 DEF ListInv
<1> QED
  BY <1>5, <1>6, <1>7

\* vlc_tx stores the pool it loaded: what the handler returned in between is
\* lost, and the buffer vlc_tx took is in neither list.
LEMMA StoreStep ==
  ASSUME TypeOK, NEW Q \in SUBSET Buffers, NEW P \in SUBSET Buffers,
         NEW rank \in [Buffers -> Int], Lists(Q, P, rank), GetStore
  PROVE  ListInv'
<1>a. PICK R \in SUBSET Buffers : R = {b \in P : rank[b] < rank[tmp_pkt]}
  OBVIOUS
<1>1. /\ tmp_pkt \in P /\ head = next[tmp_pkt] /\ ppool' = head
      /\ pc' = "stop" /\ UNCHANGED <<next, tx_queue, data, tmp_pkt, head>>
      /\ UNCHANGED <<accepted, latest>>
  BY DEF GetStore, Goto, Lists, locals, history
<1>2. \A b \in P : rank[b] \in Int
  OBVIOUS
<1>3. tmp_pkt \notin R /\ R \subseteq P
  BY <1>a, <1>1, <1>2
<1>4. ppool' \in R \cup {NULL}
  BY <1>a, <1>1 DEF Lists, Closed
<1>5. Closed(R)'
  <2> SUFFICES ASSUME NEW b \in R, next[b] # NULL PROVE next[b] \in R
    BY <1>1 DEF Closed
  <2>1. b \in P /\ next[b] \in P /\ rank[next[b]] < rank[b]
        /\ rank[b] < rank[tmp_pkt]
    BY <1>a DEF Lists, Closed
  <2> QED
    BY <1>a, <1>1, <1>2, <2>1
<1>6. Closed(Q)'
  BY <1>1 DEF Lists, Closed
<1>7. tmp_pkt \notin R \cup Q
  BY <1>1, <1>3 DEF Lists
<1>8. Lists(Q, R, rank)'
  <2>1. /\ Q \cap R = {} /\ tx_queue' \in Q \cup {NULL}
        /\ \A b \in Q : next'[b] # NULL => data'[next'[b]] > data'[b]
        /\ \A b \in R : next'[b] # NULL => rank[next'[b]] < rank[b]
    BY <1>1, <1>3 DEF Lists
  <2>2. /\ latest' < accepted' /\ latest' <= accepted'
        /\ \A b \in Q : data'[b] > latest' /\ data'[b] <= accepted'
        /\ \A b \in Q : data'[b] < accepted'
    BY <1>1 DEF Lists, GetStore, Goto
  <2> QED
    BY <1>1, <1>4, <1>5, <1>6, <1>7, <2>1, <2>2 DEF Lists, Holding
<1> QED
  BY <1>3, <1>8 DEF ListInv

\* Every step of vlc_tx and of the handler keeps ListInv.
LEMMA ListStep == TypeOK /\ ListInv /\ [Next]_vars => ListInv'
<1> SUFFICES ASSUME TypeOK, ListInv, [Next]_vars PROVE ListInv'
  OBVIOUS
<1>0. PICK Q \in SUBSET Buffers, P \in SUBSET Buffers,
           rank \in [Buffers -> Int] : Lists(Q, P, rank)
  BY DEF ListInv
<1>1. CASE GetLoad
  <2>1. UNCHANGED <<next, ppool, tx_queue, data, latest>>
        /\ accepted' = accepted + 1
    BY <1>1 DEF GetLoad, links
  <2>2. \/ pc' = "oops"
        \/ pc' = "store" /\ tmp_pkt' \in P /\ head' = next[tmp_pkt']
    BY <1>0, <1>1 DEF GetLoad, Goto, Lists
  <2>3. accepted \in Nat /\ latest \in Nat /\ data \in [Buffers -> Nat]
    BY DEF TypeOK
  <2>4. /\ Closed(Q)' /\ Closed(P)'
        /\ \A b \in Q : data[b] > latest /\ data[b] <= accepted'
        /\ latest < accepted' /\ \A b \in Q : data[b] < accepted'
        /\ latest <= accepted'
    BY <1>0, <2>1, <2>3 DEF Closed, Lists
  <2>5. Lists(Q, P, rank)'
    BY <1>0, <2>1, <2>2, <2>4 DEF Lists, Holding
  <2> QED
    BY <2>5 DEF ListInv
<1>2. CASE GetStore
  BY <1>0, <1>2, StoreStep
<1>3. CASE GetStop
  <2>1. Lists(Q, P, rank)'
    BY <1>0, <1>3 DEF GetStop, Goto, links, history, Lists, Closed, Holding
  <2> QED
    BY <2>1 DEF ListInv
<1>4. CASE Fill
  <2>1. tmp_pkt \in Buffers /\ tmp_pkt \notin P \cup Q
    BY <1>0, <1>4 DEF Fill, Goto, TypeOK, Lists, Holding
  <2>2. /\ \A b \in P \cup Q : next'[b] = next[b] /\ data'[b] = data[b]
        /\ next'[tmp_pkt] = NULL /\ data'[tmp_pkt] = accepted
    BY <1>4, <2>1 DEF Fill, TypeOK
  <2>3. /\ UNCHANGED <<ppool, tx_queue, tmp_pkt, head, accepted, latest>>
        /\ pc = "fill" /\ pc' = "enqueue"
    BY <1>4 DEF Fill, Goto, locals, history
  <2>4. Closed(Q)' /\ Closed(P)'
    BY <1>0, <2>2 DEF Lists, Closed
  <2>5. Lists(Q, P, rank)'
    <3>1. \A b \in Q : next[b] # NULL => next[b] \in Q
      BY <1>0 DEF Lists, Closed
    <3>2. \A b \in P : next[b] # NULL => next[b] \in P
      BY <1>0 DEF Lists, Closed
    <3> QED
      BY <1>0, <2>1, <2>2, <2>3, <2>4, <3>1, <3>2 DEF Lists, Holding
  <2> QED
    BY <2>5 DEF ListInv
<1>5. CASE EnqueueLoad \/ EnqueueWalk
  <2>1. Lists(Q, P, rank)'
    BY <1>0, <1>5
       DEF EnqueueLoad, EnqueueWalk, Goto, links, history, Lists, Closed,
           Holding
  <2> QED
    BY <2>1 DEF ListInv
<1>6. CASE EnqueueFirst
  <2>1. /\ tmp_pkt \in Buffers /\ tmp_pkt \notin P /\ next[tmp_pkt] = NULL
        /\ data[tmp_pkt] = accepted /\ latest < accepted /\ accepted \in Nat
        /\ latest \in Nat
    BY <1>0, <1>6 DEF EnqueueFirst, Goto, TypeOK, Lists, Holding
  <2>2. /\ UNCHANGED <<next, ppool, data, accepted, latest>>
        /\ tx_queue' = tmp_pkt /\ pc' = "idle"
    BY <1>6 DEF EnqueueFirst, Goto, history
  <2>a. PICK T \in SUBSET Buffers : T = {tmp_pkt}
    BY <2>1
  <2>3. Closed(T)' /\ Closed(P)'
    BY <1>0, <2>a, <2>1, <2>2 DEF Closed, Lists
  <2>4. T \in SUBSET Buffers /\ \A b \in T : b = tmp_pkt
    BY <2>a
  <2>5. T \cap P = {} /\ tx_queue' \in T \cup {NULL} /\ Closed(T)'
    BY <2>a, <2>1, <2>2, <2>3
  <2>6. Lists(T, P, rank)'
    BY <1>0, <2>1, <2>2, <2>3, <2>4, <2>5 DEF Lists, Holding
  <2> QED
    BY <2>4, <2>6 DEF ListInv
<1>7. CASE EnqueueLink
  BY <1>0, <1>7, LinkStep
<1>8. CASE \E moved \in BOOLEAN : phy_timer_handler(moved)
  <2>1. CASE SendHead
    BY <1>0, <1>8, <2>1, SendStep DEF phy_timer_handler
  <2>2. CASE ~SendHead
    <3>1. UNCHANGED <<links, data, pc, locals, accepted, latest>>
      BY <1>8, <2>2 DEF phy_timer_handler, SendDummy
    <3>2. Lists(Q, P, rank)'
      BY <1>0, <3>1 DEF links, locals, Lists, Closed
    <3> QED
      BY <3>2 DEF ListInv
  <2> QED
    BY <2>1, <2>2
<1>9. CASE vlc_open \/ UNCHANGED vars
  <2>1. UNCHANGED <<links, data, pc, locals, accepted, latest>>
    BY <1>9 DEF vlc_open, vars, history
  <2>2. Lists(Q, P, rank)'
    BY <1>0, <2>1 DEF links, locals, Lists, Closed
  <2> QED
    BY <2>2 DEF ListInv
<1> QED
  BY <1>1, <1>2, <1>3, <1>4, <1>5, <1>6, <1>7, <1>8, <1>9 DEF Next, vlc_tx

\* For any number of buffers and wherever the timer preempts vlc_tx: no buffer
\* is free and queued at once, although buffers can be lost and packets can
\* end up in the pool.
THEOREM ListsStayDisjoint == Spec => []ListsDisjoint
<1>1. ListInv => ListsDisjoint
  <2> SUFFICES ASSUME ListInv PROVE ListsDisjoint
    OBVIOUS
  <2>1. PICK Q \in SUBSET Buffers, P \in SUBSET Buffers,
             rank \in [Buffers -> Int] : Lists(Q, P, rank)
    BY DEF ListInv
  <2>2. Chain(tx_queue) \subseteq Q /\ Chain(ppool) \subseteq P
    BY <2>1 DEF Lists, Chain
  <2> QED
    BY <2>1, <2>2 DEF Lists, ListsDisjoint
<1> QED
  BY <1>1, TypeInit, TypeStep, ListInit, ListStep, PTL DEF Spec

\* The driver implements LossyLink, for any number of buffers: packets reach
\* the PRU in the order in which the stack handed them over, none twice and
\* none that was not handed over.
THEOREM DriverIsLossyLink == Spec => IsLossyLink
<1>1. Init => Link!Init
  BY DEF Init, Link!Init
<1>2. TypeOK /\ ListInv /\ [Next]_vars =>
        [Link!Next]_<<accepted, written, latest>>
  <2> SUFFICES ASSUME TypeOK, ListInv, [Next]_vars
               PROVE  \/ Link!Next
                      \/ UNCHANGED <<accepted, written, latest>>
    OBVIOUS
  <2>1. CASE GetLoad
    BY <2>1 DEF GetLoad, Link!Next, Link!Accept
  <2>2. CASE vlc_tx /\ ~GetLoad
    BY <2>2 DEF vlc_tx, GetStore, GetStop, Fill, EnqueueLoad, EnqueueFirst,
       EnqueueWalk, EnqueueLink, history
  <2>3. CASE \E moved \in BOOLEAN : phy_timer_handler(moved)
    <3>1. CASE SendHead
      <4>1. PICK Q \in SUBSET Buffers, P \in SUBSET Buffers,
                 rank \in [Buffers -> Int] : Lists(Q, P, rank)
        BY DEF ListInv
      <4>2. data[tx_queue] > latest /\ data[tx_queue] <= accepted
        BY <2>3, <3>1, <4>1, SendStep DEF phy_timer_handler
      <4>3. /\ latest' = data[tx_queue] /\ written' = written + 1
            /\ accepted' = accepted
        BY <2>3, <3>1 DEF SendHead, phy_timer_handler
      <4>4. data[tx_queue] \in Nat /\ latest \in Nat /\ accepted \in Nat
        BY <3>1 DEF SendHead, TypeOK, Pointer
      <4> QED
        BY <4>2, <4>3, <4>4 DEF Link!Next, Link!Deliver
    <3>2. CASE ~SendHead
      BY <2>3, <3>2 DEF phy_timer_handler, SendDummy
    <3> QED
      BY <3>1, <3>2
  <2>4. CASE vlc_open \/ UNCHANGED vars
    BY <2>4 DEF vlc_open, vars, history
  <2> QED
    BY <2>1, <2>2, <2>3, <2>4 DEF Next
<1> QED
  BY <1>1, <1>2, TypeInit, TypeStep, ListInit, ListStep, PTL
     DEF Spec, IsLossyLink, Link!Spec
=============================================================================
