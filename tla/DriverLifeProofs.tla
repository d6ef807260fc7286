-------------------------- MODULE DriverLifeProofs --------------------------
(***************************************************************************)
(* Proofs about loading and unloading the drivers, module DriverLife: what *)
(* the worker has, what the cleanup releases, and that it releases nothing *)
(* twice, with the exceptions that the properties state.                   *)
(*                                                                         *)
(* The invariant says, for every place of init_module and cleanup_module,  *)
(* what is held there.  It has four parts: Stages, about what there is     *)
(* once, which needs nothing but itself; PoolInv, about the buffers of the *)
(* pool; Freed and WorkerInv, which rest on the first two.                 *)
(*                                                                         *)
(* The last part is about proc_write: the entry under /proc holds what one *)
(* process wrote, whole.                                                   *)
(***************************************************************************)
EXTENDS DriverLife, TLAPS, SequenceTheorems, WellFoundedInduction

\* Places of init_module up to ioremap, and those where nothing has been
\* released.
Early   == {"alloc_netdev", "register", "proc", "ioremap"}
Loading == Early \cup {"spare", "init_rs", "start", "timer_start", "refused",
                       "oops"}

\* The places behind those where a release stands, by driver.
DeviceGone  == {"unmap", "free_rs", "stop", "wait", "gone"}
PacketsGone == DeviceGone \cup {"unregister", "free_netdev"}
PoolGone    == PacketsGone \cup {"packets"}
TablesGone  == IF driver = "rx" THEN {"stop", "wait", "gone"}
               ELSE {"stop", "unmap", "gone"}
UnmapDone   == IF driver = "rx" THEN {"free_rs", "stop", "wait", "gone"}
               ELSE {"gone"}

Places == Loading \cup PoolGone \cup {"out", "loaded", "cleanup", "teardown"}

\* The types.
LifeType ==
  /\ driver \in {"rx", "tx"} /\ at \in Places
  /\ live \in [Resources -> BOOLEAN] /\ frees \in [Resources -> Nat]
  /\ worker \in {"none", "ready", "running", "oops"}
  /\ where \in [PoolBuffers ->
                  {"none", "pool", "queue", "vlc_tx", "lost", "freed"}]
  /\ tx_pkt \in {"pkt"} \cup PoolBuffers /\ late \subseteq PoolBuffers

\* What is held at each place.
Stages ==
  /\ at \in Loading => \A x \in Resources : frees[x] = 0
  /\ at = "alloc_netdev" => \A x \in Resources : ~live[x]
  /\ at \in Early \cup {"init_rs"} \/ (at = "spare" /\ driver = "tx") =>
       \A x \in AllTables : ~live[x]
  /\ at \in {"register", "proc", "ioremap", "spare", "init_rs", "start",
             "timer_start", "teardown", "packets", "unregister",
             "free_netdev"} => live["dev"]
  /\ at \in {"spare", "init_rs", "start", "timer_start"} => live["pru0"]
  /\ at \in {"start", "timer_start"} \/ (at = "spare" /\ driver = "rx") =>
       \A x \in AllTables : live[x]
  /\ at \in {"start", "timer_start"} \/ (at = "init_rs" /\ driver = "tx") =>
       live["spare"]
  /\ at \in {"out", "loaded", "cleanup"} =>
       \/ live["dev"]
       \/ \A x \in {"pkt", "spare", "reg"} \cup PoolBuffers : ~live[x]
  /\ at \in {"timer_start", "refused"} => driver = "tx"
  /\ at = "wait" => driver = "rx"
  /\ at \in PacketsGone => /\ ~live["spare"]
                           /\ live["pkt"] => driver = "tx" /\ tx_pkt # "pkt"
  /\ at \in {"free_netdev"} \cup DeviceGone => ~live["reg"]
  /\ at \in DeviceGone => ~live["dev"]
  /\ at \in TablesGone => \A x \in AllTables : ~live[x]
  /\ at \in UnmapDone => ~live["proc"] /\ ~live["pru0"]

\* Where a buffer is says whether it may be held: behind the drain, outside the
\* pool only if vlc_tx had it or if it dropped out of the lists.
PoolInv ==
  /\ \A b \in PoolBuffers : live[b] => where[b] \notin {"none", "freed"}
  /\ driver = "rx" =>
       /\ late = {}
       /\ \A b \in PoolBuffers : where[b] \in {"none", "pool", "freed"}
  /\ at = "teardown" =>
       \A b \in PoolBuffers :
         live[b] => where[b] \in {"pool", "lost"} \/ b \in late
  /\ at \in PoolGone =>
       \A b \in PoolBuffers : live[b] => where[b] = "lost" \/ b \in late
  /\ at \notin PacketsGone =>
       \A b \in PoolBuffers : /\ frees[b] <= 1
                              /\ where[b] # "freed" => frees[b] = 0

\* What has been released is not held; only the transmitter's tx_pkt, when it
\* points into the pool, is released a second time.
Freed ==
  /\ \A x \in Single : live[x] => frees[x] = 0
  /\ at \notin PacketsGone => frees["pkt"] = 0 /\ frees["spare"] = 0
  /\ FreedOnce

\* The worker exists between its start, with everything there, and its stop.
WorkerInv ==
  /\ at \in Loading \ {"timer_start", "refused"} => worker = "none"
  /\ at = "timer_start" => worker = "ready"
  /\ at = "refused" => worker \in {"none", "ready"}
  /\ worker = "running" /\ ~Cleaning =>
       /\ at \in {"out", "loaded"}
       /\ \A x \in {"dev", "spare", "pru0"} \cup AllTables : live[x]
  /\ worker = "oops" =>
       driver = "rx" /\ (Cleaning \/ at = "gone" \/ Null("pkt"))
  /\ driver = "tx" /\ worker = "running" => live["pru0"]
  /\ driver = "tx" /\ at \in {"unmap", "gone"} => worker = "none"
  /\ driver = "rx" /\ at = "gone" => worker \in {"none", "oops"}

\* The four allocations of rs_init.
LEMMA TablesAre == AllTables = {"rs", "alpha_to", "index_of", "genpoly"}
<1>1. DOMAIN Tables = 1 .. 4
  BY DEF Tables
<1>2. /\ Tables[1] = "rs" /\ Tables[2] = "alpha_to"
      /\ Tables[3] = "index_of" /\ Tables[4] = "genpoly"
  BY DEF Tables
<1>3. \A i \in 1 .. 4 : i = 1 \/ i = 2 \/ i = 3 \/ i = 4
  OBVIOUS
<1> QED
  BY <1>1, <1>2, <1>3 DEF AllTables

\* No buffer of the pool is one of the allocations that there are once.
LEMMA BuffersApart ==
  /\ \A b \in PoolBuffers :
       /\ b \notin {"dev", "pkt", "spare", "reg", "proc", "pru0"}
       /\ b \notin AllTables /\ b \in Resources
  /\ AllTables \subseteq Single /\ Single \subseteq Resources
  /\ {"dev", "pkt", "spare", "reg", "proc", "pru0"} \subseteq Single
BY LifeAssumption, TablesAre DEF Single, Resources

\* proc_write touches nothing that loading and unloading is about.
LEMMA WritesApart ==
  ASSUME proc_write \/ UNCHANGED vars
  PROVE  UNCHANGED <<driver, at, ret, live, frees, worker, where, tx_pkt, late>>
BY DEF proc_write, proc_call, proc_char, proc_store, vars, lists

\* What a release does to a resource, and to the others.
LEMMA Released ==
  ASSUME LifeType, NEW xs, Release(xs)
  PROVE  /\ live' \in [Resources -> BOOLEAN] /\ frees' \in [Resources -> Nat]
         /\ \A x \in Resources : x \in xs => ~live'[x] /\ frees'[x] = frees[x] + 1
         /\ \A x \in Resources :
              x \notin xs => (live'[x] <=> live[x]) /\ frees'[x] = frees[x]
<1>1. frees \in [Resources -> Nat]
  BY DEF LifeType
<1>2. /\ frees' \in [Resources -> Nat]
      /\ \A x \in Resources :
           frees'[x] = frees[x] + IF x \in xs THEN 1 ELSE 0
  BY <1>1 DEF Release
<1>3. live' = [x \in Resources |-> live[x] /\ x \notin xs]
  BY DEF Release
<1>4. live' \in [Resources -> BOOLEAN]
  BY <1>3, Zenon
<1>5. \A x \in Resources : live'[x] <=> live[x] /\ x \notin xs
  BY <1>3, Zenon
<1> QED
  BY <1>1, <1>2, <1>4, <1>5

\* What the error path of rs_init releases: tables only, and each once.
LEMMA FailureFrees ==
  ASSUME LifeType, NEW n \in 0 .. Len(Tables) - 1, rs_init_fails(n)
  PROVE  /\ live' = live /\ frees' \in [Resources -> Nat]
         /\ \A x \in Resources : \/ frees'[x] = frees[x]
                                 \/ x \in AllTables /\ frees'[x] = frees[x] + 1
<1>1. live' = live /\ frees' \in [Resources -> Nat]
  BY DEF rs_init_fails, LifeType
<1>2. ASSUME NEW x \in Resources
      PROVE  \/ frees'[x] = frees[x]
             \/ x \in AllTables /\ frees'[x] = frees[x] + 1
  <2>1. /\ frees[x] \in Nat
        /\ frees'[x] = frees[x]
                         + IF \E i \in 1 .. n : x = Tables[i] THEN 1 ELSE 0
    BY DEF rs_init_fails, LifeType
  <2>2. CASE \E i \in 1 .. n : x = Tables[i]
    <3>1. x \in AllTables
      BY <2>2 DEF AllTables, Tables
    <3> QED
      BY <2>1, <2>2, <3>1
  <2>3. CASE ~\E i \in 1 .. n : x = Tables[i]
    BY <2>1, <2>3
  <2> QED
    BY <2>2, <2>3
<1> QED
  BY <1>1, <1>2

\* The types hold in every step.
LEMMA LifeTypeStep ==
  LifeType /\ [Next]_vars => LifeType'
<1> SUFFICES ASSUME LifeType, [Next]_vars
             PROVE  LifeType'
  OBVIOUS
<1> USE BuffersApart DEF LifeType, Places, Loading, PoolGone, PacketsGone, Early,
                         DeviceGone, lists
<1>1. CASE alloc_netdev
  BY <1>1 DEF alloc_netdev, Goto, Acquire
<1>2. CASE register_netdev
  BY <1>2 DEF register_netdev, Goto, Acquire
<1>3. CASE create_proc
  BY <1>3 DEF create_proc, Goto, Acquire
<1>4. CASE ioremap
  BY <1>4 DEF ioremap, Goto, Acquire, AfterMap
<1>5. CASE init_packet
  BY <1>5 DEF init_packet, Goto, AfterPacket, Null
<1>6. CASE init_rs
  <2>1. CASE at' = AfterRs /\ Acquire(AllTables) /\ UNCHANGED frees
    BY <1>6, <2>1 DEF init_rs, Goto, Acquire, AfterRs
  <2>2. CASE \E n \in 0 .. Len(Tables) - 1 : rs_init_fails(n) /\ at' = "out"
    <3>1. PICK n \in 0 .. Len(Tables) - 1 : rs_init_fails(n) /\ at' = "out"
      BY <2>2
    <3>2. /\ live' = live /\ frees' \in [Resources -> Nat]
          /\ \A x \in Resources : \/ frees'[x] = frees[x]
                                  \/ x \in AllTables /\ frees'[x] = frees[x] + 1
      <4> HIDE DEF LifeType
      <4> QED
        BY <3>1, FailureFrees
    <3>3. /\ at = "init_rs"
          /\ UNCHANGED <<driver, worker, where, tx_pkt, late>>
      BY <1>6 DEF init_rs, Goto
    <3> QED
      BY <3>1, <3>2, <3>3
  <2> QED
    BY <1>6, <2>1, <2>2 DEF init_rs, Goto
<1>7. CASE kthread_run
  BY <1>7 DEF kthread_run, Goto
<1>8. CASE rtdm_timer_init
  BY <1>8 DEF rtdm_timer_init
<1>9. CASE rtdm_timer_start
  BY <1>9 DEF rtdm_timer_start
<1>10. CASE out
  BY <1>10 DEF out, Goto
<1>11. CASE rmmod
  BY <1>11 DEF rmmod, Goto
<1>12. ASSUME NEW b \in PoolBuffers, vlc_release_buffer(b) PROVE LifeType'
  BY <1>12 DEF vlc_release_buffer, Goto
<1>13. CASE DrainEnd
  BY <1>13 DEF DrainEnd, Goto, AfterDevice, In
<1>14. ASSUME NEW b \in PoolBuffers, vlc_teardown_pool(b) PROVE LifeType'
  BY <1>14 DEF vlc_teardown_pool, Goto, Release
<1>15. CASE TeardownEnd
  BY <1>15 DEF TeardownEnd, Goto, In
<1>16. CASE free_packets
  BY <1>16 DEF free_packets, Goto, Release, Packets, Null
<1>17. CASE unregister_netdev
  BY <1>17 DEF unregister_netdev, Goto, Release, Present
<1>18. CASE free_netdev
  BY <1>18 DEF free_netdev, Goto, Release, AfterDevice
<1>19. CASE unmap
  BY <1>19 DEF unmap, Goto, Release, Present, AfterUnmap
<1>20. CASE free_rs
  BY <1>20 DEF free_rs, Goto, Release, Present
<1>21. CASE kthread_stop
  BY <1>21 DEF kthread_stop, Goto, AfterStop
<1>22. CASE rtdm_timer_destroy
  BY <1>22 DEF rtdm_timer_destroy, Goto, AfterStop
<1>23. CASE FrameArrives
  BY <1>23 DEF FrameArrives
<1>24. CASE pru_phy_decoding
  BY <1>24 DEF pru_phy_decoding, Null
<1>25. CASE phy_timer_handler
  BY <1>25 DEF phy_timer_handler, In
<1>26. ASSUME NEW b \in PoolBuffers, vlc_get_tx_buffer(b) PROVE LifeType'
  BY <1>26 DEF vlc_get_tx_buffer, In
<1>27. ASSUME NEW b \in PoolBuffers, vlc_enqueue_pkt(b) PROVE LifeType'
  BY <1>27 DEF vlc_enqueue_pkt, In
<1>28. CASE proc_write \/ UNCHANGED vars
  BY <1>28, WritesApart
<1> QED
  BY <1>1, <1>2, <1>3, <1>4, <1>5, <1>6, <1>7, <1>8, <1>9, <1>10, <1>11,
     <1>12, <1>13, <1>14, <1>15, <1>16, <1>17, <1>18, <1>19, <1>20, <1>21,
     <1>22, <1>23, <1>24, <1>25, <1>26, <1>27, <1>28 DEF Next, init_module,
     cleanup_module, vlc_tx

\* Every call of init_module and cleanup_module leaves what the next place
\* expects.
LEMMA StagesStep ==
  LifeType /\ Stages /\ [Next]_vars => Stages'
<1> SUFFICES ASSUME LifeType, Stages, [Next]_vars
             PROVE  Stages'
  OBVIOUS
<1> USE TablesAre, BuffersApart
    DEF LifeType, Stages, Places, Loading, PoolGone, PacketsGone, Early,
        DeviceGone, TablesGone, UnmapDone, lists
<1>1. CASE alloc_netdev
  <2>1. at = "alloc_netdev" /\ UNCHANGED <<driver, frees, worker, tx_pkt>>
    BY <1>1 DEF alloc_netdev, Goto
  <2>2. CASE at' = "out" /\ UNCHANGED live
    BY <2>1, <2>2
  <2>3. CASE /\ at' = "register"
             /\ \E made \in SUBSET {"pkt", "spare"}, pool \in SUBSET PoolBuffers :
                  Acquire({"dev"} \cup made \cup pool)
    <3>1. live'["dev"] /\ \A x \in AllTables : ~live'[x]
      BY <2>1, <2>3 DEF Acquire
    <3> QED
      BY <2>1, <2>3, <3>1
  <2> QED
    BY <1>1, <2>2, <2>3 DEF alloc_netdev, Goto
<1>2. CASE register_netdev
  BY <1>2 DEF register_netdev, Goto, Acquire
<1>3. CASE create_proc
  BY <1>3 DEF create_proc, Goto, Acquire
<1>4. CASE ioremap
  BY <1>4 DEF ioremap, Goto, Acquire, AfterMap
<1>5. CASE init_packet
  BY <1>5 DEF init_packet, Goto, AfterPacket, Null
<1>6. CASE init_rs
  BY <1>6 DEF init_rs, Goto, Acquire, rs_init_fails, AfterRs
<1>7. CASE kthread_run
  BY <1>7 DEF kthread_run, Goto
<1>8. CASE rtdm_timer_init
  BY <1>8 DEF rtdm_timer_init
<1>9. CASE rtdm_timer_start
  BY <1>9 DEF rtdm_timer_start
<1>10. CASE out
  BY <1>10 DEF out, Goto
<1>11. CASE rmmod
  BY <1>11 DEF rmmod, Goto
<1>12. ASSUME NEW b \in PoolBuffers, vlc_release_buffer(b) PROVE Stages'
  BY <1>12 DEF vlc_release_buffer, Goto
<1>13. CASE DrainEnd
  BY <1>13 DEF DrainEnd, Goto, AfterDevice, In
<1>14. ASSUME NEW b \in PoolBuffers, vlc_teardown_pool(b) PROVE Stages'
  BY <1>14 DEF vlc_teardown_pool, Goto, Release
<1>15. CASE TeardownEnd
  BY <1>15 DEF TeardownEnd, Goto, In
<1>16. CASE free_packets
  BY <1>16 DEF free_packets, Goto, Release, Packets, Null
<1>17. CASE unregister_netdev
  BY <1>17 DEF unregister_netdev, Goto, Release, Present
<1>18. CASE free_netdev
  BY <1>18 DEF free_netdev, Goto, Release, AfterDevice
<1>19. CASE unmap
  BY <1>19 DEF unmap, Goto, Release, Present, AfterUnmap
<1>20. CASE free_rs
  BY <1>20 DEF free_rs, Goto, Release, Present
<1>21. CASE kthread_stop
  BY <1>21 DEF kthread_stop, Goto, AfterStop
<1>22. CASE rtdm_timer_destroy
  BY <1>22 DEF rtdm_timer_destroy, Goto, AfterStop
<1>23. CASE FrameArrives
  BY <1>23 DEF FrameArrives
<1>24. CASE pru_phy_decoding
  BY <1>24 DEF pru_phy_decoding, Null
<1>25. CASE phy_timer_handler
  BY <1>25 DEF phy_timer_handler, In
<1>26. ASSUME NEW b \in PoolBuffers, vlc_get_tx_buffer(b) PROVE Stages'
  BY <1>26 DEF vlc_get_tx_buffer, In
<1>27. ASSUME NEW b \in PoolBuffers, vlc_enqueue_pkt(b) PROVE Stages'
  BY <1>27 DEF vlc_enqueue_pkt, In
<1>28. CASE proc_write \/ UNCHANGED vars
  BY <1>28, WritesApart
<1> QED
  BY <1>1, <1>2, <1>3, <1>4, <1>5, <1>6, <1>7, <1>8, <1>9, <1>10, <1>11,
     <1>12, <1>13, <1>14, <1>15, <1>16, <1>17, <1>18, <1>19, <1>20, <1>21,
     <1>22, <1>23, <1>24, <1>25, <1>26, <1>27, <1>28 DEF Next, init_module,
     cleanup_module, vlc_tx

\* A buffer leaves the pool for vlc_tx, for a list or for kfree, and what is
\* held of it says which.
LEMMA PoolStep ==
  LifeType /\ Stages /\ PoolInv /\ [Next]_vars => PoolInv'
<1> SUFFICES ASSUME LifeType, Stages, PoolInv, [Next]_vars
             PROVE  PoolInv'
  OBVIOUS
<1> USE TablesAre, BuffersApart
    DEF LifeType, Stages, PoolInv, Places, Loading, PoolGone, PacketsGone, Early,
        DeviceGone, lists
<1>1. CASE alloc_netdev
  <2>1. CASE at' = "out" /\ UNCHANGED <<live, where>>
    BY <1>1, <2>1 DEF alloc_netdev, Goto
  <2>2. CASE \E made \in SUBSET {"pkt", "spare"}, pool \in SUBSET PoolBuffers :
               /\ Acquire({"dev"} \cup made \cup pool)
               /\ where' = [b \in PoolBuffers |->
                              IF b \in pool THEN "pool" ELSE "none"]
               /\ at' = "register"
    <3>1. PICK made \in SUBSET {"pkt", "spare"}, pool \in SUBSET PoolBuffers :
               /\ Acquire({"dev"} \cup made \cup pool)
               /\ where' = [b \in PoolBuffers |->
                              IF b \in pool THEN "pool" ELSE "none"]
               /\ at' = "register"
      BY <2>2
    <3>2. \A b \in PoolBuffers : live'[b] => where'[b] = "pool"
      BY <1>1, <3>1 DEF alloc_netdev, Goto, Acquire
    <3> QED
      BY <1>1, <3>1, <3>2 DEF alloc_netdev, Goto
  <2> QED
    BY <1>1, <2>1, <2>2 DEF alloc_netdev, Goto
<1>2. CASE register_netdev
  <2>1. /\ at = "register" /\ at' = "proc"
        /\ UNCHANGED <<driver, frees, where, late>>
    BY <1>2 DEF register_netdev, Goto
  <2>2. \A b \in PoolBuffers : live'[b] <=> live[b]
    BY <1>2 DEF register_netdev, Acquire
  <2> QED
    BY <2>1, <2>2
<1>3. CASE create_proc
  BY <1>3 DEF create_proc, Goto, Acquire
<1>4. CASE ioremap
  BY <1>4 DEF ioremap, Goto, Acquire, AfterMap
<1>5. CASE init_packet
  BY <1>5 DEF init_packet, Goto, AfterPacket, Null
<1>6. CASE init_rs
  <2>1. CASE at' = AfterRs /\ Acquire(AllTables) /\ UNCHANGED frees
    BY <1>6, <2>1 DEF init_rs, Goto, Acquire, AfterRs
  <2>2. CASE \E n \in 0 .. Len(Tables) - 1 : rs_init_fails(n) /\ at' = "out"
    <3>1. PICK n \in 0 .. Len(Tables) - 1 : rs_init_fails(n) /\ at' = "out"
      BY <2>2
    <3>2. /\ live' = live /\ frees' \in [Resources -> Nat]
          /\ \A x \in Resources : \/ frees'[x] = frees[x]
                                  \/ x \in AllTables /\ frees'[x] = frees[x] + 1
      <4> HIDE DEF LifeType, Stages, PoolInv
      <4> QED
        BY <3>1, FailureFrees
    <3>3. /\ at = "init_rs"
          /\ UNCHANGED <<driver, worker, where, tx_pkt, late>>
      BY <1>6 DEF init_rs, Goto
    <3> QED
      BY <3>1, <3>2, <3>3
  <2> QED
    BY <1>6, <2>1, <2>2 DEF init_rs, Goto
<1>7. CASE kthread_run
  BY <1>7 DEF kthread_run, Goto
<1>8. CASE rtdm_timer_init
  BY <1>8 DEF rtdm_timer_init
<1>9. CASE rtdm_timer_start
  BY <1>9 DEF rtdm_timer_start
<1>10. CASE out
  BY <1>10 DEF out, Goto
<1>11. CASE rmmod
  BY <1>11 DEF rmmod, Goto
<1>12. ASSUME NEW b \in PoolBuffers, vlc_release_buffer(b) PROVE PoolInv'
  BY <1>12 DEF vlc_release_buffer, Goto
<1>13. CASE DrainEnd
  BY <1>13 DEF DrainEnd, Goto, AfterDevice, In
<1>14. ASSUME NEW b \in PoolBuffers, vlc_teardown_pool(b) PROVE PoolInv'
  <2>1. /\ at = "teardown" /\ at' = "teardown" /\ where[b] = "pool"
        /\ where' = [where EXCEPT ![b] = "freed"] /\ Release({b})
        /\ UNCHANGED <<driver, worker, tx_pkt, late>>
    BY <1>14 DEF vlc_teardown_pool, Goto
  <2>2. /\ live' \in [Resources -> BOOLEAN] /\ frees' \in [Resources -> Nat]
        /\ ~live'[b] /\ frees'[b] = frees[b] + 1
        /\ \A x \in Resources :
             x # b => (live'[x] <=> live[x]) /\ frees'[x] = frees[x]
    <3> HIDE DEF LifeType, Stages, PoolInv
    <3>1. b \in Resources
      BY BuffersApart
    <3> QED
      BY <2>1, <3>1, Released
  <2>3. /\ b \in Resources /\ frees[b] = 0 /\ frees'[b] = 1
        /\ where'[b] = "freed"
        /\ \A c \in PoolBuffers : c # b => where'[c] = where[c]
    BY <2>1, <2>2
  <2> QED
    BY <2>1, <2>2, <2>3
<1>15. CASE TeardownEnd
  BY <1>15 DEF TeardownEnd, Goto, In
<1>16. CASE free_packets
  BY <1>16 DEF free_packets, Goto, Release, Packets, Null
<1>17. CASE unregister_netdev
  BY <1>17 DEF unregister_netdev, Goto, Release, Present
<1>18. CASE free_netdev
  BY <1>18 DEF free_netdev, Goto, Release, AfterDevice
<1>19. CASE unmap
  BY <1>19 DEF unmap, Goto, Release, Present, AfterUnmap
<1>20. CASE free_rs
  BY <1>20 DEF free_rs, Goto, Release, Present
<1>21. CASE kthread_stop
  BY <1>21 DEF kthread_stop, Goto, AfterStop
<1>22. CASE rtdm_timer_destroy
  BY <1>22 DEF rtdm_timer_destroy, Goto, AfterStop
<1>23. CASE FrameArrives
  BY <1>23 DEF FrameArrives
<1>24. CASE pru_phy_decoding
  BY <1>24 DEF pru_phy_decoding, Null
<1>25. CASE phy_timer_handler
  BY <1>25 DEF phy_timer_handler, In
<1>26. ASSUME NEW b \in PoolBuffers, vlc_get_tx_buffer(b) PROVE PoolInv'
  BY <1>26 DEF vlc_get_tx_buffer, In
<1>27. ASSUME NEW b \in PoolBuffers, vlc_enqueue_pkt(b) PROVE PoolInv'
  BY <1>27 DEF vlc_enqueue_pkt, In
<1>28. CASE proc_write \/ UNCHANGED vars
  BY <1>28, WritesApart
<1> QED
  BY <1>1, <1>2, <1>3, <1>4, <1>5, <1>6, <1>7, <1>8, <1>9, <1>10, <1>11,
     <1>12, <1>13, <1>14, <1>15, <1>16, <1>17, <1>18, <1>19, <1>20, <1>21,
     <1>22, <1>23, <1>24, <1>25, <1>26, <1>27, <1>28 DEF Next, init_module,
     cleanup_module, vlc_tx

\* A release finds what it releases held, and so for the first time.
LEMMA FreedStep ==
  LifeType /\ Stages /\ PoolInv /\ Freed /\ [Next]_vars => Freed'
<1> SUFFICES ASSUME LifeType, Stages, PoolInv, Freed, [Next]_vars
             PROVE  Freed'
  OBVIOUS
<1> USE TablesAre, BuffersApart
    DEF LifeType, Stages, PoolInv, Freed, FreedOnce, Places, Loading, PoolGone,
        PacketsGone, Early, DeviceGone, lists
<1>1. CASE alloc_netdev
  BY <1>1 DEF alloc_netdev, Goto, Acquire
<1>2. CASE register_netdev
  BY <1>2 DEF register_netdev, Goto, Acquire
<1>3. CASE create_proc
  BY <1>3 DEF create_proc, Goto, Acquire
<1>4. CASE ioremap
  BY <1>4 DEF ioremap, Goto, Acquire, AfterMap
<1>5. CASE init_packet
  BY <1>5 DEF init_packet, Goto, AfterPacket, Null
<1>6. CASE init_rs
  <2>1. CASE at' = AfterRs /\ Acquire(AllTables) /\ UNCHANGED frees
    BY <1>6, <2>1 DEF init_rs, Goto, Acquire, AfterRs
  <2>2. CASE \E n \in 0 .. Len(Tables) - 1 : rs_init_fails(n) /\ at' = "out"
    <3>1. PICK n \in 0 .. Len(Tables) - 1 : rs_init_fails(n) /\ at' = "out"
      BY <2>2
    <3>2. /\ live' = live /\ frees' \in [Resources -> Nat]
          /\ \A x \in Resources : \/ frees'[x] = frees[x]
                                  \/ x \in AllTables /\ frees'[x] = frees[x] + 1
      <4> HIDE DEF LifeType, Stages, PoolInv, Freed
      <4> QED
        BY <3>1, FailureFrees
    <3>3. /\ at = "init_rs"
          /\ UNCHANGED <<driver, worker, where, tx_pkt, late>>
      BY <1>6 DEF init_rs, Goto
    <3> QED
      BY <3>1, <3>2, <3>3
  <2> QED
    BY <1>6, <2>1, <2>2 DEF init_rs, Goto
<1>7. CASE kthread_run
  BY <1>7 DEF kthread_run, Goto
<1>8. CASE rtdm_timer_init
  BY <1>8 DEF rtdm_timer_init
<1>9. CASE rtdm_timer_start
  BY <1>9 DEF rtdm_timer_start
<1>10. CASE out
  BY <1>10 DEF out, Goto
<1>11. CASE rmmod
  BY <1>11 DEF rmmod, Goto
<1>12. ASSUME NEW b \in PoolBuffers, vlc_release_buffer(b) PROVE Freed'
  BY <1>12 DEF vlc_release_buffer, Goto
<1>13. CASE DrainEnd
  BY <1>13 DEF DrainEnd, Goto, AfterDevice, In
<1>14. ASSUME NEW b \in PoolBuffers, vlc_teardown_pool(b) PROVE Freed'
  <2>1. /\ at = "teardown" /\ at' = "teardown" /\ where[b] = "pool"
        /\ where' = [where EXCEPT ![b] = "freed"] /\ Release({b})
        /\ UNCHANGED <<driver, worker, tx_pkt, late>>
    BY <1>14 DEF vlc_teardown_pool, Goto
  <2>2. /\ live' \in [Resources -> BOOLEAN] /\ frees' \in [Resources -> Nat]
        /\ ~live'[b] /\ frees'[b] = frees[b] + 1
        /\ \A x \in Resources :
             x # b => (live'[x] <=> live[x]) /\ frees'[x] = frees[x]
    <3> HIDE DEF LifeType, Stages, PoolInv, Freed
    <3>1. b \in Resources
      BY BuffersApart
    <3> QED
      BY <2>1, <3>1, Released
  <2>3. /\ b \in Resources /\ frees[b] = 0 /\ frees'[b] = 1
        /\ where'[b] = "freed"
        /\ \A c \in PoolBuffers : c # b => where'[c] = where[c]
    BY <2>1, <2>2
  <2> QED
    BY <2>1, <2>2, <2>3
<1>15. CASE TeardownEnd
  BY <1>15 DEF TeardownEnd, Goto, In
<1>16. CASE free_packets
  <2>1. /\ at = "packets" /\ at' = "unregister"
        /\ UNCHANGED <<driver, worker, where, tx_pkt, late>>
        /\ Release({x \in Packets : ~Null(x)})
    BY <1>16 DEF free_packets, Goto
  <2>2. \A x \in Resources :
          \/ x \in Packets /\ frees'[x] = frees[x] + 1 /\ ~live'[x]
          \/ frees'[x] = frees[x] /\ (live'[x] <=> live[x])
    <3> HIDE DEF LifeType, Stages, PoolInv, Freed
    <3> QED
      BY <2>1, Released
  <2>3. ASSUME NEW x \in Single, live'[x] PROVE frees'[x] = 0
    BY <2>2, <2>3
  <2>4. ASSUME NEW x \in PoolBuffers
        PROVE  frees'[x] <= 1 \/ (driver' = "tx" /\ tx_pkt' # "pkt" /\ frees'[x] = 2)
    <3>1. x \in Resources /\ frees[x] \in Nat /\ frees[x] <= 1
      BY <2>1
    <3>2. CASE x \in Packets
      <4>1. driver = "tx" /\ tx_pkt = x /\ x # "pkt"
        BY <3>2 DEF Packets
      <4> QED
        BY <2>1, <2>2, <3>1, <4>1
    <3>3. CASE x \notin Packets
      BY <2>2, <3>1, <3>3
    <3> QED
      BY <3>2, <3>3
  <2>5. ASSUME NEW x \in Single PROVE frees'[x] <= 1
    <3>1. /\ x \in Resources /\ x \notin PoolBuffers
          /\ frees[x] \in Nat /\ frees[x] <= 1
      BY LifeAssumption
    <3>2. CASE x \in Packets
      <4>1. x \in {"pkt", "spare"}
        BY <3>1, <3>2 DEF Packets
      <4>2. frees[x] = 0
        BY <2>1, <4>1
      <4> QED
        BY <2>2, <3>1, <4>2
    <3>3. CASE x \notin Packets
      BY <2>2, <3>1, <3>3
    <3> QED
      BY <3>2, <3>3
  <2> QED
    BY <2>1, <2>3, <2>4, <2>5 DEF Resources
<1>17. CASE unregister_netdev
  BY <1>17 DEF unregister_netdev, Goto, Release, Present
<1>18. CASE free_netdev
  <2>1. /\ at = "free_netdev" /\ at' \in DeviceGone
        /\ UNCHANGED <<driver, worker, where, tx_pkt, late>> /\ Release({"dev"})
    BY <1>18 DEF free_netdev, Goto, AfterDevice
  <2>2. /\ ~live'["dev"] /\ frees'["dev"] = frees["dev"] + 1
        /\ \A x \in Resources :
             x # "dev" => (live'[x] <=> live[x]) /\ frees'[x] = frees[x]
    <3> HIDE DEF LifeType, Stages, PoolInv, Freed
    <3> QED
      BY <2>1, Released, BuffersApart
  <2>3. frees'["dev"] = 1
    BY <2>1, <2>2
  <2> QED
    BY <2>1, <2>2, <2>3
<1>19. CASE unmap
  BY <1>19 DEF unmap, Goto, Release, Present, AfterUnmap
<1>20. CASE free_rs
  BY <1>20 DEF free_rs, Goto, Release, Present
<1>21. CASE kthread_stop
  BY <1>21 DEF kthread_stop, Goto, AfterStop
<1>22. CASE rtdm_timer_destroy
  BY <1>22 DEF rtdm_timer_destroy, Goto, AfterStop
<1>23. CASE FrameArrives
  BY <1>23 DEF FrameArrives
<1>24. CASE pru_phy_decoding
  BY <1>24 DEF pru_phy_decoding, Null
<1>25. CASE phy_timer_handler
  BY <1>25 DEF phy_timer_handler, In
<1>26. ASSUME NEW b \in PoolBuffers, vlc_get_tx_buffer(b) PROVE Freed'
  BY <1>26 DEF vlc_get_tx_buffer, In
<1>27. ASSUME NEW b \in PoolBuffers, vlc_enqueue_pkt(b) PROVE Freed'
  BY <1>27 DEF vlc_enqueue_pkt, In
<1>28. CASE proc_write \/ UNCHANGED vars
  BY <1>28, WritesApart
<1> QED
  BY <1>1, <1>2, <1>3, <1>4, <1>5, <1>6, <1>7, <1>8, <1>9, <1>10, <1>11,
     <1>12, <1>13, <1>14, <1>15, <1>16, <1>17, <1>18, <1>19, <1>20, <1>21,
     <1>22, <1>23, <1>24, <1>25, <1>26, <1>27, <1>28 DEF Next, init_module,
     cleanup_module, vlc_tx

\* The worker is started last, and no step takes from it what it needs before
\* cleanup_module begins.
LEMMA WorkerStep ==
  LifeType /\ Stages /\ Freed /\ WorkerInv /\ [Next]_vars => WorkerInv'
<1> SUFFICES ASSUME LifeType, Stages, Freed, WorkerInv, [Next]_vars
             PROVE  WorkerInv'
  OBVIOUS
<1> USE TablesAre, BuffersApart
    DEF LifeType, Stages, Freed, WorkerInv, Places, Loading, PoolGone, PacketsGone,
        Early, DeviceGone, Cleaning, Null, lists
<1>1. CASE alloc_netdev
  BY <1>1 DEF alloc_netdev, Goto, Acquire
<1>2. CASE register_netdev
  BY <1>2 DEF register_netdev, Goto, Acquire
<1>3. CASE create_proc
  BY <1>3 DEF create_proc, Goto, Acquire
<1>4. CASE ioremap
  BY <1>4 DEF ioremap, Goto, Acquire, AfterMap
<1>5. CASE init_packet
  BY <1>5 DEF init_packet, Goto, AfterPacket, Null
<1>6. CASE init_rs
  BY <1>6 DEF init_rs, Goto, Acquire, rs_init_fails, AfterRs
<1>7. CASE kthread_run
  BY <1>7 DEF kthread_run, Goto
<1>8. CASE rtdm_timer_init
  BY <1>8 DEF rtdm_timer_init
<1>9. CASE rtdm_timer_start
  BY <1>9 DEF rtdm_timer_start
<1>10. CASE out
  BY <1>10 DEF out, Goto
<1>11. CASE rmmod
  BY <1>11 DEF rmmod, Goto
<1>12. ASSUME NEW b \in PoolBuffers, vlc_release_buffer(b) PROVE WorkerInv'
  BY <1>12 DEF vlc_release_buffer, Goto
<1>13. CASE DrainEnd
  BY <1>13 DEF DrainEnd, Goto, AfterDevice, In
<1>14. ASSUME NEW b \in PoolBuffers, vlc_teardown_pool(b) PROVE WorkerInv'
  BY <1>14 DEF vlc_teardown_pool, Goto, Release
<1>15. CASE TeardownEnd
  BY <1>15 DEF TeardownEnd, Goto, In
<1>16. CASE free_packets
  BY <1>16 DEF free_packets, Goto, Release, Packets, Null
<1>17. CASE unregister_netdev
  BY <1>17 DEF unregister_netdev, Goto, Release, Present
<1>18. CASE free_netdev
  BY <1>18 DEF free_netdev, Goto, Release, AfterDevice
<1>19. CASE unmap
  BY <1>19 DEF unmap, Goto, Release, Present, AfterUnmap
<1>20. CASE free_rs
  BY <1>20 DEF free_rs, Goto, Release, Present
<1>21. CASE kthread_stop
  BY <1>21 DEF kthread_stop, Goto, AfterStop
<1>22. CASE rtdm_timer_destroy
  BY <1>22 DEF rtdm_timer_destroy, Goto, AfterStop
<1>23. CASE FrameArrives
  BY <1>23 DEF FrameArrives
<1>24. CASE pru_phy_decoding
  BY <1>24 DEF pru_phy_decoding, Null
<1>25. CASE phy_timer_handler
  BY <1>25 DEF phy_timer_handler, In
<1>26. ASSUME NEW b \in PoolBuffers, vlc_get_tx_buffer(b) PROVE WorkerInv'
  BY <1>26 DEF vlc_get_tx_buffer, In
<1>27. ASSUME NEW b \in PoolBuffers, vlc_enqueue_pkt(b) PROVE WorkerInv'
  BY <1>27 DEF vlc_enqueue_pkt, In
<1>28. CASE proc_write \/ UNCHANGED vars
  BY <1>28, WritesApart
<1> QED
  BY <1>1, <1>2, <1>3, <1>4, <1>5, <1>6, <1>7, <1>8, <1>9, <1>10, <1>11,
     <1>12, <1>13, <1>14, <1>15, <1>16, <1>17, <1>18, <1>19, <1>20, <1>21,
     <1>22, <1>23, <1>24, <1>25, <1>26, <1>27, <1>28 DEF Next, init_module,
     cleanup_module, vlc_tx

\* The whole inductive invariant, from the first call of init_module on.
LifeInv == LifeType /\ Stages /\ PoolInv /\ Freed /\ WorkerInv

\* LifeInv holds in every state of every life of either driver.
THEOREM LifeIsInvariant == Spec => []LifeInv
<1>1. Init => LifeInv
  <2> SUFFICES ASSUME Init PROVE LifeInv
    OBVIOUS
  <2>1. LifeType
    BY DEF Init, LifeType, Places, Loading, Early
  <2>2. Stages
    BY TablesAre, BuffersApart DEF Init, Stages, Early, DeviceGone, PacketsGone,
       TablesGone, UnmapDone
  <2>3. PoolInv
    BY BuffersApart DEF Init, PoolInv, PoolGone, PacketsGone, DeviceGone
  <2>4. Freed
    BY BuffersApart DEF Init, Freed, FreedOnce
  <2>5. WorkerInv
    BY DEF Init, WorkerInv, Cleaning
  <2> QED
    BY <2>1, <2>2, <2>3, <2>4, <2>5 DEF LifeInv
<1>2. LifeInv /\ [Next]_vars => LifeInv'
  BY LifeTypeStep, StagesStep, PoolStep, FreedStep, WorkerStep DEF LifeInv
<1> QED
  BY <1>1, <1>2, PTL DEF Spec

\* Whichever calls of init_module fail, the allocations whose result nobody
\* looks at included, and whenever the module is removed: until cleanup begins
\* the worker lacks nothing but, in the receiver, an rx_pkt that could not be
\* allocated; the transmitter's timer never outlives the mapping of the PRU's
\* memory, and no worker outlives the module.
THEOREM WorkerAlwaysEquipped == Spec => []WorkerEquipped
<1>1. LifeInv => WorkerEquipped
  <2> SUFFICES ASSUME LifeInv PROVE WorkerEquipped
    OBVIOUS
  <2>1. worker = "running" /\ ~Cleaning => live["pkt"] \/ Null("pkt")
    BY BuffersApart DEF LifeInv, LifeType, Freed, WorkerInv, Null, PacketsGone,
       DeviceGone, Cleaning
  <2> QED
    BY <2>1, TablesAre DEF LifeInv, LifeType, WorkerInv, WorkerEquipped, Cleaning,
       Loading
<1> QED
  BY <1>1, LifeIsInvariant, PTL

\* cleanup_module undoes every partial loading, for any number of buffers and
\* whatever vlc_tx and the timer do meanwhile: what stays acquired is the
\* transmitter's first packet, once another was sent, and buffers that were in
\* flight behind the drain or had dropped out of the lists.
THEOREM CleanupComplete == Spec => []CleanupReleasesAll
<1>1. LifeInv => CleanupReleasesAll
  <2> SUFFICES ASSUME LifeInv PROVE CleanupReleasesAll
    OBVIOUS
  <2>1. ASSUME at = "gone", NEW x \in Resources, live[x]
        PROVE  /\ driver = "tx"
               /\ \/ x = "pkt" /\ tx_pkt # "pkt"
                  \/ x \in late \cup In("lost")
    <3>1. CASE x \in PoolBuffers
      BY <2>1, <3>1 DEF LifeInv, LifeType, PoolInv, PoolGone, PacketsGone,
         DeviceGone, In
    <3>2. CASE x \in Single
      BY <2>1, <3>2, TablesAre DEF LifeInv, LifeType, Stages, PacketsGone, Single,
         DeviceGone, TablesGone, UnmapDone
    <3> QED
      BY <3>1, <3>2 DEF Resources
  <2>2. at = "refused" => driver = "tx" /\ \A x \in Resources : ~live[x] => Null(x)
    BY DEF LifeInv, Stages, Loading, Null
  <2> QED
    BY <2>1, <2>2 DEF CleanupReleasesAll
<1> QED
  BY <1>1, LifeIsInvariant, PTL

\* No resource is released twice, except a buffer of the pool through tx_pkt.
THEOREM NeverFreedTwice == Spec => []FreedOnce
<1>1. LifeInv => FreedOnce
  BY DEF LifeInv, Freed
<1> QED
  BY <1>1, LifeIsInvariant, PTL

-----------------------------------------------------------------------------
(* /proc/vlc.                                                              *)

\* A non-empty set of natural numbers has a least element.
LEMMA Least ==
  ASSUME NEW T \in SUBSET Nat, T # {}
  PROVE  \E x \in T : \A y \in T : x <= y
<1>1. PICK x \in T : \A y \in T : ~(<<y, x>> \in OpToRel(<, Nat))
  BY WFMin, NatLessThanWellFounded
<1>2. ASSUME NEW y \in T PROVE x <= y
  <2>1. ~(y < x)
    BY <1>1 DEF OpToRel
  <2> QED
    BY <2>1
<1> QED
  BY <1>2

\* n[i] is the number that the first i digits of b spell.
Spells(n, b, k) == n[0] = 0 /\ \A i \in 1 .. k : n[i] = 10 * n[i - 1] + b[i]

\* It is the only such function.
LEMMA SpellsOnce ==
  ASSUME NEW k \in Nat, NEW b, NEW m, NEW n, Spells(m, b, k), Spells(n, b, k)
  PROVE  m[k] = n[k]
<1> DEFINE T == {i \in 0 .. k : m[i] # n[i]}
<1>1. ASSUME T # {} PROVE FALSE
  <2>1. T \in SUBSET Nat
    OBVIOUS
  <2>2. PICK x \in T : \A y \in T : x <= y
    BY <1>1, <2>1, Least, Zenon
  <2>3. x \in 0 .. k /\ m[x] # n[x]
    OBVIOUS
  <2>4. x # 0
    BY <2>3 DEF Spells
  <2>5. x \in 1 .. k /\ x - 1 \in 0 .. k /\ ~(x <= x - 1)
    BY <2>3, <2>4
  <2>6. m[x - 1] = n[x - 1]
    BY <2>2, <2>5
  <2>7. m[x] = 10 * m[x - 1] + b[x] /\ n[x] = 10 * n[x - 1] + b[x]
    BY <2>5 DEF Spells
  <2> QED
    BY <2>3, <2>6, <2>7, Zenon
<1>2. k \in 0 .. k
  OBVIOUS
<1> QED
  BY <1>1, <1>2

\* One more digit.
LEMMA SpellsMore ==
  ASSUME NEW k \in Nat, NEW b, NEW n \in [0 .. k -> Nat], Spells(n, b, k),
         b[k + 1] \in 0 .. 9
  PROVE  \E m \in [0 .. k + 1 -> Nat] :
           Spells(m, b, k + 1) /\ m[k + 1] = 10 * n[k] + b[k + 1]
<1> DEFINE v == 10 * n[k] + b[k + 1]
           m == [i \in 0 .. k + 1 |-> IF i = k + 1 THEN v ELSE n[i]]
<1>1. n[k] \in Nat /\ v \in Nat
  <2>1. k \in 0 .. k
    OBVIOUS
  <2>2. n[k] \in Nat
    BY <2>1, Zenon
  <2>3. \A x \in Nat, y \in 0 .. 9 : 10 * x + y \in Nat
    OBVIOUS
  <2> QED
    BY <2>2, <2>3, Zenon
<1>2. m[k + 1] = v /\ \A i \in 0 .. k : m[i] = n[i]
  OBVIOUS
<1>3. m \in [0 .. k + 1 -> Nat]
  BY <1>1
<1> HIDE DEF m
<1>4. Spells(m, b, k + 1)
  <2>1. m[0] = 0
    BY <1>2 DEF Spells
  <2>2. ASSUME NEW i \in 1 .. k + 1 PROVE m[i] = 10 * m[i - 1] + b[i]
    <3>1. CASE i = k + 1
      <4>1. i - 1 = k /\ k \in 0 .. k
        BY <3>1
      <4> QED
        BY <1>2, <3>1, <4>1, Zenon
    <3>2. CASE i # k + 1
      <4>1. i \in 1 .. k /\ i \in 0 .. k /\ i - 1 \in 0 .. k
        BY <3>2
      <4>2. n[i] = 10 * n[i - 1] + b[i]
        BY <4>1 DEF Spells
      <4> QED
        BY <1>2, <4>1, <4>2, Zenon
    <3> QED
      BY <3>1, <3>2
  <2> QED
    BY <2>1, <2>2 DEF Spells
<1> QED
  BY <1>2, <1>3, <1>4

\* Remainders: the wrapped sum goes on like the sum itself.
LEMMA WrapsLater ==
  ASSUME NEW M \in Nat, M > 0, NEW v \in Nat, NEW d \in Nat
  PROVE  v % M \in Nat /\ (10 * (v % M) + d) % M = (10 * v + d) % M
<1>1. v \div M \in Nat /\ v % M \in Nat /\ v = M * (v \div M) + (v % M)
  BY SMTT(30)
<1>2. PICK q \in Nat, r \in Nat : r = v % M /\ v = M * q + r
  BY <1>1
<1>3. PICK x \in Nat : x = 10 * r + d
  OBVIOUS
<1>4. 10 * v + d = M * (10 * q) + x /\ 10 * q \in Nat
  BY <1>2, <1>3, SMTT(30)
<1>5. x \div M \in Nat /\ x % M \in Nat /\ x % M < M /\ x = M * (x \div M) + (x % M)
  BY SMTT(30)
<1>6. PICK a \in Nat, b \in Nat : b = x % M /\ b < M /\ x = M * a + b
  BY <1>5
<1>7. M * (10 * q) + x = M * (10 * q + a) + b /\ 10 * q + a \in Nat
  BY <1>4, <1>6, SMTT(30)
<1>8. \A k, t \in Nat : t < M => (M * k + t) % M = t
  BY SMTT(30)
<1>9. (10 * v + d) % M = b
  <2>1. (M * (10 * q + a) + b) % M = b
    BY <1>6, <1>7, <1>8, Zenon
  <2> QED
    BY <1>4, <1>7, <2>1, Zenon
<1> QED
  BY <1>1, <1>2, <1>3, <1>6, <1>9, Zenon

\* The digits of a buffer that proc_write has read to the end or to a newline.
LEMMA DigitsRead ==
  ASSUME NEW b \in Seq(0 .. FAULT), NEW k \in 0 .. Len(b),
         \A i \in 1 .. k : b[i] \in 0 .. 9,
         k < Len(b) => b[k + 1] = NEWLINE
  PROVE  Digits(b) = SubSeq(b, 1, k)
<1> DEFINE ends == {i \in DOMAIN b : b[i] = NEWLINE}
<1>1. Len(b) \in Nat /\ DOMAIN b = 1 .. Len(b)
  BY LenProperties, Zenon
<1>2. \A i \in 1 .. k : b[i] # NEWLINE
  BY DEF NEWLINE
<1>3. Digits(b) = SubSeq(b, 1, IF ends = {} THEN Len(b) ELSE Min(ends) - 1)
  BY Zenon DEF Digits
<1>4. CASE k = Len(b)
  <2>1. ends = {}
    BY <1>1, <1>2, <1>4
  <2> QED
    BY <1>3, <1>4, <2>1
<1>5. CASE k # Len(b)
  <2>1. k + 1 \in ends
    <3>1. k < Len(b) /\ k + 1 \in 1 .. Len(b)
      <4>1. \A l \in Nat : \A j \in 0 .. l : j # l => j < l /\ j + 1 \in 1 .. l
        OBVIOUS
      <4> QED
        BY <1>1, <1>5, <4>1, Zenon
    <3> QED
      BY <1>1, <3>1, Zenon
  <2>2. ASSUME NEW y \in ends PROVE k + 1 <= y /\ y \in Nat
    <3>1. y \in 1 .. Len(b) /\ y \notin 1 .. k
      BY <1>1, <1>2
    <3> QED
      BY <1>1, <3>1
  <2>3. Min(ends) \in ends /\ Min(ends) <= k + 1
    <3>1. \E x \in ends : \A y \in ends : x <= y
      BY <2>1, <2>2
    <3>2. Min(ends) \in ends /\ \A y \in ends : Min(ends) <= y
      BY <3>1, Zenon DEF Min
    <3> QED
      BY <2>1, <3>2
  <2> HIDE DEF ends
  <2>4. Min(ends) - 1 = k
    BY <2>2, <2>3
  <2> QED
    BY <1>3, <2>1, <2>4
<1> QED
  BY <1>4, <1>5

\* What they spell.
LEMMA SpelledRead ==
  ASSUME NEW b \in Seq(0 .. FAULT), NEW k \in 0 .. Len(b),
         NEW n \in [0 .. k -> Nat], Spells(n, b, k), Digits(b) = SubSeq(b, 1, k)
  PROVE  Spelled(b) = n[k]
<1> DEFINE d == SubSeq(b, 1, k)
           F(f) == [i \in 0 .. k |-> IF i = 0 THEN 0 ELSE 10 * f[i - 1] + d[i]]
<1>1. Len(d) = k /\ \A i \in 1 .. k : d[i] = b[i]
  OBVIOUS
<1>2. Spelled(b) = (CHOOSE f : f = F(f))[k]
  <2>1. Digits(b) = d
    OBVIOUS
  <2> HIDE DEF d
  <2> QED
    BY <1>1, <2>1, Zenon DEF Spelled
<1> HIDE DEF d
<1>3. \A f : f = F(f) => Spells(f, b, k)
  <2> SUFFICES ASSUME NEW f, f = F(f) PROVE Spells(f, b, k)
    OBVIOUS
  <2>1. \A i \in 0 .. k : F(f)[i] = IF i = 0 THEN 0 ELSE 10 * f[i - 1] + d[i]
    OBVIOUS
  <2> HIDE DEF F
  <2>2. \A i \in 0 .. k : f[i] = IF i = 0 THEN 0 ELSE 10 * f[i - 1] + d[i]
    BY <2>1, Zenon
  <2>3. 0 \in 0 .. k /\ \A i \in 1 .. k : i \in 0 .. k /\ i # 0
    OBVIOUS
  <2> QED
    BY <1>1, <2>2, <2>3, Zenon DEF Spells
<1>4. n = F(n)
  <2>1. ASSUME NEW i \in 0 .. k
        PROVE  n[i] = IF i = 0 THEN 0 ELSE 10 * n[i - 1] + d[i]
    <3>1. CASE i = 0
      BY <3>1 DEF Spells
    <3>2. CASE i # 0
      <4>1. i \in 1 .. k
        BY <3>2
      <4> QED
        BY <1>1, <3>2, <4>1 DEF Spells
    <3> QED
      BY <3>1, <3>2
  <2>2. n = [i \in 0 .. k |-> n[i]]
    OBVIOUS
  <2> QED
    BY <2>1, <2>2, Zenon
<1> DEFINE g == CHOOSE f : f = F(f)
<1> HIDE DEF F
<1>5. g = F(g)
  BY <1>4, Zenon
<1> HIDE DEF g
<1>6. Spells(g, b, k)
  BY <1>3, <1>5, Zenon
<1>7. k \in Nat
  BY LenProperties
<1>8. g[k] = n[k]
  BY <1>6, <1>7, SpellsOnce, Zenon
<1> QED
  BY <1>2, <1>8, Zenon DEF g

\* A call in progress: it has read digits only, and its sum is the number they
\* spell, as far as an unsigned int holds it.
Reading(c) ==
  /\ c = [buffer |-> c.buffer, len |-> c.len, sum |-> c.sum]
  /\ c.buffer \in Seq(0 .. FAULT) /\ c.len \in 0 .. Len(c.buffer)
  /\ \A i \in 1 .. c.len : c.buffer[i] \in 0 .. 9
  /\ \E n \in [0 .. c.len -> Nat] :
       Spells(n, c.buffer, c.len) /\ c.sum = n[c.len] % 2^INT_BITS

\* Every process reads its own buffer with its own sum.
WriteInv ==
  /\ DOMAIN writing = Writers
  /\ \A w \in Writers : writing[w] = NoCall \/ Reading(writing[w])

\* A call starts with nothing read.
LEMMA ReadingStarts ==
  ASSUME NEW b \in Seq(0 .. FAULT)
  PROVE  Reading([buffer |-> b, len |-> 0, sum |-> 0])
<1> DEFINE c == [buffer |-> b, len |-> 0, sum |-> 0]
           n == [i \in 0 .. 0 |-> 0]
<1>1. c.buffer = b /\ c.len = 0 /\ c.sum = 0
  OBVIOUS
<1> HIDE DEF c
<1>2. Len(b) \in Nat
  BY LenProperties
<1>3. n \in [0 .. 0 -> Nat] /\ n[0] = 0
  OBVIOUS
<1>4. Spells(n, b, 0)
  BY <1>3 DEF Spells
<1>5. 0 % 2^INT_BITS = 0
  <2>1. 2^INT_BITS \in Int /\ 2^INT_BITS > 0
    BY LifeAssumption
  <2>2. \A M \in Nat : M > 0 => 0 % M = 0
    BY SMTT(30)
  <2> QED
    BY <2>1, <2>2
<1>6. \E m \in [0 .. 0 -> Nat] : Spells(m, b, 0) /\ 0 = m[0] % 2^INT_BITS
  BY <1>3, <1>4, <1>5
<1>7. Reading(c)
  <2>1. c = [buffer |-> c.buffer, len |-> c.len, sum |-> c.sum]
    BY <1>1, Zenon DEF c
  <2> QED
    BY <1>1, <1>2, <1>6, <2>1 DEF Reading
<1> QED
  BY <1>7 DEF c

\* A digit more.
LEMMA ReadingGoesOn ==
  ASSUME NEW c, Reading(c), ~Complete(c), c.buffer[c.len + 1] \in 0 .. 9,
         NEW e, e.buffer = c.buffer, e.len = c.len + 1,
         e.sum = (10 * c.sum + c.buffer[c.len + 1]) % 2^INT_BITS,
         e = [buffer |-> e.buffer, len |-> e.len, sum |-> e.sum]
  PROVE  Reading(e)
<1> DEFINE b == c.buffer
           k == c.len
           d == b[k + 1]
           M == 2^INT_BITS
<1>1. /\ b \in Seq(0 .. FAULT) /\ k \in 0 .. Len(b) /\ Len(b) \in Nat
      /\ \A i \in 1 .. k : b[i] \in 0 .. 9
  BY LenProperties DEF Reading
<1>2. PICK n \in [0 .. k -> Nat] : Spells(n, b, k) /\ c.sum = n[k] % M
  BY Zenon DEF Reading
<1>3. k < Len(b)
  BY Zenon DEF Complete
<1>4. M \in Nat /\ M > 0
  BY LifeAssumption
<1>5. d \in 0 .. 9
  OBVIOUS
<1>6. e.buffer = b /\ e.len = k + 1 /\ e.sum = (10 * c.sum + d) % M
  OBVIOUS
<1> HIDE DEF b, k, M
<1>7. PICK m \in [0 .. k + 1 -> Nat] :
        Spells(m, b, k + 1) /\ m[k + 1] = 10 * n[k] + d
  <2>1. k \in Nat
    BY <1>1
  <2> QED
    BY <1>2, <1>5, <2>1, SpellsMore, Zenon
<1>8. e.sum = m[k + 1] % M
  <2>1. n[k] \in Nat /\ d \in Nat
    <3>1. k \in 0 .. k /\ d \in Nat
      BY <1>1, <1>5
    <3> QED
      BY <3>1, Zenon
  <2> HIDE DEF d
  <2>2. (10 * (n[k] % M) + d) % M = (10 * n[k] + d) % M
    BY <1>4, <2>1, WrapsLater, Zenon
  <2> QED
    BY <1>2, <1>6, <1>7, <2>2, Zenon
<1>9. k + 1 \in 0 .. Len(b) /\ \A i \in 1 .. k + 1 : b[i] \in 0 .. 9
  <2>1. \A i \in 1 .. k + 1 : i \in 1 .. k \/ i = k + 1
    BY <1>1
  <2>2. k + 1 \in 0 .. Len(b)
    BY <1>1, <1>3
  <2> QED
    BY <1>1, <1>5, <2>1, <2>2
<1> QED
  BY <1>1, <1>6, <1>7, <1>8, <1>9, Zenon DEF Reading, M

\* What a completed call stores is the number its buffer spells.
LEMMA ReadingEnds ==
  ASSUME NEW c, Reading(c), Complete(c)
  PROVE  c.sum = Spelled(c.buffer) % 2^INT_BITS
<1> DEFINE b == c.buffer
           k == c.len
<1>1. /\ b \in Seq(0 .. FAULT) /\ k \in 0 .. Len(b)
      /\ \A i \in 1 .. k : b[i] \in 0 .. 9
  BY DEF Reading
<1>2. PICK n \in [0 .. k -> Nat] : Spells(n, b, k) /\ c.sum = n[k] % 2^INT_BITS
  BY Zenon DEF Reading
<1>3. k < Len(b) => b[k + 1] = NEWLINE
  BY Zenon DEF Complete
<1> HIDE DEF b, k
<1>4. Digits(b) = SubSeq(b, 1, k)
  BY <1>1, <1>3, DigitsRead, Zenon
<1>5. Spelled(b) = n[k]
  BY <1>1, <1>2, <1>4, SpelledRead, Zenon
<1> QED
  BY <1>2, <1>5, Zenon DEF b

\* Loading and unloading leave the entry alone.
LEMMA LifeApart ==
  ASSUME [Next]_vars, ~proc_write
  PROVE  UNCHANGED <<value, writing, accepted>>
<1>1. CASE init_module
  BY <1>1 DEF init_module, alloc_netdev, register_netdev, create_proc, ioremap,
     init_packet, init_rs, kthread_run, rtdm_timer_init, rtdm_timer_start, out,
     proc
<1>2. CASE cleanup_module
  BY <1>2 DEF cleanup_module, vlc_release_buffer, DrainEnd, vlc_teardown_pool,
     TeardownEnd, free_packets, unregister_netdev, free_netdev, unmap, free_rs, kthread_stop,
     rtdm_timer_destroy, proc
<1>3. CASE rmmod \/ FrameArrives \/ pru_phy_decoding \/ phy_timer_handler
             \/ vlc_tx
  BY <1>3 DEF rmmod, FrameArrives, pru_phy_decoding, phy_timer_handler, vlc_tx,
     vlc_get_tx_buffer, vlc_enqueue_pkt, proc
<1>4. CASE UNCHANGED vars
  BY <1>4 DEF vars, proc
<1> QED
  BY <1>1, <1>2, <1>3, <1>4 DEF Next

\* Every step keeps WriteInv, and the entry whole.
LEMMA WriteStep ==
  WriteInv /\ ProcHoldsOneWrite /\ [Next]_vars => (WriteInv /\ ProcHoldsOneWrite)'
<1> SUFFICES ASSUME WriteInv, ProcHoldsOneWrite, [Next]_vars
             PROVE  (WriteInv /\ ProcHoldsOneWrite)'
  OBVIOUS
<1>1. CASE ~proc_write
  BY <1>1, LifeApart DEF WriteInv, ProcHoldsOneWrite
<1>2. ASSUME NEW w \in Writers, proc_call(w)
      PROVE  (WriteInv /\ ProcHoldsOneWrite)'
  <2>1. PICK b \in Buffers :
          writing' = [writing EXCEPT ![w] = [buffer |-> b, len |-> 0, sum |-> 0]]
    BY <1>2 DEF proc_call
  <2>2. Reading([buffer |-> b, len |-> 0, sum |-> 0])
    <3>1. b \in Seq(0 .. FAULT)
      BY LifeAssumption, Zenon
    <3> QED
      BY <3>1, ReadingStarts, Zenon
  <2>3. WriteInv'
    BY <2>1, <2>2, Zenon DEF WriteInv
  <2>4. ProcHoldsOneWrite'
    BY <1>2 DEF proc_call, ProcHoldsOneWrite
  <2> QED
    BY <2>3, <2>4
<1>3. ASSUME NEW w \in Writers, proc_char(w)
      PROVE  (WriteInv /\ ProcHoldsOneWrite)'
  <2> DEFINE c == writing[w]
             e == [c EXCEPT !.len = c.len + 1,
                            !.sum = (10 * c.sum + c.buffer[c.len + 1])
                                      % 2^INT_BITS]
  <2>1. /\ c # NoCall /\ ~Complete(c)
        /\ writing' = [writing EXCEPT ![w] =
             IF c.buffer[c.len + 1] \in 0 .. 9 THEN e ELSE NoCall]
    BY <1>3, Zenon DEF proc_char
  <2>2. Reading(c)
    BY <2>1 DEF WriteInv
  <2>3. ASSUME c.buffer[c.len + 1] \in 0 .. 9 PROVE Reading(e)
    <3>1. /\ e.buffer = c.buffer /\ e.len = c.len + 1
          /\ e.sum = (10 * c.sum + c.buffer[c.len + 1]) % 2^INT_BITS
          /\ e = [buffer |-> e.buffer, len |-> e.len, sum |-> e.sum]
      <4>1. c = [buffer |-> c.buffer, len |-> c.len, sum |-> c.sum]
        BY <2>2, Zenon DEF Reading
      <4>2. PICK x, y : /\ x = c.len + 1
                        /\ y = (10 * c.sum + c.buffer[c.len + 1]) % 2^INT_BITS
        OBVIOUS
      <4>3. e = [c EXCEPT !.len = x, !.sum = y]
        BY <4>2, Zenon
      <4> HIDE DEF c, e
      <4>4. e = [buffer |-> c.buffer, len |-> x, sum |-> y]
        BY <4>1, <4>3
      <4> QED
        BY <4>2, <4>4
    <3> HIDE DEF c, e
    <3> QED
      BY <2>1, <2>2, <2>3, <3>1, ReadingGoesOn, Zenon
  <2> HIDE DEF c, e
  <2>4. WriteInv'
    BY <2>1, <2>3, Zenon DEF WriteInv
  <2>5. ProcHoldsOneWrite'
    BY <1>3 DEF proc_char, ProcHoldsOneWrite
  <2> QED
    BY <2>4, <2>5
<1>4. ASSUME NEW w \in Writers, proc_store(w)
      PROVE  (WriteInv /\ ProcHoldsOneWrite)'
  <2> DEFINE c == writing[w]
  <2>1. /\ c # NoCall /\ Complete(c)
        /\ value' = AsInt(c.sum) /\ accepted' = c.buffer
        /\ writing' = [writing EXCEPT ![w] = NoCall]
    BY <1>4, Zenon DEF proc_store
  <2>2. Reading(c)
    BY <2>1 DEF WriteInv
  <2>3. c.sum = Spelled(c.buffer) % 2^INT_BITS
    BY <2>1, <2>2, ReadingEnds, Zenon
  <2>4. WriteInv'
    BY <2>1, Zenon DEF WriteInv
  <2>5. ProcHoldsOneWrite'
    BY <2>1, <2>3, Zenon DEF ProcHoldsOneWrite
  <2> QED
    BY <2>4, <2>5
<1> QED
  BY <1>1, <1>2, <1>3, <1>4 DEF proc_write

\* Nothing has been written: the entry holds 0.
LEMMA WriteInit == Init => WriteInv /\ ProcHoldsOneWrite
<1> SUFFICES ASSUME Init PROVE WriteInv /\ ProcHoldsOneWrite
  OBVIOUS
<1>1. WriteInv
  BY DEF Init, WriteInv
<1>2. ProcHoldsOneWrite
  <2> DEFINE c == [buffer |-> << >>, len |-> 0, sum |-> 0]
  <2>1. << >> \in Seq(0 .. FAULT) /\ Len(<< >>) = 0
    OBVIOUS
  <2>2. Reading(c)
    BY <2>1, ReadingStarts, Zenon
  <2>3. c.buffer = << >> /\ c.len = 0 /\ c.sum = 0
    OBVIOUS
  <2> HIDE DEF c
  <2>4. Complete(c)
    BY <2>1, <2>3 DEF Complete
  <2>5. 0 = Spelled(<< >>) % 2^INT_BITS
    BY <2>2, <2>3, <2>4, ReadingEnds
  <2>6. AsInt(0) = 0
    BY LifeAssumption DEF AsInt
  <2> QED
    BY <2>5, <2>6 DEF Init, ProcHoldsOneWrite
<1> QED
  BY <1>1, <1>2

\* For any number of processes, whatever they write and however long: the entry
\* holds the number one of them wrote last, wrapped as the int is, never
\* anything of a concurrent or of a failed write.
THEOREM EntryWhole == Spec => []ProcHoldsOneWrite
  BY WriteInit, WriteStep, PTL DEF Spec
=============================================================================
