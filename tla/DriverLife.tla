----------------------------- MODULE DriverLife -----------------------------
(***************************************************************************)
(* Loading and unloading the two network drivers: init_module and          *)
(* cleanup_module of the receiver (node (rf)_ourvlc/ourvlc-1.c) and of the *)
(* transmitter (VLC TX1 (Eth)_ourvlc/ourvlc-1.c).                          *)
(*                                                                         *)
(* init_module acquires one thing after the other and any of them may      *)
(* fail; the worker it starts last, a kernel thread in the receiver and a  *)
(* timer in the transmitter, runs beside everything that follows, the      *)
(* cleanup included, and so does vlc_tx, in which the network stack hands  *)
(* packets to the transmitter for as long as its device is registered.     *)
(* Each call of the two functions, and each round of their loops, is a     *)
(* step.  Accesses to memory that kfree has taken back go unnoticed; those *)
(* to memory that is not mapped, or through a null pointer, fault.         *)
(*                                                                         *)
(* live[x] says that x is acquired and not released, frees[x] how often it *)
(* was released:                                                           *)
(*   dev    the net device        reg    its registration                  *)
(*   pkt    the packet tx_pkt or rx_pkt is given by vlc_init               *)
(*   spare  vlc_q_pkt or rs_error_pkt    a PoolBuffer: of vlc_setup_pool   *)
(*   proc   the /proc entries     pru0   the mapping of the PRU's memory   *)
(*   rs, alpha_to, index_of, genpoly     the Reed-Solomon control          *)
(*                                       structure and its tables          *)
(* The lists of buffers are sets here; module VlcDriverTx has their links. *)
(*                                                                         *)
(* While they are loaded the drivers offer an integer under /proc/vlc that *)
(* processes may write, concurrently; proc_write reads it from the         *)
(* process's memory character by character.  The transmitter has one such  *)
(* entry, the receiver two alike; the model follows one.                   *)
(***************************************************************************)
EXTENDS Integers, Sequences, FiniteSetsExt

CONSTANTS
  PoolBuffers,  \* the buffers vlc_setup_pool tries to allocate
  Writers,      \* processes that write to the /proc entry
  Buffers,      \* what they write
  INT_BITS      \* width of an int

\* Characters are digits, the newline that echo adds, any other letter, and
\* one that cannot be read.
NEWLINE == 10
LETTER  == 11
FAULT   == 12

\* The allocations that there are once each.
Single == {"dev", "pkt", "spare", "reg", "proc", "pru0",
           "rs", "alpha_to", "index_of", "genpoly"}

\* The last two conjuncts are true of every INT_BITS: the provers, which do not
\* calculate powers, need to be told.
ASSUME LifeAssumption ==
  /\ PoolBuffers \cap Single = {}
  /\ Buffers \subseteq Seq(0 .. FAULT)
  /\ INT_BITS \in Nat \ {0}
  /\ 2^INT_BITS > 0 /\ 2^(INT_BITS - 1) > 0

VARIABLES
  driver,       \* "rx" or "tx"
  at,           \* the call init_module or cleanup_module is at
  ret,          \* what init_module will return: 0 or an error
  live, frees,  \* the resources
  worker,       \* the thread or the timer
  task,         \* where the thread is
  ring,         \* the receiver's ring holds a frame
  where,        \* where each buffer of the pool is
  tx_pkt,       \* what the transmitter's tx_pkt points to
  raced,        \* a buffer was released under the call of vlc_tx in progress
  late,         \* history: buffers vlc_tx held or took after the drain
  value,        \* tx_device_value or rx_device_value
  writing,      \* the call of proc_write each process is in
  accepted      \* history: what the last successful write contained

lists == <<where, tx_pkt, raced, late>>
proc  == <<value, writing, accepted>>
vars  == <<driver, at, ret, live, frees, worker, task, ring, lists, proc>>

\* The allocations of rs_init, in their order.
Tables == <<"rs", "alpha_to", "index_of", "genpoly">>
AllTables == {Tables[i] : i \in DOMAIN Tables}

Resources == Single \cup PoolBuffers

\* kmalloc did not succeed: the pointer is null.
Null(x) == ~live[x] /\ frees[x] = 0

In(place) == {b \in PoolBuffers : where[b] = place}

NoCall == [buffer |-> << >>, len |-> -1, sum |-> 0]

\* A call has read all there is to read.
Complete(c) == c.len < Len(c.buffer) => c.buffer[c.len + 1] = NEWLINE

\* An unsigned number stored in an int.
AsInt(u) == IF u < 2^(INT_BITS - 1) THEN u ELSE u - 2^INT_BITS

Init ==
  /\ driver \in {"rx", "tx"}
  /\ at = "alloc_netdev" /\ ret = 0
  /\ live = [x \in Resources |-> FALSE]
  /\ frees = [x \in Resources |-> 0]
  /\ worker = "none" /\ task = "poll" /\ ring = FALSE
  /\ where = [b \in PoolBuffers |-> "none"] /\ tx_pkt = "pkt"
  /\ raced = FALSE /\ late = {}
  /\ value = 0 /\ writing = [w \in Writers |-> NoCall] /\ accepted = << >>

Acquire(xs) == live' = [x \in Resources |-> live[x] \/ x \in xs]

Release(xs) ==
  /\ live' = [x \in Resources |-> live[x] /\ x \notin xs]
  /\ frees' = [x \in Resources |-> frees[x] + IF x \in xs THEN 1 ELSE 0]

Goto(from, to) == at = from /\ at' = to

-----------------------------------------------------------------------------
(* init_module.                                                            *)

\* Failing, it goes on to "out" with ret still 0.  vlc_init, called by
\* alloc_netdev, allocates the two packets, without looking at the result,
\* and the pool, which comes out short when an allocation fails.
alloc_netdev ==
  /\ \/ /\ Goto("alloc_netdev", "register")
        /\ \E made \in SUBSET {"pkt", "spare"}, pool \in SUBSET PoolBuffers :
             /\ Acquire({"dev"} \cup made \cup pool)
             /\ where' = [b \in PoolBuffers |->
                            IF b \in pool THEN "pool" ELSE "none"]
     \/ Goto("alloc_netdev", "out") /\ UNCHANGED <<live, where>>
  /\ UNCHANGED <<driver, ret, frees, worker, task, ring, tx_pkt, raced, late,
                 proc>>

\* An error is printed and kept in ret, and the loading goes on.
register_netdev ==
  /\ \/ Acquire({"reg"}) /\ ret' = 0
     \/ UNCHANGED live /\ ret' = 1
  /\ Goto("register", "proc")
  /\ UNCHANGED <<driver, frees, worker, task, ring, lists, proc>>

create_proc ==
  /\ Goto("proc", "ioremap")
  /\ \/ Acquire({"proc"})
     \/ UNCHANGED live
  /\ UNCHANGED <<driver, ret, frees, worker, task, ring, lists, proc>>

\* The transmitter fills vlc_q_pkt before init_rs, the receiver rs_error_pkt
\* after it.
AfterMap    == IF driver = "tx" THEN "spare" ELSE "init_rs"
AfterRs     == IF driver = "tx" THEN "start" ELSE "spare"
AfterPacket == IF driver = "tx" THEN "init_rs" ELSE "start"

\* Mutant of ioremap: no test of the mapping.
ioremap_untested ==
  /\ Goto("ioremap", AfterMap)
  /\ \/ Acquire({"pru0"})
     \/ UNCHANGED live
  /\ UNCHANGED <<driver, ret, frees, worker, task, ring, lists, proc>>

ioremap ==
  /\ \/ Goto("ioremap", AfterMap) /\ Acquire({"pru0"})
     \/ Goto("ioremap", "out") /\ UNCHANGED live
  /\ UNCHANGED <<driver, ret, frees, worker, task, ring, lists, proc>>

\* init_vlc_quality_packet or init_rs_error_packet: a packet that was not
\* allocated makes the loading process fault, and the module stays as it is.
init_packet ==
  /\ Goto("spare", IF Null("spare") THEN "oops" ELSE AfterPacket)
  /\ UNCHANGED <<driver, ret, live, frees, worker, task, ring, lists, proc>>

\* rs_init when n allocations succeed and the next one fails: the labels at
\* its end release what there is.
rs_init_fails(n) ==
  /\ frees' = [x \in Resources |->
                 frees[x] + IF \E i \in 1 .. n : x = Tables[i] THEN 1 ELSE 0]
  /\ UNCHANGED live

\* init_rs finds no structure to share in the module's own list and makes
\* one, with users = 1.
init_rs ==
  /\ \/ Goto("init_rs", AfterRs) /\ Acquire(AllTables) /\ UNCHANGED <<ret, frees>>
     \/ /\ Goto("init_rs", "out") /\ ret' = 1
        /\ \E n \in 0 .. Len(Tables) - 1 : rs_init_fails(n)
  /\ UNCHANGED <<driver, worker, task, ring, lists, proc>>

\* The receiver: kthread_run leaves ret alone when it succeeds, so that an
\* error of register_netdev is returned with the thread running.
kthread_run ==
  /\ driver = "rx"
  /\ Goto("start", "out")
  /\ \/ worker' = "running" /\ UNCHANGED ret
     \/ ret' = 1 /\ UNCHANGED worker
  /\ UNCHANGED <<driver, live, frees, task, ring, lists, proc>>

\* The transmitter: rtdm_timer_init, then rtdm_timer_start.  If one fails
\* init_module returns at once; else ret is overwritten with 0.
rtdm_timer_init ==
  /\ driver = "tx" /\ at = "start"
  /\ \/ worker' = "ready" /\ ret' = 0 /\ at' = "timer_start"
     \/ ret' = 1 /\ at' = "refused" /\ UNCHANGED worker
  /\ UNCHANGED <<driver, live, frees, task, ring, lists, proc>>

rtdm_timer_start ==
  /\ at = "timer_start"
  /\ \/ worker' = "running" /\ at' = "out" /\ UNCHANGED ret
     \/ ret' = 1 /\ at' = "refused" /\ UNCHANGED worker
  /\ UNCHANGED <<driver, live, frees, task, ring, lists, proc>>

\* "out:": cleanup_module if ret is an error.
out ==
  /\ Goto("out", IF ret = 0 THEN "loaded" ELSE "cleanup")
  /\ UNCHANGED <<driver, ret, live, frees, worker, task, ring, lists, proc>>

init_module ==
  \/ alloc_netdev \/ register_netdev \/ create_proc \/ ioremap \/ init_packet
  \/ init_rs \/ kthread_run \/ rtdm_timer_init \/ rtdm_timer_start \/ out

rmmod ==
  /\ Goto("loaded", "cleanup")
  /\ UNCHANGED <<driver, ret, live, frees, worker, task, ring, lists, proc>>

-----------------------------------------------------------------------------
(* cleanup_module.                                                         *)

\* What is left to do: the receiver unmaps, frees the code and stops its
\* thread last; the transmitter frees the code, destroys its timer and unmaps
\* last.
AfterDevice == IF driver = "rx" THEN "unmap" ELSE "free_rs"
AfterUnmap  == IF driver = "rx" THEN "free_rs" ELSE "gone"
AfterStop   == IF driver = "rx" THEN "gone" ELSE "unmap"

Present(xs) == {x \in xs : live[x]}

\* A release under a call of vlc_tx.
Raced == raced \/ In("vlc_tx") # {}

\* The transmitter returns the packets of tx_queue to the pool, one by one,
\* while vlc_tx may add others.
vlc_release_buffer(b) ==
  /\ Goto("cleanup", "cleanup")
  /\ driver = "tx" /\ live["dev"] /\ where[b] = "queue"
  /\ where' = [where EXCEPT ![b] = "pool"]
  /\ raced' = Raced
  /\ UNCHANGED <<driver, ret, live, frees, worker, task, ring, tx_pkt, late,
                 proc>>

\* Mutant of DrainEnd: tx_queue is not emptied.
DrainEndAtOnce ==
  /\ Goto("cleanup", IF live["dev"] THEN "teardown" ELSE AfterDevice)
  /\ late' = In("vlc_tx")
  /\ UNCHANGED <<driver, ret, live, frees, worker, task, ring, where, tx_pkt,
                 raced, proc>>

DrainEnd ==
  /\ Goto("cleanup", IF live["dev"] THEN "teardown" ELSE AfterDevice)
  /\ In("queue") = {}
  /\ late' = In("vlc_tx")
  /\ UNCHANGED <<driver, ret, live, frees, worker, task, ring, where, tx_pkt,
                 raced, proc>>

\* vlc_teardown_pool frees what is in the pool, buffer after buffer.
vlc_teardown_pool(b) ==
  /\ Goto("teardown", "teardown")
  /\ where[b] = "pool"
  /\ where' = [where EXCEPT ![b] = "freed"]
  /\ Release({b})
  /\ UNCHANGED <<driver, ret, worker, task, ring, tx_pkt, raced, late, proc>>

TeardownEnd ==
  /\ Goto("teardown", "packets")
  /\ In("pool") = {}
  /\ UNCHANGED <<driver, ret, live, frees, worker, task, ring, lists, proc>>

\* Mutant of Packets: the net device, which free_netdev frees, is freed here
\* as well.
PacketsAndDevice == {"dev", "spare", IF driver = "tx" THEN tx_pkt ELSE "pkt"}

\* The packets: tx_pkt is the one of vlc_init until the timer has sent one;
\* then it is a buffer of the pool, which has just been torn down, and the
\* first one is never freed.
Packets == {"spare", IF driver = "tx" THEN tx_pkt ELSE "pkt"}

\* kfree of a null pointer does nothing.
free_packets ==
  /\ Goto("packets", "unregister")
  /\ Release({x \in Packets : ~Null(x)})
  /\ UNCHANGED <<driver, ret, worker, task, ring, lists, proc>>

\* unregister_netdev waits for vlc_tx to return, and accepts a device that was
\* never registered.
unregister_netdev ==
  /\ Goto("unregister", "free_netdev")
  /\ In("vlc_tx") = {}
  /\ Release(Present({"reg"}))
  /\ UNCHANGED <<driver, ret, worker, task, ring, lists, proc>>

free_netdev ==
  /\ Goto("free_netdev", AfterDevice)
  /\ Release({"dev"})
  /\ UNCHANGED <<driver, ret, worker, task, ring, lists, proc>>

\* remove_proc_entry, which waits for calls in progress, and iounmap.
unmap ==
  /\ Goto("unmap", AfterUnmap)
  /\ \A w \in Writers : writing[w] = NoCall
  /\ Release(Present({"proc", "pru0"}))
  /\ UNCHANGED <<driver, ret, worker, task, ring, lists, proc>>

\* free_rs lowers users, here from 1, and frees the structure.
free_rs ==
  /\ Goto("free_rs", "stop")
  /\ Release(Present(AllTables))
  /\ UNCHANGED <<driver, ret, worker, task, ring, lists, proc>>

\* kthread_stop asks the thread to stop and waits until it has returned, or
\* died of a fault.
kthread_stop ==
  /\ driver = "rx"
  /\ \/ Goto("stop", IF worker = "none" THEN AfterStop ELSE "wait")
     \/ worker \in {"none", "oops"} /\ Goto("wait", AfterStop)
  /\ UNCHANGED <<driver, ret, live, frees, worker, task, ring, lists, proc>>

rtdm_timer_destroy ==
  /\ driver = "tx"
  /\ Goto("stop", AfterStop)
  /\ worker' = "none"
  /\ UNCHANGED <<driver, ret, live, frees, task, ring, lists, proc>>

cleanup_module ==
  \/ \E b \in PoolBuffers : vlc_release_buffer(b) \/ vlc_teardown_pool(b)
  \/ DrainEnd \/ TeardownEnd \/ free_packets \/ unregister_netdev
  \/ free_netdev \/ unmap \/ free_rs \/ kthread_stop \/ rtdm_timer_destroy

-----------------------------------------------------------------------------
(* The workers.                                                            *)

\* The receiver's PRU has written a frame to the ring.
FrameArrives ==
  /\ driver = "rx" /\ ~ring
  /\ ring' = TRUE
  /\ UNCHANGED <<driver, at, ret, live, frees, worker, task, lists, proc>>

\* The thread reads the ring's indices in every round, and the frame, and
\* faults when they are no longer mapped; it copies the frame to rx_pkt.
\* It asks whether it should stop after a frame and only then: on an empty
\* ring it sleeps and tries again.
pru_phy_decoding ==
  /\ driver = "rx" /\ worker = "running"
  /\ \/ /\ task \in {"poll", "decode"} /\ ~live["pru0"]
        /\ worker' = "oops" /\ UNCHANGED <<task, ring>>
     \/ /\ task = "poll" /\ live["pru0"] /\ ring
        /\ task' = "decode" /\ UNCHANGED <<worker, ring>>
     \/ /\ task = "decode" /\ live["pru0"]
        /\ IF Null("pkt")
           THEN worker' = "oops" /\ UNCHANGED <<task, ring>>
           ELSE task' = "test" /\ ring' = FALSE /\ UNCHANGED worker
     \/ /\ task = "test" /\ task' = "poll"
        /\ worker' = IF at = "wait" THEN "none" ELSE worker
        /\ UNCHANGED ring
  /\ UNCHANGED <<driver, at, ret, live, frees, lists, proc>>

\* The timer sends a packet of tx_queue and gives its buffer back; tx_pkt
\* still points to it.
phy_timer_handler ==
  /\ driver = "tx" /\ worker = "running"
  /\ \E b \in In("queue") :
       tx_pkt' = b /\ where' = [where EXCEPT ![b] = "pool"]
  /\ raced' = Raced
  /\ UNCHANGED <<driver, at, ret, live, frees, worker, task, ring, late, proc>>

-----------------------------------------------------------------------------
(* vlc_tx, which the stack calls for one packet at a time while the device *)
(* is registered.  The receiver's does nothing.                            *)

\* With an empty pool it follows a null pointer, and nothing happens any
\* more; module VlcDriverTx shows when it is called so.
vlc_get_tx_buffer(b) ==
  /\ driver = "tx" /\ live["reg"] /\ at # "refused"
  /\ In("vlc_tx") = {} /\ where[b] = "pool"
  /\ where' = [where EXCEPT ![b] = "vlc_tx"]
  /\ raced' = FALSE
  /\ late' = IF at \in {"teardown", "packets", "unregister"}
             THEN late \cup {b} ELSE late
  /\ UNCHANGED <<driver, at, ret, live, frees, worker, task, ring, tx_pkt,
                 proc>>

\* When a buffer was released meanwhile, the packet may be linked into the
\* pool or into freed memory, and buffers may drop out of the pool: those
\* behind the link, or those released between the load of ppool and its store.
vlc_enqueue_pkt(b) ==
  /\ where[b] = "vlc_tx" /\ at # "refused"
  /\ \/ where' = [where EXCEPT ![b] = "queue"]
     \/ /\ raced
        /\ \E lost \in SUBSET In("pool"), to \in {"queue", "pool", "lost"} :
             where' = [c \in PoolBuffers |-> IF c = b THEN to
                                             ELSE IF c \in lost THEN "lost"
                                             ELSE where[c]]
  /\ raced' = FALSE
  /\ UNCHANGED <<driver, at, ret, live, frees, worker, task, ring, tx_pkt,
                 late, proc>>

vlc_tx == \E b \in PoolBuffers : vlc_get_tx_buffer(b) \/ vlc_enqueue_pkt(b)

-----------------------------------------------------------------------------
(* /proc/vlc.                                                              *)

\* A process writes to an existing entry.
proc_call(w) ==
  /\ live["proc"] /\ writing[w] = NoCall
  /\ \E b \in Buffers :
       writing' = [writing EXCEPT ![w] = [buffer |-> b, len |-> 0, sum |-> 0]]
  /\ UNCHANGED <<driver, at, ret, live, frees, worker, task, ring, lists,
                 value, accepted>>

\* The next character: an unreadable one ends the call with -EFAULT, one that
\* is no digit with -EINVAL.  sum is unsigned.
proc_char(w) ==
  LET c == writing[w]
      k == c.len + 1
  IN  /\ c # NoCall /\ ~Complete(c)
      /\ writing' = [writing EXCEPT ![w] =
           IF c.buffer[k] \in 0 .. 9
           THEN [c EXCEPT !.len = k,
                          !.sum = (10 * c.sum + c.buffer[k]) % 2^INT_BITS]
           ELSE NoCall]
      /\ UNCHANGED <<driver, at, ret, live, frees, worker, task, ring,
                     lists, value, accepted>>

\* Mutant of proc_store: the sum is a variable of the module, and the last
\* call of the other process has left its own.
proc_store_shared(w) ==
  LET c == writing[w]
  IN  /\ c # NoCall /\ Complete(c)
      /\ \E v \in Writers :
           value' = AsInt(IF writing[v] = NoCall THEN c.sum ELSE writing[v].sum)
      /\ accepted' = c.buffer
      /\ writing' = [writing EXCEPT ![w] = NoCall]
      /\ UNCHANGED <<driver, at, ret, live, frees, worker, task, ring, lists>>

\* The buffer's end, a newline or a zero: sum is stored as an int.
proc_store(w) ==
  LET c == writing[w]
  IN  /\ c # NoCall /\ Complete(c)
      /\ value' = AsInt(c.sum)
      /\ accepted' = c.buffer
      /\ writing' = [writing EXCEPT ![w] = NoCall]
      /\ UNCHANGED <<driver, at, ret, live, frees, worker, task, ring, lists>>

proc_write == \E w \in Writers : proc_call(w) \/ proc_char(w) \/ proc_store(w)

-----------------------------------------------------------------------------
Next == \/ init_module \/ rmmod \/ cleanup_module
        \/ FrameArrives \/ pru_phy_decoding \/ phy_timer_handler \/ vlc_tx
        \/ proc_write

Spec == Init /\ [][Next]_vars
-----------------------------------------------------------------------------
(* Properties.                                                             *)

Cleaning == at \in {"cleanup", "teardown", "packets", "unregister",
                    "free_netdev", "unmap", "free_rs", "stop", "wait"}

\* Until cleanup begins a worker that runs has all it works with, whichever
\* steps of the loading failed before it was started, with one exception: the
\* receiver's thread is started without rx_pkt when that was not allocated,
\* and dies of its first frame.  During the cleanup, where the worker is
\* stopped last, it has not: the receiver's thread finds the PRU's memory
\* unmapped, and the transmitter's timer goes on with the net device and the
\* code's tables freed, but never with the PRU's memory unmapped.  When the
\* module's code is gone or was refused no worker is left to execute it.
WorkerEquipped ==
  /\ worker = "running" /\ ~Cleaning =>
       /\ \A x \in {"dev", "spare", "pru0"} \cup AllTables : live[x]
       /\ live["pkt"] \/ Null("pkt")
  /\ worker = "oops" =>
       driver = "rx" /\ (Cleaning \/ at = "gone" \/ Null("pkt"))
  /\ driver = "tx" /\ worker = "running" => live["pru0"]
  /\ at \in {"gone", "refused", "oops"} => worker # "running"

\* cleanup_module releases everything that was acquired, after a failed
\* loading too, except, in the transmitter, the packet of vlc_init once
\* another was sent, and the "in-flight packets": buffers that vlc_tx held
\* when tx_queue was drained, or took afterwards, and those that dropped out
\* of the lists.  Where init_module returns past its cleanup, the transmitter
\* with a timer that cannot be set up, nothing at all is released.
CleanupReleasesAll ==
  /\ at = "gone" =>
       \A x \in Resources :
         live[x] => /\ driver = "tx"
                    /\ \/ x = "pkt" /\ tx_pkt # "pkt"
                       \/ x \in late \cup In("lost")
  /\ at = "refused" =>
       /\ driver = "tx"
       /\ \A x \in Resources : ~live[x] => Null(x)

\* Nothing is released twice, unless the transmitter has sent a packet:
\* tx_pkt is then a buffer of the pool.
FreedOnce ==
  \A x \in Resources :
    \/ frees[x] <= 1
    \/ driver = "tx" /\ tx_pkt # "pkt" /\ x \in PoolBuffers /\ frees[x] = 2

\* The digits of a buffer, up to its newline, and the number they spell.
Digits(b) ==
  LET ends == {i \in DOMAIN b : b[i] = NEWLINE}
  IN  SubSeq(b, 1, IF ends = {} THEN Len(b) ELSE Min(ends) - 1)

Spelled(b) ==
  LET n[i \in 0 .. Len(Digits(b))] ==
        IF i = 0 THEN 0 ELSE 10 * n[i - 1] + Digits(b)[i]
  IN  n[Len(Digits(b))]

\* /proc/vlc holds what one process wrote last, whole: never a mixture of two
\* concurrent writes, nor anything of a write that failed halfway.
ProcHoldsOneWrite == value = AsInt(Spelled(accepted) % 2^INT_BITS)
=============================================================================
