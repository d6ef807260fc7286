# CIOT_VLC: a TLA+ verification project

CIOT_VLC is a hybrid downlink: a gateway generates packets for a node and sends
each of them over a radio interface (RF) or, through a transmitter attached by
Ethernet, over visible light (VLC). The node merges what arrives on the two
links and reports to the gateway what it has received. The repository has no
design document; what it says about itself are comments in its sources, and the
runs that show a disagreement quote them.

This directory models the whole path of a packet and the way back of its
acknowledgement: the threads of the three programs, the two network drivers with
their real-time timer and kernel thread, the rings they share with the firmware
of the programmable real-time units (PRU), and the Reed-Solomon code between
them.

## 1. Inventory

### 1.1 The system

```
 gateway                                  VLC transmitter
 generate_packet -> node_queue            main -> vlc_queue -> transmit_vlc
        |                                   ^                       | vlc0
  schedule_packet <-- schedule()            | Ethernet              v
    |          |                            |           vlc_tx -> tx_queue
    |          +--> vlc_queue -> transmit_vlc                      |
    |          +--> unacked_vlc_packet <-- check_unacked    phy_timer_handler
    |                        ^                  |                  | ring
    v                        |                  v                  v
  rf_queue -> transmit_rf -> tbf_queue     (rf_queue)            TXPRU -> LED
                                |  ^                               |
                 tbf_transmit --+  +- n_token <- add_token         | light
                      |                                            v
 node                 | RF                                       RXPRU
                      v                                            | ring
   process_queue <- receive_rf                                     v
        |        <- receive_vlc <---- vlc0 ---- mac_rx <- pru_phy_decoding
        v
   process_data -> status -> send_report --- RF ---> gateway: receive_report
```

| Component | Source (under `src/`) | State | Operations | Modules |
|---|---|---|---|---|
| gateway, RF path | `gateway (eth)_gateway/main.c`, `gateway.c`, `gateway.h`, `packet_queue.c` | three queues; ints `gn`, `r`, `n_token`, `tbf_queue_length`; `struct gateway_status` | threads `generate_packet`, `schedule_packet`, `transmit_rf`, `add_token`, `tbf_transmit` | `GatewayRf`, `GatewayRfProofs` |
| gateway, scheduling policy | `main.c` (`schedule`) | reads `gn`, `r`, `vk`, `e` | computes a greedy choice, then overrides it with `RF_MODE` | `Scheduler`; by its result in `GatewayRf` |
| gateway, VLC path and acknowledgements | `main.c`, `status_report_packet.c` | `vlc_queue`, `unacked_vlc_packet`, `pkt_state`, `expire_time`, `unacked_seq` | VLC branch of `schedule_packet`, `transmit_vlc`, `check_unacked`, `receive_report` | `GatewayVlc`, `GatewayVlcProofs`, `ReportCodec` |
| gateway, addresses and packet bytes | `main.c` | the two address tables | `is_from_node`, `is_vlc_tx_address`, `transmit_packet_vlc` | `GatewayVlc`, `VlcTxApp`, `PacketFormat` |
| node receiver | `node (rf)_node1/main.c`, `node.c`, `node_packet.c`, `packet_queue.c` | `process_queue`, `struct node_status`, `Frame_Rx` | threads `receive_rf`, `receive_vlc`, `process_data`, `send_report`, `vlc_quality_measurement` | `NodeReceiver`, `MCNodeReceiver`, `NodeReceiverProofs`, `RxRing`, `VlcFrame` |
| status report | `status_report_packet.c` of node and gateway | - | encode, decode | `ReportCodec` |
| transmitter application | `VLC TX1 (Eth)_vlc_tx/main.c`, `packet_queue.c`, `gateway_packet.c` | linked `vlc_queue`, `queue_size` | `main`, `transmit_vlc`, `send_queue_report` | `VlcTxApp`, `VlcTxAppProofs`, `PacketFormat` |
| transmit driver | `VLC TX1 (Eth)_ourvlc/ourvlc-1.c` | `ppool`, `tx_queue`, device queue, `is_write_next`; the module's resources; `/proc/vlc` | `vlc_open`, `vlc_tx`, `phy_timer_handler`; `init_module`, `cleanup_module`; `proc_write` | `VlcDriverTx`, `VlcDriverTxProofs`, `LossyLink`; `DriverLife`, `MCDriverLife`, `DriverLifeProofs` |
| transmit ring and firmware | `ourvlc-1.c`, `VLC TX1 (Eth)_vlc_tx/TXPRU/TXPRU.p` | `write_idx`, `read_idx`, the packets between them | `phy_timer_handler` writes, `TXPRU` reads and modulates | `TxRing`, `TxRingProofs`, `RingChannel` |
| receive ring, firmware and driver | `node (rf)_node1/RXPRU/RXPRU.p`, `node (rf)_ourvlc/ourvlc-1.c` | the ring; the frame; the module's resources | `RXPRU`, `pru_phy_decoding`, `mac_rx`; `init_module`, `cleanup_module`; `proc_write` | `RxRing`, `RxRingProofs`, `RingChannel`, `VlcFrame`, `DriverLife` |
| Reed-Solomon code | `*_ourvlc/reed_solomon.c`, `encode_rs.c`, `decode_rs.c`, `rslib.h` | tables | `rs_init`, `init_rs`, `free_rs`, `encode_rs8`, `decode_rs8` | `ReedSolomon`, `VlcFrame`, `DriverLife` |
| sockets, `output_data` | the three `main.c` | - | set-up and printing | not modelled |
| earlier versions, experiments | `*_old.c`, `TXPRU_OLD.p`, `scheduler.c`, `server.c`, the test directories | - | not built | not modelled |

### 1.2 How the parts interact

* Inside a program: POSIX threads over shared variables. The gateway's and the
  node's packet queues are used under a mutex, except the push to `vlc_queue`;
  every counter, the array of unacknowledged packets, the transmitter's queue,
  and the node's status are not locked at all.
* Application and driver: a raw socket on `vlc0`; the network stack calls
  `vlc_tx` for one packet at a time while the device queue is not stopped, and
  takes what `mac_rx` gives it.
* Inside the transmit driver: `vlc_tx` and a Xenomai timer handler that preempts
  it. The lock they could share disables bottom halves only, is switched off by
  default, and would not hold off a real-time timer. Inside the receive driver:
  a kernel thread beside loading and unloading.
* Driver and firmware: two index words and a ring of packets in PRU memory,
  accessed by two processors.
* Between machines: packets over RF and light (lost, duplicated and reordered
  between the two links, corrupted on the light), reports from the node and from
  the transmitter.

### 1.3 What is hard, and what correctness means

| Component | Hard behaviour | What makes it correct |
|---|---|---|
| gateway, RF path | unlocked `x++`/`x--` of several threads; tests made before the mutex is taken; failed sends; refused pushes whose result is ignored | the token bucket stays in bounds; a pop after an unlocked emptiness test finds a packet; packets leave in order, none twice; what waits is sent |
| gateway, scheduling | inputs that change under a greedy loop; positions and transmitters confused | no transmitter is chosen twice |
| gateway, VLC path | a use of freed memory, a queue used without its mutex, an array compacted by two threads, numbers that wrap around, timeouts racing acknowledgements | nothing is taken for delivered that the node still waits for; a packet is resent once; the array keeps its bounds; nothing is held for ever |
| node receiver | two links in any order, duplicates; a report read piece by piece while `process_data` moves the window; corrupted numbers; the ends of the window, the array and the report's buffer | what a report acknowledges has arrived or is out of the window; no processed packet is forgotten; every packet is reported in the end; the gateway decodes what the node encoded |
| transmitter application | a linked list used by two threads without a lock; fields written and read by three programs | order, no duplicates, contents, counters that cannot stick |
| transmit driver | preemption at any instruction; lists relinked under a walk; an empty pool; stop and wake-up of the device queue; reopening the interface | no buffer in two lists; order; a buffer whenever `vlc_tx` may be called; progress |
| rings and firmware | two processors, two indices, wrap-around; full and empty look alike; lengths computed on both sides | every frame is sent and taken once, whole and in order; neither side waits for ever |
| frame and code | errors anywhere in a shortened block, more than the code can repair; a sign lost in an unsigned variable | repaired frames are exact; array bounds; what is delivered, and counted as what |
| loading and unloading | any step fails; packets in flight; a worker that outlives what it works with; concurrent writes to `/proc` | nothing is used before it is there, lost, or released twice |

`PROJECT.json` lists the hazards line by line, with the properties that would
catch each one going wrong.

## 2. The modules

All modules are plain TLA+; a definition has the name of the function or the
variable it models where there is one. Definitions called *Mutant of ...* are
plausible mistakes in the code; they take part in no specification, and serve
to confirm that each property notices one.

Steps follow what other actors can observe. A queue operation under a mutex is
one step. An unlocked `x++` is a load and a store, which is what the makefiles'
unoptimised builds of the three programs execute. Local computation is folded
into the next step that touches shared state.

**`GatewayRf`.** Each of the five threads is an action, the disjunction of its
steps; `pc[t]` says where thread `t` is, `reg[t]` what it has loaded and not yet
stored, `temp[t]` the packet it holds. A packet is its sequence number and the
order of its generation. `usleep` is left out: a thread may take its next step
at any time. A loop that finds nothing to do is not a step, except where the
code changes something all the same (`SchedulePop` on an empty queue advances
`unsched_seq`). `sendto` may fail when `SendMayFail` is set; the packet is then
gone and `tbf_queue_length` keeps counting it, as in the code. The build has one
node and one transmitter (`N_NODE`, `N_VLC` are 1), so the node index is left
out. `schedule` is what the function returns, `RF_MODE`.

**`Scheduler`.** `schedule()` as it computes its choice: an iteration of a loop
is a step, and between any two the other threads change `gn`, `r`, `vk` and `e`
(`Interfere`). Error probabilities are multiples of `1/SCALE` and costs are
scaled, so that both are integers. `Return` overrides the choice, as the code
does. `MAX_PICKS` bounds how far the model follows the writes past the end of
`vlc_tgt_set`.

**`GatewayVlc`.** The other half of the gateway, in the configuration the
comment in `schedule()` describes ("1 for VLC (1 TX only)") and with the thread
`check_unacked`, whose creation is commented out in `main`. Every access to
`status`, `unacked_vlc_packet` and `n_unacked_vlc_packet` that another thread
can tell apart is a step. Sequence numbers are reused after `MAX_SEQ_NUMBER`
packets and `unsched_seq` wraps around, also without packets. `vlc_queue` is a
list and a size of its own: the push takes no lock, so it may be linked behind a
node that was just taken off, and `size++` and `size--` may lose each other. A
pop that finds a size without a head ends the process (`tx.pc = "dead"`), which
is why the run does not check for deadlock. A copy from a node that
`transmit_vlc` has freed is any of what `malloc` can have left there. `Expire` is
the clock. The node is that of `NodeReceiver` with a packet processed in one step
(`NodeReceive`, with the window that slides), and may read any number from a
frame that could not be corrected; the frames of the RF channel are encoded and
decoded by `ReportCodec`, come from the node or from others, and any of them may
be missing.

**`ReportCodec`** has the encoder of the node and the decoder of the gateway,
with bytes of `CHAR_BIT` bits and room for `PATTERN_ROOM` bytes of pattern (998 in
the `sendbuf` of `send_report`). `NodeReceiver` and `GatewayVlc` extend it: every
report that the one can send and the other can receive goes through it. The
encoder has the name of the function in `status_report_packet.c`; what runs is
the copy of its loop inside `send_report`.

**`NodeReceiver`.** `receive_rf(s)` and `receive_vlc(s)` let a packet arrive
from either link, any sequence number at any time and any number of times up to
`MaxArrivals`: loss, duplication and reordering at once. Over the light it may
also be a number of `WildNumbers`, out of a frame that could not be corrected.
`process_data` is split at every access to `status` that `send_report` can see
between. `send_report` reads `rcv_seq`, `last_rcv_seq`, again `rcv_seq`, and for
each bit once more `rcv_seq` and then `rcv_state`. `rcv_state` is larger than
malloc's mmap threshold, so that its `MAX_SEQ_NUMBER` entries are followed by the
zero-filled rest of a page, `PAGE_REST` (some 730 ints in the build), which
behaves like part of it: `rcv_seq` can get there. Beyond that a store, or a byte
of a report behind the end of `sendbuf`, ends the model (`"dead"`), since from
there on the program may do anything; a read yields any bit (`StateAt`) or is
the end as well (`ReportFault`). A `sendto` that fails is repeated, a stuttering
step; a report that fits into `sendbuf` is smaller than the MTU and not refused
for its size.

**`PacketFormat` and `VlcTxApp`.** `PacketFormat` has the bytes of a packet as
the gateway, the transmitter and the node write and read them. `VlcTxApp` has
`Enqueue` and `Dequeue` load by load and store by store, `queue_size` likewise,
and carries real packets of the gateway through them to the bytes written to
`vlc0`; `receive_vlc_report` of the gateway is at the other end of
`send_queue_report`. A node of the list is named by the packet in it: `malloc`
reuses the address of a freed node only for `main`, which clears its link before
it publishes it. Following a null head ends the process (`tx_pc = "segfault"`),
which is why the run does not check for deadlock.

**`VlcDriverTx` and `LossyLink`.** `next`, `ppool` and `tx_queue` are the
pointers of the driver; `Chain(p)` is the list that starts at `p`. `vlc_tx` takes
a step per shared access; `phy_timer_handler(moved)` is one step, because on the
single-core board it preempts `vlc_tx` and is not preempted by it. `moved` is
what the PRU's read index says; `TxRing` models that side. The device queue is
stopped on the value that was just stored to `ppool`, still in its register, as
the committed build of the module does it. `LossyLink` is what the driver
promises: packets may be lost, and those that are delivered are delivered once,
in order, and were accepted before. `IsLossyLink` is the refinement, with
`delivered <- written`.

**`TxRing`, `RxRing` and `RingChannel`.** Offsets and lengths are those of the
code; of the bytes the models keep whose packet they are, and a packet that is
overwritten in part is gone from `mem`. Packets are renumbered from the oldest
one not yet taken, so that both models are finite without a bound on how many
pass. Each side takes a step per access to an index. In `TxRing` each side has
its own length constants: the repository holds `TXPRU.bin`, built with the
driver's, and `TXPRU.p`, which has another one since, and there is a run for each. `RxRing` goes on to the socket, to `receive_vlc` and
to `vlc_quality_measurement`, which averages `Frame_Rx` and resets it in two
steps. `RingChannel` is the abstract counter both rings implement; the
refinement mapping is the distance of the two indices in packets.

**`ReedSolomon` and `VlcFrame`.** The tables, the encoder and the decoder
(Berlekamp-Massey, Chien search, Forney) translated loop by loop into recursive
functions; field and number of roots are parameters. The exclusive or is defined
bit by bit, as the community module for it cannot be read by the prover.
`VlcFrame` sends a frame
through encoder, light, decoder, the labelling of `pru_phy_decoding` with its
unsigned error count, and the tests of `receive_vlc`.

**`DriverLife`.** `init_module` and `cleanup_module` of both drivers, call by
call and, in the loops of the cleanup, round by round; each call may fail as it
does in the code, the two `kmalloc`s of `vlc_init` that nobody tests and those
of the pool included. The thread or timer runs beside them, and so does `vlc_tx`
as long as the device is registered. `live` and `frees` keep the books of what is
acquired and released, `where` says in which list each buffer of the pool is. A
buffer that is released under a call of `vlc_tx` may drop out of the lists
(`vlc_enqueue_pkt`); `VlcDriverTx` has the links this comes from. The order of
the two cleanups differs, and so do the ways in which the two `init_module`s
treat a failure: a timer that cannot be set up makes the transmitter's return
past its cleanup (`at = "refused"`), a packet that was not allocated makes the
loading fault (`at = "oops"`). The receiver's thread looks at the ring, copies a
frame and asks whether it should stop in a step each. While the `/proc` entry
exists processes write to it, character by character (`proc_write`).

`MCDriverLife` and `MCNodeReceiver` give values for TLC to the constants
`Buffers`, what the processes write, and `WildNumbers`; the other modules are
run as they are, their `.cfg` files hold the constants.

## 3. The runs

| Run | Bounds | Shows |
|---|---|---|
| `gateway_rf` | 2 packets, limits 3/1/1, bucket of 2, sends may fail | `TypeOK`, `TokenBounds`, `PopNeverNull`, `AirInOrder`, `TbfServed` hold |
| `gateway_rf_stall` | 2 packets, sends succeed | `WaitingPacketsForRfSent` *violated*: a lost decrement of `tbf_queue_length` closes `transmit_rf` for ever |
| `scheduler_two` | 2 transmitters, queues up to 2, probabilities 0, 1/2, 1 | `TargetsOnce` *violated*: a transmitter is chosen twice |
| `gateway_vlc` | 2 packets, 2 sequence numbers, array of 3, window of 1, bytes of 2 bits, no bound on the rounds of the scheduler | `TypeOK` (the array's bounds included), `NoFalseAck`, `ResentOncePerMark`, `HeldIsResolved` hold |
| `node` | 4 sequence numbers, others inside and outside the rest of the page, window of 3, queue of 2, 3 arrivals, bytes of 2 bits, room for one | `TypeOK`, `CumulativeAckSound`, `ProcessedRecorded`, `StableReportExact`, `ReportDecodes`, `ReportsAdvance`, `EventuallyReported` hold |
| `tx_app_order` | limit 3, 5 packets numbered from 253 | `SizeNotNegative`, `WrittenInOrder`, `QueueReportBelowLimit` hold in spite of the races |
| `tx_driver` | 3 buffers, 6 packets, interface reopened at will | `TypeOK`, `PoolReady`, `ListsDisjoint`, `IsLossyLink`, `QueuedIsWritten`, `StoppedForLackIsWoken` hold |
| `tx_ring_binary` | the deployed ring of 60 packets, lengths of `TXPRU.bin`; no bound | `SendsNextPacket`, `RingIsChannel`, `KeepsSending` hold |
| `tx_ring_source` | the same with the lengths of `TXPRU.p` | `SendsNextPacket` *violated* at the second packet |
| `rx_ring` | deployed lengths, a ring of 6 frames; no bound | `CopiesNextFrame`, `SampleFresh`, `RingIsChannel`, `RingMoves` hold |
| `frame` | field of 8 elements, 4 parity symbols, up to 3 errors | `CorrectsWithinReach`, `DecodeInBounds`, `DeliveredExactly`, `ErrorsAccounted` hold |
| `driver_life` | both drivers, every failure, pool of 2, 2 writers, an int of 6 bits | `WorkerEquipped`, `CleanupReleasesAll`, `FreedOnce`, `ProcHoldsOneWrite` hold |

Why the bounds are enough. In the gateway's RF path two packets are what it takes
for one to be sent, with a lost update or a failed send, while the other waits in
`tbf_queue` or is refused by `rf_queue`; limits of one make both queues full and
empty; a bucket of two lets `add_token` and `tbf_transmit` interfere on a bucket
that is neither. In its VLC path `unsched_seq` runs round as often as it likes
beside two packets, so that every index is marked for its own packet, for the
other one, and again in a later lap; two packets make the array move an entry
and the queue race on its only node; an array of three, of which the code fills
two, refuses none or one after a lost update; a window of one slides with the
first packet that is missing. The invariants were also checked, by themselves,
with three sequence numbers and a window of two (2.6 million states), and with a
third packet, which uses the first one's number again, and an array of two (3.4
million states). In the node
a window of three slides over the first of four sequence numbers and reaches the
end of the array and, with a corrupted number, the page behind it; three
arrivals include a duplicate and a packet that was slid over; patterns of one
and two bits half fill a byte and fill it, one of three overflows the buffer.
In the application five packets fill a queue of three, drain it and use it again after a race, and their
numbers carry into a second byte. In the driver three buffers are one in
`vlc_tx`, one queued, one free, and six packets use each of them twice. The ring
runs are exhaustive for their parameters; six frames fill the receive ring while
the driver holds one and the PRU writes one. The code is shortened by one symbol,
has two more parity symbols than a single error needs, and three errors are one
beyond its reach. In `driver_life` a pool of two has one buffer in
`vlc_tx` and one in a list, and an int of 6 bits overflows with the two digits
of 99.

### Fairness

Safety runs use `Spec`. `FairSpec` adds weak fairness of:

* every gateway thread: endless loops over `usleep` and short mutex sections,
  scheduled by Linux; none of them blocks on another for longer. In
  `GatewayVlc` only `schedule_packet`, `check_unacked` and the clock are needed;
  the node and the channel owe nothing;
* `process_data` and `send_report` of the node, for the same reason; the
  receiving threads wait for the links and owe nothing;
* `vlc_tx` once it has been called, and the timer handler with a read index that
  has moved: the timer is periodic and `KeepsSending` of `TxRing` is what
  justifies that the PRU moves its index; nobody owes the driver a packet or a
  reopening;
* in the transmit ring, the timer handler and the endless loop of the firmware;
  in the receive ring, the firmware once it has begun a frame (it need not hear
  another), and the three endless loops of the driver and the application.

Deadlock is not checked in `gateway_vlc`, `node` and `tx_app_order`, whose packets
are bounded or whose programs may die, nor in `driver_life`, where the life of a
module ends.

`HeldIsResolved` has a premise of its own: `check_unacked` looks at the packets
from `unacked_seq` to `unsched_seq`, which keeps running round, and that it comes
by a given index again and again is a matter of the periods of the two loops (it
sleeps 2 ms, a lap of `unsched_seq` takes eleven minutes), not of fairness.

### Disagreements found

Each is a finding in `PROJECT.json` with the line and the comment it contradicts.

1. `transmit_rf` and `tbf_transmit` update `tbf_queue_length` without a lock. When
   a decrement is lost the counter stays at `LIMIT`, `transmit_rf` moves nothing
   any more and the RF path is dead. (A failed `sendto` has the same effect
   without any race: the count is not taken back.)
2. With more than one transmitter `schedule()` takes the positions of
   `vlc_src_set` for the transmitters in it. After a removal the two differ: the
   transmitter just removed is chosen again, is not found for removal, and
   `vlc_tgt_set` outgrows its allocation. The committed build has one
   transmitter and replaces the result.
3. `TXPRU.p` has `SEQ_NUMBER_LENGTH 24` where the driver writes 4 bytes. The
   firmware assembled from it moves on by 20 bytes too many and takes bytes in
   the middle of a packet for the next one's length (`tx_ring_source`). The
   committed `TXPRU.bin` was built with 4 and works (`tx_ring_binary`); the next
   build of the firmware replaces it.

Other behaviours a reader should know of are in the models, and the properties
around them say exactly how far they go:

* A lost decrement of `n_token` lets one token pay for two packets.
* `schedule_packet` advances `unsched_seq` for an empty queue too, and it wraps, so
  `pkt_state` is set under an index that is not the packet's number, and again in
  the next lap. `unacked_seq` only follows the node, which never goes back: from
  the second lap on, packets with numbers below it count as acknowledged and
  `check_unacked` does not look at them. `NoFalseAck` is true of them as numbers:
  the node has accepted each in some lap, or left it behind.
* What the node gave up when its window slid, and a number it read from a frame
  that could not be corrected, count as delivered for the gateway.
* The push to `vlc_queue` outside the mutex can lose packets, and can leave a size
  without a head; the next pop then ends the gateway.
* In `receive_report` two mistakes cancel out: the acknowledged packet is
  computed one too low, but the bit is compared with the character `'1'`, which
  it never is. Repairing the comparison alone also lets `receive_report` shorten
  the array under `check_unacked`, and `TypeOK` fails. (For the first bit of a
  report with number 0 the packet is -1: the word before the array, where malloc
  keeps part of its size, which is never `VLC_unacked`.)
* A number that a corrupted frame carries indexes `rcv_state` of the node
  unchecked; far out it ends the node, within the page behind the array it moves
  the window there.
* The pattern of a report has no limit but `max_ACK_bit_pattern`, 100000 bits,
  and `sendbuf` has 998 bytes for it: one packet that stays missing, with some
  8000 received after it, overflows the buffer.
* After the window has slid, `rcv_seq` can name a packet that was received.
* `Enqueue` behind the node that `Dequeue` is removing leaves `size` at 1 and
  `head` null, and the next `Dequeue` dereferences it.
* `vlc_tx` can append a packet to a buffer the handler has just released, so that
  the packet is lost (`LossyLink` allows for it).
* The timer may refill the pool between the moment `vlc_get_tx_buffer` takes the
  last buffer and the moment it stops the device queue. `vlc_release_buffer`
  wakes the queue only when it finds the pool empty, which it never is again: the
  queue stays stopped with free buffers. `StoppedForLackIsWoken` is about a queue
  that is stopped with an empty pool, and leaves this case out by its premise.
* An uncorrectable frame is delivered, since the test for it is on an unsigned
  number; `ErrorsAccounted` shows that the node still counts it as uncorrected.
  A repaired frame of another node is delivered to this one.
* `cleanup_module` of the transmitter frees a buffer of the pool twice once a
  packet was sent, and never the packet it began with; it leaks the buffers that
  are in flight while it drains the queue and tears down the pool; and its timer
  goes on after the device and the code's tables were freed, though never without
  the PRU's memory. The receiver's unmaps the PRU's memory under its running
  thread, whose fault is what lets `kthread_stop` return on a silent link; and
  its `init_module` starts the thread without looking whether `rx_pkt` was
  allocated. `FreedOnce`, `CleanupReleasesAll` and `WorkerEquipped` name these
  cases.

## 4. What is proved

Eight modules, `<component>Proofs`, hold theorems that TLAPS checks for every
value of the constants: every queue limit, window, ring, array and number of
buffers, any number of packets, every width of a byte and of an int, every
Reed-Solomon code. Each of them extends the module of its component; the theorems
are about the same `Spec` the runs check and state the same properties.
`TxRingProofs` also extends `VlcFrame` and has the theorems about it: the contents
of the packets in that ring. (That is why the specification of `VlcFrame` is
called `FrameSpec`.) Every safety property that a passing run checks has a
theorem, except the two that are algebra of finite fields.

### Assumptions

| Assumption | What it asks for | Why the code has it |
|---|---|---|
| `GatewayAssumption`, `VlcAssumption`, `NodeAssumption`, `DriverAssumption` | limits, rate, window and arrays are positive numbers; a nonempty finite set of buffers; corrupted numbers are integers | the `#define`s |
| `AppAssumption` | payload length in 16 bits, sequence numbers in 32 | the widths of the fields in the packet; beyond them the bytes cannot carry the number |
| `CodecAssumption` | `CHAR_BIT` and the room for a pattern are positive; `2^(n + 1) = 2 * 2^n` up to it | the second is true of all numbers; it is stated because the provers do not compute powers |
| `LifeAssumption` | buffers of the pool are none of the other resources; what is written are finite strings of characters; an int has at least one bit; powers of two are positive | memory of a process; the last, again, is arithmetic the provers lack |
| `RsAssumption`, `FrameAssumption` | the field polynomial is primitive, fewer roots than symbols; the error label and the destination of dummies are the number of no node; an int holds `EBADMSG`, every number of errors and the payload | `rs_init` refuses another polynomial; the label is 98, the dummies go to 99, nodes count from 1; an int has 32 bits |
| `RxAssumption` | the receive ring holds a whole number of frames, more than one | 60 frames in the deployed one |
| `Fits` (a hypothesis of the theorems about `TxRing`) | driver and firmware agree on the length of a packet, and the ring holds a whole number of them | true of the committed `TXPRU.bin` (60 packets of 100 bytes), not of the committed `TXPRU.p`; see section 3, and `LengthsMustAgree` |

### Theorems

| Module | Theorem | Property | Argument |
|---|---|---|---|
| `GatewayRfProofs` | `TypeCorrect` | `TypeOK` | one lemma per part of `TypeOK`; the history needs that `tbf_transmit` holds a packet when it sends, hence `TypeOK /\ PopNeverNull` is what is inductive |
| | `NoNullPop` | `PopNeverNull` | between its test and its pop a queue is only pushed to, and `Push` never empties a queue |
| | `TokenBucketBounded` | `TokenBounds` | says nothing of the values the two threads hold; `TokenInv` adds that what `add_token` has tested or loaded bounds `n_token` from above until it stores, since only `tbf_transmit` interferes and only decrements, and dually |
| | `SentInOrder` | `AirInOrder` | `OrderInv`: the packets are on seven places (three queues, four hands) from the generator to the air, and each place has a band of numbers of its own, the bands in the order of the places; a step moves a packet across one border (lemmas `PushBand`, `PopBand`) |
| `GatewayVlcProofs` | `GatewayTypeCorrect` | `TypeOK` | `Shape`. The bound of the array is the hard part: `n_unacked` is updated without a lock by two threads, so what each has loaded is bounded too |
| | `AcksAreTrue` | `NoFalseAck` | `Waiting`: every packet below the node's `rcv_seq` was accepted or lies a window behind one that was, which the advance and the slide of `NodeReceive` keep (`FirstOfIs`, `LastOfIs`, `NodeStep`); a report carries `rcv_seq` through encoder and decoder (`WireFields`, `ReportIs`), which makes `Confirmed` true of `unacked_seq`, and since the node only moves on it stays true. A decoded bit is 0 or 1 and never the character `'1'`, so nothing is marked `VLC_acked` |
| | `ResentWithinMarks` | `ResentOncePerMark` | `Resending`: an index that is `VLC_unacked`, and not about to be marked `RF` by `check_unacked`, has been marked at least once more than its packet was resent |
| `NodeReceiverProofs` | `TypeCorrect` | `TypeOK` | `Types` is inductive by itself; `StrayInv`: `rcv_seq` follows what was recorded, and the slide `last_rcv_seq`, so either leaves the array only for a corrupted number there (`ArrivedInv`); `PatternInv` bounds what `send_report` stores |
| | `AckSound` | `CumulativeAckSound` | needs `ArrivedInv`: what is queued, held or recorded has arrived |
| | `AllRecorded` | `ProcessedRecorded` | `RecordInv` extends the property to the moments between the two stores of `process_data` |
| | `ReportsExact` | `StableReportExact` | `ReportInv`: as long as `rcv_seq` is still the report's number, the bits copied so far are those of its window and the index to be read next is theirs |
| | `AckNumbersGrow` | `ReportsAdvance` | `ReportInv`: sent number, number in the buffer and `rcv_seq` are in this order |
| | `ReportsDecode` | `ReportDecodes` | `PatternInv`: whatever `rcv_seq` does meanwhile, a report has as many bits as its length says, none for a negative one. The rest is about the codec: the bits of a byte are read back from their sum because the sum of the lower ones is smaller than the next power, the bytes from the bits of each, and the link qualities behind them from where the length says the pattern ends (`ReportReadBack`, for any number of transmitters) |
| `VlcTxAppProofs` | `SizeStaysNatural` | `SizeNotNegative` | `SizeInv`: `transmit_vlc` works on a nonempty list, and the value `main` has loaded is not negative |
| | `ReportsBelowLimit` | `QueueReportBelowLimit` | `CountInv`: `main` has room when it counts, since nobody else counts up; a lost update only makes the number smaller |
| | `WritesInOrder` | `WrittenInOrder` | `OrderInv`: a link leads to a later packet or nowhere, and what `Dequeue` holds comes after what was written; `DataInv`: a node keeps the packet the gateway sent, which survives three encodings and decodings (`PacketSurvives`) |
| `VlcDriverTxProofs` | `DriverTypeCorrect` | `TypeOK` | one step per access; the walk of `vlc_enqueue_pkt` never leaves the buffers |
| | `BufferAlwaysReady` | `PoolReady` | `PoolInv`: unless the interface was reopened, the pool is empty only with the device queue stopped, or between the store and the stop, whose register is then null |
| | `NoFaultWhileUp` | `pc = "oops" => reopened` | from `PoolInv` |
| | `ListsStayDisjoint` | `ListsDisjoint` | `ListInv`: there are two disjoint sets of buffers closed under `next`, one for each list; packet numbers rise along the one, so the walk ends, and a rank falls along the other. Sets rather than lists, as a buffer the handler releases under the walk may be lost to both |
| | `DriverIsLossyLink` | `IsLossyLink` | refinement from `ListInv`: the head of `tx_queue` is later than all that was delivered |
| `TxRingProofs` | `AlwaysNextPacket` | `SendsNextPacket` | `RingInv`: the indices point to slots of one packet each, and the slots from the reader's to the writer's hold the packets in order; lemma `Slots` and its companions do the arithmetic of the wrap-around once |
| | `LengthsMustAgree` | - | one step of the firmware: where it stores its index, no packet begins, or not the next one |
| | `RingRefines` | `RingIsChannel` | refinement: the distance of the indices is a whole number of packets, smaller than the ring |
| | `AccountedAlways` | `ErrorsAccounted` | needs no algebra: whatever the word, `decode_rs8` returns `-EBADMSG` or a number up to `NROOTS`, as it rejects a number of roots other than `deg_lambda` (`DecodeCounts`); such a number comes through the unsigned variable and the payload as the int it was (`CountTravels`). `LabelInv`: what the node gets is the label of what the decoder returned |
| | `DeliveredIfCorrected` | `DeliveredExactly` | under the hypothesis `[]CorrectsWithinReach`, which the run `frame` checks: the decoder's part is taken from there, and the theorem shows that labelling and tests around it, in two programs, deliver what they should. `SentInv`: what is under way is a frame the transmitter sends, hence not one with the error label |
| `RxRingProofs` | `AlwaysNextFrame`, `RingRefines` | `CopiesNextFrame`, `RingIsChannel` | as above, with the roles of processor and firmware exchanged |
| | `MeasuredOnce` | `SampleFresh` | `Frame_Rx` is set again only by a frame that came in since |
| `DriverLifeProofs` | `WorkerAlwaysEquipped`, `CleanupComplete`, `NeverFreedTwice` | `WorkerEquipped`, `CleanupReleasesAll`, `FreedOnce` | `LifeInv`: for every call of the two functions, of both drivers, which resources are held there (`Stages`), that what was released is not held (`Freed`), where a buffer of the pool is that was not freed, behind the drain only in flight or dropped out (`PoolInv`), and where the worker can run (`WorkerInv`) |
| | `EntryWhole` | `ProcHoldsOneWrite` | `WriteInv`: every process has a buffer and a sum of its own, and the sum is the number the digits read so far spell, as far as an unsigned int holds it; that it wraps around at each digit and not at the end makes no difference (`WrapsLater`) |

The provers have no induction over data. What `NodeReceive`, `WithoutAcked`, the
sums of bits of the codec and the sums of digits of `proc_write` compute is
proved by looking at a least counterexample, which the lemmas `Least` provide,
or by carrying the function itself as a witness in an invariant (`Reading`).
`Chain` is defined by closed sets rather than by following the links, so that the
proof about the lists needs no induction over them.

### Only model-checked

* The liveness properties `TbfServed`, `HeldIsResolved`, `EventuallyReported`,
  `QueuedIsWritten`, `StoppedForLackIsWoken`, `KeepsSending` and `RingMoves`:
  fairness is outside the prover's reach.
* `CorrectsWithinReach` and `DecodeInBounds`: that a Reed-Solomon decoder corrects,
  and that its error locator has no more roots than its degree, is algebra over a
  finite field (that the tables are a field at all, that a polynomial can be
  divided by its roots, that Berlekamp-Massey finds the shortest register), by
  induction over its loops. `DeliveredIfCorrected` has the first as its
  hypothesis; no other theorem depends on either.
* `Scheduler`, whose run shows a disagreement.

## 5. What is not modelled

* The set-up of sockets, printing, `output_data` (its thread is not started),
  and `vlc_ioctl`, `vlc_config`, `vlc_stats`, `vlc_header`, `proc_read` of the
  drivers: no state the other parts depend on.
* `scheduler.c`, `server.c`, `rs.c`, everything named `*_old`, the test
  directories: not built.
* The modulation of single bits (`GETVALUE` in `TXPRU.p`) and, in `RXPRU.p`,
  sampling and the search for a preamble: one transmission is one span of the
  PRU between two accesses to an index, and a frame that is not recognised
  changes nothing.
* Erasures, inversion masks, given syndromes and the 16-bit variants of the
  Reed-Solomon library, which the drivers never use.
* What a program does after it has accessed memory it should not have: the models
  of the node, the gateway and the application end there.
* Preemption of `cleanup_module` inside one round of its loops over the lists.
* Queue limits in the gateway's VLC path, which its bounded packets do not reach.
* Payloads in the gateway's VLC path, hence the payload that `transmit_vlc`
  frees while the copy in `unacked_vlc_packet` points to it; memory consumption
  (the gateway leaks a set of targets per scheduling round).
* Crashes and restarts: no program keeps anything across one. The firmware is
  loaded once, before the drivers.

## 6. Plan

What could be added:

1. `DecodeInBounds` from the field axioms as a hypothesis on the tables, checked
   by TLC for the field of 256 elements the drivers use: a polynomial of degree
   `d` has at most `d` roots, by taking out one root at a time.
2. The same hypothesis would carry the easy half of `CorrectsWithinReach`: a word
   without errors has zero syndromes and is left alone.
3. `Scheduler` with its two mistakes repaired, and `TargetsOnce` proved of it.
