# Flexplane in TLA+

Flexplane emulates resource-management schemes of a datacenter network (queue
management, scheduling, congestion control) for real traffic. A packet of an
application waits at its endpoint until an abstract copy of it has crossed an
emulated network; the packet is then sent, dropped or marked as its copy was.
The system inherits its control protocol from Fastpass, whose arbiter allocates
timeslots.

This directory holds TLA+ modules for the core of that system, TLC
configurations that check them on small instances, and TLAPS proofs of the main
properties of the control connection.

    tlc -workers 2 -config FpProto.cfg MCFpProto     # one run
    tlapm FpEpochProofs.tla                          # proofs, with FpProtoProofs

## 1. The system

Paths are relative to `src/src/`.

| Component | Code | State | Operations |
|---|---|---|---|
| Sliding bit window | `protocol/window.h`, `outwnd.h` | ring of words, summary word, head, count | mark, mark_bulk, clear, reset, advance; searches before and after; 64-bit mask |
| Control connection | `protocol/fpproto.c` | reset time, in_sync, outgoing window, incoming window, timer | prepare, commit, receive, timeout, RESET, forced reset |
| Endpoint qdisc | `kernel-mod/sch_fastpass.c` | five counters per flow, ring of flows to request, pacer | send_request; handlers of ALLOC, A-REQ, ACK, NACK, reset |
| Endpoint timeslot queues | `kernel-mod/sch_timeslot.c` | list of timeslots and next id per flow | enqueue, release by id, renumber |
| Arbiter communication core | `arbiter/comm_core.c` | demands, allocation counts, pending allocations, reports, timers | receive, add backlog, read decided packets, transmit, reset |
| Emulation cores and drivers | `emulation/` | rings, queue banks, two memory pools, batches of decided packets | step of each driver, flush, reset, add backlog |
| Emulated topology, routers, queue managers, schedulers | `emulation/` | routing tables, port masks, queues | route, enqueue, schedule |
| Grant-accept (PIM), pipelined and SJF allocators | `grant-accept/`, `graph-algo/` | edge lists, phases; bins, backlog | iterations across cores |
| Path selection | `graph-algo/` | multigraph | Euler split, edge colouring |
| Timers, pacer, watchdog | `arbiter/fp_timer.h`, `protocol/pacer.h`, `arbiter/watchdog.h` | timer wheel, credit, last heard | set, cancel, expire; trigger, reset; failover |

How they interact:

- An application's packet makes a *timeslot* at the endpoint. The endpoint counts
  it in the *demand* of its flow and requests it with an A-REQ, a cumulative count
  truncated to 16 bits.
- The arbiter rebuilds the count and adds one abstract packet per new timeslot to
  the emulation, numbered with the low 16 bits of the count.
- The emulation admits or drops the packet. The arbiter sends an ALLOC naming the
  id, and a report (an A-REQ in the other direction) with its cumulative count.
- The endpoint looks the id up in the list of the flow and releases the timeslot.
- All of that travels in packets of the control connection, which are sequenced
  and acknowledged selectively. A packet is not retransmitted: its owner is told
  that it was lost, and asks again. A *reset* starts a new *epoch*, named by the
  time of the reset, with new sequence numbers and zero counts on both sides.

What makes it hard:

- Resets and restarts, on either side, while packets of earlier epochs are in
  flight.
- The endpoint runs three threads (enqueue, maintenance tasklet, receive path).
  The connection lock is dropped between the halves of sending and between the
  halves of receiving.
- The numbering of timeslots is derived twice, from the list at the endpoint and
  from the demand at the arbiter.
- Recovery from loss spans five mechanisms: timeout, skipped ACK, NACK, reports,
  and repeated cumulative requests.
- Emulation cores share rings and two pools with the communication core, and
  some of them wait in loops for one another.

The correctness properties worth having follow from this list: at-most-once
processing, honest ACKs, agreement on the epoch after any disturbance, no packet
forgotten or reported twice, one numbering of timeslots, each timeslot released
once and by its own packet, progress under loss, memory conserved and no cores
waiting for one another. `PROJECT.json` lists the places in the code where each
could go wrong.

## 2. Modules

| Module | Models | Role |
|---|---|---|
| `FpWindow` | `window.h`, word by word | component; refines `FpWindowSpec` |
| `FpWindowSpec` | a set of marks within a window | abstract specification |
| `FpResetRules` | how a side judges reset times | shared operators |
| `FpResync` | epochs of the two sides | abstract specification, with liveness |
| `FpConn` | operations on `struct fpproto_conn` | operators, used twice below |
| `FpProto` | two connections and a network | component; refines `FpResync` |
| `FpProtoProofs`, `FpEpochProofs` | | proofs about `FpProto` |
| `SchFastpass` | endpoint counters, request queue, timeslot lists | operators |
| `CommCore` | arbiter state for one endpoint | operators |
| `ControlPlane` | endpoint threads, connection, network, communication core | composition |
| `EmuService` | what the arbiter relies on from the emulation | abstract specification |
| `Emulation` | rings, drivers, routers, cores, batches | component; refines `EmuService` |
| `MCFpProto`, `MCFpResync`, `MCEmulation` | | values of constants for TLC |

Definitions keep the names of the code. A definition whose comment begins with
*Mutant* is a plausible bug of the definition after it; each checked property is
violated when one of them takes its original's place.

### FpWindow

A machine word is the set of its one-bits, so `__ffs` is a minimum and a shift
is a translation. Sequence numbers wrap, and comparisons are the signed
ones of the code. The guards of the operations are obligations of the callers:
they mark unmarked numbers inside the window and leave no mark behind a head that
advances (`SlotStaysFree` below discharges them for the connection). The
`FASTPASS_BUG_ON`s only log, so they guard nothing. Instance: 3 words of 3 bits,
36 sequence numbers. There the window wraps round the ring, a bulk mark covers a
whole word between two partial ones, and the head moves by more than the whole
ring.

One corner of the code is in the model as it is. `wnd_advance` subtracts two
word counts as `u64`, and when the head crosses 2^64 the difference is huge. The
code then takes the branch for a move of more than the ring: it clears all marks
and the summary and keeps `num_marked`. A connection starts at a hash of its
reset time, so the crossing is possible, though it needs a start within reach of
the end. The ghost `dropped` counts the marks lost there since the last reset.

### FpConn and FpProto

A connection is a record with the fields of the C struct. Sequence numbers are
counted from the base that the reset time determines, so the first packet of an
epoch has number 1. The checksum is taken to be exact: a packet passes when the
numbers rebuilt from 16 bits, and the epoch, are those of the sender.
`SeqSpan` and `SeqBack` are the width of the field and the offset of the
reconstruction. Acknowledgements keep the run-length limit of the format: the
newest packet, `AckHi` bits one by one, and one bit for all older ones.

The network is a set that only grows: every packet may arrive any number of
times, in any order, or never. The actions are:

| Action | Code |
|---|---|
| `PrepareToSend`, `CommitPacket` | the endpoint's two halves, with the lock dropped in between |
| `TxEndNode` | both halves, on the arbiter's single thread |
| `HandleRxPacket` | `fpproto_handle_rx_packet` to `fpproto_successful_rx` |
| `HandleTimeout` | any prefix of the waiting packets has timed out |
| `ForceReset`, `Restart` | `fpproto_force_reset`; `fpproto_init_conn` |
| `Tick` | time |

`HandleRxPacket` is one step here. In `ControlPlane` the endpoint's receive path
is three steps, since its callbacks may reset the connection in the middle.

### SchFastpass, CommCore and ControlPlane

`q` is the endpoint's scheduler, `en` the arbiter's state for that endpoint.
Counts are full integers at each side and are truncated and rebuilt where the
code does so (`full_count`). A timeslot carries a ghost number that survives
renumbering, and an abstract packet carries the number of the timeslot it was
made for; `OwnFate` compares the two.

| Action | Thread | Code |
|---|---|---|
| `Enqueue`, `AddTimeslot` | enqueue | the list under `hash_tbl_lock`, then `flow_inc_demand` without it |
| `MaintenanceTasklet`, `SendRequestFlow`, `SendRequestCommit` | maintenance | `send_request`, which gathers flow by flow outside `conn_lock` |
| `CtrlRcvHandle`, `CtrlRcvCallbacks` or `CtrlRcvIncomplete`, `CtrlRcvSuccessful` | receive | the three parts of `ctrl_rcv_handler` |
| `CommRx`, `TxEndNode`, `Allocate` | communication core | receive, `tx_end_node`, `process_allocated_traffic` |
| `RetransTimeout`, `Lose`, `RestartEndpoint`, `RestartArbiter` | timer, environment | |

The emulation is the set `en.backlog` here: `Allocate` decides any packet of it.
That is the view `EmuService` gives, which `Emulation` is shown to implement.

### Emulation

Every core runs a program, the list of ring operations that its drivers make in
a timeslot, followed by the flush. Each ring operation is a step, so cores
interleave at every point where they can see one another. Rings and queues have
capacities; a bulk enqueue takes all or nothing, and packets that do not fit are
freed, as with `DROP_ON_FAILED_ENQUEUE`, the default. `flush` waits in two loops,
for room in `q_admitted` and for an empty batch, and `reset_sender` waits in one.
The router is drop-tail with one queue per port. A ToR whose uplink mask is zero (one
rack, or racks of one) sends everything down, as in the code. The shuffle of a router's burst
is a choice over all permutations. `fates`, `silent`, `early` and `gen` are
ghosts.

## 3. Runs

Times are with two workers.

| Run | Configuration | Result | States |
|---|---|---|---|
| `window` | `FpWindow.cfg` | holds | 13,824 in 75 s |
| `resync` | `FpResync.cfg` | holds, with liveness | 162,932 in 1.5 min |
| `proto` | `FpProto.cfg` | holds | 108,218 in 22 s |
| `proto_skew` | `FpProtoSkew.cfg` | counterexample | |
| `plane_quiet` | `PlaneQuiet.cfg` | holds, with liveness | 218,874 in 2 min |
| `plane_restart` | `PlaneRestart.cfg` | holds | 758,299 in 1.5 min |
| `plane_race` | `PlaneRace.cfg` | counterexample | |
| `plane_leftover` | `PlaneLeftover.cfg` | counterexample to liveness | |
| `emu_one_core` | `EmuOneCore.cfg` | holds, with liveness | 413,754 in 2.5 min |
| `emu_racks` | `EmuRacks.cfg` | holds, with liveness | 156,712 in 2.5 min |
| `emu_reset` | `EmuReset.cfg` | counterexample | |
| `emu_full` | `EmuFull.cfg` | counterexample | |

**window.** The summary word and the ring follow the marks, and the count exceeds
them by exactly what a crossing of 2^64 has dropped (`Representation`). Each
search finds what the set of marks says, from every position at which a caller may
start it (`SearchesAgree`); the one exception is a search from before a window
that a crossing has emptied, where the code takes `__fls(0)`. Each operation, with
the arguments it is called with, is the operation of the same arguments on the
set (`RefinesSet`).

**resync.** After any finite number of restarts and forced resets the sides agree
on an epoch and stay there (`EventuallyInSync`). Fairness: each side keeps
sending, as pending work, bad packets and RESETs all trigger packets; what it
keeps sending arrives in the end; what it no longer sends leaves the network;
time passes.

**proto.** `AtMostOnce`, `AckedWasDelivered`, `EpochsGrow`, `SlotStaysFree`,
`NothingForgotten`, `NotifiedOnce`, and the refinement of `FpResync`. Windows of
two packets and three packets in all let a packet fall off a full window, an ACK
overtake another, and two resets happen with packets of both earlier epochs in
flight. The two clocks agree; that assumption matters:

**proto_skew.** With the endpoint's clock one unit behind, an endpoint that
restarts chooses an epoch *below* the one it left. The other side's RESET then takes
it back to its former epoch with fresh sequence numbers, and an old ACK
acknowledges a packet that was never delivered.

**plane_quiet.** Two flows, two timeslots, and either one packet lost anywhere or
one request prepared while the receive path is at work on a packet. A timeslot is
released by its own packet (`OwnFate`), no abstract packet is without a timeslot
(`NoPhantom`), what the endpoint takes to be acknowledged the arbiter has
registered (`AckedIsRegistered`), the `FASTPASS_BUG_ON` of `handle_ack` stays
silent (`NoBugOn`), and all timeslots are released (`AllReleased`). Counts are
modulo 8, requests are limited to a window of 3 and one flow fits a request, so
the second flow waits for another packet.

Fairness of the control plane: every thread runs, pacers and timers fire, the
network delivers what is not lost, the emulation decides every packet. A
retransmission timer fires when no answer is under way, `MaxLate` times
excepted: the code's timeouts are longer than a round trip.

**plane_restart.** Either side restarts at any point, with a loss or an overlap of
the two threads as above. One allocation fits a packet, so some are left over
when a reset comes and are sent in the next epoch, where a packet that ends with
them is rejected and forced resets follow from the reports. Demand not yet
used equals the length of the list (`DemandIsWaiting`), ids follow the demand
(`IdsFollowDemand`), and `tsq_handle_now` never returns with `hash_tbl_lock` held
(`NeverStuck`). These are properties of the endpoint. The relation between the
two sides is weaker after a reset: the endpoint's `handle_reset` leaves the counters
of a flow without pending timeslots as they are, while the arbiter zeroes all of
its own, and an allocation of the former epoch may release a timeslot of the new
one. So `AckedIsRegistered` and `OwnFate` are checked without resets.

**plane_race.** The maintenance tasklet gathers its requests outside `conn_lock`.
A reset in that gap rebases the counters; the packet with the old counts is
committed in the new epoch, and its ACK fires the assertion of `handle_ack`.

**plane_leftover.** More allocations are pending than fit a packet
(`MaxAllocs` = 1 here, 63 in the code). The report of the flow is sent with the
first packet and nothing triggers the second, though a comment relies on it.

**emu_one_core.** One rack of two endpoints, everything on one core, three
packets, two resets, tight rings and queues. Memory is conserved (`NoLeak`), a flow
stays in order although routers shuffle (`FlowOrder`), a packet crosses one hop per
timeslot (`NoEarlyPull`), no packet has two fates (`RefinesService`) and each is
decided or freed (`AllDecided`). The communication core may be spinning on a full
reset ring. Deadlock is checked. It is avoided because the resets handled in one
iteration of the communication core's loop do not exceed what the reset ring
holds and the batches suffice for the flushes of one timeslot; with a larger burst
of resets (`RxBurst` = 2, `ResetCap` = 1), or with `AdmPool` = 2 and `AdmCap` = 1,
the two sides do wait for each other.

**emu_racks.** Two racks of two and the core router on three cores, one flow
across. A packet arrives in the rack of its destination (`RightRack`), and the
masks, rings and routes, which the code sets up in three places, agree
(`AllDecided`). The masks are literals in the code, 32 ports for each half; the
routes depend on the size of a rack. They agree for racks of 32, the only size
`control.cc` configures, and `MaskHalf` = `RackSize` stands for that.
`FlowOrder` is not claimed for several cores: a router may take two packets of
one flow in a burst.

Fairness of the emulation: each core runs for ever and so does the loop of the
communication core. A core that spins for a batch while batches keep coming back
gets one (strong fairness of `FlushGet`): cores spin on the same mempool and
none of them is favoured.

**emu_reset.** A driver empties the reset ring before it reads new packets. A reset
and then a packet written between the two are applied in the other order, and
the new packet is freed.

**emu_full.** The core router takes in one rack's burst per timeslot, from a ring
that all racks fill. Under load the ring is full and the drivers free packets
with no notice to the sender.

### Bounds

Bounds named `Max...` limit time, packets, restarts and losses. They are guards
of the actions of the environment, so a run explores every behaviour up to them.
The instances are small for the usual reason: two sides, two flows and two or
three packets are enough for one thing to overtake another, for one to be lost
while the other arrives, and for a window, ring, pool or batch of capacity one or
two to be full. `CHECK_DEADLOCK FALSE` appears for the connection and the control
plane, where a system with nothing left to send, or whose packet bound is used
up, may stop.

## 4. Proofs

Both proof modules are about `FpProto`, for every window length, field width,
threshold, number of packets, and set of start times. The assumptions are the
named `ASSUME`s of `FpResetRules`, `FpConn` and `FpProto`: constants are numbers
of the right sign and no side was started in the future.

| Theorem | Statement | Clocks |
|---|---|---|
| `TypeCorrect` | `Spec => []TypeOK` | any |
| `SlotFree` | `Spec => []SlotStaysFree` | any |
| `Remembered` | `Spec => []NothingForgotten` | any |
| `ReportedOnce` | `Spec => []NotifiedOnce` | any |
| `EpochsOnlyGrow` | `Spec => EpochsGrow` | agree |
| `ProcessedAtMostOnce` | `Spec => []AtMostOnce` | agree |
| `AcknowledgedWasDelivered` | `Spec => []AckedWasDelivered` | agree |

**The sending side** (`FpProtoProofs`). The inductive invariant `SendInv` holds of
each connection by itself. None of the four properties is inductive. That no packet
is reported lost twice depends on where `next_timeout` stands: the packets before
it, and only those, have been reported (`WindowInv`). That none is forgotten
depends on the timer running while a packet at or after `next_timeout` waits
(`TimerInv`). That the slot stays free depends on the window holding nothing below
its edge. There is one lemma per operation of `FpConn` (`TimeoutInv`,
`PrepareInv`, `CommitInv`, `AckInv`, `RxInv`, ...), and `SendStep` assembles them,
one step per action.

**Epochs** (`FpEpochProofs`). The invariant `EpochInv` relates the two sides
through the network. No side is in an epoch that has not begun (`ClocksInv`). A
packet in the network is of an epoch its sender has left, or of the present one,
and then of its present incarnation and not numbered beyond its head (`NetInv`). What a
side has processed in its epoch, `in_max` and `inwnd` still tell (`SeenInv`). What
`inwnd` marks, and what any ACK ever sent claims, was processed (`MarksInv`). The
central fact is `VerdictGrows`: when no side is ahead of the clock, every verdict
on a RESET that changes the epoch increases it. So an epoch is never entered
twice, sequence numbers within it are unique, and an ACK cannot be mistaken for
one of another incarnation. Steps are of three kinds, each with its lemma: those
that stay in the epoch and receive nothing (`QuietStep`), those that start an
epoch (`RenewStep`), and the acceptance of a packet (`AcceptStep`).

The assumption on the clocks, `NoSkew`, is needed: `proto_skew` shows
`AckedWasDelivered` false without it.

Only model-checked: all of `FpWindow`, `ControlPlane` and `Emulation`, the
three refinements, and every liveness property. Liveness under fairness is out of the
prover's reach.

## 5. Not modelled

- Byte layouts, checksums and the kernel socket; `ControlPlane` starts from the
  decoded packet. One layout rule is kept, since it loses packets: `process_alloc`
  rejects an ALLOC that ends the packet (`CtrlRcvIncomplete`).
- Per-request and per-allocation data of schemes that have them (`areq_data`,
  marks). The emulated packet's fate is admit or drop.
- The pending-allocations ring and its counters: `en.pending` is unbounded.
- Garbage collection of flows, packing of skbs, the prequeue, statistics, logs,
  proc files, command lines, DPDK set-up, Python bindings, experiment programs.
- ARP, IGMP and Ethernet handling of the arbiter.

## 6. Plan

Built so far: the connection, the control plane, the core of the emulation, and
the proofs about the connection. Next, in this order:

1. **Emulation in detail.** `EmuTopology` for two to eight racks: routing tables,
   port masks, ring assignment and the map from cores to communication cores
   (`CoreRoutingTable.h` says its `route` "must be kept consistent with
   set_core_port_masks"). `QueueBank` with its bit masks. The other queue managers
   and schedulers (RED, DCTCP, priority, round-robin, pFabric, LSTF, HULL).
2. **Allocators.** The pipelined allocator with the backlog shared by the
   communication core and an allocator core: exactly one of them enqueues a flow
   that becomes non-empty. The grant-accept phases of PIM under their barrier.
3. **Timers.** The timer wheel of `fp_timer.h`, the pacer, and the watchdog with
   its failover.
4. **Endpoint and arbiter details.** The pending-allocations ring, the totals that
   `handle_reset` and `flow_inc_demand` update without a common lock, garbage
   collection of flows, the prequeue.
5. **Proofs.** `DemandIsWaiting` and `IdsFollowDemand` for the endpoint; `NoLeak`
   and the refinement of `EmuService` for the emulation; the refinement of
   `FpResync`; the representation invariant of `FpWindow`.
