------------------------------- MODULE Emulation -------------------------------
(***************************************************************************)
(* The network emulation of src/emulation: the comm core feeds packets and *)
(* resets through rings; each emulation core steps the endpoint groups and *)
(* routers assigned to it (EmulationCore::step) and flushes a batch of     *)
(* admitted and dropped packets per timeslot.  Rings are bounded,          *)
(* single-entry operations on them are atomic, and everything a driver     *)
(* does between two ring operations is local to its core.                  *)
(*                                                                         *)
(* A queue bank is a FIFO per output port.  The topology is that of one or *)
(* two racks: a ToR has one port per endpoint below it and, with two racks, *)
(* one uplink per endpoint; the core router has one link per endpoint.     *)
(* DROP_ON_FAILED_ENQUEUE is defined, as in config.h.                      *)
(***************************************************************************)
EXTENDS Integers, Sequences, FiniteSets, SequencesExt

CONSTANTS
  Racks,        \* num_racks; a core router joins them when there are several
  RackSize,     \* endpoints_per_rack, and the burst size of every driver
  MaskHalf,     \* ports in one half of the literal 64-bit port masks (32)
  Spread,       \* "one", "rack" or "each": how drivers are put on cores
  RingCap,      \* capacity of every ring of packets
  ResetCap,     \* capacity of q_resets
  PoolSize,     \* PACKET_MEMPOOL_SIZE
  AdmPool,      \* batches in admitted_traffic_mempool
  AdmCap,       \* capacity of q_admitted
  AdmitsPerAdmitted,
  EpCap,        \* q_capacity of the endpoints' queues
  RtrCap,       \* q_capacity of the routers' queues
  RxBurst,      \* resets the comm core may handle between two looks at q_admitted
  MaxPkts,      \* bound: packets added in all
  MaxAmount,    \* bound: MTUs of one add_backlog call
  MaxResets,    \* bound: reset_sender calls
  Flows,        \* the <<src, dst>> pairs with traffic
  Resetters     \* the endpoints whose connection is reset

ASSUME BoundsAssumption ==
  /\ {Racks, RackSize, MaskHalf, RingCap, ResetCap, PoolSize, AdmPool, AdmCap,
      AdmitsPerAdmitted, EpCap, RtrCap, RxBurst, MaxPkts, MaxAmount} \subseteq Nat \ {0}
  /\ MaxResets \in Nat
  /\ Racks \in 1 .. 2 /\ \E rack_shift \in 0 .. RackSize : RackSize = 2 ^ rack_shift
  /\ Spread \in {"one", "rack", "each"}
  /\ Flows \subseteq (0 .. Racks * RackSize - 1) \X (0 .. Racks * RackSize - 1)
  /\ Resetters \subseteq 0 .. Racks * RackSize - 1

Rack == 0 .. Racks - 1
Endpoint == 0 .. Racks * RackSize - 1
rack_of(e) == e \div RackSize
Idle == -1
CoreRouter == Racks
Router == IF Racks = 1 THEN Rack ELSE Rack \cup {CoreRouter}

\* struct emu_packet; gen is a ghost: the resets of src before it was added
Packet == [src : Endpoint, dst : Endpoint, id : 1 .. MaxPkts, gen : 0 .. MaxResets]

-----------------------------------------------------------------------------
\* Names of the rings and of the queues of the banks.

Ring == ({"new", "resets", "epg"} \X Rack) \cup ({"rtr"} \X Router)

\* tor_ports and core_router_ports
RouterPort(k) ==
  0 .. (IF k # CoreRouter /\ Racks = 1 THEN RackSize ELSE 2 * RackSize) - 1

Queue == ({"ep"} \X {0} \X Endpoint)
         \cup UNION {{"rt"} \X {k} \X RouterPort(k) : k \in Router}

\* The hash that picks one of the links between a ToR and the core router: of
\* the packet's source, destination and flow, so it is one link for all of a
\* flow's packets.  As a mask, RackSize - 1 is a remainder.
link_of(p) == (7 * p.src + 9 * p.dst) % RackSize

tor_uplink_mask == IF Racks = 1 THEN 0 ELSE RackSize - 1

\* Mutant: a ToR takes every destination for one of its own rack
route_always_down(k, p) ==
  IF k = CoreRouter THEN link_of(p) + rack_of(p.dst) * RackSize ELSE p.dst % RackSize

\* CoreRoutingTable::route, for two ToRs, and TorRoutingTable::route
route(k, p) ==
  IF k = CoreRouter THEN link_of(p) + rack_of(p.dst) * RackSize
  ELSE IF tor_uplink_mask = 0 \/ rack_of(p.dst) = k THEN p.dst % RackSize
  ELSE link_of(p) + RackSize

\* Mutant: the low half of a mask misses its last port
port_masks_short == <<0 .. MaskHalf - 2, MaskHalf .. 2 * MaskHalf - 1>>

\* 0xFFFFFFFF and 0xFFFFFFFF00000000, whatever the size of a rack
port_masks == <<0 .. MaskHalf - 1, MaskHalf .. 2 * MaskHalf - 1>>

\* set_tor_port_masks and set_core_port_masks, for two ToRs
set_port_masks ==
  IF Racks = 2 THEN port_masks
  ELSE IF RackSize <= MaskHalf THEN <<port_masks[1]>>
  ELSE <<port_masks[1] \cup port_masks[2]>>

\* The ring that leads to each neighbour of a router, in the order of the masks
\* (assign_components_to_cores)
q_router_egress(k) ==
  IF k = CoreRouter THEN [j \in 1 .. Racks |-> <<"rtr", j - 1>>]
  ELSE IF Racks = 1 THEN <<<<"epg", k>>>>
  ELSE <<<<"epg", k>>, <<"rtr", CoreRouter>>>>

\* The neighbours of a router: the ring to each, and the ports that face it.
neighbors ==
  [k \in Router |-> [j \in DOMAIN q_router_egress(k) |->
     [to |-> q_router_egress(k)[j],
      ports |-> SetToSortSeq(set_port_masks[j] \cap RouterPort(k), <)]]]

-----------------------------------------------------------------------------
\* The program of each core: EndpointDriver::step and RouterDriver::step,
\* one entry per ring operation, then the flush that ends the timeslot.

epg_step(r) == <<<<"reset", r>>, <<"push", r>>, <<"pull", r>>, <<"new", r>>>>

\* Mutant: what was just pushed can be pulled
router_step_push_first(k) ==
  <<<<"rpush", k>>>> \o [j \in 1 .. Len(neighbors[k]) |-> <<"rpull", k, j>>]

router_step(k) ==
  [j \in 1 .. Len(neighbors[k]) |-> <<"rpull", k, j>>] \o <<<<"rpush", k>>>>

in_order(f, n) == FlattenSeq([i \in 1 .. n |-> f[i - 1]])

epg_drivers == [r \in Rack |-> epg_step(r)]
router_drivers == [k \in Router |-> router_step(k)]

\* assign_components_to_cores
programs ==
  LET fl == <<<<"flush">>>>
      epgs == [i \in 1 .. Racks |-> epg_drivers[i - 1] \o fl]
      rtrs == [i \in 1 .. Cardinality(Router) |-> router_drivers[i - 1] \o fl]
      both == [i \in 1 .. Racks |-> epg_drivers[i - 1] \o router_drivers[i - 1] \o fl]
  IN CASE Spread = "each" -> epgs \o rtrs
       [] Spread = "rack" -> both \o SubSeq(rtrs, Racks + 1, Len(rtrs))
       [] OTHER -> <<in_order(epg_drivers, Racks)
                     \o in_order(router_drivers, Cardinality(Router)) \o fl>>

Core == 1 .. Len(programs)

-----------------------------------------------------------------------------
VARIABLES
  comm,      \* spin: Idle, or the endpoint whose reset waits for a full ring;
             \* left: resets it may still handle in this iteration of its loop
  next_id,   \* the last id given to each source
  gen,       \* ghost: reset_sender calls for each source
  ring,      \* contents of each ring
  bank,      \* contents of each queue of each bank
  pool,      \* packets left in packet_mempool
  core,      \* per core: pc, packets in hand, the batch being filled
  q_admitted,\* per core, the ring of flushed batches
  adm_pool,  \* batches left in admitted_traffic_mempool
  fates,     \* ghost: what the comm core has read from the batches
  silent,    \* ghost: packets freed with no notice, <<packet, why>>
  early      \* ghost: packets pulled in the timeslot they were pushed in

emu == <<ring, bank, pool, core, silent, early>>
vars == <<comm, next_id, gen, ring, bank, pool, core, q_admitted, adm_pool,
          fates, silent, early>>

Init ==
  /\ comm = [spin |-> Idle, left |-> RxBurst]
  /\ next_id = [e \in Endpoint |-> 0]
  /\ gen = [e \in Endpoint |-> 0]
  /\ ring = [r \in Ring |-> <<>>]
  /\ bank = [q \in Queue |-> <<>>]
  /\ pool = PoolSize
  /\ core = [c \in Core |-> [pc |-> 1, hand |-> <<>>, batch |-> <<>>,
                             held |-> TRUE, pushed |-> {}]]
  /\ q_admitted = [c \in Core |-> <<>>]
  /\ adm_pool = AdmPool - Len(programs)
  /\ fates = {} /\ silent = {} /\ early = {}

\* fp_ring_enqueue_bulk: all of the packets or none
room(r, n) == Len(ring[r]) + n <= RingCap

free_silently(pkts, why) == silent \cup {<<p, why>> : p \in pkts}

-----------------------------------------------------------------------------
\* The comm core.

\* Emulation::add_backlog, for an amount within one batch of
\* EMU_ADD_BACKLOG_BATCH_SIZE.  Only this core takes packets from the pool
\* and fills this ring, so its two operations are one step.
AddBacklog(src, dst, amount) ==
  LET r == <<"new", rack_of(src)>>
      pkts == [i \in 1 .. amount |->
                 [src |-> src, dst |-> dst, id |-> next_id[src] + i, gen |-> gen[src]]]
  IN
  /\ comm.spin = Idle
  /\ FoldFunction(+, 0, next_id) + amount <= MaxPkts
  /\ next_id' = [next_id EXCEPT ![src] = @ + amount]
  /\ IF pool >= amount /\ room(r, amount)
     THEN /\ ring' = [ring EXCEPT ![r] = @ \o pkts]
          /\ pool' = pool - amount
          /\ UNCHANGED silent
     ELSE /\ silent' = free_silently(Range(pkts), "refused")
          /\ UNCHANGED <<ring, pool>>
  /\ UNCHANGED <<comm, gen, bank, core, q_admitted, adm_pool, fates, early>>

\* Emulation::reset_sender, up to its first attempt
ResetSender(src) ==
  LET r == <<"resets", rack_of(src)>> IN
  /\ comm.spin = Idle
  /\ comm.left > 0
  /\ FoldFunction(+, 0, gen) < MaxResets
  /\ gen' = [gen EXCEPT ![src] = @ + 1]
  /\ IF Len(ring[r]) < ResetCap
     THEN /\ ring' = [ring EXCEPT ![r] = Append(@, src)]
          /\ comm' = [comm EXCEPT !.left = @ - 1]
     ELSE /\ comm' = [spin |-> src, left |-> comm.left - 1]
          /\ UNCHANGED ring
  /\ UNCHANGED <<next_id, bank, pool, core, q_admitted, adm_pool, fates, silent, early>>

\* Emulation::reset_sender, the retry that succeeds
RetryReset ==
  /\ comm.spin # Idle
  /\ LET r == <<"resets", rack_of(comm.spin)>> IN
       Len(ring[r]) < ResetCap /\ ring' = [ring EXCEPT ![r] = Append(@, comm.spin)]
  /\ comm' = [comm EXCEPT !.spin = Idle]
  /\ UNCHANGED <<next_id, gen, bank, pool, core, q_admitted, adm_pool, fates, silent, early>>

\* rte_mempool_put_bulk of the batches read from one core
put_back(c) == Len(q_admitted[c])

\* process_allocated_traffic: read the batches of every core and put them
\* back; the next iteration of the comm core's loop follows
ProcessAllocated ==
  LET got == UNION {Range(q_admitted[c]) : c \in Core} IN
  /\ comm.spin = Idle
  /\ fates' = fates \cup UNION {Range(b) : b \in got}
  /\ adm_pool' = adm_pool + FoldFunction(+, 0, [c \in Core |-> put_back(c)])
  /\ q_admitted' = [c \in Core |-> <<>>]
  /\ comm' = [comm EXCEPT !.left = RxBurst]
  /\ UNCHANGED <<next_id, gen, emu>>

-----------------------------------------------------------------------------
\* The emulation cores.

\* Core c is at an entry of its program with nothing left of the last one.
at(c, what) ==
  /\ core[c].hand = <<>>
  /\ core[c].held
  /\ programs[c][core[c].pc][1] = what

arg(c) == programs[c][core[c].pc][2]

advance(k, c) == [k EXCEPT !.pc = (@ % Len(programs[c])) + 1]

shared == <<comm, next_id, gen, q_admitted, adm_pool, fates>>

\* SimpleEndpointGroup::reset, for one entry of q_resets
HandleReset(c) ==
  /\ at(c, "reset")
  /\ LET r == <<"resets", arg(c)>>
         q == <<"ep", 0, Head(ring[r])>>
     IN /\ ring[r] # <<>>
        /\ ring' = [ring EXCEPT ![r] = Tail(@)]
        /\ bank' = [bank EXCEPT ![q] = <<>>]
        /\ pool' = pool + Len(bank[q])
        /\ silent' = free_silently(Range(bank[q]), "reset")
  /\ UNCHANGED <<shared, core, early>>

ResetsDone(c) ==
  /\ at(c, "reset")
  /\ ring[<<"resets", arg(c)>>] = <<>>
  /\ core' = [core EXCEPT ![c] = advance(@, c)]
  /\ UNCHANGED <<shared, ring, bank, pool, silent, early>>

\* fp_ring_dequeue_burst of r into the core's hands: hand is the burst, each
\* packet with where it is to go, the sink or a queue.
take_burst(c, r, hand) ==
  /\ ring' = [ring EXCEPT ![r] = SubSeq(@, Len(hand) + 1, Len(@))]
  /\ core' = [core EXCEPT ![c] = [advance(@, c) EXCEPT !.hand = hand]]
  /\ UNCHANGED <<shared, bank, pool, silent, early>>

\* Mutant: a router takes a whole burst or nothing
burst_bulk(r) ==
  IF Len(ring[r]) >= RackSize THEN RackSize
  ELSE IF r[1] = "rtr" THEN 0 ELSE Len(ring[r])

\* fp_ring_dequeue_burst: how many entries m_burst_size lets through
burst(r) == IF Len(ring[r]) < RackSize THEN Len(ring[r]) ELSE RackSize

\* EndpointDriver::push: packets from the router go to the sink
EpgPush(c) ==
  /\ at(c, "push")
  /\ LET r == <<"epg", arg(c)>> IN
       take_burst(c, r, [i \in 1 .. burst(r) |-> <<ring[r][i], <<"sink">>>>])

\* EndpointDriver::process_new: each new packet to its source's queue
EpgNew(c) ==
  /\ at(c, "new")
  /\ LET r == <<"new", arg(c)>> IN
       take_burst(c, r, [i \in 1 .. burst(r) |-> <<ring[r][i], <<"ep", 0, ring[r][i].src>>>>])

\* RouterDriver::step, the push: the burst is shuffled, then routed
RouterPush(c) ==
  /\ at(c, "rpush")
  /\ LET r == <<"rtr", arg(c)>> IN
       \E perm \in SetToSeqs(1 .. burst(r)) :
         take_burst(c, r, [i \in DOMAIN perm |->
           LET p == ring[r][perm[i]] IN <<p, <<"rt", arg(c), route(arg(c), p)>>>>])

\* Mutant: the packets that did not fit are not returned to the pool
pool_after_leak(sent, n) == pool

\* free_packet_bulk, when an enqueue failed
pool_after(sent, n) == IF sent THEN pool ELSE pool + n

\* composite_pull_batch and the enqueue_bulk that follows it: the head of every
\* non-empty queue of qs, in order, goes to ring r; when they do not all fit
\* they are freed.
pull_batch(c, qs, r) ==
  LET ready == SelectSeq(qs, LAMBDA q : bank[q] # <<>>)
      pkts == [i \in 1 .. Len(ready) |-> Head(bank[ready[i]])]
      sent == room(r, Len(pkts))
  IN
  /\ bank' = [q \in Queue |-> IF q \in Range(ready) THEN Tail(bank[q]) ELSE bank[q]]
  /\ ring' = IF sent THEN [ring EXCEPT ![r] = @ \o pkts] ELSE ring
  /\ pool' = pool_after(sent, Len(pkts))
  /\ silent' = IF sent THEN silent ELSE free_silently(Range(pkts), "full")
  /\ early' = early \cup (Range(pkts) \cap core[c].pushed)
  /\ core' = [core EXCEPT ![c] = advance(@, c)]
  /\ UNCHANGED shared

\* EndpointDriver::pull
EpgPull(c) ==
  /\ at(c, "pull")
  /\ pull_batch(c, [i \in 1 .. RackSize |-> <<"ep", 0, arg(c) * RackSize + i - 1>>],
                <<"rtr", arg(c)>>)

\* RouterDriver::step, the pull for one neighbour
RouterPull(c) ==
  /\ at(c, "rpull")
  /\ LET nb == neighbors[arg(c)][programs[c][core[c].pc][3]]
     IN pull_batch(c, [i \in DOMAIN nb.ports |-> <<"rt", arg(c), nb.ports[i]>>], nb.to)

q_capacity(q) == IF q[1] = "ep" THEN EpCap ELSE RtrCap

\* Mutant: off by one
has_space_off_by_one(q) == Len(bank[q]) <= q_capacity(q)

\* DropTailQueueManager::enqueue, its condition
has_space(q) == Len(bank[q]) < q_capacity(q)

\* The next packet in hand goes to its queue
EnqueuePacket(c) ==
  /\ core[c].hand # <<>> /\ core[c].held
  /\ Len(core[c].batch) < AdmitsPerAdmitted
  /\ LET p == core[c].hand[1][1]
         q == core[c].hand[1][2]
     IN /\ q # <<"sink">>
        /\ has_space(q)
        /\ bank' = [bank EXCEPT ![q] = Append(@, p)]
        /\ core' = [core EXCEPT ![c].hand = Tail(@), ![c].pushed = @ \cup {p}]
  /\ UNCHANGED <<shared, ring, pool, silent, early>>

\* Mutant: the packet is freed before the flush and again after it
pool_decided_twice(full) == pool + 1

\* EmulationOutput::free_packet, which waits for the flush of a full batch
pool_decided(full) == IF full THEN pool ELSE pool + 1

\* EmulationOutput::admit and drop, up to a flush that a full batch needs
DecidePacket(c) ==
  /\ core[c].hand # <<>> /\ core[c].held
  /\ Len(core[c].batch) < AdmitsPerAdmitted
  /\ LET p == core[c].hand[1][1]
         q == core[c].hand[1][2]
         b == Append(core[c].batch, <<p, IF q = <<"sink">> THEN "admit" ELSE "drop">>)
         full == Len(b) = AdmitsPerAdmitted
     IN /\ q # <<"sink">> => ~has_space(q)
        /\ core' = [core EXCEPT ![c].batch = b,
                                ![c].hand = IF full THEN @ ELSE Tail(@)]
        /\ pool' = pool_decided(full)
  /\ UNCHANGED <<shared, ring, bank, silent, early>>

\* The core is at a flush: of a full batch, or at the end of the timeslot.
flushes(c) ==
  \/ Len(core[c].batch) = AdmitsPerAdmitted
  \/ core[c].hand = <<>> /\ programs[c][core[c].pc] = <<"flush">>

\* EmulationOutput::flush, first loop: the batch goes to q_admitted
FlushEnqueue(c) ==
  /\ core[c].held /\ flushes(c)
  /\ Len(q_admitted[c]) < AdmCap
  /\ q_admitted' = [q_admitted EXCEPT ![c] = Append(@, core[c].batch)]
  /\ core' = [core EXCEPT ![c].held = FALSE]
  /\ UNCHANGED <<comm, next_id, gen, ring, bank, pool, adm_pool, fates, silent, early>>

\* Mutant: the new batch still holds the old entries
admitted_init_stale(b) == b

admitted_init(b) == <<>>

\* EmulationOutput::flush, second loop: an empty batch from the mempool; then
\* admit or drop frees its packet, or the timeslot ends
FlushGet(c) ==
  /\ ~core[c].held
  /\ adm_pool > 0
  /\ adm_pool' = adm_pool - 1
  /\ LET k == [core[c] EXCEPT !.held = TRUE, !.batch = admitted_init(@)] IN
       IF k.hand # <<>>
       THEN /\ core' = [core EXCEPT ![c] = [k EXCEPT !.hand = Tail(@)]]
            /\ pool' = pool + 1
       ELSE /\ core' = [core EXCEPT ![c] = [advance(k, c) EXCEPT !.pushed = {}]]
            /\ UNCHANGED pool
  /\ UNCHANGED <<comm, next_id, gen, ring, bank, q_admitted, fates, silent, early>>

CoreStep(c) ==
  \/ HandleReset(c) \/ ResetsDone(c) \/ EpgPush(c) \/ EpgPull(c) \/ EpgNew(c)
  \/ RouterPull(c) \/ RouterPush(c) \/ EnqueuePacket(c) \/ DecidePacket(c)
  \/ FlushEnqueue(c) \/ FlushGet(c)

Next ==
  \/ \E f \in Flows, n \in 1 .. MaxAmount : AddBacklog(f[1], f[2], n)
  \/ \E src \in Resetters : ResetSender(src)
  \/ RetryReset
  \/ ProcessAllocated
  \/ \E c \in Core : HandleReset(c)
  \/ \E c \in Core : ResetsDone(c)
  \/ \E c \in Core : EpgPush(c)
  \/ \E c \in Core : EpgPull(c)
  \/ \E c \in Core : EpgNew(c)
  \/ \E c \in Core : RouterPull(c)
  \/ \E c \in Core : RouterPush(c)
  \/ \E c \in Core : EnqueuePacket(c)
  \/ \E c \in Core : DecidePacket(c)
  \/ \E c \in Core : FlushEnqueue(c)
  \/ \E c \in Core : FlushGet(c)

\* The core waits in one of the loops of flush().
Waits(c) ==
  \/ ~core[c].held /\ adm_pool = 0
  \/ core[c].held /\ flushes(c) /\ Len(q_admitted[c]) = AdmCap

\* Every core runs for ever: weak fairness of its steps, and of the loop of the
\* comm core, with the guards written out, which TLC evaluates faster than
\* ENABLED.  Several cores may spin for a batch of the same mempool; one that
\* keeps trying while batches keep coming back gets one, hence strong fairness.
Fairness ==
  /\ \A c \in Core : /\ []<>Waits(c) \/ []<><<CoreStep(c)>>_vars
                     /\ <>[](core[c].held \/ adm_pool = 0) \/ []<><<FlushGet(c)>>_vars
  /\ []<>(comm.spin # Idle) \/ []<><<ProcessAllocated>>_vars
  /\ WF_vars(RetryReset)

Spec == Init /\ [][Next]_vars /\ Fairness

-----------------------------------------------------------------------------
PacketRings == Ring \ ({"resets"} \X Rack)

\* Packets that hold memory of the pool: in a ring, in a bank, or in hand.
InRings == UNION {Range(ring[r]) : r \in PacketRings}
InBanks == UNION {Range(bank[q]) : q \in Queue}
InHands == UNION {{h[1] : h \in Range(core[c].hand)} : c \in Core}
Live == InRings \cup InBanks \cup InHands

\* In hand, and not the packet whose entry fills the batch being flushed.
Undecided(c) ==
  LET k == core[c] IN
  Range(IF Len(k.batch) = AdmitsPerAdmitted THEN Tail(k.hand) ELSE k.hand)

\* Decided, and not yet read by the comm core.
batches(c) == (IF core[c].held THEN {core[c].batch} ELSE {}) \cup Range(q_admitted[c])
InBatches == UNION {Range(b) : b \in UNION {batches(c) : c \in Core}}

Pending ==
  InRings \cup InBanks \cup {f[1] : f \in InBatches}
  \cup {h[1] : h \in UNION {Undecided(c) : c \in Core}}

TypeOK ==
  /\ comm \in [spin : Endpoint \cup {Idle}, left : 0 .. RxBurst]
  /\ \A r \in PacketRings : ring[r] \in Seq(Packet) /\ Len(ring[r]) <= RingCap
  /\ \A r \in Rack : ring[<<"resets", r>>] \in Seq(Endpoint)
  /\ \A q \in Queue : bank[q] \in Seq(Packet) /\ Len(bank[q]) <= q_capacity(q)
  /\ pool \in 0 .. PoolSize /\ adm_pool \in 0 .. AdmPool
  /\ \A c \in Core : /\ core[c].pc \in 1 .. Len(programs[c])
                     /\ Len(core[c].batch) <= AdmitsPerAdmitted
                     /\ Len(q_admitted[c]) <= AdmCap

\* Packet memory is conserved: what the pool does not hold is in exactly one
\* ring, queue or core, on every path that frees a packet, the failed
\* enqueues and the resets included (emulation.h, output.h, the drivers).
sum(f, S) == FoldFunctionOnSet(+, 0, f, S)
NoLeak ==
  /\ pool + Cardinality(Live) = PoolSize
  /\ Cardinality(Live) = sum([r \in Ring |-> Len(ring[r])], PacketRings)
                         + sum([q \in Queue |-> Len(bank[q])], Queue)
                         + sum([c \in Core |-> Len(core[c].hand)], Core)

\* emulation_core.cc:45 "packets pushed in one timeslot cannot be pulled until
\* the next": no packet crosses two queues in one step of its core.
NoEarlyPull == early = {}

\* The packets of one source and destination are admitted in the order their
\* ids were given, though the routers shuffle what they receive.
FlowOrder ==
  \A f \in fates \cup InBatches : f[2] = "admit" =>
    \A p \in Live : p.src = f[1].src /\ p.dst = f[1].dst => p.id >= f[1].id

\* A packet reaches the sink of the rack its destination is in (the assert of
\* SimpleSink::handle), whatever routers it crosses.
RightRack ==
  \A c \in Core, r \in Rack :
    core[c].pc > 1 /\ programs[c][core[c].pc - 1] = <<"push", r>> =>
      \A h \in Range(core[c].hand) : rack_of(h[1].dst) = r

\* The emulation gives the comm core what EmuService promises.
Service == INSTANCE EmuService WITH pending <- Pending
RefinesService == Service!Init /\ [][Service!Next]_Service!vars

\* Every packet is admitted, dropped or freed in the end: no packet stays in a
\* queue that nobody pulls, and the cores never wait for one another for ever,
\* each with a full ring in front of it.
AllDecided == <>[](Pending = {} /\ comm.spin = Idle)

\* A packet added after reset_sender belongs to the new epoch and is not freed
\* by that reset (output.h:57 "don't free a packet that the emulation
\* framework is expecting to either be admitted or dropped").
NewEpochKept == \A s \in silent : s[2] = "reset" => s[1].gen < gen[s[1].src]

\* output.h:57 for the drivers: once in the emulation, only a reset frees a
\* packet with no notice.
OnlyResetsFree == \A s \in silent : s[2] # "full"
================================================================================
