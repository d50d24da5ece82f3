---------------------------- MODULE ControlPlane -----------------------------
(***************************************************************************)
(* An endpoint and the arbiter at the two ends of a control connection:    *)
(* sch_fastpass.c over fpproto.c over a lossy network, to comm_core.c.     *)
(*                                                                         *)
(* The endpoint runs three threads: the enqueue tasklet, the maintenance   *)
(* tasklet (send_request) and the receive path, which share q and take     *)
(* conn_lock only around calls into fpproto.  The arbiter's communication  *)
(* core is one thread.                                                     *)
(***************************************************************************)
EXTENDS FpConn, CommCore

CONSTANTS
  PadAllocs,     \* allocations a packet can carry alone and still be padded (2)
  InOrder,       \* the network keeps packets in order
  MaxSlots,      \* bound on the timeslots enqueued
  MaxLost,       \* bound on the packets lost
  MaxLate,       \* bound on the timers that fire unusually early
  MaxOverlap,    \* bound on the requests prepared while a packet is received
  MaxUpsets,     \* bound on losses and overlaps together
  MaxRestarts,   \* bound on the restarts of either side
  MaxForced,     \* bound on the resets the endpoint forces
  MaxPkts        \* bound on the packets a side sends in an epoch

ASSUME PlaneAssumption ==
  /\ PadAllocs \in Nat /\ InOrder \in BOOLEAN /\ MaxSlots \in Nat /\ MaxLost \in Nat
  /\ MaxLate \in Nat /\ MaxOverlap \in Nat
  /\ MaxUpsets \in Nat /\ MaxRestarts \in Nat /\ MaxForced \in Nat
  /\ MaxPkts \in Nat

VARIABLES
  conn,      \* the connection state of each side
  pds,       \* the packets each side holds unacknowledged, by number
  net,       \* packets in flight
  q,         \* the endpoint's scheduler
  adding,    \* the flow the enqueue tasklet is adding a timeslot to
  snd,       \* send_request: the requests gathered so far
  rx,        \* the packet the receive path is processing
  en,        \* the arbiter's state for the endpoint
  count      \* history, for the bounds

vars == <<conn, pds, net, q, adding, snd, rx, en, count>>

NoFlow == "none"
NoRx == [busy |-> FALSE]
NotSending == [on |-> FALSE, areq |-> <<>>]

\* Time moves on with every restart and every forced reset.
now == 1 + count.restarts + count.forced

Init ==
  /\ conn = [p \in Side |-> [fresh_conn(1) EXCEPT !.in_sync = TRUE]]
  /\ pds = [p \in Side |-> <<>>]
  /\ net = {}
  /\ q = new_sched
  /\ adding = NoFlow
  /\ snd = NotSending
  /\ rx = NoRx
  /\ en = new_end_node
  /\ count = [slots |-> 0, lost |-> 0, late |-> 0, overlap |-> 0, restarts |-> 0, forced |-> 0]

\* The callbacks made since the last step have been; forget them.
quiet(c) == [c EXCEPT !.acked = {}, !.nacked = {}, !.skipped = {}, !.renotified = {}]

\* Side p's connection becomes c, holding the packets of held it still needs.
Becomes(p, c, held) ==
  /\ conn' = [conn EXCEPT ![p] = quiet(c)]
  /\ pds' = [pds EXCEPT ![p] = [s \in c.unacked |-> held[s]]]

\* The packets in S, by number.
Packets(p, S) ==
  LET order == SetToSortSeq(S, <) IN [i \in DOMAIN order |-> pds[p][order[i]]]

\* The endpoint's callbacks for connection c: resets, then ACKs and NACKs.
ToldEndpoint(qq, c, order) ==
  LET r == IF c.resets # conn["endpoint"].resets THEN handle_reset(qq, order) ELSE qq
  IN FoldLeft(handle_neg_ack,
              FoldLeft(handle_ack, r, Packets("endpoint", c.acked)),
              Packets("endpoint", c.nacked))

ToldArbiter(e, c, kept) ==
  LET r == IF c.resets # conn["controller"].resets THEN arb_handle_reset(e, kept) ELSE e
      a == FoldLeft(arb_handle_ack, r, Packets("controller", c.acked))
      s == FoldLeft(arb_handle_skipped_ack, a, Packets("controller", c.skipped))
  IN FoldLeft(arb_handle_neg_ack, s, Packets("controller", c.nacked))

Send(p, c, body) ==
  LET seq == c.head + 1 IN
  /\ seq <= MaxPkts
  /\ Becomes(p, commit_packet(c), [s \in c.unacked \cup {seq} |->
                                     IF s = seq THEN body ELSE pds[p][s]])
  /\ net' = net \cup {[hdr |-> packet(c, p), body |-> body]}

\* Packet m may arrive at p now.
Arrives(p, m) ==
  /\ m.hdr.src = Peer(p)
  /\ InOrder => \A o \in net : o.hdr.src = m.hdr.src =>
                  <<o.hdr.inc, o.hdr.seq>> = <<m.hdr.inc, m.hdr.seq>>
                    \/ o.hdr.inc > m.hdr.inc
                    \/ (o.hdr.inc = m.hdr.inc /\ o.hdr.seq > m.hdr.seq)
  /\ net' = net \ {m}

\* fpproto_init_conn: the connection of a side that starts again.
Restarted(p) ==
  [do_proto_reset(conn[p], now + 1, FALSE) EXCEPT !.timer = 0]

Orders == SetToSeqs(Dst)

MayUpset == count.lost + count.overlap < MaxUpsets
-----------------------------------------------------------------------------
(* The endpoint.                                                           *)

Enqueue(d) ==
  /\ adding = NoFlow /\ count.slots < MaxSlots
  /\ q' = add_skb_q(q, d, count.slots + 1)
  /\ adding' = d
  /\ count' = [count EXCEPT !.slots = @ + 1]
  /\ UNCHANGED <<conn, pds, net, snd, rx, en>>

AddTimeslot ==
  /\ adding # NoFlow
  /\ q' = flow_inc_demand(q, adding)
  /\ adding' = NoFlow
  /\ UNCHANGED <<conn, pds, net, snd, rx, en, count>>

\* The tasklet and the receive path are two threads, which may overlap; the
\* request pacer waits longer than it takes to process a packet, MaxOverlap
\* times excepted.
MaintenanceTasklet ==
  LET c == prepare_to_send(conn["endpoint"]) IN
  /\ q.trig /\ ~snd.on
  /\ ~rx.busy \/ (count.overlap < MaxOverlap /\ MayUpset)
  /\ count' = [count EXCEPT !.overlap = IF rx.busy THEN @ + 1 ELSE @]
  /\ q' = ToldEndpoint([q EXCEPT !.trig = FALSE], c, <<>>)
  /\ Becomes("endpoint", c, pds["endpoint"])
  /\ snd' = [NotSending EXCEPT !.on = TRUE]
  /\ UNCHANGED <<net, adding, rx, en>>

SendRequestFlow ==
  LET d == Head(q.unreq) IN
  /\ snd.on /\ q.unreq # <<>> /\ Len(snd.areq) < MaxAreq
  /\ q' = request_flow(unreq_dsts_dequeue(q), d)
  /\ snd' = IF already_acked(q.dst[d]) THEN snd
            ELSE [snd EXCEPT !.areq = Append(@, areq_of(q, d))]
  /\ UNCHANGED <<conn, pds, net, adding, rx, en, count>>

SendRequestCommit ==
  /\ snd.on /\ (q.unreq = <<>> \/ Len(snd.areq) = MaxAreq)
  /\ Send("endpoint", conn["endpoint"], [alloc |-> <<>>, areq |-> snd.areq])
  /\ q' = IF q.requested # q.demand THEN trigger_tx(q) ELSE q
  /\ snd' = NotSending
  /\ UNCHANGED <<adding, rx, en, count>>

\* fpproto_handle_rx_packet, under conn_lock.
CtrlRcvHandle(m) ==
  LET c == conn["endpoint"]
      good == checksum_ok(c, m.hdr)
      ok == accepts(c, "endpoint", m.hdr, now)
      r == after_reset(c, "endpoint", m.hdr, now)
      d == IF ~good THEN got_bad_packet(c, now)
           ELSE IF ~ok THEN r ELSE ack_payload_handler(r, "endpoint", m.hdr)
  IN
  /\ ~rx.busy /\ Arrives("endpoint", m)
  /\ \E order \in Orders :
       q' = ToldEndpoint(IF good THEN q ELSE trigger_tx(q), d, order)
  /\ Becomes("endpoint", d, pds["endpoint"])
  /\ rx' = IF ok THEN [busy |-> TRUE, called |-> FALSE, pkt |-> m, inc |-> d.resets]
           ELSE NoRx
  /\ UNCHANGED <<adding, snd, en, count>>

\* process_alloc looks for two bytes more than an ALLOC has: it fails on one
\* that ends the packet, with no A-REQ and no padding after it.
incomplete_alloc(m) ==
  /\ m.body.alloc # <<>> /\ m.body.areq = <<>>
  /\ m.hdr.rst \/ Len(m.body.alloc) > PadAllocs

\* fpproto_perform_rx_callbacks, without conn_lock: ALLOC, then A-REQ, which
\* may force a reset.
CtrlRcvCallbacks ==
  LET body == rx.pkt.body
      qa == IF body.alloc = <<>> THEN q ELSE handle_alloc(q, body.alloc)
      qr == handle_areq(qa, body.areq)
      forced == \E i \in DOMAIN body.areq :
                  alloc_report_larger_than_requested(qa, body.areq[i])
  IN
  /\ rx.busy /\ ~rx.called /\ ~incomplete_alloc(rx.pkt)
  /\ forced => count.forced < MaxForced
  /\ rx' = [rx EXCEPT !.called = TRUE]
  /\ IF forced
     THEN /\ \E order \in Orders : q' = handle_reset(qr, order)
          /\ Becomes("endpoint", do_proto_reset(conn["endpoint"], now + 1, FALSE), <<>>)
          /\ count' = [count EXCEPT !.forced = @ + 1]
     ELSE /\ q' = qr
          /\ UNCHANGED <<conn, pds, count>>
  /\ UNCHANGED <<net, adding, snd, en>>

CtrlRcvIncomplete ==
  /\ rx.busy /\ ~rx.called /\ incomplete_alloc(rx.pkt)
  /\ rx' = NoRx
  /\ UNCHANGED <<conn, pds, net, q, adding, snd, en, count>>

\* fpproto_successful_rx, under conn_lock.  A number of an epoch left since is
\* far from those of the new one, on either side.
CtrlRcvSuccessful ==
  LET c == conn["endpoint"] IN
  /\ rx.busy /\ rx.called
  /\ \E seq \in IF rx.inc = c.resets THEN {rx.pkt.hdr.seq}
                ELSE {c.in_max - SeqSpan, c.in_max + SeqSpan} :
       Becomes("endpoint", update_inwnd(c, seq), pds["endpoint"])
  /\ rx' = NoRx
  /\ UNCHANGED <<net, q, adding, snd, en, count>>

\* The module is reloaded: its queues are dropped.
RestartEndpoint ==
  /\ count.restarts < MaxRestarts
  /\ count' = [count EXCEPT !.restarts = @ + 1]
  /\ Becomes("endpoint", Restarted("endpoint"), <<>>)
  /\ q' = new_sched
  /\ adding' = NoFlow /\ snd' = NotSending /\ rx' = NoRx
  /\ UNCHANGED <<net, en>>

-----------------------------------------------------------------------------
(* The arbiter.                                                            *)

CommRx(m) ==
  LET c == conn["controller"]
      d == handle_rx_complete(c, "controller", m.hdr, now)
      e == IF checksum_ok(c, m.hdr) /\ ~m.hdr.rst THEN en ELSE trigger_request(en)
  IN
  /\ Arrives("controller", m)
  /\ \E kept \in IF d.resets # c.resets THEN SUBSET en.backlog ELSE {{}} :
       LET told == ToldArbiter(e, d, kept)
       IN en' = IF accepts(c, "controller", m.hdr, now)
                THEN arb_handle_areq(told, m.body.areq) ELSE told
  /\ Becomes("controller", d, pds["controller"])
  /\ UNCHANGED <<q, adding, snd, rx, count>>

TxEndNode ==
  LET c == prepare_to_send(conn["controller"])
      e == ToldArbiter([en EXCEPT !.trig = FALSE], c, {})
  IN
  /\ en.trig
  /\ en' = tx_end_node(e)
  /\ Send("controller", c, tx_payload(e))
  /\ UNCHANGED <<q, adding, snd, rx, count>>

\* The emulated network admits or drops a packet.
Allocate(pkt) ==
  /\ en' = process_allocated(en, pkt)
  /\ UNCHANGED <<conn, pds, net, q, adding, snd, rx, count>>

RestartArbiter ==
  /\ count.restarts < MaxRestarts
  /\ count' = [count EXCEPT !.restarts = @ + 1]
  /\ Becomes("controller", Restarted("controller"), <<>>)
  /\ en' = [new_end_node EXCEPT !.resets = en.resets + 1]
  /\ UNCHANGED <<net, q, adding, snd, rx>>

-----------------------------------------------------------------------------
(* The network and the retransmission timers.                              *)

Lose(m) ==
  /\ count.lost < MaxLost /\ MayUpset
  /\ count' = [count EXCEPT !.lost = @ + 1]
  /\ net' = net \ {m}
  /\ UNCHANGED <<conn, pds, q, adding, snd, rx, en>>

\* No answer is on its way.
Silent == net = {} /\ ~rx.busy /\ ~q.trig /\ ~snd.on /\ ~en.trig

\* The timeout exceeds the round trip, MaxLate times excepted.
RetransTimeout(p) ==
  /\ conn[p].timer # 0
  /\ Silent \/ count.late < MaxLate
  /\ count' = [count EXCEPT !.late = IF Silent THEN @ ELSE @ + 1]
  /\ \E upto \in 0..conn[p].head :
       LET c == handle_timeout(conn[p], upto) IN
       /\ Becomes(p, c, pds[p])
       /\ q' = IF p = "endpoint" THEN ToldEndpoint(q, c, <<>>) ELSE q
       /\ en' = IF p = "controller" THEN ToldArbiter(en, c, {}) ELSE en
  /\ UNCHANGED <<net, adding, snd, rx>>

Deliver(p) == \E m \in net : IF IS_ENDPOINT(p) THEN CtrlRcvHandle(m) ELSE CommRx(m)

Flying(p) == \E m \in net : m.hdr.src = p

Next ==
  \/ \E d \in Dst : Enqueue(d)
  \/ AddTimeslot
  \/ MaintenanceTasklet
  \/ SendRequestFlow
  \/ SendRequestCommit
  \/ \E p \in Side : Deliver(p)
  \/ CtrlRcvCallbacks
  \/ CtrlRcvIncomplete
  \/ CtrlRcvSuccessful
  \/ TxEndNode
  \/ \E pkt \in en.backlog : Allocate(pkt)
  \/ RestartEndpoint
  \/ RestartArbiter
  \/ \E m \in net : Lose(m)
  \/ \E p \in Side : RetransTimeout(p)

Spec == Init /\ [][Next]_vars

\* Every thread is scheduled, the pacers and timers fire, and the network and
\* the emulation keep working: weak fairness of each.  All but the first are
\* written with their guards in place of ENABLED, which TLC evaluates slowly.
Fairness ==
  /\ WF_vars(AddTimeslot)
  /\ []<>(~q.trig \/ snd.on \/ rx.busy) \/ []<><<MaintenanceTasklet>>_vars
  /\ []<>~snd.on \/ []<><<SendRequestFlow \/ SendRequestCommit>>_vars
  /\ []<>(rx.busy \/ ~Flying("controller")) \/ []<><<Deliver("endpoint")>>_vars
  /\ []<>~Flying("endpoint") \/ []<><<Deliver("controller")>>_vars
  /\ []<>~rx.busy \/
       []<><<CtrlRcvCallbacks \/ CtrlRcvIncomplete \/ CtrlRcvSuccessful>>_vars
  /\ []<>~en.trig \/ []<><<TxEndNode>>_vars
  /\ []<>(en.backlog = {}) \/ []<><<\E pkt \in en.backlog : Allocate(pkt)>>_vars
  /\ \A p \in Side :
       []<>(conn[p].timer = 0 \/ ~Silent) \/ []<><<RetransTimeout(p)>>_vars

FairSpec == Spec /\ Fairness
-----------------------------------------------------------------------------
\* The endpoint's bookkeeping.
TypeOK ==
  /\ \A d \in Dst : LET f == q.dst[d] IN
       /\ f \in [demand : Nat, requested : Nat, acked : Nat, alloc : Nat,
                 used : Nat, queued : BOOLEAN]
       /\ f.queued <=> Contains(q.unreq, d)
  /\ IsInjective(q.unreq)
  /\ \A p \in Side : DOMAIN pds[p] = conn[p].unacked

\* tsq_handle_now is never called for a flow without timeslots, where it would
\* return with hash_tbl_lock held: demand minus used never runs ahead of the
\* list, though the two are kept by different threads under different locks.
NeverStuck == ~q.stuck

\* The demand not yet used is what waits in the list, plus the timeslot that
\* the enqueue tasklet has queued and not counted yet; resets keep it so.
DemandIsWaiting ==
  \A d \in Dst : Len(q.slots[d]) = q.dst[d].demand - q.dst[d].used
                                      + (IF adding = d THEN 1 ELSE 0)

\* The k-th timeslot a flow demands has id k - 1: the arbiter, which derives
\* ids from the demand, and tsq_handle_now, which looks ids up, number alike.
IdsFollowDemand ==
  \A d \in Dst : q.next_id[d] = (q.dst[d].demand + (IF adding = d THEN 1 ELSE 0)) % CntMod

\* The FASTPASS_BUG_ON of handle_ack never fires: nothing is acknowledged
\* beyond the demand.
NoBugOn == ~q.bug

\* A timeslot is admitted or dropped only when the emulation admitted or
\* dropped the packet made for it.
OwnFate == \A x \in q.left : x.slot = x.for

\* Every packet in the emulated network stands for a timeslot of the endpoint.
NoPhantom == \A pkt \in en.backlog : pkt.n # 0

\* In one epoch, the arbiter has registered all the demand that the endpoint
\* takes to be acknowledged and will not request again.
AckedIsRegistered ==
  conn["endpoint"].last_reset_time = conn["controller"].last_reset_time =>
    \A d \in Dst : q.dst[d].acked <= en.demands[d]

\* Every timeslot enqueued is released, whatever packet is lost.
AllReleased ==
  \A d \in Dst : q.slots[d] # <<>> ~> q.slots[d] = <<>>
=============================================================================
