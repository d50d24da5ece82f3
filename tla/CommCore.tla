------------------------------ MODULE CommCore -------------------------------
(***************************************************************************)
(* The arbiter's state for one endpoint, and the communication core's      *)
(* handlers on it (src/src/arbiter/comm_core.c, emulation build).          *)
(*                                                                         *)
(* en is the struct end_node_state: en.pending the queue pending_allocs,   *)
(* en.reports the queue of flows with is_pending set, en.trig whether the  *)
(* tx_pacer is triggered and the tx_timer set.  en.backlog stands for the  *)
(* emulated network (emulation/): the packets added with add_backlog that  *)
(* it has neither admitted nor dropped.  en.resets is history.             *)
(***************************************************************************)
EXTENDS SchFastpass

CONSTANTS
  MaxAllocs,     \* FASTPASS_PKT_MAX_ALLOC_TSLOTS - 1 (63): allocations in a packet
  MaxAllocDsts   \* destinations in one ALLOC payload (15)

ASSUME CommAssumption == MaxAllocs \in Nat \ {0} /\ MaxAllocDsts \in Nat \ {0}

new_end_node ==
  [demands |-> [d \in Dst |-> 0], alloc_to_dst |-> [d \in Dst |-> 0],
   acked_allocs |-> [d \in Dst |-> 0], pending |-> <<>>, reports |-> <<>>,
   trig |-> FALSE, backlog |-> {}, resets |-> 0]

trigger_request(en) == [en EXCEPT !.trig = TRUE]

trigger_report(en, d) ==
  IF Contains(en.reports, d) THEN en
  ELSE trigger_request([en EXCEPT !.reports = Append(@, d)])

\* History: the timeslot that the endpoint calls id, none (0) if it has none.
named_by(r, id) ==
  LET hits == {i \in DOMAIN r.ids : r.ids[i].id = id}
  IN IF hits = {} THEN 0 ELSE r.ids[CHOOSE i \in hits : TRUE].n

\* Mutant: one packet too many.
areq_one_past(en, r) ==
  LET orig   == en.demands[r.dst]
      demand == full_count(orig, r.tslots % CntMod)
      added  == {[dst |-> r.dst, id |-> k % CntMod, ep |-> en.resets,
                  n |-> named_by(r, k % CntMod)] : k \in orig..demand}
  IN IF demand > orig
     THEN [en EXCEPT !.demands[r.dst] = demand, !.backlog = @ \cup added]
     ELSE en

\* A request r: the packets from the count known to the new one, each with
\* its sequential id, go to the emulated network.
areq_one(en, r) ==
  LET orig   == en.demands[r.dst]
      demand == full_count(orig, r.tslots % CntMod)
      added  == {[dst |-> r.dst, id |-> k % CntMod, ep |-> en.resets,
                  n |-> named_by(r, k % CntMod)] : k \in orig..(demand - 1)}
  IN IF demand > orig
     THEN [en EXCEPT !.demands[r.dst] = demand, !.backlog = @ \cup added]
     ELSE en

arb_handle_areq(en, areq) ==
  IF areq = <<>> THEN en ELSE trigger_request(FoldLeft(areq_one, en, areq))

\* Packets already past the emulated endpoint stay in the emulated network;
\* so do the allocations not yet sent.
arb_handle_reset(en, kept) ==
  [new_end_node EXCEPT !.pending = en.pending, !.trig = en.trig, !.backlog = kept,
                       !.resets = en.resets + 1]

\* process_allocated_traffic_one_q, for one admitted or dropped packet.
process_allocated(en, pkt) ==
  trigger_report([en EXCEPT !.backlog = @ \ {pkt}, !.pending = Append(@, pkt),
                            !.alloc_to_dst[pkt.dst] = @ + 1], pkt.dst)

arb_handle_skipped_ack(en, pd) ==
  FoldLeft(trigger_report, [en EXCEPT !.pending = @ \o pd.alloc],
           SetToSeq({pd.alloc[i].dst : i \in DOMAIN pd.alloc}))

report_nacked(en, r) ==
  IF r.tslots > en.acked_allocs[r.dst] THEN trigger_report(en, r.dst) ELSE en

arb_handle_neg_ack(en, pd) == FoldLeft(report_nacked, en, pd.areq)

alloc_acked(en, al) == [en EXCEPT !.acked_allocs[al.dst] = @ + 1]

arb_handle_ack(en, pd) == FoldLeft(alloc_acked, en, pd.alloc)

-----------------------------------------------------------------------------
(* tx_end_node: the allocations and reports of the next packet.            *)

\* As many allocations as fit, for at most MaxAllocDsts destinations.
fits(allocs) ==
  /\ Len(allocs) <= MaxAllocs
  /\ Cardinality({allocs[i].dst : i \in DOMAIN allocs}) <= MaxAllocDsts

packet_alloc(en) ==
  LET most == CHOOSE k \in 0..Len(en.pending) :
                /\ fits(SubSeq(en.pending, 1, k))
                /\ k < Len(en.pending) => ~fits(SubSeq(en.pending, 1, k + 1))
  IN SubSeq(en.pending, 1, most)

fill_packet_alloc(en) ==
  [en EXCEPT !.pending = SubSeq(@, Len(packet_alloc(en)) + 1, Len(@))]

\* Every allocation left unsent, whatever its destination, is taken off the
\* count reported.
packet_report(en) ==
  [i \in 1..(IF Len(en.reports) < MaxAreq THEN Len(en.reports) ELSE MaxAreq) |->
     [dst |-> en.reports[i],
      tslots |-> en.alloc_to_dst[en.reports[i]] - Len(en.pending)]]

fill_packet_report(en) ==
  LET rest == SubSeq(en.reports, Len(packet_report(en)) + 1, Len(en.reports))
      popped == [en EXCEPT !.reports = rest]
  IN IF rest = <<>> THEN popped ELSE trigger_request(popped)

\* What tx_end_node leaves behind, and the packet it sends.
tx_end_node(en) == fill_packet_report(fill_packet_alloc(en))

tx_payload(en) ==
  [alloc |-> packet_alloc(en), areq |-> packet_report(fill_packet_alloc(en))]
=============================================================================
