---------------------------- MODULE SchFastpass -----------------------------
(***************************************************************************)
(* The endpoint's scheduler: demand accounting per flow in                 *)
(* src/src/kernel-mod/sch_fastpass.c, and the queues of timeslots it admits *)
(* from, in src/src/kernel-mod/sch_timeslot.c (emulation build, a scheme    *)
(* without per-request data).                                              *)
(*                                                                         *)
(* q is the struct fp_sched_data with its tsq_sched_data: q.dst[d] is the  *)
(* struct fp_dst of flow d, q.unreq the ring unreq_flows, q.trig whether   *)
(* request_pacer is triggered, q.slots[d] the list skb_qs of timeslots     *)
(* waiting in flow d.  Each timeslot also carries a number, history, that  *)
(* it keeps when its id is reassigned.  q.left, q.bug and q.stuck are      *)
(* history: the timeslots released and on whose behalf, whether a          *)
(* FASTPASS_BUG_ON fired, whether hash_tbl_lock was left held.             *)
(***************************************************************************)
EXTENDS Integers, Sequences, FiniteSets, SequencesExt

CONSTANTS
  Dst,           \* flows: a destination and a class
  CntMod,        \* counts and ids a 16-bit field tells apart (2^16)
  ReqWindow,     \* FASTPASS_REQUEST_WINDOW_SIZE (2^13)
  MaxAreq        \* FASTPASS_PKT_MAX_AREQ (10): flows in one packet

ASSUME SchAssumption ==
  /\ IsFiniteSet(Dst) /\ CntMod \in Nat \ {0, 1} /\ CntMod % 2 = 0
  /\ ReqWindow \in 2..CntMod /\ MaxAreq \in Nat \ {0}

\* The full count whose low bits are low, rebuilt around the count known:
\* from half the range below it to half above.
full_count(known, low) ==
  LET lowest == known - CntMod \div 2
  IN lowest + ((low - lowest) % CntMod)

new_sched ==
  [dst |-> [d \in Dst |-> [demand |-> 0, requested |-> 0, acked |-> 0,
                           alloc |-> 0, used |-> 0, queued |-> FALSE]],
   unreq |-> <<>>, trig |-> FALSE, demand |-> 0, requested |-> 0,
   slots |-> [d \in Dst |-> <<>>], next_id |-> [d \in Dst |-> 0],
   left |-> {}, bug |-> FALSE, stuck |-> FALSE]

trigger_tx(q) == [q EXCEPT !.trig = TRUE]

\* Mutant: the flow is queued again.
unreq_dsts_enqueue(q, d) ==
  trigger_tx([q EXCEPT !.dst[d].queued = TRUE, !.unreq = Append(@, d)])

unreq_dsts_enqueue_if_not_queued(q, d) ==
  IF q.dst[d].queued THEN q
  ELSE trigger_tx([q EXCEPT !.dst[d].queued = TRUE, !.unreq = Append(@, d)])

\* enqueue_single_skb: a new timeslot n at the end of flow d ...
add_skb_q(q, d, n) ==
  [q EXCEPT !.slots[d] = Append(@, [id |-> q.next_id[d], n |-> n]),
            !.next_id[d] = (@ + 1) % CntMod]

\* ... and then, the hash table unlocked, flow_inc_demand.
flow_inc_demand(q, d) ==
  [unreq_dsts_enqueue_if_not_queued([q EXCEPT !.dst[d].demand = @ + 1], d)
     EXCEPT !.demand = @ + 1]

-----------------------------------------------------------------------------
(* Callbacks of the connection.                                            *)

\* Mutant: the timeslots already used are demanded again.
rebase_keeps_demand(f) ==
  [f EXCEPT !.requested = 0, !.acked = 0, !.alloc = 0, !.used = 0]

rebase(f) ==
  [f EXCEPT !.demand = @ - f.used, !.requested = 0, !.acked = 0,
            !.alloc = 0, !.used = 0]

\* Mutant: later timeslots go on from the old numbers.
tsq_reset_ids_keeps_next(q, d) ==
  [q EXCEPT !.slots[d] = [i \in DOMAIN @ |-> [@[i] EXCEPT !.id = (i - 1) % CntMod]]]

tsq_reset_ids(q, d) ==
  [q EXCEPT !.slots[d] = [i \in DOMAIN @ |-> [@[i] EXCEPT !.id = (i - 1) % CntMod]],
            !.next_id[d] = Len(q.slots[d]) % CntMod]

\* Flows that have no timeslot pending keep their counters and ids.  order is
\* the order in which the flows are visited.
handle_reset(q, order) ==
  LET busy == {d \in Dst : q.dst[d].demand # q.dst[d].used}
      dst  == [d \in Dst |-> IF d \in busy THEN rebase(q.dst[d]) ELSE q.dst[d]]
      zero == [q EXCEPT
        !.dst = dst,
        !.demand = FoldFunctionOnSet(LAMBDA f, s : f.demand + s, 0, dst, busy),
        !.requested = 0]
  IN FoldLeft(LAMBDA s, d : tsq_reset_ids(unreq_dsts_enqueue_if_not_queued(s, d), d),
              zero, SelectSeq(order, LAMBDA d : d \in busy))

\* Mutants: the first timeslot is released, whatever the id; an id that matches
\* no timeslot is counted as used.
handle_single_alloc_head(q, al) ==
  LET slots == q.slots[al.dst]
  IN IF slots = <<>> THEN q
     ELSE [q EXCEPT !.dst[al.dst].used = @ + 1, !.dst[al.dst].alloc = @ + 1,
                    !.slots[al.dst] = Tail(@),
                    !.left = @ \cup {[slot |-> slots[1].n, for |-> al.n]}]

handle_single_alloc_unmatched(q, al) ==
  LET f     == q.dst[al.dst]
      slots == q.slots[al.dst]
  IN IF f.used = f.demand THEN q
     ELSE [q EXCEPT !.dst[al.dst].used = @ + 1, !.dst[al.dst].alloc = @ + 1,
                    !.slots[al.dst] = SelectSeq(@, LAMBDA x : x.id # al.id)]

\* Release the timeslot named by one allocation.  The returns of
\* tsq_handle_now for an empty or unknown flow keep hash_tbl_lock.
handle_single_alloc(q, al) ==
  LET f     == q.dst[al.dst]
      slots == q.slots[al.dst]
      named == {i \in DOMAIN slots : slots[i].id = al.id}
      i     == CHOOSE j \in named : \A k \in named : j <= k
  IN IF f.used = f.demand THEN q
     ELSE IF slots = <<>> THEN [q EXCEPT !.stuck = TRUE]
     ELSE IF named = {} THEN q
     ELSE [q EXCEPT !.dst[al.dst].used = @ + 1, !.dst[al.dst].alloc = @ + 1,
                    !.slots[al.dst] = RemoveAt(@, i),
                    !.left = @ \cup {[slot |-> slots[i].n, for |-> al.n]}]

handle_alloc(q, allocs) == FoldLeft(handle_single_alloc, trigger_tx(q), allocs)

\* A report says that more was allocated than was ever requested.
alloc_report_larger_than_requested(q, r) ==
  LET f == q.dst[r.dst]
      count == full_count(f.alloc, r.tslots % CntMod)
  IN count > f.alloc /\ count > f.requested

\* Otherwise a report changes nothing in this build: timeslots will be
\* retransmitted.
handle_areq(q, reports) == IF reports = <<>> THEN q ELSE trigger_tx(q)

\* Mutant: all that was demanded by now is taken to be acknowledged.
ack_one_demand(q, r) == [q EXCEPT !.dst[r.dst].acked = q.dst[r.dst].demand]

ack_one(q, r) ==
  LET f == q.dst[r.dst]
      acked == [q EXCEPT !.dst[r.dst].acked = r.tslots,
                         !.bug = @ \/ r.tslots > f.demand]
  IN IF f.acked >= r.tslots THEN q
     ELSE IF f.requested # f.demand
          THEN unreq_dsts_enqueue_if_not_queued(acked, r.dst)
     ELSE acked

handle_ack(q, pd) == FoldLeft(ack_one, q, pd.areq)

\* Mutant: a request that was lost is not made again.
neg_ack_one_forgets(q, r) == q

neg_ack_one(q, r) ==
  IF r.tslots <= q.dst[r.dst].acked THEN q
  ELSE unreq_dsts_enqueue_if_not_queued(q, r.dst)

handle_neg_ack(q, pd) == FoldLeft(neg_ack_one, q, pd.areq)

-----------------------------------------------------------------------------
(* send_request: what it asks for the flow d at the head of unreq_flows.   *)

\* Mutant: the window is asked for, demanded or not.
new_requested_window(f) == f.acked + ReqWindow - 1

new_requested(f) ==
  LET most == f.acked + ReqWindow - 1
  IN IF f.demand < most THEN f.demand ELSE most

already_acked(f) == new_requested(f) <= f.acked

unreq_dsts_dequeue(q) ==
  [q EXCEPT !.dst[Head(q.unreq)].queued = FALSE, !.unreq = Tail(@)]

request_flow(q, d) ==
  LET f == q.dst[d]
  IN IF already_acked(f) THEN q
     ELSE [q EXCEPT !.dst[d].requested = new_requested(f),
                    !.requested = @ + new_requested(f) - f.requested]

\* The request put in the packet; ids is history, the timeslots it names.
areq_of(q, d) ==
  [dst |-> d, tslots |-> new_requested(q.dst[d]), ids |-> q.slots[d]]
=============================================================================
