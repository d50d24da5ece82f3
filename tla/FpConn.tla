------------------------------- MODULE FpConn -------------------------------
(***************************************************************************)
(* One side of a Fastpass control connection: the operations of            *)
(* src/src/protocol/fpproto.c on a struct fpproto_conn.                    *)
(*                                                                         *)
(* A side numbers its packets from a base it derives by hashing the time   *)
(* of the last reset, so a reset time names an epoch and the model counts  *)
(* sequence numbers from that base: the first packet of an epoch is 1.     *)
(* The wire carries 16 bits of each number; the receiver rebuilds the rest *)
(* and the checksum covers the full numbers, so a packet of another epoch, *)
(* or rebuilt wrongly, fails the checksum.  The model takes the checksum   *)
(* to be exact.                                                            *)
(*                                                                         *)
(* The fields resets, acked, nacked, skipped and renotified of a           *)
(* connection c are history: the calls made to the application's callbacks *)
(* since the last reset.                                                   *)
(***************************************************************************)
EXTENDS FpResetRules, FiniteSets, FiniteSetsExt

CONSTANTS
  WndLen,        \* FASTPASS_WND_LEN (192): packets that may await an ACK
  InWnd,         \* bits of inwnd (64): how far back duplicates are known
  AckHi,         \* ACK bits sent one by one (15); the rest share one bit
  SeqSpan,        \* sequence numbers a 16-bit field tells apart (2^16)
  SeqBack        \* how far below in_max rebuilding starts (2^14)

ASSUME ConnAssumption ==
  /\ WndLen \in Nat \ {0} /\ InWnd \in Nat \ {0} /\ AckHi \in 0..(InWnd - 1)
  /\ SeqSpan \in Nat \ {0} /\ SeqBack \in 0..(SeqSpan - 1)

fresh_conn(t) ==
  [last_reset_time |-> t, resets |-> 1, head |-> 0, unacked |-> {},
   in_max |-> 0, inwnd |-> (1 - InWnd)..0, bad |-> 0, next_timeout |-> 1,
   next_skip |-> 1, in_sync |-> FALSE, timer |-> 0,
   acked |-> {}, nacked |-> {}, skipped |-> {}, renotified |-> {}]

wnd_edge(c) == c.head - WndLen + 1

\* Mutant: the incoming window starts one number too low.
do_proto_reset_low(c, reset_time, in_sync) ==
  [c EXCEPT !.last_reset_time = reset_time, !.resets = @ + 1,
            !.head = 0, !.unacked = {}, !.in_max = -1, !.inwnd = (1 - InWnd)..(-1),
            !.bad = 0, !.next_timeout = 1, !.next_skip = 1,
            !.in_sync = in_sync,
            !.acked = {}, !.nacked = {}, !.skipped = {}, !.renotified = {}]

do_proto_reset(c, reset_time, in_sync) ==
  [c EXCEPT !.last_reset_time = reset_time, !.resets = @ + 1,
            !.head = 0, !.unacked = {}, !.in_max = 0, !.inwnd = (1 - InWnd)..0,
            !.bad = 0, !.next_timeout = 1, !.next_skip = 1,
            !.in_sync = in_sync,
            !.acked = {}, !.nacked = {}, !.skipped = {}, !.renotified = {}]

\* The packets in the window whose timeout has not been reported.
waiting(c) == {s \in c.unacked : s >= c.next_timeout}

\* The timer is set for the earliest of the packets in S, or cancelled (0).
set_timer(c, S) ==
  [c EXCEPT !.next_timeout = IF S = {} THEN c.head + 1 ELSE Min(S),
            !.timer = IF S = {} THEN 0 ELSE Min(S)]

recompute_timer(c) == set_timer(c, waiting(c))

\* The negative-acknowledgement callback, for the packets in S.
do_neg_ack(c, S) ==
  [c EXCEPT !.nacked = @ \cup S, !.renotified = @ \cup (S \cap c.nacked)]

\* Send times grow with the sequence number, so those that timed out are the
\* waiting packets up to some number.
handle_timeout(c, upto) ==
  LET left == {s \in waiting(c) : s > upto}
  IN set_timer(do_neg_ack(c, waiting(c) \ left), left)

\* RETRANSMIT_UNACKED_ALLOCS, a controller build: packets an ACK jumped over.
skip_acks(c, ack_seq) ==
  LET passed == {s \in c.unacked : s >= c.next_skip /\ s < ack_seq}
  IN IF ack_seq >= c.next_skip
     THEN [c EXCEPT !.next_skip = ack_seq + 1, !.skipped = @ \cup passed,
                    !.renotified = @ \cup (passed \cap c.skipped)]
     ELSE c

ack_payload_handler(c, p, m) ==
  LET todo == m.acks \cap c.unacked
      popped == [c EXCEPT !.unacked = @ \ todo, !.acked = @ \cup todo]
      noticed == IF IS_ENDPOINT(p) THEN popped ELSE skip_acks(popped, m.ack_seq)
  IN IF m.ack_seq < wnd_edge(c) THEN c
     ELSE IF todo = {} THEN noticed ELSE recompute_timer(noticed)

\* Mutant: any packet young enough is accepted, seen before or not.
accept_recent(c, seq) == seq > c.in_max - InWnd

at_most_once_may_accept(c, seq) ==
  seq > c.in_max \/ (seq > c.in_max - InWnd /\ seq \notin c.inwnd)

\* Bits older than in_max - InWnd are shifted out of inwnd.
update_inwnd(c, seq) ==
  IF seq > c.in_max
  THEN [c EXCEPT !.in_max = seq,
                 !.inwnd = {s \in @ : s > seq - InWnd} \cup {seq}]
  ELSE IF seq <= c.in_max - InWnd THEN c
  ELSE [c EXCEPT !.inwnd = @ \cup {seq}]

\* Mutant: a bad packet is counted but does not end the belief in sync.
got_bad_packet_in_sync(c, t) ==
  LET b == [c EXCEPT !.bad = @ + 1]
  IN IF b.bad < BadThreshold THEN b
     ELSE IF recent_reset(c.last_reset_time, t)
          THEN [b EXCEPT !.bad = 0]
     ELSE do_proto_reset(b, t, FALSE)

got_bad_packet(c, t) ==
  LET b == [c EXCEPT !.in_sync = FALSE, !.bad = @ + 1]
  IN IF b.bad < BadThreshold THEN b
     ELSE IF recent_reset(c.last_reset_time, t)
          THEN [b EXCEPT !.bad = 0]
     ELSE do_proto_reset(b, t, FALSE)

\* Mutant: the controller, too, believes in sync once it has obeyed a RESET.
reset_payload_handler_in_sync(c, p, tstamp, t) ==
  LET verdict == reset_verdict(c.last_reset_time, tstamp, t)
  IN IF verdict = "same" THEN [c EXCEPT !.in_sync = TRUE]
     ELSE IF verdict = "accept" THEN do_proto_reset(c, tstamp, TRUE)
     ELSE IF verdict = "renew" THEN do_proto_reset(c, t, TRUE)
     ELSE c

reset_payload_handler(c, p, tstamp, t) ==
  LET verdict == reset_verdict(c.last_reset_time, tstamp, t)
  IN IF verdict = "same" THEN [c EXCEPT !.in_sync = IS_ENDPOINT(p)]
     ELSE IF verdict = "accept" THEN do_proto_reset(c, tstamp, IS_ENDPOINT(p))
     ELSE IF verdict = "renew" THEN do_proto_reset(c, t, IS_ENDPOINT(p))
     ELSE c

\* The numbers rebuilt from 16 bits are the sender's: the checksum passes.
checksum_ok(c, m) ==
  IF m.rst
  THEN m.seq \in 1..SeqSpan /\ m.ack_seq \in 0..(SeqSpan - 1)
  ELSE /\ m.tstamp = c.last_reset_time
       /\ m.seq \in (c.in_max - SeqBack)..(c.in_max - SeqBack + SeqSpan - 1)
       /\ m.ack_seq \in (c.head - SeqSpan + 1)..c.head

\* A good packet's RESET payload, then: is its payload to be processed?
after_reset(c, p, m, t) ==
  LET good == [c EXCEPT !.bad = 0, !.in_sync = ~m.rst]
  IN IF m.rst THEN reset_payload_handler(good, p, m.tstamp, t) ELSE good

accepts(c, p, m, t) ==
  /\ checksum_ok(c, m)
  /\ m.rst => reset_verdict(c.last_reset_time, m.tstamp, t) \in {"same", "accept"}
  /\ at_most_once_may_accept(after_reset(c, p, m, t), m.seq)

handle_rx_complete(c, p, m, t) ==
  IF ~checksum_ok(c, m) THEN got_bad_packet(c, t)
  ELSE IF ~accepts(c, p, m, t) THEN after_reset(c, p, m, t)
  ELSE update_inwnd(ack_payload_handler(after_reset(c, p, m, t), p, m), m.seq)

\* Mutants: the packet that falls off is NACKed even if it timed out before;
\* it is NACKed but not popped.
prepare_to_send_renotifies(c) ==
  LET edge == wnd_edge(c)
      nacked == recompute_timer([do_neg_ack(c, {edge}) EXCEPT !.next_timeout = edge + 1])
  IN IF edge \in c.unacked THEN [nacked EXCEPT !.unacked = @ \ {edge}] ELSE c

prepare_to_send_keeps_edge(c) ==
  LET edge == wnd_edge(c)
  IN IF edge \in c.unacked /\ edge >= c.next_timeout
     THEN recompute_timer([do_neg_ack(c, {edge}) EXCEPT !.next_timeout = edge + 1])
     ELSE c

\* Make room for one more packet; the one that falls off is NACKed if it was
\* never timed out.
prepare_to_send(c) ==
  LET edge == wnd_edge(c)
      nacked == IF edge >= c.next_timeout
                THEN recompute_timer([do_neg_ack(c, {edge}) EXCEPT !.next_timeout = edge + 1])
                ELSE c
  IN IF edge \in c.unacked THEN [nacked EXCEPT !.unacked = @ \ {edge}] ELSE c

\* Mutant: the timer is not set for the packet just sent.
commit_packet_no_timer(c) ==
  [c EXCEPT !.head = @ + 1, !.unacked = @ \cup {c.head + 1}]

commit_packet(c) ==
  recompute_timer([c EXCEPT !.head = @ + 1, !.unacked = @ \cup {c.head + 1}])

\* Mutant: the newest packet acknowledges all the older ones.
ack_vec_cumulative(c) == (c.in_max - InWnd + 1)..c.in_max

\* in_max, the AckHi numbers before it one by one, the older ones all or none.
ack_vec(c) ==
  LET low == (c.in_max - InWnd + 1)..(c.in_max - AckHi - 1)
  IN {c.in_max} \cup {s \in c.inwnd : s >= c.in_max - AckHi}
       \cup (IF low \subseteq c.inwnd THEN low ELSE {})

packet(c, p) ==
  [src |-> p, tstamp |-> c.last_reset_time, inc |-> c.resets, seq |-> c.head + 1,
   rst |-> ~c.in_sync, ack_seq |-> c.in_max, acks |-> ack_vec(c)]

\* History: what identifies a packet, across epochs and restarts.
id(m) == <<m.tstamp, m.inc, m.seq>>
=============================================================================
