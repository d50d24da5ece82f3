--------------------------- MODULE FpProtoProofs ----------------------------
(***************************************************************************)
(* Proofs about the control connection of FpProto, for every window        *)
(* length, threshold, clock and number of packets.                         *)
(***************************************************************************)
EXTENDS FpProto, WellFoundedInduction, TLAPS

\* A non-empty set of naturals has a least element: what Min returns.
LEMMA MinNat ==
  ASSUME NEW S, S \subseteq Nat, S # {}
  PROVE  Min(S) \in S /\ \A x \in S : Min(S) <= x
<1> DEFINE Lt == OpToRel(<, Nat)
<1>1. IsWellFoundedOn(Lt, Nat)
  BY NatLessThanWellFounded
<1>2. \A a, b \in Nat : a < b => <<a, b>> \in Lt
  BY DEF OpToRel
<1> HIDE DEF Lt
<1>3. PICK x \in S : \A y \in S : ~(<<y, x>> \in Lt)
  BY <1>1, WFMin
<1>4. ASSUME NEW y \in S PROVE x <= y
  <2>1. x \in Nat /\ y \in Nat
    OBVIOUS
  <2>2. ~(y < x)
    BY <2>1, <1>2, <1>3
  <2> QED
    BY <2>1, <2>2
<1> QED
  BY <1>4 DEF Min

\* What holds of one side's window whatever its timeouts: its bounds, that no
\* packet is forgotten and that no notice is repeated.
CoreInv(c) ==
  /\ c \in ConnType
  /\ c.unacked \subseteq 1..c.head
  /\ c.unacked \subseteq wnd_edge(c)..c.head
  /\ c.nacked \subseteq 1..c.head
  /\ \A s \in c.skipped : s < c.next_skip
  /\ c.renotified = {}
  /\ \A s \in 1..c.head : s \in c.acked \/ s \in c.nacked \/ s \in c.unacked

\* The packets before next_timeout, and only those, were reported.
WindowInv(c) ==
  /\ CoreInv(c)
  /\ c.next_timeout \in 1..(c.head + 1)
  /\ \A s \in c.nacked : s < c.next_timeout
  /\ \A s \in c.unacked : s < c.next_timeout => s \in c.nacked

\* The timer runs while a packet waits for its timeout.
TimerInv(c) == \A s \in c.unacked : s >= c.next_timeout => c.timer # 0

ConnInv(c) == WindowInv(c) /\ TimerInv(c)

LEMMA ResetInv ==
  ASSUME NEW c \in ConnType, NEW t \in Int, NEW sync \in BOOLEAN
  PROVE  ConnInv(do_proto_reset(c, t, sync))
<1> DEFINE d == do_proto_reset(c, t, sync)
<1>1. c.resets + 1 \in Nat /\ (1 - InWnd)..0 \subseteq Int
  BY ProtoAssumption, ConnAssumption DEF ConnType
<1>2. d \in ConnType
  BY <1>1 DEF do_proto_reset, ConnType
<1>3. /\ d.head = 0 /\ d.unacked = {} /\ d.next_timeout = 1
      /\ d.nacked = {} /\ d.skipped = {} /\ d.renotified = {}
  BY DEF do_proto_reset, ConnType
<1> HIDE DEF d
<1>4. WindowInv(d)
  BY <1>2, <1>3 DEF WindowInv, CoreInv
<1>5. TimerInv(d)
  BY <1>3 DEF TimerInv
<1> QED
  BY <1>4, <1>5 DEF ConnInv, d

\* Setting the timer for the earliest of S, when every other packet of the
\* window was reported and no packet from S on was.
LEMMA SetTimerInv ==
  ASSUME NEW c, CoreInv(c), NEW S \in SUBSET c.unacked,
         \A s \in c.nacked : \A r \in S : s < r,
         \A s \in c.unacked : s \notin S => s \in c.nacked
  PROVE  ConnInv(set_timer(c, S))
<1> DEFINE d == set_timer(c, S)
<1>1. /\ c \in ConnType /\ c.head \in Nat /\ c.nacked \subseteq 1..c.head
      /\ S \subseteq 1..c.head /\ S \subseteq Nat /\ c.unacked \subseteq 1..c.head
  BY DEF CoreInv, ConnType
<1>2. ASSUME NEW next \in 1..(c.head + 1), NEW timer \in Nat,
             d = [c EXCEPT !.next_timeout = next, !.timer = timer],
             \A s \in c.nacked : s < next,
             \A s \in c.unacked : s < next => s \in c.nacked,
             \A s \in c.unacked : s >= next => timer # 0
      PROVE  ConnInv(d)
  <2> HIDE DEF d
  <2> next \in Nat
    BY <1>1
  <2>1. d \in ConnType
    BY <1>1, <1>2 DEF ConnType
  <2>2. /\ d.next_timeout = next /\ d.timer = timer
        /\ d.head = c.head /\ d.unacked = c.unacked /\ d.acked = c.acked
        /\ d.nacked = c.nacked /\ d.skipped = c.skipped /\ d.next_skip = c.next_skip
        /\ d.renotified = c.renotified
    BY <1>1, <1>2 DEF ConnType
  <2>3. CoreInv(d)
    BY <2>1, <2>2 DEF CoreInv, wnd_edge
  <2> QED
    BY <1>2, <2>2, <2>3 DEF ConnInv, WindowInv, TimerInv
<1>3. CASE S = {}
  <2>1. d = [c EXCEPT !.next_timeout = c.head + 1, !.timer = 0]
    BY <1>3 DEF set_timer
  <2>2. \A s \in c.nacked : s < c.head + 1
    BY <1>1
  <2>3. \A s \in c.unacked : s < c.head + 1 /\ s \in c.nacked
    BY <1>1, <1>3
  <2>4. c.head + 1 \in 1..(c.head + 1)
    BY <1>1
  <2>5. \A s \in c.unacked : s >= c.head + 1 => 0 # 0
    BY <1>1, <2>3
  <2> HIDE DEF d
  <2> QED
    BY <1>2, <2>1, <2>2, <2>3, <2>4, <2>5 DEF d
<1>4. CASE S # {}
  <2>1. Min(S) \in S /\ \A s \in S : Min(S) <= s
    BY <1>1, <1>4, MinNat
  <2> DEFINE m == Min(S)
  <2>2. d = [c EXCEPT !.next_timeout = m, !.timer = m]
    BY <1>4 DEF set_timer
  <2> HIDE DEF m, d
  <2>3. m \in S /\ \A s \in S : m <= s
    BY <2>1 DEF m
  <2>4. m \in 1..(c.head + 1) /\ m \in Nat /\ m # 0
    BY <1>1, <2>3
  <2>5. \A s \in c.unacked : s < m => s \in c.nacked
    BY <1>1, <2>3
  <2> QED
    BY <1>2, <2>2, <2>3, <2>4, <2>5 DEF d
<1> QED
  BY <1>3, <1>4
LEMMA RecomputeInv ==
  ASSUME NEW c, WindowInv(c)
  PROVE  ConnInv(recompute_timer(c))
<1>1. /\ CoreInv(c) /\ waiting(c) \in SUBSET c.unacked
      /\ \A s \in c.nacked : \A r \in waiting(c) : s < r
      /\ \A s \in c.unacked : s \notin waiting(c) => s \in c.nacked
  BY DEF WindowInv, CoreInv, ConnType, waiting
<1> QED
  BY <1>1, SetTimerInv DEF recompute_timer

LEMMA TimeoutInv ==
  ASSUME NEW c, ConnInv(c), NEW upto \in Nat
  PROVE  ConnInv(handle_timeout(c, upto))
<1> DEFINE left == {s \in waiting(c) : s > upto}
           due == waiting(c) \ left
           d == do_neg_ack(c, due)
<1>1. WindowInv(c) /\ CoreInv(c) /\ c \in ConnType /\ c.renotified = {}
  BY DEF ConnInv, WindowInv, CoreInv
<1>2. /\ due \subseteq c.unacked /\ left \subseteq c.unacked /\ due \cap c.nacked = {}
      /\ c.nacked \subseteq Nat /\ c.unacked \subseteq Nat
  BY <1>1 DEF WindowInv, ConnType, waiting
<1>3. /\ \A s \in c.nacked \cup due : \A r \in left : s < r
      /\ \A s \in c.unacked : s \notin left => s \in c.nacked \cup due
  BY <1>1, <1>2 DEF WindowInv, ConnType, waiting
<1> HIDE DEF left, due
<1>4. d \in ConnType
  BY <1>1, <1>2 DEF do_neg_ack, ConnType
<1>5. /\ d.nacked = c.nacked \cup due /\ d.renotified = {}
      /\ d.head = c.head /\ d.unacked = c.unacked /\ d.acked = c.acked
      /\ d.skipped = c.skipped /\ d.next_skip = c.next_skip
  BY <1>1, <1>2 DEF do_neg_ack, ConnType
<1> HIDE DEF d
<1>6. CoreInv(d)
  BY <1>1, <1>2, <1>4, <1>5 DEF CoreInv, wnd_edge
<1>7. ConnInv(set_timer(d, left))
  BY <1>2, <1>3, <1>5, <1>6, SetTimerInv
<1> QED
  BY <1>7 DEF handle_timeout, d, left, due

LEMMA PrepareInv ==
  ASSUME NEW c, ConnInv(c)
  PROVE  /\ ConnInv(prepare_to_send(c))
         /\ wnd_edge(prepare_to_send(c)) \notin prepare_to_send(c).unacked
<1> DEFINE edge == wnd_edge(c)
           r == prepare_to_send(c)
<1>1. WindowInv(c) /\ CoreInv(c) /\ TimerInv(c) /\ c \in ConnType
  BY DEF ConnInv, WindowInv, CoreInv
<1>2. CASE edge \notin c.unacked
  BY <1>2 DEF prepare_to_send
<1> HIDE DEF edge
<1>3. ASSUME edge \in c.unacked, NEW b, ConnInv(b), b.head = c.head,
             edge \in b.nacked, r = [b EXCEPT !.unacked = b.unacked \ {edge}]
      PROVE  ConnInv(r) /\ wnd_edge(r) \notin r.unacked
  <2> HIDE DEF r
  <2>1. b \in ConnType /\ WindowInv(b) /\ CoreInv(b) /\ TimerInv(b) /\ b.unacked \ {edge} \subseteq Nat
    BY <1>3 DEF ConnInv, WindowInv, CoreInv, ConnType
  <2>2. r \in ConnType
    BY <1>3, <2>1 DEF ConnType
  <2>3. /\ r.unacked = b.unacked \ {edge} /\ r.head = b.head /\ r.acked = b.acked
        /\ r.nacked = b.nacked /\ r.skipped = b.skipped /\ r.next_skip = b.next_skip
        /\ r.renotified = b.renotified /\ r.next_timeout = b.next_timeout
        /\ r.timer = b.timer
    BY <1>3, <2>1 DEF ConnType
  <2>4. CoreInv(r)
    BY <1>3, <2>1, <2>2, <2>3 DEF CoreInv, wnd_edge
  <2>5. WindowInv(r) /\ TimerInv(r)
    BY <2>1, <2>3, <2>4 DEF WindowInv, TimerInv
  <2>6. wnd_edge(r) = edge
    BY <1>3, <2>3 DEF wnd_edge, edge
  <2> QED
    BY <2>3, <2>5, <2>6 DEF ConnInv
<1>4. CASE edge \in c.unacked /\ edge < c.next_timeout
  <2>1. edge \in c.nacked /\ c.next_timeout \in Int /\ edge \in Int
    BY <1>1, <1>4 DEF WindowInv, ConnType
  <2>2. r = [c EXCEPT !.unacked = c.unacked \ {edge}]
    BY <1>4, <2>1 DEF prepare_to_send, edge
  <2> QED
    BY <1>3, <1>4, <2>1, <2>2
<1>5. CASE edge \in c.unacked /\ ~(edge < c.next_timeout)
  <2> DEFINE d == do_neg_ack(c, {edge})
             e == [d EXCEPT !.next_timeout = edge + 1]
             b == recompute_timer(e)
  <2>1. /\ edge \in Nat /\ edge + 1 \in Nat /\ edge \in 1..c.head /\ edge >= c.next_timeout
        /\ edge \notin c.nacked /\ c.nacked \cup {edge} \subseteq Nat /\ c.head \in Nat
        /\ c.nacked \subseteq Nat /\ c.renotified = {} /\ c.next_timeout \in Nat
    BY <1>1, <1>5 DEF WindowInv, CoreInv, ConnType
  <2>2. d \in ConnType
    BY <1>1, <2>1 DEF do_neg_ack, ConnType
  <2>3. e \in ConnType
    BY <2>1, <2>2 DEF ConnType
  <2>4. /\ e.nacked = c.nacked \cup {edge} /\ e.renotified = {} /\ e.next_timeout = edge + 1
        /\ e.head = c.head /\ e.unacked = c.unacked /\ e.acked = c.acked
        /\ e.skipped = c.skipped /\ e.next_skip = c.next_skip
    BY <1>1, <2>1 DEF do_neg_ack, ConnType
  <2> HIDE DEF d, e
  <2>5. CoreInv(e)
    BY <1>1, <2>1, <2>3, <2>4 DEF CoreInv, wnd_edge
  <2>6. \A s \in c.unacked : s >= edge /\ s \in Nat
    BY <1>1 DEF CoreInv, edge, ConnType
  <2>7. WindowInv(e)
    BY <1>1, <2>1, <2>4, <2>5, <2>6 DEF WindowInv
  <2>8. ConnInv(b)
    BY <2>7, RecomputeInv
  <2>9. b.head = c.head /\ b.nacked = e.nacked
    BY <2>3, <2>4 DEF recompute_timer, set_timer, ConnType
  <2>10. r = [b EXCEPT !.unacked = b.unacked \ {edge}]
    BY <1>5, <2>1 DEF prepare_to_send, edge, d, e
  <2> QED
    BY <1>3, <1>5, <2>4, <2>8, <2>9, <2>10
<1> QED
  BY <1>2, <1>4, <1>5

LEMMA CommitInv ==
  ASSUME NEW c, ConnInv(c), wnd_edge(c) \notin c.unacked
  PROVE  ConnInv(commit_packet(c))
<1> DEFINE d == [c EXCEPT !.head = @ + 1, !.unacked = @ \cup {c.head + 1}]
<1>1. /\ WindowInv(c) /\ CoreInv(c) /\ c \in ConnType /\ c.head \in Nat /\ c.head + 1 \in Nat
      /\ c.unacked \cup {c.head + 1} \subseteq Nat /\ c.unacked \subseteq Nat
  BY DEF ConnInv, WindowInv, CoreInv, ConnType
<1>2. d \in ConnType
  BY <1>1 DEF ConnType
<1>3. /\ d.head = c.head + 1 /\ d.unacked = c.unacked \cup {c.head + 1}
      /\ d.acked = c.acked /\ d.nacked = c.nacked /\ d.skipped = c.skipped
      /\ d.next_skip = c.next_skip /\ d.renotified = c.renotified
      /\ d.next_timeout = c.next_timeout
  BY <1>1 DEF ConnType
<1> HIDE DEF d
<1>4. wnd_edge(d) = wnd_edge(c) + 1 /\ wnd_edge(c) \in Int
  BY <1>1, <1>3, ProtoAssumption, ConnAssumption DEF wnd_edge
<1>5. d.unacked \subseteq 1..d.head /\ d.nacked \subseteq 1..d.head
  BY <1>1, <1>3 DEF CoreInv
<1>6. d.unacked \subseteq wnd_edge(d)..d.head
  <2>1. ASSUME NEW s \in c.unacked PROVE s \in wnd_edge(d)..d.head
    BY <1>1, <1>3, <1>4 DEF CoreInv
  <2>2. c.head + 1 \in wnd_edge(d)..d.head
    BY <1>1, <1>3, ProtoAssumption, ConnAssumption DEF wnd_edge
  <2> QED
    BY <1>3, <2>1, <2>2
<1>7. \A s \in 1..d.head : s \in d.acked \/ s \in d.nacked \/ s \in d.unacked
  BY <1>1, <1>3 DEF CoreInv
<1>8. CoreInv(d)
  BY <1>1, <1>2, <1>3, <1>5, <1>6, <1>7 DEF CoreInv
<1>9. d.next_timeout \in 1..(d.head + 1)
  BY <1>1, <1>3 DEF WindowInv
<1>10. \A s \in d.unacked : s < d.next_timeout => s \in d.nacked
  BY <1>1, <1>3 DEF WindowInv
<1>11. WindowInv(d)
  BY <1>1, <1>3, <1>8, <1>9, <1>10 DEF WindowInv
<1> QED
  BY <1>11, RecomputeInv DEF commit_packet, d

\* What the sending side's notices and window are made of: the rest of the
\* connection may change freely.
SendState(c) ==
  <<c.head, c.unacked, c.next_timeout, c.next_skip, c.timer, c.acked, c.nacked,
    c.skipped, c.renotified>>

LEMMA SameSendState ==
  ASSUME NEW c, ConnInv(c), NEW d \in ConnType, SendState(d) = SendState(c)
  PROVE  ConnInv(d)
<1>1. /\ d.head = c.head /\ d.unacked = c.unacked /\ d.next_timeout = c.next_timeout
      /\ d.next_skip = c.next_skip /\ d.timer = c.timer /\ d.acked = c.acked
      /\ d.nacked = c.nacked /\ d.skipped = c.skipped /\ d.renotified = c.renotified
  BY DEF SendState
<1> QED
  BY <1>1 DEF ConnInv, WindowInv, TimerInv, CoreInv, wnd_edge

LEMMA SkipInv ==
  ASSUME NEW c, ConnInv(c), NEW a \in Nat
  PROVE  /\ ConnInv(skip_acks(c, a))
         /\ skip_acks(c, a) = [c EXCEPT !.next_skip = skip_acks(c, a).next_skip,
                                        !.skipped = skip_acks(c, a).skipped,
                                        !.renotified = skip_acks(c, a).renotified]
<1> DEFINE passed == {s \in c.unacked : s >= c.next_skip /\ s < a}
           d == [c EXCEPT !.next_skip = a + 1, !.skipped = @ \cup passed,
                          !.renotified = @ \cup (passed \cap c.skipped)]
<1>1. WindowInv(c) /\ CoreInv(c) /\ TimerInv(c) /\ c \in ConnType
  BY DEF ConnInv, WindowInv, CoreInv
<1>2. CASE ~(a >= c.next_skip)
  BY <1>1, <1>2 DEF skip_acks, ConnType
<1>3. CASE a >= c.next_skip
  <2>1. /\ a + 1 \in Nat /\ passed \subseteq Nat /\ c.skipped \subseteq Nat /\ c.next_skip \in Nat
        /\ c.skipped \cup passed \subseteq Nat
    BY <1>1 DEF ConnType
  <2>2. passed \cap c.skipped = {} /\ c.renotified = {}
    BY <1>1, <2>1 DEF CoreInv, ConnType
  <2>3. \A s \in c.skipped \cup passed : s < a + 1
    BY <1>1, <1>3, <2>1 DEF CoreInv, ConnType
  <2> HIDE DEF passed
  <2>4. d \in ConnType
    BY <1>1, <2>1, <2>2 DEF ConnType
  <2>5. /\ d.head = c.head /\ d.unacked = c.unacked /\ d.next_timeout = c.next_timeout
        /\ d.next_skip = a + 1 /\ d.timer = c.timer /\ d.acked = c.acked
        /\ d.nacked = c.nacked /\ d.skipped = c.skipped \cup passed /\ d.renotified = {}
    BY <1>1, <2>2 DEF ConnType
  <2>6. d = [c EXCEPT !.next_skip = d.next_skip, !.skipped = d.skipped, !.renotified = d.renotified]
    BY <1>1, <2>2 DEF ConnType
  <2> HIDE DEF d
  <2>7. CoreInv(d)
    BY <1>1, <2>3, <2>4, <2>5 DEF CoreInv, wnd_edge
  <2>8. ConnInv(d)
    BY <1>1, <2>5, <2>7 DEF ConnInv, WindowInv, TimerInv
  <2>9. skip_acks(c, a) = d
    BY <1>3 DEF skip_acks, d, passed
  <2> QED
    BY <2>6, <2>8, <2>9
<1> QED
  BY <1>2, <1>3

\* What an ACK may change: packets leave the window and are acknowledged.
LEMMA AckInv ==
  ASSUME NEW c, ConnInv(c), NEW p \in Side, NEW m \in Packet
  PROVE  LET r == ack_payload_handler(c, p, m) IN
         /\ ConnInv(r)
         /\ r.last_reset_time = c.last_reset_time /\ r.resets = c.resets
         /\ r.head = c.head /\ r.in_max = c.in_max /\ r.inwnd = c.inwnd
         /\ r.unacked \subseteq c.unacked
         /\ r.acked \subseteq c.acked \cup (m.acks \cap c.unacked)
<1> DEFINE todo == m.acks \cap c.unacked
           d == [c EXCEPT !.unacked = @ \ todo, !.acked = @ \cup todo]
           e == IF IS_ENDPOINT(p) THEN d ELSE skip_acks(d, m.ack_seq)
           r == ack_payload_handler(c, p, m)
<1>1. /\ WindowInv(c) /\ CoreInv(c) /\ TimerInv(c) /\ c \in ConnType /\ m.ack_seq \in Nat
      /\ c.acked \cup todo \subseteq Nat /\ c.unacked \ todo \subseteq Nat
  BY DEF ConnInv, WindowInv, CoreInv, ConnType, Packet
<1> HIDE DEF todo
<1>2. d \in ConnType
  BY <1>1 DEF ConnType
<1>3. /\ d.unacked = c.unacked \ todo /\ d.acked = c.acked \cup todo /\ d.head = c.head
      /\ d.nacked = c.nacked /\ d.skipped = c.skipped /\ d.next_skip = c.next_skip
      /\ d.renotified = c.renotified /\ d.next_timeout = c.next_timeout
      /\ d.timer = c.timer /\ d.last_reset_time = c.last_reset_time /\ d.resets = c.resets
      /\ d.in_max = c.in_max /\ d.inwnd = c.inwnd
  BY <1>1 DEF ConnType
<1> HIDE DEF d
<1>4. CoreInv(d)
  BY <1>1, <1>2, <1>3 DEF CoreInv, wnd_edge
<1>5. ConnInv(d)
  BY <1>1, <1>3, <1>4 DEF ConnInv, WindowInv, TimerInv
<1>6. /\ ConnInv(e)
      /\ e.last_reset_time = c.last_reset_time /\ e.resets = c.resets
      /\ e.head = c.head /\ e.in_max = c.in_max /\ e.inwnd = c.inwnd
      /\ e.unacked = d.unacked /\ e.acked = d.acked
  <2>1. CASE IS_ENDPOINT(p)
    BY <2>1, <1>3, <1>5
  <2>2. CASE ~IS_ENDPOINT(p)
    <3>1. e = skip_acks(d, m.ack_seq)
      BY <2>2
    <3> HIDE DEF e
    <3>2. /\ ConnInv(e)
          /\ e = [d EXCEPT !.next_skip = e.next_skip, !.skipped = e.skipped,
                           !.renotified = e.renotified]
      BY <1>1, <1>5, <3>1, SkipInv
    <3> QED
      BY ZenonT(60), <1>2, <1>3, <3>2 DEF ConnType
  <2> QED
    BY <2>1, <2>2
<1> HIDE DEF e
<1>7. CASE m.ack_seq < wnd_edge(c)
  BY <1>7 DEF ack_payload_handler
<1>8. CASE ~(m.ack_seq < wnd_edge(c)) /\ todo = {}
  <2>1. r = e
    BY <1>8 DEF ack_payload_handler, todo, d, e
  <2> QED
    BY <1>3, <1>6, <1>8, <2>1
<1>9. CASE ~(m.ack_seq < wnd_edge(c)) /\ todo # {}
  <2>1. r = recompute_timer(e)
    BY <1>9 DEF ack_payload_handler, todo, d, e
  <2>2. ConnInv(recompute_timer(e)) /\ e \in ConnType
    BY <1>6, RecomputeInv DEF ConnInv, WindowInv, CoreInv
  <2>3. LET b == recompute_timer(e) IN
        /\ b.last_reset_time = e.last_reset_time /\ b.resets = e.resets
        /\ b.head = e.head /\ b.in_max = e.in_max /\ b.inwnd = e.inwnd
        /\ b.unacked = e.unacked /\ b.acked = e.acked
    BY <2>2 DEF recompute_timer, set_timer, ConnType
  <2> QED
    BY <1>3, <1>6, <2>1, <2>2, <2>3 DEF todo
<1> QED
  BY <1>7, <1>8, <1>9

LEMMA UpdateInv ==
  ASSUME NEW c, ConnInv(c), NEW seq \in Nat
  PROVE  LET r == update_inwnd(c, seq) IN
         /\ ConnInv(r)
         /\ r.last_reset_time = c.last_reset_time /\ r.resets = c.resets
         /\ r.head = c.head /\ r.unacked = c.unacked /\ r.acked = c.acked
<1> DEFINE r == update_inwnd(c, seq)
<1>1. /\ c \in ConnType /\ c.inwnd \cup {seq} \subseteq Int
      /\ {s \in c.inwnd : s > seq - InWnd} \cup {seq} \subseteq Int
  BY DEF ConnInv, WindowInv, CoreInv, ConnType
<1>2. r \in ConnType
  BY <1>1 DEF update_inwnd, ConnType
<1>3. /\ SendState(r) = SendState(c)
      /\ r.last_reset_time = c.last_reset_time /\ r.resets = c.resets
      /\ r.head = c.head /\ r.unacked = c.unacked /\ r.acked = c.acked
  BY <1>1 DEF update_inwnd, ConnType, SendState
<1> QED
  BY <1>2, <1>3, SameSendState

\* d is c in the same epoch, with the same windows; d is c in a new epoch t.
Kept(c, d) ==
  /\ d.last_reset_time = c.last_reset_time /\ d.resets = c.resets
  /\ d.in_max = c.in_max /\ d.inwnd = c.inwnd
  /\ SendState(d) = SendState(c)

Renewed(c, d, t) ==
  /\ d.last_reset_time = t /\ d.resets = c.resets + 1
  /\ d.head = 0 /\ d.unacked = {} /\ d.acked = {}
  /\ d.in_max = 0 /\ d.inwnd = (1 - InWnd)..0

LEMMA ResetRenews ==
  ASSUME NEW c \in ConnType, NEW t \in Int, NEW sync \in BOOLEAN
  PROVE  ConnInv(do_proto_reset(c, t, sync)) /\ Renewed(c, do_proto_reset(c, t, sync), t)
<1>1. Renewed(c, do_proto_reset(c, t, sync), t)
  BY DEF Renewed, do_proto_reset, ConnType
<1> QED
  BY <1>1, ResetInv

LEMMA BadInv ==
  ASSUME NEW c, ConnInv(c), NEW t \in Int
  PROVE  LET r == got_bad_packet(c, t) IN
         /\ ConnInv(r)
         /\ Kept(c, r) \/ (Renewed(c, r, t) /\ ~recent_reset(c.last_reset_time, t))
<1> DEFINE b == [c EXCEPT !.in_sync = FALSE, !.bad = @ + 1]
           z == [b EXCEPT !.bad = 0]
           r == got_bad_packet(c, t)
<1>1. c \in ConnType /\ c.bad + 1 \in Nat
  BY DEF ConnInv, WindowInv, CoreInv, ConnType
<1>2. b \in ConnType /\ Kept(c, b)
  BY <1>1 DEF ConnType, Kept, SendState
<1>3. z \in ConnType /\ Kept(c, z)
  BY <1>1 DEF ConnType, Kept, SendState
<1>4. b.resets = c.resets
  BY <1>1 DEF ConnType
<1>5. r \in {b, z} \/ (r = do_proto_reset(b, t, FALSE) /\ ~recent_reset(c.last_reset_time, t))
  BY DEF got_bad_packet
<1> HIDE DEF b, z, r
<1>6. CASE r \in {b, z}
  BY <1>2, <1>3, <1>6, SameSendState DEF Kept, r
<1>7. CASE r = do_proto_reset(b, t, FALSE) /\ ~recent_reset(c.last_reset_time, t)
  <2>1. ConnInv(r) /\ Renewed(b, r, t)
    BY <1>2, <1>7, ResetRenews
  <2> QED
    BY <1>4, <1>7, <2>1 DEF Renewed, r
<1> QED
  BY <1>5, <1>6, <1>7

\* A good packet keeps the epoch, or its RESET starts another.
LEMMA AfterResetInv ==
  ASSUME NEW c, ConnInv(c), NEW p \in Side, NEW m \in Packet, NEW t \in Int
  PROVE  LET r == after_reset(c, p, m, t)
             verdict == reset_verdict(c.last_reset_time, m.tstamp, t)
         IN /\ ConnInv(r)
            /\ \/ Kept(c, r) /\ (m.rst => verdict \in {"same", "refuse"})
               \/ m.rst /\ verdict = "accept" /\ Renewed(c, r, m.tstamp)
               \/ m.rst /\ verdict = "renew" /\ Renewed(c, r, t)
<1> DEFINE good == [c EXCEPT !.bad = 0, !.in_sync = ~m.rst]
           synced == [good EXCEPT !.in_sync = IS_ENDPOINT(p)]
           r == after_reset(c, p, m, t)
           verdict == reset_verdict(c.last_reset_time, m.tstamp, t)
<1>1. /\ c \in ConnType /\ m.rst \in BOOLEAN /\ (~m.rst) \in BOOLEAN
      /\ IS_ENDPOINT(p) \in BOOLEAN /\ m.tstamp \in Int
  BY DEF ConnInv, WindowInv, CoreInv, Packet, IS_ENDPOINT
<1>2. /\ good \in ConnType /\ Kept(c, good) /\ good.resets = c.resets
      /\ good.last_reset_time = c.last_reset_time
  BY <1>1 DEF ConnType, Kept, SendState
<1>3. synced \in ConnType /\ Kept(c, synced)
  BY <1>1 DEF ConnType, Kept, SendState
<1>4. verdict \in {"same", "accept", "refuse", "renew"}
  BY DEF reset_verdict
<1> HIDE DEF verdict
<1>5. r = IF m.rst
          THEN IF verdict = "same" THEN synced
               ELSE IF verdict = "accept" THEN do_proto_reset(good, m.tstamp, IS_ENDPOINT(p))
               ELSE IF verdict = "renew" THEN do_proto_reset(good, t, IS_ENDPOINT(p))
               ELSE good
          ELSE good
  BY <1>2 DEF after_reset, reset_payload_handler, verdict
<1> HIDE DEF good, synced, r
<1>6. CASE r \in {good, synced} /\ (m.rst => verdict \in {"same", "refuse"})
  BY <1>2, <1>3, <1>6, SameSendState DEF Kept, r, verdict
<1>7. ASSUME NEW u \in Int, r = do_proto_reset(good, u, IS_ENDPOINT(p))
      PROVE  ConnInv(r) /\ Renewed(c, r, u)
  BY <1>1, <1>2, <1>7, ResetRenews DEF Renewed
<1>8. CASE ~m.rst \/ verdict \in {"same", "refuse"}
  <2>1. r \in {good, synced} /\ (m.rst => verdict \in {"same", "refuse"})
    BY <1>1, <1>4, <1>5, <1>8
  <2> QED
    BY <1>6, <2>1
<1>9. CASE m.rst /\ verdict = "accept"
  <2>1. ConnInv(r) /\ Renewed(c, r, m.tstamp)
    BY <1>1, <1>5, <1>7, <1>9
  <2> QED
    BY <1>9, <2>1 DEF r, verdict
<1>10. CASE m.rst /\ verdict = "renew"
  <2>1. ConnInv(r) /\ Renewed(c, r, t)
    BY <1>1, <1>5, <1>7, <1>10
  <2> QED
    BY <1>10, <2>1 DEF r, verdict
<1> QED
  BY <1>1, <1>4, <1>8, <1>9, <1>10

\* Receiving a packet: a bad one, one that is not accepted, an accepted one.
LEMMA RxInv ==
  ASSUME NEW c, ConnInv(c), NEW p \in Side, NEW m \in Packet, NEW t \in Int
  PROVE  LET r == handle_rx_complete(c, p, m, t) IN
         /\ ConnInv(r)
         /\ wnd_edge(c) \notin c.unacked => wnd_edge(r) \notin r.unacked
<1> DEFINE r == handle_rx_complete(c, p, m, t)
           a == after_reset(c, p, m, t)
           b == got_bad_packet(c, t)
           k == ack_payload_handler(a, p, m)
           Free(d) == wnd_edge(c) \notin c.unacked => wnd_edge(d) \notin d.unacked
<1>1. m.seq \in Nat
  BY DEF Packet
<1>2. ASSUME NEW d, NEW u, Kept(c, d) \/ Renewed(c, d, u) PROVE Free(d)
  BY <1>2 DEF Kept, Renewed, SendState, wnd_edge
<1>3. ConnInv(b) /\ Free(b)
  BY <1>2, BadInv
<1>4. ConnInv(a) /\ Free(a)
  BY <1>2, AfterResetInv
<1> HIDE DEF a, b
<1>5. ConnInv(k) /\ k.head = a.head /\ k.unacked \subseteq a.unacked
  BY <1>4, AckInv
<1> HIDE DEF k
<1>6. LET d == update_inwnd(k, m.seq) IN ConnInv(d) /\ d.head = k.head /\ d.unacked = k.unacked
  BY <1>1, <1>5, UpdateInv
<1>7. r = IF ~checksum_ok(c, m) THEN b ELSE IF ~accepts(c, p, m, t) THEN a
          ELSE update_inwnd(k, m.seq)
  BY DEF handle_rx_complete, a, b, k
<1> QED
  BY <1>3, <1>4, <1>5, <1>6, <1>7 DEF wnd_edge

-----------------------------------------------------------------------------
(* The connection as a whole, with clocks that run as they like.           *)

\* Both windows are consistent, and the endpoint's slot stays free while it
\* is between prepare_to_send and commit_packet.
SendInv ==
  /\ TypeOK
  /\ \A p \in Side : ConnInv(conn[p])
  /\ sending => wnd_edge(conn["endpoint"]) \notin conn["endpoint"].unacked

LEMMA ClockInt ==
  ASSUME now \in Nat, NEW p \in Side
  PROVE  Clock(p) \in Int
BY ProtoAssumption, ConnAssumption DEF Clock

LEMMA PacketType ==
  ASSUME NEW c \in ConnType, NEW p \in Side
  PROVE  packet(c, p) \in Packet
<1>1. c.inwnd \subseteq Int /\ c.in_max \in Nat
  BY DEF ConnType
<1>2. ack_vec(c) \subseteq Int
  BY <1>1, ProtoAssumption, ConnAssumption DEF ack_vec
<1>3. (~c.in_sync) \in BOOLEAN
  OBVIOUS
<1>4. c.head + 1 \in Nat /\ c.last_reset_time \in Int /\ c.resets \in Nat
  BY DEF ConnType
<1> QED
  BY <1>1, <1>2, <1>3, <1>4 DEF packet, Packet

LEMMA SendInit == Init => SendInv
<1> SUFFICES ASSUME Init PROVE SendInv
  OBVIOUS
<1>1. PICK t \in [Side -> Started] : conn = [p \in Side |-> fresh_conn(t[p] + Skew[p])]
  BY DEF Init
<1>2. ASSUME NEW p \in Side
      PROVE  conn[p] \in ConnType /\ ConnInv(conn[p])
  <2>s. t[p] \in Int
    BY ProtoAssumption, ConnAssumption
  <2>w. Skew[p] \in Int /\ (1 - InWnd)..0 \subseteq Int
    BY ProtoAssumption, ConnAssumption
  <2>1. t[p] \in Int /\ Skew[p] \in Int /\ (1 - InWnd)..0 \subseteq Int
    BY <2>s, <2>w
  <2> DEFINE d == fresh_conn(t[p] + Skew[p])
  <2> t[p] + Skew[p] \in Int
    BY <2>1
  <2>2. d \in ConnType
    BY <2>1 DEF fresh_conn, ConnType
  <2>3. /\ d.head = 0 /\ d.unacked = {} /\ d.next_timeout = 1 /\ d.nacked = {}
        /\ d.skipped = {} /\ d.renotified = {}
    BY DEF fresh_conn
  <2>4. conn[p] = d
    BY <1>1
  <2> HIDE DEF d
  <2>5. CoreInv(d)
    BY <2>2, <2>3 DEF CoreInv
  <2> QED
    BY <2>2, <2>3, <2>4, <2>5 DEF ConnInv, WindowInv, TimerInv
<1>3. conn \in [Side -> ConnType]
  BY <1>1, <1>2
<1> QED
  BY <1>2, <1>3 DEF Init, SendInv, TypeOK

LEMMA SendStep == SendInv /\ [Next]_vars => SendInv'
<1> SUFFICES ASSUME SendInv, [Next]_vars PROVE SendInv'
  OBVIOUS
<1> USE DEF SendInv
<1>t. /\ "endpoint" \in Side /\ "controller" \in Side /\ TypeOK /\ now \in Nat
      /\ \A p \in Side : conn[p] \in ConnType
      /\ conn \in [Side -> ConnType]
  BY DEF TypeOK, Side
\* A step that replaces one side's connection by a consistent one.
<1>c. ASSUME NEW p \in Side, NEW d, ConnInv(d), conn' = [conn EXCEPT ![p] = d]
      PROVE  conn' \in [Side -> ConnType] /\ \A q \in Side : ConnInv(conn'[q])
  <2>1. d \in ConnType
    BY <1>c DEF ConnInv, WindowInv, CoreInv
  <2> QED
    BY <1>c, <1>t, <2>1
<1>1. CASE Tick
  BY <1>1 DEF Tick, TypeOK, history
<1>2. CASE PrepareToSend
  <2> DEFINE d == prepare_to_send(conn["endpoint"])
  <2>1. ConnInv(d) /\ wnd_edge(d) \notin d.unacked
    BY <1>t, PrepareInv
  <2> HIDE DEF d
  <2>2. conn' = [conn EXCEPT !["endpoint"] = d] /\ conn'["endpoint"] = d
    BY <1>2, <1>t DEF PrepareToSend, d
  <2>3. conn' \in [Side -> ConnType] /\ \A q \in Side : ConnInv(conn'[q])
    BY <1>c, <1>t, <2>1, <2>2
  <2> QED
    BY <1>2, <2>1, <2>2, <2>3 DEF PrepareToSend, TypeOK, history
<1>3. CASE CommitPacket
  <2> DEFINE d == commit_packet(conn["endpoint"])
  <2>1. ConnInv(d)
    BY <1>3, <1>t, CommitInv DEF CommitPacket
  <2> HIDE DEF d
  <2>2. conn' = [conn EXCEPT !["endpoint"] = d]
    BY <1>3 DEF CommitPacket, d
  <2>3. conn' \in [Side -> ConnType] /\ \A q \in Side : ConnInv(conn'[q])
    BY <1>c, <1>t, <2>1, <2>2
  <2>4. net' \subseteq Packet
    BY <1>3, <1>t, PacketType DEF CommitPacket, TypeOK
  <2> QED
    BY <1>3, <2>3, <2>4 DEF CommitPacket, TypeOK, history
<1>4. CASE TxEndNode
  <2> DEFINE ready == prepare_to_send(conn["controller"])
             d == commit_packet(ready)
  <2>1. ConnInv(ready) /\ wnd_edge(ready) \notin ready.unacked
    BY <1>t, PrepareInv
  <2>2. conn' = [conn EXCEPT !["controller"] = d] /\ net' = net \cup {packet(ready, "controller")}
    BY <1>4 DEF TxEndNode
  <2> HIDE DEF ready
  <2>3. ConnInv(d) /\ ready \in ConnType
    BY <2>1, CommitInv DEF ConnInv, WindowInv, CoreInv
  <2> HIDE DEF d
  <2>4. conn' \in [Side -> ConnType] /\ \A q \in Side : ConnInv(conn'[q])
    BY <1>c, <1>t, <2>2, <2>3
  <2>5. net' \subseteq Packet
    BY <1>t, <2>2, <2>3, PacketType DEF TypeOK
  <2>6. conn'["endpoint"] = conn["endpoint"]
    BY <1>t, <2>2
  <2> QED
    BY <1>4, <2>4, <2>5, <2>6 DEF TxEndNode, TypeOK, history
<1>5. CASE ForceReset
  <2> DEFINE d == do_proto_reset(conn["endpoint"], Clock("endpoint"), FALSE)
  <2>1. ConnInv(d) /\ d.unacked = {}
    BY <1>t, ClockInt, ResetRenews DEF Renewed
  <2> HIDE DEF d
  <2>2. conn' = [conn EXCEPT !["endpoint"] = d] /\ conn'["endpoint"] = d
    BY <1>5, <1>t DEF ForceReset, d
  <2>3. conn' \in [Side -> ConnType] /\ \A q \in Side : ConnInv(conn'[q])
    BY <1>c, <1>t, <2>1, <2>2
  <2> QED
    BY <1>5, <2>1, <2>2, <2>3 DEF ForceReset, TypeOK, history
<1>6. ASSUME NEW p \in Side, NEW m \in net, HandleRxPacket(p, m)
      PROVE  SendInv'
  <2> DEFINE d == handle_rx_complete(conn[p], p, m, Clock(p))
  <2>1. m \in Packet /\ Clock(p) \in Int
    BY <1>t, ClockInt DEF TypeOK
  <2>2. ConnInv(d) /\ (wnd_edge(conn[p]) \notin conn[p].unacked => wnd_edge(d) \notin d.unacked)
    BY <1>t, <2>1, RxInv
  <2> HIDE DEF d
  <2>3. conn' = [conn EXCEPT ![p] = d]
    BY <1>6 DEF HandleRxPacket, d
  <2>4. conn' \in [Side -> ConnType] /\ \A q \in Side : ConnInv(conn'[q])
    BY <1>c, <1>t, <2>2, <2>3
  <2>5. sending' => wnd_edge(conn'["endpoint"]) \notin conn'["endpoint"].unacked
    BY <1>6, <1>t, <2>2, <2>3 DEF HandleRxPacket
  <2>6. id(m) \in Int \X Nat \X Nat
    BY <2>1 DEF id, Packet
  <2>7. /\ delivered' \in [Side -> SUBSET (Int \X Nat \X Nat)]
        /\ redelivered' \in [Side -> SUBSET (Int \X Nat \X Nat)]
    <3> DEFINE Ids == Int \X Nat \X Nat
    <3>1. delivered \in [Side -> SUBSET Ids] /\ redelivered \in [Side -> SUBSET Ids]
      BY DEF TypeOK
    <3> HIDE DEF Ids
    <3> QED
      BY <1>6, <2>6, <3>1 DEF HandleRxPacket, history, Ids
  <2> QED
    BY <1>6, <2>4, <2>5, <2>7 DEF HandleRxPacket, TypeOK
<1>7. ASSUME NEW p \in Side, HandleTimeout(p)
      PROVE  SendInv'
  <2>1. PICK upto \in 0..conn[p].head : conn' = [conn EXCEPT ![p] = handle_timeout(@, upto)]
    BY <1>7 DEF HandleTimeout
  <2> DEFINE d == handle_timeout(conn[p], upto)
  <2>2. upto \in Nat /\ conn[p] \in ConnType
    BY <1>t DEF ConnType
  <2>3. ConnInv(d)
    BY <2>2, TimeoutInv
  <2>4. d.head = conn[p].head /\ d.unacked = conn[p].unacked
    BY <2>2 DEF handle_timeout, set_timer, do_neg_ack, ConnType
  <2>5. conn' = [conn EXCEPT ![p] = d]
    BY <2>1
  <2> HIDE DEF d
  <2>6. conn' \in [Side -> ConnType] /\ \A q \in Side : ConnInv(conn'[q])
    BY <1>c, <1>t, <2>3, <2>5
  <2>7. sending => wnd_edge(conn'["endpoint"]) \notin conn'["endpoint"].unacked
    BY <1>t, <2>4, <2>5 DEF wnd_edge
  <2> QED
    BY <1>7, <2>6, <2>7 DEF HandleTimeout, TypeOK, history
<1>8. ASSUME NEW p \in Side, Restart(p)
      PROVE  SendInv'
  <2> DEFINE b == do_proto_reset(conn[p], Clock(p), FALSE)
             d == [b EXCEPT !.timer = 0]
  <2>r. ConnInv(b) /\ b.unacked = {}
    BY <1>t, ClockInt, ResetRenews DEF Renewed
  <2>1. ConnInv(b) /\ b.unacked = {} /\ b \in ConnType
    BY <2>r DEF ConnInv, WindowInv, CoreInv
  <2>2. conn' = [conn EXCEPT ![p] = d]
    BY <1>8 DEF Restart
  <2> HIDE DEF b
  <2>3. /\ d \in ConnType /\ d.head = b.head /\ d.unacked = b.unacked
        /\ d.next_timeout = b.next_timeout /\ d.next_skip = b.next_skip
        /\ d.acked = b.acked /\ d.nacked = b.nacked /\ d.skipped = b.skipped
        /\ d.renotified = b.renotified
    BY <2>1 DEF ConnType
  <2> HIDE DEF d
  <2>4. CoreInv(d)
    BY <2>1, <2>3 DEF ConnInv, WindowInv, CoreInv, wnd_edge
  <2>5. ConnInv(d)
    BY <2>1, <2>3, <2>4 DEF ConnInv, WindowInv, TimerInv
  <2>6. conn' \in [Side -> ConnType] /\ \A q \in Side : ConnInv(conn'[q])
    BY <1>c, <1>t, <2>2, <2>5
  <2>7. sending' => wnd_edge(conn'["endpoint"]) \notin conn'["endpoint"].unacked
    <3>1. CASE p = "endpoint"
      BY <1>8, <3>1 DEF Restart, IS_ENDPOINT
    <3>2. CASE p # "endpoint"
      <4>1. conn'["endpoint"] = conn["endpoint"]
        BY <1>t, <2>2, <3>2
      <4> QED
        BY <1>8, <4>1 DEF Restart
    <3> QED
      BY <3>1, <3>2
  <2>8. sending' \in BOOLEAN
    BY <1>8 DEF Restart
  <2> QED
    BY <1>8, <2>6, <2>7, <2>8 DEF Restart, TypeOK, history
<1>9. CASE UNCHANGED vars
  BY <1>9 DEF vars, TypeOK
<1> QED
  BY <1>1, <1>2, <1>3, <1>4, <1>5, <1>6, <1>7, <1>8, <1>9 DEF Next

\* Type correctness, for clocks that run as they like.
THEOREM TypeCorrect == Spec => []TypeOK
BY SendInit, SendStep, PTL DEF Spec, SendInv

\* fpproto.c 827-879: the slot made by prepare_to_send is free when
\* commit_packet marks it, whatever was received in between.
THEOREM SlotFree == Spec => []SlotStaysFree
<1>1. SendInv => SlotStaysFree
  BY DEF SendInv, SlotStaysFree, ConnInv, WindowInv, CoreInv
<1> QED
  BY <1>1, SendInit, SendStep, PTL DEF Spec

\* No packet that was committed is forgotten: it is acknowledged, reported
\* lost, or in the window with the timer running for it.
THEOREM Remembered == Spec => []NothingForgotten
<1>1. ASSUME NEW c, ConnInv(c), NEW s \in 1..c.head
      PROVE  \/ s \in c.acked \cup c.nacked
             \/ s \in c.unacked /\ s >= c.next_timeout /\ c.timer # 0
  <2>1. c.head \in Nat /\ c.next_timeout \in Nat
    BY <1>1 DEF ConnInv, WindowInv, CoreInv, ConnType
  <2> QED
    BY <1>1, <2>1 DEF ConnInv, WindowInv, CoreInv, TimerInv
<1>2. SendInv => NothingForgotten
  BY <1>1 DEF SendInv, NothingForgotten
<1> QED
  BY <1>2, SendInit, SendStep, PTL DEF Spec

\* A timeout and a skipped ACK are reported once per packet.
THEOREM ReportedOnce == Spec => []NotifiedOnce
<1>1. SendInv => NotifiedOnce
  BY DEF SendInv, NotifiedOnce, ConnInv, WindowInv, CoreInv
<1> QED
  BY <1>1, SendInit, SendStep, PTL DEF Spec

=============================================================================
