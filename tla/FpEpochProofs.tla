--------------------------- MODULE FpEpochProofs ----------------------------
(***************************************************************************)
(* Proofs about epochs, for every window length and number of packets:     *)
(* with clocks that agree, a side's reset time only grows, no packet is    *)
(* processed twice and no packet is acknowledged that was not processed.   *)
(***************************************************************************)
EXTENDS FpProtoProofs

\* No side is in an epoch that has not begun.
ClocksInv == \A p \in Side : conn[p].last_reset_time <= now

\* A packet is of its sender's present epoch, and then of its present
\* incarnation and among those it numbered, or of an earlier one.
NetInv ==
  \A m \in net : LET c == conn[m.src] IN
    /\ m.tstamp <= c.last_reset_time
    /\ m.tstamp = c.last_reset_time => m.inc = c.resets /\ m.seq <= c.head

\* What a side processed in its present epoch, in_max and inwnd still tell.
SeenInv ==
  \A p \in Side : LET c == conn[p] IN
    /\ c.in_max \in c.inwnd
    /\ \A d \in delivered[p] :
         /\ d[1] <= c.last_reset_time
         /\ d[1] = c.last_reset_time =>
              d[3] <= c.in_max /\ (d[3] <= c.in_max - InWnd \/ d[3] \in c.inwnd)

\* The packet numbered s of epoch t reached p and was processed.
Processed(p, t, s) ==
  \E m \in net : /\ m.src = Peer(p) /\ m.tstamp = t /\ m.seq = s
                 /\ id(m) \in delivered[p]

\* What inwnd marks, and what an ACK in the network says, was processed.
MarksInv ==
  /\ \A p \in Side : \A s \in conn[p].inwnd :
       s >= 1 => Processed(p, conn[p].last_reset_time, s)
  /\ \A m \in net : \A s \in m.acks : s >= 1 => Processed(m.src, m.tstamp, s)

EpochInv ==
  /\ ClocksInv /\ NetInv /\ SeenInv /\ MarksInv
  /\ AtMostOnce /\ AckedWasDelivered

LEMMA HalfWindows ==
  RstWin \div 2 \in Nat /\ (RstWin + 1) \div 2 \in Nat \ {0}
BY ResetAssumption

\* A RESET is obeyed, or answered with a new epoch, only by moving forward.
LEMMA VerdictGrows ==
  ASSUME NEW last \in Int, NEW tstamp \in Int, NEW t \in Int, last <= t
  PROVE  /\ reset_verdict(last, tstamp, t) = "accept" => last < tstamp
         /\ reset_verdict(last, tstamp, t) = "renew" => last < t
         /\ reset_verdict(last, tstamp, t) = "same" => last = tstamp
<1> DEFINE lo == RstWin \div 2
           hi == (RstWin + 1) \div 2
<1>1. lo \in Nat /\ hi \in Nat \ {0}
  BY HalfWindows
<1>2. \A x : tstamp_in_window(x, t, RstWin) <=> x >= t - lo /\ x < t + hi
  BY DEF tstamp_in_window
<1> HIDE DEF lo, hi
<1> QED
  BY <1>1, <1>2 DEF reset_verdict

LEMMA PeerSide ==
  ASSUME NEW p \in Side
  PROVE  Peer(p) \in Side /\ Peer(Peer(p)) = p
BY DEF Side, Peer

\* What was processed stays so.
LEMMA ProcessedStays ==
  ASSUME NEW p, NEW t, NEW s, Processed(p, t, s),
         net \subseteq net', delivered[p] \subseteq delivered'[p]
  PROVE  Processed(p, t, s)'
BY DEF Processed, id

\* A step of side p that stays in its epoch and receives nothing, but may send.
LEMMA QuietStep ==
  ASSUME TypeOK, EpochInv, NEW p \in Side, NEW d \in ConnType,
         conn' = [conn EXCEPT ![p] = d],
         d.last_reset_time = conn[p].last_reset_time, d.resets = conn[p].resets,
         d.in_max = conn[p].in_max, d.inwnd = conn[p].inwnd,
         d.acked = conn[p].acked, conn[p].head <= d.head,
         net \subseteq net', net' \subseteq Packet,
         \A m \in net' \ net :
                      /\ m.src = p /\ m.tstamp = d.last_reset_time /\ m.inc = d.resets
                      /\ m.seq <= d.head /\ m.acks \subseteq d.inwnd,
         UNCHANGED <<now, delivered, redelivered>>
  PROVE  EpochInv'
<1> DEFINE N == net' \ net
<1>1. /\ conn \in [Side -> ConnType] /\ net \subseteq Packet /\ conn[p] \in ConnType
      /\ conn'[p] = d /\ \A q \in Side : q # p => conn'[q] = conn[q]
  BY DEF TypeOK
<1>2. \A q \in Side : /\ conn'[q].last_reset_time = conn[q].last_reset_time
                      /\ conn'[q].resets = conn[q].resets
                      /\ conn'[q].in_max = conn[q].in_max /\ conn'[q].inwnd = conn[q].inwnd
                      /\ conn'[q].acked = conn[q].acked
  BY <1>1
<1>3. ClocksInv'
  BY <1>2 DEF EpochInv, ClocksInv
<1>4. NetInv'
  <2>1. ASSUME NEW m \in net
        PROVE  /\ m.tstamp <= conn'[m.src].last_reset_time
               /\ m.tstamp = conn'[m.src].last_reset_time =>
                    m.inc = conn'[m.src].resets /\ m.seq <= conn'[m.src].head
    <3>1. m.src \in Side /\ m.seq \in Nat
      BY <1>1 DEF Packet
    <3>2. conn[m.src].head <= conn'[m.src].head
          /\ conn[m.src].head \in Nat /\ conn'[m.src].head \in Nat
      BY <1>1, <3>1 DEF ConnType
    <3> QED
      BY <1>2, <3>1, <3>2 DEF EpochInv, NetInv
  <2>2. ASSUME NEW m \in N
        PROVE  /\ m.tstamp <= conn'[m.src].last_reset_time
               /\ m.inc = conn'[m.src].resets /\ m.seq <= conn'[m.src].head
    BY <1>1 DEF ConnType
  <2> QED
    BY <2>1, <2>2 DEF NetInv
<1>5. SeenInv'
  BY <1>2 DEF EpochInv, SeenInv
<1>6. ASSUME NEW q, NEW t, NEW x, Processed(q, t, x)
      PROVE  Processed(q, t, x)'
  BY <1>6, ProcessedStays
<1>7. MarksInv'
  <2>1. \A q \in Side : \A s \in conn[q].inwnd :
          s >= 1 => Processed(q, conn[q].last_reset_time, s)'
    <3> SUFFICES ASSUME NEW q \in Side, NEW s \in conn[q].inwnd, s >= 1
                 PROVE  Processed(q, conn[q].last_reset_time, s)'
      OBVIOUS
    <3>1. Processed(q, conn[q].last_reset_time, s)
      BY DEF EpochInv, MarksInv
    <3> QED
      BY <1>2, <3>1 DEF Processed, id
  <2>2. ASSUME NEW m \in net, NEW s \in m.acks, s >= 1
        PROVE  Processed(m.src, m.tstamp, s)'
    BY <1>6, <2>2 DEF EpochInv, MarksInv
  <2>3. ASSUME NEW m \in N, NEW s \in m.acks, s >= 1
        PROVE  Processed(m.src, m.tstamp, s)'
    <3>1. m.src = p /\ m.tstamp = conn[p].last_reset_time /\ s \in conn[p].inwnd
      OBVIOUS
    <3>2. Processed(p, conn[p].last_reset_time, s)
      BY <2>3, <3>1 DEF EpochInv, MarksInv
    <3> QED
      BY <3>1, <3>2 DEF Processed, id
  <2>4. \A q \in Side : \A s \in conn'[q].inwnd :
          s >= 1 => Processed(q, conn[q].last_reset_time, s)'
    BY <1>2, <2>1
  <2> QED
    BY <1>2, <2>2, <2>3, <2>4 DEF MarksInv, Processed, id
<1>8. AtMostOnce' /\ AckedWasDelivered'
  BY <1>2 DEF EpochInv, AtMostOnce, AckedWasDelivered
<1> QED
  BY <1>3, <1>4, <1>5, <1>7, <1>8 DEF EpochInv

\* A step of side p into a later epoch.
LEMMA RenewStep ==
  ASSUME TypeOK, EpochInv, NEW p \in Side, NEW d \in ConnType, NEW t \in Int,
         conn' = [conn EXCEPT ![p] = d], Renewed(conn[p], d, t),
         conn[p].last_reset_time < t, t <= now,
         UNCHANGED <<now, net, delivered, redelivered>>
  PROVE  EpochInv'
<1>1. /\ conn \in [Side -> ConnType] /\ net \subseteq Packet /\ conn[p] \in ConnType
      /\ conn'[p] = d /\ \A q \in Side : q # p => conn'[q] = conn[q]
      /\ conn[p].last_reset_time \in Int
  BY DEF TypeOK, ConnType
<1>2. /\ d.last_reset_time = t /\ d.acked = {} /\ d.in_max = 0
      /\ d.inwnd = (1 - InWnd)..0
  BY DEF Renewed
<1>3. ClocksInv'
  BY <1>1, <1>2 DEF EpochInv, ClocksInv
<1>4. NetInv'
  <2> SUFFICES ASSUME NEW m \in net
               PROVE  /\ m.tstamp <= conn'[m.src].last_reset_time
                      /\ m.tstamp = conn'[m.src].last_reset_time =>
                           m.inc = conn'[m.src].resets /\ m.seq <= conn'[m.src].head
    BY DEF NetInv
  <2>1. m.src \in Side /\ m.tstamp \in Int
    BY <1>1 DEF Packet
  <2>2. CASE m.src = p
    <3>1. m.tstamp <= conn[p].last_reset_time
      BY <2>2 DEF EpochInv, NetInv
    <3>2. m.tstamp < conn'[m.src].last_reset_time
      BY <1>1, <1>2, <2>1, <2>2, <3>1
    <3> QED
      BY <1>1, <1>2, <2>1, <2>2, <3>2
  <2>3. CASE m.src # p
    BY <1>1, <2>1, <2>3 DEF EpochInv, NetInv
  <2> QED
    BY <2>2, <2>3
<1>5. SeenInv'
  <2> SUFFICES ASSUME NEW q \in Side
               PROVE  /\ conn'[q].in_max \in conn'[q].inwnd
                      /\ \A x \in delivered[q] :
                           /\ x[1] <= conn'[q].last_reset_time
                           /\ x[1] = conn'[q].last_reset_time =>
                                /\ x[3] <= conn'[q].in_max
                                /\ \/ x[3] <= conn'[q].in_max - InWnd
                                   \/ x[3] \in conn'[q].inwnd
    BY DEF SeenInv
  <2>1. CASE q # p
    BY <1>1, <2>1 DEF EpochInv, SeenInv
  <2>2. CASE q = p
    <3>1. d.in_max \in d.inwnd
      BY <1>2, ProtoAssumption, ConnAssumption
    <3>2. ASSUME NEW x \in delivered[p] PROVE x[1] < t
      <4>1. x[1] <= conn[p].last_reset_time /\ x[1] \in Int
        BY DEF EpochInv, SeenInv, TypeOK
      <4> QED
        BY <1>1, <4>1
    <3>3. \A x \in delivered[p] : x[1] \in Int
      BY DEF TypeOK
    <3>4. \A x \in delivered[p] : x[1] <= t /\ x[1] # t
      BY <3>2, <3>3
    <3> QED
      BY <1>1, <1>2, <2>2, <3>1, <3>4
  <2> QED
    BY <2>1, <2>2
<1>6. MarksInv'
  <2>1. ASSUME NEW q \in Side, NEW s \in conn'[q].inwnd, s >= 1
        PROVE  q # p /\ s \in conn[q].inwnd /\ conn'[q] = conn[q]
    BY <1>1, <1>2, <2>1, ProtoAssumption, ConnAssumption
  <2>2. ASSUME NEW q \in Side, NEW s \in conn'[q].inwnd, s >= 1
        PROVE  Processed(q, conn[q].last_reset_time, s)'
    <3>1. Processed(q, conn[q].last_reset_time, s) /\ conn'[q] = conn[q]
      BY <2>1, <2>2 DEF EpochInv, MarksInv
    <3> QED
      BY <3>1 DEF Processed, id
  <2>3. ASSUME NEW m \in net, NEW s \in m.acks, s >= 1
        PROVE  Processed(m.src, m.tstamp, s)'
    BY <2>3, ProcessedStays DEF EpochInv, MarksInv
  <2> QED
    BY <2>2, <2>3 DEF MarksInv
<1>7. AckedWasDelivered'
  <2> SUFFICES ASSUME NEW q \in Side, NEW s \in conn'[q].acked
               PROVE  <<conn'[q].last_reset_time, conn'[q].resets, s>> \in delivered[Peer(q)]
    BY DEF AckedWasDelivered
  <2>1. q # p
    BY <1>1, <1>2
  <2> QED
    BY <1>1, <2>1 DEF EpochInv, AckedWasDelivered
<1> QED
  BY <1>3, <1>4, <1>5, <1>6, <1>7 DEF EpochInv, AtMostOnce

\* Marking an accepted packet: the newest InWnd numbers stay exact.
LEMMA UpdateMarks ==
  ASSUME NEW c \in ConnType, NEW seq \in Nat, c.in_max \in c.inwnd,
         at_most_once_may_accept(c, seq)
  PROVE  LET r == update_inwnd(c, seq) IN
         /\ r.inwnd \subseteq c.inwnd \cup {seq} /\ r.in_max \in r.inwnd
         /\ seq \in r.inwnd /\ seq <= r.in_max /\ r.in_max >= c.in_max
         /\ \A s \in c.inwnd : s > r.in_max - InWnd => s \in r.inwnd
<1>1. c.in_max \in Nat /\ c.inwnd \subseteq Int /\ InWnd \in Nat
  BY ProtoAssumption, ConnAssumption DEF ConnType
<1>2. CASE seq > c.in_max
  <2>1. /\ update_inwnd(c, seq).in_max = seq
        /\ update_inwnd(c, seq).inwnd = {s \in c.inwnd : s > seq - InWnd} \cup {seq}
    BY <1>2 DEF update_inwnd, ConnType
  <2> QED
    BY <1>1, <1>2, <2>1
<1>3. CASE ~(seq > c.in_max)
  <2>1. seq > c.in_max - InWnd /\ ~(seq <= c.in_max - InWnd)
    BY <1>1, <1>3 DEF at_most_once_may_accept
  <2>2. /\ update_inwnd(c, seq).in_max = c.in_max
        /\ update_inwnd(c, seq).inwnd = c.inwnd \cup {seq}
    BY <1>3, <2>1 DEF update_inwnd, ConnType
  <2> QED
    BY <1>1, <1>3, <2>2
<1> QED
  BY <1>2, <1>3

\* Side p accepts packet m.
LEMMA AcceptStep ==
  ASSUME NoSkew, SendInv, EpochInv, NEW p \in Side, NEW m \in net,
         HandleRxPacket(p, m), accepts(conn[p], p, m, now)
  PROVE  EpochInv'
<1> DEFINE c == conn[p]
           a == after_reset(c, p, m, now)
           k == ack_payload_handler(a, p, m)
           d == update_inwnd(k, m.seq)
<1>1. /\ TypeOK /\ conn \in [Side -> ConnType] /\ net \subseteq Packet
      /\ now \in Int /\ m \in Packet /\ c \in ConnType /\ ConnInv(c)
      /\ m.src = Peer(p) /\ Peer(p) \in Side /\ Peer(Peer(p)) = p
      /\ m.seq \in Nat /\ m.tstamp \in Int /\ m.rst \in BOOLEAN
  BY PeerSide DEF SendInv, TypeOK, HandleRxPacket, Packet
<1>2. Clock(p) = now
  BY <1>1 DEF NoSkew, Clock
<1>3. /\ conn' = [conn EXCEPT ![p] = d]
      /\ delivered' = [delivered EXCEPT ![p] = @ \cup {id(m)}]
      /\ redelivered' = [redelivered EXCEPT ![p] = @ \cup (delivered[p] \cap {id(m)})]
      /\ net' = net /\ now' = now
  BY <1>2 DEF HandleRxPacket, handle_rx_complete, accepts
<1>4. /\ c.last_reset_time <= now /\ c.last_reset_time \in Int /\ c.in_max \in c.inwnd
      /\ m.tstamp <= now /\ c.in_max \in Nat /\ c.inwnd \subseteq Int
  <2>1. m.tstamp <= conn[Peer(p)].last_reset_time /\ conn[Peer(p)].last_reset_time <= now
    BY <1>1 DEF EpochInv, NetInv, ClocksInv
  <2>2. conn[Peer(p)].last_reset_time \in Int
    BY <1>1 DEF ConnType
  <2> QED
    BY <1>1, <2>1, <2>2 DEF EpochInv, ClocksInv, SeenInv, ConnType
<1>5. /\ ConnInv(a) /\ a \in ConnType /\ a.last_reset_time = m.tstamp
      /\ \/ Kept(c, a) /\ m.tstamp = c.last_reset_time
         \/ Renewed(c, a, m.tstamp) /\ c.last_reset_time < m.tstamp
  <2> DEFINE verdict == reset_verdict(c.last_reset_time, m.tstamp, now)
  <2>1. /\ ConnInv(a)
        /\ \/ Kept(c, a) /\ (m.rst => verdict \in {"same", "refuse"})
           \/ m.rst /\ verdict = "accept" /\ Renewed(c, a, m.tstamp)
           \/ m.rst /\ verdict = "renew" /\ Renewed(c, a, now)
    BY <1>1, AfterResetInv
  <2>2. /\ m.rst => verdict \in {"same", "accept"}
        /\ ~m.rst => m.tstamp = c.last_reset_time
    BY DEF accepts, checksum_ok
  <2>3. /\ verdict = "accept" => c.last_reset_time < m.tstamp
        /\ verdict = "same" => c.last_reset_time = m.tstamp
    BY <1>1, <1>4, VerdictGrows
  <2> HIDE DEF verdict, a, c
  <2>4. \/ Kept(c, a) /\ m.tstamp = c.last_reset_time
        \/ Renewed(c, a, m.tstamp) /\ c.last_reset_time < m.tstamp
    BY <1>1, <2>1, <2>2, <2>3
  <2> QED
    BY <2>1, <2>4 DEF Kept, Renewed, ConnInv, WindowInv, CoreInv
<1>6. at_most_once_may_accept(a, m.seq)
  BY DEF accepts
<1> HIDE DEF a
<1>7. /\ ConnInv(k) /\ k \in ConnType
      /\ k.last_reset_time = m.tstamp /\ k.resets = a.resets
      /\ k.head = a.head /\ k.in_max = a.in_max /\ k.inwnd = a.inwnd
      /\ k.acked \subseteq a.acked \cup (m.acks \cap a.unacked)
  <2>1. /\ ConnInv(k)
        /\ k.last_reset_time = a.last_reset_time /\ k.resets = a.resets
        /\ k.head = a.head /\ k.in_max = a.in_max /\ k.inwnd = a.inwnd
        /\ k.acked \subseteq a.acked \cup (m.acks \cap a.unacked)
    BY <1>1, <1>5, AckInv
  <2> QED
    BY <1>5, <2>1 DEF ConnInv, WindowInv, CoreInv
<1> HIDE DEF k
<1>8. /\ d \in ConnType /\ d.last_reset_time = m.tstamp /\ d.resets = a.resets
      /\ d.head = a.head /\ d.acked \subseteq a.acked \cup (m.acks \cap a.unacked)
  <2>1. /\ ConnInv(d)
        /\ d.last_reset_time = k.last_reset_time /\ d.resets = k.resets
        /\ d.head = k.head /\ d.acked = k.acked
    BY <1>1, <1>7, UpdateInv
  <2> QED
    BY <1>7, <2>1 DEF ConnInv, WindowInv, CoreInv
<1>9. a.in_max \in a.inwnd /\ a.in_max \in Nat
  <2>1. a.in_max \in Nat
    BY <1>5 DEF ConnType
  <2> QED
    BY <1>4, <1>5, <2>1, ProtoAssumption, ConnAssumption DEF Kept, Renewed
<1>10. /\ d.inwnd \subseteq a.inwnd \cup {m.seq} /\ d.in_max \in d.inwnd
       /\ m.seq \in d.inwnd /\ m.seq <= d.in_max /\ d.in_max >= a.in_max
       /\ \A s \in a.inwnd : s > d.in_max - InWnd => s \in d.inwnd
  <2>1. at_most_once_may_accept(k, m.seq)
    BY <1>6, <1>7 DEF at_most_once_may_accept
  <2>2. k.in_max \in k.inwnd
    BY <1>7, <1>9
  <2>3. /\ d.inwnd \subseteq k.inwnd \cup {m.seq} /\ d.in_max \in d.inwnd
        /\ m.seq \in d.inwnd /\ m.seq <= d.in_max /\ d.in_max >= k.in_max
        /\ \A s \in k.inwnd : s > d.in_max - InWnd => s \in d.inwnd
    BY <1>1, <1>7, <2>1, <2>2, UpdateMarks
  <2> QED
    BY <1>7, <2>3
<1> HIDE DEF d
<1>11. /\ conn'[p] = d /\ \A q \in Side : q # p => conn'[q] = conn[q]
       /\ delivered'[p] = delivered[p] \cup {id(m)}
       /\ \A q \in Side : delivered[q] \subseteq delivered'[q]
       /\ \A q \in Side : q # p => delivered'[q] = delivered[q]
  BY <1>1, <1>3 DEF TypeOK
<1>12. ClocksInv'
  BY <1>3, <1>4, <1>8, <1>11 DEF EpochInv, ClocksInv
<1>13. NetInv'
  <2> SUFFICES ASSUME NEW n \in net
               PROVE  /\ n.tstamp <= conn'[n.src].last_reset_time
                      /\ n.tstamp = conn'[n.src].last_reset_time =>
                           n.inc = conn'[n.src].resets /\ n.seq <= conn'[n.src].head
    BY <1>3 DEF NetInv
  <2>1. n.src \in Side /\ n.tstamp \in Int
    BY <1>1 DEF Packet
  <2>2. CASE n.src # p
    BY <1>11, <2>1, <2>2 DEF EpochInv, NetInv
  <2>3. CASE n.src = p
    <3>1. /\ n.tstamp <= c.last_reset_time
          /\ n.tstamp = c.last_reset_time => n.inc = c.resets /\ n.seq <= c.head
      BY <2>3 DEF EpochInv, NetInv
    <3>2. CASE Kept(c, a) /\ m.tstamp = c.last_reset_time
      <4>1. d.resets = c.resets /\ d.head = c.head /\ d.last_reset_time = c.last_reset_time
        BY <1>8, <3>2 DEF Kept, SendState
      <4> QED
        BY <1>11, <2>3, <3>1, <4>1
    <3>3. CASE c.last_reset_time < m.tstamp
      <4>1. n.tstamp < d.last_reset_time
        BY <1>1, <1>4, <1>8, <2>1, <3>1, <3>3
      <4> QED
        BY SMTT(20), <1>1, <1>8, <1>11, <2>1, <2>3, <4>1
    <3> QED
      BY <1>5, <3>2, <3>3
  <2> QED
    BY <2>2, <2>3
<1>14. id(m)[1] = m.tstamp /\ id(m)[3] = m.seq
  BY DEF id
<1>15. SeenInv'
  <2> SUFFICES ASSUME NEW q \in Side
               PROVE  /\ conn'[q].in_max \in conn'[q].inwnd
                      /\ \A x \in delivered'[q] :
                           /\ x[1] <= conn'[q].last_reset_time
                           /\ x[1] = conn'[q].last_reset_time =>
                                /\ x[3] <= conn'[q].in_max
                                /\ \/ x[3] <= conn'[q].in_max - InWnd
                                   \/ x[3] \in conn'[q].inwnd
    BY DEF SeenInv
  <2>1. CASE q # p
    BY <1>11, <2>1 DEF EpochInv, SeenInv
  <2>2. ASSUME NEW x \in delivered[p]
        PROVE  /\ x[1] <= d.last_reset_time
               /\ x[1] = d.last_reset_time =>
                    x[3] <= d.in_max /\ (x[3] <= d.in_max - InWnd \/ x[3] \in d.inwnd)
    <3>1. /\ x[1] <= c.last_reset_time
          /\ x[1] = c.last_reset_time =>
               x[3] <= c.in_max /\ (x[3] <= c.in_max - InWnd \/ x[3] \in c.inwnd)
      BY DEF EpochInv, SeenInv
    <3>2. x \in Int \X Nat \X Nat
      BY <1>1 DEF TypeOK
    <3>3. x[1] \in Int /\ x[3] \in Nat
      BY <3>2
    <3>4. d.in_max \in Nat /\ InWnd \in Nat
      BY <1>8, ProtoAssumption, ConnAssumption DEF ConnType
    <3> HIDE DEF c
    <3>5. CASE Kept(c, a) /\ m.tstamp = c.last_reset_time
      <4>1. a.in_max = c.in_max /\ a.inwnd = c.inwnd /\ d.last_reset_time = c.last_reset_time
        BY <1>8, <3>5 DEF Kept
      <4> QED
        BY <1>4, <1>10, <3>1, <3>3, <3>4, <4>1
    <3>6. CASE c.last_reset_time < m.tstamp
      <4>1. x[1] < d.last_reset_time
        BY <1>1, <1>4, <1>8, <3>1, <3>3, <3>6
      <4> QED
        BY <1>1, <1>8, <3>3, <4>1
    <3> QED
      BY <1>5, <3>5, <3>6
  <2>3. CASE q = p
    BY SMTT(20), <1>1, <1>8, <1>10, <1>11, <1>14, <2>2, <2>3
  <2> QED
    BY <2>1, <2>3
<1>16. MarksInv'
  <2>1. ASSUME NEW q \in Side, NEW t, NEW s, Processed(q, t, s)
        PROVE  Processed(q, t, s)'
    BY <1>3, <1>11, <2>1 DEF Processed, id
  <2>2. ASSUME NEW s \in d.inwnd, s >= 1
        PROVE  Processed(p, m.tstamp, s)'
    <3>1. CASE s = m.seq
      BY <1>1, <1>3, <1>11, <3>1 DEF Processed, id
    <3>2. CASE s # m.seq
      <4>1. s \in a.inwnd
        BY <1>10, <3>2
      <4>2. Kept(c, a) /\ m.tstamp = c.last_reset_time /\ s \in c.inwnd
        BY SMTT(20), <1>5, <2>2, <4>1, ProtoAssumption, ConnAssumption DEF Renewed, Kept
      <4>3. Processed(p, m.tstamp, s)
        BY <2>2, <4>2 DEF EpochInv, MarksInv
      <4> QED
        BY <2>1, <4>3
    <3> QED
      BY <3>1, <3>2
  <2>3. ASSUME NEW q \in Side, NEW s \in conn'[q].inwnd, s >= 1
        PROVE  Processed(q, conn[q].last_reset_time, s)'
    <3>1. CASE q = p
      <4>1. s \in d.inwnd /\ conn'[q].last_reset_time = m.tstamp
        BY <1>8, <1>11, <2>3, <3>1
      <4>2. Processed(p, m.tstamp, s)'
        BY <2>2, <2>3, <4>1
      <4> QED
        BY <3>1, <4>1, <4>2 DEF Processed
    <3>2. CASE q # p
      <4>1. conn'[q] = conn[q] /\ Processed(q, conn[q].last_reset_time, s)
        BY <1>11, <2>3, <3>2 DEF EpochInv, MarksInv
      <4> QED
        BY <1>3, <1>11, <4>1 DEF Processed, id
    <3> QED
      BY <3>1, <3>2
  <2>4. ASSUME NEW n \in net, NEW s \in n.acks, s >= 1
        PROVE  Processed(n.src, n.tstamp, s)'
    <3>1. n.src \in Side /\ Processed(n.src, n.tstamp, s)
      BY <1>1, <2>4 DEF EpochInv, MarksInv, Packet
    <3> QED
      BY <2>1, <3>1
  <2> QED
    BY <1>3, <2>3, <2>4 DEF MarksInv
<1>17. AtMostOnce'
  <2>1. id(m) \notin delivered[p]
    <3> SUFFICES ASSUME id(m) \in delivered[p] PROVE FALSE
      OBVIOUS
    <3>1. /\ m.tstamp <= c.last_reset_time
          /\ m.tstamp = c.last_reset_time =>
               m.seq <= c.in_max /\ (m.seq <= c.in_max - InWnd \/ m.seq \in c.inwnd)
      BY <1>14 DEF EpochInv, SeenInv
    <3> HIDE DEF c
    <3>2. Kept(c, a) /\ m.tstamp = c.last_reset_time
      BY SMTT(20), <1>1, <1>4, <1>5, <3>1
    <3> QED
      BY SMTT(20), <1>1, <1>4, <1>6, <3>1, <3>2,
         ProtoAssumption, ConnAssumption DEF Kept, at_most_once_may_accept
  <2> QED
    BY <1>1, <1>3, <2>1 DEF EpochInv, AtMostOnce, TypeOK
<1>18. AckedWasDelivered'
  <2> SUFFICES ASSUME NEW q \in Side, NEW s \in conn'[q].acked
               PROVE  <<conn'[q].last_reset_time, conn'[q].resets, s>> \in delivered'[Peer(q)]
    BY DEF AckedWasDelivered
  <2>1. Peer(q) \in Side /\ delivered[Peer(q)] \subseteq delivered'[Peer(q)]
    BY <1>11, PeerSide
  <2>2. CASE q # p
    BY <1>11, <2>1, <2>2 DEF EpochInv, AckedWasDelivered
  <2>3. CASE q = p
    <3>1. conn'[q] = d /\ s \in a.acked \cup (m.acks \cap a.unacked)
      BY <1>8, <1>11, <2>3
    <3>2. Kept(c, a) /\ m.tstamp = c.last_reset_time
      BY <1>5, <3>1 DEF Renewed
    <3>3. /\ a.acked = c.acked /\ a.unacked = c.unacked
          /\ d.last_reset_time = c.last_reset_time /\ d.resets = c.resets
      BY <1>8, <3>2 DEF Kept, SendState
    <3>4. CASE s \in c.acked
      BY <2>1, <2>3, <3>1, <3>3, <3>4 DEF EpochInv, AckedWasDelivered
    <3>5. CASE s \in m.acks /\ s \in c.unacked
      <4>1. s >= 1
        BY SMTT(20), <1>1, <3>5 DEF ConnInv, WindowInv, CoreInv, ConnType
      <4>2. Processed(Peer(p), c.last_reset_time, s)
        BY <1>1, <3>2, <3>5, <4>1 DEF EpochInv, MarksInv
      <4>3. PICK n \in net : /\ n.src = p /\ n.tstamp = c.last_reset_time /\ n.seq = s
                             /\ id(n) \in delivered[Peer(p)]
        BY <1>1, <4>2 DEF Processed
      <4>4. n.inc = c.resets
        BY <4>3 DEF EpochInv, NetInv
      <4> QED
        BY <2>1, <2>3, <3>1, <3>3, <4>3, <4>4 DEF id
    <3> QED
      BY <3>1, <3>3, <3>4, <3>5
  <2> QED
    BY <2>2, <2>3
<1> QED
  BY <1>12, <1>13, <1>15, <1>16, <1>17, <1>18 DEF EpochInv

LEMMA EpochInit == NoSkew /\ Init => EpochInv
<1> SUFFICES ASSUME NoSkew, Init PROVE EpochInv
  OBVIOUS
<1>1. PICK t \in [Side -> Started] : conn = [p \in Side |-> fresh_conn(t[p] + Skew[p])]
  BY DEF Init
<1>2. ASSUME NEW p \in Side
      PROVE  /\ conn[p].last_reset_time <= 1 /\ conn[p].in_max = 0
             /\ conn[p].inwnd = (1 - InWnd)..0 /\ conn[p].acked = {}
  <2>1. t[p] \in Int /\ t[p] <= 1 /\ Skew[p] = 0
    BY ProtoAssumption, ConnAssumption DEF NoSkew
  <2>2. conn[p] = fresh_conn(t[p])
    BY <1>1, <2>1
  <2> QED
    BY <2>1, <2>2 DEF fresh_conn
<1>3. now = 1 /\ net = {} /\ \A p \in Side : delivered[p] = {} /\ redelivered[p] = {}
  BY DEF Init
<1>4. ClocksInv /\ NetInv
  BY <1>2, <1>3 DEF ClocksInv, NetInv
<1>5. SeenInv
  BY <1>2, <1>3, ProtoAssumption, ConnAssumption DEF SeenInv
<1>6. MarksInv
  BY <1>2, <1>3, ProtoAssumption, ConnAssumption DEF MarksInv
<1>7. AtMostOnce /\ AckedWasDelivered
  BY <1>2, <1>3 DEF AtMostOnce, AckedWasDelivered
<1> QED
  BY <1>4, <1>5, <1>6, <1>7 DEF EpochInv

LEMMA AcksMarked ==
  ASSUME NEW c \in ConnType, c.in_max \in c.inwnd
  PROVE  ack_vec(c) \subseteq c.inwnd
BY DEF ack_vec

\* Every step keeps EpochInv, and no step takes a side back to an epoch.
LEMMA EpochStep ==
  ASSUME NoSkew, SendInv, EpochInv, [Next]_vars
  PROVE  /\ EpochInv'
         /\ \A p \in Side : conn'[p].resets # conn[p].resets =>
              conn'[p].last_reset_time > conn[p].last_reset_time
<1> DEFINE Grows == \A p \in Side : conn'[p].resets # conn[p].resets =>
                      conn'[p].last_reset_time > conn[p].last_reset_time
<1> SUFFICES EpochInv' /\ Grows
  OBVIOUS
<1>t. /\ TypeOK /\ conn \in [Side -> ConnType] /\ net \subseteq Packet /\ now \in Int
      /\ "endpoint" \in Side /\ "controller" \in Side
      /\ \A p \in Side : /\ conn[p] \in ConnType /\ ConnInv(conn[p]) /\ Clock(p) = now
                         /\ conn[p].last_reset_time <= now /\ conn[p].last_reset_time \in Int
                         /\ conn[p].in_max \in conn[p].inwnd
  <2>1. \A p \in Side : Clock(p) = now
    BY DEF NoSkew, Clock, SendInv, TypeOK
  <2> QED
    BY <2>1 DEF SendInv, TypeOK, EpochInv, ClocksInv, SeenInv, ConnType, Side
\* The two kinds of step that accept no packet.
<1>q. ASSUME NEW p \in Side, NEW d \in ConnType, conn' = [conn EXCEPT ![p] = d],
             d.last_reset_time = conn[p].last_reset_time, d.resets = conn[p].resets,
             d.in_max = conn[p].in_max, d.inwnd = conn[p].inwnd,
             d.acked = conn[p].acked, conn[p].head <= d.head,
             net \subseteq net', net' \subseteq Packet,
             \A m \in net' \ net :
                          /\ m.src = p /\ m.tstamp = d.last_reset_time /\ m.inc = d.resets
                          /\ m.seq <= d.head /\ m.acks \subseteq d.inwnd,
             UNCHANGED <<now, delivered, redelivered>>
      PROVE  EpochInv' /\ Grows
  <2>1. EpochInv'
    BY <1>q, <1>t, QuietStep
  <2>2. \A q \in Side : conn'[q].resets = conn[q].resets
    BY <1>q, <1>t
  <2> QED
    BY <2>1, <2>2
<1>r. ASSUME NEW p \in Side, NEW d \in ConnType, NEW t \in Int,
             conn' = [conn EXCEPT ![p] = d], Renewed(conn[p], d, t),
             conn[p].last_reset_time < t, t <= now,
             UNCHANGED <<now, net, delivered, redelivered>>
      PROVE  EpochInv' /\ Grows
  <2>1. EpochInv'
    BY <1>r, <1>t, RenewStep
  <2>2. /\ conn'[p].last_reset_time > conn[p].last_reset_time
        /\ \A q \in Side : q # p => conn'[q] = conn[q]
    BY <1>r, <1>t DEF Renewed
  <2> QED
    BY <2>1, <2>2
<1>1. CASE Tick
  <2>1. EpochInv'
    <3>1. now' = now + 1 /\ UNCHANGED <<conn, net, delivered, redelivered>>
      BY <1>1 DEF Tick, history
    <3>2. ClocksInv'
      BY <1>t, <3>1 DEF ClocksInv
    <3> QED
      BY SMTT(20), <3>1, <3>2 DEF EpochInv, NetInv, SeenInv, MarksInv, Processed, id, AtMostOnce,
                        AckedWasDelivered
  <2> QED
    BY <1>1, <2>1 DEF Tick
<1>p. ASSUME NEW p \in Side
      PROVE  LET d == prepare_to_send(conn[p]) IN
             /\ d \in ConnType /\ d.head = conn[p].head
             /\ d.last_reset_time = conn[p].last_reset_time /\ d.resets = conn[p].resets
             /\ d.in_max = conn[p].in_max /\ d.inwnd = conn[p].inwnd
             /\ d.acked = conn[p].acked
  <2>1. ConnInv(prepare_to_send(conn[p])) /\ conn[p] \in ConnType
    BY <1>t, PrepareInv
  <2>2. prepare_to_send(conn[p]) \in ConnType
    BY <2>1 DEF ConnInv, WindowInv, CoreInv
  <2> QED
    BY ZenonT(60), <2>1, <2>2 DEF prepare_to_send, recompute_timer, set_timer, do_neg_ack, ConnType
<1>m. ASSUME NEW p \in Side, NEW c \in ConnType, ConnInv(c), wnd_edge(c) \notin c.unacked,
             c.in_max \in c.inwnd
      PROVE  LET d == commit_packet(c)
                 m == packet(c, p)
             IN /\ d \in ConnType /\ d.head = c.head + 1
                /\ d.last_reset_time = c.last_reset_time /\ d.resets = c.resets
                /\ d.in_max = c.in_max /\ d.inwnd = c.inwnd /\ d.acked = c.acked
                /\ m \in Packet /\ m.src = p /\ m.tstamp = c.last_reset_time
                /\ m.inc = c.resets /\ m.seq = c.head + 1 /\ m.acks \subseteq c.inwnd
  <2>1. ConnInv(commit_packet(c)) /\ packet(c, p) \in Packet
    BY <1>m, CommitInv, PacketType
  <2>2. commit_packet(c) \in ConnType
    BY <2>1 DEF ConnInv, WindowInv, CoreInv
  <2>3. ack_vec(c) \subseteq c.inwnd
    BY <1>m, AcksMarked
  <2>4. LET d == commit_packet(c) IN
        /\ d.head = c.head + 1
        /\ d.last_reset_time = c.last_reset_time /\ d.resets = c.resets
        /\ d.in_max = c.in_max /\ d.inwnd = c.inwnd /\ d.acked = c.acked
    BY DEF commit_packet, recompute_timer, set_timer, ConnType
  <2> QED
    BY <2>1, <2>2, <2>3, <2>4 DEF packet
<1>2. CASE PrepareToSend
  <2> DEFINE d == prepare_to_send(conn["endpoint"])
  <2>1. /\ d \in ConnType /\ d.head = conn["endpoint"].head
        /\ d.last_reset_time = conn["endpoint"].last_reset_time
        /\ d.resets = conn["endpoint"].resets
        /\ d.in_max = conn["endpoint"].in_max /\ d.inwnd = conn["endpoint"].inwnd
        /\ d.acked = conn["endpoint"].acked
    BY <1>p, <1>t
  <2>2. conn' = [conn EXCEPT !["endpoint"] = d] /\ UNCHANGED <<now, net, delivered, redelivered>>
    BY <1>2 DEF PrepareToSend, history
  <2> HIDE DEF d
  <2>3. conn["endpoint"].head <= d.head /\ net' = net /\ net' \subseteq Packet
    BY <1>t, <2>1, <2>2 DEF ConnType
  <2> QED
    BY <1>q, <1>t, <2>1, <2>2, <2>3
<1>3. CASE CommitPacket
  <2> DEFINE c == conn["endpoint"]
             d == commit_packet(c)
             m == packet(c, "endpoint")
  <2>1. /\ d \in ConnType /\ d.head = c.head + 1
        /\ d.last_reset_time = c.last_reset_time /\ d.resets = c.resets
        /\ d.in_max = c.in_max /\ d.inwnd = c.inwnd /\ d.acked = c.acked
        /\ m \in Packet /\ m.src = "endpoint" /\ m.tstamp = c.last_reset_time
        /\ m.inc = c.resets /\ m.seq = c.head + 1 /\ m.acks \subseteq c.inwnd
    BY <1>3, <1>m, <1>t DEF CommitPacket, SendInv
  <2>2. conn' = [conn EXCEPT !["endpoint"] = d] /\ net' = net \cup {m}
        /\ UNCHANGED <<now, delivered, redelivered>>
    BY <1>3 DEF CommitPacket, history
  <2> HIDE DEF d, m
  <2>3. c.head <= d.head /\ m.seq <= d.head /\ net' \subseteq Packet /\ net \subseteq net'
        /\ \A n \in net' \ net : n = m
    BY <1>t, <2>1, <2>2 DEF ConnType
  <2>4. \A n \in net' \ net :
          /\ n.src = "endpoint" /\ n.tstamp = d.last_reset_time /\ n.inc = d.resets
          /\ n.seq <= d.head /\ n.acks \subseteq d.inwnd
    BY <2>1, <2>3
  <2> QED
    BY <1>q, <1>t, <2>1, <2>2, <2>3, <2>4
<1>4. CASE TxEndNode
  <2> DEFINE c == conn["controller"]
             r == prepare_to_send(c)
             d == commit_packet(r)
             m == packet(r, "controller")
  <2>1. /\ r \in ConnType /\ r.head = c.head
        /\ r.last_reset_time = c.last_reset_time /\ r.resets = c.resets
        /\ r.in_max = c.in_max /\ r.inwnd = c.inwnd /\ r.acked = c.acked
    BY <1>p, <1>t
  <2>2. conn' = [conn EXCEPT !["controller"] = d] /\ net' = net \cup {m}
        /\ UNCHANGED <<now, delivered, redelivered>>
    BY <1>4 DEF TxEndNode, history
  <2>3. ConnInv(r) /\ wnd_edge(r) \notin r.unacked
    BY <1>t, PrepareInv
  <2> HIDE DEF r
  <2>4. /\ d \in ConnType /\ d.head = r.head + 1
        /\ d.last_reset_time = r.last_reset_time /\ d.resets = r.resets
        /\ d.in_max = r.in_max /\ d.inwnd = r.inwnd /\ d.acked = r.acked
        /\ m \in Packet /\ m.src = "controller" /\ m.tstamp = r.last_reset_time
        /\ m.inc = r.resets /\ m.seq = r.head + 1 /\ m.acks \subseteq r.inwnd
    BY <1>m, <1>t, <2>1, <2>3
  <2> HIDE DEF d, m
  <2>5. c.head <= d.head /\ m.seq <= d.head /\ net' \subseteq Packet /\ net \subseteq net'
        /\ \A n \in net' \ net : n = m
    BY SMTT(20), <1>t, <2>1, <2>2, <2>4 DEF ConnType
  <2>6. \A n \in net' \ net :
          /\ n.src = "controller" /\ n.tstamp = d.last_reset_time /\ n.inc = d.resets
          /\ n.seq <= d.head /\ n.acks \subseteq d.inwnd
    BY <2>4, <2>5
  <2>7. /\ d \in ConnType /\ d.last_reset_time = c.last_reset_time /\ d.resets = c.resets
        /\ d.in_max = c.in_max /\ d.inwnd = c.inwnd /\ d.acked = c.acked
    BY <2>1, <2>4
  <2> QED
    BY <1>q, <1>t, <2>2, <2>5, <2>6, <2>7
<1>5. CASE ForceReset
  <2> DEFINE d == do_proto_reset(conn["endpoint"], now, FALSE)
  <2>1. ConnInv(d) /\ Renewed(conn["endpoint"], d, now)
    BY <1>t, ResetRenews
  <2>2. /\ conn' = [conn EXCEPT !["endpoint"] = d]
        /\ conn["endpoint"].last_reset_time # now /\ UNCHANGED <<now, net, delivered, redelivered>>
    BY <1>5, <1>t DEF ForceReset, history
  <2> HIDE DEF d
  <2>3. d \in ConnType
    BY <2>1 DEF ConnInv, WindowInv, CoreInv
  <2>4. conn["endpoint"].last_reset_time < now /\ now <= now
    BY <1>t, <2>2
  <2> QED
    BY <1>r, <1>t, <2>1, <2>2, <2>3, <2>4
<1>6. ASSUME NEW p \in Side, NEW m \in net, HandleRxPacket(p, m)
      PROVE  EpochInv' /\ Grows
  <2> DEFINE c == conn[p]
             a == after_reset(c, p, m, now)
             b == got_bad_packet(c, now)
  <2>1. /\ m \in Packet /\ m.tstamp \in Int /\ m.tstamp <= now /\ Clock(p) = now
    <3>1. m \in Packet /\ m.tstamp \in Int /\ m.src \in Side
      BY <1>t DEF Packet
    <3>2. m.tstamp <= conn[m.src].last_reset_time
      BY DEF EpochInv, NetInv
    <3> QED
      BY <1>t, <3>1, <3>2
  <2>k. ASSUME NEW d, ConnInv(d), Kept(c, d), conn' = [conn EXCEPT ![p] = d],
               UNCHANGED <<now, net, delivered, redelivered>>
        PROVE  EpochInv' /\ Grows
    <3>1. /\ d \in ConnType /\ d.head = c.head /\ d.acked = c.acked
          /\ d.last_reset_time = c.last_reset_time /\ d.resets = c.resets
          /\ d.in_max = c.in_max /\ d.inwnd = c.inwnd
      BY <2>k DEF Kept, SendState, ConnInv, WindowInv, CoreInv
    <3>2. c.head <= d.head /\ net' = net /\ net' \subseteq Packet
      BY <1>t, <2>k, <3>1 DEF ConnType
    <3> QED
      BY <1>q, <2>k, <3>1, <3>2
  <2>n. ASSUME NEW d, ConnInv(d), NEW t \in Int, Renewed(c, d, t),
               c.last_reset_time < t, t <= now, conn' = [conn EXCEPT ![p] = d],
               UNCHANGED <<now, net, delivered, redelivered>>
        PROVE  EpochInv' /\ Grows
    <3>1. d \in ConnType
      BY <2>n DEF ConnInv, WindowInv, CoreInv
    <3> QED
      BY <1>r, <2>n, <3>1
  <2>2. CASE ~checksum_ok(c, m)
    <3>1. conn' = [conn EXCEPT ![p] = b] /\ UNCHANGED <<now, net, delivered, redelivered>>
      BY <1>6, <2>1, <2>2 DEF HandleRxPacket, handle_rx_complete, accepts, history
    <3>2. /\ ConnInv(b)
          /\ Kept(c, b) \/ (Renewed(c, b, now) /\ ~recent_reset(c.last_reset_time, now))
      BY <1>t, BadInv
    <3> HIDE DEF b
    <3>3. ~recent_reset(c.last_reset_time, now) => c.last_reset_time < now
      BY <1>t, ResetAssumption DEF recent_reset
    <3>4. now <= now
      BY <1>t
    <3> QED
      BY <1>t, <2>k, <2>n, <3>1, <3>2, <3>3, <3>4
  <2>3. CASE checksum_ok(c, m) /\ ~accepts(c, p, m, now)
    <3>1. conn' = [conn EXCEPT ![p] = a] /\ UNCHANGED <<now, net, delivered, redelivered>>
      BY <1>6, <2>1, <2>3 DEF HandleRxPacket, handle_rx_complete, history
    <3> DEFINE verdict == reset_verdict(c.last_reset_time, m.tstamp, now)
    <3>2. /\ ConnInv(a)
          /\ \/ Kept(c, a)
             \/ verdict = "accept" /\ Renewed(c, a, m.tstamp)
             \/ verdict = "renew" /\ Renewed(c, a, now)
      BY <1>t, <2>1, AfterResetInv
    <3>3. /\ verdict = "accept" => c.last_reset_time < m.tstamp
          /\ verdict = "renew" => c.last_reset_time < now
      BY <1>t, <2>1, VerdictGrows
    <3> HIDE DEF a, verdict
    <3>4. now <= now
      BY <1>t
    <3> QED
      BY <1>t, <2>1, <2>k, <2>n, <3>1, <3>2, <3>3, <3>4
  <2>4. CASE accepts(c, p, m, now)
    <3>1. EpochInv'
      BY <1>6, <2>4, AcceptStep
    <3>2. \A q \in Side : q # p => conn'[q] = conn[q]
      BY <1>6, <1>t DEF HandleRxPacket
    <3>3. conn'[p].resets # c.resets => conn'[p].last_reset_time > c.last_reset_time
      <4> DEFINE k == ack_payload_handler(a, p, m)
                 d == update_inwnd(k, m.seq)
                 verdict == reset_verdict(c.last_reset_time, m.tstamp, now)
      <4>1. conn'[p] = d
        BY <1>6, <1>t, <2>1, <2>4 DEF HandleRxPacket, handle_rx_complete, accepts
      <4>2. /\ ConnInv(a)
            /\ \/ Kept(c, a)
               \/ verdict = "accept" /\ Renewed(c, a, m.tstamp)
               \/ verdict = "renew" /\ Renewed(c, a, now)
        BY <1>t, <2>1, AfterResetInv
      <4>3. /\ verdict = "accept" => c.last_reset_time < m.tstamp
            /\ verdict = "renew" => c.last_reset_time < now
        BY <1>t, <2>1, VerdictGrows
      <4> HIDE DEF a, verdict
      <4>4. ConnInv(k) /\ k.last_reset_time = a.last_reset_time /\ k.resets = a.resets
        BY <2>1, <4>2, AckInv
      <4> HIDE DEF k
      <4>5. m.seq \in Nat
        BY <2>1 DEF Packet
      <4>6. d.last_reset_time = a.last_reset_time /\ d.resets = a.resets
        BY <4>4, <4>5, UpdateInv
      <4> HIDE DEF d
      <4> QED
        BY <1>t, <2>1, <4>1, <4>2, <4>3, <4>6 DEF Kept, Renewed
    <3> QED
      BY <3>1, <3>2, <3>3
  <2> QED
    BY <2>2, <2>3, <2>4
<1>7. ASSUME NEW p \in Side, HandleTimeout(p)
      PROVE  EpochInv' /\ Grows
  <2>1. PICK upto \in 0..conn[p].head : conn' = [conn EXCEPT ![p] = handle_timeout(@, upto)]
    BY <1>7 DEF HandleTimeout
  <2> DEFINE d == handle_timeout(conn[p], upto)
  <2>2. upto \in Nat /\ conn[p] \in ConnType
    BY <1>t DEF ConnType
  <2>3. ConnInv(d)
    BY <1>t, <2>2, TimeoutInv
  <2>4. /\ d.head = conn[p].head /\ d.acked = conn[p].acked
        /\ d.last_reset_time = conn[p].last_reset_time /\ d.resets = conn[p].resets
        /\ d.in_max = conn[p].in_max /\ d.inwnd = conn[p].inwnd
    BY <2>2 DEF handle_timeout, set_timer, do_neg_ack, ConnType
  <2>5. conn' = [conn EXCEPT ![p] = d] /\ UNCHANGED <<now, net, delivered, redelivered>>
    BY <1>7, <2>1 DEF HandleTimeout, history
  <2> HIDE DEF d
  <2>6. d \in ConnType /\ conn[p].head <= d.head /\ net' = net /\ net' \subseteq Packet
    BY SMTT(20), <1>t, <2>2, <2>3, <2>4, <2>5 DEF ConnInv, WindowInv, CoreInv, ConnType
  <2> QED
    BY <1>q, <2>4, <2>5, <2>6
<1>8. ASSUME NEW p \in Side, Restart(p)
      PROVE  EpochInv' /\ Grows
  <2> DEFINE b == do_proto_reset(conn[p], now, FALSE)
             d == [b EXCEPT !.timer = 0]
  <2>1. ConnInv(b) /\ Renewed(conn[p], b, now)
    BY <1>t, ResetRenews
  <2>2. /\ conn' = [conn EXCEPT ![p] = d]
        /\ conn[p].last_reset_time # now /\ UNCHANGED <<now, net, delivered, redelivered>>
    BY <1>8, <1>t DEF Restart, history
  <2> HIDE DEF b
  <2>3. b \in ConnType
    BY <2>1 DEF ConnInv, WindowInv, CoreInv
  <2>4. d \in ConnType /\ Renewed(conn[p], d, now)
    BY <2>1, <2>3 DEF ConnType, Renewed
  <2> HIDE DEF d
  <2>5. conn[p].last_reset_time < now /\ now <= now
    BY <1>t, <2>2
  <2> QED
    BY <1>r, <1>t, <2>2, <2>4, <2>5
<1>9. CASE UNCHANGED vars
  <2>1. UNCHANGED <<now, conn, net, delivered, redelivered>>
    BY <1>9 DEF vars
  <2>2. ClocksInv' /\ NetInv' /\ AtMostOnce' /\ AckedWasDelivered'
    BY <2>1 DEF EpochInv, ClocksInv, NetInv, AtMostOnce, AckedWasDelivered
  <2>3. SeenInv'
    BY <2>1 DEF EpochInv, SeenInv
  <2>4. MarksInv'
    <3>1. \A p, t, s : Processed(p, t, s) => Processed(p, t, s)'
      BY <2>1, ProcessedStays
    <3>2. MarksInv
      BY DEF EpochInv
    <3>3. ASSUME NEW p \in Side, NEW s \in conn[p].inwnd, s >= 1
          PROVE  Processed(p, conn[p].last_reset_time, s)'
      BY <2>1, <3>1, <3>2, <3>3 DEF MarksInv
    <3>4. ASSUME NEW m \in net, NEW s \in m.acks, s >= 1
          PROVE  Processed(m.src, m.tstamp, s)'
      BY <2>1, <3>1, <3>2, <3>4 DEF MarksInv
    <3> QED
      BY <2>1, <3>3, <3>4 DEF MarksInv
  <2>5. Grows
    BY <2>1
  <2> QED
    BY <2>2, <2>3, <2>4, <2>5 DEF EpochInv
<1> QED
  BY <1>1, <1>2, <1>3, <1>4, <1>5, <1>6, <1>7, <1>8, <1>9 DEF Next

-----------------------------------------------------------------------------
\* With clocks that agree, a delayed RESET, a restart or a forced reset never
\* takes a side back to an epoch it left.
THEOREM EpochsOnlyGrow == NoSkew => (Spec => EpochsGrow)
<1> SUFFICES ASSUME NoSkew PROVE Spec => EpochsGrow
  OBVIOUS
<1>1. Init => SendInv /\ EpochInv
  BY SendInit, EpochInit
<1>2. SendInv /\ EpochInv /\ [Next]_vars => (SendInv /\ EpochInv)'
  BY SendStep, EpochStep
<1>3. SendInv /\ EpochInv /\ [Next]_vars =>
        [\A p \in Side : conn'[p].resets # conn[p].resets =>
           conn'[p].last_reset_time > conn[p].last_reset_time]_vars
  BY EpochStep
<1> QED
  BY <1>1, <1>2, <1>3, PTL DEF Spec, EpochsGrow

\* With clocks that agree, no packet is processed twice: not a duplicate, not
\* across a reset or a restart of either side (fpproto.c 448-471).
THEOREM ProcessedAtMostOnce == NoSkew => (Spec => []AtMostOnce)
<1> SUFFICES ASSUME NoSkew PROVE Spec => []AtMostOnce
  OBVIOUS
<1>1. Init => SendInv /\ EpochInv
  BY SendInit, EpochInit
<1>2. SendInv /\ EpochInv /\ [Next]_vars => (SendInv /\ EpochInv)'
  BY SendStep, EpochStep
<1> QED
  BY <1>1, <1>2, PTL DEF Spec, EpochInv

\* With clocks that agree, handle_ack is called only for packets the peer
\* processed (fpproto.c 294-355).
THEOREM AcknowledgedWasDelivered == NoSkew => (Spec => []AckedWasDelivered)
<1> SUFFICES ASSUME NoSkew PROVE Spec => []AckedWasDelivered
  OBVIOUS
<1>1. Init => SendInv /\ EpochInv
  BY SendInit, EpochInit
<1>2. SendInv /\ EpochInv /\ [Next]_vars => (SendInv /\ EpochInv)'
  BY SendStep, EpochStep
<1> QED
  BY <1>1, <1>2, PTL DEF Spec, EpochInv

=============================================================================
