------------------------------ MODULE FpProto -------------------------------
(***************************************************************************)
(* A Fastpass control connection (src/src/protocol/fpproto.c): an endpoint *)
(* and the controller exchange sequenced packets over a network that       *)
(* loses, duplicates, delays and reorders them.  conn[p] is the struct     *)
(* fpproto_conn of side p; its operations are those of FpConn.             *)
(***************************************************************************)
EXTENDS FpConn

CONSTANTS
  Skew,          \* how far each side's clock is from real time
  Started,       \* when a side may have been initialised; time starts at 1
  MaxTime,       \* bound on the clock
  MaxPkts        \* bound on the packets sent

ASSUME ProtoAssumption ==
  /\ Skew \in [Side -> Int] /\ MaxTime \in Nat /\ MaxPkts \in Nat
  /\ Started \subseteq Int /\ \A t \in Started : t <= 1

VARIABLES
  now,        \* real time
  conn,       \* the connection state of each side
  sending,    \* the endpoint is between prepare_to_send and commit_packet
  net,        \* every packet ever sent: any may arrive, any number of times
  delivered,  \* history: the packets whose payload each side processed
  redelivered \* history: the packets a side processed twice

vars == <<now, conn, sending, net, delivered, redelivered>>

-----------------------------------------------------------------------------
Clock(p) == now + Skew[p]

\* Each side was initialised now or a while ago.
Init ==
  /\ now = 1
  /\ \E t \in [Side -> Started] : conn = [p \in Side |-> fresh_conn(t[p] + Skew[p])]
  /\ sending = FALSE
  /\ net = {}
  /\ delivered = [p \in Side |-> {}]
  /\ redelivered = [p \in Side |-> {}]

history == <<delivered, redelivered>>

Tick ==
  /\ now < MaxTime
  /\ now' = now + 1
  /\ UNCHANGED <<conn, sending, net, history>>

\* The endpoint's send_request drops the lock between prepare_to_send and
\* commit_packet; packets and timeouts may be handled in between.
PrepareToSend ==
  /\ ~sending
  /\ conn' = [conn EXCEPT !["endpoint"] = prepare_to_send(@)]
  /\ sending' = TRUE
  /\ UNCHANGED <<now, net, history>>

CommitPacket ==
  /\ sending /\ Cardinality(net) < MaxPkts
  /\ conn' = [conn EXCEPT !["endpoint"] = commit_packet(@)]
  /\ net' = net \cup {packet(conn["endpoint"], "endpoint")}
  /\ sending' = FALSE
  /\ UNCHANGED <<now, history>>

\* The controller's tx_end_node runs on the core that also receives.
TxEndNode ==
  LET ready == prepare_to_send(conn["controller"]) IN
  /\ Cardinality(net) < MaxPkts
  /\ conn' = [conn EXCEPT !["controller"] = commit_packet(ready)]
  /\ net' = net \cup {packet(ready, "controller")}
  /\ UNCHANGED <<now, sending, history>>

HandleRxPacket(p, m) ==
  /\ m.src = Peer(p)
  /\ conn' = [conn EXCEPT ![p] = handle_rx_complete(@, p, m, Clock(p))]
  /\ IF accepts(conn[p], p, m, Clock(p))
     THEN /\ delivered' = [delivered EXCEPT ![p] = @ \cup {id(m)}]
          /\ redelivered' = [redelivered EXCEPT ![p] = @ \cup (delivered[p] \cap {id(m)})]
     ELSE UNCHANGED history
  /\ UNCHANGED <<now, sending, net>>

HandleTimeout(p) ==
  /\ conn[p].timer # 0
  /\ \E upto \in 0..conn[p].head :
       conn' = [conn EXCEPT ![p] = handle_timeout(@, upto)]
  /\ UNCHANGED <<now, sending, net, history>>

\* The clock counts nanoseconds: it has moved since this side's last reset.
ForceReset ==
  /\ Clock("endpoint") # conn["endpoint"].last_reset_time
  /\ conn' = [conn EXCEPT !["endpoint"] = do_proto_reset(@, Clock("endpoint"), FALSE)]
  /\ UNCHANGED <<now, sending, net, history>>

\* A crash, or the qdisc or arbiter being stopped, and fpproto_init_conn.
Restart(p) ==
  /\ Clock(p) # conn[p].last_reset_time
  /\ conn' = [conn EXCEPT ![p] =
       [do_proto_reset(@, Clock(p), FALSE) EXCEPT !.timer = 0]]
  /\ sending' = (sending /\ ~IS_ENDPOINT(p))
  /\ UNCHANGED <<now, net, history>>

Next ==
  \/ Tick
  \/ PrepareToSend \/ CommitPacket \/ TxEndNode \/ ForceReset
  \/ \E p \in Side, m \in net : HandleRxPacket(p, m)
  \/ \E p \in Side : HandleTimeout(p) \/ Restart(p)

Spec == Init /\ [][Next]_vars
-----------------------------------------------------------------------------
ConnType ==
  [last_reset_time : Int, resets : Nat, head : Nat, unacked : SUBSET Nat,
   in_max : Nat, inwnd : SUBSET Int, bad : Nat, next_timeout : Nat,
   next_skip : Nat, in_sync : BOOLEAN, timer : Nat, acked : SUBSET Nat,
   nacked : SUBSET Nat, skipped : SUBSET Nat, renotified : SUBSET Nat]

Packet ==
  [src : Side, tstamp : Int, inc : Nat, seq : Nat, rst : BOOLEAN,
   ack_seq : Nat, acks : SUBSET Int]

\* The types of the two connections, the packets and the history.
TypeOK ==
  /\ now \in Nat
  /\ conn \in [Side -> ConnType]
  /\ sending \in BOOLEAN
  /\ net \subseteq Packet
  /\ delivered \in [Side -> SUBSET (Int \X Nat \X Nat)]
  /\ redelivered \in [Side -> SUBSET (Int \X Nat \X Nat)]

\* Between prepare_to_send and commit_packet the slot commit_packet will use
\* stays free, whatever is received meanwhile: the FASTPASS_BUG_ONs of
\* wnd_advance and wnd_mark never fire.
SlotStaysFree ==
  /\ \A p \in Side : conn[p].unacked \subseteq wnd_edge(conn[p])..conn[p].head
  /\ sending => wnd_edge(conn["endpoint"]) \notin conn["endpoint"].unacked

\* With clocks that agree, a side's reset time only ever grows: a delayed
\* RESET, a restart or a forced reset never takes it back to an epoch it left.
EpochsGrow ==
  [][\A p \in Side :
       conn'[p].resets # conn[p].resets =>
         conn'[p].last_reset_time > conn[p].last_reset_time]_vars

\* fpproto.c:448 "At-most-once": no packet's payload is processed twice,
\* across duplicates, resets and restarts.
AtMostOnce == \A p \in Side : redelivered[p] = {}

\* handle_ack is called only for packets whose payload the peer processed:
\* an ACK never survives into another epoch.
AckedWasDelivered ==
  \A p \in Side : \A s \in conn[p].acked :
    <<conn[p].last_reset_time, conn[p].resets, s>> \in delivered[Peer(p)]

\* fpproto.c:855 "Protocol will commit to guaranteeing the given packet is
\* delivered": a committed packet is acknowledged, or the application is told
\* it may be lost, or it is still in the window and then either the timer is
\* running for it or its timeout was already reported.
NothingForgotten ==
  \A p \in Side : LET c == conn[p] IN
    \A s \in 1..c.head :
      \/ s \in c.acked \cup c.nacked
      \/ s \in c.unacked /\ s >= c.next_timeout /\ c.timer # 0

\* The application hears of a timeout, and of a skipped ACK, once per packet
\* (fpproto.c:330 "only notify once per skipped packet").
NotifiedOnce == \A p \in Side : conn[p].renotified = {}

NoSkew == \A p \in Side : Skew[p] = 0
\* The connection, with packets reduced to what they say about epochs,
\* implements the resynchronisation protocol (while no side sends more packets
\* in an epoch than 16 bits number).
Resync == INSTANCE FpResync WITH
  last    <- [p \in Side |-> conn[p].last_reset_time],
  in_sync <- [p \in Side |-> conn[p].in_sync],
  bad     <- [p \in Side |-> conn[p].bad],
  msgs    <- {[src |-> m.src, tstamp |-> m.tstamp, rst |-> m.rst] : m \in net}

RefinesResync == Resync!Spec
=============================================================================
