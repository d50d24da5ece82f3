------------------------------ MODULE FpResync ------------------------------
(***************************************************************************)
(* What a control connection promises about epochs: the two sides, each    *)
(* with a reset time and a belief that it is in sync, agree on one reset   *)
(* time again after any disturbance.  Sequence numbers and payloads are    *)
(* left out; FpProto implements this specification.                        *)
(***************************************************************************)
EXTENDS FpResetRules

CONSTANTS
  Skew,     \* how far each side's clock is from real time
  Started,  \* when a side may have been initialised; time starts at 1
  MaxTime   \* bound on the clock

VARIABLES
  now,      \* real time
  last,     \* last_reset_time of each side
  in_sync,  \* in_sync of each side
  bad,      \* consecutive_bad_pkts of each side
  msgs      \* packets in flight, reduced to reset time and RESET flag

vars == <<now, last, in_sync, bad, msgs>>

Clock(p) == now + Skew[p]

Init ==
  /\ now = 1
  /\ \E t \in [Side -> Started] : last = [p \in Side |-> t[p] + Skew[p]]
  /\ in_sync = [p \in Side |-> FALSE]
  /\ bad = [p \in Side |-> 0]
  /\ msgs = {}

Tick == now < MaxTime /\ now' = now + 1 /\ UNCHANGED <<last, in_sync, bad, msgs>>

message(p) == [src |-> p, tstamp |-> last[p], rst |-> ~in_sync[p]]

Send(p) ==
  /\ msgs' = msgs \cup {message(p)}
  /\ UNCHANGED <<now, last, in_sync, bad>>

Lose(m) == msgs' = msgs \ {m} /\ UNCHANGED <<now, last, in_sync, bad>>

\* Packets that no longer say what their sender would say now leave the network.
Drain ==
  /\ msgs' = msgs \cap {message(p) : p \in Side}
  /\ UNCHANGED <<now, last, in_sync, bad>>

\* do_proto_reset, as far as epochs go.
Become(p, t, sync) ==
  /\ last' = [last EXCEPT ![p] = t]
  /\ in_sync' = [in_sync EXCEPT ![p] = sync]
  /\ bad' = [bad EXCEPT ![p] = 0]

\* Mutant: the count of bad packets is not zeroed after a recent reset.
RxBad_keeps_count(p, m) ==
  /\ ~m.rst /\ m.tstamp # last[p]
  /\ IF bad[p] + 1 >= BadThreshold /\ ~recent_reset(last[p], Clock(p))
     THEN Become(p, Clock(p), FALSE)
     ELSE /\ in_sync' = [in_sync EXCEPT ![p] = FALSE]
          /\ bad' = [bad EXCEPT ![p] = @ + 1]
          /\ UNCHANGED last

\* A packet of another epoch: its checksum fails.
RxBad(p, m) ==
  /\ ~m.rst /\ m.tstamp # last[p]
  /\ IF bad[p] + 1 >= BadThreshold /\ ~recent_reset(last[p], Clock(p))
     THEN Become(p, Clock(p), FALSE)
     ELSE /\ in_sync' = [in_sync EXCEPT ![p] = FALSE]
          /\ bad' = [bad EXCEPT ![p] = (@ + 1) % BadThreshold]
          /\ UNCHANGED last

RxGood(p, m) ==
  /\ ~m.rst /\ m.tstamp = last[p]
  /\ Become(p, last[p], TRUE)

RxReset(p, m) ==
  /\ m.rst
  /\ LET verdict == reset_verdict(last[p], m.tstamp, Clock(p))
     IN \/ verdict \in {"same", "accept"} /\ Become(p, m.tstamp, IS_ENDPOINT(p))
        \/ verdict = "renew" /\ Become(p, Clock(p), IS_ENDPOINT(p))
        \/ verdict = "refuse" /\ Become(p, last[p], FALSE)

Receive(p, m) ==
  /\ m \in msgs /\ m.src = Peer(p)
  /\ RxBad(p, m) \/ RxGood(p, m) \/ RxReset(p, m)
  /\ UNCHANGED <<now, msgs>>

\* A restart, or the endpoint forcing a reset.
Disturb(p) ==
  /\ Clock(p) # last[p]
  /\ Become(p, Clock(p), FALSE)
  /\ UNCHANGED <<now, msgs>>

Next ==
  \/ Tick
  \/ \E p \in Side : Send(p) \/ Disturb(p) \/ \E m \in msgs : Receive(p, m)
  \/ Drain \/ \E m \in msgs : Lose(m)

Spec == Init /\ [][Next]_vars

\* Each side keeps sending (a bad packet and a RESET both trigger a packet,
\* and so do pending work and the NACK of an unanswered packet); what a side
\* keeps sending arrives; what it no longer sends is in the end gone from the
\* network; and time passes.
Fairness ==
  /\ \A p \in Side : WF_vars(Send(p)) /\ SF_vars(Receive(p, message(Peer(p))))
  /\ WF_vars(Drain) /\ WF_vars(Tick)

FairSpec == Spec /\ Fairness

-----------------------------------------------------------------------------
TypeOK ==
  /\ now \in 0..MaxTime
  /\ last \in [Side -> Int] /\ in_sync \in [Side -> BOOLEAN]
  /\ bad \in [Side -> 0..(BadThreshold - 1)]
  /\ msgs \subseteq [src : Side, tstamp : Int, rst : BOOLEAN]

InSync == last["endpoint"] = last["controller"] /\ \A p \in Side : in_sync[p]

\* Once the disturbances stop (the clock's bound allows finitely many), the
\* sides agree on an epoch, believe it, and stay so.
EventuallyInSync == <>[]InSync
=============================================================================
