------------------------------- MODULE EmuService -------------------------------
(***************************************************************************)
(* What the arbiter's comm core relies on from the network emulation       *)
(* (src/emulation), and no more: a packet handed to add_backlog stays      *)
(* pending until its fate, admitted or dropped, comes back in an admitted  *)
(* batch, or until it is forgotten without notice.  A fate comes back at   *)
(* most once and a forgotten packet never has one.                         *)
(***************************************************************************)
CONSTANT Packet

VARIABLES pending,   \* handed to the emulation, nothing heard of yet
          fates      \* <<packet, "admit" or "drop">> read from q_admitted

vars == <<pending, fates>>

Fated == {f[1] : f \in fates}

Init == pending = {} /\ fates = {}

Add ==
  /\ pending \subseteq pending'
  /\ pending' \subseteq Packet \ Fated
  /\ UNCHANGED fates

Forget == pending' \subseteq pending /\ UNCHANGED fates

\* One batch: every packet in it was pending, and has one fate.
Hear ==
  /\ fates \subseteq fates'
  /\ LET news == {f[1] : f \in fates' \ fates} IN
       /\ news \subseteq pending
       /\ pending' = pending \ news
  /\ \A f, g \in fates' : f[1] = g[1] => f = g

Next == Add \/ Forget \/ Hear

Spec == Init /\ [][Next]_vars
================================================================================
