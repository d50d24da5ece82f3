---------------------------- MODULE FpResetRules ----------------------------
(***************************************************************************)
(* How a side of a control connection judges reset times                   *)
(* (src/src/protocol/fpproto.c).  Times are nanoseconds since 1970, so     *)
(* subtracting a window never wraps and plain integers do.                 *)
(***************************************************************************)
EXTENDS Integers

CONSTANTS
  BadThreshold,  \* FASTPASS_BAD_PKT_RESET_THRESHOLD (10)
  ResetWindow,   \* FASTPASS_RESET_WINDOW_NS
  RstWin         \* rst_win_ns, given to fpproto_init_conn

ASSUME ResetAssumption ==
  BadThreshold \in Nat \ {0} /\ ResetWindow \in Nat /\ RstWin \in Nat \ {0}

Side == {"endpoint", "controller"}
Peer(p) == IF p = "endpoint" THEN "controller" ELSE "endpoint"
IS_ENDPOINT(p) == p = "endpoint"

tstamp_in_window(tstamp, middle, size) ==
  /\ tstamp >= middle - (size \div 2)
  /\ tstamp < middle + ((size + 1) \div 2)

\* Mutant: an older RESET is obeyed as readily as a newer one.
obey_any_reset(last, tstamp, t) ==
  IF tstamp = last THEN "same"
  ELSE IF tstamp_in_window(tstamp, t, RstWin) THEN "accept"
  ELSE IF tstamp_in_window(last, t, RstWin) THEN "refuse" ELSE "renew"

\* What the table above reset_payload_handler makes of a RESET's timestamp at
\* a side whose last reset time is last and whose clock shows t.
reset_verdict(last, tstamp, t) ==
  LET last_is_recent == tstamp_in_window(last, t, RstWin)
      payload_is_recent == tstamp_in_window(tstamp, t, RstWin)
  IN IF tstamp = last THEN "same"
     ELSE IF payload_is_recent
          THEN IF last_is_recent /\ tstamp < last THEN "refuse" ELSE "accept"
     ELSE IF last_is_recent THEN "refuse" ELSE "renew"

\* Too many bad packets start a new epoch unless there was a recent reset.
recent_reset(last, t) == last \in (t - ResetWindow)..(t + ResetWindow)
=============================================================================
