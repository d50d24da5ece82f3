----------------------------- MODULE MCFpResync -----------------------------
(* A small instance of FpResync. *)
EXTENDS FpResync

InStep == [p \in Side |-> 0]
Ago == -1..1
=============================================================================
