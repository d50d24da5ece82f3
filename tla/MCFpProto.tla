----------------------------- MODULE MCFpProto ------------------------------
(* Small instances of FpProto. *)
EXTENDS FpProto

InStep == [p \in Side |-> 0]
EndpointLags == [p \in Side |-> IF p = "endpoint" THEN -1 ELSE 0]
Recent == {0, 1}
Ago == -1..1
=============================================================================
