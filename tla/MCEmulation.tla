------------------------------ MODULE MCEmulation ------------------------------
\* Emulation with small sets of flows for TLC.
EXTENDS Emulation

OneRackFlows == {<<0, 1>>, <<1, 1>>}
OneWayFlow == {<<0, 3>>}
TwoRackFlows == {<<0, 2>>, <<2, 0>>, <<3, 0>>}
================================================================================
