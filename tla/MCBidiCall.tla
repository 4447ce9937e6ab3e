------------------------------ MODULE MCBidiCall ------------------------------
(* A bidirectional call from end to end, for TLC. *)
EXTENDS BidiCall

BothLegs == {ServerLeg, ClientLeg}
=============================================================================
