---------------------------- MODULE MCBidiClient ----------------------------
(* The client's side of a bidirectional call, for TLC. *)
EXTENDS BidiClient

BothLegs == {ServerLeg, ClientLeg}
=============================================================================
