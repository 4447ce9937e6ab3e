---- MODULE MCBidiSession ----
(* BidiSession on small sets of client legs.                               *)
EXTENDS BidiSession, TLC

LegSymmetry == Permutations(ClientLegs)

=============================================================================
