---------------------------- MODULE MCGrottoCall ----------------------------
(* The client's single-POST calls, for TLC. *)
EXTENDS GrottoCall

OnePost == {Post}
=============================================================================
