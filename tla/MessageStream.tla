---------------------------- MODULE MessageStream ----------------------------
(***************************************************************************)
(* What an rpcConn promises to the handler that receives from it, with     *)
(* none of the frames, channels and loops that keep the promise.  The      *)
(* client's messages reach the handler one at a time, each once, in their  *)
(* order and without a gap, and then it is told the end.  A connection     *)
(* that is cancelled may skip messages and end early; one from which two   *)
(* goroutines read loses the order as well.  RpcConn is shown to implement *)
(* this module.                                                            *)
(***************************************************************************)
EXTENDS Integers, Sequences

VARIABLES
  sent,   \* number of messages the client has sent
  got,    \* the messages the handler has received, by their numbers
  told,   \* the handler was told that there are no more
  cut,    \* the connection is cancelled
  mixed   \* two goroutines read from the connection

vars == <<sent, got, told, cut, mixed>>

Init ==
  /\ sent = 0
  /\ got = <<>>
  /\ told = FALSE
  /\ cut = FALSE
  /\ mixed = FALSE

\* The handler is not told the end while the client may still send.
Produce ==
  /\ ~told
  /\ sent' = sent + 1
  /\ UNCHANGED <<got, told, cut, mixed>>

Receive(m) ==
  /\ ~told
  /\ \A i \in DOMAIN got : got[i] # m
  /\ ~mixed => \A i \in DOMAIN got : got[i] < m
  /\ ~mixed /\ ~cut => m = Len(got) + 1
  /\ got' = Append(got, m)
  /\ UNCHANGED <<sent, told, cut, mixed>>

Tell ==
  /\ ~told
  /\ ~mixed /\ ~cut => Len(got) = sent
  /\ told' = TRUE
  /\ UNCHANGED <<sent, got, cut, mixed>>

Cut ==
  /\ ~cut
  /\ cut' = TRUE
  /\ UNCHANGED <<sent, got, told, mixed>>

Mix ==
  /\ ~mixed
  /\ mixed' = TRUE
  /\ UNCHANGED <<sent, got, told, cut>>

Next ==
  \/ Produce
  \/ \E m \in 1..sent : Receive(m)
  \/ Tell
  \/ Cut
  \/ Mix

Spec == Init /\ [][Next]_vars

=============================================================================
