------------------------------ MODULE BidiJoin ------------------------------
(***************************************************************************)
(* What a bidirectional session promises, with none of the goroutines,     *)
(* channels and locks that keep the promise.  A server leg waits; at most  *)
(* one client leg joins it; each joined leg is given one outcome, which it *)
(* keeps; and the session is released, once, only when every joined leg    *)
(* has its outcome.  BidiSession is shown to implement this module.        *)
(***************************************************************************)

CONSTANTS
  Server,      \* the POST that opens the session (the server leg)
  ClientLegs,  \* the POSTs that may join it
  NoLeg        \* no client leg has joined

VARIABLES
  client,      \* the client leg that joined, or NoLeg
  outcome,     \* [Legs -> Outcomes]: what the TRAILERS of each leg say
  released     \* the goroutines that serve the legs are free to return

vars == <<client, outcome, released>>

Legs == {Server} \cup ClientLegs

\* "none": no TRAILERS yet; "ok" and "handlerError": the RPC handler's own
\* result; the others are the reasons for which a session is cut short.
Failures == {"handlerError", "expired", "closed", "cancelled", "badHeaders"}
Outcomes == {"none", "ok"} \cup Failures

Joined == {Server} \cup (IF client = NoLeg THEN {} ELSE {client})

Init ==
  /\ client = NoLeg
  /\ outcome = [x \in Legs |-> "none"]
  /\ released = FALSE

\* A leg joins a session that nobody joined and that has not failed.
Join(c) ==
  /\ ~released
  /\ client = NoLeg
  /\ outcome[Server] = "none"
  /\ client' = c
  /\ UNCHANGED <<outcome, released>>

\* A joined leg learns its outcome. Success takes two legs.
Settle(x, o) ==
  /\ x \in Joined
  /\ outcome[x] = "none"
  /\ o = "ok" => client # NoLeg
  /\ outcome' = [outcome EXCEPT ![x] = o]
  /\ UNCHANGED <<client, released>>

Release ==
  /\ ~released
  /\ \A x \in Joined : outcome[x] # "none"
  /\ released' = TRUE
  /\ UNCHANGED <<client, outcome>>

Next ==
  \/ \E c \in ClientLegs : Join(c)
  \/ \E x \in Legs, o \in Outcomes \ {"none"} : Settle(x, o)
  \/ Release

Spec == Init /\ [][Next]_vars

=============================================================================
