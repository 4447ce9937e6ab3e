---------------------------- MODULE MCFrameStream ----------------------------
(* A request's and a response's body, for TLC. *)
EXTENDS FrameStream

\* No body, and one that can be taken for more than it is: it starts as a
\* frame does, and its second cell can be read as the length in a gRPC prefix
\* (as in a protobuf fixed64 field: a tag, and four zero bytes).
SomeMessages == {<<>>, <<Magic, 0, 3>>}
=============================================================================
