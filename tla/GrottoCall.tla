------------------------------ MODULE GrottoCall ------------------------------
(***************************************************************************)
(* The calls that need one POST (grotto-rpc.ts): runUnary, runClientStream *)
(* and iterateServerStream, with the consumer that iterates the latter.    *)
(***************************************************************************)
EXTENDS ClientSession

CONSTANTS
  Post,      \* the only member of Posts
  MaxSends   \* bound on the messages of a client stream

ASSUME PostAssumption == Posts = {Post} /\ MaxSends \in Nat \ {0}

Kinds == {"unary", "clientStream", "serverStream"}

VARIABLES
  kind,     \* the kind of this call; it never changes
  pc,       \* where the call is
  yielded,  \* the messages given to the consumer, in order
  result    \* how the call ended

vars == <<connVars, sessVars, kind, pc, yielded, result>>

TypeOK ==
  /\ SessionTypeOK
  /\ kind \in Kinds
  /\ pc \in {"start", "sending", "receiving", "suspended", "ended"}
  /\ yielded \in Seq(1..MaxMessages)
  /\ result \in {"none", "returned", "threw", "stopped"}

Init ==
  /\ SessionInit
  /\ kind \in Kinds
  /\ pc = "start"
  /\ yielded = <<>>
  /\ result = "none"

Start ==
  /\ pc = "start"
  /\ pc' = "sending"
  /\ Connect(Post)
  /\ Enqueue(Post, <<"HEADERS">>)
  /\ UNCHANGED <<closed, headers, sessVars, kind, yielded, result>>

Sent == Len(SelectSeq(sent[Post], LAMBDA f : f = "MESSAGE"))

\* A client stream sends what its input yields, the others one message.
SendMessage ==
  /\ pc = "sending"
  /\ Sent < IF kind = "clientStream" THEN MaxSends ELSE 1
  /\ Enqueue(Post, <<"MESSAGE">>)
  /\ UNCHANGED <<request, closed, headers, http, sessVars, kind, pc, yielded,
                 result>>

FinishSending ==
  /\ pc = "sending"
  /\ kind = "clientStream" \/ Sent = 1
  /\ pc' = "receiving"
  /\ Enqueue(Post, <<"HALF_CLOSE">>)
  /\ request' = [request EXCEPT ![Post] = "closed"]
  /\ UNCHANGED <<closed, headers, http, sessVars, kind, yielded, result>>

\* The call is over, with the finally block that closes the connection.
End(r) ==
  /\ pc' = "ended"
  /\ result' = r
  /\ CloseAll({Post})
  /\ UNCHANGED <<sessVars, kind, yielded>>

InputThrows ==
  /\ pc = "sending"
  /\ kind = "clientStream"
  /\ End("threw")

Receiving == pc = "receiving" /\ ~waiting[Post]

\* awaitUnaryResponse has a reply or, with TRAILERS but no message, an error.
ReturnReply ==
  /\ Receiving
  /\ kind # "serverStream"
  /\ failure[Post] = "none"
  /\ trailers[Post] = "ok"
  /\ End(IF messages[Post] = <<>> THEN "threw" ELSE "returned")

ThrowFailure ==
  /\ Receiving
  /\ \/ failure[Post] # "none"
     \/ kind # "serverStream" /\ trailers[Post] = "error"
     \/ Failed(Post)
  /\ End("threw")

\* Faulty: the consumer gets the latest message.
YieldLast ==
  /\ Receiving
  /\ kind = "serverStream"
  /\ HasMessage(Post)
  /\ yielded' = Append(yielded, messages[Post][Len(messages[Post])])
  /\ messages' = [messages EXCEPT ![Post] = SubSeq(@, 1, Len(@) - 1)]
  /\ pc' = "suspended"
  /\ UNCHANGED <<connVars, arrived, trailers, failure, waiting, kind, result>>

YieldMessage ==
  /\ Receiving
  /\ kind = "serverStream"
  /\ HasMessage(Post)
  /\ yielded' = Append(yielded, Head(messages[Post]))
  /\ messages' = [messages EXCEPT ![Post] = Tail(@)]
  /\ pc' = "suspended"
  /\ UNCHANGED <<connVars, arrived, trailers, failure, waiting, kind, result>>

\* Faulty: nextMessage looks at the TRAILERS first.
EndStreamFirst ==
  /\ Receiving
  /\ kind = "serverStream"
  /\ failure[Post] = "none" /\ trailers[Post] = "ok"
  /\ End("returned")

EndStream ==
  /\ Receiving
  /\ kind = "serverStream"
  /\ HasEnded(Post)
  /\ End("returned")

Await ==
  /\ Receiving
  /\ failure[Post] = "none" /\ trailers[Post] = "none"
  /\ kind = "serverStream" => messages[Post] = <<>>
  /\ Wait(Post)
  /\ UNCHANGED <<connVars, kind, pc, yielded, result>>

\* The consumer of a server stream asks for more, or leaves its loop.
ConsumerPulls ==
  /\ pc = "suspended"
  /\ pc' = "receiving"
  /\ UNCHANGED <<connVars, sessVars, kind, yielded, result>>

\* Faulty: the generator has no finally block.
ConsumerForgets ==
  /\ pc = "suspended"
  /\ pc' = "ended"
  /\ result' = "stopped"
  /\ UNCHANGED <<connVars, sessVars, kind, yielded>>

ConsumerStops ==
  /\ pc = "suspended"
  /\ End("stopped")

NetworkStep ==
  /\ Network(Post, IF kind = "serverStream" THEN 0..2 ELSE 0..1, {"bare"})
  /\ UNCHANGED <<kind, pc, yielded, result>>

\* Nothing is left to do.
Over == pc = "ended" /\ UNCHANGED vars

Receive ==
  ReturnReply \/ ThrowFailure \/ YieldMessage \/ EndStream \/ Await

Next ==
  \/ Start
  \/ SendMessage
  \/ FinishSending
  \/ InputThrows
  \/ Receive
  \/ ConsumerPulls
  \/ ConsumerStops
  \/ NetworkStep
  \/ Over

Spec == Init /\ [][Next]_vars

\* The event loop runs what is ready; the input ends, and a consumer that has
\* not left its loop asks for the next message.
FairSpec ==
  /\ Spec
  /\ WF_vars(Start)
  /\ WF_vars(SendMessage \/ FinishSending \/ InputThrows)
  /\ WF_vars(Receive)
  /\ WF_vars(ConsumerPulls \/ ConsumerStops)

-----------------------------------------------------------------------------
(* Properties.                                                             *)

\* What has arrived is either with the consumer or still buffered, once and
\* in the order of arrival, whatever chunks the frames came in.
EachMessageOnce ==
  yielded \o messages[Post] = [i \in 1..arrived[Post] |-> i]

\* A call succeeds only on OK TRAILERS, after its whole request was sent, and
\* a stream that ends normally has delivered every message that arrived.
SuccessIsComplete ==
  result = "returned" =>
    /\ trailers[Post] = "ok"
    /\ sent[Post][Len(sent[Post])] = "HALF_CLOSE"
    /\ kind # "serverStream" => messages[Post] # <<>>
    /\ kind = "serverStream" => Len(yielded) = arrived[Post]

\* A call that is over leaves no POST behind: nothing arrives for it or is
\* sent by it any more, however it ended.
QuietAfterEnd ==
  [][pc = "ended" => UNCHANGED <<connVars, sessVars>>]_vars

\* When its response is over, whichever way, so is the call.
CallSettles == (http[Post] = "ended") ~> (pc = "ended")

=============================================================================
