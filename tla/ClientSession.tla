---------------------------- MODULE ClientSession ----------------------------
(***************************************************************************)
(* The TypeScript client's view of its HTTP POSTs: for each, one           *)
(* GrottoConnection (connection.ts) and the RpcSession that listens to it  *)
(* (grotto-rpc.ts).  GrottoCall and BidiClient are the calls made with     *)
(* them; this module has the state, what the network does to it, and the   *)
(* fragments of which the calls' steps are made.                           *)
(*                                                                         *)
(* JavaScript runs one callback at a time, so a step is what happens       *)
(* between two awaits.  A callback of fetch or of the response reader is a *)
(* step of its own and may come between any two steps of the call.         *)
(***************************************************************************)
EXTENDS Integers, Sequences

CONSTANTS
  Posts,        \* the POSTs of one call
  MaxMessages   \* bound on the MESSAGE frames of a response

ASSUME MaxMessagesAssumption == MaxMessages \in Nat

VARIABLES
  request,   \* [Posts -> the request stream: "none", "open" or "closed"]
  closed,    \* [Posts -> GrottoConnection.closed, which drops the handlers]
  headers,   \* [Posts -> responseHeaders and the promise for them]
  http,      \* [Posts -> where fetch and readResponseLoop are]
  sent,      \* [Posts -> the frames put into the request stream]
  arrived,   \* [Posts -> number of MESSAGE frames dispatched]
  messages,  \* [Posts -> RpcSession.messages, numbered as they arrived]
  trailers,  \* [Posts -> RpcSession.trailers: "none", "ok" or "error"]
  failure,   \* [Posts -> RpcSession.failure]
  waiting    \* [Posts -> a resolve function is in RpcSession.waiters]

connVars == <<request, closed, headers, http, sent>>
sessVars == <<arrived, messages, trailers, failure, waiting>>

Outcomes == {"ok", "error"}
Failures == {"http", "closed", "leg", "timeout"}

SessionTypeOK ==
  /\ request \in [Posts -> {"none", "open", "closed"}]
  /\ closed \in [Posts -> BOOLEAN]
  /\ headers \in [Posts -> {"none", "bare", "named", "rejected"}]
  /\ http \in [Posts -> {"idle", "pending", "streaming", "ended"}]
  /\ \A c \in Posts :
       /\ sent[c] \in Seq({"HEADERS", "MESSAGE", "HALF_CLOSE"})
       /\ messages[c] \in Seq(1..arrived[c])
  /\ arrived \in [Posts -> 0..MaxMessages]
  /\ trailers \in [Posts -> Outcomes \cup {"none"}]
  /\ failure \in [Posts -> Failures \cup {"none"}]
  /\ waiting \in [Posts -> BOOLEAN]

SessionInit ==
  /\ request = [c \in Posts |-> "none"]
  /\ closed = [c \in Posts |-> FALSE]
  /\ headers = [c \in Posts |-> "none"]
  /\ http = [c \in Posts |-> "idle"]
  /\ sent = [c \in Posts |-> <<>>]
  /\ arrived = [c \in Posts |-> 0]
  /\ messages = [c \in Posts |-> <<>>]
  /\ trailers = [c \in Posts |-> "none"]
  /\ failure = [c \in Posts |-> "none"]
  /\ waiting = [c \in Posts |-> FALSE]

-----------------------------------------------------------------------------
(* Fragments of the calls' steps.                                          *)

\* connectInternal up to `await ready`: the request stream's start callback
\* runs at once, so connecting does not wait for the server.
Connect(c) ==
  /\ request' = [request EXCEPT ![c] = "open"]
  /\ http' = [http EXCEPT ![c] = "pending"]

\* connect() and enqueueFrame throw on a connection that has been closed.
CanSend(c) == ~closed[c] /\ request[c] = "open"

Enqueue(c, fs) == sent' = [sent EXCEPT ![c] = @ \o fs]

\* close(): fetch is aborted, and what still arrives finds no handlers.
CloseAll(cs) ==
  /\ closed' = [c \in Posts |-> closed[c] \/ c \in cs]
  /\ request' = [c \in Posts |-> IF c \in cs THEN "closed" ELSE request[c]]
  /\ http' = [c \in Posts |-> IF c \in cs THEN "ended" ELSE http[c]]
  /\ UNCHANGED <<headers, sent>>

\* RpcSession.fail: only the first failure counts, and wakes the waiter.
Fail(c, why) ==
  IF failure[c] # "none"
  THEN UNCHANGED <<failure, waiting>>
  ELSE /\ failure' = [failure EXCEPT ![c] = why]
       /\ waiting' = [waiting EXCEPT ![c] = FALSE]

Wait(c) ==
  /\ waiting' = [waiting EXCEPT ![c] = TRUE]
  /\ UNCHANGED <<arrived, messages, trailers, failure>>

-----------------------------------------------------------------------------
(* The network.                                                            *)

\* fetch resolves with an ok response; h says whether it names a session.
ResponseArrives(c, h) ==
  /\ http[c] = "pending"
  /\ http' = [http EXCEPT ![c] = "streaming"]
  /\ headers' = [headers EXCEPT ![c] = h]
  /\ UNCHANGED <<request, closed, sent, sessVars>>

\* reader.read() returns a chunk with n whole MESSAGE frames and, unless code
\* is "none", the TRAILERS; RpcSession.messages becomes ms.
Dispatch(c, n, code, ms) ==
  /\ http[c] = "streaming"
  /\ trailers[c] = "none"
  /\ n > 0 \/ code # "none"
  /\ arrived[c] + n <= MaxMessages
  /\ messages' = [messages EXCEPT ![c] = ms]
  /\ arrived' = [arrived EXCEPT ![c] = @ + n]
  /\ trailers' = [trailers EXCEPT ![c] = code]
  /\ UNCHANGED <<connVars, failure>>

\* The next n messages of the response.
NextMessages(c, n) == [i \in 1..n |-> arrived[c] + i]

Notify(c) == waiting' = [waiting EXCEPT ![c] = FALSE]

\* Faulty: onMessage and onTrailers do not notify.
ChunkUnnoticed(c, n, code) ==
  /\ Dispatch(c, n, code, messages[c] \o NextMessages(c, n))
  /\ UNCHANGED waiting

\* Faulty: a message that arrives puts the earlier ones behind it.
ChunkInFront(c, n, code) ==
  /\ Dispatch(c, n, code, NextMessages(c, n) \o messages[c])
  /\ Notify(c)

\* Faulty: the frame whose end has not arrived yet is taken as well.
ChunkPartial(c, n, code) ==
  /\ Dispatch(c, n, code, messages[c] \o NextMessages(c, n + 1))
  /\ Notify(c)

\* onMessage pushes, onTrailers sets trailers, both notify. HEADERS do
\* nothing here, and the server sends neither CANCEL nor a frame that does
\* not decode.
Chunk(c, n, code) ==
  /\ Dispatch(c, n, code, messages[c] \o NextMessages(c, n))
  /\ Notify(c)

\* Faulty: a response that just stops is not reported.
BodyEndsSilently(c) ==
  /\ http[c] = "streaming"
  /\ http' = [http EXCEPT ![c] = "ended"]
  /\ UNCHANGED <<request, closed, headers, sent, sessVars>>

\* The response body ends: onClose.
BodyEnds(c) ==
  /\ http[c] = "streaming"
  /\ http' = [http EXCEPT ![c] = "ended"]
  /\ IF trailers[c] = "none" THEN Fail(c, "closed")
                             ELSE UNCHANGED <<failure, waiting>>
  /\ UNCHANGED <<request, closed, headers, sent, arrived, messages, trailers>>

\* fetch or the reader rejects, or the status is not 2xx: onError, which does
\* not care whether the TRAILERS have arrived.
ConnectionFails(c) ==
  /\ http[c] \in {"pending", "streaming"}
  /\ http' = [http EXCEPT ![c] = "ended"]
  /\ headers' = [headers EXCEPT ![c] = IF @ = "none" THEN "rejected" ELSE @]
  /\ Fail(c, "http")
  /\ UNCHANGED <<request, closed, sent, arrived, messages, trailers>>

\* What the network does to post c, whose response may carry MESSAGE frames
\* or not and whose response headers are of one of the kinds in hs.
Network(c, ns, hs) ==
  \/ \E h \in hs : ResponseArrives(c, h)
  \/ \E n \in ns, code \in Outcomes \cup {"none"} : Chunk(c, n, code)
  \/ BodyEnds(c)
  \/ ConnectionFails(c)

-----------------------------------------------------------------------------
(* What the loops of RpcSession find when they look; the loop of           *)
(* awaitUnaryResponse leaves the messages alone, nextMessage takes one.    *)

Failed(c) ==
  \/ failure[c] # "none"
  \/ trailers[c] = "error" /\ messages[c] = <<>>
HasMessage(c) == failure[c] = "none" /\ messages[c] # <<>>
HasEnded(c) ==
  failure[c] = "none" /\ messages[c] = <<>> /\ trailers[c] = "ok"
HasNothing(c) ==
  failure[c] = "none" /\ messages[c] = <<>> /\ trailers[c] = "none"

=============================================================================
