------------------------------- MODULE BidiCall -------------------------------
(***************************************************************************)
(* A bidirectional call from end to end: the client of BidiClient, the     *)
(* session that its two POSTs make on the server, and the RPC handler.     *)
(* The session joins, settles and releases as BidiJoin says, which         *)
(* BidiSession implements; this module adds why it does, and what each     *)
(* side learns of the other.  The frames of the client leg are taken by    *)
(* two goroutines, as in RpcConn: the one that serves its POST, in         *)
(* consumeStreamHeaders, and the handler's, in RecvMsg.                    *)
(***************************************************************************)
EXTENDS BidiClient

CONSTANT NoLeg   \* no client leg has joined

ASSUME NoLegAssumption == NoLeg \notin Posts

VARIABLES
  joined,    \* session.clientConn
  outcome,   \* [Posts -> what the TRAILERS say]
  released,  \* session.done is closed
  expiry,    \* session.timer: "unset", "armed", "stopped" or "fired"
  reason,    \* why the session was terminated, or "none"
  leg,       \* where serveBidiClientLeg is
  taken,     \* number of frames taken from the client leg's inbound channel
  stashed,   \* requestReceived of the client leg's connection
  handler,   \* where the handler is; "receiving" is inside RecvMsg
  verdict,   \* what the handler has returned
  received,  \* number of messages that RecvMsg has returned
  eof,       \* RecvMsg has returned io.EOF
  produced   \* number of messages written to the server leg

sessionVars == <<joined, outcome, released>>
legVars     == <<leg, taken, stashed>>
handlerVars == <<handler, verdict, received, eof, produced>>
serverVars  == <<sessionVars, expiry, reason, legVars, handlerVars>>
allVars == <<vars, serverVars>>

Session == INSTANCE BidiJoin WITH Server <- ServerLeg,
                                  ClientLegs <- {ClientLeg},
                                  client <- joined

CallInit ==
  /\ Init
  /\ Session!Init
  /\ expiry = "unset"
  /\ reason = "none"
  /\ leg = "none"
  /\ taken = 0
  /\ stashed = FALSE
  /\ handler = "none"
  /\ verdict = "none"
  /\ received = 0
  /\ eof = FALSE
  /\ produced = 0

-----------------------------------------------------------------------------
(* The session.                                                            *)

\* The server has not answered POST x to its end, and its client is gone.
Aborted(x) == http[x] = "ended" /\ ~released

Opened == expiry # "unset"

\* The server leg's POST arrives, and is answered with the session's id.
OpenSession ==
  /\ http[ServerLeg] # "idle" /\ ~Opened
  /\ expiry' = "armed"
  /\ UNCHANGED <<vars, sessionVars, reason, legVars, handlerVars>>

TimerFires ==
  /\ expiry = "armed"
  /\ expiry' = "fired"
  /\ UNCHANGED <<vars, sessionVars, reason, legVars, handlerVars>>

StopTimer == expiry' = IF expiry = "armed" THEN "stopped" ELSE expiry

\* attachClient.
JoinLeg ==
  /\ http[ClientLeg] # "idle" /\ leg = "none"
  /\ reason = "none"
  /\ Session!Join(ClientLeg)
  /\ StopTimer
  /\ leg' = "headers"
  /\ UNCHANGED <<vars, reason, taken, stashed, handlerVars>>

\* The session is terminated, or no longer in the registry: 409, 404.
RefuseLeg ==
  /\ leg = "none" /\ reason # "none"
  /\ leg' = "refused"
  /\ ConnectionFails(ClientLeg)
  /\ UNCHANGED <<callVars, sessionVars, expiry, reason, taken,
                 stashed, handlerVars>>

\* The frames of the client leg that nobody has taken from the channel.
Untaken == SubSeq(sent[ClientLeg], taken + 1, Len(sent[ClientLeg]))

\* The channel of the client leg is closed and empty.
Drained ==
  /\ taken > 0 /\ Untaken = <<>>
  /\ sent[ClientLeg][taken] = "HALF_CLOSE"

\* The context of the client leg's connection is done: finishLocked, or a
\* client that is gone.
LegContextDone == outcome[ClientLeg] # "none" \/ Aborted(ClientLeg)

\* terminate, up to the end of its critical section.
Terminate(r) ==
  /\ reason' = IF reason = "none" THEN r ELSE reason
  /\ StopTimer

\* The timer's goroutine; the server leg's select; the readLoop of the client
\* leg, unless it is over after a HALF_CLOSE.
TerminateSession ==
  /\ reason = "none" /\ ~released
  /\ \/ expiry = "fired" /\ Terminate("expired")
     \/ Opened /\ Aborted(ServerLeg) /\ handler = "none"
          /\ Terminate("cancelled")
     \/ joined # NoLeg /\ Aborted(ClientLeg) /\ ~Drained /\ Terminate("closed")
  /\ handler' = IF reason' = "cancelled" THEN "skipped" ELSE handler
  /\ UNCHANGED <<vars, sessionVars, legVars, verdict, received, eof,
                 produced>>

\* terminate and the server leg finish the two connections in this order.
SettleLeg(x, o) ==
  /\ x = ClientLeg => outcome[ServerLeg] # "none"
  /\ Session!Settle(x, o)
  /\ UNCHANGED <<vars, expiry, reason, legVars, handlerVars>>

Settle ==
  \E x \in Posts :
    \/ reason # "none" /\ SettleLeg(x, reason)
    \/ handler = "returned" /\ SettleLeg(x, verdict)

\* signalDone.
Release ==
  /\ Session!Release
  /\ UNCHANGED <<vars, expiry, reason, legVars, handlerVars>>

-----------------------------------------------------------------------------
(* The client leg's POST: consumeStreamHeaders and the response.           *)

\* consumeStreamHeaders takes a frame. HEADERS are what it waits for, a
\* MESSAGE it keeps in requestBody, HALF_CLOSE sets recvClosed. The response
\* headers are flushed next, unless TRAILERS come before them.
LegHeaders ==
  /\ leg = "headers" /\ Untaken # <<>>
  /\ taken' = taken + 1
  /\ stashed' = (Head(Untaken) = "MESSAGE")
  /\ leg' = "awaitDone"
  /\ UNCHANGED <<vars, sessionVars, expiry, reason, handlerVars>>

\* The context is done, or the handler has emptied the channel.
LegHeadersFail ==
  /\ leg = "headers"
  /\ Drained \/ LegContextDone
  /\ leg' = "failed"
  /\ Terminate("badHeaders")
  /\ UNCHANGED <<vars, sessionVars, taken, stashed, handlerVars>>

-----------------------------------------------------------------------------
(* The handler.                                                            *)

HandlerStarts ==
  /\ handler = "none" /\ joined # NoLeg
  /\ handler' = "running"
  /\ UNCHANGED <<vars, sessionVars, expiry, reason, legVars, verdict,
                 received, eof, produced>>

\* RecvMsg looks for a request that consumeStreamHeaders has kept...
HandlerReceives ==
  /\ handler = "running" /\ ~eof
  /\ IF stashed
     THEN received' = received + 1 /\ UNCHANGED handler
     ELSE handler' = "receiving" /\ UNCHANGED received
  /\ stashed' = FALSE
  /\ UNCHANGED <<vars, sessionVars, expiry, reason, leg, taken,
                 verdict, eof, produced>>

\* ... and then waits for a frame: HEADERS send it back to the start.
HandlerTakes ==
  /\ handler = "receiving" /\ Untaken # <<>>
  /\ taken' = taken + 1
  /\ handler' = "running"
  /\ received' = IF Head(Untaken) = "MESSAGE" THEN received + 1 ELSE received
  /\ eof' = (Head(Untaken) = "HALF_CLOSE")
  /\ UNCHANGED <<vars, sessionVars, expiry, reason, leg, stashed,
                 verdict, produced>>

\* RecvMsg fails, with io.EOF if the channel is closed and empty.
HandlerReceivesNothing ==
  /\ handler = "receiving"
  /\ \/ Drained /\ eof' = TRUE
     \/ LegContextDone /\ UNCHANGED eof
  /\ handler' = "running"
  /\ UNCHANGED <<vars, sessionVars, expiry, reason, legVars, verdict,
                 received, produced>>

\* SendMsg refuses on a connection that is finished.
HandlerSends ==
  /\ handler = "running" /\ outcome[ServerLeg] = "none"
  /\ produced < MaxMessages
  /\ produced' = produced + 1
  /\ UNCHANGED <<vars, sessionVars, expiry, reason, legVars, handler,
                 verdict, received, eof>>

HandlerReturns ==
  /\ handler = "running"
  /\ handler' = "returned"
  /\ verdict' \in {"ok", "handlerError"}
  /\ UNCHANGED <<vars, sessionVars, expiry, reason, legVars, received,
                 eof, produced>>

-----------------------------------------------------------------------------
(* What the client learns.                                                 *)

\* The headers of a response have been flushed, or come with its TRAILERS.
Answered(x) ==
  \/ outcome[x] # "none"
  \/ IF x = ServerLeg THEN Opened ELSE leg = "awaitDone"

Written(x) == IF x = ServerLeg THEN produced ELSE 0

\* Every message of the response, and then its TRAILERS.
DeliverChunk(x, n, code) ==
  /\ arrived[x] + n <= Written(x)
  /\ code # "none" =>
       /\ outcome[x] # "none" /\ arrived[x] + n = Written(x)
       /\ (code = "ok") <=> (outcome[x] = "ok")
  /\ Chunk(x, n, code)

\* What has been written arrives. The end of a response that has brought its
\* TRAILERS tells the client nothing.
Deliver ==
  /\ \E x \in Posts :
       \/ Answered(x) /\ ResponseArrives(x, IF x = ServerLeg THEN "named" ELSE "bare")
       \/ \E n \in 0..2, code \in Outcomes \cup {"none"} : DeliverChunk(x, n, code)
  /\ UNCHANGED <<callVars, serverVars>>

\* At most one of the POSTs is lost.
NetworkFails ==
  /\ \A x \in Posts : failure[x] # "http"
  /\ \E x \in Posts : ConnectionFails(x)
  /\ UNCHANGED <<callVars, serverVars>>

-----------------------------------------------------------------------------
(* The specification.                                                      *)

ClientStep(A) == A /\ UNCHANGED serverVars

\* A goroutine of a session that has been released can no longer be noticed
\* by the client, and is not followed any further.
Serve ==
  \/ RefuseLeg
  \/ /\ ~released
     /\ \/ OpenSession
        \/ TimerFires
        \/ JoinLeg
        \/ TerminateSession
        \/ Settle
        \/ Release
        \/ LegHeaders
        \/ LegHeadersFail
        \/ HandlerStarts
        \/ HandlerTakes
        \/ HandlerReceivesNothing

Handle == ~released /\ (HandlerReceives \/ HandlerSends \/ HandlerReturns)

\* The client's timer is cleared before it can go off (see JoinedInTime).
CallNext ==
  \/ ClientStep(Generate)
  \/ ClientStep(Task)
  \/ ClientStep(Input)
  \/ ClientStep(ConsumerPulls)
  \/ ClientStep(ConsumerStops)
  \/ Serve
  \/ Handle
  \/ Deliver
  \/ NetworkFails
  \/ main = "ended" /\ UNCHANGED allVars

CallSpec == CallInit /\ [][CallNext]_allVars

\* RecvMsg can do nothing but fail any more.
NothingToReceive == eof \/ LegContextDone

\* Goroutines that can run do, the timer goes off, the handler returns once
\* there is nothing for it to receive, and a network that does not fail
\* delivers. Of the input nothing is assumed.
FairCallSpec ==
  /\ CallSpec
  /\ WF_allVars(ClientStep(Generate))
  /\ WF_allVars(ClientStep(Task))
  /\ WF_allVars(ClientStep(ConsumerPulls \/ ConsumerStops))
  /\ WF_allVars(Serve)
  /\ SF_allVars(~released /\ NothingToReceive /\ HandlerReturns)
  /\ WF_allVars(Deliver)

-----------------------------------------------------------------------------
(* Properties.                                                             *)

\* Every variable keeps its type; in particular, no goroutine takes a frame
\* that was not sent, and the handler is given no more than was sent.
CallTypeOK ==
  /\ TypeOK
  /\ joined \in {ClientLeg, NoLeg}
  /\ outcome \in [Posts -> Session!Outcomes]
  /\ released \in BOOLEAN
  /\ expiry \in {"unset", "armed", "stopped", "fired"}
  /\ reason \in {"none", "expired", "cancelled", "closed", "badHeaders"}
  /\ leg \in {"none", "refused", "headers", "awaitDone", "failed"}
  /\ taken \in 0..Len(sent[ClientLeg])
  /\ stashed \in BOOLEAN
  /\ handler \in {"none", "skipped", "running", "receiving", "returned"}
  /\ verdict \in {"none", "ok", "handlerError"}
  /\ received \in 0..Sent
  /\ eof \in BOOLEAN
  /\ produced \in 0..MaxMessages

\* When the client's iteration completes normally, the two ends agree that
\* the call went well: the handler returned without an error, the session
\* gave both legs OK, and the consumer has every message the handler sent.
SuccessIsAgreed ==
  result = "returned" =>
    /\ verdict = "ok"
    /\ \A x \in Posts : outcome[x] = "ok"
    /\ Len(yielded) = produced

\* However the client's call ended (an error, a consumer that left, an input
\* that threw), the session it had opened is released on the server.
SessionReleased ==
  (main = "ended" /\ Opened) ~> released

\* A session with two OK outcomes is a call that returns, provided that the
\* input ends: unless the network failed, the consumer left or the input
\* threw.
OkIsDelivered ==
  WF_allVars(ClientStep(Input)) =>
    ((\A x \in Posts : outcome[x] = "ok")
       ~> (result \in {"returned", "stopped"} \/ task = "rejected"
            \/ \E x \in Posts : failure[x] = "http"))

-----------------------------------------------------------------------------
(* What the code says of itself and does not do.                           *)

\* A handler that has been told the end of the requests has been given all of
\* them: the handlers of the example take io.EOF for that, and
\* consumeStreamHeaders keeps the MESSAGE it takes for RecvMsg to find.
EveryRequestReceived == result = "returned" /\ eof => received = Sent

=============================================================================
