------------------------------- MODULE RpcConn -------------------------------
(***************************************************************************)
(* One rpcConn of the Go server (rpc.go) with the goroutines that share    *)
(* it: the readLoop that turns the request body into frames, the consumers *)
(* that take them from the inbound channel, and the handler that answers.  *)
(* serveUnary and serveStream (grottoserver.go) are the handler's side of  *)
(* the first three kinds of call; for a bidi call the connection is one of *)
(* the two legs of BidiSession.                                            *)
(*                                                                         *)
(* Messages are numbered in the order in which the client sends them; the  *)
(* frames the server writes are reduced to their types.                    *)
(***************************************************************************)
EXTENDS Integers, Sequences

CONSTANTS
  Kinds,        \* the kinds of call to look at
  Capacity,     \* of the inbound channel: 16 in the code
  MaxMessages,  \* bound on the messages the client sends
  MaxReplies    \* bound on the messages and headers the handler sends

AllKinds ==
  {"unary", "serverStream", "clientStream", "bidiServer", "bidiClient"}

ASSUME KindsAssumption == Kinds \subseteq AllKinds
ASSUME BoundsAssumption ==
  Capacity \in Nat \ {0} /\ MaxMessages \in Nat /\ MaxReplies \in Nat

VARIABLES
  kind,       \* the kind of this call; it never changes
  peer,       \* what the client has done with the request body
  sent,       \* number of MESSAGE frames read from the body
  announced,  \* a HEADERS frame has been read from the body
  reader,     \* where readLoop is
  pending,    \* the frame readLoop is about to push
  inbound,    \* the channel inbound
  closed,     \* close(inbound) has happened
  ctxDone,    \* rpcConn.ctx is done
  pc,         \* [Consumers -> where the consumer is]
  op,         \* what the handler's goroutine was called to do
  taken,      \* [Consumers -> the frame readFrame returned]
  body,       \* requestBody, or 0 when requestReceived is false
  recvClosed, \* recvClosed
  delivered,  \* the messages RecvMsg, or the request decoder, handed out
  eof,        \* the handler's RecvMsg returned io.EOF
  raced,      \* RecvMsg turned to the channel before the leg had its HEADERS
  result,     \* what the handler's goroutine finishes the call with
  status,     \* finished, with the code of the TRAILERS
  out,        \* the frames written to the response
  broken      \* the response can no longer be written

peerVars  == <<kind, peer, sent, announced>>
readVars  == <<reader, pending>>
chanVars  == <<inbound, closed>>
recvVars  == <<taken, body, recvClosed, delivered, eof, raced>>
sendVars  == <<status, out, broken>>
vars == <<peerVars, readVars, chanVars, ctxDone, pc, op, recvVars, result,
          sendVars>>

\* "leg" is serveBidiClientLeg, which reads the HEADERS of its own POST
\* while the handler, in the server leg's goroutine, already receives.
Consumers == {"handler", "leg"}

NoFrame == [typ |-> "none", msg |-> 0]
Frame(typ) == [typ |-> typ, msg |-> 0]
Message(n) == [typ |-> "MESSAGE", msg |-> n]

-----------------------------------------------------------------------------
(* The request body and readLoop.                                          *)

\* The client's next frame: HEADERS that parse or do not, a MESSAGE...
ReadFrame(typ) ==
  /\ reader = "reading"
  /\ IF typ = "MESSAGE" THEN sent < MaxMessages ELSE ~announced
  /\ pending' = IF typ = "MESSAGE" THEN Message(sent + 1) ELSE Frame(typ)
  /\ sent' = IF typ = "MESSAGE" THEN sent + 1 ELSE sent
  /\ announced' = (announced \/ typ # "MESSAGE")
  /\ reader' = "pushing"
  /\ UNCHANGED <<kind, peer, chanVars, ctxDone, pc, op, recvVars, result,
                 sendVars>>

\* ... HALF_CLOSE, or the end of the body, which counts as one; or CANCEL.
ReadLast(typ, act) ==
  /\ reader = "reading"
  /\ peer' = IF peer = "sending" THEN act ELSE peer
  /\ pending' = Frame(typ)
  /\ reader' = "pushing"
  /\ UNCHANGED <<kind, sent, announced, chanVars, ctxDone, pc, op, recvVars,
                 result, sendVars>>

ReadHalfClose == ReadLast("HALF_CLOSE", "halfClosed")
ReadCancel    == ReadLast("CANCEL", "cancelled")

\* Faulty: a body that cannot be read is taken for one that has ended.
ReadErrorAsEnd ==
  /\ reader = "reading"
  /\ peer' = IF peer = "sending" THEN "broken" ELSE peer
  /\ pending' = Frame("HALF_CLOSE")
  /\ reader' = "pushing"
  /\ UNCHANGED <<kind, sent, announced, chanVars, ctxDone, pc, op, recvVars,
                 result, sendVars>>

\* The body cannot be read, or does not parse: nothing is pushed. net/http
\* closes the body when ServeHTTP has returned.
ReadError ==
  /\ reader = "reading"
  /\ peer' = IF peer = "sending" THEN "broken" ELSE peer
  /\ ctxDone' = TRUE
  /\ reader' = "terminating"
  /\ UNCHANGED <<kind, sent, announced, pending, chanVars, pc, op, recvVars,
                 result, sendVars>>

\* net/http ends the context of a request whose connection is lost. What has
\* arrived of the body may still be read.
RequestEnds ==
  /\ ~ctxDone
  /\ ctxDone' = TRUE
  /\ peer' = "lost"
  /\ UNCHANGED <<kind, sent, announced, readVars, chanVars, pc, op, recvVars,
                 result, sendVars>>

\* Faulty: readLoop reads on after HALF_CLOSE.
AfterAnyPush ==
  /\ reader' = IF pending.typ = "CANCEL" THEN "cancelling" ELSE "reading"
  /\ pending' = NoFrame

\* What readLoop does once pushInbound has returned.
AfterPush ==
  /\ reader' = IF pending.typ = "HALF_CLOSE" THEN "closing"
               ELSE IF pending.typ = "CANCEL" THEN "cancelling" ELSE "reading"
  /\ pending' = NoFrame

\* Faulty: the channel grows.
PushUnbounded ==
  /\ reader = "pushing"
  /\ inbound' = Append(inbound, pending)
  /\ AfterPush
  /\ UNCHANGED <<peerVars, closed, ctxDone, pc, op, recvVars, result, sendVars>>

\* pushInbound: the select takes either branch that is ready.
PushInbound ==
  /\ reader = "pushing"
  /\ Len(inbound) < Capacity
  /\ inbound' = Append(inbound, pending)
  /\ AfterPush
  /\ UNCHANGED <<peerVars, closed, ctxDone, pc, op, recvVars, result, sendVars>>

\* Faulty: a frame is dropped when the channel is full.
PushOrDrop ==
  /\ reader = "pushing"
  /\ ctxDone \/ Len(inbound) = Capacity
  /\ AfterPush
  /\ UNCHANGED <<peerVars, chanVars, ctxDone, pc, op, recvVars, result,
                 sendVars>>

\* Faulty: pushInbound does not look at the context.
PushInsists == reader = "pushing" /\ FALSE /\ UNCHANGED vars

PushGivesUp ==
  /\ reader = "pushing"
  /\ ctxDone
  /\ AfterPush
  /\ UNCHANGED <<peerVars, chanVars, ctxDone, pc, op, recvVars, result,
                 sendVars>>

CancelContext ==
  /\ reader = "cancelling"
  /\ ctxDone' = TRUE
  /\ reader' = "terminating"
  /\ UNCHANGED <<peerVars, pending, chanVars, pc, op, recvVars, result,
                 sendVars>>

\* Faulty: the channel is left open.
LeaveInboundOpen ==
  /\ reader = "closing"
  /\ reader' = "exited"
  /\ UNCHANGED <<peerVars, pending, chanVars, ctxDone, pc, op, recvVars, result,
                 sendVars>>

CloseInbound ==
  /\ reader = "closing"
  /\ closed' = TRUE
  /\ reader' = "exited"
  /\ UNCHANGED <<peerVars, pending, inbound, ctxDone, pc, op, recvVars, result,
                 sendVars>>

-----------------------------------------------------------------------------
(* finishOK, finishError and SendMsg: critical sections of c.mu.           *)

\* Faulty: finished is not tested.
FinishAgain(code) ==
  /\ status' = code
  /\ out' = IF broken THEN out ELSE Append(out, "TRAILERS")
  /\ ctxDone' = TRUE

\* finishLocked; a write that fails leaves the client without TRAILERS.
FinishWith(code) ==
  IF status # "none"
  THEN UNCHANGED <<status, out, ctxDone>>
  ELSE /\ status' = code
       /\ out' = IF broken THEN out ELSE Append(out, "TRAILERS")
       /\ ctxDone' = TRUE

\* The deferred invokeTerminate: session.terminate finishes the connection,
\* if the session has set its hook by now.
InvokeTerminate ==
  /\ reader = "terminating"
  /\ \/ /\ kind \in {"bidiServer", "bidiClient"}
        /\ FinishWith("terminated")
     \/ UNCHANGED <<status, out, ctxDone>>
  /\ reader' = "closing"
  /\ UNCHANGED <<peerVars, pending, chanVars, pc, op, recvVars, result, broken>>

\* session.terminate called for the other leg, or by the timer.
SessionTerminates ==
  /\ kind \in {"bidiServer", "bidiClient"}
  /\ status = "none"
  /\ FinishWith("terminated")
  /\ UNCHANGED <<peerVars, readVars, chanVars, pc, op, recvVars, result, broken>>

ResponseBreaks ==
  /\ ~broken
  /\ broken' = TRUE
  /\ UNCHANGED <<peerVars, readVars, chanVars, ctxDone, pc, op, recvVars,
                 result, status, out>>

HeadersSent == \E i \in DOMAIN out : out[i] = "HEADERS"

\* Faulty: SendMsg does not look at finished.
SendAnyway(ok) ==
  /\ ok
  /\ ~broken
  /\ out' = IF HeadersSent THEN Append(out, "MESSAGE")
                           ELSE out \o <<"HEADERS", "MESSAGE">>
  /\ UNCHANGED ctxDone

\* SendMsg(m), up to its error: HEADERS first if they are missing, then the
\* MESSAGE; ok is FALSE when it returns an error. A failed write of HEADERS
\* does not cancel the connection, a failed write of the MESSAGE does.
Send(ok) ==
  IF status # "none" \/ (broken /\ ~HeadersSent)
  THEN ~ok /\ UNCHANGED <<out, ctxDone>>
  ELSE IF broken
  THEN ~ok /\ ctxDone' = TRUE /\ UNCHANGED out
  ELSE /\ ok
       /\ out' = IF HeadersSent THEN Append(out, "MESSAGE")
                                ELSE out \o <<"HEADERS", "MESSAGE">>
       /\ UNCHANGED ctxDone

-----------------------------------------------------------------------------
(* readFrame and the four loops around it.  The handler's goroutine runs   *)
(* one of them at a time, op; the leg runs consumeStreamHeaders.           *)

Running(k) == IF k = "leg" THEN "streamHeaders" ELSE op

\* A loop returns: the handler's goroutine goes on to run the handler, or to
\* finish the call with the error. RecvMsg hands its error to the handler.
Return(k) == pc' = [pc EXCEPT ![k] = "running"] /\ UNCHANGED result

Fail(k, err) ==
  IF k = "handler" /\ op # "recv"
  THEN /\ pc' = [pc EXCEPT ![k] = "finish"]
       /\ result' = err
  ELSE /\ pc' = [pc EXCEPT ![k] = IF k = "leg" THEN "failed" ELSE "running"]
       /\ UNCHANGED result

Deliver(m) == delivered' = Append(delivered, m)

\* Faulty: RecvMsg leaves requestBody and requestReceived as they are.
CheckKeepingBody(k) ==
  /\ pc[k] = "check"
  /\ IF Running(k) = "recv" /\ body # 0
     THEN Deliver(body) /\ Return(k)
     ELSE /\ pc' = [pc EXCEPT ![k] = IF body # 0 THEN "running" ELSE "take"]
          /\ UNCHANGED <<result, delivered>>
  /\ UNCHANGED <<peerVars, readVars, chanVars, ctxDone, op, taken, body,
                 recvClosed, eof, raced, sendVars>>

\* The test at the head of the loop, under c.mu.
Found(k) == IF Running(k) = "streamHeaders" THEN recvClosed ELSE body # 0

CheckReceived(k) ==
  /\ pc[k] = "check"
  /\ \/ /\ Found(k) /\ Running(k) = "recv"
        /\ Deliver(body)
        /\ body' = 0
        /\ Return(k)
     \/ /\ Found(k) /\ Running(k) # "recv"
        /\ Return(k)
        /\ UNCHANGED <<delivered, body>>
     \/ /\ ~Found(k)
        /\ pc' = [pc EXCEPT ![k] = "take"]
        /\ UNCHANGED <<result, delivered, body>>
  /\ raced' = (raced \/ (kind = "bidiClient" /\ k = "handler"
                          /\ pc["leg"] \in {"check", "take", "process"}))
  /\ UNCHANGED <<peerVars, readVars, chanVars, ctxDone, op, taken, recvClosed,
                 eof, sendVars>>

\* readFrame: the select takes any branch that is ready. First, a frame.
TakeFrame(k) ==
  /\ pc[k] = "take"
  /\ inbound # <<>>
  /\ inbound' = Tail(inbound)
  /\ IF Head(inbound).typ = "CANCEL"
     THEN Fail(k, "cancelled") /\ UNCHANGED taken
     ELSE /\ taken' = [taken EXCEPT ![k] = Head(inbound)]
          /\ pc' = [pc EXCEPT ![k] = "process"]
          /\ UNCHANGED result
  /\ UNCHANGED <<peerVars, readVars, closed, ctxDone, op, body, recvClosed,
                 delivered, eof, raced, sendVars>>

\* Faulty: the end of the channel ends the loop without an error.
TakeEndSilently(k) ==
  /\ pc[k] = "take"
  /\ inbound = <<>> /\ closed
  /\ Return(k)
  /\ UNCHANGED <<peerVars, readVars, chanVars, ctxDone, op, recvVars, sendVars>>

\* The channel is closed and empty: io.EOF.
TakeEnd(k) ==
  /\ pc[k] = "take"
  /\ inbound = <<>> /\ closed
  /\ Fail(k, "EOF")
  /\ eof' = (eof \/ (k = "handler" /\ op = "recv"))
  /\ UNCHANGED <<peerVars, readVars, chanVars, ctxDone, op, taken, body,
                 recvClosed, delivered, raced, sendVars>>

TakeContextDone(k) ==
  /\ pc[k] = "take"
  /\ ctxDone
  /\ Fail(k, "contextDone")
  /\ UNCHANGED <<peerVars, readVars, chanVars, ctxDone, op, recvVars, sendVars>>

\* The switch on the frame's type, under c.mu.
Process(k) ==
  /\ pc[k] = "process"
  /\ taken' = [taken EXCEPT ![k] = NoFrame]
  /\ \/ /\ taken[k].typ = "BAD_HEADERS"
        /\ Fail(k, "badHeaders")
        /\ UNCHANGED <<body, recvClosed, delivered, eof>>
     \/ /\ taken[k].typ = "HEADERS"
        /\ IF Running(k) = "streamHeaders"
           THEN Return(k)
           ELSE pc' = [pc EXCEPT ![k] = "check"] /\ UNCHANGED result
        /\ UNCHANGED <<body, recvClosed, delivered, eof>>
     \/ /\ taken[k].typ = "MESSAGE"
        /\ Return(k)
        /\ IF Running(k) = "recv"
           THEN Deliver(taken[k].msg) /\ UNCHANGED body
           ELSE body' = taken[k].msg /\ UNCHANGED delivered
        /\ UNCHANGED <<recvClosed, eof>>
     \/ /\ taken[k].typ = "HALF_CLOSE" /\ Running(k) = "request"
        /\ pc' = [pc EXCEPT ![k] = "check"]
        /\ UNCHANGED <<result, body, recvClosed, delivered, eof>>
     \/ /\ taken[k].typ = "HALF_CLOSE" /\ Running(k) # "request"
        /\ Return(k)
        /\ recvClosed' = TRUE
        /\ eof' = (eof \/ Running(k) = "recv")
        /\ UNCHANGED <<body, delivered>>
  /\ UNCHANGED <<peerVars, readVars, chanVars, ctxDone, op, raced, sendVars>>

-----------------------------------------------------------------------------
(* The handler, and what serveUnary, serveStream and serveBidiServerLeg do *)
(* around it.                                                              *)

\* The request of a unary call is decoded from requestBody.
DecodeRequest ==
  /\ kind = "unary"
  /\ pc["handler"] = "running"
  /\ delivered = <<>>
  /\ Deliver(body)
  /\ UNCHANGED <<peerVars, readVars, chanVars, ctxDone, pc, op, taken, body,
                 recvClosed, eof, raced, result, sendVars>>

\* A handler that streams receives until it is told the end.
CallRecvMsg ==
  /\ kind \in {"serverStream", "clientStream", "bidiClient"}
  /\ pc["handler"] = "running"
  /\ ~eof
  /\ op' = "recv"
  /\ pc' = [pc EXCEPT !["handler"] = "check"]
  /\ UNCHANGED <<peerVars, readVars, chanVars, ctxDone, recvVars, result,
                 sendVars>>

\* The handler of a bidi call sends on the server leg.
CallSendMsg ==
  /\ kind \in {"serverStream", "clientStream", "bidiServer"}
  /\ pc["handler"] = "running"
  /\ Len(out) < MaxReplies
  /\ \E ok \in BOOLEAN : Send(ok)
  /\ UNCHANGED <<peerVars, readVars, chanVars, pc, op, recvVars, result, status,
                 broken>>

\* SendHeader tests sentHeader, and not finished.
CallSendHeader ==
  /\ kind \in {"serverStream", "clientStream", "bidiServer"}
  /\ pc["handler"] = "running"
  /\ ~HeadersSent /\ ~broken
  /\ out' = Append(out, "HEADERS")
  /\ UNCHANGED <<peerVars, readVars, chanVars, ctxDone, pc, op, recvVars,
                 result, status, broken>>

\* The reply of a unary handler is sent for it.
HandlerReturns(o) ==
  /\ pc["handler"] = "running"
  /\ pc' = [pc EXCEPT !["handler"] =
              IF kind = "unary" /\ o = "ok" THEN "reply" ELSE "finish"]
  /\ result' = o
  /\ UNCHANGED <<peerVars, readVars, chanVars, ctxDone, op, recvVars, sendVars>>

SendReply ==
  /\ pc["handler"] = "reply"
  /\ \E ok \in BOOLEAN :
       /\ Send(ok)
       /\ result' = IF ok THEN "ok" ELSE "sendFailed"
  /\ pc' = [pc EXCEPT !["handler"] = "finish"]
  /\ UNCHANGED <<peerVars, readVars, chanVars, op, recvVars, status, broken>>

FinishCall ==
  /\ pc["handler"] = "finish"
  /\ FinishWith(result)
  /\ pc' = [pc EXCEPT !["handler"] = "returned"]
  /\ UNCHANGED <<peerVars, readVars, chanVars, op, recvVars, result, broken>>

\* consumeStreamHeaders of the client leg failed: session.terminate.
LegFails ==
  /\ pc["leg"] = "failed"
  /\ FinishWith("legFailed")
  /\ pc' = [pc EXCEPT !["leg"] = "returned"]
  /\ UNCHANGED <<peerVars, readVars, chanVars, op, recvVars, result, broken>>

-----------------------------------------------------------------------------
(* The specification.                                                      *)

\* The loop that runs before the handler, if one does: a unary or server
\* streaming call needs its request, a streamed one its HEADERS. A client
\* leg is read by two goroutines, and the handler has started by then.
Init ==
  /\ kind \in Kinds
  /\ peer = "sending"
  /\ sent = 0
  /\ announced = FALSE
  /\ reader = "reading"
  /\ pending = NoFrame
  /\ inbound = <<>>
  /\ closed = FALSE
  /\ ctxDone = FALSE
  /\ pc = [handler |-> IF kind = "bidiClient" THEN "running" ELSE "check",
           leg |-> IF kind = "bidiClient" THEN "check" ELSE "returned"]
  /\ op = IF kind \in {"unary", "serverStream"} THEN "request"
          ELSE "streamHeaders"
  /\ taken = [k \in Consumers |-> NoFrame]
  /\ body = 0
  /\ recvClosed = FALSE
  /\ delivered = <<>>
  /\ eof = FALSE
  /\ raced = FALSE
  /\ result = "none"
  /\ status = "none"
  /\ out = <<>>
  /\ broken = FALSE

Push == PushInbound \/ PushGivesUp

Reader ==
  \/ Push
  \/ CancelContext
  \/ InvokeTerminate
  \/ CloseInbound

Environment ==
  \/ \E typ \in {"HEADERS", "BAD_HEADERS", "MESSAGE"} : ReadFrame(typ)
  \/ ReadHalfClose
  \/ ReadCancel
  \/ ReadError
  \/ RequestEnds
  \/ ResponseBreaks
  \/ SessionTerminates

Consume(k) ==
  \/ CheckReceived(k)
  \/ TakeFrame(k)
  \/ TakeEnd(k)
  \/ TakeContextDone(k)
  \/ Process(k)

Handler ==
  \/ DecodeRequest
  \/ CallRecvMsg
  \/ CallSendMsg
  \/ CallSendHeader
  \/ \E o \in {"ok", "handlerError"} : HandlerReturns(o)

AtRest ==
  /\ \A k \in Consumers : pc[k] \in {"returned", "running"}
  /\ pc["handler"] = "returned"
  /\ reader = "exited"

Next ==
  \/ Environment
  \/ Reader
  \/ \E k \in Consumers : Consume(k)
  \/ Handler
  \/ SendReply
  \/ FinishCall
  \/ LegFails
  \/ AtRest /\ UNCHANGED vars

Spec == Init /\ [][Next]_vars

\* Goroutines that can run do; the handler returns at last, unless it is
\* blocked in RecvMsg; and the body of an answered request is closed, which
\* readLoop sees as an error. The client owes nothing.
Fairness ==
  /\ WF_vars(Reader)
  /\ \A k \in Consumers : WF_vars(Consume(k))
  /\ WF_vars(SendReply \/ FinishCall)
  /\ WF_vars(LegFails)
  /\ SF_vars(\E o \in {"ok", "handlerError"} : HandlerReturns(o))
  /\ WF_vars(pc["handler"] = "returned" /\ ReadError)

FairSpec == Spec /\ Fairness

-----------------------------------------------------------------------------
(* Types.                                                                  *)

Frames ==
  [typ : {"none", "HEADERS", "BAD_HEADERS", "MESSAGE", "HALF_CLOSE", "CANCEL"},
   msg : 0..MaxMessages]

Codes ==
  {"none", "ok", "handlerError", "sendFailed", "cancelled", "EOF",
   "contextDone", "badHeaders", "terminated", "legFailed"}

\* Every variable keeps its type, and the channel its capacity.
TypeOK ==
  /\ kind \in Kinds
  /\ peer \in {"sending", "halfClosed", "cancelled", "broken", "lost"}
  /\ sent \in 0..MaxMessages
  /\ announced \in BOOLEAN
  /\ reader \in {"reading", "pushing", "cancelling", "terminating", "closing",
                 "exited"}
  /\ pending \in Frames
  /\ inbound \in Seq(Frames) /\ Len(inbound) <= Capacity
  /\ closed \in BOOLEAN
  /\ ctxDone \in BOOLEAN
  /\ pc \in [Consumers -> {"check", "take", "process", "running", "failed",
                           "reply", "finish", "returned"}]
  /\ op \in {"request", "streamHeaders", "recv"}
  /\ taken \in [Consumers -> Frames]
  /\ body \in 0..MaxMessages
  /\ recvClosed \in BOOLEAN
  /\ delivered \in Seq(1..MaxMessages)
  /\ eof \in BOOLEAN
  /\ raced \in BOOLEAN
  /\ result \in Codes
  /\ status \in Codes
  /\ out \in Seq({"HEADERS", "MESSAGE", "TRAILERS"})
  /\ broken \in BOOLEAN

-----------------------------------------------------------------------------
(* Safety.                                                                 *)

Increasing(s) == \A i, j \in DOMAIN s : i < j => s[i] < s[j]

\* The handler is handed no message twice, and the client's messages in the
\* order in which they were sent, whatever readFrame's and pushInbound's
\* selects choose. Only when its RecvMsg competed with the leg for the first
\* frames can messages change places.
InOrder ==
  /\ \A i, j \in DOMAIN delivered : i # j => delivered[i] # delivered[j]
  /\ ~raced => Increasing(delivered)

\* As long as the connection is not cancelled, and the handler's RecvMsg did
\* not compete with the leg for the first frames (raced), no message is lost
\* either: the handler has seen the first ones, without a gap. A handler that
\* goes on receiving from a cancelled connection may see one, since
\* pushInbound then drops frames.
NoGap ==
  ~raced /\ ~ctxDone => \A i \in DOMAIN delivered : delivered[i] = i

\* A handler that is told the end of the requests by a connection which is
\* not cancelled, and which it did not race with the leg for (raced), has been
\* handed every one of them, and the client did end. What becomes of a request
\* when they race is BidiCall's EveryRequestReceived.
EndIsComplete ==
  eof /\ ~ctxDone /\ ~raced =>
    peer = "halfClosed" /\ Len(delivered) = sent

\* HEADERS come first and only once, MESSAGEs come after them, and nothing
\* comes after the TRAILERS.
WellOrdered ==
  \A i \in DOMAIN out :
    /\ out[i] = "HEADERS" => i = 1
    /\ out[i] = "MESSAGE" => out[1] = "HEADERS"
    /\ out[i] = "TRAILERS" => i = Len(out)

\* SendHeader, which does not look at finished, wrote the HEADERS of a server
\* leg that terminate had already finished with TRAILERS.
LateHeaders == kind = "bidiServer" /\ out = <<"TRAILERS", "HEADERS">>

\* The response is HEADERS, MESSAGEs, TRAILERS, or the beginning of that, or
\* TRAILERS alone, whichever of the handler and terminate writes it. There is
\* one exception, LateHeaders, and nothing else is written then. The TRAILERS
\* are written once, exactly when the connection is finished, whoever finishes
\* it; and a unary call that went well has a MESSAGE.
ResponseWellFormed ==
  LET T == {i \in DOMAIN out : out[i] = "TRAILERS"} IN
  /\ \A i, j \in T : i = j
  /\ ~broken => (T # {} <=> status # "none")
  /\ WellOrdered \/ LateHeaders
  /\ kind = "unary" /\ status = "ok" =>
       "MESSAGE" \in {out[i] : i \in DOMAIN out}

\* A handler runs a unary or a server streaming call on a request only.
HandlerHasRequest ==
  kind \in {"unary", "serverStream"} /\ pc["handler"] \in {"running", "reply"} =>
    sent > 0 /\ (body # 0 \/ delivered # <<>>)

-----------------------------------------------------------------------------
(* Refinement.                                                             *)

Stream == INSTANCE MessageStream WITH got <- delivered,
                                      told <- eof,
                                      cut <- ctxDone,
                                      mixed <- raced

\* Whatever the loops do, it looks to the handler like a MessageStream: what
\* RecvMsg has handed out stays as it is, one message is added at a time, and
\* after io.EOF there is neither another message nor a client that sends one.
ImplementsStream == Stream!Spec

-----------------------------------------------------------------------------
(* What the code says of itself and does not do.                           *)

\* io.EOF tells the handler that the client has sent all its requests.
EofMeansHalfClose == eof => peer \in {"halfClosed", "lost"}

-----------------------------------------------------------------------------
(* Liveness.                                                               *)

\* A call whose client has ended it, or is gone, is finished.
CallEnds == peer # "sending" ~> status # "none"

\* The readLoop of a finished call ends, even with a frame that nobody takes.
ReaderEnds == status # "none" ~> reader = "exited"

=============================================================================
