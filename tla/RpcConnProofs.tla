---------------------------- MODULE RpcConnProofs ----------------------------
(***************************************************************************)
(* Theorems of RpcConn, for every kind of call, every capacity of the      *)
(* channel and any number of messages.  They rest on one inductive         *)
(* invariant, IInv: each message the client has sent is in one place, and  *)
(* the places (delivered, requestBody, taken, the channel, pending) hold   *)
(* them in the order in which they were sent.                              *)
(***************************************************************************)
EXTENDS RpcConn, SequenceTheorems, TLAPS

-----------------------------------------------------------------------------
(* The inductive invariant.                                                *)

\* In one of the receiving loops.
Active(k) == pc[k] \in {"check", "take", "process"}

\* The kinds of frame that a loop goes on to look at.
Processed == {"HEADERS", "BAD_HEADERS", "MESSAGE", "HALF_CLOSE"}

\* Which loops run in which kind of call.
Loops ==
  /\ kind # "bidiClient" => pc["leg"] = "returned" /\ ~raced
  /\ kind = "bidiClient" =>
       op # "request" /\ (op # "recv" => ~Active("handler"))
  /\ kind = "unary" => op = "request"
  /\ kind = "serverStream" => op # "streamHeaders"
  /\ kind = "unary" /\ delivered # <<>> => ~Active("handler")
  /\ pc["leg"] \notin {"reply", "finish"} /\ pc["handler"] # "failed"
  /\ pc["handler"] = "reply" => kind = "unary"
  /\ pc["handler"] = "finish" => result # "none"

\* MESSAGEs are numbered, and none is ahead of the client.
Proper(f) == (f.typ = "MESSAGE" <=> f.msg # 0) /\ f.msg <= sent

\* Where there is a frame, and of what kind.
FramesProper ==
  /\ Proper(pending)
  /\ reader = "pushing" <=> pending.typ # "none"
  /\ \A i \in DOMAIN inbound : Proper(inbound[i]) /\ inbound[i].typ # "none"
  /\ \A k \in Consumers :
       /\ Proper(taken[k])
       /\ IF pc[k] = "process" THEN taken[k].typ \in Processed
                               ELSE taken[k] = NoFrame

\* HALF_CLOSE is the last frame, and the channel is closed after it.
Ended == reader \in {"closing", "exited"}

LastFrame ==
  /\ reader = "terminating" => ctxDone
  /\ closed => reader = "exited"
  /\ \A i \in DOMAIN inbound :
       inbound[i].typ = "HALF_CLOSE" => i = Len(inbound) /\ Ended
  /\ \A k \in Consumers :
       taken[k].typ = "HALF_CLOSE" => inbound = <<>> /\ Ended
  /\ ~ctxDone =>
       /\ Ended => peer = "halfClosed"
       /\ pending.typ = "HALF_CLOSE" => peer = "halfClosed"
       /\ reader = "reading" => peer = "sending"
       /\ reader = "pushing" /\ pending.typ \notin {"HALF_CLOSE", "CANCEL"} =>
            peer = "sending"

\* The messages that have left the channel.
Gone(n) ==
  \/ n \in {delivered[i] : i \in DOMAIN delivered}
  \/ n # 0 /\ n \in {body, taken["handler"].msg, taken["leg"].msg}

\* Those in the channel come after them, in their order, and before the one
\* that is being pushed.
ChannelOrder ==
  /\ \A n \in 1..MaxMessages : Gone(n) =>
       /\ n <= sent
       /\ \A i \in DOMAIN inbound : inbound[i].msg # 0 => n < inbound[i].msg
       /\ pending.msg # 0 => n < pending.msg
  /\ \A i, j \in DOMAIN inbound :
       i < j /\ inbound[i].msg # 0 /\ inbound[j].msg # 0 =>
         inbound[i].msg < inbound[j].msg
  /\ \A i \in DOMAIN inbound :
       inbound[i].msg # 0 /\ pending.msg # 0 => inbound[i].msg < pending.msg

\* No message is in two places; a unary call decodes requestBody, which stays
\* there.
Once ==
  /\ \A i, j \in DOMAIN delivered : i # j => delivered[i] # delivered[j]
  /\ kind = "unary" => Len(delivered) <= 1
  /\ kind # "unary" =>
       \A i \in DOMAIN delivered :
         /\ delivered[i] # body
         /\ \A k \in Consumers : delivered[i] # taken[k].msg
  /\ \A k \in Consumers : body # 0 => body # taken[k].msg
  /\ taken["handler"].msg # 0 => taken["handler"].msg # taken["leg"].msg

\* The two readers do not meet unless they race; a message that waits in
\* requestBody keeps the handler away from the channel.
Alone ==
  /\ Active("leg") =>
       pc["handler"] \notin {"take", "process"} /\ delivered = <<>> /\ body = 0
  /\ body # 0 => pc["handler"] \notin {"take", "process"}
  /\ op # "recv" /\ Active("handler") => body = 0

\* What has been handed out comes before what has been taken.
Sorted ==
  /\ Increasing(delivered)
  /\ kind # "unary" =>
       \A i \in DOMAIN delivered :
         /\ body # 0 => delivered[i] < body
         /\ \A k \in Consumers :
              taken[k].msg # 0 => delivered[i] < taken[k].msg

\* Every message that the client has sent is somewhere, and the next one is
\* the next one.
Somewhere(n) ==
  \/ n <= Len(delivered)
  \/ n \in {body, taken["handler"].msg, taken["leg"].msg, pending.msg}
  \/ \E i \in DOMAIN inbound : n = inbound[i].msg

Complete ==
  /\ \A i \in DOMAIN delivered : delivered[i] = i
  /\ body # 0 /\ (kind = "unary" => delivered = <<>>) =>
       body = Len(delivered) + 1
  /\ \A k \in Consumers :
       taken[k].msg # 0 => taken[k].msg = Len(delivered) + 1
  /\ \A n \in 1..sent : Somewhere(n)
  /\ eof => Len(delivered) = sent /\ Ended

\* io.EOF is the last thing the handler receives.
Eof == eof => kind # "unary" /\ ~Active("handler")

\* The handler is told the end only when readLoop reads no more.
EndSeen == eof => Ended

\* Who has been given a request.
Requested ==
  /\ kind \in {"unary", "serverStream"} =>
       (op = "recv" \/ pc["handler"] \in {"running", "reply"} =>
          body # 0 \/ delivered # <<>>)

\* The shape of the response.
Response ==
  /\ \A i, j \in DOMAIN out :
       out[i] = "TRAILERS" /\ out[j] = "TRAILERS" => i = j
  /\ \A i \in DOMAIN out : out[i] = "TRAILERS" => status # "none"
  /\ ~broken /\ status # "none" => \E i \in DOMAIN out : out[i] = "TRAILERS"
  /\ kind = "bidiClient" => \A i \in DOMAIN out : out[i] = "TRAILERS"
  /\ WellOrdered \/ LateHeaders

\* Nobody but the handler finishes a call that is not bidi, and a unary one
\* with its MESSAGE.
Answered ==
  /\ kind \notin {"bidiServer", "bidiClient"} /\ status # "none" =>
       pc["handler"] = "returned"
  /\ /\ kind = "unary"
     /\ status = "ok" \/ (pc["handler"] = "finish" /\ result = "ok")
     => \E i \in DOMAIN out : out[i] = "MESSAGE"

Safe ==
  /\ Loops
  /\ FramesProper
  /\ LastFrame
  /\ ChannelOrder
  /\ Once
  /\ ~raced => Alone /\ Sorted
  /\ ~raced /\ ~ctxDone => Complete
  /\ Eof
  /\ EndSeen
  /\ Requested
  /\ Response
  /\ Answered

IInv == TypeOK /\ Safe

-----------------------------------------------------------------------------
(* The steps of the loops, one case for each line of the code.             *)

\* CheckReceived finds what it waits for, or goes on to readFrame.
CheckEffect(k) ==
  /\ pc[k] = "check"
  /\ \/ /\ k = "handler" /\ op = "recv" /\ body # 0
        /\ delivered' = Append(delivered, body) /\ body' = 0
        /\ pc' = [pc EXCEPT ![k] = "running"]
     \/ /\ k = "handler" => op # "recv"
        /\ pc' = [pc EXCEPT ![k] = "running"]
        /\ k = "handler" /\ op = "request" => body # 0
        /\ UNCHANGED <<body, delivered>>
     \/ /\ k = "handler" => body = 0 \/ op = "streamHeaders"
        /\ pc' = [pc EXCEPT ![k] = "take"]
        /\ UNCHANGED <<body, delivered>>
  /\ raced' = (raced \/ (kind = "bidiClient" /\ k = "handler"
                           /\ Active("leg")))
  /\ UNCHANGED <<peerVars, readVars, chanVars, ctxDone, op, taken,
                 recvClosed, eof, result, sendVars>>

\* What is found depends on the loop.
LEMMA CheckCases ==
  ASSUME TypeOK, NEW k \in Consumers, CheckReceived(k)
  PROVE  CheckEffect(k)
<1>1. /\ pc[k] = "check" /\ op \in {"request", "streamHeaders", "recv"}
      /\ raced' = (raced \/ (kind = "bidiClient" /\ k = "handler"
                               /\ Active("leg")))
      /\ UNCHANGED <<peerVars, readVars, chanVars, ctxDone, op, taken,
                     recvClosed, eof, sendVars>>
  BY Zenon DEF CheckReceived, Active, TypeOK
<1>2. CASE Found(k) /\ Running(k) = "recv" /\ Deliver(body) /\ body' = 0
             /\ Return(k)
  BY <1>1, <1>2 DEF CheckEffect, Found, Running, Deliver, Return, Consumers
<1>3. CASE Found(k) /\ Running(k) # "recv" /\ Return(k)
             /\ UNCHANGED <<delivered, body>>
  BY <1>1, <1>3 DEF CheckEffect, Found, Running, Return
<1>4. CASE ~Found(k) /\ pc' = [pc EXCEPT ![k] = "take"]
             /\ UNCHANGED <<result, delivered, body>>
  BY <1>1, <1>4 DEF CheckEffect, Found, Running
<1> QED
  BY <1>2, <1>3, <1>4 DEF CheckReceived

\* The loop ends, and with it the call, the leg or only RecvMsg.
FailEffect(k, err) ==
  /\ \/ /\ k = "handler" /\ op # "recv"
        /\ pc' = [pc EXCEPT ![k] = "finish"] /\ result' = err
     \/ /\ k = "handler" /\ op = "recv"
        /\ pc' = [pc EXCEPT ![k] = "running"] /\ UNCHANGED result
     \/ /\ k = "leg"
        /\ pc' = [pc EXCEPT ![k] = "failed"] /\ UNCHANGED result

\* A loop that fails.
LEMMA FailCases ==
  ASSUME TypeOK, NEW k \in Consumers, NEW err \in Codes, Fail(k, err)
  PROVE  FailEffect(k, err)
BY DEF FailEffect, Fail, Consumers

\* Process by the kind of the frame.
ProcessEffect(k) ==
  /\ pc[k] = "process"
  /\ taken' = [taken EXCEPT ![k] = NoFrame]
  /\ \/ /\ taken[k].typ = "BAD_HEADERS"
        /\ FailEffect(k, "badHeaders")
        /\ UNCHANGED <<body, recvClosed, delivered, eof>>
     \/ /\ taken[k].typ = "HEADERS"
        /\ \/ k = "handler" /\ op \in {"request", "recv"}
              /\ pc' = [pc EXCEPT ![k] = "check"]
           \/ (k = "handler" => op = "streamHeaders")
              /\ pc' = [pc EXCEPT ![k] = "running"]
        /\ UNCHANGED <<result, body, recvClosed, delivered, eof>>
     \/ /\ taken[k].typ = "MESSAGE"
        /\ pc' = [pc EXCEPT ![k] = "running"]
        /\ \/ /\ k = "handler" /\ op = "recv"
              /\ delivered' = Append(delivered, taken[k].msg)
              /\ UNCHANGED body
           \/ /\ k = "handler" => op # "recv"
              /\ body' = taken[k].msg /\ UNCHANGED delivered
        /\ UNCHANGED <<result, recvClosed, eof>>
     \/ /\ taken[k].typ = "HALF_CLOSE"
        /\ \/ /\ pc' = [pc EXCEPT ![k] = "check"]
              /\ k = "handler" /\ op = "request"
              /\ UNCHANGED <<recvClosed, eof>>
           \/ /\ pc' = [pc EXCEPT ![k] = "running"]
              /\ k = "handler" => op # "request"
              /\ recvClosed' = TRUE
              /\ eof' = (eof \/ (k = "handler" /\ op = "recv"))
        /\ UNCHANGED <<result, body, delivered>>
  /\ UNCHANGED <<peerVars, readVars, chanVars, ctxDone, op, raced,
                 sendVars>>

\* No kind of frame is forgotten.
LEMMA ProcessCases ==
  ASSUME TypeOK, FramesProper, NEW k \in Consumers, Process(k)
  PROVE  ProcessEffect(k)
<1>1. /\ pc[k] = "process" /\ taken[k].typ \in Processed
      /\ op \in {"request", "streamHeaders", "recv"}
  BY DEF Process, FramesProper, TypeOK
<1>2. CASE taken[k].typ = "BAD_HEADERS"
  BY <1>1, <1>2, FailCases DEF ProcessEffect, Process, Codes
<1>3. CASE taken[k].typ = "HEADERS"
  BY <1>1, <1>3 DEF ProcessEffect, Process, Return, Running, Consumers
<1>4. CASE taken[k].typ = "MESSAGE"
  BY <1>1, <1>4 DEF ProcessEffect, Process, Return, Running, Deliver, Consumers
<1>5. CASE taken[k].typ = "HALF_CLOSE"
  BY <1>1, <1>5 DEF ProcessEffect, Process, Return, Running, Consumers
<1> QED
  BY <1>1, <1>2, <1>3, <1>4, <1>5 DEF Processed

-----------------------------------------------------------------------------
(* Types.                                                                  *)

\* Frames.
LEMMA FrameTypes ==
  /\ NoFrame \in Frames
  /\ \A n \in 1..MaxMessages : Message(n) \in Frames
  /\ \A t \in {"HEADERS", "BAD_HEADERS", "HALF_CLOSE", "CANCEL"} :
       Frame(t) \in Frames
BY BoundsAssumption DEF NoFrame, Message, Frame, Frames

\* The cells of a sequence...
LEMMA SeqCells ==
  ASSUME NEW S, NEW s \in Seq(S)
  PROVE  /\ Len(s) \in Nat /\ DOMAIN s = 1..Len(s)
         /\ \A i \in DOMAIN s : s[i] \in S
BY ElementOfSeq, LenProperties

\* ... to which one is added...
LEMMA AppendCells ==
  ASSUME NEW S, NEW s \in Seq(S), NEW e \in S
  PROVE  /\ Append(s, e) \in Seq(S) /\ Append(s, e) # <<>>
         /\ Len(Append(s, e)) = Len(s) + 1
         /\ DOMAIN Append(s, e) = 1..(Len(s) + 1)
         /\ \A i \in DOMAIN s :
              i \in DOMAIN Append(s, e) /\ Append(s, e)[i] = s[i]
         /\ Append(s, e)[Len(s) + 1] = e
<1>1. /\ Append(s, e) \in Seq(S) /\ Append(s, e) # <<>>
      /\ Len(Append(s, e)) = Len(s) + 1
      /\ Append(s, e)[Len(s) + 1] = e
  BY AppendProperties
<1>2. \A i \in 1..Len(s) : Append(s, e)[i] = s[i]
  BY AppendProperties
<1>3. DOMAIN Append(s, e) = 1..(Len(s) + 1)
  BY <1>1, LenProperties, Zenon
<1>4. Len(s) \in Nat /\ DOMAIN s = 1..Len(s)
  BY LenProperties
<1>5. \A i \in DOMAIN s : i \in DOMAIN Append(s, e) /\ Append(s, e)[i] = s[i]
  BY <1>2, <1>3, <1>4
<1> QED
  BY <1>1, <1>3, <1>5

\* ... or from which the first is taken.
LEMMA TailCells ==
  ASSUME NEW S, NEW s \in Seq(S), s # <<>>
  PROVE  /\ Len(s) >= 1 /\ Head(s) = s[1] /\ 1 \in DOMAIN s /\ s[1] \in S
         /\ Tail(s) \in Seq(S)
         /\ Len(Tail(s)) = Len(s) - 1
         /\ DOMAIN Tail(s) = 1..(Len(s) - 1)
         /\ \A i \in DOMAIN Tail(s) :
              i + 1 \in DOMAIN s /\ Tail(s)[i] = s[i + 1]
<1>1. /\ Len(s) \in Nat \ {0} /\ DOMAIN s = 1..Len(s)
  BY LenProperties, EmptySeq
<1>2. /\ Tail(s) \in Seq(S)
      /\ Len(Tail(s)) = Len(s) - 1
      /\ Head(s) \in S
  BY HeadTailProperties
<1>3. \A i \in 1..Len(Tail(s)) : Tail(s)[i] = s[i + 1]
  BY HeadTailProperties
<1>4. 1 \in DOMAIN s /\ Head(s) = s[1]
  BY <1>1
<1>5. DOMAIN Tail(s) = 1..(Len(s) - 1)
  BY <1>2, LenProperties, Zenon
<1>6. \A i \in DOMAIN Tail(s) : i + 1 \in DOMAIN s /\ Tail(s)[i] = s[i + 1]
  BY <1>1, <1>2, <1>3, <1>5
<1> QED
  BY <1>1, <1>2, <1>4, <1>5, <1>6

\* What a consumer does to its own place.
Places == {"check", "take", "process", "running", "failed", "reply", "finish",
           "returned"}

OutTypes == {"HEADERS", "MESSAGE", "TRAILERS"}

\* The effects are of the right types.
LEMMA FailTypes ==
  ASSUME TypeOK, NEW k \in Consumers, NEW err \in Codes, Fail(k, err)
  PROVE  result' \in Codes /\ pc' \in [Consumers -> Places]
<1>1. FailEffect(k, err)
  BY FailCases
<1> QED
  BY <1>1 DEF FailEffect, TypeOK, Places

\* So is what finishLocked leaves...
LEMMA FinishTypes ==
  ASSUME TypeOK, NEW code \in Codes, FinishWith(code)
  PROVE  status' \in Codes /\ ctxDone' \in BOOLEAN /\ out' \in Seq(OutTypes)
<1>1. out \in Seq(OutTypes) /\ ctxDone \in BOOLEAN /\ status \in Codes
  BY DEF TypeOK, OutTypes
<1>2. Append(out, "TRAILERS") \in Seq(OutTypes)
  BY <1>1, AppendCells DEF OutTypes
<1> QED
  BY <1>1, <1>2 DEF FinishWith

\* ... and SendMsg.
LEMMA SendTypes ==
  ASSUME TypeOK, NEW ok \in BOOLEAN, Send(ok)
  PROVE  ctxDone' \in BOOLEAN /\ out' \in Seq(OutTypes)
<1>1. out \in Seq(OutTypes) /\ ctxDone \in BOOLEAN
  BY DEF TypeOK, OutTypes
<1>2. Append(out, "MESSAGE") \in Seq(OutTypes)
  BY <1>1, AppendCells DEF OutTypes
<1>3. out \o <<"HEADERS", "MESSAGE">> \in Seq(OutTypes)
  BY <1>1, ConcatProperties DEF OutTypes
<1> QED
  BY <1>1, <1>2, <1>3 DEF Send

\* A step keeps the types.
LEMMA TypeStep ==
  ASSUME IInv, [Next]_vars
  PROVE  TypeOK'
<1> USE BoundsAssumption, KindsAssumption
    DEF peerVars, readVars, chanVars, recvVars, sendVars
<1>1. TypeOK /\ Loops /\ FramesProper /\ Requested
  BY DEF IInv, Safe
<1>2. ASSUME NEW typ \in {"HEADERS", "BAD_HEADERS", "MESSAGE"}, ReadFrame(typ)
      PROVE  TypeOK'
  <2>1. pending' \in Frames /\ sent' \in 0..MaxMessages /\ announced' \in BOOLEAN
    BY <1>1, <1>2, FrameTypes DEF ReadFrame, TypeOK
  <2> QED
    BY <1>1, <1>2, <2>1 DEF ReadFrame, TypeOK
<1>3. CASE ReadHalfClose \/ ReadCancel
  BY <1>1, <1>3, FrameTypes DEF ReadHalfClose, ReadCancel, ReadLast, TypeOK
<1>4. CASE ReadError
  BY <1>1, <1>4 DEF ReadError, TypeOK
<1>5. CASE RequestEnds
  BY <1>1, <1>5 DEF RequestEnds, TypeOK
<1>6. CASE ResponseBreaks
  BY <1>1, <1>6 DEF ResponseBreaks, TypeOK
<1>7. CASE Push
  <2>1. pending' \in Frames /\ reader' \in {"closing", "cancelling", "reading"}
    BY <1>7, FrameTypes DEF Push, PushInbound, PushGivesUp, AfterPush
  <2>2. CASE PushInbound
    <3>1. inbound \in Seq(Frames) /\ pending \in Frames
      BY <1>1 DEF TypeOK
    <3>2. inbound' \in Seq(Frames) /\ Len(inbound') <= Capacity
      BY <2>2, <3>1, AppendCells, LenProperties DEF PushInbound
    <3> QED
      BY <1>1, <2>1, <2>2, <3>2 DEF PushInbound, TypeOK
  <2>3. CASE PushGivesUp
    BY <1>1, <2>1, <2>3 DEF PushGivesUp, TypeOK
  <2> QED
    BY <1>7, <2>2, <2>3 DEF Push
<1>8. CASE CancelContext
  BY <1>1, <1>8 DEF CancelContext, TypeOK
<1>9. CASE CloseInbound
  BY <1>1, <1>9 DEF CloseInbound, TypeOK
<1>10. CASE InvokeTerminate
  <2>1. status' \in Codes /\ ctxDone' \in BOOLEAN /\ out' \in Seq(OutTypes)
    BY <1>1, <1>10, FinishTypes DEF InvokeTerminate, Codes, TypeOK, OutTypes
  <2> QED
    BY <1>1, <1>10, <2>1 DEF InvokeTerminate, TypeOK, OutTypes
<1>11. CASE SessionTerminates
  <2>1. status' \in Codes /\ ctxDone' \in BOOLEAN /\ out' \in Seq(OutTypes)
    BY <1>1, <1>11, FinishTypes DEF SessionTerminates, Codes
  <2> QED
    BY <1>1, <1>11, <2>1 DEF SessionTerminates, TypeOK, OutTypes
<1>12. ASSUME NEW k \in Consumers, CheckReceived(k)
       PROVE  TypeOK'
  <2>1. CheckEffect(k)
    BY <1>1, <1>12, CheckCases
  <2>2. /\ delivered \in Seq(1..MaxMessages) /\ body \in 0..MaxMessages
        /\ body # 0 => body \in 1..MaxMessages
    BY <1>1 DEF TypeOK
  <2>3. delivered' \in Seq(1..MaxMessages) /\ body' \in 0..MaxMessages
    <3>1. body # 0 => Append(delivered, body) \in Seq(1..MaxMessages)
      BY <2>2, AppendCells
    <3>2. 0 \in 0..MaxMessages
      OBVIOUS
    <3> QED
      BY <2>1, <2>2, <3>1, <3>2 DEF CheckEffect
  <2>4. pc' \in [Consumers -> Places] /\ raced' \in BOOLEAN
    BY <1>1, <2>1 DEF CheckEffect, TypeOK, Places
  <2> QED
    BY <1>1, <2>1, <2>3, <2>4 DEF CheckEffect, TypeOK, Places
<1>13. ASSUME NEW k \in Consumers, TakeFrame(k)
       PROVE  TypeOK'
  <2>1. inbound \in Seq(Frames) /\ inbound # <<>> /\ Len(inbound) <= Capacity
    BY <1>1, <1>13 DEF TakeFrame, TypeOK
  <2>2. /\ inbound' \in Seq(Frames) /\ Len(inbound') <= Capacity
        /\ Head(inbound) \in Frames
    BY <1>13, <2>1, TailCells, LenProperties DEF TakeFrame
  <2>3. CASE Head(inbound).typ = "CANCEL"
    <3>1. result' \in Codes /\ pc' \in [Consumers -> Places]
      BY <1>1, <1>13, <2>3, FailTypes DEF TakeFrame, Codes
    <3> QED
      BY <1>1, <1>13, <2>2, <2>3, <3>1 DEF TakeFrame, TypeOK, Places
  <2>4. CASE Head(inbound).typ # "CANCEL"
    <3>1. taken' \in [Consumers -> Frames] /\ pc' \in [Consumers -> Places]
      BY <1>1, <1>13, <2>2, <2>4 DEF TakeFrame, TypeOK, Places
    <3>2. UNCHANGED result
      BY <1>13, <2>4 DEF TakeFrame
    <3> QED
      BY <1>1, <1>13, <2>2, <3>1, <3>2 DEF TakeFrame, TypeOK, Places
  <2> QED
    BY <2>3, <2>4
<1>14. ASSUME NEW k \in Consumers, TakeEnd(k)
       PROVE  TypeOK'
  <2>1. result' \in Codes /\ pc' \in [Consumers -> Places] /\ eof' \in BOOLEAN
    BY <1>1, <1>14, FailTypes DEF TakeEnd, Codes, TypeOK, Places
  <2> QED
    BY <1>1, <1>14, <2>1 DEF TakeEnd, TypeOK, Places
<1>15. ASSUME NEW k \in Consumers, TakeContextDone(k)
       PROVE  TypeOK'
  <2>1. result' \in Codes /\ pc' \in [Consumers -> Places]
    BY <1>1, <1>15, FailTypes DEF TakeContextDone, Codes
  <2> QED
    BY <1>1, <1>15, <2>1 DEF TakeContextDone, TypeOK, Places
<1>16. ASSUME NEW k \in Consumers, Process(k)
       PROVE  TypeOK'
  <2>1. ProcessEffect(k)
    BY <1>1, <1>16, ProcessCases
  <2>2. /\ delivered \in Seq(1..MaxMessages) /\ body \in 0..MaxMessages
        /\ taken[k].msg \in 0..MaxMessages
        /\ taken[k].typ = "MESSAGE" => taken[k].msg \in 1..MaxMessages
    BY <1>1 DEF TypeOK, Frames, FramesProper, Proper
  <2>3. body' \in 0..MaxMessages /\ delivered' \in Seq(1..MaxMessages)
    <3>1. taken[k].typ = "MESSAGE" =>
            Append(delivered, taken[k].msg) \in Seq(1..MaxMessages)
      BY <2>2, AppendCells
    <3> QED
      BY <2>1, <2>2, <3>1 DEF ProcessEffect
  <2>4. taken' \in [Consumers -> Frames]
    BY <1>1, <2>1, FrameTypes DEF ProcessEffect, TypeOK
  <2>5. recvClosed' \in BOOLEAN /\ eof' \in BOOLEAN
    BY <1>1, <2>1 DEF ProcessEffect, TypeOK
  <2>6. result' \in Codes /\ pc' \in [Consumers -> Places]
    BY <1>1, <2>1 DEF ProcessEffect, FailEffect, TypeOK, Places, Codes
  <2>7. UNCHANGED <<peerVars, readVars, chanVars, ctxDone, op, raced, sendVars>>
    BY <2>1 DEF ProcessEffect
  <2> QED
    BY <1>1, <2>3, <2>4, <2>5, <2>6, <2>7 DEF TypeOK, Places
<1>17. CASE DecodeRequest
  <2>1. body \in 1..MaxMessages /\ delivered \in Seq(1..MaxMessages)
    BY <1>1, <1>17 DEF DecodeRequest, Requested, TypeOK
  <2>2. delivered' \in Seq(1..MaxMessages)
    BY <1>17, <2>1, AppendCells DEF DecodeRequest, Deliver
  <2> QED
    BY <1>1, <1>17, <2>2 DEF DecodeRequest, TypeOK
<1>18. CASE CallRecvMsg
  BY <1>1, <1>18 DEF CallRecvMsg, TypeOK
<1>19. CASE CallSendMsg
  <2>1. ctxDone' \in BOOLEAN /\ out' \in Seq(OutTypes)
    BY <1>1, <1>19, SendTypes DEF CallSendMsg
  <2> QED
    BY <1>1, <1>19, <2>1 DEF CallSendMsg, TypeOK, OutTypes
<1>20. CASE CallSendHeader
  <2>1. out \in Seq(OutTypes)
    BY <1>1 DEF TypeOK, OutTypes
  <2>2. out' \in Seq(OutTypes)
    BY <1>20, <2>1, AppendCells DEF CallSendHeader, OutTypes
  <2> QED
    BY <1>1, <1>20, <2>2 DEF CallSendHeader, TypeOK, OutTypes
<1>21. ASSUME NEW o \in {"ok", "handlerError"}, HandlerReturns(o)
       PROVE  TypeOK'
  <2>1. pc' \in [Consumers -> Places] /\ result' \in Codes
    BY <1>1, <1>21 DEF HandlerReturns, TypeOK, Places, Codes
  <2> QED
    BY <1>1, <1>21, <2>1 DEF HandlerReturns, TypeOK, Places
<1>22. CASE SendReply
  <2>1. ctxDone' \in BOOLEAN /\ out' \in Seq(OutTypes) /\ result' \in Codes
    BY <1>1, <1>22, SendTypes DEF SendReply, Codes
  <2>2. pc' \in [Consumers -> Places]
    BY <1>1, <1>22 DEF SendReply, TypeOK, Places
  <2> QED
    BY <1>1, <1>22, <2>1, <2>2 DEF SendReply, TypeOK, OutTypes, Places
<1>23. CASE FinishCall
  <2>1. status' \in Codes /\ ctxDone' \in BOOLEAN /\ out' \in Seq(OutTypes)
    <3>1. result \in Codes
      BY <1>1 DEF TypeOK
    <3> QED
      BY <1>1, <1>23, <3>1, FinishTypes DEF FinishCall
  <2>2. pc' \in [Consumers -> Places]
    BY <1>1, <1>23 DEF FinishCall, TypeOK, Places
  <2> QED
    BY <1>1, <1>23, <2>1, <2>2 DEF FinishCall, TypeOK, OutTypes, Places
<1>24. CASE LegFails
  <2>1. status' \in Codes /\ ctxDone' \in BOOLEAN /\ out' \in Seq(OutTypes)
    BY <1>1, <1>24, FinishTypes DEF LegFails, Codes
  <2>2. pc' \in [Consumers -> Places]
    BY <1>1, <1>24 DEF LegFails, TypeOK, Places
  <2> QED
    BY <1>1, <1>24, <2>1, <2>2 DEF LegFails, TypeOK, OutTypes, Places
<1>25. CASE UNCHANGED vars
  BY <1>1, <1>25 DEF vars, TypeOK
<1> QED
  BY <1>2, <1>3, <1>4, <1>5, <1>6, <1>7, <1>8, <1>9, <1>10, <1>11, <1>12,
     <1>13, <1>14, <1>15, <1>16, <1>17, <1>18, <1>19, <1>20, <1>21, <1>22,
     <1>23, <1>24, <1>25
  DEF Next, Environment, Reader, Consume, Handler

-----------------------------------------------------------------------------
(* The steps that move frames and messages, and those that do not.         *)

msgVars == <<kind, sent, pending, inbound, taken, body, delivered, raced>>

Quiet ==
  /\ UNCHANGED msgVars
  /\ reader' = "pushing" <=> reader = "pushing"
  /\ \A k \in Consumers : pc'[k] = "process" <=> pc[k] = "process"

\* Every other step is one of the reader, of a loop, or the decoder's.
LEMMA StepCases ==
  ASSUME IInv, [Next]_vars
  PROVE  \/ \E typ \in {"HEADERS", "BAD_HEADERS", "MESSAGE"} : ReadFrame(typ)
         \/ ReadHalfClose \/ ReadCancel
         \/ PushInbound \/ PushGivesUp
         \/ \E k \in Consumers : CheckReceived(k) \/ TakeFrame(k) \/ Process(k)
         \/ DecodeRequest
         \/ Quiet
<1> USE DEF peerVars, readVars, chanVars, recvVars, sendVars, msgVars
<1>1. TypeOK
  BY DEF IInv
<1>2. pc \in [Consumers -> Places]
  BY <1>1 DEF TypeOK, Places
<1>3. CASE ReadError \/ RequestEnds \/ ResponseBreaks
  BY <1>3 DEF ReadError, RequestEnds, ResponseBreaks, Quiet
<1>4. CASE CancelContext \/ CloseInbound
  BY <1>4 DEF CancelContext, CloseInbound, Quiet
<1>5. CASE InvokeTerminate \/ SessionTerminates
  BY <1>5 DEF InvokeTerminate, SessionTerminates, Quiet
<1>6. ASSUME NEW k \in Consumers, TakeEnd(k) \/ TakeContextDone(k)
      PROVE  Quiet
  <2>1. \E err \in {"EOF", "contextDone"} : Fail(k, err)
    BY <1>6 DEF TakeEnd, TakeContextDone
  <2>2. \A j \in Consumers : pc'[j] = "process" <=> pc[j] = "process"
    BY <1>1, <1>2, <1>6, <2>1, FailCases
    DEF FailEffect, TakeEnd, TakeContextDone, Codes
  <2> QED
    BY <1>6, <2>2 DEF TakeEnd, TakeContextDone, Quiet
<1>7. CASE CallRecvMsg
  BY <1>2, <1>7 DEF CallRecvMsg, Quiet, Consumers
<1>8. CASE CallSendMsg \/ CallSendHeader
  BY <1>8 DEF CallSendMsg, CallSendHeader, Quiet
<1>9. ASSUME NEW o \in {"ok", "handlerError"}, HandlerReturns(o)
      PROVE  Quiet
  BY <1>2, <1>9 DEF HandlerReturns, Quiet, Consumers
<1>10. CASE SendReply
  BY <1>2, <1>10 DEF SendReply, Quiet, Consumers
<1>11. CASE FinishCall
  BY <1>2, <1>11 DEF FinishCall, Quiet, Consumers
<1>12. CASE LegFails
  BY <1>2, <1>12 DEF LegFails, Quiet, Consumers
<1>13. CASE UNCHANGED vars
  BY <1>13 DEF vars, Quiet
<1> QED
  BY <1>3, <1>4, <1>5, <1>6, <1>7, <1>8, <1>9, <1>10, <1>11, <1>12, <1>13
  DEF Next, Environment, Reader, Push, Consume, Handler

\* The types and the messages at the places of a frame.
LEMMA FrameFacts ==
  ASSUME IInv
  PROVE  /\ sent \in 0..MaxMessages /\ MaxMessages \in Nat
         /\ body \in 0..MaxMessages
         /\ inbound \in Seq(Frames) /\ delivered \in Seq(1..MaxMessages)
         /\ pending.msg \in 0..sent
         /\ \A k \in Consumers : taken[k].msg \in 0..sent
         /\ Len(inbound) \in Nat /\ DOMAIN inbound = 1..Len(inbound)
         /\ \A i \in DOMAIN inbound : inbound[i].msg \in 0..sent
         /\ Len(delivered) \in Nat /\ DOMAIN delivered = 1..Len(delivered)
         /\ \A i \in DOMAIN delivered : delivered[i] \in 1..MaxMessages
<1>1. TypeOK /\ FramesProper /\ MaxMessages \in Nat
  BY BoundsAssumption DEF IInv, Safe
<1>2. inbound \in Seq(Frames) /\ delivered \in Seq(1..MaxMessages)
  BY <1>1 DEF TypeOK
<1>3. /\ Len(inbound) \in Nat /\ DOMAIN inbound = 1..Len(inbound)
      /\ \A i \in DOMAIN inbound : inbound[i] \in Frames
  BY <1>2, SeqCells
<1>4. /\ Len(delivered) \in Nat /\ DOMAIN delivered = 1..Len(delivered)
      /\ \A i \in DOMAIN delivered : delivered[i] \in 1..MaxMessages
  BY <1>2, SeqCells
<1>5. /\ sent \in 0..MaxMessages /\ body \in 0..MaxMessages
      /\ pending \in Frames /\ taken \in [Consumers -> Frames]
  BY <1>1 DEF TypeOK
<1> QED
  BY <1>1, <1>2, <1>3, <1>4, <1>5 DEF FramesProper, Proper, Frames

\* FramesProper is kept.
LEMMA FramesStep ==
  ASSUME IInv, [Next]_vars
  PROVE  FramesProper'
<1> USE DEF peerVars, readVars, chanVars, recvVars, sendVars
<1>1. TypeOK /\ FramesProper
  BY DEF IInv, Safe
<1>2. /\ sent \in Nat /\ pc \in [Consumers -> Places]
      /\ pending \in Frames /\ taken \in [Consumers -> Frames]
      /\ inbound \in Seq(Frames)
  BY <1>1, BoundsAssumption DEF TypeOK, Places
<1>3. ASSUME NEW typ \in {"HEADERS", "BAD_HEADERS", "MESSAGE"}, ReadFrame(typ)
      PROVE  FramesProper'
  <2>1. sent' \in {sent, sent + 1} /\ Proper(pending)' /\ pending'.typ # "none"
    BY <1>2, <1>3 DEF ReadFrame, Proper, Frame, Message
  <2>2. \A f \in Frames : Proper(f) => Proper(f)'
    BY <1>2, <2>1 DEF Proper, Frames
  <2>3. \A i \in DOMAIN inbound : inbound[i] \in Frames
    BY <1>2, SeqCells
  <2> QED
    BY <1>1, <1>2, <1>3, <2>1, <2>2, <2>3 DEF ReadFrame, FramesProper
<1>4. CASE ReadHalfClose \/ ReadCancel
  BY <1>1, <1>2, <1>4
  DEF ReadHalfClose, ReadCancel, ReadLast, FramesProper, Proper, Frame
<1>5. CASE PushInbound
  <2>1. /\ pending' = NoFrame /\ reader' # "pushing" /\ reader = "pushing"
        /\ inbound' = Append(inbound, pending)
        /\ UNCHANGED <<sent, taken, pc>>
    BY <1>5 DEF PushInbound, AfterPush
  <2>2. \A i \in DOMAIN inbound' :
          \/ i \in DOMAIN inbound /\ inbound'[i] = inbound[i]
          \/ inbound'[i] = pending
    BY <1>2, <2>1, AppendCells, SeqCells
  <2>3. pending.typ # "none" /\ Proper(pending)
    BY <1>1, <2>1 DEF FramesProper
  <2>4. (\A i \in DOMAIN inbound : Proper(inbound[i]) /\ inbound[i].typ # "none")'
    BY <1>1, <2>1, <2>2, <2>3 DEF FramesProper, Proper
  <2>5. (Proper(pending) /\ pending.typ = "none")'
    BY <1>2, <2>1 DEF Proper, NoFrame
  <2>6. (\A k \in Consumers :
           /\ Proper(taken[k])
           /\ IF pc[k] = "process" THEN taken[k].typ \in Processed
                                   ELSE taken[k] = NoFrame)'
    BY <1>1, <2>1 DEF FramesProper, Proper
  <2> QED
    BY <2>1, <2>4, <2>5, <2>6 DEF FramesProper
<1>6. CASE PushGivesUp
  <2>1. /\ pending' = NoFrame /\ reader' # "pushing" /\ reader = "pushing"
        /\ UNCHANGED <<sent, taken, pc, inbound>>
    BY <1>6 DEF PushGivesUp, AfterPush
  <2> QED
    BY <1>1, <1>2, <2>1 DEF FramesProper, Proper, NoFrame
<1>7. ASSUME NEW k \in Consumers, CheckReceived(k)
      PROVE  FramesProper'
  <2>1. CheckEffect(k)
    BY <1>1, <1>7, CheckCases
  <2>2. /\ \A j \in Consumers : pc'[j] = "process" <=> pc[j] = "process"
        /\ UNCHANGED <<sent, taken, pending, reader, inbound>>
    BY <1>2, <2>1 DEF CheckEffect
  <2> QED
    BY <1>1, <2>2 DEF FramesProper, Proper
<1>8. ASSUME NEW k \in Consumers, TakeFrame(k)
      PROVE  FramesProper'
  <2>1. inbound # <<>> /\ pc[k] = "take" /\ inbound' = Tail(inbound)
        /\ UNCHANGED <<sent, pending, reader>>
    BY <1>8 DEF TakeFrame
  <2>2. /\ Head(inbound) \in Frames
        /\ Proper(Head(inbound)) /\ Head(inbound).typ # "none"
        /\ \A i \in DOMAIN inbound' : \E j \in DOMAIN inbound :
             inbound'[i] = inbound[j]
    BY <1>1, <1>2, <2>1, TailCells DEF FramesProper
  <2>3. /\ \A j \in Consumers \ {k} :
             taken'[j] = taken[j] /\ pc'[j] = pc[j]
        /\ \/ taken'[k] = Head(inbound) /\ pc'[k] = "process"
              /\ Head(inbound).typ # "CANCEL"
           \/ taken'[k] = taken[k] /\ pc'[k] # "process"
    BY <1>1, <1>2, <1>8, FailCases DEF TakeFrame, FailEffect, Codes
  <2>4. (/\ \A i \in DOMAIN inbound : Proper(inbound[i]) /\ inbound[i].typ # "none"
         /\ Proper(pending) /\ (reader = "pushing" <=> pending.typ # "none"))'
    BY <1>1, <2>1, <2>2 DEF FramesProper, Proper
  <2>5. (\A j \in Consumers :
           /\ Proper(taken[j])
           /\ IF pc[j] = "process" THEN taken[j].typ \in Processed
                                   ELSE taken[j] = NoFrame)'
    BY <1>1, <2>1, <2>2, <2>3 DEF FramesProper, Proper, Processed, Frames
  <2> QED
    BY <2>4, <2>5 DEF FramesProper
<1>9. ASSUME NEW k \in Consumers, Process(k)
      PROVE  FramesProper'
  <2>1. ProcessEffect(k)
    BY <1>1, <1>9, ProcessCases
  <2>2. /\ \A j \in Consumers \ {k} :
             taken'[j] = taken[j] /\ pc'[j] = pc[j]
        /\ taken'[k] = NoFrame /\ pc'[k] # "process"
        /\ UNCHANGED <<sent, pending, reader, inbound>>
    BY <1>2, <2>1 DEF ProcessEffect, FailEffect
  <2> QED
    BY <1>1, <1>2, <2>2 DEF FramesProper, Proper, NoFrame
<1>10. CASE DecodeRequest
  BY <1>1, <1>10 DEF DecodeRequest, FramesProper, Proper
<1>11. CASE Quiet
  BY <1>1, <1>11 DEF Quiet, msgVars, FramesProper, Proper
<1> QED
  BY <1>3, <1>4, <1>5, <1>6, <1>7, <1>8, <1>9, <1>10, <1>11, StepCases

-----------------------------------------------------------------------------
(* The order of the messages.                                              *)

\* A message that has been taken stays taken, and no step but readFrame's
\* takes one.
LEMMA GoneStep ==
  ASSUME IInv,
         \/ \E k \in Consumers : CheckReceived(k) \/ Process(k)
         \/ DecodeRequest
         \/ Quiet
  PROVE  /\ \A n \in 1..MaxMessages : Gone(n)' => Gone(n)
         /\ UNCHANGED <<sent, pending, inbound>>
<1> USE DEF peerVars, readVars, chanVars, recvVars, sendVars
<1>1. TypeOK /\ FramesProper /\ Requested
  BY DEF IInv, Safe
<1>2. /\ delivered \in Seq(1..MaxMessages) /\ body \in 0..MaxMessages
      /\ taken \in [Consumers -> Frames] /\ MaxMessages \in Nat
  BY <1>1, BoundsAssumption DEF TypeOK
<1>3. ASSUME NEW e \in 1..MaxMessages, delivered' = Append(delivered, e)
      PROVE  \A n : n \in {delivered'[i] : i \in DOMAIN delivered'} =>
                      n \in {delivered[i] : i \in DOMAIN delivered} \/ n = e
  <2>1. \A i \in DOMAIN delivered' :
          (i \in DOMAIN delivered /\ delivered'[i] = delivered[i])
            \/ delivered'[i] = e
    BY <1>2, <1>3, AppendCells, SeqCells
  <2> QED
    BY <2>1
<1>4. ASSUME NEW k \in Consumers, CheckReceived(k)
      PROVE  /\ \A n \in 1..MaxMessages : Gone(n)' => Gone(n)
             /\ UNCHANGED <<sent, pending, inbound>>
  <2>1. CheckEffect(k)
    BY <1>1, <1>4, CheckCases
  <2>2. CASE body # 0 /\ delivered' = Append(delivered, body) /\ body' = 0
    BY <1>2, <1>3, <2>1, <2>2 DEF CheckEffect, Gone
  <2>3. CASE UNCHANGED <<body, delivered>>
    BY <2>1, <2>3 DEF CheckEffect, Gone
  <2> QED
    BY <2>1, <2>2, <2>3 DEF CheckEffect
<1>5. ASSUME NEW k \in Consumers, Process(k)
      PROVE  /\ \A n \in 1..MaxMessages : Gone(n)' => Gone(n)
             /\ UNCHANGED <<sent, pending, inbound>>
  <2>1. ProcessEffect(k)
    BY <1>1, <1>5, ProcessCases
  <2>2. /\ \A j \in Consumers : taken'[j] = taken[j] \/ taken'[j].msg = 0
        /\ UNCHANGED <<sent, pending, inbound>>
        /\ "handler" \in Consumers /\ "leg" \in Consumers
    BY <1>2, <2>1 DEF ProcessEffect, NoFrame, Consumers
  <2>3. taken[k].typ = "MESSAGE" =>
          taken[k].msg \in 1..MaxMessages /\
          \A n : n = taken[k].msg => n \in {taken["handler"].msg, taken["leg"].msg}
    BY <1>1, <1>2 DEF FramesProper, Proper, Frames, Consumers
  <2>4. CASE /\ taken[k].typ = "MESSAGE"
             /\ delivered' = Append(delivered, taken[k].msg)
             /\ UNCHANGED body
    BY <1>3, <2>2, <2>3, <2>4 DEF Gone
  <2>5. CASE /\ taken[k].typ = "MESSAGE"
             /\ body' = taken[k].msg /\ UNCHANGED delivered
    BY <2>2, <2>3, <2>5 DEF Gone
  <2>6. CASE UNCHANGED <<body, delivered>>
    BY <2>2, <2>6 DEF Gone
  <2> QED
    BY <2>1, <2>4, <2>5, <2>6 DEF ProcessEffect
<1>6. CASE DecodeRequest
  <2>1. /\ delivered' = Append(delivered, body) /\ body \in 1..MaxMessages
        /\ UNCHANGED <<sent, pending, inbound, body, taken>>
    BY <1>1, <1>2, <1>6 DEF DecodeRequest, Deliver, Requested
  <2> QED
    BY <1>3, <2>1 DEF Gone
<1>7. CASE Quiet
  BY <1>7 DEF Quiet, msgVars, Gone
<1> QED
  BY <1>4, <1>5, <1>6, <1>7

\* The channel keeps the order.
LEMMA ChannelStep ==
  ASSUME IInv, [Next]_vars
  PROVE  ChannelOrder'
<1> USE DEF peerVars, readVars, chanVars, recvVars, sendVars
<1>1. TypeOK /\ FramesProper /\ ChannelOrder
  BY DEF IInv, Safe
<1>2. /\ sent \in 0..MaxMessages /\ MaxMessages \in Nat
      /\ inbound \in Seq(Frames)
      /\ pending.msg \in 0..sent
      /\ Len(inbound) \in Nat /\ DOMAIN inbound = 1..Len(inbound)
      /\ \A i \in DOMAIN inbound : inbound[i].msg \in 0..sent
  BY FrameFacts
<1>3. ASSUME UNCHANGED <<inbound, delivered, body, taken>>,
             pending'.msg = 0 \/ pending'.msg = sent + 1,
             sent' \in Nat, sent' >= sent
      PROVE  ChannelOrder'
  <2>1. \A n : Gone(n)' <=> Gone(n)
    BY <1>3 DEF Gone
  <2> QED
    BY <1>1, <1>2, <1>3, <2>1 DEF ChannelOrder
<1>4. ASSUME NEW typ \in {"HEADERS", "BAD_HEADERS", "MESSAGE"}, ReadFrame(typ)
      PROVE  ChannelOrder'
  BY <1>2, <1>3, <1>4 DEF ReadFrame, Message, Frame
<1>5. CASE ReadHalfClose \/ ReadCancel
  BY <1>2, <1>3, <1>5 DEF ReadHalfClose, ReadCancel, ReadLast, Frame
<1>6. CASE PushGivesUp
  BY <1>2, <1>3, <1>6 DEF PushGivesUp, AfterPush, NoFrame
<1>7. CASE PushInbound
  <2>1. /\ inbound' = Append(inbound, pending) /\ pending'.msg = 0
        /\ UNCHANGED <<sent, delivered, body, taken>>
    BY <1>7 DEF PushInbound, AfterPush, NoFrame
  <2>2. pending \in Frames
    BY <1>1 DEF TypeOK
  <2>3. /\ DOMAIN inbound' = 1..(Len(inbound) + 1)
        /\ \A i \in 1..Len(inbound) : inbound'[i] = inbound[i]
        /\ inbound'[Len(inbound) + 1] = pending
    BY <1>2, <2>1, <2>2, AppendCells
  <2>4. \A n : Gone(n)' <=> Gone(n)
    BY <2>1 DEF Gone
  <2>5. \A i \in DOMAIN inbound' :
          i \in DOMAIN inbound \/ i = Len(inbound) + 1
    BY <1>2, <2>3
  <2>6. (\A n \in 1..MaxMessages : Gone(n) =>
           /\ n <= sent
           /\ \A i \in DOMAIN inbound : inbound[i].msg # 0 => n < inbound[i].msg
           /\ pending.msg # 0 => n < pending.msg)'
    BY <1>1, <1>2, <2>1, <2>3, <2>4, <2>5 DEF ChannelOrder
  <2>7. (\A i, j \in DOMAIN inbound :
          i < j /\ inbound[i].msg # 0 /\ inbound[j].msg # 0 =>
            inbound[i].msg < inbound[j].msg)'
    <3> SUFFICES ASSUME NEW i \in DOMAIN inbound', NEW j \in DOMAIN inbound',
                        i < j, inbound'[i].msg # 0, inbound'[j].msg # 0
                 PROVE  inbound'[i].msg < inbound'[j].msg
      OBVIOUS
    <3>1. i \in DOMAIN inbound
      BY <1>2, <2>3
    <3>2. CASE j \in DOMAIN inbound
      BY <1>1, <1>2, <2>3, <3>1, <3>2 DEF ChannelOrder
    <3>3. CASE j = Len(inbound) + 1
      BY <1>1, <1>2, <2>3, <3>1, <3>3 DEF ChannelOrder
    <3> QED
      BY <2>5, <3>2, <3>3
  <2> QED
    BY <2>1, <2>6, <2>7 DEF ChannelOrder
<1>8. ASSUME NEW k \in Consumers, TakeFrame(k)
      PROVE  ChannelOrder'
  <2>1. /\ inbound # <<>> /\ inbound' = Tail(inbound)
        /\ UNCHANGED <<sent, pending, delivered, body>>
    BY <1>8 DEF TakeFrame
  <2>2. /\ 1 \in DOMAIN inbound /\ Head(inbound) = inbound[1]
        /\ DOMAIN inbound' = 1..(Len(inbound) - 1)
        /\ \A i \in DOMAIN inbound' :
             i + 1 \in DOMAIN inbound /\ inbound'[i] = inbound[i + 1]
    BY <1>2, <2>1, TailCells
  <2>3. \A j \in Consumers :
          taken'[j] = taken[j] \/ taken'[j] = inbound[1]
    BY <1>1, <1>8, <2>2 DEF TakeFrame, TypeOK
  <2>4. ASSUME NEW n \in 1..MaxMessages, Gone(n)'
        PROVE  Gone(n) \/ n = inbound[1].msg
    BY <2>1, <2>3, <2>4 DEF Gone, Consumers
  <2>5. ASSUME NEW n \in 1..MaxMessages, Gone(n)'
        PROVE  /\ n <= sent
               /\ \A i \in DOMAIN inbound' :
                    inbound'[i].msg # 0 => n < inbound'[i].msg
               /\ pending.msg # 0 => n < pending.msg
    <3>1. CASE Gone(n)
      BY <1>1, <2>2, <2>5, <3>1 DEF ChannelOrder
    <3>2. CASE n = inbound[1].msg
      <4>1. n # 0 /\ n <= sent
        BY <1>2, <2>2, <3>2
      <4>2. \A i \in DOMAIN inbound' : i + 1 \in DOMAIN inbound /\ 1 < i + 1
        BY <1>2, <2>2
      <4>3. \A j \in DOMAIN inbound :
              1 < j /\ inbound[j].msg # 0 => inbound[1].msg < inbound[j].msg
        BY <1>1, <2>2, <3>2, <4>1 DEF ChannelOrder
      <4>4. pending.msg # 0 => n < pending.msg
        BY <1>1, <2>2, <3>2, <4>1 DEF ChannelOrder
      <4> QED
        BY <2>2, <3>2, <4>1, <4>2, <4>3, <4>4
    <3> QED
      BY <2>4, <2>5, <3>1, <3>2
  <2>6. \A i, j \in DOMAIN inbound' :
          i < j /\ inbound'[i].msg # 0 /\ inbound'[j].msg # 0 =>
            inbound'[i].msg < inbound'[j].msg
    BY <1>1, <1>2, <2>2 DEF ChannelOrder
  <2>7. \A i \in DOMAIN inbound' :
          inbound'[i].msg # 0 /\ pending.msg # 0 => inbound'[i].msg < pending.msg
    BY <1>1, <1>2, <2>2 DEF ChannelOrder
  <2> QED
    BY <2>1, <2>5, <2>6, <2>7 DEF ChannelOrder
<1>9. CASE \/ \E k \in Consumers : CheckReceived(k) \/ Process(k)
           \/ DecodeRequest
           \/ Quiet
  BY <1>1, <1>9, GoneStep DEF ChannelOrder
<1> QED
  BY <1>4, <1>5, <1>6, <1>7, <1>8, <1>9, StepCases

\* A message that is taken from the channel has not been taken before.
LEMMA TakenIsNew ==
  ASSUME IInv, NEW k \in Consumers, TakeFrame(k)
  PROVE  /\ UNCHANGED <<kind, sent, pending, delivered, body>>
         /\ pc[k] = "take" /\ taken[k].msg = 0
         /\ inbound # <<>> /\ 1 \in DOMAIN inbound
         /\ \A j \in Consumers \ {k} : taken'[j] = taken[j] /\ pc'[j] = pc[j]
         /\ \/ taken'[k] = taken[k]
               /\ pc'[k] \in {"finish", "running", "failed"}
               /\ inbound[1].msg = 0
            \/ taken'[k] = inbound[1] /\ pc'[k] = "process"
         /\ inbound[1].msg # 0 =>
              \A n \in 1..MaxMessages : Gone(n) => n < inbound[1].msg
<1> USE DEF peerVars, readVars, chanVars, recvVars, sendVars
<1>1. TypeOK /\ FramesProper /\ ChannelOrder
  BY DEF IInv, Safe
<1>2. /\ inbound \in Seq(Frames) /\ inbound # <<>> /\ pc[k] = "take"
      /\ UNCHANGED <<kind, sent, pending, delivered, body>>
  BY <1>1 DEF TakeFrame, TypeOK
<1>3. 1 \in DOMAIN inbound /\ Head(inbound) = inbound[1]
  BY <1>2, TailCells
<1>4. taken[k].msg = 0
  BY <1>1, <1>2 DEF FramesProper, NoFrame
<1>5. /\ \A j \in Consumers \ {k} : taken'[j] = taken[j] /\ pc'[j] = pc[j]
      /\ \/ taken'[k] = taken[k]
            /\ pc'[k] \in {"finish", "running", "failed"}
            /\ inbound[1].typ = "CANCEL"
         \/ taken'[k] = inbound[1] /\ pc'[k] = "process"
  BY <1>1, <1>3, FailCases DEF TakeFrame, FailEffect, Codes, TypeOK
<1>6. inbound[1].typ = "CANCEL" => inbound[1].msg = 0
  BY <1>1, <1>3 DEF FramesProper, Proper
<1> QED
  BY <1>1, <1>2, <1>3, <1>4, <1>5, <1>6 DEF ChannelOrder

\* No message gets into two places.
LEMMA OnceStep ==
  ASSUME IInv, [Next]_vars
  PROVE  Once'
<1> USE DEF peerVars, readVars, chanVars, recvVars, sendVars
<1>1. TypeOK /\ Loops /\ FramesProper /\ Once /\ Requested
  BY DEF IInv, Safe
<1>2. /\ body \in 0..MaxMessages /\ MaxMessages \in Nat
      /\ delivered \in Seq(1..MaxMessages)
      /\ \A k \in Consumers : taken[k].msg \in 0..sent
      /\ sent \in 0..MaxMessages
      /\ Len(delivered) \in Nat /\ DOMAIN delivered = 1..Len(delivered)
      /\ \A i \in DOMAIN delivered : delivered[i] \in 1..MaxMessages
  BY FrameFacts
<1>3. /\ taken \in [Consumers -> Frames] /\ Consumers = {"handler", "leg"}
      /\ \A i \in DOMAIN inbound : inbound[i].msg \in 0..MaxMessages
  BY <1>1, <1>2, FrameFacts DEF TypeOK, Consumers
<1>4. ASSUME UNCHANGED <<kind, delivered, body, taken>>
      PROVE  Once'
  BY <1>1, <1>4 DEF Once
<1>5. ASSUME NEW e \in 1..MaxMessages, delivered' = Append(delivered, e)
      PROVE  /\ DOMAIN delivered' = 1..(Len(delivered) + 1)
             /\ Len(delivered') = Len(delivered) + 1
             /\ \A i \in DOMAIN delivered : delivered'[i] = delivered[i]
             /\ delivered'[Len(delivered) + 1] = e
             /\ \A i \in DOMAIN delivered' :
                  i \in DOMAIN delivered \/ i = Len(delivered) + 1
  BY <1>2, <1>5, AppendCells
<1>6. ASSUME NEW typ \in {"HEADERS", "BAD_HEADERS", "MESSAGE"}, ReadFrame(typ)
      PROVE  Once'
  BY <1>4, <1>6 DEF ReadFrame
<1>7. CASE ReadHalfClose \/ ReadCancel
  BY <1>4, <1>7 DEF ReadHalfClose, ReadCancel, ReadLast
<1>8. CASE PushInbound \/ PushGivesUp
  BY <1>4, <1>8 DEF PushInbound, PushGivesUp
<1>9. ASSUME NEW k \in Consumers, TakeFrame(k)
      PROVE  Once'
  <2>1. /\ UNCHANGED <<kind, delivered, body>>
        /\ \A j \in Consumers \ {k} : taken'[j] = taken[j]
        /\ \/ taken'[k].msg = 0
           \/ taken'[k] = inbound[1]
        /\ 1 \in DOMAIN inbound
        /\ inbound[1].msg # 0 =>
             \A n \in 1..MaxMessages : Gone(n) => n < inbound[1].msg
    BY <1>9, TakenIsNew
  <2>2. inbound[1].msg # 0 =>
          /\ \A i \in DOMAIN delivered : delivered[i] # inbound[1].msg
          /\ body # 0 => body # inbound[1].msg
          /\ \A j \in Consumers : taken[j].msg # 0 => taken[j].msg # inbound[1].msg
    <3>1. \A i \in DOMAIN delivered : Gone(delivered[i])
      BY DEF Gone
    <3>2. body # 0 => Gone(body)
      BY DEF Gone
    <3>3. \A j \in Consumers : taken[j].msg # 0 => Gone(taken[j].msg)
      BY <1>3 DEF Gone
    <3>4. \A j \in Consumers : taken[j].msg # 0 => taken[j].msg \in 1..MaxMessages
      BY <1>2
    <3> QED
      BY <1>2, <1>3, <2>1, <3>1, <3>2, <3>3, <3>4
  <2>3. /\ \A i, j \in DOMAIN delivered : i # j => delivered[i] # delivered[j]
        /\ kind = "unary" => Len(delivered) <= 1
        /\ kind # "unary" => \A i \in DOMAIN delivered : delivered[i] # body
    BY <1>1 DEF Once
  <2>4. kind # "unary" =>
          \A i \in DOMAIN delivered :
            \A j \in Consumers : delivered[i] # taken'[j].msg
    <3>1. \A i \in DOMAIN delivered : delivered[i] # 0
      BY <1>2
    <3>2. \A i \in DOMAIN delivered : delivered[i] # taken'[k].msg
      BY <2>1, <2>2, <3>1
    <3>3. kind # "unary" =>
            \A i \in DOMAIN delivered :
              \A j \in Consumers : delivered[i] # taken[j].msg
      BY <1>1 DEF Once
    <3> QED
      BY <2>1, <3>2, <3>3
  <2>5. \A j \in Consumers : body # 0 => body # taken'[j].msg
    BY <1>1, <2>1, <2>2 DEF Once
  <2>6. taken'["handler"].msg # 0 => taken'["handler"].msg # taken'["leg"].msg
    BY <1>1, <1>3, <2>1, <2>2 DEF Once
  <2> QED
    BY <2>1, <2>3, <2>4, <2>5, <2>6 DEF Once
<1>10. ASSUME NEW k \in Consumers, CheckReceived(k)
       PROVE  Once'
  <2>1. CheckEffect(k)
    BY <1>1, <1>10, CheckCases
  <2>2. CASE /\ k = "handler" /\ op = "recv" /\ body # 0
             /\ delivered' = Append(delivered, body) /\ body' = 0
    <3>1. kind # "unary" /\ UNCHANGED <<kind, taken>> /\ body \in 1..MaxMessages
      <4>1. UNCHANGED <<kind, taken>>
        BY <2>1 DEF CheckEffect
      <4> QED
        BY <1>1, <1>2, <2>2, <4>1 DEF Loops
    <3>2. /\ \A i \in DOMAIN delivered : delivered[i] # body
          /\ \A j \in Consumers : body # taken[j].msg
      BY <1>1, <2>2, <3>1 DEF Once
    <3> QED
      BY <1>1, <1>2, <1>5, <2>2, <3>1, <3>2 DEF Once
  <2>3. CASE UNCHANGED <<body, delivered>>
    BY <1>4, <2>1, <2>3 DEF CheckEffect
  <2> QED
    BY <2>1, <2>2, <2>3 DEF CheckEffect
<1>11. ASSUME NEW k \in Consumers, Process(k)
       PROVE  Once'
  <2>1. ProcessEffect(k)
    BY <1>1, <1>11, ProcessCases
  <2>2. /\ UNCHANGED kind /\ taken'[k].msg = 0
        /\ \A j \in Consumers \ {k} : taken'[j] = taken[j]
    BY <1>3, <2>1 DEF ProcessEffect, NoFrame
  <2>3. taken[k].typ = "MESSAGE" => taken[k].msg \in 1..MaxMessages
    BY <1>1, <1>2 DEF FramesProper, Proper
  <2>4. CASE /\ taken[k].typ = "MESSAGE" /\ k = "handler" /\ op = "recv"
             /\ delivered' = Append(delivered, taken[k].msg)
             /\ UNCHANGED body
    <3>1. kind # "unary"
      BY <1>1, <2>4 DEF Loops
    <3>2. /\ \A i \in DOMAIN delivered : delivered[i] # taken[k].msg
          /\ body # taken[k].msg
          /\ \A j \in Consumers \ {k} : taken[j].msg # taken[k].msg
      BY <1>1, <1>3, <2>3, <2>4, <3>1 DEF Once
    <3> QED
      BY <1>1, <1>2, <1>3, <1>5, <2>2, <2>3, <2>4, <3>1, <3>2 DEF Once
  <2>5. CASE /\ taken[k].typ = "MESSAGE"
             /\ body' = taken[k].msg /\ UNCHANGED delivered
    <3>1. /\ kind # "unary" =>
               \A i \in DOMAIN delivered : delivered[i] # taken[k].msg
          /\ \A j \in Consumers \ {k} : taken[j].msg # taken[k].msg
      BY <1>1, <1>3, <2>3, <2>5 DEF Once
    <3> QED
      BY <1>1, <1>2, <1>3, <2>2, <2>3, <2>5, <3>1 DEF Once
  <2>6. CASE UNCHANGED <<body, delivered>>
    BY <1>1, <1>2, <1>3, <2>2, <2>6 DEF Once
  <2> QED
    BY <2>1, <2>4, <2>5, <2>6 DEF ProcessEffect
<1>12. CASE DecodeRequest
  <2>1. /\ delivered' = Append(delivered, body) /\ body \in 1..MaxMessages
        /\ delivered = <<>> /\ kind = "unary"
        /\ UNCHANGED <<kind, body, taken>>
    BY <1>1, <1>2, <1>12 DEF DecodeRequest, Deliver, Requested
  <2>2. Len(delivered) = 0
    BY <2>1
  <2> QED
    BY <1>1, <1>5, <2>1, <2>2 DEF Once
<1>13. CASE Quiet
  BY <1>4, <1>13 DEF Quiet, msgVars
<1> QED
  BY <1>6, <1>7, <1>8, <1>9, <1>10, <1>11, <1>12, <1>13, StepCases

\* The loops stay where they belong.
LEMMA LoopsStep ==
  ASSUME IInv, [Next]_vars
  PROVE  Loops'
<1> USE DEF peerVars, readVars, chanVars, recvVars, sendVars
<1>1. /\ TypeOK /\ Loops /\ FramesProper
      /\ kind \in AllKinds
      /\ pc \in [Consumers -> Places] /\ Consumers = {"handler", "leg"}
      /\ op \in {"request", "streamHeaders", "recv"} /\ result \in Codes
  BY KindsAssumption DEF IInv, Safe, TypeOK, Places, Consumers
<1>2. ASSUME UNCHANGED <<kind, pc, op, delivered, raced, result>>
      PROVE  Loops'
  BY <1>1, <1>2 DEF Loops, Active
<1>3. ASSUME NEW k \in Consumers, NEW err \in Codes \ {"none"}, FailEffect(k, err),
             Active(k), UNCHANGED <<kind, op, delivered, raced>>
      PROVE  Loops'
  BY <1>1, <1>3 DEF Loops, Active, FailEffect
<1>4. CASE \/ \E typ \in {"HEADERS", "BAD_HEADERS", "MESSAGE"} : ReadFrame(typ)
           \/ ReadHalfClose \/ ReadCancel
  BY <1>2, <1>4 DEF ReadFrame, ReadHalfClose, ReadCancel, ReadLast
<1>5. CASE ReadError \/ RequestEnds \/ ResponseBreaks
  BY <1>2, <1>5 DEF ReadError, RequestEnds, ResponseBreaks
<1>6. CASE PushInbound \/ PushGivesUp \/ CancelContext \/ CloseInbound
  BY <1>2, <1>6 DEF PushInbound, PushGivesUp, CancelContext, CloseInbound
<1>7. CASE InvokeTerminate \/ SessionTerminates
  BY <1>2, <1>7 DEF InvokeTerminate, SessionTerminates
<1>8. ASSUME NEW k \in Consumers, CheckReceived(k)
      PROVE  Loops'
  <2>1. CheckEffect(k)
    BY <1>1, <1>8, CheckCases
  <2>2. /\ UNCHANGED <<kind, op, result>> /\ pc[k] = "check"
        /\ pc' = [pc EXCEPT ![k] = "running"] \/ pc' = [pc EXCEPT ![k] = "take"]
        /\ kind # "bidiClient" => raced' = raced
        /\ kind = "unary" => UNCHANGED delivered
    <3>1. kind = "unary" => op = "request"
      BY <1>1 DEF Loops
    <3>2. UNCHANGED <<kind, op, result>> /\ pc[k] = "check"
      BY <2>1 DEF CheckEffect
    <3>3. kind # "bidiClient" => raced' = raced
      BY <1>1, <2>1 DEF CheckEffect, TypeOK
    <3>4. kind = "unary" => UNCHANGED delivered
      BY <2>1, <3>1 DEF CheckEffect
    <3>5. pc' = [pc EXCEPT ![k] = "running"] \/ pc' = [pc EXCEPT ![k] = "take"]
      BY <2>1 DEF CheckEffect
    <3> QED
      BY <3>2, <3>3, <3>4, <3>5
  <2> QED
    BY <1>1, <2>2 DEF Loops, Active
<1>9. ASSUME NEW k \in Consumers, TakeFrame(k)
      PROVE  Loops'
  <2>1. pc[k] = "take" /\ UNCHANGED <<kind, op, delivered, raced>>
    BY <1>9 DEF TakeFrame
  <2>2. CASE Head(inbound).typ = "CANCEL"
    BY <1>1, <1>3, <1>9, <2>1, <2>2, FailCases DEF TakeFrame, Active, Codes
  <2>3. CASE Head(inbound).typ # "CANCEL"
    <3>1. pc' = [pc EXCEPT ![k] = "process"] /\ UNCHANGED result
      BY <1>9, <2>3 DEF TakeFrame
    <3> QED
      BY <1>1, <2>1, <3>1 DEF Loops, Active
  <2> QED
    BY <2>2, <2>3
<1>10. ASSUME NEW k \in Consumers, TakeEnd(k) \/ TakeContextDone(k)
       PROVE  Loops'
  <2>1. /\ \E err \in {"EOF", "contextDone"} : Fail(k, err)
        /\ pc[k] = "take" /\ UNCHANGED <<kind, op, delivered, raced>>
    BY <1>10 DEF TakeEnd, TakeContextDone
  <2> QED
    BY <1>1, <1>3, <2>1, FailCases DEF Active, Codes
<1>11. ASSUME NEW k \in Consumers, Process(k)
       PROVE  Loops'
  <2>1. ProcessEffect(k)
    BY <1>1, <1>11, ProcessCases
  <2>2. UNCHANGED <<kind, op, raced>> /\ pc[k] = "process"
    BY <2>1 DEF ProcessEffect
  <2>3. CASE FailEffect(k, "badHeaders") /\ UNCHANGED delivered
    BY <1>3, <2>2, <2>3 DEF Active, Codes
  <2>4. CASE /\ UNCHANGED result
             /\ \/ pc' = [pc EXCEPT ![k] = "running"]
                \/ k = "handler" /\ pc' = [pc EXCEPT ![k] = "check"]
             /\ UNCHANGED delivered
    BY <1>1, <2>2, <2>4 DEF Loops, Active
  <2>5. CASE /\ UNCHANGED result /\ pc' = [pc EXCEPT ![k] = "running"]
             /\ op = "recv"
    BY <1>1, <2>2, <2>5 DEF Loops, Active
  <2> QED
    BY <2>1, <2>3, <2>4, <2>5 DEF ProcessEffect
<1>12. CASE DecodeRequest
  BY <1>1, <1>12 DEF DecodeRequest, Loops, Active
<1>13. CASE CallRecvMsg
  BY <1>1, <1>13 DEF CallRecvMsg, Loops, Active
<1>14. CASE CallSendMsg \/ CallSendHeader
  BY <1>2, <1>14 DEF CallSendMsg, CallSendHeader
<1>15. ASSUME NEW o \in {"ok", "handlerError"}, HandlerReturns(o)
       PROVE  Loops'
  BY <1>1, <1>15 DEF HandlerReturns, Loops, Active
<1>16. CASE SendReply
  BY <1>1, <1>16 DEF SendReply, Loops, Active
<1>17. CASE FinishCall
  BY <1>1, <1>17 DEF FinishCall, Loops, Active
<1>18. CASE LegFails
  BY <1>1, <1>18 DEF LegFails, Loops, Active
<1>19. CASE UNCHANGED vars
  BY <1>2, <1>19 DEF vars
<1> QED
  BY <1>4, <1>5, <1>6, <1>7, <1>8, <1>9, <1>10, <1>11, <1>12, <1>13, <1>14,
     <1>15, <1>16, <1>17, <1>18, <1>19
  DEF Next, Environment, Reader, Push, Consume, Handler

\* HALF_CLOSE stays the last frame.
LEMMA LastFrameStep ==
  ASSUME IInv, [Next]_vars
  PROVE  LastFrame'
<1> USE DEF peerVars, readVars, chanVars, recvVars, sendVars
<1>1. /\ TypeOK /\ FramesProper /\ LastFrame
      /\ ctxDone \in BOOLEAN /\ closed \in BOOLEAN
      /\ taken \in [Consumers -> Frames] /\ pending \in Frames
  BY DEF IInv, Safe, TypeOK
<1>2. /\ inbound \in Seq(Frames)
      /\ Len(inbound) \in Nat /\ DOMAIN inbound = 1..Len(inbound)
  BY FrameFacts
<1>3. ASSUME UNCHANGED <<inbound, closed, reader, peer, pending>>,
             ctxDone => ctxDone',
             \A k \in Consumers : taken'[k] = taken[k] \/ taken'[k] = NoFrame
      PROVE  LastFrame'
  BY <1>1, <1>3 DEF LastFrame, Ended, NoFrame
<1>4. ASSUME UNCHANGED <<inbound, closed, taken>>, reader = "reading",
             reader' \in {"pushing", "terminating"},
             ctxDone' \/ (~ctxDone /\ (pending'.typ = "HALF_CLOSE" => peer' = "halfClosed")
                          /\ (pending'.typ \notin {"HALF_CLOSE", "CANCEL"} => UNCHANGED peer)
                          /\ reader' = "pushing")
      PROVE  LastFrame'
  BY <1>1, <1>4 DEF LastFrame, Ended
<1>5. ASSUME NEW typ \in {"HEADERS", "BAD_HEADERS", "MESSAGE"}, ReadFrame(typ)
      PROVE  LastFrame'
  BY <1>1, <1>4, <1>5 DEF ReadFrame, Frame, Message
<1>6. CASE ReadHalfClose \/ ReadCancel
  <2>1. ~ctxDone => peer = "sending"
    BY <1>1, <1>6 DEF ReadHalfClose, ReadCancel, ReadLast, LastFrame
  <2> QED
    BY <1>1, <1>4, <1>6, <2>1 DEF ReadHalfClose, ReadCancel, ReadLast, Frame
<1>7. CASE ReadError
  BY <1>1, <1>4, <1>7 DEF ReadError
<1>8. CASE RequestEnds
  BY <1>1, <1>8 DEF RequestEnds, LastFrame, Ended
<1>9. CASE ResponseBreaks
  BY <1>3, <1>9 DEF ResponseBreaks
<1>10. CASE PushInbound
  <2>1. /\ inbound' = Append(inbound, pending) /\ reader = "pushing"
        /\ pending' = NoFrame
        /\ UNCHANGED <<closed, taken, ctxDone, peer>>
        /\ reader' = IF pending.typ = "HALF_CLOSE" THEN "closing"
                     ELSE IF pending.typ = "CANCEL" THEN "cancelling"
                     ELSE "reading"
    BY <1>10 DEF PushInbound, AfterPush
  <2>2. /\ Len(inbound') = Len(inbound) + 1
        /\ \A i \in DOMAIN inbound' :
             \/ i \in DOMAIN inbound /\ inbound'[i] = inbound[i]
             \/ i = Len(inbound) + 1 /\ inbound'[i] = pending
    BY <1>1, <1>2, <2>1, AppendCells
  <2>3. /\ \A i \in DOMAIN inbound : inbound[i].typ # "HALF_CLOSE"
        /\ \A k \in Consumers : taken[k].typ # "HALF_CLOSE"
        /\ ~closed
    BY <1>1, <2>1 DEF LastFrame, Ended
  <2>4. (\A i \in DOMAIN inbound :
           inbound[i].typ = "HALF_CLOSE" => i = Len(inbound) /\ Ended)'
    BY <2>1, <2>2, <2>3 DEF Ended
  <2> QED
    BY <1>1, <2>1, <2>3, <2>4 DEF LastFrame, Ended, NoFrame
<1>11. CASE PushGivesUp
  <2>1. /\ ctxDone' /\ ~closed /\ ~closed' /\ UNCHANGED <<inbound, taken>>
        /\ reader = "pushing" /\ reader' # "terminating"
    BY <1>1, <1>11 DEF PushGivesUp, AfterPush, LastFrame
  <2> QED
    BY <1>1, <2>1 DEF LastFrame, Ended
<1>12. CASE CancelContext
  BY <1>1, <1>12 DEF CancelContext, LastFrame, Ended
<1>13. CASE InvokeTerminate
  BY <1>1, <1>13 DEF InvokeTerminate, FinishWith, LastFrame, Ended
<1>14. CASE CloseInbound
  BY <1>1, <1>14 DEF CloseInbound, LastFrame, Ended
<1>15. CASE SessionTerminates
  BY <1>1, <1>3, <1>15 DEF SessionTerminates, FinishWith
<1>16. ASSUME NEW k \in Consumers, CheckReceived(k)
       PROVE  LastFrame'
  BY <1>1, <1>3, <1>16, CheckCases DEF CheckEffect
<1>17. ASSUME NEW k \in Consumers, TakeFrame(k)
       PROVE  LastFrame'
  <2>1. /\ inbound # <<>> /\ inbound' = Tail(inbound)
        /\ UNCHANGED <<closed, reader, peer, pending, ctxDone>>
    BY <1>17 DEF TakeFrame
  <2>2. /\ 1 \in DOMAIN inbound /\ Len(inbound') = Len(inbound) - 1
        /\ inbound' \in Seq(Frames)
        /\ \A i \in DOMAIN inbound' :
             i \in Int /\ i + 1 \in DOMAIN inbound /\ inbound'[i] = inbound[i + 1]
    BY <1>2, <2>1, TailCells
  <2>3. \A j \in Consumers : taken'[j] = taken[j] \/ taken'[j] = inbound[1]
    BY <1>17, TakenIsNew
  <2>4. Len(inbound) = 1 => inbound' = <<>>
    BY <2>2, EmptySeq
  <2>5. (\A i \in DOMAIN inbound :
           inbound[i].typ = "HALF_CLOSE" => i = Len(inbound) /\ Ended)'
    BY <1>1, <1>2, <2>1, <2>2 DEF LastFrame, Ended
  <2>6. (\A j \in Consumers :
           taken[j].typ = "HALF_CLOSE" => inbound = <<>> /\ Ended)'
    BY <1>1, <2>1, <2>2, <2>3, <2>4 DEF LastFrame, Ended
  <2> QED
    BY <1>1, <2>1, <2>5, <2>6 DEF LastFrame, Ended
<1>18. ASSUME NEW k \in Consumers, TakeEnd(k) \/ TakeContextDone(k)
       PROVE  LastFrame'
  BY <1>1, <1>3, <1>18 DEF TakeEnd, TakeContextDone
<1>19. ASSUME NEW k \in Consumers, Process(k)
       PROVE  LastFrame'
  <2>1. ProcessEffect(k)
    BY <1>1, <1>19, ProcessCases
  <2> QED
    BY <1>1, <1>3, <2>1 DEF ProcessEffect
<1>20. CASE DecodeRequest \/ CallRecvMsg
  BY <1>1, <1>3, <1>20 DEF DecodeRequest, CallRecvMsg
<1>21. CASE CallSendMsg \/ CallSendHeader \/ SendReply
  BY <1>1, <1>3, <1>21 DEF CallSendMsg, CallSendHeader, SendReply, Send
<1>22. ASSUME NEW o \in {"ok", "handlerError"}, HandlerReturns(o)
       PROVE  LastFrame'
  BY <1>1, <1>3, <1>22 DEF HandlerReturns
<1>23. CASE FinishCall \/ LegFails
  BY <1>1, <1>3, <1>23 DEF FinishCall, LegFails, FinishWith
<1>24. CASE UNCHANGED vars
  BY <1>1, <1>3, <1>24 DEF vars
<1> QED
  BY <1>5, <1>6, <1>7, <1>8, <1>9, <1>10, <1>11, <1>12, <1>13, <1>14, <1>15,
     <1>16, <1>17, <1>18, <1>19, <1>20, <1>21, <1>22, <1>23, <1>24
  DEF Next, Environment, Reader, Push, Consume, Handler

\* A race is never forgotten.
LEMMA RacedStays ==
  ASSUME IInv, [Next]_vars, ~raced'
  PROVE  ~raced
<1> USE DEF peerVars, readVars, chanVars, recvVars, sendVars
<1>1. ASSUME NEW k \in Consumers, CheckReceived(k)
      PROVE  ~raced
  BY <1>1, CheckCases DEF CheckEffect, IInv
<1>2. \A k \in Consumers : TakeFrame(k) \/ Process(k) => UNCHANGED raced
  BY DEF TakeFrame, Process
<1> QED
  BY <1>1, <1>2, StepCases
  DEF ReadFrame, ReadHalfClose, ReadCancel, ReadLast, PushInbound, PushGivesUp,
      DecodeRequest, Quiet, msgVars

\* As long as nobody races, the loops do not get in each other's way...
LEMMA AloneStep ==
  ASSUME IInv, [Next]_vars, ~raced'
  PROVE  Alone'
<1> USE DEF peerVars, readVars, chanVars, recvVars, sendVars
<1>1. ~raced
  BY RacedStays
<1>2. /\ TypeOK /\ Loops /\ FramesProper /\ Alone
      /\ kind \in AllKinds
      /\ pc \in [Consumers -> Places] /\ Consumers = {"handler", "leg"}
      /\ op \in {"request", "streamHeaders", "recv"}
  BY <1>1, KindsAssumption DEF IInv, Safe, TypeOK, Places, Consumers
<1>3. ASSUME UNCHANGED <<op, delivered, body>>,
             \A k \in Consumers : pc'[k] = pc[k] \/
               pc'[k] \in {"running", "failed", "reply", "finish", "returned"}
      PROVE  Alone'
  BY <1>2, <1>3 DEF Alone, Active
<1>4. ASSUME NEW k \in Consumers, NEW err \in Codes, FailEffect(k, err),
             UNCHANGED <<op, delivered, body>>
      PROVE  Alone'
  BY <1>2, <1>3, <1>4 DEF FailEffect
<1>5. CASE \/ \E typ \in {"HEADERS", "BAD_HEADERS", "MESSAGE"} : ReadFrame(typ)
           \/ ReadHalfClose \/ ReadCancel
  BY <1>3, <1>5 DEF ReadFrame, ReadHalfClose, ReadCancel, ReadLast
<1>6. CASE ReadError \/ RequestEnds \/ ResponseBreaks
  BY <1>3, <1>6 DEF ReadError, RequestEnds, ResponseBreaks
<1>7. CASE PushInbound \/ PushGivesUp \/ CancelContext \/ CloseInbound
  BY <1>3, <1>7 DEF PushInbound, PushGivesUp, CancelContext, CloseInbound
<1>8. CASE InvokeTerminate \/ SessionTerminates
  BY <1>3, <1>8 DEF InvokeTerminate, SessionTerminates
<1>9. ASSUME NEW k \in Consumers, CheckReceived(k)
      PROVE  Alone'
  <2>1. CheckEffect(k)
    BY <1>2, <1>9, CheckCases
  <2>2. /\ UNCHANGED <<kind, op>> /\ pc[k] = "check"
        /\ k = "handler" => ~Active("leg")
    BY <1>2, <2>1 DEF CheckEffect, Loops, Active
  <2>3. CASE /\ k = "handler" /\ body' = 0
             /\ pc' = [pc EXCEPT ![k] = "running"]
    BY <1>2, <2>2, <2>3 DEF Alone, Active
  <2>4. CASE /\ pc' = [pc EXCEPT ![k] = "running"]
             /\ UNCHANGED <<body, delivered>>
    BY <1>2, <1>3, <2>2, <2>4
  <2>5. CASE /\ k = "handler" => body = 0 \/ op = "streamHeaders"
             /\ pc' = [pc EXCEPT ![k] = "take"]
             /\ UNCHANGED <<body, delivered>>
    BY <1>2, <2>2, <2>5 DEF Alone, Active
  <2> QED
    BY <2>1, <2>3, <2>4, <2>5 DEF CheckEffect
<1>10. ASSUME NEW k \in Consumers, TakeFrame(k)
       PROVE  Alone'
  <2>1. /\ UNCHANGED <<op, delivered, body>> /\ pc[k] = "take"
        /\ \A j \in Consumers \ {k} : pc'[j] = pc[j]
        /\ pc'[k] \in {"finish", "running", "failed", "process"}
    BY <1>10, TakenIsNew DEF TakeFrame
  <2> QED
    BY <1>2, <2>1 DEF Alone, Active
<1>11. ASSUME NEW k \in Consumers, TakeEnd(k) \/ TakeContextDone(k)
       PROVE  Alone'
  <2>1. /\ \E err \in {"EOF", "contextDone"} : Fail(k, err)
        /\ UNCHANGED <<op, delivered, body>>
    BY <1>11 DEF TakeEnd, TakeContextDone
  <2> QED
    BY <1>2, <1>4, <2>1, FailCases DEF Codes
<1>12. ASSUME NEW k \in Consumers, Process(k)
       PROVE  Alone'
  <2>1. ProcessEffect(k)
    BY <1>2, <1>12, ProcessCases
  <2>2. UNCHANGED <<kind, op>> /\ pc[k] = "process"
    BY <2>1 DEF ProcessEffect
  <2>3. k = "handler" => ~Active("leg") /\ body = 0
    BY <1>2, <2>2 DEF Alone
  <2>4. k = "leg" => pc["handler"] \notin {"take", "process"} /\ kind = "bidiClient"
    BY <1>2, <2>2 DEF Alone, Active, Loops
  <2>5. CASE FailEffect(k, "badHeaders") /\ UNCHANGED <<body, delivered>>
    BY <1>4, <2>2, <2>5 DEF Codes
  <2>6. CASE /\ UNCHANGED <<body, delivered>>
             /\ pc' = [pc EXCEPT ![k] = "running"]
    BY <1>2, <1>3, <2>2, <2>6
  <2>7. CASE /\ UNCHANGED <<body, delivered>>
             /\ k = "handler" /\ pc' = [pc EXCEPT ![k] = "check"]
    BY <1>2, <2>2, <2>3, <2>7 DEF Alone, Active
  <2>8. CASE /\ pc' = [pc EXCEPT ![k] = "running"]
             /\ k = "handler" /\ UNCHANGED body
    BY <1>2, <2>2, <2>3, <2>8 DEF Alone, Active
  <2>9. CASE /\ pc' = [pc EXCEPT ![k] = "running"]
             /\ k = "handler" => op # "recv"
             /\ UNCHANGED delivered
    BY <1>2, <2>2, <2>3, <2>4, <2>9 DEF Alone, Active, Loops
  <2> QED
    BY <2>1, <2>5, <2>6, <2>7, <2>8, <2>9 DEF ProcessEffect
<1>13. CASE DecodeRequest
  BY <1>2, <1>13 DEF DecodeRequest, Alone, Active, Loops
<1>14. CASE CallRecvMsg
  BY <1>2, <1>14 DEF CallRecvMsg, Alone, Active
<1>15. CASE CallSendMsg \/ CallSendHeader
  BY <1>3, <1>15 DEF CallSendMsg, CallSendHeader
<1>16. ASSUME NEW o \in {"ok", "handlerError"}, HandlerReturns(o)
       PROVE  Alone'
  BY <1>2, <1>3, <1>16 DEF HandlerReturns
<1>17. CASE SendReply
  BY <1>2, <1>3, <1>17 DEF SendReply
<1>18. CASE FinishCall
  BY <1>2, <1>3, <1>18 DEF FinishCall
<1>19. CASE LegFails
  BY <1>2, <1>3, <1>19 DEF LegFails
<1>20. CASE UNCHANGED vars
  BY <1>3, <1>20 DEF vars
<1> QED
  BY <1>5, <1>6, <1>7, <1>8, <1>9, <1>10, <1>11, <1>12, <1>13, <1>14, <1>15,
     <1>16, <1>17, <1>18, <1>19, <1>20
  DEF Next, Environment, Reader, Push, Consume, Handler

\* ... so that when one of them gives a message to the handler, the other
\* holds none...
LEMMA NothingElse ==
  ASSUME IInv, ~raced, NEW k \in Consumers,
         \/ pc[k] = "process"
         \/ pc[k] = "take"
         \/ pc[k] = "check" /\ k = "handler" /\ ~Active("leg")
  PROVE  /\ \A j \in Consumers \ {k} : taken[j].msg = 0
         /\ pc[k] # "process" => taken[k].msg = 0
         /\ pc[k] # "check" => body = 0
<1>1. TypeOK /\ Loops /\ FramesProper /\ Alone /\ Consumers = {"handler", "leg"}
  BY DEF IInv, Safe, Consumers
<1>2. \A j \in Consumers : pc[j] # "process" => taken[j].msg = 0
  BY <1>1 DEF FramesProper, NoFrame
<1>3. \A j \in Consumers \ {k} : pc[j] # "process"
  BY <1>1 DEF Alone, Active
<1>4. pc[k] # "check" => body = 0
  BY <1>1 DEF Alone, Active
<1> QED
  BY <1>2, <1>3, <1>4

\* ... and what the handler is given comes after what it has been given.
LEMMA SortedStep ==
  ASSUME IInv, [Next]_vars, ~raced'
  PROVE  Sorted'
<1> USE DEF peerVars, readVars, chanVars, recvVars, sendVars
<1>1. ~raced
  BY RacedStays
<1>2. /\ TypeOK /\ Loops /\ FramesProper /\ Alone /\ Sorted /\ Requested
      /\ Consumers = {"handler", "leg"}
  BY <1>1 DEF IInv, Safe, Consumers
<1>3. /\ body \in 0..MaxMessages /\ MaxMessages \in Nat
      /\ delivered \in Seq(1..MaxMessages)
      /\ \A k \in Consumers : taken[k].msg \in 0..sent
      /\ sent \in 0..MaxMessages
      /\ Len(delivered) \in Nat /\ DOMAIN delivered = 1..Len(delivered)
      /\ \A i \in DOMAIN delivered : delivered[i] \in 1..MaxMessages
      /\ taken \in [Consumers -> Frames]
  BY <1>2, FrameFacts DEF TypeOK
<1>4. ASSUME UNCHANGED <<kind, delivered, body, taken>>
      PROVE  Sorted'
  BY <1>2, <1>4 DEF Sorted, Increasing
<1>5. ASSUME NEW e \in 1..MaxMessages, delivered' = Append(delivered, e),
             \A i \in DOMAIN delivered : delivered[i] < e
      PROVE  Increasing(delivered')
  <2>1. /\ DOMAIN delivered' = 1..(Len(delivered) + 1)
        /\ \A i \in DOMAIN delivered : delivered'[i] = delivered[i]
        /\ delivered'[Len(delivered) + 1] = e
        /\ \A i \in DOMAIN delivered' :
             i \in DOMAIN delivered \/ i = Len(delivered) + 1
    BY <1>3, <1>5, AppendCells
  <2> SUFFICES ASSUME NEW i \in DOMAIN delivered', NEW j \in DOMAIN delivered',
                      i < j
               PROVE  delivered'[i] < delivered'[j]
    BY DEF Increasing
  <2>2. i \in DOMAIN delivered
    BY <1>3, <2>1
  <2>3. CASE j \in DOMAIN delivered
    BY <1>2, <2>1, <2>2, <2>3 DEF Sorted, Increasing
  <2>4. CASE j = Len(delivered) + 1
    BY <1>5, <2>1, <2>2, <2>4
  <2> QED
    BY <2>1, <2>3, <2>4
<1>6. CASE \/ \E typ \in {"HEADERS", "BAD_HEADERS", "MESSAGE"} : ReadFrame(typ)
           \/ ReadHalfClose \/ ReadCancel \/ PushInbound \/ PushGivesUp
  BY <1>4, <1>6 DEF ReadFrame, ReadHalfClose, ReadCancel, ReadLast, PushInbound,
                    PushGivesUp
<1>7. ASSUME NEW k \in Consumers, TakeFrame(k)
      PROVE  Sorted'
  <2>1. /\ UNCHANGED <<kind, delivered, body>>
        /\ \A j \in Consumers \ {k} : taken'[j] = taken[j]
        /\ taken'[k].msg = 0 \/ taken'[k] = inbound[1]
        /\ inbound[1].msg # 0 =>
             \A n \in 1..MaxMessages : Gone(n) => n < inbound[1].msg
    BY <1>7, TakenIsNew
  <2>2. \A i \in DOMAIN delivered : Gone(delivered[i])
    BY DEF Gone
  <2> QED
    BY <1>2, <1>3, <2>1, <2>2 DEF Sorted, Increasing
<1>8. ASSUME NEW k \in Consumers, CheckReceived(k)
      PROVE  Sorted'
  <2>1. CheckEffect(k)
    BY <1>2, <1>8, CheckCases
  <2>2. UNCHANGED <<kind, taken>>
    BY <2>1 DEF CheckEffect
  <2>3. CASE /\ k = "handler" /\ op = "recv" /\ body # 0
             /\ delivered' = Append(delivered, body) /\ body' = 0
    <3>1. pc["handler"] = "check" /\ ~Active("leg") /\ kind # "unary"
      BY <1>2, <2>1, <2>3 DEF CheckEffect, Loops, Active
    <3>2. \A j \in Consumers : taken[j].msg = 0
      BY <1>1, <1>2, <2>3, <3>1, NothingElse
    <3>3. Increasing(delivered')
      BY <1>2, <1>3, <1>5, <2>3, <3>1 DEF Sorted
    <3> QED
      BY <2>2, <2>3, <3>2, <3>3 DEF Sorted
  <2>4. CASE UNCHANGED <<body, delivered>>
    BY <1>4, <2>2, <2>4
  <2> QED
    BY <2>1, <2>3, <2>4 DEF CheckEffect
<1>9. ASSUME NEW k \in Consumers, Process(k)
      PROVE  Sorted'
  <2>1. ProcessEffect(k)
    BY <1>2, <1>9, ProcessCases
  <2>2. /\ UNCHANGED kind /\ taken'[k].msg = 0
        /\ \A j \in Consumers \ {k} : taken'[j] = taken[j] /\ taken[j].msg = 0
        /\ body = 0
    BY <1>1, <1>2, <1>3, <2>1, NothingElse DEF ProcessEffect, NoFrame
  <2>3. \A j \in Consumers : taken'[j].msg = 0
    BY <2>2
  <2>4. taken[k].typ = "MESSAGE" => taken[k].msg \in 1..MaxMessages
    BY <1>2, <1>3 DEF FramesProper, Proper
  <2>5. CASE /\ taken[k].typ = "MESSAGE" /\ k = "handler" /\ op = "recv"
             /\ delivered' = Append(delivered, taken[k].msg)
             /\ UNCHANGED body
    <3>1. kind # "unary"
      BY <1>2, <2>5 DEF Loops
    <3>2. Increasing(delivered')
      BY <1>2, <1>3, <1>5, <2>4, <2>5, <3>1 DEF Sorted
    <3> QED
      BY <2>2, <2>3, <2>5, <3>2 DEF Sorted
  <2>6. CASE /\ taken[k].typ = "MESSAGE"
             /\ body' = taken[k].msg /\ UNCHANGED delivered
    <3>1. kind # "unary" => \A i \in DOMAIN delivered : delivered[i] < taken[k].msg
      BY <1>2, <2>4, <2>6 DEF Sorted
    <3> QED
      BY <1>2, <2>2, <2>3, <2>6, <3>1 DEF Sorted, Increasing
  <2>7. CASE UNCHANGED <<body, delivered>>
    BY <1>2, <2>2, <2>3, <2>7 DEF Sorted, Increasing
  <2> QED
    BY <2>1, <2>5, <2>6, <2>7 DEF ProcessEffect
<1>10. CASE DecodeRequest
  <2>1. /\ delivered' = Append(delivered, body) /\ body \in 1..MaxMessages
        /\ delivered = <<>> /\ kind' = "unary"
    BY <1>2, <1>3, <1>10 DEF DecodeRequest, Deliver, Requested
  <2> QED
    BY <1>5, <2>1 DEF Sorted
<1>11. CASE Quiet
  BY <1>4, <1>11 DEF Quiet, msgVars
<1> QED
  BY <1>6, <1>7, <1>8, <1>9, <1>10, <1>11, StepCases

-----------------------------------------------------------------------------
(* No message is lost.                                                     *)

\* When the channel, the loops and requestBody are empty and readLoop is at its
\* end, everything has been delivered.
LEMMA AllDelivered ==
  ASSUME IInv, Complete, inbound = <<>>, Ended, body = 0,
         \A k \in Consumers : taken[k].msg = 0
  PROVE  Len(delivered) = sent
<1>1. FramesProper /\ ChannelOrder /\ Consumers = {"handler", "leg"}
  BY DEF IInv, Safe, Consumers
<1>2. /\ sent \in 0..MaxMessages /\ MaxMessages \in Nat
      /\ Len(delivered) \in Nat /\ DOMAIN delivered = 1..Len(delivered)
      /\ DOMAIN inbound = {}
  BY FrameFacts
<1>3. pending.msg = 0
  BY <1>1 DEF FramesProper, Proper, Ended
<1>4. sent <= Len(delivered)
  <2>1. CASE sent = 0
    BY <1>2, <2>1
  <2>2. CASE sent # 0
    <3>1. sent \in 1..sent
      BY <1>2, <2>2
    <3>2. Somewhere(sent)
      BY <3>1, Zenon DEF Complete
    <3> QED
      BY <1>1, <1>2, <1>3, <2>2, <3>2 DEF Somewhere
  <2> QED
    BY <2>1, <2>2
<1>5. Len(delivered) <= sent
  <2>1. CASE Len(delivered) = 0
    BY <1>2, <2>1
  <2>2. CASE Len(delivered) # 0
    <3>1. Len(delivered) \in DOMAIN delivered
      BY <1>2, <2>2
    <3>2. delivered[Len(delivered)] = Len(delivered)
      BY <3>1, Zenon DEF Complete
    <3>3. Gone(Len(delivered)) /\ Len(delivered) \in 1..MaxMessages
      BY <3>1, <3>2, FrameFacts DEF Gone
    <3> QED
      BY <1>1, <3>3 DEF ChannelOrder
  <2> QED
    BY <2>1, <2>2
<1>6. sent \in Int /\ Len(delivered) \in Int
  BY <1>2
<1> QED
  BY <1>4, <1>5, <1>6

\* The first message in the channel is the next one.
LEMMA NextTaken ==
  ASSUME IInv, Complete, ~raced, NEW k \in Consumers, TakeFrame(k),
         inbound[1].msg # 0
  PROVE  inbound[1].msg = Len(delivered) + 1
<1> DEFINE m == inbound[1].msg
<1>1. /\ ChannelOrder /\ Consumers = {"handler", "leg"}
  BY DEF IInv, Safe, Consumers
<1>2. /\ sent \in 0..MaxMessages /\ MaxMessages \in Nat
      /\ Len(delivered) \in Nat /\ DOMAIN delivered = 1..Len(delivered)
      /\ Len(inbound) \in Nat /\ DOMAIN inbound = 1..Len(inbound)
      /\ \A i \in DOMAIN inbound : inbound[i].msg \in 0..sent
      /\ \A i \in DOMAIN delivered : delivered[i] \in 1..MaxMessages
  BY FrameFacts
<1>3. /\ pc[k] = "take" /\ 1 \in DOMAIN inbound /\ m \in 1..sent
      /\ \A n \in 1..MaxMessages : Gone(n) => n < m
  BY <1>2, TakenIsNew
<1>4. /\ \A j \in Consumers : taken[j].msg = 0
      /\ body = 0
  BY <1>3, NothingElse
<1>5. Len(delivered) < m
  <2>1. CASE Len(delivered) = 0
    BY <1>3, <2>1
  <2>2. CASE Len(delivered) # 0
    <3>1. Len(delivered) \in DOMAIN delivered
      BY <1>2, <2>2
    <3>2. delivered[Len(delivered)] = Len(delivered)
      BY <3>1, Zenon DEF Complete
    <3>3. Gone(Len(delivered)) /\ Len(delivered) \in 1..MaxMessages
      BY <1>2, <3>1, <3>2 DEF Gone
    <3> QED
      BY <1>3, <3>3
  <2> QED
    BY <2>1, <2>2
<1>6. ASSUME Len(delivered) + 1 < m
      PROVE  FALSE
  <2> DEFINE n == Len(delivered) + 1
  <2>1. n \in 1..sent /\ ~(n <= Len(delivered)) /\ n # 0
    BY <1>2, <1>3, <1>6
  <2>2. Somewhere(n)
    BY <2>1 DEF Complete
  <2>3. CASE n = pending.msg
    BY <1>1, <1>3, <1>6, <2>1, <2>3, FrameFacts DEF ChannelOrder
  <2>4. ASSUME NEW i \in DOMAIN inbound, n = inbound[i].msg
        PROVE  FALSE
    <3>1. i # 1
      BY <1>2, <1>3, <1>6, <2>4
    <3>2. inbound[1].msg < inbound[i].msg
      BY <1>1, <1>2, <1>3, <2>1, <2>4, <3>1 DEF ChannelOrder
    <3> QED
      BY <1>2, <1>3, <1>6, <2>4, <3>2
  <2> QED
    BY <1>1, <1>4, <2>1, <2>2, <2>3, <2>4 DEF Somewhere
<1> QED
  BY <1>2, <1>3, <1>5, <1>6

\* A cancelled connection stays cancelled.
LEMMA ContextStaysDone ==
  ASSUME IInv, [Next]_vars, ctxDone
  PROVE  ctxDone'
<1> USE DEF peerVars, readVars, chanVars, recvVars, sendVars
<1>1. \A code : FinishWith(code) => ctxDone'
  BY DEF FinishWith
<1>2. \A ok : Send(ok) => ctxDone'
  BY DEF Send
<1>3. CASE Environment
  BY <1>1, <1>3 DEF Environment, ReadFrame, ReadHalfClose, ReadCancel, ReadLast,
     ReadError, RequestEnds, ResponseBreaks, SessionTerminates
<1>4. CASE Reader
  BY <1>1, <1>4 DEF Reader, Push, PushInbound, PushGivesUp, CancelContext,
     InvokeTerminate, CloseInbound
<1>5. ASSUME NEW k \in Consumers, Consume(k)
      PROVE  ctxDone'
  BY <1>5 DEF Consume, CheckReceived, TakeFrame, TakeEnd, TakeContextDone, Process
<1>6. CASE Handler
  BY <1>2, <1>6 DEF Handler, DecodeRequest, CallRecvMsg, CallSendMsg,
     CallSendHeader, HandlerReturns
<1>7. CASE SendReply \/ FinishCall \/ LegFails
  BY <1>1, <1>2, <1>7 DEF SendReply, FinishCall, LegFails
<1>8. CASE UNCHANGED vars
  BY <1>8 DEF vars
<1> QED
  BY <1>3, <1>4, <1>5, <1>6, <1>7, <1>8 DEF Next

\* io.EOF stays the last thing.
LEMMA EofStep ==
  ASSUME IInv, [Next]_vars
  PROVE  Eof'
<1> USE DEF peerVars, readVars, chanVars, recvVars, sendVars
<1>1. /\ TypeOK /\ Loops /\ FramesProper /\ Eof
      /\ pc \in [Consumers -> Places] /\ Consumers = {"handler", "leg"}
      /\ eof \in BOOLEAN
  BY DEF IInv, Safe, TypeOK, Places, Consumers
<1>2. ASSUME UNCHANGED <<kind, eof>>,
             Active("handler")' => Active("handler")
      PROVE  Eof'
  BY <1>1, <1>2 DEF Eof
<1>3. ASSUME UNCHANGED <<kind, eof, pc>>
      PROVE  Eof'
  BY <1>2, <1>3 DEF Active
<1>4. CASE Environment
  BY <1>3, <1>4 DEF Environment, ReadFrame, ReadHalfClose, ReadCancel, ReadLast,
     ReadError, RequestEnds, ResponseBreaks, SessionTerminates
<1>5. CASE Reader
  BY <1>3, <1>5 DEF Reader, Push, PushInbound, PushGivesUp, CancelContext,
     InvokeTerminate, CloseInbound
<1>6. ASSUME NEW k \in Consumers, CheckReceived(k)
      PROVE  Eof'
  <2>1. CheckEffect(k)
    BY <1>1, <1>6, CheckCases
  <2>2. /\ UNCHANGED <<kind, eof>> /\ Active(k)
        /\ \A j \in Consumers \ {k} : pc'[j] = pc[j]
    BY <1>1, <2>1 DEF CheckEffect, Active
  <2> QED
    BY <1>1, <1>2, <2>2 DEF Active
<1>7. ASSUME NEW k \in Consumers, TakeFrame(k)
      PROVE  Eof'
  <2>1. /\ UNCHANGED <<kind, eof>> /\ Active(k)
        /\ \A j \in Consumers \ {k} : pc'[j] = pc[j]
    BY <1>7, TakenIsNew DEF Active, TakeFrame
  <2> QED
    BY <1>1, <1>2, <2>1 DEF Active
<1>8. ASSUME NEW k \in Consumers, TakeEnd(k) \/ TakeContextDone(k)
      PROVE  Eof'
  <2>1. /\ \E err \in {"EOF", "contextDone"} : Fail(k, err)
        /\ UNCHANGED kind /\ pc[k] = "take"
        /\ eof' = (eof \/ (k = "handler" /\ op = "recv")) \/ UNCHANGED eof
    BY <1>8 DEF TakeEnd, TakeContextDone
  <2>2. /\ \A j \in Consumers \ {k} : pc'[j] = pc[j]
        /\ pc'[k] \in {"finish", "running", "failed"}
    BY <1>1, <2>1, FailCases DEF FailEffect, Codes
  <2>3. op = "recv" => kind # "unary"
    BY <1>1 DEF Loops
  <2> QED
    BY <1>1, <2>1, <2>2, <2>3 DEF Eof, Active
<1>9. ASSUME NEW k \in Consumers, Process(k)
      PROVE  Eof'
  <2>1. ProcessEffect(k)
    BY <1>1, <1>9, ProcessCases
  <2>2. /\ UNCHANGED kind /\ pc[k] = "process"
        /\ \A j \in Consumers \ {k} : pc'[j] = pc[j]
    BY <1>1, <2>1 DEF ProcessEffect, FailEffect
  <2>3. CASE UNCHANGED eof
    BY <1>1, <1>2, <2>2, <2>3 DEF Active
  <2>4. CASE /\ pc' = [pc EXCEPT ![k] = "running"]
             /\ eof' = (eof \/ (k = "handler" /\ op = "recv"))
    <3>1. op = "recv" => kind # "unary"
      BY <1>1 DEF Loops
    <3> QED
      BY <1>1, <2>2, <2>4, <3>1 DEF Eof, Active
  <2> QED
    BY <2>1, <2>3, <2>4 DEF ProcessEffect
<1>10. CASE Handler
  <2>1. CASE CallRecvMsg
    BY <1>1, <2>1 DEF CallRecvMsg, Eof
  <2>2. CASE DecodeRequest \/ CallSendMsg \/ CallSendHeader
    BY <1>3, <2>2 DEF DecodeRequest, CallSendMsg, CallSendHeader
  <2>3. ASSUME NEW o \in {"ok", "handlerError"}, HandlerReturns(o)
        PROVE  Eof'
    BY <1>1, <1>2, <2>3 DEF HandlerReturns, Active
  <2> QED
    BY <1>10, <2>1, <2>2, <2>3 DEF Handler
<1>11. CASE SendReply
  BY <1>1, <1>2, <1>11 DEF SendReply, Active
<1>12. CASE FinishCall
  BY <1>1, <1>2, <1>12 DEF FinishCall, Active
<1>13. CASE LegFails
  BY <1>1, <1>2, <1>13 DEF LegFails, Active
<1>14. CASE UNCHANGED vars
  BY <1>3, <1>14 DEF vars
<1> QED
  BY <1>4, <1>5, <1>6, <1>7, <1>8, <1>9, <1>10, <1>11, <1>12, <1>13, <1>14
  DEF Next, Consume

\* io.EOF comes from a closed channel or from HALF_CLOSE.
LEMMA EndSeenStep ==
  ASSUME IInv, [Next]_vars
  PROVE  EndSeen'
<1> USE DEF peerVars, readVars, chanVars, recvVars, sendVars
<1>1. TypeOK /\ FramesProper /\ LastFrame /\ EndSeen
  BY DEF IInv, Safe
<1>2. ASSUME UNCHANGED <<eof, reader>>
      PROVE  EndSeen'
  BY <1>1, <1>2 DEF EndSeen, Ended
<1>3. ASSUME UNCHANGED eof, ~Ended \/ Ended'
      PROVE  EndSeen'
  BY <1>1, <1>3 DEF EndSeen
<1>4. CASE Environment
  BY <1>2, <1>3, <1>4 DEF Environment, ReadFrame, ReadHalfClose, ReadCancel,
     ReadLast, ReadError, RequestEnds, ResponseBreaks, SessionTerminates, Ended
<1>5. CASE Reader
  BY <1>3, <1>5 DEF Reader, Push, PushInbound, PushGivesUp, AfterPush,
     CancelContext, InvokeTerminate, CloseInbound, Ended
<1>6. ASSUME NEW k \in Consumers, CheckReceived(k) \/ TakeFrame(k) \/ TakeContextDone(k)
      PROVE  EndSeen'
  BY <1>2, <1>6 DEF CheckReceived, TakeFrame, TakeContextDone
<1>7. ASSUME NEW k \in Consumers, TakeEnd(k)
      PROVE  EndSeen'
  BY <1>1, <1>7 DEF TakeEnd, LastFrame, EndSeen, Ended
<1>8. ASSUME NEW k \in Consumers, Process(k)
      PROVE  EndSeen'
  <2>1. ProcessEffect(k) /\ UNCHANGED reader
    BY <1>1, <1>8, ProcessCases DEF ProcessEffect
  <2>2. CASE taken[k].typ = "HALF_CLOSE"
    BY <1>1, <2>1, <2>2 DEF LastFrame, EndSeen, Ended
  <2>3. CASE taken[k].typ # "HALF_CLOSE"
    BY <1>2, <2>1, <2>3 DEF ProcessEffect
  <2> QED
    BY <2>2, <2>3
<1>9. CASE Handler \/ SendReply \/ FinishCall \/ LegFails \/ UNCHANGED vars
  BY <1>2, <1>9 DEF Handler, DecodeRequest, CallRecvMsg, CallSendMsg,
     CallSendHeader, HandlerReturns, SendReply, FinishCall, LegFails, vars
<1> QED
  BY <1>4, <1>5, <1>6, <1>7, <1>8, <1>9 DEF Next, Consume

\* A request that a handler has been given is not taken from it.
LEMMA RequestedStep ==
  ASSUME IInv, [Next]_vars
  PROVE  Requested'
<1> USE DEF peerVars, readVars, chanVars, recvVars, sendVars
<1>1. /\ TypeOK /\ Loops /\ FramesProper /\ Requested
      /\ pc \in [Consumers -> Places] /\ Consumers = {"handler", "leg"}
      /\ delivered \in Seq(1..MaxMessages) /\ body \in 0..MaxMessages
      /\ \A k \in Consumers : taken[k].typ = "MESSAGE" => taken[k].msg \in 1..MaxMessages
      /\ taken \in [Consumers -> Frames]
  BY DEF IInv, Safe, TypeOK, Places, Consumers, Frames, FramesProper, Proper
<1>2. ASSUME UNCHANGED <<kind, op, body, delivered>>,
             pc'["handler"] \in {"running", "reply"} =>
               pc["handler"] \in {"running", "reply"}
      PROVE  Requested'
  BY <1>1, <1>2 DEF Requested
<1>3. ASSUME NEW e \in 1..MaxMessages, delivered' = Append(delivered, e)
      PROVE  Requested'
  BY <1>1, <1>3, AppendCells DEF Requested
<1>4. CASE Environment
  BY <1>2, <1>4 DEF Environment, ReadFrame, ReadHalfClose, ReadCancel, ReadLast,
     ReadError, RequestEnds, ResponseBreaks, SessionTerminates
<1>5. CASE Reader
  BY <1>2, <1>5 DEF Reader, Push, PushInbound, PushGivesUp, CancelContext,
     InvokeTerminate, CloseInbound
<1>6. ASSUME NEW k \in Consumers, NEW err \in Codes, FailEffect(k, err),
             UNCHANGED <<kind, op, body, delivered>>
      PROVE  Requested'
  BY <1>1, <1>6 DEF FailEffect, Requested
<1>7. ASSUME NEW k \in Consumers, CheckReceived(k)
      PROVE  Requested'
  <2>1. CheckEffect(k)
    BY <1>1, <1>7, CheckCases
  <2>2. UNCHANGED <<kind, op>> /\ pc[k] = "check"
    BY <2>1 DEF CheckEffect
  <2>3. CASE body # 0 /\ delivered' = Append(delivered, body)
    BY <1>1, <1>3, <2>3
  <2>4. CASE /\ k = "handler" => op # "recv"
             /\ pc' = [pc EXCEPT ![k] = "running"]
             /\ k = "handler" /\ op = "request" => body # 0
             /\ UNCHANGED <<body, delivered>>
    BY <1>1, <2>2, <2>4 DEF Requested, Loops, TypeOK
  <2>5. CASE /\ pc' = [pc EXCEPT ![k] = "take"]
             /\ UNCHANGED <<body, delivered>>
    BY <1>1, <1>2, <2>2, <2>5
  <2> QED
    BY <2>1, <2>3, <2>4, <2>5 DEF CheckEffect
<1>8. ASSUME NEW k \in Consumers, TakeFrame(k)
      PROVE  Requested'
  <2>1. UNCHANGED <<kind, op, body, delivered>>
    BY <1>8 DEF TakeFrame
  <2>2. CASE Head(inbound).typ = "CANCEL"
    BY <1>1, <1>6, <1>8, <2>1, <2>2, FailCases DEF TakeFrame, Codes
  <2>3. CASE Head(inbound).typ # "CANCEL"
    BY <1>1, <1>2, <1>8, <2>1, <2>3 DEF TakeFrame
  <2> QED
    BY <2>2, <2>3
<1>9. ASSUME NEW k \in Consumers, TakeEnd(k) \/ TakeContextDone(k)
      PROVE  Requested'
  <2>1. /\ \E err \in {"EOF", "contextDone"} : Fail(k, err)
        /\ UNCHANGED <<kind, op, body, delivered>>
    BY <1>9 DEF TakeEnd, TakeContextDone
  <2> QED
    BY <1>1, <1>6, <2>1, FailCases DEF Codes
<1>10. ASSUME NEW k \in Consumers, Process(k)
       PROVE  Requested'
  <2>1. ProcessEffect(k)
    BY <1>1, <1>10, ProcessCases
  <2>2. UNCHANGED <<kind, op>>
    BY <2>1 DEF ProcessEffect
  <2>3. CASE FailEffect(k, "badHeaders") /\ UNCHANGED <<body, delivered>>
    BY <1>6, <2>2, <2>3 DEF Codes
  <2>4. CASE /\ taken[k].typ = "MESSAGE"
             /\ delivered' = Append(delivered, taken[k].msg)
    BY <1>1, <1>3, <2>4
  <2>5. CASE taken[k].typ = "MESSAGE" /\ body' = taken[k].msg
    BY <1>1, <2>5 DEF Requested
  <2>6. CASE /\ UNCHANGED <<body, delivered>>
             /\ \/ pc' = [pc EXCEPT ![k] = "check"]
                \/ /\ pc' = [pc EXCEPT ![k] = "running"]
                   /\ k = "handler" => op # "request"
    BY <1>1, <2>2, <2>6 DEF Requested, Loops, TypeOK
  <2> QED
    BY <2>1, <2>3, <2>4, <2>5, <2>6 DEF ProcessEffect
<1>11. CASE Handler
  <2>1. CASE CallRecvMsg
    BY <1>1, <2>1 DEF CallRecvMsg, Requested
  <2>2. CASE CallSendMsg \/ CallSendHeader
    BY <1>2, <2>2 DEF CallSendMsg, CallSendHeader
  <2>3. CASE DecodeRequest
    <3>1. body \in 1..MaxMessages /\ delivered' = Append(delivered, body)
      BY <1>1, <2>3 DEF DecodeRequest, Deliver, Requested
    <3> QED
      BY <1>3, <3>1
  <2>4. ASSUME NEW o \in {"ok", "handlerError"}, HandlerReturns(o)
        PROVE  Requested'
    BY <1>2, <2>4 DEF HandlerReturns
  <2> QED
    BY <1>11, <2>1, <2>2, <2>3, <2>4 DEF Handler
<1>12. CASE SendReply
  BY <1>2, <1>12 DEF SendReply
<1>13. CASE FinishCall
  BY <1>1, <1>2, <1>13 DEF FinishCall
<1>14. CASE LegFails
  BY <1>1, <1>2, <1>14 DEF LegFails
<1>15. CASE UNCHANGED vars
  BY <1>2, <1>15 DEF vars
<1> QED
  BY <1>4, <1>5, <1>7, <1>8, <1>9, <1>10, <1>11, <1>12, <1>13, <1>14, <1>15
  DEF Next, Consume

\* As long as nobody races or cancels, no message is lost or overtaken.
LEMMA CompleteStep ==
  ASSUME IInv, [Next]_vars, ~raced', ~ctxDone'
  PROVE  Complete'
<1> USE DEF peerVars, readVars, chanVars, recvVars, sendVars
<1>1. ~raced /\ ~ctxDone
  BY RacedStays, ContextStaysDone
<1>2. /\ TypeOK /\ Loops /\ FramesProper /\ LastFrame /\ Complete /\ Eof
      /\ Requested /\ Consumers = {"handler", "leg"}
      /\ pending \in Frames /\ eof \in BOOLEAN
  BY <1>1 DEF IInv, Safe, Consumers, TypeOK
<1>3. /\ sent \in 0..MaxMessages /\ MaxMessages \in Nat
      /\ body \in 0..MaxMessages
      /\ inbound \in Seq(Frames) /\ delivered \in Seq(1..MaxMessages)
      /\ pending.msg \in 0..sent
      /\ \A k \in Consumers : taken[k].msg \in 0..sent
      /\ Len(inbound) \in Nat /\ DOMAIN inbound = 1..Len(inbound)
      /\ Len(delivered) \in Nat /\ DOMAIN delivered = 1..Len(delivered)
      /\ taken \in [Consumers -> Frames]
  BY <1>2, FrameFacts DEF TypeOK
<1>4. ASSUME UNCHANGED <<kind, sent, inbound, taken, body, delivered, eof>>,
             pending'.msg = pending.msg \/ pending.msg = 0, Ended => Ended'
      PROVE  Complete'
  <2>1. \A n \in 1..sent : Somewhere(n) => Somewhere(n)'
    BY <1>4 DEF Somewhere
  <2> QED
    BY <1>2, <1>4, <2>1 DEF Complete
<1>5. ASSUME NEW typ \in {"HEADERS", "BAD_HEADERS", "MESSAGE"}, ReadFrame(typ)
      PROVE  Complete'
  <2>1. /\ UNCHANGED <<kind, inbound, taken, body, delivered, eof>>
        /\ sent' = sent \/ (sent' = sent + 1 /\ pending'.msg = sent + 1)
        /\ reader = "reading"
    BY <1>5 DEF ReadFrame, Message
  <2>2. pending.msg = 0
    BY <1>2, <2>1 DEF FramesProper, Proper
  <2>3. \A n \in 1..sent' : Somewhere(n)'
    <3>1. \A n \in 1..sent : Somewhere(n)'
      BY <1>2, <2>1, <2>2 DEF Complete, Somewhere
    <3>2. \A n \in 1..sent' : n \notin 1..sent => Somewhere(n)'
      BY <1>3, <2>1 DEF Somewhere
    <3> QED
      BY <3>1, <3>2
  <2>4. ~eof
    BY <1>2, <2>1 DEF Complete, Ended
  <2> QED
    BY <1>2, <2>1, <2>3, <2>4 DEF Complete
<1>6. CASE ReadHalfClose \/ ReadCancel
  <2>1. pending.msg = 0
    BY <1>2, <1>6 DEF ReadHalfClose, ReadCancel, ReadLast, FramesProper, Proper
  <2> QED
    BY <1>4, <1>6, <2>1 DEF ReadHalfClose, ReadCancel, ReadLast, Ended
<1>7. CASE ReadError \/ RequestEnds \/ CancelContext \/ PushGivesUp
  BY <1>1, <1>7 DEF ReadError, RequestEnds, CancelContext, PushGivesUp
<1>8. CASE ResponseBreaks \/ SessionTerminates \/ CloseInbound \/ InvokeTerminate
  BY <1>4, <1>8 DEF ResponseBreaks, SessionTerminates, CloseInbound,
                    InvokeTerminate, Ended
<1>9. CASE PushInbound
  <2>1. /\ inbound' = Append(inbound, pending) /\ pending'.msg = 0
        /\ UNCHANGED <<kind, sent, taken, body, delivered, eof>>
        /\ reader = "pushing"
    BY <1>9 DEF PushInbound, AfterPush, NoFrame
  <2>2. /\ \A i \in DOMAIN inbound : i \in DOMAIN inbound' /\ inbound'[i] = inbound[i]
        /\ \E i \in DOMAIN inbound' : inbound'[i] = pending
    BY <1>2, <1>3, <2>1, AppendCells
  <2>3. ~eof
    BY <1>2, <2>1 DEF Complete, Ended
  <2>4. \A n \in 1..sent : Somewhere(n) => Somewhere(n)'
    <3> SUFFICES ASSUME NEW n \in 1..sent, Somewhere(n)
                 PROVE  Somewhere(n)'
      OBVIOUS
    <3>1. CASE n = pending.msg
      BY <2>2, <3>1 DEF Somewhere
    <3>2. CASE \E i \in DOMAIN inbound : n = inbound[i].msg
      BY <2>2, <3>2 DEF Somewhere
    <3>3. CASE n <= Len(delivered) \/ n \in {body, taken["handler"].msg, taken["leg"].msg}
      BY <2>1, <3>3 DEF Somewhere
    <3> QED
      BY <3>1, <3>2, <3>3 DEF Somewhere
  <2> QED
    BY <1>2, <2>1, <2>3, <2>4 DEF Complete
<1>10. ASSUME NEW k \in Consumers, TakeFrame(k)
       PROVE  Complete'
  <2>1. /\ UNCHANGED <<kind, sent, pending, delivered, body>>
        /\ \A j \in Consumers \ {k} : taken'[j] = taken[j]
        /\ \/ taken'[k] = taken[k] /\ inbound[1].msg = 0
           \/ taken'[k] = inbound[1]
        /\ taken[k].msg = 0 /\ inbound # <<>>
        /\ inbound' = Tail(inbound) /\ UNCHANGED <<eof, reader>>
    BY <1>10, TakenIsNew DEF TakeFrame
  <2>2. taken'[k].msg # 0 => taken'[k].msg = Len(delivered) + 1
    BY <1>1, <1>2, <1>10, <2>1, NextTaken
  <2>3. \A i \in DOMAIN inbound : i # 1 =>
          i - 1 \in DOMAIN inbound' /\ inbound'[i - 1] = inbound[i]
    BY <1>3, <2>1, TailCells
  <2>4. \A n \in 1..sent : Somewhere(n) => Somewhere(n)'
    <3> SUFFICES ASSUME NEW n \in 1..sent, Somewhere(n)
                 PROVE  Somewhere(n)'
      OBVIOUS
    <3>1. CASE n \in {taken["handler"].msg, taken["leg"].msg}
      <4>1. \A j \in Consumers : n = taken[j].msg => n = taken'[j].msg
        BY <2>1
      <4> QED
        BY <1>2, <3>1, <4>1 DEF Somewhere
    <3>2. ASSUME NEW i \in DOMAIN inbound, n = inbound[i].msg
          PROVE  Somewhere(n)'
      <4>1. CASE i = 1
        BY <1>2, <2>1, <3>2, <4>1 DEF Somewhere
      <4>2. CASE i # 1
        BY <2>3, <3>2, <4>2 DEF Somewhere
      <4> QED
        BY <4>1, <4>2
    <3>3. CASE n <= Len(delivered) \/ n \in {body, pending.msg}
      BY <2>1, <3>3 DEF Somewhere
    <3> QED
      BY <3>1, <3>2, <3>3 DEF Somewhere
  <2>5. \A j \in Consumers : taken'[j].msg # 0 => taken'[j].msg = Len(delivered) + 1
    BY <1>2, <2>1, <2>2 DEF Complete
  <2> QED
    BY <1>2, <2>1, <2>4, <2>5 DEF Complete, Ended
<1>11. ASSUME NEW e \in 1..MaxMessages, delivered' = Append(delivered, e),
              e = Len(delivered) + 1
       PROVE  /\ Len(delivered') = Len(delivered) + 1
              /\ \A i \in DOMAIN delivered' : delivered'[i] = i
  <2>1. /\ Len(delivered') = Len(delivered) + 1
        /\ \A i \in DOMAIN delivered : delivered'[i] = delivered[i]
        /\ delivered'[Len(delivered) + 1] = e
        /\ \A i \in DOMAIN delivered' :
             i \in DOMAIN delivered \/ i = Len(delivered) + 1
    BY <1>3, <1>11, AppendCells
  <2> QED
    BY <1>2, <1>11, <2>1 DEF Complete
<1>12. ASSUME NEW k \in Consumers, CheckReceived(k)
       PROVE  Complete'
  <2>1. CheckEffect(k)
    BY <1>2, <1>12, CheckCases
  <2>2. UNCHANGED <<kind, sent, pending, inbound, taken, eof, reader>>
    BY <2>1 DEF CheckEffect
  <2>3. CASE /\ k = "handler" /\ op = "recv" /\ body # 0
             /\ delivered' = Append(delivered, body) /\ body' = 0
    <3>1. pc["handler"] = "check" /\ ~Active("leg") /\ kind # "unary"
      BY <1>2, <2>1, <2>3 DEF CheckEffect, Loops, Active
    <3>2. \A j \in Consumers : taken[j].msg = 0
      BY <1>1, <1>2, <2>3, <3>1, NothingElse
    <3>3. ~eof
      BY <1>2, <3>1 DEF Eof, Active
    <3>4. body = Len(delivered) + 1
      BY <1>2, <2>3, <3>1 DEF Complete
    <3>5. /\ Len(delivered') = Len(delivered) + 1
          /\ \A i \in DOMAIN delivered' : delivered'[i] = i
      <4>1. body \in 1..MaxMessages
        BY <1>3, <2>3
      <4> QED
        BY <1>11, <2>3, <3>4, <4>1
    <3>6. \A n \in 1..sent : Somewhere(n) => Somewhere(n)'
      BY <1>3, <2>2, <2>3, <3>4, <3>5 DEF Somewhere
    <3> QED
      BY <1>2, <2>2, <2>3, <3>2, <3>3, <3>5, <3>6 DEF Complete
  <2>4. CASE UNCHANGED <<body, delivered>>
    BY <1>4, <2>2, <2>4 DEF Ended
  <2> QED
    BY <2>1, <2>3, <2>4 DEF CheckEffect
<1>13. ASSUME NEW k \in Consumers, Process(k)
       PROVE  Complete'
  <2>1. ProcessEffect(k)
    BY <1>2, <1>13, ProcessCases
  <2>2. /\ UNCHANGED <<kind, sent, pending, inbound, reader>> /\ taken'[k].msg = 0
        /\ \A j \in Consumers \ {k} : taken'[j] = taken[j] /\ taken[j].msg = 0
        /\ body = 0 /\ pc[k] = "process"
    BY <1>1, <1>2, <1>3, <2>1, NothingElse DEF ProcessEffect, NoFrame
  <2>3. \A j \in Consumers : taken'[j].msg = 0
    BY <2>2
  <2>4. /\ taken[k].typ = "MESSAGE" => taken[k].msg = Len(delivered) + 1
                                       /\ taken[k].msg \in 1..MaxMessages
        /\ taken[k].typ # "MESSAGE" => taken[k].msg = 0
    BY <1>2, <1>3 DEF FramesProper, Proper, Complete
  <2>5. CASE /\ taken[k].typ = "MESSAGE" /\ k = "handler" /\ op = "recv"
             /\ delivered' = Append(delivered, taken[k].msg)
             /\ UNCHANGED <<body, eof>>
    <3>1. ~eof
      BY <1>2, <2>2, <2>5 DEF Eof, Active
    <3>2. /\ Len(delivered') = Len(delivered) + 1
          /\ \A i \in DOMAIN delivered' : delivered'[i] = i
      BY <1>11, <2>4, <2>5
    <3>3. \A n \in 1..sent : Somewhere(n) => Somewhere(n)'
      BY <1>2, <1>3, <2>2, <2>4, <2>5, <3>2 DEF Somewhere
    <3> QED
      BY <1>2, <2>2, <2>3, <2>5, <3>1, <3>2, <3>3 DEF Complete
  <2>6. CASE /\ taken[k].typ = "MESSAGE"
             /\ body' = taken[k].msg /\ UNCHANGED <<delivered, eof>>
    <3>1. \A n \in 1..sent : Somewhere(n) => Somewhere(n)'
      BY <1>2, <1>3, <2>2, <2>4, <2>6 DEF Somewhere
    <3> QED
      BY <1>2, <2>2, <2>3, <2>4, <2>6, <3>1 DEF Complete, Ended
  <2>7. CASE taken[k].typ # "MESSAGE" /\ UNCHANGED <<body, delivered>>
    <3>1. \A n \in 1..sent : Somewhere(n) => Somewhere(n)'
      BY <1>2, <1>3, <2>2, <2>4, <2>7 DEF Somewhere
    <3>2. eof' => Len(delivered) = sent /\ Ended
      <4>1. CASE UNCHANGED eof
        BY <1>2, <4>1 DEF Complete
      <4>2. CASE taken[k].typ = "HALF_CLOSE"
        <5>1. inbound = <<>> /\ Ended
          BY <1>2, <4>2 DEF LastFrame
        <5>2. \A j \in Consumers : taken[j].msg = 0
          BY <2>2, <2>4, <2>7
        <5> QED
          BY <1>2, <2>2, <5>1, <5>2, AllDelivered
      <4> QED
        BY <2>1, <4>1, <4>2 DEF ProcessEffect
    <3> QED
      BY <1>2, <2>2, <2>3, <2>7, <3>1, <3>2 DEF Complete, Ended
  <2> QED
    BY <2>1, <2>5, <2>6, <2>7 DEF ProcessEffect
<1>14. ASSUME NEW k \in Consumers, TakeEnd(k)
       PROVE  Complete'
  <2>1. /\ UNCHANGED <<kind, sent, pending, inbound, taken, body, delivered, reader>>
        /\ pc[k] = "take" /\ inbound = <<>> /\ closed
        /\ eof' = (eof \/ (k = "handler" /\ op = "recv"))
    BY <1>14 DEF TakeEnd
  <2>2. body = 0 /\ \A j \in Consumers : taken[j].msg = 0
    BY <1>1, <2>1, NothingElse
  <2>3. Ended
    BY <1>2, <2>1 DEF LastFrame, Ended
  <2>4. Len(delivered) = sent
    BY <1>2, <2>1, <2>2, <2>3, AllDelivered
  <2>5. \A n \in 1..sent : Somewhere(n) => Somewhere(n)'
    BY <2>1 DEF Somewhere
  <2> QED
    BY <1>2, <2>1, <2>3, <2>4, <2>5 DEF Complete, Ended
<1>15. ASSUME NEW k \in Consumers, TakeContextDone(k)
       PROVE  Complete'
  BY <1>1, <1>15 DEF TakeContextDone
<1>16. CASE DecodeRequest
  <2>1. /\ delivered' = Append(delivered, body) /\ body \in 1..MaxMessages
        /\ delivered = <<>> /\ kind = "unary" /\ pc["handler"] = "running"
        /\ UNCHANGED <<kind, sent, pending, inbound, taken, body, eof, reader>>
    BY <1>2, <1>3, <1>16 DEF DecodeRequest, Deliver, Requested
  <2>2. body = Len(delivered) + 1
    BY <1>2, <2>1 DEF Complete
  <2>3. /\ Len(delivered') = Len(delivered) + 1
        /\ \A i \in DOMAIN delivered' : delivered'[i] = i
    BY <1>11, <2>1, <2>2
  <2>4. \A j \in Consumers : taken'[j].msg = 0
    BY <1>2, <2>1 DEF FramesProper, Loops, NoFrame
  <2>5. \A n \in 1..sent : Somewhere(n) => Somewhere(n)'
    BY <1>3, <2>1, <2>3 DEF Somewhere
  <2>6. ~eof /\ delivered' # <<>>
    BY <1>2, <1>3, <2>1, AppendCells DEF Eof
  <2> QED
    BY <1>2, <2>1, <2>3, <2>4, <2>5, <2>6 DEF Complete
<1>17. CASE CallRecvMsg \/ CallSendMsg \/ CallSendHeader
  BY <1>4, <1>17 DEF CallRecvMsg, CallSendMsg, CallSendHeader, Ended
<1>18. ASSUME NEW o \in {"ok", "handlerError"}, HandlerReturns(o)
       PROVE  Complete'
  BY <1>4, <1>18 DEF HandlerReturns, Ended
<1>19. CASE SendReply \/ FinishCall \/ LegFails
  BY <1>4, <1>19 DEF SendReply, FinishCall, LegFails, Ended
<1>20. CASE UNCHANGED vars
  BY <1>4, <1>20 DEF vars, Ended
<1> QED
  BY <1>5, <1>6, <1>7, <1>8, <1>9, <1>10, <1>12, <1>13, <1>14, <1>15, <1>16,
     <1>17, <1>18, <1>19, <1>20
  DEF Next, Environment, Reader, Push, Consume, Handler

\* The response keeps its shape, whoever writes to it.
LEMMA ResponseStep ==
  ASSUME IInv, [Next]_vars
  PROVE  Response' /\ Answered'
<1> USE DEF peerVars, readVars, chanVars, recvVars, sendVars
<1>1. /\ TypeOK /\ Loops /\ FramesProper /\ Response /\ Answered
      /\ Consumers = {"handler", "leg"}
      /\ out \in Seq(OutTypes) /\ status \in Codes /\ result \in Codes
      /\ pc \in [Consumers -> Places] /\ broken \in BOOLEAN
      /\ kind \in AllKinds
  BY KindsAssumption DEF IInv, Safe, TypeOK, Consumers, OutTypes, Places
<1>2. /\ Len(out) \in Nat /\ DOMAIN out = 1..Len(out)
      /\ \A e \in OutTypes :
           /\ Len(Append(out, e)) = Len(out) + 1
           /\ DOMAIN Append(out, e) = 1..(Len(out) + 1)
           /\ \A i \in DOMAIN out : Append(out, e)[i] = out[i]
           /\ Append(out, e)[Len(out) + 1] = e
  BY <1>1, AppendCells, SeqCells
<1>2a. status = "none" => WellOrdered /\ \A i \in DOMAIN out : out[i] # "TRAILERS"
  <2>1. status = "none" => \A i \in DOMAIN out : out[i] # "TRAILERS"
    BY <1>1 DEF Response
  <2>2. LateHeaders => 1 \in DOMAIN out /\ out[1] = "TRAILERS"
    BY DEF LateHeaders
  <2> QED
    BY <1>1, <2>1, <2>2 DEF Response
<1>3. ASSUME UNCHANGED <<kind, out, status>>, broken => broken',
             pc["handler"] = "returned" => pc'["handler"] = "returned",
             kind = "unary" /\ pc'["handler"] = "finish" /\ result' = "ok" =>
               \/ pc["handler"] = "finish" /\ result = "ok"
               \/ \E i \in DOMAIN out : out[i] = "MESSAGE"
      PROVE  Response' /\ Answered'
  <2>1. Response'
    BY <1>1, <1>3 DEF Response, WellOrdered, LateHeaders
  <2>2. Answered'
    BY <1>1, <1>3 DEF Answered
  <2> QED
    BY <2>1, <2>2
<1>4. ASSUME NEW code \in Codes \ {"none"}, FinishWith(code),
             UNCHANGED <<kind, broken>>,
             pc["handler"] = "returned" => pc'["handler"] = "returned",
             kind \in {"bidiServer", "bidiClient"} \/ pc'["handler"] = "returned",
             kind = "unary" /\ code = "ok" =>
               \E i \in DOMAIN out : out[i] = "MESSAGE"
      PROVE  Response' /\ Answered'
  <2>1. CASE status # "none"
    <3>1. UNCHANGED <<status, out>>
      BY <1>4, <2>1 DEF FinishWith
    <3>2. kind = "unary" => pc'["handler"] = "returned"
      BY <1>4
    <3> QED
      BY <1>3, <1>4, <3>1, <3>2
  <2>2. CASE status = "none" /\ broken
    <3>1. status' # "none" /\ UNCHANGED out /\ broken' /\ status' = code
      BY <1>4, <2>2 DEF FinishWith
    <3>2. Response'
      BY <1>1, <1>4, <2>2, <3>1 DEF Response, WellOrdered, LateHeaders
    <3>3. Answered'
      BY <1>1, <1>4, <2>2, <3>1 DEF Answered
    <3> QED
      BY <3>2, <3>3
  <2>3. CASE status = "none" /\ ~broken
    <3>1. status' = code /\ out' = Append(out, "TRAILERS") /\ ~broken'
      BY <1>4, <2>3 DEF FinishWith
    <3>2. /\ Len(out') = Len(out) + 1
          /\ DOMAIN out' = 1..(Len(out) + 1)
          /\ \A i \in DOMAIN out : out'[i] = out[i] /\ i \in DOMAIN out'
          /\ out'[Len(out) + 1] = "TRAILERS"
          /\ Len(out) + 1 \in DOMAIN out'
          /\ \A i \in DOMAIN out' : i \in DOMAIN out \/ i = Len(out) + 1
      BY <1>2, <3>1 DEF OutTypes
    <3>3. \A i \in DOMAIN out : out[i] # "TRAILERS"
      BY <1>1, <2>3 DEF Response
    <3>4. \A i \in DOMAIN out' : out'[i] = "TRAILERS" <=> i = Len(out) + 1
      BY <3>2, <3>3
    <3>5. /\ \A i \in DOMAIN out' : out'[i] = "HEADERS" => i = 1
          /\ \A i \in DOMAIN out' : out'[i] = "MESSAGE" => out'[1] = "HEADERS"
      <4> SUFFICES ASSUME NEW i \in DOMAIN out
                   PROVE  /\ out'[i] = "HEADERS" => i = 1
                          /\ out'[i] = "MESSAGE" => out'[1] = "HEADERS"
        BY <3>2
      <4>1. 1 \in DOMAIN out
        BY <1>2
      <4>2. /\ out[i] = "HEADERS" => i = 1
            /\ out[i] = "MESSAGE" => out[1] = "HEADERS"
        BY <1>2a, <2>3 DEF WellOrdered
      <4> QED
        BY <3>2, <4>1, <4>2
    <3>6. kind = "bidiClient" => \A i \in DOMAIN out' : out'[i] = "TRAILERS"
      BY <1>1, <3>2 DEF Response
    <3>7. WellOrdered'
      BY <3>2, <3>4, <3>5 DEF WellOrdered
    <3>8. Response'
      BY <1>4, <3>1, <3>2, <3>4, <3>6, <3>7 DEF Response
    <3>9. Answered'
      BY <1>4, <3>1, <3>2 DEF Answered
    <3> QED
      BY <3>8, <3>9
  <2> QED
    BY <1>1, <2>1, <2>2, <2>3
<1>5. ASSUME NEW typ \in {"HEADERS", "BAD_HEADERS", "MESSAGE"}, ReadFrame(typ)
      PROVE  Response' /\ Answered'
  BY <1>3, <1>5 DEF ReadFrame
<1>6. CASE ReadHalfClose \/ ReadCancel \/ ReadError \/ RequestEnds
  BY <1>3, <1>6 DEF ReadHalfClose, ReadCancel, ReadLast, ReadError, RequestEnds
<1>7. CASE PushInbound \/ PushGivesUp \/ CancelContext \/ CloseInbound
           \/ ResponseBreaks
  BY <1>1, <1>3, <1>7 DEF PushInbound, PushGivesUp, CancelContext, CloseInbound,
                          ResponseBreaks
<1>8. CASE InvokeTerminate
  <2>1. CASE UNCHANGED status /\ UNCHANGED out
    BY <1>3, <1>8, <2>1 DEF InvokeTerminate
  <2>2. CASE kind \in {"bidiServer", "bidiClient"} /\ FinishWith("terminated")
    BY <1>4, <1>8, <2>2 DEF InvokeTerminate, Codes
  <2> QED
    BY <1>8, <2>1, <2>2 DEF InvokeTerminate
<1>9. CASE SessionTerminates
  BY <1>4, <1>9 DEF SessionTerminates, Codes
<1>10. ASSUME NEW e \in {"HEADERS", "MESSAGE"}, out' = Append(out, e),
              UNCHANGED <<kind, status, broken>>, kind # "bidiClient",
              status = "none" \/ (kind = "bidiServer" /\ e = "HEADERS"),
              e = "HEADERS" <=> ~HeadersSent
       PROVE  Response' /\ \E i \in DOMAIN out' : out'[i] = e
  <2>1. /\ Len(out') = Len(out) + 1
        /\ DOMAIN out' = 1..(Len(out) + 1)
        /\ \A i \in DOMAIN out : out'[i] = out[i] /\ i \in DOMAIN out'
        /\ out'[Len(out) + 1] = e
        /\ Len(out) + 1 \in DOMAIN out'
        /\ \A i \in DOMAIN out' : i \in DOMAIN out \/ i = Len(out) + 1
    BY <1>2, <1>10 DEF OutTypes
  <2>2. \A i \in DOMAIN out' : out'[i] = "TRAILERS" <=>
          i \in DOMAIN out /\ out[i] = "TRAILERS"
    BY <1>2, <2>1
  <2>3. ASSUME status = "none"
        PROVE  WellOrdered'
    <3>1. \A i \in DOMAIN out : out[i] \in {"HEADERS", "MESSAGE"}
      BY <1>1, <1>2, <1>2a, <2>3, SeqCells DEF OutTypes
    <3>2. /\ \A i \in DOMAIN out : out[i] = "HEADERS" => i = 1
          /\ \A i \in DOMAIN out : out[1] = "HEADERS"
      BY <1>2a, <2>3, <3>1 DEF WellOrdered
    <3>3. CASE e = "HEADERS"
      <4>1. DOMAIN out = {} /\ Len(out) = 0
        BY <1>2, <1>10, <3>2, <3>3 DEF HeadersSent
      <4> QED
        BY <2>1, <3>3, <4>1 DEF WellOrdered
    <3>4. CASE e = "MESSAGE"
      <4>1. 1 \in DOMAIN out /\ out'[1] = "HEADERS"
        BY <1>2, <1>10, <2>1, <3>2, <3>4 DEF HeadersSent
      <4> QED
        BY <2>1, <3>1, <3>2, <3>4, <4>1 DEF WellOrdered
    <3> QED
      BY <3>3, <3>4
  <2>4. ASSUME status # "none"
        PROVE  (WellOrdered \/ LateHeaders)'
    <3>1. kind = "bidiServer" /\ e = "HEADERS" /\ ~HeadersSent
      BY <1>10, <2>4
    <3>2. WellOrdered
      <4>1. LateHeaders => 2 \in DOMAIN out /\ out[2] = "HEADERS"
        BY DEF LateHeaders
      <4> QED
        BY <1>1, <3>1, <4>1 DEF Response, HeadersSent
    <3>3. \A i \in DOMAIN out : out[i] \in OutTypes /\ 1 \in DOMAIN out
      BY <1>1, <1>2, SeqCells
    <3>4. \A i \in DOMAIN out : out[i] = "TRAILERS" /\ i = Len(out)
      BY <3>1, <3>2, <3>3 DEF WellOrdered, HeadersSent, OutTypes
    <3>5. Len(out) = 0 \/ (Len(out) = 1 /\ out[1] = "TRAILERS")
      BY <1>2, <3>3, <3>4
    <3>6. CASE Len(out) = 0
      BY <1>2, <2>1, <3>1, <3>6 DEF WellOrdered
    <3>7. CASE Len(out) = 1 /\ out[1] = "TRAILERS"
      <4>1. /\ out' \in Seq(OutTypes) /\ Len(out') = 2
            /\ out'[1] = "TRAILERS" /\ out'[2] = "HEADERS"
        BY <1>1, <1>2, <1>10, <2>1, <3>1, <3>7, AppendCells DEF OutTypes
      <4>2. out' = <<"TRAILERS", "HEADERS">>
        BY <4>1
      <4> QED
        BY <1>10, <3>1, <4>2 DEF LateHeaders
    <3> QED
      BY <3>5, <3>6, <3>7
  <2>5. Response'
    BY <1>1, <1>10, <2>1, <2>2, <2>3, <2>4 DEF Response
  <2> QED
    BY <2>1, <2>5
<1>11. ASSUME out' = out \o <<"HEADERS", "MESSAGE">>, ~HeadersSent,
              UNCHANGED <<kind, status, broken>>, kind # "bidiClient",
              status = "none"
       PROVE  Response' /\ \E i \in DOMAIN out' : out'[i] = "MESSAGE"
  <2>1. /\ out' \in Seq(OutTypes) /\ Len(out') = Len(out) + 2
        /\ DOMAIN out' = 1..(Len(out) + 2)
        /\ \A i \in DOMAIN out : out'[i] = out[i] /\ i \in DOMAIN out'
        /\ out'[Len(out) + 1] = "HEADERS" /\ out'[Len(out) + 2] = "MESSAGE"
    <3>1. <<"HEADERS", "MESSAGE">> \in Seq(OutTypes) /\ out \in Seq(OutTypes)
      BY <1>1 DEF OutTypes
    <3>2. /\ out' \in Seq(OutTypes) /\ Len(out') = Len(out) + 2
          /\ \A i \in 1..Len(out') :
               out'[i] = IF i <= Len(out) THEN out[i]
                         ELSE <<"HEADERS", "MESSAGE">>[i - Len(out)]
      BY <1>11, <3>1, ConcatProperties
    <3>3. DOMAIN out' = 1..Len(out')
      BY <3>2, SeqCells
    <3> QED
      BY <1>2, <3>2, <3>3
  <2>2. /\ \A i \in DOMAIN out' :
             i \in DOMAIN out \/ i = Len(out) + 1 \/ i = Len(out) + 2
        /\ Len(out) + 1 \in DOMAIN out' /\ Len(out) + 2 \in DOMAIN out'
    BY <1>2, <2>1
  <2>3. \A i \in DOMAIN out' : out'[i] = "TRAILERS" <=>
          i \in DOMAIN out /\ out[i] = "TRAILERS"
    BY <1>2, <2>1, <2>2
  <2>4. DOMAIN out = {} /\ Len(out) = 0
    <3>1. \A i \in DOMAIN out : out[i] \in {"HEADERS", "MESSAGE"}
      BY <1>1, <1>2, <1>11, <1>2a, SeqCells DEF OutTypes
    <3>2. 1 \in DOMAIN out \/ (DOMAIN out = {} /\ Len(out) = 0)
      BY <1>2
    <3> QED
      BY <1>11, <1>2a, <3>1, <3>2 DEF WellOrdered, HeadersSent
  <2>5. WellOrdered'
    BY <2>1, <2>2, <2>4 DEF WellOrdered
  <2>6. Response'
    BY <1>1, <1>11, <2>1, <2>3, <2>5 DEF Response
  <2> QED
    BY <2>1, <2>2, <2>6
<1>12. ASSUME NEW ok \in BOOLEAN, Send(ok), UNCHANGED <<kind, status, broken>>,
              kind # "bidiClient"
       PROVE  /\ ok => Response' /\ \E i \in DOMAIN out' : out'[i] = "MESSAGE"
              /\ ~ok => UNCHANGED out
  <2>1. CASE ok
    <3>1. /\ status = "none"
          /\ \/ HeadersSent /\ out' = Append(out, "MESSAGE")
             \/ ~HeadersSent /\ out' = out \o <<"HEADERS", "MESSAGE">>
      BY <1>12, <2>1 DEF Send
    <3>2. CASE HeadersSent /\ out' = Append(out, "MESSAGE")
      BY <1>10, <1>12, <2>1, <3>1, <3>2
    <3>3. CASE ~HeadersSent /\ out' = out \o <<"HEADERS", "MESSAGE">>
      BY <1>11, <1>12, <2>1, <3>1, <3>3
    <3> QED
      BY <3>1, <3>2, <3>3
  <2>2. CASE ~ok
    BY <1>12, <2>2 DEF Send
  <2> QED
    BY <1>12, <2>1, <2>2
<1>13. CASE CallSendMsg \/ CallSendHeader
  <2>1. /\ UNCHANGED <<kind, status, broken, pc, result>>
        /\ kind \in {"serverStream", "clientStream", "bidiServer"}
        /\ pc["handler"] = "running"
        /\ \/ \E ok \in BOOLEAN : Send(ok)
           \/ ~HeadersSent /\ out' = Append(out, "HEADERS")
    BY <1>13 DEF CallSendMsg, CallSendHeader
  <2>2. status = "none" \/ kind = "bidiServer"
    BY <1>1, <2>1 DEF Answered
  <2>3. Answered'
    BY <1>1, <2>1 DEF Answered
  <2>4. Response' \/ UNCHANGED out
    BY <1>10, <1>12, <2>1, <2>2
  <2>5. CASE UNCHANGED out
    BY <1>3, <2>1, <2>5
  <2> QED
    BY <2>3, <2>4, <2>5
<1>14. CASE SendReply
  <2>1. PICK ok \in BOOLEAN :
             Send(ok) /\ result' = IF ok THEN "ok" ELSE "sendFailed"
    BY <1>14 DEF SendReply
  <2>2. /\ UNCHANGED <<kind, status, broken>> /\ kind = "unary"
        /\ pc["handler"] = "reply" /\ status = "none"
    BY <1>1, <1>14 DEF SendReply, Loops, Answered
  <2>3. CASE ok
    <3>1. Response' /\ \E i \in DOMAIN out' : out'[i] = "MESSAGE"
      BY <1>12, <2>1, <2>2, <2>3
    <3>2. Answered'
      BY <2>2, <3>1 DEF Answered
    <3> QED
      BY <3>1, <3>2
  <2>4. CASE ~ok
    <3>1. UNCHANGED out /\ result' = "sendFailed"
      BY <1>12, <2>1, <2>2, <2>4
    <3> QED
      BY <1>3, <2>2, <3>1
  <2> QED
    BY <2>3, <2>4
<1>15. CASE FinishCall
  <2>1. /\ FinishWith(result) /\ UNCHANGED <<kind, broken>>
        /\ pc["handler"] = "finish" /\ pc'["handler"] = "returned"
        /\ result # "none"
    BY <1>1, <1>15 DEF FinishCall, Loops
  <2>2. kind = "unary" /\ result = "ok" => \E i \in DOMAIN out : out[i] = "MESSAGE"
    BY <1>1, <2>1 DEF Answered
  <2> QED
    BY <1>1, <1>4, <2>1, <2>2
<1>16. CASE LegFails
  <2>1. /\ FinishWith("legFailed") /\ UNCHANGED <<kind, broken>>
        /\ pc'["handler"] = pc["handler"] /\ kind = "bidiClient"
    BY <1>1, <1>16 DEF LegFails, Loops
  <2> QED
    BY <1>4, <2>1 DEF Codes
<1>17. CASE DecodeRequest \/ CallRecvMsg
  BY <1>1, <1>3, <1>17 DEF DecodeRequest, CallRecvMsg
<1>18. ASSUME NEW o \in {"ok", "handlerError"}, HandlerReturns(o)
       PROVE  Response' /\ Answered'
  <2>1. /\ UNCHANGED <<kind, out, status, broken>> /\ pc["handler"] = "running"
        /\ result' = o
        /\ kind = "unary" /\ o = "ok" => pc'["handler"] # "finish"
    BY <1>1, <1>18 DEF HandlerReturns
  <2> QED
    BY <1>3, <2>1
<1>19. ASSUME NEW k \in Consumers, NEW err \in Codes \ {"ok"},
              FailEffect(k, err), UNCHANGED <<kind, out, status, broken>>,
              Active(k)
       PROVE  Response' /\ Answered'
  BY <1>1, <1>3, <1>19 DEF FailEffect, Active
<1>20. ASSUME NEW k \in Consumers,
              NEW p \in {"check", "take", "process", "running"},
              pc' = [pc EXCEPT ![k] = p],
              UNCHANGED <<kind, out, status, broken, result>>, Active(k)
       PROVE  Response' /\ Answered'
  BY <1>1, <1>3, <1>20 DEF Active
<1>21. ASSUME NEW k \in Consumers, CheckReceived(k)
       PROVE  Response' /\ Answered'
  <2>1. CheckEffect(k)
    BY <1>1, <1>21, CheckCases
  <2>2. /\ UNCHANGED <<kind, out, status, broken, result>> /\ Active(k)
        /\ \E p \in {"take", "running"} : pc' = [pc EXCEPT ![k] = p]
    BY <2>1 DEF CheckEffect, Active
  <2> QED
    BY <1>20, <2>2
<1>22. ASSUME NEW k \in Consumers, TakeFrame(k)
       PROVE  Response' /\ Answered'
  <2>1. UNCHANGED <<kind, out, status, broken>> /\ Active(k)
    BY <1>22 DEF TakeFrame, Active
  <2>2. CASE Head(inbound).typ = "CANCEL"
    BY <1>1, <1>19, <1>22, <2>1, <2>2, FailCases DEF TakeFrame, Codes
  <2>3. CASE Head(inbound).typ # "CANCEL"
    BY <1>20, <1>22, <2>1, <2>3 DEF TakeFrame
  <2> QED
    BY <2>2, <2>3
<1>23. ASSUME NEW k \in Consumers, TakeEnd(k) \/ TakeContextDone(k)
       PROVE  Response' /\ Answered'
  <2>1. /\ \E err \in {"EOF", "contextDone"} : Fail(k, err)
        /\ UNCHANGED <<kind, out, status, broken>> /\ Active(k)
    BY <1>23 DEF TakeEnd, TakeContextDone, Active
  <2> QED
    BY <1>1, <1>19, <2>1, FailCases DEF Codes
<1>24. ASSUME NEW k \in Consumers, Process(k)
       PROVE  Response' /\ Answered'
  <2>1. ProcessEffect(k)
    BY <1>1, <1>24, ProcessCases
  <2>2. UNCHANGED <<kind, out, status, broken>> /\ Active(k)
    BY <2>1 DEF ProcessEffect, Active
  <2>3. CASE FailEffect(k, "badHeaders")
    BY <1>19, <2>2, <2>3 DEF Codes
  <2>4. CASE /\ UNCHANGED result
             /\ \E p \in {"check", "running"} : pc' = [pc EXCEPT ![k] = p]
    BY <1>20, <2>2, <2>4
  <2> QED
    BY <2>1, <2>3, <2>4 DEF ProcessEffect
<1>25. CASE UNCHANGED vars
  BY <1>3, <1>25 DEF vars
<1> QED
  BY <1>5, <1>6, <1>7, <1>8, <1>9, <1>13, <1>14, <1>15, <1>16, <1>17, <1>18,
     <1>21, <1>22, <1>23, <1>24, <1>25
  DEF Next, Environment, Reader, Push, Consume, Handler

-----------------------------------------------------------------------------
(* The invariant.                                                          *)

\* A call begins with nothing sent and nothing received.
LEMMA InitInv == Init => IInv
<1> SUFFICES ASSUME Init
             PROVE  IInv
  OBVIOUS
<1> USE BoundsAssumption, KindsAssumption
<1>1. /\ Consumers = {"handler", "leg"} /\ NoFrame.typ = "none"
      /\ NoFrame.msg = 0 /\ kind \in AllKinds
      /\ DOMAIN inbound = {} /\ DOMAIN delivered = {} /\ DOMAIN out = {}
      /\ delivered = <<>> /\ Len(delivered) = 0 /\ inbound = <<>> /\ out = <<>>
      /\ Len(inbound) = 0
  BY DEF Init, Consumers, NoFrame
<1>2. /\ pc \in [Consumers -> {"check", "running", "returned"}]
      /\ pc["handler"] \in {"check", "running"}
      /\ pc["leg"] \in {"check", "returned"}
      /\ kind = "bidiClient" => pc["handler"] = "running"
      /\ kind # "bidiClient" => pc["handler"] = "check" /\ pc["leg"] = "returned"
  BY <1>1 DEF Init
<1>3. TypeOK
  <2>1. NoFrame \in Frames
    BY FrameTypes
  <2>2. pc \in [Consumers -> Places]
    BY <1>2 DEF Places
  <2>3. <<>> \in Seq(Frames) /\ <<>> \in Seq(1..MaxMessages) /\ <<>> \in Seq(OutTypes)
    BY EmptySeq
  <2>4. /\ inbound \in Seq(Frames) /\ delivered \in Seq(1..MaxMessages)
        /\ out \in Seq(OutTypes) /\ Len(inbound) <= Capacity
    BY <1>1, <2>3
  <2>5. /\ taken \in [Consumers -> Frames] /\ pending \in Frames
        /\ op \in {"request", "streamHeaders"}
    BY <2>1 DEF Init
  <2>6. /\ kind \in Kinds /\ peer = "sending" /\ reader = "reading"
        /\ announced \in BOOLEAN /\ closed \in BOOLEAN /\ ctxDone \in BOOLEAN
        /\ recvClosed \in BOOLEAN /\ eof \in BOOLEAN /\ raced \in BOOLEAN
        /\ broken \in BOOLEAN
    BY Zenon DEF Init
  <2>7. /\ sent \in 0..MaxMessages /\ body \in 0..MaxMessages
        /\ result \in Codes /\ status \in Codes
    BY DEF Init, Codes
  <2> QED
    BY <2>2, <2>4, <2>5, <2>6, <2>7 DEF TypeOK, Places, OutTypes
<1>4. Loops
  BY <1>1, <1>2 DEF Init, Loops, Active, AllKinds
<1>5. FramesProper
  BY <1>1, <1>2 DEF Init, FramesProper, Proper
<1>6. LastFrame
  BY <1>1 DEF Init, LastFrame, Ended
<1>7. ChannelOrder /\ Once
  BY <1>1 DEF Init, ChannelOrder, Gone, Once
<1>8. Alone /\ Sorted /\ Complete
  BY <1>1, <1>2 DEF Init, Alone, Active, Sorted, Increasing, Complete
<1>9. Eof /\ EndSeen /\ Requested /\ Response /\ Answered
  BY <1>1, <1>2 DEF Init, Eof, EndSeen, Requested, Response, WellOrdered, Answered
<1> QED
  BY <1>3, <1>4, <1>5, <1>6, <1>7, <1>8, <1>9 DEF IInv, Safe

\* Every step keeps every part of it.
LEMMA InvStep == IInv /\ [Next]_vars => IInv'
<1> SUFFICES ASSUME IInv, [Next]_vars
             PROVE  IInv'
  OBVIOUS
<1>1. TypeOK' /\ Loops' /\ FramesProper' /\ LastFrame' /\ ChannelOrder' /\ Once'
  BY TypeStep, LoopsStep, FramesStep, LastFrameStep, ChannelStep, OnceStep
<1>2. ~raced' => Alone' /\ Sorted'
  BY AloneStep, SortedStep
<1>3. ~raced' /\ ~ctxDone' => Complete'
  BY CompleteStep
<1>4. Eof' /\ EndSeen' /\ Requested' /\ Response' /\ Answered'
  BY EofStep, EndSeenStep, RequestedStep, ResponseStep
<1> QED
  BY <1>1, <1>2, <1>3, <1>4 DEF IInv, Safe

\* What the invariant means for the handler and for the client.
LEMMA InvMeans ==
  IInv => /\ InOrder /\ NoGap /\ EndIsComplete
          /\ ResponseWellFormed /\ HandlerHasRequest
<1> SUFFICES ASSUME IInv
             PROVE  /\ InOrder /\ NoGap /\ EndIsComplete
                    /\ ResponseWellFormed /\ HandlerHasRequest
  OBVIOUS
<1>1. InOrder
  BY DEF IInv, Safe, Once, Sorted, InOrder
<1>2. NoGap
  BY DEF IInv, Safe, Complete, NoGap
<1>3. EndIsComplete
  BY DEF IInv, Safe, Complete, LastFrame, EndIsComplete
<1>4. ResponseWellFormed
  <2>1. Response /\ Answered
    BY DEF IInv, Safe
  <2>2. kind = "unary" /\ status = "ok" =>
          "MESSAGE" \in {out[i] : i \in DOMAIN out}
    BY <2>1 DEF Answered
  <2> QED
    BY <2>1, <2>2 DEF Response, ResponseWellFormed
<1>5. HandlerHasRequest
  <2> SUFFICES ASSUME kind \in {"unary", "serverStream"},
                      pc["handler"] \in {"running", "reply"}
               PROVE  sent > 0 /\ (body # 0 \/ delivered # <<>>)
    BY DEF HandlerHasRequest
  <2>1. body # 0 \/ delivered # <<>>
    BY DEF IInv, Safe, Requested
  <2>2. /\ body \in 0..MaxMessages /\ delivered \in Seq(1..MaxMessages)
        /\ sent \in 0..MaxMessages /\ MaxMessages \in Nat
    BY BoundsAssumption DEF IInv, TypeOK
  <2>3. \E n \in 1..MaxMessages : Gone(n)
    <3>1. CASE body # 0
      BY <2>2, <3>1 DEF Gone
    <3>2. CASE delivered # <<>>
      <4>1. 1 \in DOMAIN delivered /\ delivered[1] \in 1..MaxMessages
        BY <2>2, <3>2, TailCells
      <4> QED
        BY <4>1 DEF Gone
    <3> QED
      BY <2>1, <3>1, <3>2
  <2>4. sent > 0
    BY <2>2, <2>3 DEF IInv, Safe, ChannelOrder
  <2> QED
    BY <2>1, <2>4
<1> QED
  BY <1>1, <1>2, <1>3, <1>4, <1>5

-----------------------------------------------------------------------------
(* The refinement of MessageStream.                                        *)

\* What a stream's step is to change.
StreamStep == [Stream!Next]_(Stream!vars)

\* A frame that readLoop reads, an abort and a race of two readers.
LEMMA SideSteps ==
  ASSUME IInv, UNCHANGED <<delivered, eof>>,
         \/ UNCHANGED <<ctxDone, raced>>
            /\ (sent' = sent \/ (sent' = sent + 1 /\ reader = "reading"))
         \/ UNCHANGED <<sent, raced>> /\ ctxDone' = TRUE
         \/ UNCHANGED <<sent, ctxDone>> /\ raced' = TRUE
  PROVE  StreamStep
<1>1. eof => reader # "reading"
  BY DEF IInv, Safe, EndSeen, Ended
<1>2. ctxDone \in BOOLEAN /\ raced \in BOOLEAN /\ eof \in BOOLEAN
  BY DEF IInv, TypeOK
<1>3. CASE UNCHANGED <<ctxDone, raced>> /\ sent' = sent
  BY <1>3 DEF StreamStep, Stream!vars
<1>4. CASE /\ UNCHANGED <<ctxDone, raced>>
           /\ sent' = sent + 1 /\ reader = "reading"
  BY <1>1, <1>4 DEF StreamStep, Stream!Next, Stream!Produce
<1>5. CASE UNCHANGED <<sent, raced>> /\ ctxDone' = TRUE
  BY <1>2, <1>5 DEF StreamStep, Stream!vars, Stream!Next, Stream!Cut
<1>6. CASE UNCHANGED <<sent, ctxDone>> /\ raced' = TRUE
  BY <1>2, <1>6 DEF StreamStep, Stream!vars, Stream!Next, Stream!Mix
<1> QED
  BY <1>3, <1>4, <1>5, <1>6

\* io.EOF.
LEMMA TellStep ==
  ASSUME IInv, IInv', eof', UNCHANGED <<sent, delivered, ctxDone, raced>>
  PROVE  StreamStep
<1>1. eof \in BOOLEAN /\ eof' \in BOOLEAN
  BY DEF IInv, TypeOK
<1>2. CASE eof
  BY <1>1, <1>2 DEF StreamStep, Stream!vars
<1>3. CASE ~eof
  <2>1. ~raced /\ ~ctxDone => Len(delivered) = sent
    BY DEF IInv, Safe, Complete
  <2> QED
    BY <1>1, <1>3, <2>1 DEF StreamStep, Stream!Next, Stream!Tell
<1> QED
  BY <1>2, <1>3

\* A message for the handler.
LEMMA ReceiveStep ==
  ASSUME IInv, IInv', ~eof, NEW m \in 1..MaxMessages,
         delivered' = Append(delivered, m),
         UNCHANGED <<sent, eof, ctxDone, raced>>
  PROVE  StreamStep
<1> DEFINE n == Len(delivered)
<1>1. /\ n \in Nat /\ DOMAIN delivered = 1..n
      /\ DOMAIN delivered' = 1..(n + 1) /\ delivered'[n + 1] = m
      /\ \A i \in 1..n : delivered'[i] = delivered[i]
  <2>1. delivered \in Seq(1..MaxMessages)
    BY DEF IInv, TypeOK
  <2> QED
    BY <2>1, SeqCells, AppendCells
<1> HIDE DEF n
<1>2. n + 1 \in DOMAIN delivered' /\ \A i \in 1..n : i \in DOMAIN delivered'
  BY <1>1
<1>3. m \in 1..sent
  <2>1. Gone(m)'
    BY <1>1, <1>2 DEF Gone
  <2>2. m <= sent' /\ sent \in Nat /\ MaxMessages \in Nat
    BY <2>1, BoundsAssumption DEF IInv, Safe, ChannelOrder, TypeOK
  <2> QED
    BY <2>2
<1>4. \A i \in DOMAIN delivered : delivered[i] # m
  <2>1. \A i, j \in DOMAIN delivered' : i # j => delivered'[i] # delivered'[j]
    BY DEF IInv, Safe, Once
  <2> QED
    BY <1>1, <1>2, <2>1
<1>5. ~raced => \A i \in DOMAIN delivered : delivered[i] < m
  <2>1. ~raced =>
          \A i, j \in DOMAIN delivered' : i < j => delivered'[i] < delivered'[j]
    BY DEF IInv, Safe, Sorted, Increasing
  <2> QED
    BY <1>1, <1>2, <2>1
<1>6. ~raced /\ ~ctxDone => m = n + 1
  <2>1. ~raced /\ ~ctxDone => \A i \in DOMAIN delivered' : delivered'[i] = i
    BY DEF IInv, Safe, Complete
  <2> QED
    BY <1>1, <1>2, <2>1
<1>7. Stream!Receive(m)
  BY <1>4, <1>5, <1>6 DEF Stream!Receive, n
<1> QED
  BY <1>3, <1>7 DEF StreamStep, Stream!Next

\* CheckReceived hands out requestBody, or turns to the channel.
LEMMA CheckIsStreamStep ==
  ASSUME IInv, IInv', NEW k \in Consumers, CheckReceived(k)
  PROVE  StreamStep
<1>1. /\ TypeOK /\ Eof /\ body \in 0..MaxMessages
      /\ raced \in BOOLEAN /\ (~raced => Alone)
  BY DEF IInv, Safe, TypeOK
<1>2. CheckEffect(k)
  BY <1>1, CheckCases
<1>3. /\ UNCHANGED <<sent, eof, ctxDone>> /\ pc[k] = "check"
      /\ raced' = (raced \/ (kind = "bidiClient" /\ k = "handler"
                               /\ Active("leg")))
  BY <1>2 DEF CheckEffect, peerVars
<1>4. CASE /\ k = "handler" /\ body # 0
           /\ delivered' = Append(delivered, body)
  <2>1. ~eof
    BY <1>1, <1>3, <1>4 DEF Eof, Active
  <2>2. raced' = raced
    BY <1>1, <1>3, <1>4 DEF Alone
  <2>3. body \in 1..MaxMessages
    BY <1>1, <1>4, BoundsAssumption
  <2> QED
    BY <1>3, <1>4, <2>1, <2>2, <2>3, ReceiveStep
<1>5. CASE UNCHANGED delivered
  <2>1. raced' = raced \/ raced' = TRUE
    BY <1>1, <1>3
  <2>2. UNCHANGED <<delivered, eof>> /\ sent' = sent /\ UNCHANGED ctxDone
    BY <1>3, <1>5
  <2>3. CASE raced' = raced
    BY <2>2, <2>3, SideSteps
  <2>4. CASE raced' = TRUE
    BY <2>2, <2>4, SideSteps
  <2> QED
    BY <2>1, <2>3, <2>4
<1> QED
  BY <1>2, <1>4, <1>5 DEF CheckEffect

\* Process hands out a message, or learns the end.
LEMMA ProcessIsStreamStep ==
  ASSUME IInv, IInv', NEW k \in Consumers, Process(k)
  PROVE  StreamStep
<1>1. /\ TypeOK /\ FramesProper /\ Eof /\ eof \in BOOLEAN
      /\ taken[k].msg \in 0..MaxMessages
      /\ taken[k].typ = "MESSAGE" => taken[k].msg # 0
  <2>1. TypeOK /\ FramesProper /\ Eof
    BY DEF IInv, Safe
  <2>2. taken[k] \in Frames /\ Proper(taken[k])
    BY <2>1 DEF TypeOK, FramesProper
  <2> QED
    BY <2>1, <2>2 DEF Frames, Proper, TypeOK
<1>2. ProcessEffect(k)
  BY <1>1, ProcessCases
<1>3. UNCHANGED <<sent, ctxDone, raced>> /\ pc[k] = "process"
  BY <1>2 DEF ProcessEffect, peerVars
<1>4. CASE /\ k = "handler" /\ taken[k].typ = "MESSAGE"
           /\ delivered' = Append(delivered, taken[k].msg) /\ UNCHANGED eof
  <2>1. ~eof
    BY <1>1, <1>3, <1>4 DEF Eof, Active
  <2>2. taken[k].msg \in 1..MaxMessages
    BY <1>1, <1>4, BoundsAssumption
  <2> QED
    BY <1>3, <1>4, <2>1, <2>2, ReceiveStep
<1>5. CASE UNCHANGED <<delivered, eof>>
  BY <1>3, <1>5, SideSteps
<1>6. CASE eof' = TRUE /\ UNCHANGED delivered
  BY <1>3, <1>6, TellStep
<1>7. \/ /\ k = "handler" /\ taken[k].typ = "MESSAGE"
         /\ delivered' = Append(delivered, taken[k].msg) /\ UNCHANGED eof
      \/ UNCHANGED <<delivered, eof>>
      \/ eof' = TRUE /\ UNCHANGED delivered
  BY <1>1, <1>2 DEF ProcessEffect
<1> QED
  BY <1>4, <1>5, <1>6, <1>7

\* No message has been received before the call begins.
LEMMA StreamInit == Init => Stream!Init
BY DEF Init, Stream!Init

\* Each step of the connection is a step of the stream, or none.
LEMMA StepIsStreamStep ==
  ASSUME IInv, IInv', [Next]_vars
  PROVE  StreamStep
<1> USE DEF peerVars, readVars, chanVars, recvVars, sendVars
<1>1. ctxDone \in BOOLEAN /\ eof \in BOOLEAN
  BY DEF IInv, TypeOK
<1>2. CASE UNCHANGED <<delivered, eof, raced, sent, ctxDone>>
  BY <1>2, SideSteps
<1>3. CASE UNCHANGED <<delivered, eof, raced, sent>> /\ ctxDone' = TRUE
  BY <1>3, SideSteps
<1>4. CASE Environment
  <2>1. ASSUME NEW typ \in {"HEADERS", "BAD_HEADERS", "MESSAGE"}, ReadFrame(typ)
        PROVE  StreamStep
    <3>1. /\ UNCHANGED <<delivered, eof, ctxDone, raced>>
          /\ sent' = sent \/ (sent' = sent + 1 /\ reader = "reading")
      BY <2>1 DEF ReadFrame
    <3> QED
      BY <3>1, SideSteps
  <2>2. CASE ReadHalfClose \/ ReadCancel \/ ResponseBreaks
    BY <1>2, <2>2 DEF ReadHalfClose, ReadCancel, ReadLast, ResponseBreaks
  <2>3. CASE ReadError \/ RequestEnds \/ SessionTerminates
    BY <1>2, <1>3, <2>3 DEF ReadError, RequestEnds, SessionTerminates, FinishWith
  <2> QED
    BY <1>4, <2>1, <2>2, <2>3 DEF Environment
<1>5. CASE Reader
  BY <1>2, <1>3, <1>5 DEF Reader, Push, PushInbound, PushGivesUp, CancelContext,
     InvokeTerminate, CloseInbound, FinishWith
<1>6. ASSUME NEW k \in Consumers, Consume(k)
      PROVE  StreamStep
  <2>1. CASE CheckReceived(k)
    BY <2>1, CheckIsStreamStep
  <2>2. CASE TakeFrame(k) \/ TakeContextDone(k)
    BY <1>2, <2>2 DEF TakeFrame, TakeContextDone
  <2>3. CASE TakeEnd(k)
    <3>1. /\ UNCHANGED <<sent, delivered, ctxDone, raced>>
          /\ eof' = eof \/ eof' = TRUE
      BY <1>1, <2>3 DEF TakeEnd
    <3>2. CASE eof' = eof
      BY <1>2, <3>1, <3>2
    <3>3. CASE eof' = TRUE
      BY <3>1, <3>3, TellStep
    <3> QED
      BY <3>1, <3>2, <3>3
  <2>4. CASE Process(k)
    BY <2>4, ProcessIsStreamStep
  <2> QED
    BY <1>6, <2>1, <2>2, <2>3, <2>4 DEF Consume
<1>7. CASE DecodeRequest
  <2>1. /\ kind = "unary" /\ pc["handler"] = "running" /\ delivered = <<>>
        /\ delivered' = Append(delivered, body)
        /\ UNCHANGED <<sent, eof, ctxDone, raced>>
    BY <1>7 DEF DecodeRequest, Deliver
  <2>2. ~eof /\ body \in 1..MaxMessages
    BY <2>1, BoundsAssumption DEF IInv, Safe, Eof, Requested, TypeOK
  <2> QED
    BY <2>1, <2>2, ReceiveStep
<1>8. CASE CallRecvMsg \/ CallSendHeader \/ UNCHANGED vars
            \/ (\E o \in {"ok", "handlerError"} : HandlerReturns(o))
  BY <1>2, <1>8 DEF CallRecvMsg, CallSendHeader, vars, HandlerReturns
<1>9. CASE CallSendMsg \/ SendReply
  BY <1>2, <1>3, <1>9 DEF CallSendMsg, SendReply, Send
<1>10. CASE FinishCall \/ LegFails
  BY <1>2, <1>3, <1>10 DEF FinishCall, LegFails, FinishWith
<1> QED
  BY <1>4, <1>5, <1>6, <1>7, <1>8, <1>9, <1>10 DEF Next, Handler

-----------------------------------------------------------------------------
(* Theorems.                                                               *)

\* The invariant holds of every reachable state of every call.
LEMMA Invariance == Spec => []IInv
BY InitInv, InvStep, PTL DEF Spec

\* Every variable keeps its type, and the channel of readLoop its capacity,
\* which pushInbound's select relies on.
THEOREM TypeCorrect == Spec => []TypeOK
<1>1. IInv => TypeOK
  BY DEF IInv
<1> QED
  BY <1>1, Invariance, PTL

\* RecvMsg hands out no message twice, and unless it raced with the leg for
\* the first frames, in the order of the client.
THEOREM KeepsOrder == Spec => []InOrder
<1>1. IInv => InOrder
  BY InvMeans
<1> QED
  BY <1>1, Invariance, PTL

\* A connection that is not cancelled loses no message between the body and
\* the handler, whatever the selects of readFrame and pushInbound choose.
THEOREM LosesNothing == Spec => []NoGap
<1>1. IInv => NoGap
  BY InvMeans
<1> QED
  BY <1>1, Invariance, PTL

\* io.EOF on a connection that is not cancelled means what it says.
THEOREM EndsTruthfully == Spec => []EndIsComplete
<1>1. IInv => EndIsComplete
  BY InvMeans
<1> QED
  BY <1>1, Invariance, PTL

\* Handler, sessions and timers write one response between them, in the order
\* that the client's decoder expects, with its TRAILERS written once.
THEOREM AnswersWellFormed == Spec => []ResponseWellFormed
<1>1. IInv => ResponseWellFormed
  BY InvMeans
<1> QED
  BY <1>1, Invariance, PTL

\* consumeUnaryRequest and consumeServerStreamRequest let no handler run
\* without the request that it is given.
THEOREM HandlesRequests == Spec => []HandlerHasRequest
<1>1. IInv => HandlerHasRequest
  BY InvMeans
<1> QED
  BY <1>1, Invariance, PTL

\* To the handler, a connection is a MessageStream: readLoop, the channel, the
\* receiving loops and requestBody between them hand it the client's messages
\* as the abstract stream does, in every kind of call.
THEOREM Implementation == Spec => ImplementsStream
<1>1. IInv /\ IInv' /\ [Next]_vars => [Stream!Next]_(Stream!vars)
  BY StepIsStreamStep DEF StreamStep
<1> QED
  BY <1>1, StreamInit, Invariance, PTL DEF Spec, ImplementsStream, Stream!Spec

=============================================================================
