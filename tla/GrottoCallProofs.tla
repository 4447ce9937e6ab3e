--------------------------- MODULE GrottoCallProofs ---------------------------
(***************************************************************************)
(* Theorems of GrottoCall, for any number of messages: what a unary call,  *)
(* a client stream and a server stream promise, and that they leave        *)
(* nothing behind.                                                         *)
(***************************************************************************)
EXTENDS GrottoCall, ClientSessionProofs

-----------------------------------------------------------------------------
(* The inductive invariant.                                                *)

CallTypes ==
  /\ kind \in Kinds
  /\ pc \in {"start", "sending", "receiving", "suspended", "ended"}
  /\ yielded \in Seq(1..MaxMessages)
  /\ result \in {"none", "returned", "threw", "stopped"}

Types == ConnInv /\ SessInv /\ CallTypes

\* The consumer and RpcSession.messages share what the response brought.
Shared == Numbered(yielded, messages[Post], arrived[Post])

RequestSent ==
  /\ sent[Post] # <<>>
  /\ sent[Post][Len(sent[Post])] = "HALF_CLOSE"

\* A call looks for its answer only when the request is complete, closes its
\* POST when it ends, and returns only what the response allows.
Progress ==
  /\ pc \in {"receiving", "suspended"} => RequestSent
  /\ pc = "ended" => http[Post] = "ended"
  /\ result = "returned" =>
       /\ pc = "ended"
       /\ RequestSent
       /\ trailers[Post] = "ok"
       /\ messages[Post] = <<>> <=> kind = "serverStream"

IInv == Types /\ Shared /\ Progress

-----------------------------------------------------------------------------
(* Its steps.                                                              *)

\* The only POST.
LEMMA ThePost ==
  Post \in Posts /\ \A c \in Posts : c = Post
BY PostAssumption

\* A call begins with nothing sent and nothing received.
LEMMA InitInv == Init => IInv
<1> SUFFICES ASSUME Init
             PROVE  IInv
  OBVIOUS
<1>1. /\ SessionInit /\ kind \in Kinds /\ pc = "start" /\ yielded = <<>>
      /\ result = "none"
  BY DEF Init
<1>2. <<>> \in Seq(1..MaxMessages)
  BY EmptySeq
<1>3. Types
  BY <1>1, <1>2, SessionStarts DEF Types, CallTypes
<1>4. messages[Post] = <<>> /\ arrived[Post] = 0
  BY <1>1, ThePost DEF SessionInit
<1>5. Shared
  BY <1>1, <1>4, NothingNumbered DEF Shared
<1>6. Progress
  BY <1>1 DEF Progress
<1> QED
  BY <1>3, <1>5, <1>6 DEF IInv

\* The request grows by one frame.
LEMMA RequestStep ==
  ASSUME IInv, NEW f \in RequestFrames, Enqueue(Post, <<f>>),
         UNCHANGED <<closed, headers, sessVars, kind, yielded, result>>,
         request' \in [Posts -> {"none", "open", "closed"}],
         http' \in [Posts -> {"idle", "pending", "streaming", "ended"}],
         pc \in {"start", "sending"},
         \/ pc' = "sending"
         \/ pc' = "receiving" /\ f = "HALF_CLOSE"
  PROVE  IInv'
<1>1. Types /\ Shared /\ Progress /\ ConnInv /\ SessInv /\ CallTypes
  BY DEF IInv, Types
<1>2. <<f>> \in Seq(RequestFrames) /\ sent[Post] \in Seq(RequestFrames)
  BY <1>1, ThePost DEF ConnInv
<1>3. /\ sent' \in [Posts -> Seq(RequestFrames)]
      /\ sent'[Post] = Append(sent[Post], f)
  <2>1. /\ sent' \in [Posts -> Seq(RequestFrames)]
        /\ sent'[Post] = sent[Post] \o <<f>>
    BY <1>1, <1>2, ThePost, EnqueueTypes DEF ConnInv
  <2>2. sent[Post] \o <<f>> = Append(sent[Post], f)
    BY <1>2, AppendIsConcat
  <2> QED
    BY <2>1, <2>2
<1>4. Types'
  BY <1>1, <1>3 DEF Types, CallTypes, ConnInv, SessInv, sessVars
<1>5. Shared'
  BY <1>1 DEF Shared, sessVars
<1>6. f = "HALF_CLOSE" => RequestSent'
  BY <1>2, <1>3, AppendProperties DEF RequestSent
<1>7. Progress'
  BY <1>1, <1>6 DEF Progress
<1> QED
  BY <1>4, <1>5, <1>7 DEF IInv

\* The call ends, and closes its connection.
LEMMA EndStep ==
  ASSUME IInv, NEW r \in {"returned", "threw", "stopped"}, End(r),
         r = "returned" =>
           /\ pc = "receiving"
           /\ trailers[Post] = "ok"
           /\ messages[Post] = <<>> <=> kind = "serverStream"
  PROVE  IInv'
<1>1. Types /\ Shared /\ Progress /\ ConnInv /\ SessInv /\ CallTypes
  BY DEF IInv, Types
<1>2. /\ pc' = "ended" /\ result' = r /\ CloseAll({Post})
      /\ UNCHANGED <<sessVars, kind, yielded>>
  BY DEF End
<1>3. ConnInv' /\ http'[Post] = "ended" /\ UNCHANGED sent
  BY <1>1, <1>2, ThePost, CloseTypes DEF CloseAll
<1>4. Types'
  BY <1>1, <1>2, <1>3 DEF Types, CallTypes, SessInv, sessVars
<1>5. Shared'
  BY <1>1, <1>2 DEF Shared, sessVars
<1>6. Progress'
  BY <1>1, <1>2, <1>3 DEF Progress, RequestSent, sessVars
<1> QED
  BY <1>4, <1>5, <1>6 DEF IInv

\* The call looks at the session.
LEMMA ReceiveStep ==
  ASSUME IInv, Receive
  PROVE  IInv'
<1>1. Types /\ Shared /\ Progress /\ ConnInv /\ SessInv /\ CallTypes
  BY DEF IInv, Types
<1>2. CASE ReturnReply
  BY <1>2, EndStep DEF ReturnReply, Receiving
<1>3. CASE ThrowFailure
  BY <1>3, EndStep DEF ThrowFailure
<1>4. CASE EndStream
  BY <1>4, EndStep DEF EndStream, Receiving, HasEnded
<1>5. CASE YieldMessage
  <2>1. /\ messages[Post] # <<>> /\ pc = "receiving" /\ pc' = "suspended"
        /\ yielded' = Append(yielded, Head(messages[Post]))
        /\ messages' = [messages EXCEPT ![Post] = Tail(@)]
        /\ UNCHANGED <<connVars, arrived, trailers, failure, waiting, kind,
                       result>>
    BY <1>5 DEF YieldMessage, Receiving, HasMessage
  <2>2. SessInv'
    BY <1>1, <2>1, ThePost, TakeTypes
  <2>3. /\ MaxMessages \in Nat /\ arrived[Post] \in Nat
        /\ messages[Post] \in Seq(1..MaxMessages)
        /\ yielded \in Seq(1..MaxMessages)
        /\ messages'[Post] = Tail(messages[Post])
    BY <1>1, <2>1, ThePost, MaxMessagesAssumption DEF SessInv, CallTypes
  <2>4. yielded' \in Seq(1..MaxMessages) /\ Shared'
    BY <1>1, <2>1, <2>3, HandsOutNext DEF Shared
  <2>5. Types'
    BY <1>1, <2>1, <2>2, <2>4 DEF Types, CallTypes, ConnInv, connVars
  <2>6. Progress'
    BY <1>1, <2>1 DEF Progress, RequestSent, connVars
  <2> QED
    BY <2>4, <2>5, <2>6 DEF IInv
<1>6. CASE Await
  <2>1. /\ Wait(Post)
        /\ UNCHANGED <<connVars, arrived, messages, trailers, failure, kind,
                       pc, yielded, result>>
    BY <1>6 DEF Await, Wait
  <2>2. SessInv'
    BY <1>1, <2>1, ThePost, WaitTypes
  <2>3. Types'
    BY <1>1, <2>1, <2>2 DEF Types, CallTypes, ConnInv, connVars
  <2>4. Shared' /\ Progress'
    BY <1>1, <2>1 DEF Shared, Progress, RequestSent, connVars
  <2> QED
    BY <2>3, <2>4 DEF IInv
<1> QED
  BY <1>2, <1>3, <1>4, <1>5, <1>6 DEF Receive

\* The network touches a POST only while the call is under way.
LEMMA NetworkKeeps ==
  ASSUME IInv, NetworkStep
  PROVE  IInv' /\ pc # "ended"
<1>1. Types /\ Shared /\ Progress /\ ConnInv /\ SessInv /\ CallTypes
  BY DEF IInv, Types
<1> USE ThePost
<1>2. PICK ns \in SUBSET Nat, hs \in SUBSET {"bare", "named"} :
        Network(Post, ns, hs)
  <2>1. 0..2 \in SUBSET Nat /\ 0..1 \in SUBSET Nat
    OBVIOUS
  <2> QED
    BY <2>1 DEF NetworkStep
<1>3. /\ ConnInv' /\ SessInv'
      /\ http[Post] \in {"pending", "streaming"}
      /\ UNCHANGED <<request, closed, sent>>
      /\ \/ UNCHANGED <<arrived, messages, trailers>>
         \/ \E n \in ns, code \in Outcomes \cup {"none"} : Chunk(Post, n, code)
  BY <1>1, <1>2, NetworkTypes
<1>4. UNCHANGED <<kind, pc, yielded, result>>
  BY DEF NetworkStep
<1>5. pc # "ended" /\ result # "returned"
  BY <1>1, <1>3 DEF Progress
<1>6. Types' /\ Progress'
  BY <1>1, <1>3, <1>4, <1>5 DEF Types, CallTypes, Progress, RequestSent
<1>7. Shared'
  <2>1. CASE UNCHANGED <<arrived, messages, trailers>>
    BY <1>1, <1>4, <2>1 DEF Shared
  <2>2. ASSUME NEW n \in ns, NEW code \in Outcomes \cup {"none"},
               Chunk(Post, n, code)
        PROVE  Shared'
    <3>1. /\ arrived'[Post] = arrived[Post] + n
          /\ messages'[Post] = messages[Post] \o NextMessages(Post, n)
      BY <1>1, <2>2, ChunkTypes
    <3>2. /\ yielded \in Seq(Nat) /\ arrived[Post] \in Nat
          /\ messages[Post] \in Seq(1..arrived[Post])
      <4>1. 1..MaxMessages \subseteq Nat /\ yielded \in Seq(1..MaxMessages)
        BY <1>1, MaxMessagesAssumption DEF CallTypes
      <4>2. yielded \in Seq(Nat)
        BY <4>1, SeqMonotonic
      <4> QED
        BY <1>1, <4>2 DEF SessInv
    <3>3. Numbered(yielded, messages[Post] \o NextMessages(Post, n),
                   arrived[Post] + n)
      BY <1>1, <3>2, PutsBehind DEF Shared, NextMessages
    <3> QED
      BY <1>4, <3>1, <3>3 DEF Shared
  <2> QED
    BY <1>3, <2>1, <2>2
<1> QED
  BY <1>5, <1>6, <1>7 DEF IInv

\* Every step keeps the invariant.
LEMMA InvStep == IInv /\ [Next]_vars => IInv'
<1> SUFFICES ASSUME IInv, [Next]_vars
             PROVE  IInv'
  OBVIOUS
<1>1. Types /\ Shared /\ Progress /\ ConnInv /\ SessInv /\ CallTypes
  BY DEF IInv, Types
<1>2. CASE Start
  BY <1>1, <1>2, RequestStep DEF Start, Connect, ConnInv, RequestFrames
<1>3. CASE SendMessage \/ FinishSending
  BY <1>1, <1>3, RequestStep DEF SendMessage, FinishSending, ConnInv, RequestFrames
<1>4. CASE InputThrows \/ ConsumerStops
  BY <1>4, EndStep DEF InputThrows, ConsumerStops
<1>5. CASE Receive
  BY <1>5, ReceiveStep
<1>6. CASE ConsumerPulls \/ Over \/ UNCHANGED vars
  <2>1. /\ UNCHANGED <<connVars, sessVars, kind, yielded, result>>
        /\ pc' = pc \/ (pc = "suspended" /\ pc' = "receiving")
    BY <1>6 DEF ConsumerPulls, Over, vars
  <2>2. Types'
    BY <1>1, <2>1 DEF Types, CallTypes, ConnInv, SessInv, connVars, sessVars
  <2>3. Shared' /\ Progress'
    BY <1>1, <2>1 DEF Shared, Progress, RequestSent, connVars, sessVars
  <2> QED
    BY <2>2, <2>3 DEF IInv
<1>7. CASE NetworkStep
  BY <1>7, NetworkKeeps
<1> QED
  BY <1>2, <1>3, <1>4, <1>5, <1>6, <1>7 DEF Next

\* The two facts the theorems rest on, put together.
LEMMA Invariance == Spec => []IInv
<1>1. Init => IInv
  BY InitInv
<1>2. IInv /\ [Next]_vars => IInv'
  BY InvStep
<1> QED
  BY <1>1, <1>2, PTL DEF Spec

-----------------------------------------------------------------------------
(* What it gives.                                                          *)

\* Every variable keeps its type, and no message has a number that has not
\* arrived.
THEOREM TypeCorrect == Spec => []TypeOK
<1>1. IInv => TypeOK
  BY SessionTypes DEF IInv, Types, CallTypes, TypeOK
<1> QED
  BY <1>1, Invariance, PTL

\* iterateServerStream yields each message of the response once and in order,
\* however the response was cut into chunks; the other calls leave them all
\* where onMessage put them.
THEOREM EachOnce == Spec => []EachMessageOnce
<1>1. IInv => EachMessageOnce
  BY DEF IInv, Shared, Numbered, EachMessageOnce
<1> QED
  BY <1>1, Invariance, PTL

\* A call that succeeds has sent its whole request and seen OK TRAILERS; it
\* has a reply, or, as a stream, has delivered every message.
THEOREM Success == Spec => []SuccessIsComplete
<1>1. IInv => SuccessIsComplete
  <2> SUFFICES ASSUME IInv, result = "returned"
               PROVE  /\ trailers[Post] = "ok"
                      /\ sent[Post][Len(sent[Post])] = "HALF_CLOSE"
                      /\ kind # "serverStream" => messages[Post] # <<>>
                      /\ kind = "serverStream" => Len(yielded) = arrived[Post]
    BY DEF SuccessIsComplete
  <2>1. /\ trailers[Post] = "ok"
        /\ sent[Post][Len(sent[Post])] = "HALF_CLOSE"
        /\ messages[Post] = <<>> <=> kind = "serverStream"
    BY DEF IInv, Progress, RequestSent
  <2>2. ASSUME kind = "serverStream"
        PROVE  Len(yielded) = arrived[Post]
    <3>1. 1..MaxMessages \subseteq Nat /\ yielded \in Seq(1..MaxMessages)
      BY MaxMessagesAssumption DEF IInv, Types, CallTypes
    <3>2. yielded \in Seq(Nat) /\ <<>> \in Seq(Nat) /\ Len(<<>>) = 0
      BY <3>1, SeqMonotonic, EmptySeq
    <3>3. arrived[Post] \in Nat
      BY ThePost DEF IInv, Types, SessInv
    <3>4. Numbered(yielded, <<>>, arrived[Post])
      BY <2>1, <2>2 DEF IInv, Shared
    <3>5. Len(yielded) + Len(<<>>) = arrived[Post] /\ Len(yielded) \in Nat
      BY <3>2, <3>3, <3>4, NumberedCells
    <3> QED
      BY <3>2, <3>5
  <2> QED
    BY <2>1, <2>2
<1> QED
  BY <1>1, Invariance, PTL

\* A call that is over, however it ended, has closed its POST: nothing is sent
\* on it or arrives for it any more.
THEOREM QuietWhenOver == Spec => QuietAfterEnd
<1>1. IInv /\ [Next]_vars => (pc = "ended" => UNCHANGED <<connVars, sessVars>>)
  <2> SUFFICES ASSUME IInv, [Next]_vars, pc = "ended"
               PROVE  UNCHANGED <<connVars, sessVars>>
    OBVIOUS
  <2>1. ~NetworkStep
    BY NetworkKeeps
  <2> QED
    BY <2>1 DEF Next, Start, SendMessage, FinishSending, InputThrows, Receive,
         Receiving, ReturnReply, ThrowFailure, YieldMessage, EndStream, Await,
         ConsumerPulls, ConsumerStops, Over, vars
<1> QED
  BY <1>1, Invariance, PTL DEF QuietAfterEnd, Spec

=============================================================================
