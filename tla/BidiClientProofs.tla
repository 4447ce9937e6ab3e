--------------------------- MODULE BidiClientProofs ---------------------------
(***************************************************************************)
(* Theorems of BidiClient, for any number of messages in either direction: *)
(* what iterateBidiStream promises its caller, and that it leaves nothing  *)
(* behind.                                                                 *)
(***************************************************************************)
EXTENDS BidiClient, ClientSessionProofs

-----------------------------------------------------------------------------
(* The inductive invariant.                                                *)

CallTypes ==
  /\ main \in {"start", "opening", "looping", "suspended", "joining", "ended"}
  /\ task \in {"none", "starting", "sending", "draining", "resolved",
               "rejected"}
  /\ timer \in {"none", "armed", "cleared"}
  /\ connected \in BOOLEAN
  /\ elapsed \in BOOLEAN
  /\ yielded \in Seq(1..MaxMessages)
  /\ result \in {"none", "returned", "threw", "stopped"}

Types == ConnInv /\ SessInv /\ CallTypes

\* The consumer and RpcSession.messages share what the server leg brought.
Shared == Numbered(yielded, messages[ServerLeg], arrived[ServerLeg])

\* The POSTs follow the generator: none before it starts, the client leg's
\* with the task, and nothing is open when it is over.
PostsFollow ==
  /\ main = "start" => http[ServerLeg] = "idle"
  /\ task = "none" <=> timer = "none"
  /\ task = "none" => http[ClientLeg] = "idle"
  /\ main \in {"start", "opening"} => task = "none"
  /\ main \in {"looping", "suspended", "joining"} => task # "none"
  /\ main = "ended" =>
       /\ \A c \in Posts : http[c] \in {"idle", "ended"}
       /\ task # "none" => closed[ClientLeg]

\* What each of the two waits behind the other has seen.
Progress ==
  /\ task \in {"draining", "resolved"} =>
       /\ sent[ClientLeg] # <<>>
       /\ sent[ClientLeg][Len(sent[ClientLeg])] = "HALF_CLOSE"
  /\ task = "resolved" => trailers[ClientLeg] = "ok"
  /\ main = "joining" \/ result = "returned" =>
       messages[ServerLeg] = <<>> /\ trailers[ServerLeg] = "ok"
  /\ result = "returned" => main = "ended" /\ task = "resolved"

IInv == Types /\ Shared /\ PostsFollow /\ Progress

-----------------------------------------------------------------------------
(* Its steps.                                                              *)

\* The names of the legs.
LEMMA TwoPosts ==
  /\ ServerLeg \in Posts /\ ClientLeg \in Posts /\ ServerLeg # ClientLeg
  /\ \A c \in Posts : c = ServerLeg \/ c = ClientLeg
  /\ {ServerLeg} \in SUBSET Posts /\ {ServerLeg, ClientLeg} \in SUBSET Posts
BY LegsAssumption

\* A call begins with nothing sent and nothing received.
LEMMA InitInv == Init => IInv
<1> SUFFICES ASSUME Init
             PROVE  IInv
  OBVIOUS
<1>1. /\ ServerLeg \in Posts /\ ClientLeg \in Posts
      /\ <<>> \in Seq(Nat) /\ Len(<<>>) = 0 /\ <<>> \in Seq(1..MaxMessages)
  BY TwoPosts, EmptySeq
<1>2. /\ main = "start" /\ task = "none" /\ timer = "none" /\ yielded = <<>>
      /\ result = "none" /\ connected \in BOOLEAN /\ elapsed \in BOOLEAN
  BY DEF Init
<1>3. SessionInit
  BY DEF Init
<1>4. Types
  BY <1>1, <1>2, <1>3, SessionStarts DEF Types, CallTypes
<1>5. /\ messages[ServerLeg] = <<>> /\ arrived[ServerLeg] = 0
      /\ http[ServerLeg] = "idle" /\ http[ClientLeg] = "idle"
  BY <1>1, <1>3 DEF SessionInit
<1>6. Shared
  BY <1>2, <1>5, NothingNumbered DEF Shared
<1>7. PostsFollow /\ Progress
  BY <1>2, <1>5 DEF PostsFollow, Progress
<1> QED
  BY <1>4, <1>6, <1>7 DEF IInv

\* The end of the generator closes what it has opened.
LEMMA EndStep ==
  ASSUME IInv, main # "ended", main # "start", NEW r \in {"returned", "threw", "stopped"}, End(r),
         r = "returned" => main = "joining" /\ task = "resolved"
  PROVE  IInv'
<1>1. /\ Types /\ Shared /\ PostsFollow /\ Progress
      /\ ConnInv /\ SessInv /\ CallTypes
  BY DEF IInv, Types
<1> DEFINE cs == IF task = "none" THEN {ServerLeg} ELSE {ServerLeg, ClientLeg}
<1>2. /\ main' = "ended" /\ result' = r /\ CloseAll(cs)
      /\ timer' = (IF timer = "armed" THEN "cleared" ELSE timer)
      /\ UNCHANGED <<sessVars, task, connected, elapsed, yielded>>
  BY DEF End, ClearTimer
<1>3. cs \in SUBSET Posts /\ ServerLeg \in cs
  BY TwoPosts
<1>4. /\ ConnInv'
      /\ \A c \in cs : closed'[c] /\ http'[c] = "ended"
      /\ \A c \in Posts \ cs : http'[c] = http[c]
      /\ UNCHANGED sent
  BY <1>1, <1>2, <1>3, CloseTypes DEF CloseAll
<1>5. Types'
  BY <1>1, <1>2, <1>4 DEF Types, CallTypes, SessInv, sessVars
<1>6. Shared'
  BY <1>1, <1>2 DEF Shared, sessVars
<1>7. PostsFollow'
  <2>1. CASE task = "none"
    <3>0. http'[ServerLeg] = "ended"
      BY <1>3, <1>4
    <3>1. http'[ClientLeg] = "idle"
      <4>1. http[ClientLeg] = "idle"
        BY <1>1, <2>1 DEF PostsFollow
      <4>2. ClientLeg \in Posts \ cs
        BY <2>1, TwoPosts
      <4> QED
        BY <1>4, <4>1, <4>2
    <3>2. \A c \in Posts : http'[c] \in {"idle", "ended"}
      BY <3>0, <3>1, TwoPosts
    <3> QED
      BY <1>1, <1>2, <2>1, <3>0, <3>1, <3>2, TwoPosts DEF PostsFollow
  <2>2. CASE task # "none"
    <3>1. ClientLeg \in cs /\ ServerLeg \in cs
      BY <2>2
    <3> QED
      BY <1>1, <1>2, <1>4, <2>2, <3>1, TwoPosts DEF PostsFollow, CallTypes
  <2> QED
    BY <2>1, <2>2
<1>8. Progress'
  BY <1>1, <1>2, <1>4 DEF Progress, sessVars
<1> QED
  BY <1>5, <1>6, <1>7, <1>8 DEF IInv

\* The steps of the generator.
LEMMA GenerateStep ==
  ASSUME IInv, Generate
  PROVE  IInv'
<1>1. /\ Types /\ Shared /\ PostsFollow /\ Progress
      /\ ConnInv /\ SessInv /\ CallTypes
  BY DEF IInv, Types
<1> USE TwoPosts
<1>2. CASE OpenServerLeg
  <2>1. <<"HEADERS", "HALF_CLOSE">> \in Seq(RequestFrames)
    BY DEF RequestFrames
  <2>2. /\ sent' \in [Posts -> Seq(RequestFrames)]
        /\ sent'[ClientLeg] = sent[ClientLeg]
    BY <1>1, <1>2, <2>1, EnqueueTypes DEF OpenServerLeg, ConnInv
  <2>3. ConnInv'
    BY <1>1, <1>2, <2>2 DEF OpenServerLeg, ConnInv
  <2>4. /\ UNCHANGED <<sessVars, task, timer, connected, elapsed, yielded, result>>
        /\ main = "start" /\ main' = "opening" /\ http'[ClientLeg] = http[ClientLeg]
    BY <1>1, <1>2 DEF OpenServerLeg, ConnInv
  <2>5. Types'
    BY <1>1, <2>3, <2>4 DEF Types, CallTypes, SessInv, sessVars
  <2>6. Shared' /\ PostsFollow'
    BY <1>1, <2>4 DEF Shared, PostsFollow, sessVars
  <2>7. Progress'
    BY <1>1, <2>2, <2>4 DEF Progress, PostsFollow, sessVars
  <2> QED
    BY <2>5, <2>6, <2>7 DEF IInv
<1>3. CASE OpeningFails
  BY <1>3, EndStep DEF OpeningFails
<1>4. CASE LaunchClientLeg
  <2>1. /\ request' = [request EXCEPT ![ClientLeg] = "open"]
        /\ http' = [http EXCEPT ![ClientLeg] = "pending"]
        /\ main = "opening" /\ main' = "looping" /\ task' = "starting"
        /\ timer' = "armed"
        /\ UNCHANGED <<closed, headers, sent, sessVars, connected, elapsed,
                       yielded, result>>
    BY <1>4 DEF LaunchClientLeg, Connect
  <2>2. ConnInv'
    BY <1>1, <2>1 DEF ConnInv
  <2>3. Types'
    BY <1>1, <2>1, <2>2 DEF Types, CallTypes, SessInv, sessVars
  <2>4. Shared' /\ PostsFollow' /\ Progress'
    BY <1>1, <2>1 DEF Shared, PostsFollow, Progress, sessVars
  <2> QED
    BY <2>3, <2>4 DEF IInv
<1>5. CASE YieldMessage
  <2>1. /\ messages[ServerLeg] # <<>> /\ main = "looping"
        /\ yielded' = Append(yielded, Head(messages[ServerLeg]))
        /\ messages' = [messages EXCEPT ![ServerLeg] = Tail(@)]
        /\ main' = "suspended"
        /\ UNCHANGED <<connVars, arrived, trailers, failure, waiting, task,
                       timer, connected, elapsed, result>>
    BY <1>5 DEF YieldMessage, Looping, HasMessage
  <2>2. SessInv'
    BY <1>1, <2>1, TakeTypes
  <2>3. /\ MaxMessages \in Nat /\ arrived[ServerLeg] \in Nat
        /\ messages[ServerLeg] \in Seq(1..MaxMessages)
        /\ yielded \in Seq(1..MaxMessages)
        /\ messages'[ServerLeg] = Tail(messages[ServerLeg])
    BY <1>1, <2>1, MaxMessagesAssumption DEF SessInv, CallTypes
  <2>4. yielded' \in Seq(1..MaxMessages) /\ Shared'
    BY <1>1, <2>1, <2>3, HandsOutNext DEF Shared
  <2>5. Types'
    BY <1>1, <2>1, <2>2, <2>4 DEF Types, CallTypes, ConnInv, connVars
  <2>6. PostsFollow' /\ Progress'
    BY <1>1, <2>1 DEF PostsFollow, Progress, connVars
  <2> QED
    BY <2>4, <2>5, <2>6 DEF IInv
<1>6. CASE ThrowFailure
  BY <1>6, EndStep DEF ThrowFailure, Looping
<1>7. CASE Await
  <2>1. /\ UNCHANGED <<connVars, callVars, arrived, messages, trailers, failure>>
        /\ Wait(ServerLeg)
    BY <1>7 DEF Await, Wait
  <2>2. SessInv'
    BY <1>1, <2>1, WaitTypes
  <2>3. Types'
    BY <1>1, <2>1, <2>2 DEF Types, CallTypes, ConnInv, connVars, callVars
  <2>4. Shared' /\ PostsFollow' /\ Progress'
    BY <1>1, <2>1 DEF Shared, PostsFollow, Progress, connVars, callVars
  <2> QED
    BY <2>3, <2>4 DEF IInv
<1>8. CASE LeaveLoop
  <2>1. /\ main = "looping" /\ main' = "joining"
        /\ messages[ServerLeg] = <<>> /\ trailers[ServerLeg] = "ok"
        /\ UNCHANGED <<connVars, sessVars, task, timer, connected, elapsed,
                       yielded, result>>
    BY <1>8 DEF LeaveLoop, Looping, HasEnded
  <2>2. Types'
    BY <1>1, <2>1 DEF Types, CallTypes, ConnInv, SessInv, connVars, sessVars
  <2>3. Shared' /\ PostsFollow' /\ Progress'
    BY <1>1, <2>1 DEF Shared, PostsFollow, Progress, connVars, sessVars
  <2> QED
    BY <2>2, <2>3 DEF IInv
<1>9. CASE JoinClientLeg
  BY <1>9, EndStep DEF JoinClientLeg
<1> QED
  BY <1>2, <1>3, <1>4, <1>5, <1>6, <1>7, <1>8, <1>9 DEF Generate

\* A task that fails tells the server session; the rest is as it was.
LEMMA RejectStep ==
  ASSUME IInv, task \notin {"none", "resolved"}, Reject
  PROVE  IInv'
<1>1. /\ Types /\ Shared /\ PostsFollow /\ Progress
      /\ ConnInv /\ SessInv /\ CallTypes
  BY DEF IInv, Types
<1>2. /\ task' = "rejected" /\ Fail(ServerLeg, "leg")
      /\ UNCHANGED <<connVars, arrived, messages, trailers, main, timer,
                     connected, elapsed, yielded, result>>
  BY DEF Reject
<1>3. SessInv'
  BY <1>1, <1>2, TwoPosts, FailTypes DEF Failures
<1>4. Types'
  BY <1>1, <1>2, <1>3 DEF Types, CallTypes, ConnInv, connVars
<1>5. Shared' /\ PostsFollow' /\ Progress'
  BY <1>1, <1>2 DEF Shared, PostsFollow, Progress, connVars
<1> QED
  BY <1>4, <1>5 DEF IInv

\* The steps of the client leg's task and of the input that it sends.
LEMMA TaskStep ==
  ASSUME IInv, Task \/ Input
  PROVE  IInv'
<1>1. /\ Types /\ Shared /\ PostsFollow /\ Progress
      /\ ConnInv /\ SessInv /\ CallTypes
  BY DEF IInv, Types
<1> USE TwoPosts
<1>2. CASE SendThrows \/ InputThrows
  BY <1>2, RejectStep DEF SendThrows, InputThrows
<1>3. ASSUME NEW f \in RequestFrames, Enqueue(ClientLeg, <<f>>),
             UNCHANGED <<closed, headers, http, sessVars, main, elapsed,
                         yielded, result>>,
             request' \in [Posts -> {"none", "open", "closed"}],
             connected' \in BOOLEAN, timer' \in {"none", "armed", "cleared"},
             timer' = "none" <=> timer = "none",
             task \in {"starting", "sending"},
             \/ task' = "sending"
             \/ task' = "draining" /\ f = "HALF_CLOSE"
      PROVE  IInv'
  <2>1. <<f>> \in Seq(RequestFrames)
    OBVIOUS
  <2>2. /\ sent' \in [Posts -> Seq(RequestFrames)]
        /\ sent'[ClientLeg] = sent[ClientLeg] \o <<f>>
    BY <1>1, <1>3, <2>1, EnqueueTypes DEF ConnInv
  <2>3. Types'
    BY <1>1, <1>3, <2>2 DEF Types, CallTypes, ConnInv, SessInv, sessVars
  <2>4. Shared' /\ PostsFollow'
    BY <1>1, <1>3 DEF Shared, PostsFollow, sessVars
  <2>5. /\ sent'[ClientLeg] # <<>>
        /\ sent'[ClientLeg][Len(sent'[ClientLeg])] = f
    <3>1. sent[ClientLeg] \in Seq(RequestFrames)
      BY <1>1 DEF ConnInv
    <3>2. sent'[ClientLeg] = Append(sent[ClientLeg], f)
      BY <2>2, <3>1, AppendIsConcat
    <3> QED
      BY <3>1, <3>2, AppendProperties
  <2>6. Progress'
    BY <1>1, <1>3, <2>5 DEF Progress, sessVars
  <2> QED
    BY <2>3, <2>4, <2>6 DEF IInv
<1>4. CASE StartClientLeg
  BY <1>1, <1>3, <1>4 DEF StartClientLeg, ClearTimer, RequestFrames, ConnInv, CallTypes
<1>5. CASE SendMessage
  BY <1>1, <1>3, <1>5 DEF SendMessage, RequestFrames, ConnInv, CallTypes, callVars
<1>6. CASE FinishSending
  BY <1>1, <1>3, <1>6 DEF FinishSending, RequestFrames, ConnInv, CallTypes
<1>7. CASE DrainResponse
  <2>1. CASE Reject
    BY <1>7, <2>1, RejectStep DEF DrainResponse
  <2>2. CASE HasEnded(ClientLeg) /\ task' = "resolved"
             /\ UNCHANGED <<connVars, sessVars, main, timer, connected, elapsed,
                            yielded, result>>
    <3>1. task = "draining" /\ trailers[ClientLeg] = "ok"
      BY <1>7, <2>2 DEF DrainResponse, HasEnded
    <3>2. Types'
      BY <1>1, <2>2, <3>1 DEF Types, CallTypes, ConnInv, SessInv, connVars, sessVars
    <3>3. Shared' /\ PostsFollow' /\ Progress'
      BY <1>1, <2>2, <3>1 DEF Shared, PostsFollow, Progress, connVars, sessVars
    <3> QED
      BY <3>2, <3>3 DEF IInv
  <2>3. CASE Wait(ClientLeg) /\ UNCHANGED <<connVars, callVars>>
    <3>1. SessInv' /\ UNCHANGED <<arrived, messages, trailers, failure>>
      BY <1>1, <2>3, WaitTypes DEF Wait
    <3>2. Types'
      BY <1>1, <2>3, <3>1 DEF Types, CallTypes, ConnInv, connVars, callVars
    <3>3. Shared' /\ PostsFollow' /\ Progress'
      BY <1>1, <2>3, <3>1 DEF Shared, PostsFollow, Progress, connVars, callVars
    <3> QED
      BY <3>2, <3>3 DEF IInv
  <2> QED
    BY <1>7, <2>1, <2>2, <2>3 DEF DrainResponse
<1> QED
  BY <1>2, <1>4, <1>5, <1>6, <1>7 DEF Task, Input

\* Time.
LEMMA TimeStep ==
  ASSUME IInv, TenSecondsPass
  PROVE  IInv'
<1>1. /\ Types /\ Shared /\ PostsFollow /\ Progress
      /\ ConnInv /\ SessInv /\ CallTypes
  BY DEF IInv, Types
<1> USE TwoPosts
<1>2. /\ elapsed' = TRUE /\ main # "ended" /\ timer # "none"
      /\ UNCHANGED <<arrived, messages, trailers, main, task, timer, connected,
                     yielded, result>>
  BY DEF TenSecondsPass
<1>3. ConnInv' /\ SessInv' /\ UNCHANGED sent /\ http'[ClientLeg] = http[ClientLeg]
  <2>1. CASE Fail(ServerLeg, "timeout") /\ CloseAll({ServerLeg})
    <3>1. SessInv'
      BY <1>1, <1>2, <2>1, FailTypes DEF Failures
    <3>2. ConnInv' /\ http'[ClientLeg] = http[ClientLeg]
      BY <1>1, <2>1, CloseTypes
    <3> QED
      BY <2>1, <3>1, <3>2 DEF CloseAll
  <2>2. CASE UNCHANGED <<connVars, failure, waiting>>
    BY <1>1, <1>2, <2>2 DEF ConnInv, SessInv, connVars
  <2> QED
    BY <2>1, <2>2 DEF TenSecondsPass
<1>4. Types'
  BY <1>1, <1>2, <1>3 DEF Types, CallTypes
<1>5. Shared'
  BY <1>1, <1>2 DEF Shared
<1>6. PostsFollow' /\ Progress'
  BY <1>1, <1>2, <1>3 DEF PostsFollow, Progress, CallTypes
<1> QED
  BY <1>4, <1>5, <1>6 DEF IInv

\* Nothing that the network does to a POST that is open takes a message away
\* or brings one twice.
LEMMA NetworkKeeps ==
  ASSUME IInv, NetworkStep
  PROVE  IInv'
<1>1. /\ Types /\ Shared /\ PostsFollow /\ Progress
      /\ ConnInv /\ SessInv /\ CallTypes
  BY DEF IInv, Types
<1> USE TwoPosts
<1>2. PICK c \in Posts, ns \in SUBSET Nat, hs \in SUBSET {"bare", "named"} :
        Network(c, ns, hs)
  <2>1. 0..2 \in SUBSET Nat /\ {0} \in SUBSET Nat
    OBVIOUS
  <2> QED
    BY <2>1 DEF NetworkStep
<1>3. /\ ConnInv' /\ SessInv'
      /\ http[c] \in {"pending", "streaming"} /\ http'[c] # "idle"
      /\ \A d \in Posts \ {c} : http'[d] = http[d]
      /\ UNCHANGED <<request, closed, sent>>
      /\ \/ UNCHANGED <<arrived, messages, trailers>>
         \/ \E n \in ns, code \in Outcomes \cup {"none"} : Chunk(c, n, code)
  BY <1>1, <1>2, NetworkTypes
<1>4. UNCHANGED callVars
  BY DEF NetworkStep
<1>5. Types'
  BY <1>1, <1>3, <1>4 DEF Types, CallTypes, callVars
<1>6. PostsFollow'
  BY <1>1, <1>3, <1>4 DEF PostsFollow, callVars
<1>7. CASE UNCHANGED <<arrived, messages, trailers>>
  BY <1>1, <1>3, <1>4, <1>5, <1>6, <1>7 DEF IInv, Shared, Progress, callVars
<1>8. ASSUME NEW n \in ns, NEW code \in Outcomes \cup {"none"}, Chunk(c, n, code)
      PROVE  IInv'
  <2>1. /\ arrived'[c] = arrived[c] + n
        /\ messages'[c] = messages[c] \o NextMessages(c, n)
        /\ trailers[c] = "none"
        /\ \A d \in Posts \ {c} : /\ arrived'[d] = arrived[d]
                                  /\ messages'[d] = messages[d]
                                  /\ trailers'[d] = trailers[d]
    BY <1>1, <1>8, ChunkTypes
  <2>2. Shared'
    <3>1. CASE c = ServerLeg
      <4>1. /\ yielded \in Seq(Nat) /\ arrived[c] \in Nat
            /\ messages[c] \in Seq(1..arrived[c])
        <5>1. 1..MaxMessages \subseteq Nat /\ yielded \in Seq(1..MaxMessages)
          BY <1>1, MaxMessagesAssumption DEF CallTypes
        <5>2. yielded \in Seq(Nat)
          BY <5>1, SeqMonotonic
        <5> QED
          BY <1>1, <5>2 DEF SessInv
      <4>2. Numbered(yielded, messages[c] \o NextMessages(c, n), arrived[c] + n)
        BY <1>1, <3>1, <4>1, PutsBehind DEF Shared, NextMessages
      <4> QED
        BY <1>4, <2>1, <3>1, <4>2 DEF Shared, callVars
    <3>2. CASE c # ServerLeg
      BY <1>1, <1>4, <2>1, <3>2 DEF Shared, callVars
    <3> QED
      BY <3>1, <3>2
  <2>3. Progress'
    BY <1>1, <1>3, <1>4, <2>1 DEF Progress, callVars
  <2> QED
    BY <1>5, <1>6, <2>2, <2>3 DEF IInv
<1> QED
  BY <1>3, <1>7, <1>8

\* Every step keeps the invariant.
LEMMA InvStep == IInv /\ [Next]_vars => IInv'
<1> SUFFICES ASSUME IInv, [Next]_vars
             PROVE  IInv'
  OBVIOUS
<1>1. CASE Generate
  BY <1>1, GenerateStep
<1>2. CASE Task \/ Input
  BY <1>2, TaskStep
<1>3. CASE TenSecondsPass
  BY <1>3, TimeStep
<1>4. CASE ConsumerPulls
  <2>1. /\ main = "suspended" /\ main' = "looping"
        /\ UNCHANGED <<connVars, sessVars, task, timer, connected, elapsed,
                       yielded, result>>
    BY <1>4 DEF ConsumerPulls
  <2>2. Types'
    BY <2>1 DEF IInv, Types, CallTypes, ConnInv, SessInv, connVars, sessVars
  <2>3. Shared' /\ PostsFollow' /\ Progress'
    BY <2>1 DEF IInv, Shared, PostsFollow, Progress, connVars, sessVars
  <2> QED
    BY <2>2, <2>3 DEF IInv
<1>5. CASE ConsumerStops
  BY <1>5, EndStep DEF ConsumerStops
<1>6. CASE NetworkStep
  BY <1>6, NetworkKeeps
<1>7. CASE UNCHANGED vars
  <2>1. Types'
    BY <1>7 DEF IInv, Types, CallTypes, ConnInv, SessInv, vars, connVars, sessVars, callVars
  <2>2. Shared' /\ PostsFollow' /\ Progress'
    BY <1>7 DEF IInv, Shared, PostsFollow, Progress, vars, connVars, sessVars, callVars
  <2> QED
    BY <2>1, <2>2 DEF IInv
<1> QED
  BY <1>1, <1>2, <1>3, <1>4, <1>5, <1>6, <1>7 DEF Next, Over

\* The two facts the theorems rest on, put together.
LEMMA Invariance == Spec => []IInv
<1>1. Init => IInv
  BY InitInv
<1>2. IInv /\ [Next]_vars => IInv'
  BY InvStep
<1> QED
  BY <1>1, <1>2, PTL DEF Spec

-----------------------------------------------------------------------------
(* What it gives.                                                          *)

\* Every variable keeps its type; that a message number is never above the
\* messages that have arrived is the part that the steps of the network and
\* of the generator could break.
THEOREM TypeCorrect == Spec => []TypeOK
<1>1. IInv => TypeOK
  BY SessionTypes DEF IInv, Types, CallTypes, TypeOK
<1> QED
  BY <1>1, Invariance, PTL

\* iterateBidiStream yields each message of the server leg once, in order: a
\* message is with the consumer or in RpcSession.messages, never in both or
\* in neither, whatever the network, the task and the timer do meanwhile.
THEOREM EachOnce == Spec => []EachMessageOnce
<1>1. IInv => EachMessageOnce
  BY DEF IInv, Shared, Numbered, EachMessageOnce
<1> QED
  BY <1>1, Invariance, PTL

\* When the iteration completes normally, every message has been delivered,
\* the input was sent to its end, and both legs brought OK TRAILERS.
THEOREM Success == Spec => []SuccessIsComplete
<1>1. IInv => SuccessIsComplete
  <2> SUFFICES ASSUME IInv, result = "returned"
               PROVE  /\ Len(yielded) = arrived[ServerLeg]
                      /\ \A c \in Posts : trailers[c] = "ok"
                      /\ sent[ClientLeg][Len(sent[ClientLeg])] = "HALF_CLOSE"
    BY DEF SuccessIsComplete
  <2>1. /\ messages[ServerLeg] = <<>> /\ trailers[ServerLeg] = "ok"
        /\ trailers[ClientLeg] = "ok"
        /\ sent[ClientLeg][Len(sent[ClientLeg])] = "HALF_CLOSE"
    BY DEF IInv, Progress
  <2>2. yielded \in Seq(Nat) /\ <<>> \in Seq(Nat) /\ arrived[ServerLeg] \in Nat
    <3>1. 1..MaxMessages \subseteq Nat /\ yielded \in Seq(1..MaxMessages)
      BY MaxMessagesAssumption DEF IInv, Types, CallTypes
    <3>2. yielded \in Seq(Nat)
      BY <3>1, SeqMonotonic
    <3>3. arrived[ServerLeg] \in Nat
      BY TwoPosts DEF IInv, Types, SessInv
    <3> QED
      BY <3>2, <3>3, EmptySeq
  <2>3. Numbered(yielded, <<>>, arrived[ServerLeg])
    BY <2>1 DEF IInv, Shared
  <2>4. Len(yielded) + Len(<<>>) = arrived[ServerLeg] /\ Len(yielded) \in Nat
    BY <2>2, <2>3, NumberedCells
  <2>5. Len(<<>>) = 0
    BY EmptySeq
  <2>6. Len(yielded) = arrived[ServerLeg]
    BY <2>4, <2>5
  <2> QED
    BY <2>1, <2>6, TwoPosts
<1> QED
  BY <1>1, Invariance, PTL

\* A generator that is over leaves no POST behind: the finally block has closed
\* what was open, so that the task, which may still run, cannot send, and no
\* callback of the network finds a handler.
THEOREM QuietWhenOver == Spec => QuietAfterEnd
<1>1. IInv /\ [Next]_vars =>
        (main = "ended" => UNCHANGED <<connVars, arrived, messages, trailers>>)
  <2> SUFFICES ASSUME IInv, [Next]_vars, main = "ended"
               PROVE  UNCHANGED <<connVars, arrived, messages, trailers>>
    OBVIOUS
  <2>1. /\ \A c \in Posts : http[c] \in {"idle", "ended"}
        /\ task # "none" => closed[ClientLeg]
        /\ ConnInv /\ SessInv
    BY DEF IInv, PostsFollow, Types
  <2>2. CASE Generate
    BY <2>2 DEF Generate, OpenServerLeg, OpeningFails, LaunchClientLeg, Looping,
         YieldMessage, ThrowFailure, Await, LeaveLoop, JoinClientLeg
  <2>3. CASE Task
    BY <2>1, <2>3 DEF Task, SendThrows, StartClientLeg, CanSend, Reject,
         DrainResponse, Wait, sessVars
  <2>4. CASE Input
    BY <2>1, <2>4 DEF Input, SendMessage, InputThrows, FinishSending, CanSend,
         Reject
  <2>5. CASE TenSecondsPass \/ ConsumerPulls \/ ConsumerStops
    BY <2>5 DEF TenSecondsPass, ConsumerPulls, ConsumerStops
  <2>6. CASE NetworkStep
    <3>1. PICK c \in Posts, ns \in SUBSET Nat, hs \in SUBSET {"bare", "named"} :
            Network(c, ns, hs)
      <4>1. 0..2 \in SUBSET Nat /\ {0} \in SUBSET Nat
        OBVIOUS
      <4> QED
        BY <2>6, <4>1, TwoPosts DEF NetworkStep
    <3>2. http[c] \in {"pending", "streaming"}
      BY <2>1, <3>1, NetworkTypes
    <3> QED
      BY <2>1, <3>2
  <2>7. CASE Over \/ UNCHANGED vars
    BY <2>7 DEF Over, vars, sessVars
  <2> QED
    BY <2>2, <2>3, <2>4, <2>5, <2>6, <2>7 DEF Next
<1> QED
  BY <1>1, Invariance, PTL DEF QuietAfterEnd, Spec

=============================================================================
