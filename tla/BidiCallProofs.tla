---------------------------- MODULE BidiCallProofs ----------------------------
(***************************************************************************)
(* Theorems of BidiCall: the call from end to end is a call of BidiClient, *)
(* so that what is proved there holds in it, and what each end learns of   *)
(* the other is true.                                                      *)
(***************************************************************************)
EXTENDS BidiCall, BidiClientProofs, FiniteSetTheorems

-----------------------------------------------------------------------------
(* The inductive invariant: that of the client, and the server's.          *)

ServerTypes ==
  /\ joined \in {ClientLeg, NoLeg}
  /\ outcome \in [Posts -> Session!Outcomes]
  /\ released \in BOOLEAN
  /\ expiry \in {"unset", "armed", "stopped", "fired"}
  /\ reason \in {"none", "expired", "cancelled", "closed", "badHeaders"}
  /\ leg \in {"none", "refused", "headers", "awaitDone", "failed"}
  /\ taken \in 0..Len(sent[ClientLeg])
  /\ stashed \in BOOLEAN
  /\ handler \in {"none", "skipped", "running", "receiving", "returned"}
  /\ verdict \in {"none", "ok", "handlerError"}
  /\ received \in Nat
  /\ eof \in BOOLEAN
  /\ produced \in 0..MaxMessages

\* The messages among the first n frames of the client leg.
MessagesIn(n) == {i \in 1..n : sent[ClientLeg][i] = "MESSAGE"}

\* Each message that was taken is with the handler, kept for it, or lost;
\* none is with it twice.
TakenOnce ==
  received + (IF stashed THEN 1 ELSE 0) <= Cardinality(MessagesIn(taken))

\* An outcome of success is the handler's.
OkIsTheHandlers ==
  /\ verdict # "none" <=> handler = "returned"
  /\ \A x \in Posts : outcome[x] = "ok" => verdict = "ok"

\* A client that has seen TRAILERS has seen the whole response.
Truthful ==
  \A x \in Posts :
    /\ arrived[x] <= Written(x)
    /\ trailers[x] # "none" =>
         /\ outcome[x] # "none"
         /\ arrived[x] = Written(x)
         /\ (trailers[x] = "ok") <=> (outcome[x] = "ok")

ServerInv == ServerTypes /\ TakenOnce /\ OkIsTheHandlers /\ Truthful

CallInv == IInv /\ ServerInv

-----------------------------------------------------------------------------
(* The messages of the client leg and the frames that were taken.          *)

\* They can be counted.
LEMMA MessagesCounted ==
  ASSUME NEW n \in Nat
  PROVE  IsFiniteSet(MessagesIn(n)) /\ Cardinality(MessagesIn(n)) \in Nat
<1>1. IsFiniteSet(1..n)
  BY FS_Interval
<1>2. MessagesIn(n) \subseteq 1..n
  BY DEF MessagesIn
<1> QED
  BY <1>1, <1>2, FS_Subset, FS_CardinalityType

\* One frame more is one message more, if it is one.
LEMMA OneMore ==
  ASSUME NEW n \in Nat
  PROVE  Cardinality(MessagesIn(n + 1)) =
           Cardinality(MessagesIn(n)) +
             (IF sent[ClientLeg][n + 1] = "MESSAGE" THEN 1 ELSE 0)
<1>1. IsFiniteSet(MessagesIn(n)) /\ Cardinality(MessagesIn(n)) \in Nat
  BY MessagesCounted
<1>2. n + 1 \notin MessagesIn(n)
  BY DEF MessagesIn
<1>3. CASE sent[ClientLeg][n + 1] = "MESSAGE"
  <2>1. MessagesIn(n + 1) = MessagesIn(n) \cup {n + 1}
    BY <1>3 DEF MessagesIn
  <2>2. Cardinality(MessagesIn(n) \cup {n + 1}) = Cardinality(MessagesIn(n)) + 1
    BY <1>1, <1>2, FS_AddElement
  <2> QED
    BY <1>3, <2>1, <2>2
<1>4. CASE sent[ClientLeg][n + 1] # "MESSAGE"
  <2>1. MessagesIn(n + 1) = MessagesIn(n)
    BY <1>4 DEF MessagesIn
  <2> QED
    BY <1>1, <1>4, <2>1
<1> QED
  BY <1>3, <1>4

\* The first frames stay what they are when others are sent behind them.
LEMMA TakenStays ==
  ASSUME CallInv,
         UNCHANGED <<taken, stashed, received>>,
         \/ sent'[ClientLeg] = sent[ClientLeg]
         \/ \E f \in RequestFrames :
              sent'[ClientLeg] = Append(sent[ClientLeg], f)
  PROVE  TakenOnce' /\ taken' \in 0..Len(sent'[ClientLeg])
<1>1. /\ sent[ClientLeg] \in Seq(RequestFrames)
      /\ taken \in 0..Len(sent[ClientLeg])
      /\ Len(sent[ClientLeg]) \in Nat
  BY TwoPosts, LenProperties DEF CallInv, IInv, Types, ConnInv, ServerInv, ServerTypes
<1>2. /\ Len(sent'[ClientLeg]) \in Nat
      /\ Len(sent'[ClientLeg]) >= Len(sent[ClientLeg])
      /\ \A i \in 1..Len(sent[ClientLeg]) :
           sent'[ClientLeg][i] = sent[ClientLeg][i]
  <2>1. CASE sent'[ClientLeg] = sent[ClientLeg]
    BY <1>1, <2>1
  <2>2. ASSUME NEW f \in RequestFrames,
               sent'[ClientLeg] = Append(sent[ClientLeg], f)
        PROVE  <1>2!1 /\ <1>2!2 /\ <1>2!3
    BY <1>1, <2>2, AppendProperties
  <2> QED
    BY <2>1, <2>2
<1>3. \A i \in 1..taken : sent'[ClientLeg][i] = sent[ClientLeg][i]
  BY <1>1, <1>2
<1>4. MessagesIn(taken)' = MessagesIn(taken)
  BY <1>3 DEF MessagesIn
<1>5. TakenOnce'
  BY <1>4 DEF CallInv, ServerInv, TakenOnce
<1> QED
  BY <1>1, <1>2, <1>5

\* What is left in the channel begins with the first frame nobody took.
LEMMA FirstUntaken ==
  ASSUME CallInv, Untaken # <<>>
  PROVE  /\ taken + 1 \in 1..Len(sent[ClientLeg])
         /\ Head(Untaken) = sent[ClientLeg][taken + 1]
         /\ Head(Untaken) \in RequestFrames
<1> DEFINE s == sent[ClientLeg]
           u == SubSeq(s, taken + 1, Len(s))
<1>1. s \in Seq(RequestFrames) /\ taken \in 0..Len(s) /\ Len(s) \in Nat
  BY TwoPosts, LenProperties DEF CallInv, IInv, Types, ConnInv, ServerInv, ServerTypes
<1>2. u # <<>>
  BY DEF Untaken
<1>3. taken + 1 <= Len(s)
  <2>1. SUFFICES ASSUME ~(taken + 1 <= Len(s))
                 PROVE  u = <<>>
    BY <1>2
  <2> QED
    BY <1>1, <2>1
<1>4. u[1] = s[taken + 1] /\ s[taken + 1] \in RequestFrames
  BY <1>1, <1>3
<1>5. Head(u) = u[1]
  BY <1>1, <1>2
<1> QED
  BY <1>1, <1>3, <1>4, <1>5 DEF Untaken

-----------------------------------------------------------------------------
(* The call is one of BidiClient.                                          *)

\* It begins as one.
LEMMA CallStarts == CallInit => CallInv
<1> SUFFICES ASSUME CallInit
             PROVE  CallInv
  OBVIOUS
<1> USE TwoPosts
<1>1. IInv
  BY InitInv DEF CallInit
<1>2. /\ outcome = [x \in Posts |-> "none"] /\ joined = NoLeg /\ released = FALSE
  BY LegsAssumption DEF CallInit, Session!Init, Session!Legs
<1>3. /\ sent[ClientLeg] = <<>> /\ Len(sent[ClientLeg]) = 0
      /\ \A x \in Posts : arrived[x] = 0 /\ trailers[x] = "none"
  BY EmptySeq DEF CallInit, Init, SessionInit
<1>4. /\ expiry = "unset" /\ reason = "none" /\ leg = "none" /\ taken = 0
      /\ stashed = FALSE /\ handler = "none" /\ verdict = "none"
      /\ received = 0 /\ eof = FALSE /\ produced = 0
  BY DEF CallInit
<1>5. ServerTypes
  <2>1. taken \in 0..Len(sent[ClientLeg]) /\ produced \in 0..MaxMessages
    BY <1>3, <1>4, MaxMessagesAssumption
  <2>2. outcome \in [Posts -> Session!Outcomes]
    BY <1>2 DEF Session!Outcomes
  <2> QED
    BY <1>2, <1>4, <2>1, <2>2 DEF ServerTypes
<1>6. TakenOnce
  BY <1>4, MessagesCounted DEF TakenOnce
<1>7. OkIsTheHandlers /\ Truthful
  BY <1>2, <1>3, <1>4 DEF OkIsTheHandlers, Truthful, Written
<1> QED
  BY <1>1, <1>5, <1>6, <1>7 DEF CallInv, ServerInv

\* What the server puts into a response is what BidiClient's network may
\* bring: messages come with the server leg only.
LEMMA DeliverIsNetwork ==
  ASSUME CallInv, Deliver
  PROVE  NetworkStep
<1>1. UNCHANGED callVars
  BY DEF Deliver
<1>2. PICK x \in Posts :
        \/ ResponseArrives(x, IF x = ServerLeg THEN "named" ELSE "bare")
        \/ \E n \in 0..2, code \in Outcomes \cup {"none"} : DeliverChunk(x, n, code)
  BY DEF Deliver
<1>3. CASE x = ServerLeg
  BY <1>1, <1>2, <1>3 DEF NetworkStep, Network, DeliverChunk
<1>4. CASE x = ClientLeg
  <2>1. ASSUME NEW n \in 0..2, NEW code \in Outcomes \cup {"none"},
               DeliverChunk(x, n, code)
        PROVE  n = 0
    <3>1. arrived[x] \in Nat
      BY DEF CallInv, IInv, Types, SessInv
    <3>2. arrived[x] + n <= 0
      BY <1>4, <2>1, TwoPosts DEF DeliverChunk, Written
    <3> QED
      BY <3>1, <3>2
  <2> QED
    BY <1>1, <1>2, <1>4, <2>1, TwoPosts DEF NetworkStep, Network, DeliverChunk
<1> QED
  BY <1>3, <1>4, TwoPosts

\* Every step is one of BidiClient, or none for it.
LEMMA CallStepIsClientStep ==
  ASSUME CallInv, [CallNext]_allVars
  PROVE  [Next]_vars
<1>1. CASE \/ ClientStep(Generate) \/ ClientStep(Task) \/ ClientStep(Input)
           \/ ClientStep(ConsumerPulls) \/ ClientStep(ConsumerStops)
  BY <1>1 DEF ClientStep, Next
<1>2. CASE Deliver
  BY <1>2, DeliverIsNetwork DEF Next
<1>3. CASE NetworkFails \/ RefuseLeg
  BY <1>3, TwoPosts DEF NetworkFails, RefuseLeg, Next, NetworkStep, Network
<1>4. CASE \/ OpenSession \/ TimerFires \/ JoinLeg \/ TerminateSession \/ Settle
           \/ Release \/ LegHeaders \/ LegHeadersFail \/ HandlerStarts
           \/ HandlerTakes \/ HandlerReceivesNothing \/ Handle
  BY <1>4 DEF OpenSession, TimerFires, JoinLeg, TerminateSession, Settle,
       SettleLeg, Release, LegHeaders, LegHeadersFail, HandlerStarts,
       HandlerTakes, HandlerReceivesNothing, Handle, HandlerReceives,
       HandlerSends, HandlerReturns
<1>5. CASE UNCHANGED allVars
  BY <1>5 DEF allVars
<1> QED
  BY <1>1, <1>2, <1>3, <1>4, <1>5 DEF CallNext, Serve

-----------------------------------------------------------------------------
(* Its steps.                                                              *)

\* The client sends frames and learns nothing by itself.
LEMMA ClientKeeps ==
  ASSUME CallInv,
         \/ ClientStep(Generate) \/ ClientStep(Task) \/ ClientStep(Input)
         \/ ClientStep(ConsumerPulls) \/ ClientStep(ConsumerStops)
  PROVE  ServerInv'
<1> USE TwoPosts
<1>1. /\ sent \in [Posts -> Seq(RequestFrames)]
      /\ sent[ClientLeg] \in Seq(RequestFrames)
  BY DEF CallInv, IInv, Types, ConnInv
<1>2. /\ UNCHANGED serverVars
      /\ Generate \/ Task \/ Input \/ ConsumerPulls \/ ConsumerStops
  BY DEF ClientStep
<1>3. UNCHANGED <<arrived, trailers>>
  BY <1>2 DEF Generate, OpenServerLeg, OpeningFails, LaunchClientLeg, YieldMessage,
       ThrowFailure, Await, LeaveLoop, JoinClientLeg, Task, SendThrows,
       StartClientLeg, DrainResponse, Input, SendMessage, InputThrows,
       FinishSending, ConsumerPulls, ConsumerStops, End, Reject, Wait, sessVars
<1>4. \/ sent'[ClientLeg] = sent[ClientLeg]
      \/ \E f \in RequestFrames : sent'[ClientLeg] = Append(sent[ClientLeg], f)
  <2>1. ASSUME NEW f \in RequestFrames, Enqueue(ClientLeg, <<f>>)
        PROVE  sent'[ClientLeg] = Append(sent[ClientLeg], f)
    <3>1. sent'[ClientLeg] = sent[ClientLeg] \o <<f>>
      BY <1>1, <2>1 DEF Enqueue
    <3> QED
      BY <1>1, <3>1, AppendIsConcat
  <2>2. CASE StartClientLeg \/ SendMessage \/ FinishSending
    BY <2>1, <2>2 DEF StartClientLeg, SendMessage, FinishSending, RequestFrames
  <2>3. CASE OpenServerLeg
    BY <1>1, <2>3 DEF OpenServerLeg, Enqueue
  <2>4. CASE \/ OpeningFails \/ LaunchClientLeg \/ YieldMessage \/ ThrowFailure
             \/ Await \/ LeaveLoop \/ JoinClientLeg \/ SendThrows
             \/ DrainResponse \/ InputThrows \/ ConsumerPulls \/ ConsumerStops
    BY <2>4 DEF OpeningFails, LaunchClientLeg, YieldMessage, ThrowFailure, Await,
         LeaveLoop, JoinClientLeg, SendThrows, DrainResponse, InputThrows,
         ConsumerPulls, ConsumerStops, End, CloseAll, Reject, connVars
  <2> QED
    BY <1>2, <2>2, <2>3, <2>4 DEF Generate, Task, Input
<1>5. TakenOnce' /\ taken' \in 0..Len(sent'[ClientLeg])
  BY <1>2, <1>4, TakenStays DEF serverVars, legVars, handlerVars
<1>6. ServerTypes'
  BY <1>2, <1>5 DEF CallInv, ServerInv, ServerTypes, serverVars, sessionVars,
       legVars, handlerVars
<1>7. OkIsTheHandlers' /\ Truthful'
  BY <1>2, <1>3 DEF CallInv, ServerInv, OkIsTheHandlers, Truthful, Written,
       serverVars, sessionVars, legVars, handlerVars
<1> QED
  BY <1>5, <1>6, <1>7 DEF ServerInv

\* What arrives was written, and TRAILERS arrive last.
LEMMA DeliverKeeps ==
  ASSUME CallInv, Deliver
  PROVE  ServerInv'
<1> USE TwoPosts
<1>1. UNCHANGED serverVars
  BY DEF Deliver
<1>2. SessInv /\ ServerInv
  BY DEF CallInv, IInv, Types
<1>3. PICK x \in Posts :
        \/ ResponseArrives(x, IF x = ServerLeg THEN "named" ELSE "bare")
        \/ \E n \in 0..2, code \in Outcomes \cup {"none"} : DeliverChunk(x, n, code)
  BY DEF Deliver
<1>4. UNCHANGED sent
  BY <1>3 DEF ResponseArrives, DeliverChunk, Chunk, Dispatch, connVars
<1>5. TakenOnce' /\ taken' \in 0..Len(sent'[ClientLeg])
  BY <1>1, <1>4, TakenStays DEF serverVars, legVars, handlerVars
<1>6. ServerTypes'
  BY <1>1, <1>2, <1>5 DEF ServerInv, ServerTypes, serverVars, sessionVars, legVars,
       handlerVars
<1>7. UNCHANGED <<outcome, verdict, handler, produced>>
  BY <1>1 DEF serverVars, sessionVars, handlerVars
<1>8. OkIsTheHandlers' /\ \A y \in Posts : Written(y)' = Written(y)
  BY <1>2, <1>7 DEF ServerInv, OkIsTheHandlers, Written
<1>9. Truthful'
  <2>1. CASE ResponseArrives(x, IF x = ServerLeg THEN "named" ELSE "bare")
    BY <1>2, <1>7, <1>8, <2>1 DEF ServerInv, Truthful, ResponseArrives, sessVars
  <2>2. ASSUME NEW n \in 0..2, NEW code \in Outcomes \cup {"none"},
               DeliverChunk(x, n, code)
        PROVE  Truthful'
    <3>1. /\ arrived'[x] = arrived[x] + n /\ trailers'[x] = code
          /\ \A d \in Posts \ {x} : /\ arrived'[d] = arrived[d]
                                    /\ trailers'[d] = trailers[d]
      <4>1. n \in Nat /\ Chunk(x, n, code)
        BY <2>2 DEF DeliverChunk
      <4> QED
        BY <1>2, <4>1, ChunkTypes
    <3>2. /\ arrived[x] + n <= Written(x)
          /\ code # "none" =>
               /\ outcome[x] # "none" /\ arrived[x] + n = Written(x)
               /\ (code = "ok") <=> (outcome[x] = "ok")
      BY <2>2 DEF DeliverChunk
    <3> QED
      BY <1>2, <1>7, <1>8, <3>1, <3>2 DEF ServerInv, Truthful
  <2> QED
    BY <1>3, <2>1, <2>2
<1> QED
  BY <1>5, <1>6, <1>8, <1>9 DEF ServerInv

\* The goroutines of the session, but for those that take frames.
LEMMA SessionKeeps ==
  ASSUME CallInv,
         \/ RefuseLeg \/ OpenSession \/ TimerFires \/ JoinLeg
         \/ TerminateSession \/ Settle \/ Release \/ LegHeadersFail
         \/ HandlerStarts \/ HandlerReceivesNothing \/ HandlerSends
         \/ HandlerReturns \/ NetworkFails \/ UNCHANGED allVars
  PROVE  ServerInv'
<1> USE TwoPosts
<1>1. /\ ServerTypes /\ TakenOnce /\ OkIsTheHandlers /\ Truthful
  BY DEF CallInv, ServerInv
<1>2. UNCHANGED <<sent, arrived, trailers, taken, stashed, received>>
  BY DEF RefuseLeg, OpenSession, TimerFires, JoinLeg, TerminateSession, Settle,
       SettleLeg, Release, LegHeadersFail, HandlerStarts, HandlerReceivesNothing,
       HandlerSends, HandlerReturns, NetworkFails, ConnectionFails, allVars, vars,
       connVars, sessVars, serverVars, legVars, handlerVars
<1>3. TakenOnce' /\ taken' \in 0..Len(sent'[ClientLeg])
  BY <1>2, TakenStays
<1>4. ASSUME UNCHANGED <<outcome, verdict, produced>>,
             handler' = handler \/ "returned" \notin {handler, handler'},
             joined' \in {ClientLeg, NoLeg}, released' \in BOOLEAN,
             expiry' \in {"unset", "armed", "stopped", "fired"},
             reason' \in {"none", "expired", "cancelled", "closed", "badHeaders"},
             leg' \in {"none", "refused", "headers", "awaitDone", "failed"},
             handler' \in {"none", "skipped", "running", "receiving", "returned"},
             eof' \in BOOLEAN
      PROVE  ServerInv'
  <2>1. ServerTypes'
    BY <1>1, <1>2, <1>3, <1>4 DEF ServerTypes
  <2>2. OkIsTheHandlers' /\ Truthful'
    BY <1>1, <1>2, <1>4 DEF OkIsTheHandlers, Truthful, Written
  <2> QED
    BY <1>3, <2>1, <2>2 DEF ServerInv
<1>5. CASE RefuseLeg \/ OpenSession \/ TimerFires \/ NetworkFails \/ UNCHANGED allVars
  BY <1>1, <1>4, <1>5 DEF RefuseLeg, OpenSession, TimerFires, NetworkFails, allVars,
       serverVars, sessionVars, legVars, handlerVars, ServerTypes
<1>6. CASE JoinLeg
  BY <1>1, <1>4, <1>6 DEF JoinLeg, Session!Join, StopTimer, handlerVars, ServerTypes
<1>7. CASE TerminateSession \/ LegHeadersFail
  BY <1>1, <1>4, <1>7 DEF TerminateSession, LegHeadersFail, Terminate, StopTimer,
       sessionVars, legVars, handlerVars, ServerTypes, OkIsTheHandlers
<1>8. CASE Release
  BY <1>1, <1>4, <1>8 DEF Release, Session!Release, legVars, handlerVars, ServerTypes
<1>9. CASE HandlerStarts \/ HandlerReceivesNothing
  <2>1. /\ UNCHANGED <<joined, outcome, released, expiry, reason, leg, verdict,
                       produced>>
        /\ handler \in {"none", "receiving"} /\ handler' = "running"
    BY <1>9 DEF HandlerStarts, HandlerReceivesNothing, sessionVars, legVars
  <2>2. eof' \in BOOLEAN
    BY <1>1, <1>9 DEF HandlerStarts, HandlerReceivesNothing, ServerTypes
  <2> QED
    BY <1>1, <1>4, <2>1, <2>2 DEF ServerTypes
<1>10. CASE Settle
  <2>1. PICK x \in Posts, o \in {reason, verdict} :
          /\ SettleLeg(x, o)
          /\ o \in Session!Outcomes \ {"none"} /\ (o = "ok" => verdict = "ok")
    BY <1>1, <1>10 DEF Settle, ServerTypes, OkIsTheHandlers, Session!Outcomes,
         Session!Failures
  <2>2. /\ outcome[x] = "none"
        /\ outcome' = [outcome EXCEPT ![x] = o]
        /\ UNCHANGED <<joined, released, expiry, reason, leg, handler, verdict,
                       eof, produced>>
    BY <2>1 DEF SettleLeg, Session!Settle, legVars, handlerVars
  <2>3. ServerTypes'
    BY <1>1, <1>2, <1>3, <2>1, <2>2 DEF ServerTypes
  <2>4. OkIsTheHandlers' /\ Truthful'
    BY <1>1, <1>2, <2>1, <2>2 DEF OkIsTheHandlers, Truthful, Written, ServerTypes
  <2> QED
    BY <1>3, <2>3, <2>4 DEF ServerInv
<1>11. CASE HandlerSends
  <2>1. /\ outcome[ServerLeg] = "none" /\ produced < MaxMessages
        /\ produced' = produced + 1
        /\ UNCHANGED <<joined, outcome, released, expiry, reason, leg, handler,
                       verdict, eof>>
    BY <1>11 DEF HandlerSends, sessionVars, legVars
  <2>2. ServerTypes'
    BY <1>1, <1>2, <1>3, <2>1, MaxMessagesAssumption DEF ServerTypes
  <2>3. OkIsTheHandlers'
    BY <1>1, <2>1 DEF OkIsTheHandlers
  <2>4. Truthful'
    <3>1. produced \in Nat /\ \A y \in Posts : arrived[y] \in Nat
      BY <1>1 DEF ServerTypes, CallInv, IInv, Types, SessInv
    <3> QED
      BY <1>1, <1>2, <2>1, <3>1 DEF Truthful, Written
  <2> QED
    BY <1>3, <2>2, <2>3, <2>4 DEF ServerInv
<1>12. CASE HandlerReturns
  <2>1. /\ handler = "running" /\ handler' = "returned"
        /\ verdict' \in {"ok", "handlerError"}
        /\ UNCHANGED <<joined, outcome, released, expiry, reason, leg, eof,
                       produced>>
    BY <1>12 DEF HandlerReturns, sessionVars, legVars
  <2>2. ServerTypes'
    BY <1>1, <1>2, <1>3, <2>1 DEF ServerTypes
  <2>3. OkIsTheHandlers' /\ Truthful'
    BY <1>1, <1>2, <2>1 DEF OkIsTheHandlers, Truthful, Written
  <2> QED
    BY <1>3, <2>2, <2>3 DEF ServerInv
<1> QED
  BY <1>5, <1>6, <1>7, <1>8, <1>9, <1>10, <1>11, <1>12

\* The two goroutines that take frames, and RecvMsg with a message that was
\* kept for it.
LEMMA TakingKeeps ==
  ASSUME CallInv, LegHeaders \/ HandlerTakes \/ HandlerReceives
  PROVE  ServerInv'
<1> USE TwoPosts
<1>1. /\ ServerTypes /\ TakenOnce /\ OkIsTheHandlers /\ Truthful
  BY DEF CallInv, ServerInv
<1>2. /\ UNCHANGED <<sent, arrived, trailers, joined, outcome, released, expiry,
                     reason, verdict, produced>>
      /\ handler' = handler \/ "returned" \notin {handler, handler'}
      /\ handler' \in {"none", "skipped", "running", "receiving", "returned"}
      /\ leg' \in {"none", "refused", "headers", "awaitDone", "failed"}
      /\ eof' \in BOOLEAN /\ stashed' \in BOOLEAN
  BY <1>1 DEF LegHeaders, HandlerTakes, HandlerReceives, ServerTypes, vars, connVars,
       sessVars, sessionVars, handlerVars
<1>3. /\ taken \in Nat /\ received \in Nat
      /\ Cardinality(MessagesIn(taken)) \in Nat
      /\ Cardinality(MessagesIn(taken + 1)) =
           Cardinality(MessagesIn(taken)) +
             (IF sent[ClientLeg][taken + 1] = "MESSAGE" THEN 1 ELSE 0)
  BY <1>1, MessagesCounted, OneMore DEF ServerTypes
<1>4. /\ taken' \in 0..Len(sent'[ClientLeg])
      /\ received' \in Nat
      /\ received' + (IF stashed' THEN 1 ELSE 0) <= Cardinality(MessagesIn(taken'))
  <2>1. CASE LegHeaders \/ HandlerTakes
    <3>1. /\ taken + 1 \in 1..Len(sent[ClientLeg])
          /\ Head(Untaken) = sent[ClientLeg][taken + 1]
      BY <2>1, FirstUntaken DEF LegHeaders, HandlerTakes
    <3>2. CASE LegHeaders
      <4>1. /\ taken' = taken + 1 /\ received' = received
            /\ UNCHANGED sent
            /\ stashed' <=> (sent[ClientLeg][taken + 1] = "MESSAGE")
        BY <1>2, <3>1, <3>2 DEF LegHeaders, handlerVars
      <4>2. received <= Cardinality(MessagesIn(taken))
        BY <1>1, <1>3 DEF TakenOnce
      <4>3. taken' \in 0..Len(sent'[ClientLeg])
        BY <1>3, <3>1, <4>1
      <4>4. received' + (IF stashed' THEN 1 ELSE 0)
              <= Cardinality(MessagesIn(taken + 1))
        BY <1>3, <4>1, <4>2
      <4> QED
        BY <1>3, <4>1, <4>3, <4>4
    <3>3. CASE HandlerTakes
      BY <1>1, <1>2, <1>3, <3>1, <3>3 DEF HandlerTakes, TakenOnce
    <3> QED
      BY <2>1, <3>2, <3>3
  <2>2. CASE HandlerReceives
    BY <1>1, <1>2, <1>3, <2>2 DEF HandlerReceives, TakenOnce, ServerTypes
  <2> QED
    BY <2>1, <2>2
<1>5. TakenOnce'
  BY <1>2, <1>4 DEF TakenOnce, MessagesIn
<1>6. ServerTypes'
  BY <1>1, <1>2, <1>4 DEF ServerTypes
<1>7. OkIsTheHandlers' /\ Truthful'
  BY <1>1, <1>2 DEF OkIsTheHandlers, Truthful, Written
<1> QED
  BY <1>5, <1>6, <1>7 DEF ServerInv

\* Every step keeps the invariant.
LEMMA CallInvStep == CallInv /\ [CallNext]_allVars => CallInv'
<1> SUFFICES ASSUME CallInv, [CallNext]_allVars
             PROVE  CallInv'
  OBVIOUS
<1>1. IInv'
  BY CallStepIsClientStep, InvStep DEF CallInv
<1>2. ServerInv'
  BY ClientKeeps, DeliverKeeps, SessionKeeps, TakingKeeps DEF CallNext, Serve, Handle
<1> QED
  BY <1>1, <1>2 DEF CallInv

\* The two facts the theorems rest on, put together.
LEMMA CallInvariance == CallSpec => []CallInv
<1>1. CallInv /\ [CallNext]_allVars => CallInv'
  BY CallInvStep
<1> QED
  BY <1>1, CallStarts, PTL DEF CallSpec

-----------------------------------------------------------------------------
(* What it gives.                                                          *)

\* A call from end to end is a call of BidiClient: what a server does, and a
\* network that brings only what the server wrote, are behaviours of
\* BidiClient's network. What is proved of BidiClient is true end to end.
THEOREM CallIsClient == CallSpec => Spec
<1>1. CallInit => Init
  BY DEF CallInit
<1>2. CallInv /\ [CallNext]_allVars => [Next]_vars
  BY CallStepIsClientStep
<1> QED
  BY <1>1, <1>2, CallInvariance, PTL DEF CallSpec, Spec

\* Every variable of both ends keeps its type; no goroutine takes a frame that
\* was not sent, and the two that take them from the same channel never give
\* the handler more messages than were sent.
THEOREM CallTypeCorrect == CallSpec => []CallTypeOK
<1>1. IInv => TypeOK
  BY SessionTypes DEF IInv, Types, CallTypes, TypeOK
<1>2. CallInv => CallTypeOK
  <2> SUFFICES ASSUME CallInv
               PROVE  CallTypeOK
    OBVIOUS
  <2>1. TypeOK /\ ServerTypes /\ TakenOnce
    BY <1>1 DEF CallInv, ServerInv
  <2>2. sent[ClientLeg] \in Seq(RequestFrames)
    BY TwoPosts DEF CallInv, IInv, Types, ConnInv
  <2>3. /\ Len(sent[ClientLeg]) \in Nat
        /\ DOMAIN sent[ClientLeg] = 1..Len(sent[ClientLeg])
    BY <2>2, LenProperties
  <2>4. taken \in Nat /\ taken <= Len(sent[ClientLeg]) /\ received \in Nat
    BY <2>1, <2>3 DEF ServerTypes
  <2>5. Sent = Cardinality(MessagesIn(Len(sent[ClientLeg])))
    BY <2>3 DEF Sent, MessagesIn
  <2>6. MessagesIn(taken) \subseteq MessagesIn(Len(sent[ClientLeg]))
    BY <2>3, <2>4 DEF MessagesIn
  <2>7. /\ Cardinality(MessagesIn(taken)) <= Sent
        /\ Cardinality(MessagesIn(taken)) \in Nat /\ Sent \in Nat
    BY <2>3, <2>4, <2>5, <2>6, MessagesCounted, FS_Subset
  <2>8. received <= Cardinality(MessagesIn(taken))
    BY <2>1, <2>4, <2>7 DEF TakenOnce
  <2>9. received \in 0..Sent
    BY <2>4, <2>7, <2>8
  <2> QED
    BY <2>1, <2>9 DEF CallTypeOK, ServerTypes
<1> QED
  BY <1>2, CallInvariance, PTL

\* When the client's iteration completes normally, the handler has returned
\* without an error, the session gave both legs OK, and the consumer has every
\* message that the handler sent: the client's success is the server's.
THEOREM Agreement == CallSpec => []SuccessIsAgreed
<1>1. CallInv /\ SuccessIsComplete => SuccessIsAgreed
  BY TwoPosts DEF CallInv, ServerInv, OkIsTheHandlers, Truthful, SuccessIsComplete,
       SuccessIsAgreed, Written
<1>2. Spec => []SuccessIsComplete
  BY Success
<1> QED
  BY <1>1, <1>2, CallIsClient, CallInvariance, PTL

=============================================================================
