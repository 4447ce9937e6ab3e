------------------------- MODULE ClientSessionProofs -------------------------
(***************************************************************************)
(* What the fragments of ClientSession do to its state, whatever the call: *)
(* the lemmas that the proofs about GrottoCall and BidiClient share.       *)
(***************************************************************************)
EXTENDS ClientSession, SequenceTheorems, TLAPS

-----------------------------------------------------------------------------
(* The messages of a response, numbered as they arrive.                    *)

\* ys and then ms are the first n messages: those that were handed out, and
\* those that wait in RpcSession.messages.
Numbered(ys, ms, n) == ys \o ms = [i \in 1..n |-> i]

\* The same, message by message.
LEMMA NumberedCells ==
  ASSUME NEW ys \in Seq(Nat), NEW ms \in Seq(Nat), NEW n \in Nat
  PROVE  /\ Len(ys) \in Nat /\ Len(ms) \in Nat
         /\ Numbered(ys, ms, n) <=>
              /\ Len(ys) + Len(ms) = n
              /\ \A i \in 1..Len(ys) : ys[i] = i
              /\ \A i \in 1..Len(ms) : ms[i] = Len(ys) + i
<1>1. Len(ys) \in Nat /\ Len(ms) \in Nat
  BY LenProperties
<1>2. /\ ys \o ms \in Seq(Nat)
      /\ Len(ys \o ms) = Len(ys) + Len(ms)
      /\ \A i \in 1..Len(ys) + Len(ms) :
           (ys \o ms)[i] = IF i <= Len(ys) THEN ys[i] ELSE ms[i - Len(ys)]
  BY ConcatProperties, Zenon
<1>3. DOMAIN (ys \o ms) = 1..Len(ys) + Len(ms)
  BY <1>2, LenProperties, Zenon
<1> DEFINE all == [i \in 1..n |-> i]
<1>4. all \in Seq(Nat) /\ Len(all) = n /\ \A i \in 1..n : all[i] = i
  OBVIOUS
<1> HIDE DEF all
<1>5. ASSUME ys \o ms = all
      PROVE  /\ Len(ys) + Len(ms) = n
             /\ \A i \in 1..Len(ys) : ys[i] = i
             /\ \A i \in 1..Len(ms) : ms[i] = Len(ys) + i
  <2>1. Len(ys) + Len(ms) = n
    BY <1>2, <1>4, <1>5
  <2>2. ASSUME NEW i \in 1..Len(ys)
        PROVE  ys[i] = i
    <3>1. i \in 1..Len(ys) + Len(ms) /\ i <= Len(ys)
      BY <1>1
    <3>2. (ys \o ms)[i] = ys[i]
      BY <1>2, <3>1
    <3> QED
      BY <1>4, <1>5, <2>1, <3>1, <3>2
  <2>3. ASSUME NEW i \in 1..Len(ms)
        PROVE  ms[i] = Len(ys) + i
    <3>1. /\ Len(ys) + i \in 1..Len(ys) + Len(ms) /\ ~(Len(ys) + i <= Len(ys))
          /\ (Len(ys) + i) - Len(ys) = i
      BY <1>1
    <3>2. (ys \o ms)[Len(ys) + i] = ms[i]
      BY <1>2, <3>1, Zenon
    <3> QED
      BY <1>4, <1>5, <2>1, <3>1, <3>2
  <2> QED
    BY <2>1, <2>2, <2>3
<1>6. ASSUME Len(ys) + Len(ms) = n,
             \A i \in 1..Len(ys) : ys[i] = i,
             \A i \in 1..Len(ms) : ms[i] = Len(ys) + i
      PROVE  ys \o ms = all
  <2>1. ASSUME NEW i \in 1..n
        PROVE  (ys \o ms)[i] = all[i]
    <3>1. CASE i <= Len(ys)
      BY <1>1, <1>2, <1>4, <1>6, <3>1
    <3>2. CASE ~(i <= Len(ys))
      <4>1. i - Len(ys) \in 1..Len(ms) /\ Len(ys) + (i - Len(ys)) = i
        BY <1>1, <1>6, <3>2
      <4>2. ms[i - Len(ys)] = i
        BY <1>6, <4>1
      <4> QED
        BY <1>1, <1>2, <1>4, <1>6, <3>2, <4>2
    <3> QED
      BY <3>1, <3>2
  <2> QED
    BY <1>2, <1>4, <1>6, <2>1, SeqEqual
<1> QED
  BY <1>1, <1>5, <1>6 DEF Numbered, all

\* Before the first message.
LEMMA NothingNumbered == Numbered(<<>>, <<>>, 0)
<1>1. <<>> \in Seq(Nat) /\ Len(<<>>) = 0 /\ 0 \in Nat
  BY EmptySeq
<1>2. 0 + 0 = 0 /\ \A i \in 1..0 : FALSE
  OBVIOUS
<1> QED
  BY <1>1, <1>2, NumberedCells

\* nextMessage hands out the first message that waits.
LEMMA HandsOutNext ==
  ASSUME NEW K \in Nat, NEW ys \in Seq(1..K), NEW ms \in Seq(1..K),
         NEW n \in Nat, ms # <<>>, Numbered(ys, ms, n)
  PROVE  /\ Append(ys, Head(ms)) \in Seq(1..K) /\ Tail(ms) \in Seq(1..K)
         /\ Numbered(Append(ys, Head(ms)), Tail(ms), n)
<1> DEFINE zs == Append(ys, Head(ms))
           ts == Tail(ms)
<1>1. /\ ys \in Seq(Nat) /\ ms \in Seq(Nat)
      /\ Len(ms) \in Nat \ {0} /\ Len(ys) \in Nat
  <2>1. 1..K \subseteq Nat
    OBVIOUS
  <2> QED
    BY <2>1, SeqMonotonic, EmptySeq, LenProperties
<1>2. /\ Head(ms) \in 1..K /\ ts \in Seq(1..K) /\ Len(ts) = Len(ms) - 1
      /\ \A i \in 1..Len(ts) : ts[i] = ms[i + 1]
      /\ Head(ms) = ms[1]
  BY <1>1, HeadTailProperties
<1>3. /\ zs \in Seq(1..K) /\ Len(zs) = Len(ys) + 1
      /\ \A i \in 1..Len(ys) : zs[i] = ys[i]
      /\ zs[Len(ys) + 1] = Head(ms)
  BY <1>2, AppendProperties
<1>4. zs \in Seq(Nat) /\ ts \in Seq(Nat)
  <2>1. 1..K \subseteq Nat
    OBVIOUS
  <2> QED
    BY <1>2, <1>3, <2>1, SeqMonotonic
<1>5. /\ Len(ys) + Len(ms) = n
      /\ \A i \in 1..Len(ys) : ys[i] = i
      /\ \A i \in 1..Len(ms) : ms[i] = Len(ys) + i
  BY <1>1, NumberedCells
<1> HIDE DEF zs, ts
<1>6. /\ Len(zs) + Len(ts) = n
      /\ \A i \in 1..Len(zs) : zs[i] = i
      /\ \A i \in 1..Len(ts) : ts[i] = Len(zs) + i
  <2>1. 1 \in 1..Len(ms) /\ Head(ms) = Len(ys) + 1
    BY <1>1, <1>2, <1>5
  <2>2. \A i \in 1..Len(zs) : zs[i] = i
    <3> SUFFICES ASSUME NEW i \in 1..Len(zs)
                 PROVE  zs[i] = i
      OBVIOUS
    <3>1. i \in 1..Len(ys) \/ i = Len(ys) + 1
      BY <1>1, <1>3
    <3> QED
      BY <1>3, <1>5, <2>1, <3>1
  <2>3. \A i \in 1..Len(ts) : ts[i] = Len(zs) + i
    <3> SUFFICES ASSUME NEW i \in 1..Len(ts)
                 PROVE  ts[i] = Len(zs) + i
      OBVIOUS
    <3>1. i + 1 \in 1..Len(ms) /\ i \in Nat
      BY <1>1, <1>2
    <3>2. ts[i] = ms[i + 1] /\ ms[i + 1] = Len(ys) + (i + 1)
      BY <1>2, <1>5, <3>1
    <3> QED
      BY <1>1, <1>3, <3>1, <3>2
  <2>4. Len(zs) + Len(ts) = n
    <3>1. /\ Len(zs) = Len(ys) + 1 /\ Len(ts) = Len(ms) - 1
          /\ Len(ys) + Len(ms) = n
      BY <1>2, <1>3, <1>5
    <3>2. Len(ys) \in Nat /\ Len(ms) \in Nat
      BY <1>1
    <3>3. (Len(ys) + 1) + (Len(ms) - 1) = Len(ys) + Len(ms)
      BY <3>2
    <3> QED
      BY <3>1, <3>3
  <2> QED
    BY <2>2, <2>3, <2>4
<1>7. Numbered(zs, ts, n)
  BY <1>4, <1>6, NumberedCells
<1> QED
  BY <1>2, <1>3, <1>7 DEF zs, ts

\* onMessage puts the messages of a chunk behind those that wait.
LEMMA PutsBehind ==
  ASSUME NEW ys \in Seq(Nat), NEW n \in Nat, NEW ms \in Seq(1..n),
         NEW k \in Nat
  PROVE  LET next == [i \in 1..k |-> n + i] IN
         /\ ms \o next \in Seq(1..(n + k))
         /\ Numbered(ys, ms, n) => Numbered(ys, ms \o next, n + k)
<1> DEFINE next == [i \in 1..k |-> n + i]
           ns == ms \o next
<1>1. /\ next \in Seq(1..(n + k)) /\ Len(next) = k
      /\ \A i \in 1..k : next[i] = n + i
  <2>1. \A i \in 1..k : n + i \in 1..(n + k)
    OBVIOUS
  <2> QED
    BY <2>1
<1> HIDE DEF next
<1>2. ms \in Seq(1..(n + k)) /\ Len(ms) \in Nat
  <2>1. 1..n \subseteq 1..(n + k)
    OBVIOUS
  <2> QED
    BY <2>1, SeqMonotonic, LenProperties
<1>3. /\ ns \in Seq(1..(n + k)) /\ Len(ns) = Len(ms) + k
      /\ \A i \in 1..Len(ms) + k :
           ns[i] = IF i <= Len(ms) THEN ms[i] ELSE next[i - Len(ms)]
  BY <1>1, <1>2, ConcatProperties
<1>4. ms \in Seq(Nat) /\ ns \in Seq(Nat)
  <2>1. 1..(n + k) \subseteq Nat
    OBVIOUS
  <2> QED
    BY <1>2, <1>3, <2>1, SeqMonotonic
<1> HIDE DEF ns
<1>5. ASSUME Numbered(ys, ms, n)
      PROVE  Numbered(ys, ns, n + k)
  <2>1. /\ Len(ys) + Len(ms) = n /\ Len(ys) \in Nat
        /\ \A i \in 1..Len(ys) : ys[i] = i
        /\ \A i \in 1..Len(ms) : ms[i] = Len(ys) + i
    BY <1>4, <1>5, NumberedCells
  <2>2. \A i \in 1..Len(ns) : ns[i] = Len(ys) + i
    <3> SUFFICES ASSUME NEW i \in 1..Len(ns)
                 PROVE  ns[i] = Len(ys) + i
      OBVIOUS
    <3>1. CASE i <= Len(ms)
      BY <1>2, <1>3, <2>1, <3>1
    <3>2. CASE ~(i <= Len(ms))
      <4>1. i - Len(ms) \in 1..k
        BY <1>2, <1>3, <3>2
      <4>2. next[i - Len(ms)] = n + (i - Len(ms))
        BY <1>1, <4>1
      <4>3. i \in 1..Len(ms) + k /\ i \in Nat
        BY <1>3
      <4>4. ns[i] = next[i - Len(ms)]
        BY <1>3, <3>2, <4>3
      <4>5. Len(ys) \in Nat /\ Len(ms) \in Nat /\ Len(ys) + Len(ms) = n
        BY <1>2, <2>1
      <4>6. i \in Nat
        BY <4>3
      <4>7. (Len(ys) + Len(ms)) + (i - Len(ms)) = Len(ys) + i
        BY <4>5, <4>6
      <4> QED
        BY <4>2, <4>4, <4>5, <4>7
    <3> QED
      BY <3>1, <3>2
  <2>3. Len(ys) + Len(ns) = n + k
    <3>1. Len(ys) \in Nat /\ Len(ys) + Len(ms) = n
      BY <2>1
    <3>2. Len(ns) = Len(ms) + k /\ Len(ms) \in Nat
      BY <1>2, <1>3
    <3> QED
      BY <3>1, <3>2
  <2>4. n + k \in Nat
    OBVIOUS
  <2> QED
    BY <1>4, <2>1, <2>2, <2>3, <2>4, NumberedCells
<1> QED
  BY <1>3, <1>5 DEF ns, next

-----------------------------------------------------------------------------
(* Types, half by half: the connections and the sessions.                  *)

RequestFrames == {"HEADERS", "MESSAGE", "HALF_CLOSE"}

ConnInv ==
  /\ request \in [Posts -> {"none", "open", "closed"}]
  /\ closed \in [Posts -> BOOLEAN]
  /\ headers \in [Posts -> {"none", "bare", "named", "rejected"}]
  /\ http \in [Posts -> {"idle", "pending", "streaming", "ended"}]
  /\ sent \in [Posts -> Seq(RequestFrames)]

SessInv ==
  /\ arrived \in [Posts -> 0..MaxMessages]
  /\ messages \in [Posts -> Seq(1..MaxMessages)]
  /\ \A c \in Posts : messages[c] \in Seq(1..arrived[c])
  /\ trailers \in [Posts -> Outcomes \cup {"none"}]
  /\ failure \in [Posts -> Failures \cup {"none"}]
  /\ waiting \in [Posts -> BOOLEAN]

\* Together they are what the calls' type invariants say of the session.
LEMMA SessionTypes == ConnInv /\ SessInv => SessionTypeOK
BY DEF ConnInv, SessInv, SessionTypeOK, RequestFrames

\* They hold before the first POST.
LEMMA SessionStarts == SessionInit => ConnInv /\ SessInv
<1> SUFFICES ASSUME SessionInit
             PROVE  ConnInv /\ SessInv
  OBVIOUS
<1>1. /\ <<>> \in Seq(RequestFrames) /\ <<>> \in Seq(1..MaxMessages)
      /\ <<>> \in Seq(1..0) /\ 0 \in 0..MaxMessages
  BY MaxMessagesAssumption, EmptySeq
<1>2. ConnInv
  BY <1>1 DEF SessionInit, ConnInv
<1>3. SessInv
  BY <1>1 DEF SessionInit, SessInv
<1> QED
  BY <1>2, <1>3

\* Sending.
LEMMA EnqueueTypes ==
  ASSUME sent \in [Posts -> Seq(RequestFrames)], NEW c \in Posts,
         NEW fs \in Seq(RequestFrames), Enqueue(c, fs)
  PROVE  /\ sent' \in [Posts -> Seq(RequestFrames)]
         /\ sent'[c] = sent[c] \o fs
         /\ \A d \in Posts \ {c} : sent'[d] = sent[d]
<1>1. sent[c] \o fs \in Seq(RequestFrames)
  BY ConcatProperties
<1> QED
  BY <1>1 DEF Enqueue

\* Closing.
LEMMA CloseTypes ==
  ASSUME ConnInv, NEW cs \in SUBSET Posts, CloseAll(cs)
  PROVE  /\ ConnInv'
         /\ \A c \in cs : closed'[c] /\ http'[c] = "ended"
         /\ \A c \in Posts \ cs : /\ closed'[c] = closed[c]
                                  /\ http'[c] = http[c]
<1>1. closed' = [c \in Posts |-> closed[c] \/ c \in cs]
  BY DEF CloseAll
<1>2. closed' \in [Posts -> BOOLEAN]
  BY <1>1, Zenon DEF ConnInv
<1>3. \A c \in cs : closed'[c]
  BY <1>1
<1>4. \A c \in Posts \ cs : closed'[c] = closed[c]
  BY <1>1, Zenon DEF ConnInv
<1>5. /\ request' \in [Posts -> {"none", "open", "closed"}]
      /\ http' \in [Posts -> {"idle", "pending", "streaming", "ended"}]
      /\ UNCHANGED <<headers, sent>>
      /\ \A c \in cs : http'[c] = "ended"
      /\ \A c \in Posts \ cs : http'[c] = http[c]
  BY DEF CloseAll, ConnInv
<1> QED
  BY <1>2, <1>3, <1>4, <1>5 DEF ConnInv

\* Failing.
LEMMA FailTypes ==
  ASSUME SessInv, NEW c \in Posts, NEW why \in Failures, Fail(c, why),
         UNCHANGED <<arrived, messages, trailers>>
  PROVE  SessInv'
BY DEF Fail, SessInv

\* Waiting.
LEMMA WaitTypes ==
  ASSUME SessInv, NEW c \in Posts, Wait(c)
  PROVE  SessInv'
BY DEF Wait, SessInv

\* Taking a message, as nextMessage does.
LEMMA TakeTypes ==
  ASSUME SessInv, NEW c \in Posts, messages[c] # <<>>,
         messages' = [messages EXCEPT ![c] = Tail(@)],
         UNCHANGED <<arrived, trailers, failure, waiting>>
  PROVE  SessInv'
<1>1. Tail(messages[c]) \in Seq(1..MaxMessages)
  BY HeadTailProperties DEF SessInv
<1>2. Tail(messages[c]) \in Seq(1..arrived[c])
  <2>1. messages[c] \in Seq(1..arrived[c])
    BY DEF SessInv
  <2> QED
    BY <2>1, HeadTailProperties
<1> QED
  BY <1>1, <1>2 DEF SessInv

\* A chunk.
LEMMA ChunkTypes ==
  ASSUME SessInv, NEW c \in Posts, NEW n \in Nat,
         NEW code \in Outcomes \cup {"none"}, Chunk(c, n, code)
  PROVE  /\ SessInv'
         /\ arrived'[c] = arrived[c] + n
         /\ messages'[c] = messages[c] \o NextMessages(c, n)
         /\ trailers'[c] = code /\ trailers[c] = "none"
         /\ \A d \in Posts \ {c} : /\ arrived'[d] = arrived[d]
                                   /\ messages'[d] = messages[d]
                                   /\ trailers'[d] = trailers[d]
<1>1. /\ messages' = [messages EXCEPT ![c] = @ \o NextMessages(c, n)]
      /\ arrived' = [arrived EXCEPT ![c] = @ + n]
      /\ trailers' = [trailers EXCEPT ![c] = code]
      /\ waiting' = [waiting EXCEPT ![c] = FALSE]
      /\ UNCHANGED failure
      /\ arrived[c] + n <= MaxMessages
      /\ trailers[c] = "none"
  BY DEF Chunk, Dispatch, Notify, SessInv
<1>2. arrived[c] \in Nat /\ messages[c] \in Seq(1..arrived[c])
  BY DEF SessInv
<1>3. messages[c] \o NextMessages(c, n) \in Seq(1..(arrived[c] + n))
  <2>1. <<>> \in Seq(Nat)
    BY EmptySeq
  <2> QED
    BY <1>2, <2>1, PutsBehind DEF NextMessages
<1>4. messages[c] \o NextMessages(c, n) \in Seq(1..MaxMessages)
  <2>1. 1..(arrived[c] + n) \subseteq 1..MaxMessages
    BY <1>1, <1>2, MaxMessagesAssumption
  <2> QED
    BY <1>3, <2>1, SeqMonotonic
<1>5. arrived[c] + n \in 0..MaxMessages
  BY <1>1, <1>2, MaxMessagesAssumption
<1> HIDE DEF NextMessages
<1>6. arrived' \in [Posts -> 0..MaxMessages] /\ arrived'[c] = arrived[c] + n
  BY <1>1, <1>5 DEF SessInv
<1>7. /\ messages' \in [Posts -> Seq(1..MaxMessages)]
      /\ messages'[c] = messages[c] \o NextMessages(c, n)
  BY <1>1, <1>4 DEF SessInv
<1>8. \A d \in Posts \ {c} : /\ arrived'[d] = arrived[d]
                             /\ messages'[d] = messages[d]
                             /\ trailers'[d] = trailers[d]
  BY <1>1 DEF SessInv
<1>9. \A d \in Posts : messages'[d] \in Seq(1..arrived'[d])
  BY <1>3, <1>6, <1>7, <1>8 DEF SessInv
<1> QED
  BY <1>1, <1>6, <1>7, <1>8, <1>9 DEF SessInv

\* What the network does keeps the types, leaves the other POSTs alone, brings
\* nothing to a POST that is over, and changes messages only by a chunk.
LEMMA NetworkTypes ==
  ASSUME ConnInv, SessInv, NEW c \in Posts, NEW ns \in SUBSET Nat,
         NEW hs \in SUBSET {"bare", "named"}, Network(c, ns, hs)
  PROVE  /\ ConnInv' /\ SessInv'
         /\ http[c] \in {"pending", "streaming"} /\ http'[c] # "idle"
         /\ \A d \in Posts \ {c} : http'[d] = http[d]
         /\ UNCHANGED <<request, closed, sent>>
         /\ \/ UNCHANGED <<arrived, messages, trailers>>
            \/ \E n \in ns, code \in Outcomes \cup {"none"} : Chunk(c, n, code)
<1>1. ASSUME NEW h \in hs, ResponseArrives(c, h)
      PROVE  /\ ConnInv' /\ SessInv' /\ http[c] = "pending"
             /\ http' = [http EXCEPT ![c] = "streaming"]
             /\ UNCHANGED <<request, closed, sent, arrived, messages, trailers>>
  BY <1>1 DEF ResponseArrives, ConnInv, SessInv, sessVars
<1>2. ASSUME NEW n \in ns, NEW code \in Outcomes \cup {"none"}, Chunk(c, n, code)
      PROVE  /\ ConnInv' /\ SessInv' /\ http[c] = "streaming"
             /\ UNCHANGED <<request, closed, http, sent>>
  <2>1. SessInv'
    BY <1>2, ChunkTypes
  <2>2. UNCHANGED connVars /\ http[c] = "streaming"
    BY <1>2 DEF Chunk, Dispatch
  <2> QED
    BY <2>1, <2>2 DEF connVars, ConnInv
<1>3. CASE BodyEnds(c) \/ ConnectionFails(c)
  <2>1. /\ http[c] \in {"pending", "streaming"}
        /\ http' = [http EXCEPT ![c] = "ended"]
        /\ UNCHANGED <<request, closed, sent, arrived, messages, trailers>>
        /\ headers' \in [Posts -> {"none", "bare", "named", "rejected"}]
    BY <1>3 DEF BodyEnds, ConnectionFails, ConnInv
  <2>2. SessInv'
    <3>1. CASE Fail(c, "closed") \/ Fail(c, "http")
      BY <2>1, <3>1, FailTypes DEF Failures
    <3>2. CASE UNCHANGED <<failure, waiting>>
      BY <2>1, <3>2 DEF SessInv
    <3> QED
      BY <1>3, <3>1, <3>2 DEF BodyEnds, ConnectionFails
  <2> QED
    BY <2>1, <2>2 DEF ConnInv
<1>4. \/ \E h \in hs : ResponseArrives(c, h)
      \/ \E n \in ns, code \in Outcomes \cup {"none"} : Chunk(c, n, code)
      \/ BodyEnds(c) \/ ConnectionFails(c)
  BY DEF Network
<1>5. CASE \E h \in hs : ResponseArrives(c, h)
  BY <1>1, <1>5 DEF ConnInv
<1>6. CASE \E n \in ns, code \in Outcomes \cup {"none"} : Chunk(c, n, code)
  BY <1>2, <1>6 DEF ConnInv
<1>7. CASE BodyEnds(c) \/ ConnectionFails(c)
  BY <1>3, <1>7 DEF ConnInv, BodyEnds, ConnectionFails
<1> QED
  BY <1>4, <1>5, <1>6, <1>7

=============================================================================
