---------------------------- MODULE FramingProofs ----------------------------
(***************************************************************************)
(* What encodeFrame and wrapGrpcMessage write, the readers read: for every *)
(* payload, and with anything behind the frame.                            *)
(***************************************************************************)
EXTENDS Framing, SequenceTheorems, WellFoundedInduction, TLAPS

\* The cells of a concatenation.
LEMMA ConcatCells ==
  ASSUME NEW s \in Seq(Nat), NEW t \in Seq(Nat)
  PROVE  /\ Len(s) \in Nat /\ Len(t) \in Nat
         /\ s \o t \in Seq(Nat)
         /\ Len(s \o t) = Len(s) + Len(t)
         /\ \A i \in 1..Len(s) : (s \o t)[i] = s[i]
         /\ \A i \in 1..Len(t) : (s \o t)[Len(s) + i] = t[i]
         /\ \A i \in 1..Len(s \o t) : (s \o t)[i] \in Nat
<1>1. Len(s) \in Nat /\ Len(t) \in Nat
  BY LenProperties
<1>2. /\ s \o t \in Seq(Nat)
      /\ Len(s \o t) = Len(s) + Len(t)
      /\ \A i \in 1..Len(s) + Len(t) :
           (s \o t)[i] = IF i <= Len(s) THEN s[i] ELSE t[i - Len(s)]
  BY ConcatProperties, Zenon
<1>3. \A i \in 1..Len(s) : (s \o t)[i] = s[i]
  <2> TAKE i \in 1..Len(s)
  <2>1. i \in 1..Len(s) + Len(t) /\ i <= Len(s)
    BY <1>1
  <2> QED
    BY <1>2, <2>1
<1>4. \A i \in 1..Len(t) : (s \o t)[Len(s) + i] = t[i]
  <2> TAKE i \in 1..Len(t)
  <2>1. /\ Len(s) + i \in 1..Len(s) + Len(t)
        /\ ~(Len(s) + i <= Len(s))
        /\ (Len(s) + i) - Len(s) = i
    BY <1>1
  <2> QED
    BY <1>2, <2>1, Zenon
<1>5. \A i \in 1..Len(s \o t) : (s \o t)[i] \in Nat
  BY <1>2, ElementOfSeq
<1> QED
  BY <1>1, <1>2, <1>3, <1>4, <1>5

\* A prefix of known length, and what is behind it.
LEMMA SplitConcat ==
  ASSUME NEW s \in Seq(Nat), NEW t \in Seq(Nat)
  PROVE  /\ SubSeq(s \o t, 1, Len(s)) = s
         /\ SubSeq(s \o t, Len(s) + 1, Len(s) + Len(t)) = t
<1> DEFINE u == s \o t
           a == SubSeq(u, 1, Len(s))
           b == SubSeq(u, Len(s) + 1, Len(s) + Len(t))
<1>1. /\ Len(s) \in Nat /\ Len(t) \in Nat
      /\ Len(u) = Len(s) + Len(t)
      /\ \A i \in 1..Len(s) : u[i] = s[i]
      /\ \A i \in 1..Len(t) : u[Len(s) + i] = t[i]
      /\ \A i \in 1..Len(u) : u[i] \in Nat
  BY ConcatCells
<1> HIDE DEF u
<1>2. a = s
  <2>1. \A i \in 1..Len(s) : u[i] \in Nat
    BY <1>1
  <2>2. /\ a \in Seq(Nat)
        /\ Len(a) = Len(s)
        /\ \A i \in 1..Len(s) : a[i] = u[i]
    BY <1>1, <2>1, SubSeqProperties
  <2>3. \A i \in 1..Len(s) : a[i] = s[i]
    BY <1>1, <2>2
  <2> QED
    BY <2>2, <2>3, SeqEqual
<1>3. b = t
  <2>1. \A i \in (Len(s) + 1)..(Len(s) + Len(t)) : u[i] \in Nat
    BY <1>1
  <2>2. /\ b \in Seq(Nat)
        /\ Len(b) = Len(t)
        /\ \A i \in 1..Len(t) : b[i] = u[Len(s) + i]
    BY <1>1, <2>1, SubSeqProperties
  <2>3. \A i \in 1..Len(t) : b[i] = t[i]
    BY <1>1, <2>2
  <2> QED
    BY <2>2, <2>3, SeqEqual
<1> QED
  BY <1>2, <1>3 DEF u

\* The four cells of the header of a frame, and its length.
LEMMA EncodedFrame ==
  ASSUME NEW type \in Nat, NEW payload \in Seq(Nat)
  PROVE  LET f == encodeFrame(type, payload) IN
         /\ Len(payload) \in Nat
         /\ f \in Seq(Nat)
         /\ Len(f) = HEADER_SIZE + Len(payload)
         /\ f[1] = Magic /\ f[3] = type /\ f[4] = Len(payload)
         /\ SubSeq(f, HEADER_SIZE + 1, HEADER_SIZE + Len(payload)) = payload
<1> DEFINE h == <<Magic, SINGLE_CALL_ID, type, Len(payload)>>
           f == h \o payload
<1>1. Len(payload) \in Nat
  BY LenProperties
<1>2. /\ h \in Seq(Nat) /\ Len(h) = 4
      /\ h[1] = Magic /\ h[3] = type /\ h[4] = Len(payload)
  BY <1>1, MagicAssumption DEF SINGLE_CALL_ID
<1> HIDE DEF h
<1>3. /\ f \in Seq(Nat) /\ Len(f) = Len(h) + Len(payload)
      /\ \A i \in 1..Len(h) : f[i] = h[i]
  BY <1>2, ConcatCells
<1>4. f[1] = Magic /\ f[3] = type /\ f[4] = Len(payload)
  BY <1>2, <1>3
<1>5. SubSeq(f, Len(h) + 1, Len(h) + Len(payload)) = payload
  BY <1>2, SplitConcat
<1> HIDE DEF f
<1>6. /\ Len(f) = HEADER_SIZE + Len(payload)
      /\ SubSeq(f, HEADER_SIZE + 1, HEADER_SIZE + Len(payload)) = payload
  BY <1>2, <1>3, <1>5 DEF HEADER_SIZE
<1> QED
  BY <1>1, <1>3, <1>4, <1>6 DEF f, h, encodeFrame

\* A reader that has the bytes of a frame, and any number of bytes behind it,
\* cuts off that frame and leaves those bytes, neither more nor less.
THEOREM FrameIsCutOff ==
  ASSUME NEW type \in Nat, NEW payload \in Seq(Nat), NEW rest \in Seq(Nat)
  PROVE  LET buffer == encodeFrame(type, payload) \o rest IN
         /\ HasFrame(buffer)
         /\ FirstFrame(buffer) = encodeFrame(type, payload)
         /\ AfterFrame(buffer) = rest
<1> DEFINE f == encodeFrame(type, payload)
<1>1. /\ Len(payload) \in Nat
      /\ f \in Seq(Nat) /\ Len(f) = HEADER_SIZE + Len(payload)
      /\ f[4] = Len(payload)
  BY EncodedFrame
<1> HIDE DEF f
<1>2. /\ Len(rest) \in Nat
      /\ Len(f \o rest) = Len(f) + Len(rest)
      /\ (f \o rest)[4] = f[4]
  <2>1. 4 \in 1..Len(f)
    BY <1>1 DEF HEADER_SIZE
  <2> QED
    BY <1>1, <2>1, ConcatCells
<1>3. /\ SubSeq(f \o rest, 1, Len(f)) = f
      /\ SubSeq(f \o rest, Len(f) + 1, Len(f) + Len(rest)) = rest
  BY <1>1, SplitConcat
<1>4. HasFrame(f \o rest) /\ FirstFrame(f \o rest) = f
                          /\ AfterFrame(f \o rest) = rest
  BY <1>1, <1>2, <1>3 DEF HasFrame, FirstFrame, AfterFrame, HEADER_SIZE
<1> QED
  BY <1>4 DEF f

\* decodeFrame accepts what encodeFrame makes, and returns what it was made of.
THEOREM DecodeEncode ==
  ASSUME NEW type \in Nat, NEW payload \in Seq(Nat)
  PROVE  /\ Decodable(encodeFrame(type, payload))
         /\ decodeFrame(encodeFrame(type, payload))
              = [type |-> type, payload |-> payload]
<1> DEFINE f == encodeFrame(type, payload)
<1>1. /\ Len(payload) \in Nat
      /\ Len(f) = HEADER_SIZE + Len(payload)
      /\ f[1] = Magic /\ f[3] = type /\ f[4] = Len(payload)
      /\ SubSeq(f, HEADER_SIZE + 1, HEADER_SIZE + Len(payload)) = payload
  BY EncodedFrame
<1> HIDE DEF f
<1>2. Decodable(f)
  BY <1>1 DEF Decodable, HEADER_SIZE
<1>3. decodeFrame(f) = [type |-> type, payload |-> payload]
  BY <1>1 DEF decodeFrame
<1> QED
  BY <1>2, <1>3 DEF f

\* A message that was wrapped, as every sender of this code does, is unwrapped
\* again, and never taken for a raw one.
THEOREM UnwrapWrap ==
  ASSUME NEW message \in Seq(Nat)
  PROVE  decodeMessagePayload(wrapGrpcMessage(message)) = message
<1> DEFINE h == <<0, Len(message)>>
           w == h \o message
<1>1. Len(message) \in Nat
  BY LenProperties
<1>2. h \in Seq(Nat) /\ Len(h) = PREFIX_SIZE /\ h[2] = Len(message)
  BY <1>1 DEF PREFIX_SIZE
<1> HIDE DEF h
<1>3. /\ Len(w) = Len(h) + Len(message)
      /\ w[2] = h[2]
  <2>1. 2 \in 1..Len(h)
    BY <1>2 DEF PREFIX_SIZE
  <2> QED
    BY <1>2, <2>1, ConcatCells
<1>4. SubSeq(w, Len(h) + 1, Len(h) + Len(message)) = message
  BY <1>2, SplitConcat
<1>5. w = wrapGrpcMessage(message)
  BY DEF h, wrapGrpcMessage
<1> HIDE DEF w
<1>6. decodeMessagePayload(w) = message
  BY <1>1, <1>2, <1>3, <1>4 DEF decodeMessagePayload, unwrapGrpcMessage, PREFIX_SIZE
<1> QED
  BY <1>5, <1>6

\* One round of push: of a buffer that starts with a frame, exactly that frame
\* is collected, behind those collected before, and push does not throw.
THEOREM ShiftsOneFrame ==
  ASSUME NEW type \in Nat, NEW payload \in Seq(Nat), NEW rest \in Seq(Nat),
         NEW s, ~s.threw, s.buffer = encodeFrame(type, payload) \o rest
  PROVE  tryShiftFrame(s) =
           [buffer |-> rest,
            frames |-> Append(s.frames, [type |-> type, payload |-> payload]),
            threw  |-> FALSE]
<1>1. /\ HasFrame(s.buffer)
      /\ FirstFrame(s.buffer) = encodeFrame(type, payload)
      /\ AfterFrame(s.buffer) = rest
  BY FrameIsCutOff
<1>2. /\ Decodable(FirstFrame(s.buffer))
      /\ decodeFrame(FirstFrame(s.buffer)) = [type |-> type, payload |-> payload]
  BY <1>1, DecodeEncode
<1> QED
  BY <1>1, <1>2, Zenon DEF tryShiftFrame

-----------------------------------------------------------------------------
(* Frames that come in pieces.                                             *)

\* What is at the front of a buffer, whatever of what follows has arrived.
LEMMA CutFront ==
  ASSUME NEW b \in Seq(Nat), NEW more \in Seq(Nat),
         NEW e \in Seq(Nat), NEW t \in Seq(Nat),
         b \o more = e \o t, Len(b) >= Len(e)
  PROVE  /\ SubSeq(b, 1, Len(e)) = e
         /\ SubSeq(b, Len(e) + 1, Len(b)) \in Seq(Nat)
         /\ Len(SubSeq(b, Len(e) + 1, Len(b))) = Len(b) - Len(e)
         /\ \A i \in 1..(Len(b) - Len(e)) :
              SubSeq(b, Len(e) + 1, Len(b))[i] = b[Len(e) + i]
<1> DEFINE a == SubSeq(b, Len(e) + 1, Len(b))
<1>1. /\ Len(b) \in Nat /\ Len(e) \in Nat /\ Len(more) \in Nat /\ Len(t) \in Nat
      /\ Len(b) + Len(more) = Len(e) + Len(t)
      /\ \A i \in 1..Len(b) : (b \o more)[i] = b[i]
      /\ \A i \in 1..Len(more) : (b \o more)[Len(b) + i] = more[i]
      /\ \A i \in 1..Len(e) : (b \o more)[i] = e[i]
      /\ \A i \in 1..Len(t) : (b \o more)[Len(e) + i] = t[i]
  <2>1. /\ Len(b) \in Nat /\ Len(more) \in Nat
        /\ Len(b \o more) = Len(b) + Len(more)
        /\ \A i \in 1..Len(b) : (b \o more)[i] = b[i]
        /\ \A i \in 1..Len(more) : (b \o more)[Len(b) + i] = more[i]
    BY ConcatCells
  <2>2. /\ Len(e) \in Nat /\ Len(t) \in Nat
        /\ Len(e \o t) = Len(e) + Len(t)
        /\ \A i \in 1..Len(e) : (e \o t)[i] = e[i]
        /\ \A i \in 1..Len(t) : (e \o t)[Len(e) + i] = t[i]
    BY ConcatCells
  <2> QED
    BY <2>1, <2>2, Zenon
<1>2. SubSeq(b, 1, Len(e)) = e
  <2>1. \A i \in 1..Len(e) : b[i] \in Nat /\ b[i] = e[i]
    BY <1>1
  <2>2. /\ SubSeq(b, 1, Len(e)) \in Seq(Nat)
        /\ Len(SubSeq(b, 1, Len(e))) = Len(e)
        /\ \A i \in 1..Len(e) : SubSeq(b, 1, Len(e))[i] = b[i]
    BY <1>1, <2>1
  <2> HIDE DEF a
  <2> QED
    BY <2>1, <2>2, SeqEqual
<1>3. /\ a \in Seq(Nat) /\ Len(a) = Len(b) - Len(e)
      /\ \A i \in 1..Len(a) : a[i] = b[Len(e) + i]
  <2>1. \A i \in (Len(e) + 1)..Len(b) : b[i] \in Nat
    BY <1>1
  <2>2. /\ a \in Seq(Nat)
        /\ Len(a) = IF Len(e) + 1 <= Len(b) THEN Len(b) - (Len(e) + 1) + 1 ELSE 0
        /\ \A i \in 1..(Len(b) - (Len(e) + 1) + 1) : a[i] = b[Len(e) + 1 + i - 1]
    BY <1>1, <2>1, SubSeqProperties
  <2> HIDE DEF a
  <2>3. Len(a) = Len(b) - Len(e)
    BY <1>1, <2>2
  <2>4. ASSUME NEW i \in 1..Len(a)
        PROVE  a[i] = b[Len(e) + i]
    <3>1. /\ i \in 1..(Len(b) - (Len(e) + 1) + 1)
          /\ Len(e) + 1 + i - 1 = Len(e) + i
      BY <1>1, <2>3
    <3> QED
      BY <2>2, <3>1
  <2> QED
    BY <2>2, <2>3, <2>4
<1> HIDE DEF a
<1> QED
  BY <1>2, <1>3 DEF a

\* What is behind it, and what of that has not arrived.
LEMMA CutRest ==
  ASSUME NEW b \in Seq(Nat), NEW more \in Seq(Nat),
         NEW e \in Seq(Nat), NEW t \in Seq(Nat),
         b \o more = e \o t, Len(b) >= Len(e)
  PROVE  SubSeq(b, Len(e) + 1, Len(b)) \o more = t
<1> DEFINE a == SubSeq(b, Len(e) + 1, Len(b))
<1>1. /\ Len(b) \in Nat /\ Len(e) \in Nat /\ Len(more) \in Nat /\ Len(t) \in Nat
      /\ Len(b) + Len(more) = Len(e) + Len(t)
      /\ \A i \in 1..Len(b) : (b \o more)[i] = b[i]
      /\ \A i \in 1..Len(more) : (b \o more)[Len(b) + i] = more[i]
      /\ \A i \in 1..Len(e) : (b \o more)[i] = e[i]
      /\ \A i \in 1..Len(t) : (b \o more)[Len(e) + i] = t[i]
  <2>1. /\ Len(b) \in Nat /\ Len(more) \in Nat
        /\ Len(b \o more) = Len(b) + Len(more)
        /\ \A i \in 1..Len(b) : (b \o more)[i] = b[i]
        /\ \A i \in 1..Len(more) : (b \o more)[Len(b) + i] = more[i]
    BY ConcatCells
  <2>2. /\ Len(e) \in Nat /\ Len(t) \in Nat
        /\ Len(e \o t) = Len(e) + Len(t)
        /\ \A i \in 1..Len(e) : (e \o t)[i] = e[i]
        /\ \A i \in 1..Len(t) : (e \o t)[Len(e) + i] = t[i]
    BY ConcatCells
  <2> QED
    BY <2>1, <2>2, Zenon
<1>2. /\ a \in Seq(Nat) /\ Len(a) = Len(b) - Len(e)
      /\ \A i \in 1..Len(a) : a[i] = b[Len(e) + i]
  BY CutFront
<1> HIDE DEF a
<1>3. a \o more = t
  <2>1. /\ a \o more \in Seq(Nat)
        /\ Len(a \o more) = Len(a) + Len(more)
        /\ \A i \in 1..Len(a) : (a \o more)[i] = a[i]
        /\ \A i \in 1..Len(more) : (a \o more)[Len(a) + i] = more[i]
    BY <1>2, ConcatCells
  <2>2. Len(a \o more) = Len(t) /\ Len(a) \in Nat
    BY <1>1, <1>2, <2>1
  <2>3. ASSUME NEW i \in 1..Len(t)
        PROVE  (a \o more)[i] = t[i]
    <3>1. t[i] = (b \o more)[Len(e) + i]
      BY <1>1
    <3>2. CASE i <= Len(a)
      <4>1. i \in 1..Len(a) /\ Len(e) + i \in 1..Len(b)
        BY <1>1, <1>2, <3>2
      <4> QED
        BY <1>1, <1>2, <2>1, <3>1, <4>1
    <3>3. CASE ~(i <= Len(a))
      <4> DEFINE j == i - Len(a)
      <4>1. /\ j \in 1..Len(more) /\ Len(a) + j = i
            /\ Len(b) + j = Len(e) + i
        BY <1>1, <1>2, <2>2, <3>3
      <4> HIDE DEF j
      <4> QED
        BY <1>1, <2>1, <3>1, <4>1
    <3> QED
      BY <3>2, <3>3
  <2> QED
    BY <2>1, <2>2, <2>3, SeqEqual
<1> QED
  BY <1>3 DEF a

\* A set with 0 and with the successor of each of its numbers has them all.
LEMMA NatSetInduction ==
  ASSUME NEW S, 0 \in S, \A n \in Nat : n \in S => n + 1 \in S
  PROVE  Nat \subseteq S
<1> DEFINE T == {n \in Nat : n \notin S}
           R == OpToRel(<, Nat)
<1>1. SUFFICES ASSUME T # {}
               PROVE  FALSE
  OBVIOUS
<1>2. PICK n \in T : \A m \in T : <<m, n>> \notin R
  <2>1. IsWellFoundedOn(R, Nat) /\ T \subseteq Nat
    BY NatLessThanWellFounded
  <2> HIDE DEF T, R
  <2> QED
    BY <1>1, <2>1, WFMin
<1>3. n # 0 /\ n - 1 \in Nat /\ (n - 1) + 1 = n
  OBVIOUS
<1>4. <<n - 1, n>> \in R
  BY <1>3 DEF OpToRel
<1>5. n - 1 \in S
  BY <1>2, <1>3, <1>4
<1> QED
  BY <1>3, <1>5

\* What push starts with.
NotShifted(cells) == [buffer |-> cells, frames |-> <<>>, threw |-> FALSE]

\* f[n] is what n rounds of push make of a buffer and a chunk.
Rounds(f, buffer, chunk, k) ==
  /\ f[0] = NotShifted(buffer \o chunk)
  /\ \A n \in 1..k : f[n] = tryShiftFrame(f[n - 1])
  /\ push(buffer, chunk) = f[k]

\* push is what its loop says: there is one run of the loop, and push returns
\* its last state.
LEMMA PushLoop ==
  ASSUME NEW buffer, NEW chunk, NEW k \in Nat,
         k = Len(buffer \o chunk) \div HEADER_SIZE
  PROVE  \E f : Rounds(f, buffer, chunk, k)
<1> DEFINE first == NotShifted(buffer \o chunk)
           Run(f, m) == f = [n \in 0..m |-> IF n = 0 THEN first
                                            ELSE tryShiftFrame(f[n - 1])]
           S == {m \in Nat : \E f : Run(f, m)}
<1> HIDE DEF first
<1>1. 0 \in S
  <2>1. Run([n \in 0..0 |-> first], 0)
    OBVIOUS
  <2> QED
    BY <2>1
<1>2. ASSUME NEW m \in Nat, m \in S
      PROVE  m + 1 \in S
  <2>1. PICK f : Run(f, m)
    BY <1>2
  <2> DEFINE g == [n \in 0..(m + 1) |-> IF n = m + 1 THEN tryShiftFrame(f[m])
                                                   ELSE f[n]]
  <2>2. \A n \in 0..(m + 1) :
          g[n] = IF n = 0 THEN first ELSE tryShiftFrame(g[n - 1])
    <3> TAKE n \in 0..(m + 1)
    <3>1. CASE n = 0
      BY <2>1, <3>1
    <3>2. CASE n = m + 1
      BY <2>1, <3>2
    <3>3. CASE n # 0 /\ n # m + 1
      <4>1. n \in 0..m /\ n - 1 \in 0..(m + 1) /\ n - 1 # m + 1
        BY <3>3
      <4>2. f[n] = tryShiftFrame(f[n - 1])
        BY <2>1, <3>3, <4>1
      <4> QED
        BY <3>3, <4>1, <4>2
    <3> QED
      BY <3>1, <3>2, <3>3
  <2>3. Run(g, m + 1)
    <3>1. g = [n \in 0..(m + 1) |-> g[n]]
      OBVIOUS
    <3> HIDE DEF g
    <3> QED
      BY <2>2, <3>1
  <2> HIDE DEF g, Run
  <2> QED
    BY <2>3
<1>3. Nat \subseteq S
  <2> HIDE DEF S
  <2> QED
    BY <1>1, <1>2, NatSetInduction
<1>4. \E f : Run(f, k)
  BY <1>3
<1> DEFINE shifted == CHOOSE f : Run(f, k)
<1>5. Run(shifted, k)
  BY <1>4
<1>6. push(buffer, chunk) = shifted[k]
  BY DEF push, first, NotShifted
<1> HIDE DEF shifted
<1>7. shifted[0] = first /\ \A n \in 1..k : shifted[n] = tryShiftFrame(shifted[n - 1])
  <2>1. 0 \in 0..k /\ \A n \in 1..k : n \in 0..k /\ n # 0
    OBVIOUS
  <2> QED
    BY <1>5, <2>1
<1> QED
  BY <1>6, <1>7 DEF first, Rounds

-----------------------------------------------------------------------------
(* The frames of a body.                                                   *)

RawFrames == [type : Nat, payload : Seq(Nat)]

\* A body is the encodings of the frames fs, one behind the other, and then
\* nothing, or something that no frame begins with; tails[i] is what is behind
\* the first i frames.
Encodes(tails, fs) ==
  /\ tails \in [0..Len(fs) -> Seq(Nat)]
  /\ \A i \in 1..Len(fs) :
       tails[i - 1] = encodeFrame(fs[i].type, fs[i].payload) \o tails[i]
  /\ tails[Len(fs)] # <<>> => tails[Len(fs)][1] # Magic

\* A buffer with a frame at its front, somewhere in a body: the frame is the
\* next one of the body, and what is cut off leaves the body where that frame
\* ends; or it is not a frame at all, and does not decode.
LEMMA NextFrame ==
  ASSUME NEW fs \in Seq(RawFrames), NEW tails, Encodes(tails, fs),
         NEW d \in 0..Len(fs), NEW b \in Seq(Nat), NEW more \in Seq(Nat),
         b \o more = tails[d], HasFrame(b)
  PROVE  \/ /\ d < Len(fs)
            /\ Decodable(FirstFrame(b))
            /\ decodeFrame(FirstFrame(b)) = fs[d + 1]
            /\ AfterFrame(b) \in Seq(Nat)
            /\ Len(AfterFrame(b)) + HEADER_SIZE <= Len(b)
            /\ AfterFrame(b) \o more = tails[d + 1]
         \/ /\ d = Len(fs)
            /\ tails[d] # <<>>
            /\ ~Decodable(FirstFrame(b))
            /\ AfterFrame(b) \in Seq(Nat)
<1>1. /\ Len(b) \in Nat /\ Len(b) >= 4 /\ Len(fs) \in Nat
      /\ \A i \in 1..Len(b) : (b \o more)[i] = b[i] /\ b[i] \in Nat
  <2>1. Len(b) >= 4
    BY DEF HasFrame, HEADER_SIZE
  <2>2. /\ Len(b) \in Nat
        /\ \A i \in 1..Len(b) : (b \o more)[i] = b[i]
    BY ConcatCells
  <2>3. \A i \in 1..Len(b) : b[i] \in Nat
    BY ElementOfSeq
  <2> QED
    BY <2>1, <2>2, <2>3, LenProperties
<1>2. CASE d < Len(fs)
  <2> DEFINE w == fs[d + 1]
             e == encodeFrame(w.type, w.payload)
  <2>1. d + 1 \in 1..Len(fs) /\ (d + 1) - 1 = d /\ d + 1 \in 0..Len(fs)
    BY <1>1, <1>2
  <2>2. w \in RawFrames /\ tails[d] = e \o tails[d + 1] /\ tails[d + 1] \in Seq(Nat)
    <3>1. fs[d + 1] \in RawFrames
      BY <2>1, ElementOfSeq
    <3>2. tails[d + 1] \in Seq(Nat)
      BY <2>1 DEF Encodes
    <3>3. tails[(d + 1) - 1] = e \o tails[d + 1]
      BY <2>1, Zenon DEF Encodes
    <3> QED
      BY <2>1, <3>1, <3>2, <3>3
  <2>3. w.type \in Nat /\ w.payload \in Seq(Nat)
    BY <2>2 DEF RawFrames
  <2>4. w = [type |-> w.type, payload |-> w.payload]
    BY <2>2 DEF RawFrames
  <2> HIDE DEF w
  <2>5. /\ Len(w.payload) \in Nat /\ e \in Seq(Nat)
        /\ Len(e) = 4 + Len(w.payload) /\ e[4] = Len(w.payload)
    BY <2>3, EncodedFrame DEF HEADER_SIZE
  <2>6. Decodable(e) /\ decodeFrame(e) = w
    BY <2>3, <2>4, DecodeEncode
  <2> HIDE DEF e
  <2>7. (e \o tails[d + 1])[4] = e[4]
    <3>1. 4 \in 1..Len(e)
      BY <2>5
    <3> QED
      BY <2>2, <2>5, <3>1, ConcatCells
  <2>8. b[4] = e[4]
    <3>1. 4 \in 1..Len(b)
      BY <1>1
    <3> QED
      BY <1>1, <2>2, <2>7, <3>1
  <2>9. Len(b) >= Len(e) /\ 4 + b[4] = Len(e)
    BY <2>5, <2>8 DEF HasFrame, HEADER_SIZE
  <2>10. /\ SubSeq(b, 1, Len(e)) = e
         /\ SubSeq(b, Len(e) + 1, Len(b)) \in Seq(Nat)
         /\ Len(SubSeq(b, Len(e) + 1, Len(b))) = Len(b) - Len(e)
         /\ SubSeq(b, Len(e) + 1, Len(b)) \o more = tails[d + 1]
    <3>1. b \o more = e \o tails[d + 1] /\ tails[d + 1] \in Seq(Nat)
      BY <2>2
    <3>2. e \in Seq(Nat) /\ Len(b) >= Len(e)
      BY <2>5, <2>9
    <3>3. /\ SubSeq(b, 1, Len(e)) = e
          /\ SubSeq(b, Len(e) + 1, Len(b)) \in Seq(Nat)
          /\ Len(SubSeq(b, Len(e) + 1, Len(b))) = Len(b) - Len(e)
      BY <3>1, <3>2, CutFront
    <3>4. SubSeq(b, Len(e) + 1, Len(b)) \o more = tails[d + 1]
      BY <3>1, <3>2, CutRest
    <3> QED
      BY <3>3, <3>4
  <2>11. /\ FirstFrame(b) = SubSeq(b, 1, Len(e))
         /\ AfterFrame(b) = SubSeq(b, Len(e) + 1, Len(b))
    BY <2>9 DEF FirstFrame, AfterFrame, HEADER_SIZE
  <2>12. Len(AfterFrame(b)) + 4 <= Len(b)
    BY <1>1, <2>5, <2>10, <2>11
  <2> QED
    BY <1>2, <2>6, <2>10, <2>11, <2>12 DEF HEADER_SIZE, w
<1>3. CASE d = Len(fs)
  <2>1. 1 \in 1..Len(b) /\ b[4] \in Nat /\ 1 \in 1..(4 + b[4])
    BY <1>1
  <2>2. tails[d] # <<>>
    <3>1. Len(b \o more) >= 4
      <4>1. Len(b \o more) = Len(b) + Len(more) /\ Len(more) \in Nat
        BY ConcatCells
      <4> QED
        BY <1>1, <4>1
    <3> QED
      BY <3>1, EmptySeq
  <2>3. b[1] # Magic
    BY <1>1, <1>3, <2>1, <2>2 DEF Encodes
  <2>4. /\ SubSeq(b, 1, 4 + b[4])[1] = b[1]
        /\ SubSeq(b, 4 + b[4] + 1, Len(b)) \in Seq(Nat)
    <3>1. 4 + b[4] <= Len(b)
      BY <2>1 DEF HasFrame, HEADER_SIZE
    <3> QED
      BY <1>1, <2>1, <3>1
  <2>5. ~Decodable(FirstFrame(b)) /\ AfterFrame(b) \in Seq(Nat)
    BY <2>3, <2>4 DEF Decodable, FirstFrame, AfterFrame, HEADER_SIZE
  <2> QED
    BY <1>3, <2>2, <2>5
<1> QED
  BY <1>1, <1>2, <1>3

\* Where the body has no whole frame in front, all frames are behind.
LEMMA NoFrameYet ==
  ASSUME NEW fs \in Seq(RawFrames), NEW tails, Encodes(tails, fs),
         NEW d \in 0..Len(fs), tails[d] \in Seq(Nat), ~HasFrame(tails[d])
  PROVE  d = Len(fs)
<1>1. SUFFICES ASSUME d # Len(fs)
               PROVE  FALSE
  OBVIOUS
<1>2. Len(fs) \in Nat
  BY LenProperties
<1>3. d + 1 \in 1..Len(fs) /\ (d + 1) - 1 = d /\ d + 1 \in 0..Len(fs)
  BY <1>1, <1>2
<1>4. /\ fs[d + 1] \in RawFrames /\ tails[d + 1] \in Seq(Nat)
      /\ tails[d] = encodeFrame(fs[d + 1].type, fs[d + 1].payload) \o tails[d + 1]
  <2>1. fs[d + 1] \in RawFrames
    BY <1>3, ElementOfSeq
  <2>2. tails[d + 1] \in Seq(Nat)
    BY <1>3 DEF Encodes
  <2>3. tails[(d + 1) - 1] =
          encodeFrame(fs[d + 1].type, fs[d + 1].payload) \o tails[d + 1]
    BY <1>3, Zenon DEF Encodes
  <2> QED
    BY <1>3, <2>1, <2>2, <2>3
<1>5. fs[d + 1].type \in Nat /\ fs[d + 1].payload \in Seq(Nat)
  BY <1>4 DEF RawFrames
<1> QED
  BY <1>4, <1>5, FrameIsCutOff

\* What n rounds of push have made of a buffer of size cells in front of which
\* d frames have been cut off already.
Collected(s, n, size, fs, tails, d, more) ==
  /\ s.buffer \in Seq(Nat)
  /\ \/ s.threw = TRUE /\ tails[Len(fs)] # <<>>
     \/ /\ s.threw = FALSE
        /\ s.frames \in Seq(RawFrames)
        /\ d + Len(s.frames) <= Len(fs)
        /\ \A i \in 1..Len(s.frames) : s.frames[i] = fs[d + i]
        /\ s.buffer \o more = tails[d + Len(s.frames)]
        /\ Len(s.buffer) + 4 * Len(s.frames) <= size
        /\ HasFrame(s.buffer) => Len(s.frames) = n

\* One round more.
LEMMA CollectedNext ==
  ASSUME NEW fs \in Seq(RawFrames), NEW tails, Encodes(tails, fs),
         NEW d \in 0..Len(fs), NEW more \in Seq(Nat), NEW size \in Nat,
         NEW n \in Nat, NEW s, Collected(s, n, size, fs, tails, d, more)
  PROVE  Collected(tryShiftFrame(s), n + 1, size, fs, tails, d, more)
<1>1. CASE s.threw \/ ~HasFrame(s.buffer)
  <2>1. tryShiftFrame(s) = s
    BY <1>1 DEF tryShiftFrame
  <2>2. s.threw = TRUE \/ ~HasFrame(s.buffer)
    BY <1>1 DEF Collected
  <2>3. Collected(s, n + 1, size, fs, tails, d, more)
    BY <2>2 DEF Collected
  <2> QED
    BY <2>1, <2>3
<1>2. CASE ~s.threw /\ HasFrame(s.buffer)
  <2> DEFINE b == s.buffer
             c == d + Len(s.frames)
             t == tryShiftFrame(s)
  <2>1. /\ b \in Seq(Nat) /\ s.frames \in Seq(RawFrames) /\ Len(s.frames) \in Nat
        /\ Len(s.frames) = n /\ c <= Len(fs)
        /\ \A i \in 1..Len(s.frames) : s.frames[i] = fs[d + i]
        /\ b \o more = tails[c] /\ Len(b) + 4 * Len(s.frames) <= size
    BY <1>2, LenProperties DEF Collected
  <2>2. /\ Decodable(FirstFrame(b)) =>
             t = [buffer |-> AfterFrame(b),
                  frames |-> Append(s.frames, decodeFrame(FirstFrame(b))),
                  threw  |-> FALSE]
        /\ ~Decodable(FirstFrame(b)) =>
             t = [buffer |-> AfterFrame(b), frames |-> s.frames, threw |-> TRUE]
    BY <1>2, Zenon DEF tryShiftFrame
  <2>3. c \in 0..Len(fs) /\ Len(fs) \in Nat /\ d \in Nat
    BY <2>1, LenProperties
  <2>4. \/ /\ c < Len(fs)
           /\ Decodable(FirstFrame(b))
           /\ decodeFrame(FirstFrame(b)) = fs[c + 1]
           /\ AfterFrame(b) \in Seq(Nat)
           /\ Len(AfterFrame(b)) + HEADER_SIZE <= Len(b)
           /\ AfterFrame(b) \o more = tails[c + 1]
        \/ /\ c = Len(fs)
           /\ tails[c] # <<>>
           /\ ~Decodable(FirstFrame(b))
           /\ AfterFrame(b) \in Seq(Nat)
    <3> HIDE DEF b, c
    <3>1. HasFrame(b)
      BY <1>2 DEF b
    <3> QED
      <4>1. b \in Seq(Nat) /\ b \o more = tails[c] /\ c \in 0..Len(fs)
        BY <2>1, <2>3
      <4> QED
        BY <3>1, <4>1, NextFrame, ZenonT(60)
  <2>5. CASE Decodable(FirstFrame(b))
    <3> DEFINE g == Append(s.frames, fs[c + 1])
    <3>1. /\ t.buffer = AfterFrame(b) /\ t.frames = g /\ t.threw = FALSE
      BY <2>2, <2>4, <2>5
    <3>2. c + 1 \in 1..Len(fs) /\ fs[c + 1] \in RawFrames
      <4>1. c + 1 \in 1..Len(fs)
        BY <2>3, <2>4, <2>5
      <4> QED
        BY <4>1, ElementOfSeq
    <3>3. /\ g \in Seq(RawFrames) /\ Len(g) = Len(s.frames) + 1
          /\ \A i \in 1..Len(s.frames) : g[i] = s.frames[i]
          /\ g[Len(s.frames) + 1] = fs[c + 1]
      BY <2>1, <3>2, AppendProperties
    <3> HIDE DEF g, t
    <3>4. d + Len(g) = c + 1 /\ d + Len(g) <= Len(fs)
      BY <2>1, <2>3, <3>2, <3>3
    <3>5. \A i \in 1..Len(g) : g[i] = fs[d + i]
      <4> TAKE i \in 1..Len(g)
      <4>1. i \in 1..Len(s.frames) \/ i = Len(s.frames) + 1
        BY <2>1, <3>3
      <4>2. d + (Len(s.frames) + 1) = c + 1
        BY <2>1, <2>3
      <4> QED
        BY <2>1, <3>3, <4>1, <4>2
    <3>6. Len(AfterFrame(b)) + 4 * Len(g) <= size
      <4>1. Len(AfterFrame(b)) \in Nat /\ Len(b) \in Nat
        BY <2>1, <2>4, LenProperties
      <4>2. Len(AfterFrame(b)) + 4 <= Len(b)
        BY <2>4, <2>5 DEF HEADER_SIZE
      <4> HIDE DEF b
      <4> QED
        BY <2>1, <3>3, <4>1, <4>2
    <3>7. AfterFrame(b) \in Seq(Nat) /\ AfterFrame(b) \o more = tails[d + Len(g)]
      BY <2>4, <2>5, <3>4
    <3>8. Len(g) = n + 1
      BY <2>1, <3>3
    <3> QED
      BY <3>1, <3>3, <3>4, <3>5, <3>6, <3>7, <3>8 DEF Collected, t
  <2>6. CASE ~Decodable(FirstFrame(b))
    <3>1. t.buffer = AfterFrame(b) /\ t.threw = TRUE
      BY <2>2, <2>6
    <3> QED
      BY <2>4, <2>6, <3>1 DEF Collected
  <2> QED
    BY <2>5, <2>6
<1> QED
  BY <1>1, <1>2

\* A buffer of size cells has no more frames than push makes rounds.
LEMMA EnoughRounds ==
  ASSUME NEW size \in Nat
  PROVE  /\ size \div 4 \in Nat
         /\ \A x \in Nat : x + 4 * (size \div 4) <= size => x < 4
OBVIOUS

\* s is what push has to return when d frames of a body have been cut off and
\* more of it is still to come.
IsCut(s, fs, tails, d, more) ==
  /\ s.buffer \in Seq(Nat)
  /\ \/ s.threw = TRUE /\ tails[Len(fs)] # <<>>
     \/ /\ s.threw = FALSE
        /\ ~HasFrame(s.buffer)
        /\ s.frames \in Seq(RawFrames)
        /\ d + Len(s.frames) <= Len(fs)
        /\ \A i \in 1..Len(s.frames) : s.frames[i] = fs[d + i]
        /\ s.buffer \o more = tails[d + Len(s.frames)]

\* push, for any body and however it was cut into chunks: it returns the next
\* frames of the body, all that the buffer and the chunk have whole, in order
\* and as they were encoded, and keeps the rest; it throws only if there is
\* something in the body that is not a frame.
THEOREM PushCutsFrames ==
  ASSUME NEW fs \in Seq(RawFrames), NEW tails, Encodes(tails, fs),
         NEW d \in 0..Len(fs), NEW buffer \in Seq(Nat), NEW chunk \in Seq(Nat),
         NEW more \in Seq(Nat), (buffer \o chunk) \o more = tails[d]
  PROVE  IsCut(push(buffer, chunk), fs, tails, d, more)
<1> DEFINE merged == buffer \o chunk
           size == Len(merged)
           k == size \div 4
<1>1. merged \in Seq(Nat) /\ size \in Nat /\ d \in Nat /\ Len(fs) \in Nat
  BY ConcatProperties, LenProperties
<1> HIDE DEF merged
<1>2. k \in Nat /\ \A x \in Nat : x + 4 * k <= size => x < 4
  BY <1>1, EnoughRounds
<1> HIDE DEF k
<1>3. PICK f : Rounds(f, buffer, chunk, k)
  <2>1. k = Len(buffer \o chunk) \div HEADER_SIZE
    BY DEF k, merged, HEADER_SIZE
  <2>2. k \in Nat
    BY <1>2
  <2> QED
    BY <2>1, <2>2, PushLoop
<1> DEFINE C(s, n) == Collected(s, n, size, fs, tails, d, more)
           S == {n \in Nat : n <= k => C(f[n], n)}
<1>4. C(f[0], 0)
  <2>1. /\ f[0].buffer = merged /\ f[0].frames = <<>> /\ f[0].threw = FALSE
    BY <1>3 DEF NotShifted, merged, Rounds
  <2>2. <<>> \in Seq(RawFrames) /\ Len(<<>>) = 0 /\ d + 0 = d
    BY <1>1, EmptySeq
  <2>3. merged \o more = tails[d] /\ size + 4 * 0 <= size /\ d <= Len(fs)
    BY <1>1 DEF merged
  <2> QED
    BY <1>1, <2>1, <2>2, <2>3 DEF Collected
<1>5. \A n \in Nat : n \in S => n + 1 \in S
  <2> SUFFICES ASSUME NEW n \in Nat, n \in S, n + 1 <= k
               PROVE  C(f[n + 1], n + 1)
    OBVIOUS
  <2>1. C(f[n], n)
    BY <1>2
  <2>2. n + 1 \in 1..k /\ (n + 1) - 1 = n
    BY <1>2
  <2>3. f[n + 1] = tryShiftFrame(f[n])
    BY <1>3, <2>2 DEF Rounds
  <2>4. C(tryShiftFrame(f[n]), n + 1)
    BY <1>1, <2>1, CollectedNext
  <2> QED
    BY <2>3, <2>4
<1>6. Nat \subseteq S
  <2>1. 0 \in S
    BY <1>4
  <2> HIDE DEF S
  <2> QED
    BY <1>5, <2>1, NatSetInduction
<1>7. C(f[k], k)
  BY <1>2, <1>6
<1> DEFINE s == f[k]
<1>8. s.threw = FALSE => ~HasFrame(s.buffer)
  <2> SUFFICES ASSUME s.threw = FALSE, HasFrame(s.buffer)
               PROVE  FALSE
    OBVIOUS
  <2>1. Len(s.frames) = k /\ Len(s.buffer) + 4 * Len(s.frames) <= size
    BY <1>7 DEF Collected
  <2>2. Len(s.buffer) >= 4
    BY DEF HasFrame, HEADER_SIZE
  <2>3. Len(s.buffer) \in Nat
    BY <1>7, LenProperties DEF Collected
  <2>4. Len(s.buffer) + 4 * k <= size
    BY <2>1
  <2>5. Len(s.buffer) < 4
    BY <1>2, <2>3, <2>4
  <2> QED
    BY <2>2, <2>3, <2>5
<1> QED
  BY <1>3, <1>7, <1>8 DEF Collected, Rounds, IsCut

\* Three pieces of a body.
LEMMA ThreePieces ==
  ASSUME NEW s \in Seq(Nat), NEW t \in Seq(Nat), NEW u \in Seq(Nat)
  PROVE  (s \o t) \o u = s \o (t \o u)
BY ConcatAssociative

\* What is written behind a body is behind each of its frames.
LEMMA CellsBehind ==
  ASSUME NEW fs \in Seq(RawFrames), NEW tails, Encodes(tails, fs),
         NEW cells \in Seq(Nat)
  PROVE  /\ Len(fs) \in Nat
         /\ \A i \in 0..Len(fs) : tails[i] \o cells \in Seq(Nat)
         /\ \A i \in 1..Len(fs) :
              tails[i - 1] \o cells =
                encodeFrame(fs[i].type, fs[i].payload) \o (tails[i] \o cells)
<1>1. Len(fs) \in Nat
  BY LenProperties
<1>2. \A i \in 0..Len(fs) : tails[i] \in Seq(Nat)
  BY DEF Encodes
<1>3. \A i \in 0..Len(fs) : tails[i] \o cells \in Seq(Nat)
  BY <1>2, ConcatProperties
<1>4. ASSUME NEW i \in 1..Len(fs)
      PROVE  tails[i - 1] \o cells =
               encodeFrame(fs[i].type, fs[i].payload) \o (tails[i] \o cells)
  <2> DEFINE e == encodeFrame(fs[i].type, fs[i].payload)
  <2>1. tails[i - 1] = e \o tails[i]
    BY DEF Encodes
  <2>2. e \in Seq(Nat)
    <3>1. fs[i] \in RawFrames
      BY ElementOfSeq
    <3>2. fs[i].type \in Nat /\ fs[i].payload \in Seq(Nat)
      BY <3>1 DEF RawFrames
    <3> QED
      BY <3>2, EncodedFrame
  <2>3. tails[i] \in Seq(Nat)
    BY <1>1, <1>2
  <2> HIDE DEF e
  <2>4. (e \o tails[i]) \o cells = e \o (tails[i] \o cells)
    BY <2>2, <2>3, ThreePieces
  <2> QED
    BY <2>1, <2>4 DEF e
<1> QED
  BY <1>1, <1>3, <1>4

\* More cells behind a body.
Behind(u, tails, fs, cells) ==
  \A i \in 0..Len(fs) : u[i] = tails[i] \o cells

\* Something that is not a frame.
LEMMA ForeignBehind ==
  ASSUME NEW fs \in Seq(RawFrames), NEW tails, Encodes(tails, fs),
         tails[Len(fs)] = <<>>,
         NEW cells \in Seq(Nat), cells # <<>> => cells[1] # Magic
  PROVE  \E u : Encodes(u, fs) /\ Behind(u, tails, fs, cells)
<1> DEFINE u == [i \in 0..Len(fs) |-> tails[i] \o cells]
<1>1. /\ Len(fs) \in Nat
      /\ \A i \in 0..Len(fs) : tails[i] \o cells \in Seq(Nat)
      /\ \A i \in 1..Len(fs) :
           tails[i - 1] \o cells =
             encodeFrame(fs[i].type, fs[i].payload) \o (tails[i] \o cells)
  BY CellsBehind
<1>2. <<>> \o cells = cells
  BY ConcatSimplifications
<1>3. /\ \A i \in 0..Len(fs) : u[i] = tails[i] \o cells
      /\ u \in [0..Len(fs) -> Seq(Nat)]
  BY <1>1
<1>4. u[Len(fs)] = cells
  BY <1>1, <1>2, <1>3
<1> HIDE DEF u
<1>5. ASSUME NEW i \in 1..Len(fs)
      PROVE  u[i - 1] = encodeFrame(fs[i].type, fs[i].payload) \o u[i]
  <2>1. i \in 0..Len(fs) /\ i - 1 \in 0..Len(fs)
    BY <1>1
  <2>2. u[i] = tails[i] \o cells /\ u[i - 1] = tails[i - 1] \o cells
    BY <1>3, <2>1
  <2> QED
    BY <1>1, <2>2, Zenon
<1>6. Encodes(u, fs)
  BY <1>3, <1>4, <1>5 DEF Encodes
<1> QED
  BY <1>3, <1>6 DEF Behind

\* One frame more.
LEMMA FrameBehind ==
  ASSUME NEW fs \in Seq(RawFrames), NEW tails, Encodes(tails, fs),
         tails[Len(fs)] = <<>>, NEW f \in RawFrames
  PROVE  \E u : /\ Encodes(u, Append(fs, f))
                /\ u[Len(fs) + 1] = <<>>
                /\ Behind(u, tails, fs, encodeFrame(f.type, f.payload))
<1> DEFINE cells == encodeFrame(f.type, f.payload)
           gs == Append(fs, f)
           u == [i \in 0..(Len(fs) + 1) |->
                   IF i = Len(fs) + 1 THEN <<>> ELSE tails[i] \o cells]
<1>1. cells \in Seq(Nat)
  BY EncodedFrame DEF RawFrames
<1>2. /\ Len(fs) \in Nat
      /\ \A i \in 0..Len(fs) : tails[i] \o cells \in Seq(Nat)
      /\ \A i \in 1..Len(fs) :
           tails[i - 1] \o cells =
             encodeFrame(fs[i].type, fs[i].payload) \o (tails[i] \o cells)
  <2> HIDE DEF cells
  <2> QED
    BY <1>1, CellsBehind
<1>3. /\ Len(gs) = Len(fs) + 1 /\ gs[Len(fs) + 1] = f
      /\ \A i \in 1..Len(fs) : gs[i] = fs[i]
  BY AppendProperties
<1>4. <<>> \o cells = cells /\ cells \o <<>> = cells /\ <<>> \in Seq(Nat)
  BY <1>1, ConcatSimplifications, EmptySeq
<1> HIDE DEF cells, gs
<1>5. /\ u \in [0..(Len(fs) + 1) -> Seq(Nat)]
      /\ \A i \in 0..Len(fs) : u[i] = tails[i] \o cells
      /\ u[Len(fs) + 1] = <<>>
  <2>1. ASSUME NEW i \in 0..(Len(fs) + 1)
        PROVE  /\ i = Len(fs) + 1 \/ i \in 0..Len(fs)
               /\ (IF i = Len(fs) + 1 THEN <<>> ELSE tails[i] \o cells) \in Seq(Nat)
    <3>1. i = Len(fs) + 1 \/ i \in 0..Len(fs)
      BY <1>2
    <3> QED
      BY <1>2, <1>4, <3>1
  <2>2. u \in [0..(Len(fs) + 1) -> Seq(Nat)]
    BY <2>1
  <2>3. ASSUME NEW i \in 0..Len(fs)
        PROVE  u[i] = tails[i] \o cells
    <3>1. i \in 0..(Len(fs) + 1) /\ i # Len(fs) + 1
      BY <1>2
    <3> QED
      BY <3>1
  <2>4. Len(fs) + 1 \in 0..(Len(fs) + 1)
    BY <1>2
  <2> QED
    BY <2>2, <2>3, <2>4
<1> HIDE DEF u
<1>6. u[Len(fs)] = cells
  <2>1. Len(fs) \in 0..Len(fs)
    BY <1>2
  <2>2. u[Len(fs)] = tails[Len(fs)] \o cells
    BY <1>5, <2>1
  <2> QED
    BY <1>4, <2>2
<1>7. ASSUME NEW i \in 1..(Len(fs) + 1)
      PROVE  u[i - 1] = encodeFrame(gs[i].type, gs[i].payload) \o u[i]
  <2>1. CASE i = Len(fs) + 1
    <3>1. i - 1 = Len(fs)
      BY <1>2, <2>1
    <3>2. gs[i] = f /\ u[i] = <<>>
      BY <1>3, <1>5, <2>1
    <3> QED
      BY <1>4, <1>6, <3>1, <3>2 DEF cells
  <2>2. CASE i # Len(fs) + 1
    <3>1. i \in 1..Len(fs) /\ i \in 0..Len(fs) /\ i - 1 \in 0..Len(fs)
      BY <1>2, <2>2
    <3>2. /\ u[i] = tails[i] \o cells /\ u[i - 1] = tails[i - 1] \o cells
          /\ gs[i] = fs[i]
      BY <1>3, <1>5, <3>1
    <3> QED
      BY <1>2, <3>1, <3>2, Zenon
  <2> QED
    BY <2>1, <2>2
<1>8. Encodes(u, gs)
  BY <1>3, <1>5, <1>7 DEF Encodes
<1> QED
  BY <1>5, <1>8 DEF gs, cells, Behind

=============================================================================
