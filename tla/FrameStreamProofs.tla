-------------------------- MODULE FrameStreamProofs --------------------------
(***************************************************************************)
(* Theorems of FrameStream: for every set of messages, number of frames    *)
(* and way to cut a body into pieces, the reader dispatches what the       *)
(* writer wrote.                                                           *)
(***************************************************************************)
EXTENDS FrameStream, FramingProofs

-----------------------------------------------------------------------------
(* The inductive invariant.                                                *)

\* A frame as it is encoded.
Raw(f) ==
  [type |-> f.type,
   payload |-> IF f.type = MESSAGE THEN wrapGrpcMessage(f.body) ELSE f.body]

RawOf(fs) == [i \in 1..Len(fs) |-> Raw(fs[i])]

InOrder ==
  /\ Len(dispatched) <= Len(written)
  /\ \A i \in 1..Len(dispatched) : dispatched[i] = written[i]

\* The last frame of a body is written last.
LastIsLast ==
  \A i \in 1..Len(written) : written[i].type = LastType => i = Len(written)

\* What is in the buffer and on its way, and what was lost with the connection,
\* is the rest of the body from the first frame that was not dispatched.
OnTheWay(tails, lost) ==
  /\ Encodes(tails, RawOf(written))
  /\ lost \in Seq(Nat)
  /\ buffer \o (wire \o lost) = tails[Len(dispatched)]
  /\ http # "broken" => lost = <<>>
  /\ ~foreign => tails[Len(written)] = <<>>

Unread == reader = "reading" => \E tails, lost : OnTheWay(tails, lost)

\* push leaves no frame behind.
Pushed == side = "client" /\ reader = "reading" => ~HasFrame(buffer)

\* A reader that has ended has no more to come.
Ended ==
  reader = "ended" /\ ~foreign =>
    /\ Len(dispatched) = Len(written)
    /\ \/ http # "open"
       \/ written # <<>> /\ written[Len(written)].type = LastType

IInv == TypeOK /\ InOrder /\ LastIsLast /\ Unread /\ Pushed /\ Ended

-----------------------------------------------------------------------------
(* The frames.                                                             *)

\* What is encoded of a frame, the reader turns into that frame again.
LEMMA FrameIsRead ==
  ASSUME NEW f \in Frames
  PROVE  /\ Raw(f) \in RawFrames
         /\ Raw(f).type = f.type
         /\ Received(Raw(f)) = f
<1>1. /\ f = [type |-> f.type, body |-> f.body]
      /\ f.type \in Nat /\ f.body \in Seq(Nat)
  <2>1. CASE f \in [type : {HEADERS, LastType}, body : {<<>>}]
    <3>1. HEADERS \in Nat /\ LastType \in Nat /\ <<>> \in Seq(Nat)
      BY EmptySeq DEF HEADERS, LastType, TRAILERS, HALF_CLOSE
    <3> QED
      BY <2>1, <3>1
  <2>2. CASE f \in [type : {MESSAGE}, body : Messages]
    BY <2>2, StreamAssumption DEF MESSAGE
  <2> QED
    BY <2>1, <2>2 DEF Frames
<1>2. wrapGrpcMessage(f.body) \in Seq(Nat)
  <2>1. <<0, Len(f.body)>> \in Seq(Nat)
    BY <1>1, LenProperties
  <2> QED
    BY <1>1, <2>1, ConcatProperties DEF wrapGrpcMessage
<1>3. /\ Raw(f).type = f.type
      /\ f.type = MESSAGE => Raw(f).payload = wrapGrpcMessage(f.body)
      /\ f.type # MESSAGE => Raw(f).payload = f.body
  BY DEF Raw
<1>4. Raw(f) \in RawFrames
  <2>1. (IF f.type = MESSAGE THEN wrapGrpcMessage(f.body) ELSE f.body) \in Seq(Nat)
    BY <1>1, <1>2
  <2> QED
    BY <1>1, <2>1 DEF Raw, RawFrames
<1>5. Received(Raw(f)) = f
  <2>1. CASE f.type = MESSAGE
    <3>1. decodeMessagePayload(wrapGrpcMessage(f.body)) = f.body
      BY <1>1, UnwrapWrap
    <3> QED
      BY <1>1, <1>3, <2>1, <3>1 DEF Received
  <2>2. CASE f.type # MESSAGE
    BY <1>1, <1>3, <2>2 DEF Received
  <2> QED
    BY <2>1, <2>2
<1> QED
  BY <1>3, <1>4, <1>5

\* All that was written.
LEMMA RawWritten ==
  ASSUME NEW fs \in Seq(Frames)
  PROVE  /\ RawOf(fs) \in Seq(RawFrames)
         /\ Len(RawOf(fs)) = Len(fs) /\ Len(fs) \in Nat
         /\ \A i \in 1..Len(fs) : RawOf(fs)[i] = Raw(fs[i]) /\ fs[i] \in Frames
<1>1. Len(fs) \in Nat /\ \A i \in 1..Len(fs) : fs[i] \in Frames
  BY LenProperties, ElementOfSeq
<1>2. \A i \in 1..Len(fs) : Raw(fs[i]) \in RawFrames
  BY <1>1, FrameIsRead
<1>3. RawOf(fs) \in [1..Len(fs) -> RawFrames]
  BY <1>2 DEF RawOf
<1>4. \A i \in 1..Len(fs) : RawOf(fs)[i] = Raw(fs[i])
  BY DEF RawOf
<1> QED
  BY <1>1, <1>3, <1>4

\* One frame more.
LEMMA RawAppended ==
  ASSUME NEW fs \in Seq(Frames), NEW f \in Frames
  PROVE  RawOf(Append(fs, f)) = Append(RawOf(fs), Raw(f))
<1> DEFINE gs == Append(fs, f)
           rs == Append(RawOf(fs), Raw(f))
<1>1. /\ gs \in Seq(Frames) /\ Len(gs) = Len(fs) + 1 /\ gs[Len(fs) + 1] = f
      /\ \A i \in 1..Len(fs) : gs[i] = fs[i]
  BY AppendProperties
<1>2. /\ RawOf(fs) \in Seq(RawFrames) /\ Len(RawOf(fs)) = Len(fs)
      /\ Len(fs) \in Nat
      /\ \A i \in 1..Len(fs) : RawOf(fs)[i] = Raw(fs[i])
  BY RawWritten
<1>3. /\ rs \in Seq(RawFrames) /\ Len(rs) = Len(fs) + 1
      /\ rs[Len(fs) + 1] = Raw(f)
      /\ \A i \in 1..Len(fs) : rs[i] = Raw(fs[i])
  <2>1. Raw(f) \in RawFrames
    BY FrameIsRead
  <2>2. /\ rs \in Seq(RawFrames) /\ Len(rs) = Len(RawOf(fs)) + 1
        /\ rs[Len(RawOf(fs)) + 1] = Raw(f)
        /\ \A i \in 1..Len(RawOf(fs)) : rs[i] = RawOf(fs)[i]
    BY <1>2, <2>1, AppendProperties
  <2> HIDE DEF rs
  <2> QED
    BY <1>2, <2>2
<1> HIDE DEF gs, rs
<1>4. /\ RawOf(gs) \in Seq(RawFrames) /\ Len(RawOf(gs)) = Len(fs) + 1
      /\ \A i \in 1..(Len(fs) + 1) : RawOf(gs)[i] = Raw(gs[i])
  BY <1>1, RawWritten
<1>5. \A i \in 1..(Len(fs) + 1) : RawOf(gs)[i] = rs[i]
  <2> TAKE i \in 1..(Len(fs) + 1)
  <2>1. i \in 1..Len(fs) \/ i = Len(fs) + 1
    BY <1>2
  <2> QED
    BY <1>1, <1>3, <1>4, <2>1
<1>6. RawOf(gs) = rs
  BY <1>3, <1>4, <1>5, SeqEqual
<1> QED
  BY <1>6 DEF gs, rs

-----------------------------------------------------------------------------
(* Its steps.                                                              *)

\* Nothing is written yet, and all of it is on its way.
LEMMA InitInv == Init => IInv
<1> SUFFICES ASSUME Init
             PROVE  IInv
  OBVIOUS
<1>1. /\ written = <<>> /\ wire = <<>> /\ buffer = <<>> /\ dispatched = <<>>
      /\ reader = "reading" /\ http = "open" /\ foreign = FALSE
      /\ side \in {"client", "server"}
  BY DEF Init
<1>2. /\ Len(<<>>) = 0 /\ <<>> \in Seq(Frames) /\ <<>> \in Seq(Nat)
      /\ <<>> \o (<<>> \o <<>>) = <<>> /\ <<>> \in Seq(RawFrames)
  BY EmptySeq
<1>3. TypeOK
  BY <1>1, <1>2 DEF TypeOK
<1>4. InOrder /\ LastIsLast /\ Pushed /\ Ended
  BY <1>1, <1>2 DEF InOrder, LastIsLast, Pushed, Ended, HasFrame, HEADER_SIZE
<1>5. Len(RawOf(<<>>)) = 0
  BY <1>2, RawWritten
<1> DEFINE tails == [i \in 0..0 |-> <<>>]
<1>6. Encodes(tails, RawOf(<<>>)) /\ tails[0] = <<>>
  BY <1>2, <1>5 DEF Encodes
<1> HIDE DEF tails
<1>7. OnTheWay(tails, <<>>)
  BY <1>1, <1>2, <1>6 DEF OnTheWay
<1>8. Unread
  BY <1>7 DEF Unread
<1> QED
  BY <1>3, <1>4, <1>8 DEF IInv

\* The cells of a foreign frame, and those of one of ours.
LEMMA WrittenCells ==
  ASSUME TypeOK
  PROVE  /\ \A n \in 0..1 :
              LET cells == <<Magic + 1, SINGLE_CALL_ID, HEADERS, n>> IN
              cells \in Seq(Nat) /\ cells[1] # Magic
         /\ \A f \in Frames :
              encodeFrame(f.type, IF f.type = MESSAGE THEN wrapGrpcMessage(f.body)
                                                      ELSE f.body)
                = encodeFrame(Raw(f).type, Raw(f).payload)
<1>1. \A n \in 0..1 :
        LET cells == <<Magic + 1, SINGLE_CALL_ID, HEADERS, n>> IN
        cells \in Seq(Nat) /\ cells[1] # Magic
  BY MagicAssumption DEF SINGLE_CALL_ID, HEADERS
<1>2. \A f \in Frames :
        encodeFrame(f.type, IF f.type = MESSAGE THEN wrapGrpcMessage(f.body)
                                                ELSE f.body)
          = encodeFrame(Raw(f).type, Raw(f).payload)
  BY DEF Raw
<1> QED
  BY <1>1, <1>2

\* What is written comes behind what is on its way.
LEMMA BehindTheWire ==
  ASSUME NEW b \in Seq(Nat), NEW w \in Seq(Nat), NEW cells \in Seq(Nat)
  PROVE  b \o ((w \o cells) \o <<>>) = (b \o (w \o <<>>)) \o cells
<1>1. w \o cells \in Seq(Nat) /\ b \o w \in Seq(Nat)
  BY ConcatProperties
<1>2. (w \o cells) \o <<>> = w \o cells /\ w \o <<>> = w
  BY <1>1
<1>3. (b \o w) \o cells = b \o (w \o cells)
  BY ThreePieces
<1> QED
  BY <1>2, <1>3

\* Writing a frame.
LEMMA WriteKeeps ==
  ASSUME IInv, WriteFrame
  PROVE  IInv'
<1>1. TypeOK /\ InOrder /\ LastIsLast /\ Unread /\ Pushed /\ Ended
  BY DEF IInv
<1>2. PICK f \in Frames :
        /\ written' = Append(written, f)
        /\ wire' = wire \o encodeFrame(Raw(f).type, Raw(f).payload)
  BY <1>1, WrittenCells DEF WriteFrame
<1>3. /\ http = "open" /\ ~foreign
      /\ written # <<>> => written[Len(written)].type # LastType
      /\ UNCHANGED <<side, http, foreign, buffer, dispatched, reader>>
  BY DEF WriteFrame, CanWrite, Last
<1> DEFINE cells == encodeFrame(Raw(f).type, Raw(f).payload)
<1>4. Raw(f) \in RawFrames /\ cells \in Seq(Nat)
  <2>1. Raw(f) \in RawFrames
    BY FrameIsRead
  <2> QED
    BY <2>1, EncodedFrame DEF RawFrames
<1> HIDE DEF cells
<1>5. /\ written \in Seq(Frames) /\ Len(written) \in Nat
      /\ written' \in Seq(Frames) /\ Len(written') = Len(written) + 1
      /\ written'[Len(written) + 1] = f
      /\ \A i \in 1..Len(written) : written'[i] = written[i]
      /\ dispatched \in Seq(Frames) /\ Len(dispatched) \in Nat
  BY <1>1, <1>2, AppendProperties, LenProperties DEF TypeOK
<1>6. wire' \in Seq(Nat)
  BY <1>1, <1>2, <1>4, ConcatProperties DEF TypeOK, cells
<1>7. TypeOK'
  BY <1>1, <1>3, <1>5, <1>6 DEF TypeOK, Frames, LastType
<1>8. InOrder'
  <2>1. Len(dispatched) <= Len(written)
    BY <1>1 DEF InOrder
  <2>2. \A i \in 1..Len(dispatched) : i \in 1..Len(written)
    BY <1>5, <2>1
  <2> QED
    BY <1>1, <1>3, <1>5, <2>1, <2>2 DEF InOrder
<1>9. LastIsLast'
  <2> SUFFICES ASSUME NEW i \in 1..(Len(written) + 1), written'[i].type = LastType
               PROVE  i = Len(written) + 1
    BY <1>3, <1>5 DEF LastIsLast, LastType
  <2>1. SUFFICES ASSUME i \in 1..Len(written)
                 PROVE  FALSE
    BY <1>5
  <2>2. written[i].type = LastType /\ i = Len(written)
    BY <1>1, <1>5, <2>1 DEF LastIsLast
  <2>3. written # <<>>
    BY <1>5, <2>1, EmptySeq
  <2> QED
    BY <1>3, <2>2, <2>3
<1>10. Unread'
  <2> SUFFICES ASSUME reader = "reading"
               PROVE  \E tails, lost : OnTheWay(tails, lost)'
    BY <1>3 DEF Unread
  <2>1. PICK tails, lost : OnTheWay(tails, lost)
    BY <1>1 DEF Unread
  <2>2. /\ Encodes(tails, RawOf(written)) /\ tails[Len(written)] = <<>>
        /\ buffer \o (wire \o <<>>) = tails[Len(dispatched)]
    BY <1>3, <2>1 DEF OnTheWay
  <2>3. RawOf(written) \in Seq(RawFrames) /\ Len(RawOf(written)) = Len(written)
    BY <1>5, RawWritten
  <2>4. PICK u : /\ Encodes(u, Append(RawOf(written), Raw(f)))
                 /\ u[Len(written) + 1] = <<>>
                 /\ \A i \in 0..Len(written) : u[i] = tails[i] \o cells
    <3>1. tails[Len(RawOf(written))] = <<>>
      BY <2>2, <2>3
    <3>2. \E u : /\ Encodes(u, Append(RawOf(written), Raw(f)))
                 /\ u[Len(RawOf(written)) + 1] = <<>>
                 /\ Behind(u, tails, RawOf(written),
                           encodeFrame(Raw(f).type, Raw(f).payload))
      BY <1>4, <2>2, <2>3, <3>1, FrameBehind
    <3> QED
      BY <2>3, <3>2 DEF Behind, cells
  <2>5. Encodes(u, RawOf(written'))
    BY <1>2, <1>5, <2>4, RawAppended
  <2>6. Len(dispatched) \in 0..Len(written)
    BY <1>1, <1>5 DEF InOrder
  <2>7. buffer \o (wire' \o <<>>) = u[Len(dispatched)]
    <3>1. buffer \o ((wire \o cells) \o <<>>)
            = (buffer \o (wire \o <<>>)) \o cells
      BY <1>1, <1>4, BehindTheWire DEF TypeOK
    <3> QED
      BY <1>2, <2>2, <2>4, <2>6, <3>1 DEF cells
  <2>8. OnTheWay(u, <<>>)'
    BY <1>3, <1>5, <2>4, <2>5, <2>7, EmptySeq DEF OnTheWay
  <2> QED
    BY <2>8
<1>11. Pushed' /\ Ended'
  BY <1>1, <1>3 DEF Pushed, Ended
<1> QED
  BY <1>7, <1>8, <1>9, <1>10, <1>11 DEF IInv

\* Something that is not a frame.
LEMMA ForeignKeeps ==
  ASSUME IInv, WriteForeign
  PROVE  IInv'
<1>1. TypeOK /\ InOrder /\ LastIsLast /\ Unread /\ Pushed /\ Ended
  BY DEF IInv
<1>2. PICK cells \in Seq(Nat) : cells[1] # Magic /\ wire' = wire \o cells
  BY <1>1, WrittenCells DEF WriteForeign
<1>3. /\ http = "open" /\ ~foreign /\ foreign' = TRUE
      /\ UNCHANGED <<side, written, http, buffer, dispatched, reader>>
  BY DEF WriteForeign, CanWrite
<1>4. wire' \in Seq(Nat)
  BY <1>1, <1>2, ConcatProperties DEF TypeOK
<1>5. TypeOK'
  BY <1>1, <1>3, <1>4 DEF TypeOK, Frames, LastType
<1>6. InOrder' /\ LastIsLast' /\ Pushed' /\ Ended'
  BY <1>1, <1>3 DEF InOrder, LastIsLast, LastType, Pushed, Ended
<1>7. Unread'
  <2> SUFFICES ASSUME reader = "reading"
               PROVE  \E tails, lost : OnTheWay(tails, lost)'
    BY <1>3 DEF Unread
  <2>1. PICK tails, lost : OnTheWay(tails, lost)
    BY <1>1 DEF Unread
  <2>2. /\ Encodes(tails, RawOf(written)) /\ tails[Len(written)] = <<>>
        /\ buffer \o (wire \o <<>>) = tails[Len(dispatched)]
    BY <1>3, <2>1 DEF OnTheWay
  <2>3. /\ RawOf(written) \in Seq(RawFrames) /\ Len(RawOf(written)) = Len(written)
        /\ Len(written) \in Nat
    BY <1>1, RawWritten DEF TypeOK
  <2>4. PICK u : /\ Encodes(u, RawOf(written))
                 /\ \A i \in 0..Len(written) : u[i] = tails[i] \o cells
    <3>1. tails[Len(RawOf(written))] = <<>>
      BY <2>2, <2>3
    <3>2. \E u : /\ Encodes(u, RawOf(written))
                 /\ Behind(u, tails, RawOf(written), cells)
      BY <1>2, <2>2, <2>3, <3>1, ForeignBehind
    <3> QED
      BY <2>3, <3>2 DEF Behind
  <2>5. Len(dispatched) \in 0..Len(written)
    BY <1>1, <2>3, LenProperties DEF InOrder, TypeOK
  <2>6. buffer \o (wire' \o <<>>) = u[Len(dispatched)]
    <3>1. buffer \o ((wire \o cells) \o <<>>)
            = (buffer \o (wire \o <<>>)) \o cells
      BY <1>1, BehindTheWire DEF TypeOK
    <3> QED
      BY <1>2, <2>2, <2>4, <2>5, <3>1
  <2>7. OnTheWay(u, <<>>)'
    BY <1>3, <2>4, <2>6, EmptySeq DEF OnTheWay
  <2> QED
    BY <2>7
<1> QED
  BY <1>5, <1>6, <1>7 DEF IInv

\* A body ends.
LEMMA EndKeeps ==
  ASSUME IInv, BodyEnds
  PROVE  IInv'
<1>1. TypeOK /\ InOrder /\ LastIsLast /\ Unread /\ Pushed /\ Ended
  BY DEF IInv
<1>2. /\ http = "open" /\ http' = "ended"
      /\ UNCHANGED <<side, written, wire, foreign, buffer, dispatched, reader>>
  BY DEF BodyEnds
<1>3. TypeOK' /\ InOrder' /\ LastIsLast' /\ Pushed' /\ Ended'
  BY <1>1, <1>2 DEF TypeOK, Frames, LastType, InOrder, LastIsLast, Pushed, Ended
<1>4. Unread'
  <2> SUFFICES ASSUME reader = "reading"
               PROVE  \E tails, lost : OnTheWay(tails, lost)'
    BY <1>2 DEF Unread
  <2>1. PICK tails, lost : OnTheWay(tails, lost)
    BY <1>1 DEF Unread
  <2>2. OnTheWay(tails, lost)'
    BY <1>2, <2>1 DEF OnTheWay
  <2> QED
    BY <2>2
<1> QED
  BY <1>3, <1>4 DEF IInv

\* Some of the wire, and the rest of it.
LEMMA CutInTwo ==
  ASSUME NEW w \in Seq(Nat), NEW k \in 0..Len(w)
  PROVE  /\ SubSeq(w, 1, k) \in Seq(Nat)
         /\ SubSeq(w, k + 1, Len(w)) \in Seq(Nat)
         /\ SubSeq(w, 1, k) \o SubSeq(w, k + 1, Len(w)) = w
<1>1. Len(w) \in Nat /\ \A i \in 1..Len(w) : w[i] \in Nat
  BY LenProperties, ElementOfSeq
<1>2. SubSeq(w, 1, k) \in Seq(Nat)
  <2>1. \A i \in 1..k : w[i] \in Nat
    BY <1>1
  <2> QED
    BY <2>1, SubSeqProperties
<1>3. SubSeq(w, k + 1, Len(w)) \in Seq(Nat)
  <2>1. \A i \in (k + 1)..Len(w) : w[i] \in Nat
    BY <1>1
  <2>2. k + 1 \in Int /\ Len(w) \in Int
    BY <1>1
  <2> QED
    BY <2>1, <2>2, SubSeqProperties
<1>4. SubSeq(w, 1, k) \o SubSeq(w, k + 1, Len(w)) = w
  <2>1. 1 \in 1..(Len(w) + 1) /\ k \in (1 - 1)..Len(w) /\ Len(w) \in k..Len(w)
    BY <1>1
  <2>2. SubSeq(w, 1, k) \o SubSeq(w, k + 1, Len(w)) = SubSeq(w, 1, Len(w))
    BY <2>1, ConcatAdjacentSubSeq
  <2> QED
    BY <2>2, SubSeqFull
<1> QED
  BY <1>2, <1>3, <1>4

\* The connection breaks: what was lost is the rest of the wire.
LEMMA BreakKeeps ==
  ASSUME IInv, BodyBreaks
  PROVE  IInv'
<1>1. TypeOK /\ InOrder /\ LastIsLast /\ Unread /\ Pushed /\ Ended
  BY DEF IInv
<1>2. PICK k \in 0..Len(wire) : wire' = SubSeq(wire, 1, k)
  BY DEF BodyBreaks
<1>3. /\ http = "open" /\ http' = "broken"
      /\ UNCHANGED <<side, written, foreign, buffer, dispatched, reader>>
  BY DEF BodyBreaks
<1>4. PICK rest \in Seq(Nat) : wire' \in Seq(Nat) /\ wire' \o rest = wire
  BY <1>1, <1>2, CutInTwo DEF TypeOK
<1>5. TypeOK' /\ InOrder' /\ LastIsLast' /\ Pushed' /\ Ended'
  BY <1>1, <1>3, <1>4
  DEF TypeOK, Frames, LastType, InOrder, LastIsLast, Pushed, Ended
<1>6. Unread'
  <2> SUFFICES ASSUME reader = "reading"
               PROVE  \E tails, lost : OnTheWay(tails, lost)'
    BY <1>3 DEF Unread
  <2>1. PICK tails, lost : OnTheWay(tails, lost)
    BY <1>1 DEF Unread
  <2>2. lost = <<>>
    BY <1>3, <2>1 DEF OnTheWay
  <2>3. wire \o lost = wire
    BY <1>1, <2>2, ConcatSimplifications DEF TypeOK
  <2>4. buffer' \o (wire' \o rest) = tails[Len(dispatched')]
    BY <1>3, <1>4, <2>1, <2>3 DEF OnTheWay
  <2>5. OnTheWay(tails, rest)'
    BY <1>3, <2>1, <2>4 DEF OnTheWay
  <2> QED
    BY <2>5
<1> QED
  BY <1>5, <1>6 DEF IInv

\* What arrives goes from the wire to the buffer.
LEMMA ArrivedCells ==
  ASSUME TypeOK, NEW k \in 1..Len(wire), Arrives(k),
         NEW tails, NEW lost, OnTheWay(tails, lost)
  PROVE  /\ wire' \in Seq(Nat) /\ Chunk(k) \in Seq(Nat)
         /\ wire' \o lost \in Seq(Nat)
         /\ (buffer \o Chunk(k)) \o (wire' \o lost) = tails[Len(dispatched)]
<1>1. /\ wire \in Seq(Nat) /\ buffer \in Seq(Nat) /\ lost \in Seq(Nat)
      /\ buffer \o (wire \o lost) = tails[Len(dispatched)]
  BY DEF TypeOK, OnTheWay
<1>2. k \in 0..Len(wire) /\ wire' = SubSeq(wire, k + 1, Len(wire))
  BY DEF Arrives
<1>3. Chunk(k) \in Seq(Nat) /\ wire' \in Seq(Nat) /\ Chunk(k) \o wire' = wire
  BY <1>1, <1>2, CutInTwo DEF Chunk
<1> DEFINE c == Chunk(k)
           w == wire'
<1>4. c \in Seq(Nat) /\ w \in Seq(Nat) /\ c \o w = wire
  BY <1>3
<1> HIDE DEF c, w
<1>5. w \o lost \in Seq(Nat)
  BY <1>1, <1>4, ConcatProperties
<1>6. (c \o w) \o lost = c \o (w \o lost)
  BY <1>1, <1>4, ThreePieces
<1>7. (buffer \o c) \o (w \o lost) = buffer \o (c \o (w \o lost))
  BY <1>1, <1>4, <1>5, ThreePieces
<1>8. (buffer \o c) \o (w \o lost) = tails[Len(dispatched)]
  BY <1>1, <1>4, <1>6, <1>7
<1> QED
  BY <1>4, <1>5, <1>8 DEF c, w

\* fill: the body is read on.
LEMMA FillKeeps ==
  ASSUME IInv, NEW k \in 1..Len(wire), Fill(k)
  PROVE  IInv'
<1>1. TypeOK /\ InOrder /\ LastIsLast /\ Unread /\ Pushed /\ Ended
  BY DEF IInv
<1>2. /\ side = "server" /\ reader = "reading" /\ Arrives(k)
      /\ buffer' = buffer \o Chunk(k)
      /\ UNCHANGED <<side, written, http, foreign, dispatched, reader>>
  BY DEF Fill
<1>3. PICK tails, lost : OnTheWay(tails, lost)
  BY <1>1, <1>2 DEF Unread
<1>4. /\ wire' \in Seq(Nat) /\ Chunk(k) \in Seq(Nat)
      /\ (buffer \o Chunk(k)) \o (wire' \o lost) = tails[Len(dispatched)]
  BY <1>1, <1>2, <1>3, ArrivedCells
<1>5. buffer' \in Seq(Nat)
  BY <1>1, <1>2, <1>4, ConcatProperties DEF TypeOK
<1>6. TypeOK'
  BY <1>1, <1>2, <1>4, <1>5 DEF TypeOK, Frames, LastType
<1>7. InOrder' /\ LastIsLast' /\ Pushed' /\ Ended'
  BY <1>1, <1>2 DEF InOrder, LastIsLast, LastType, Pushed, Ended
<1>8. OnTheWay(tails, lost)'
  BY <1>2, <1>3, <1>4 DEF OnTheWay
<1>9. Unread'
  BY <1>8 DEF Unread
<1> QED
  BY <1>6, <1>7, <1>9 DEF IInv

\* The frames that come next are dispatched as they were written.
LEMMA DispatchedNext ==
  ASSUME TypeOK, InOrder, NEW n \in Nat, Len(dispatched) + n <= Len(written),
         NEW gs \in Seq(Frames), Len(gs) = n,
         \A i \in 1..n : gs[i] = written[Len(dispatched) + i],
         dispatched' = dispatched \o gs, UNCHANGED written
  PROVE  /\ dispatched' \in Seq(Frames)
         /\ Len(dispatched') = Len(dispatched) + n
         /\ InOrder'
<1>1. /\ dispatched \in Seq(Frames) /\ Len(dispatched) \in Nat
      /\ Len(written) \in Nat
      /\ \A i \in 1..Len(dispatched) : dispatched[i] = written[i]
  BY LenProperties DEF TypeOK, InOrder
<1>2. /\ dispatched' \in Seq(Frames)
      /\ Len(dispatched') = Len(dispatched) + n
      /\ \A i \in 1..(Len(dispatched) + n) :
           dispatched'[i] = IF i <= Len(dispatched) THEN dispatched[i]
                            ELSE gs[i - Len(dispatched)]
  BY <1>1, ConcatProperties
<1>3. ASSUME NEW i \in 1..(Len(dispatched) + n)
      PROVE  dispatched'[i] = written[i]
  <2>1. CASE i <= Len(dispatched)
    <3>1. i \in 1..Len(dispatched) /\ dispatched'[i] = dispatched[i]
      BY <1>1, <1>2, <2>1
    <3> QED
      BY <1>1, <3>1
  <2>2. CASE ~(i <= Len(dispatched))
    <3>1. /\ i - Len(dispatched) \in 1..n
          /\ dispatched'[i] = gs[i - Len(dispatched)]
          /\ Len(dispatched) + (i - Len(dispatched)) = i
      BY <1>1, <1>2, <2>2
    <3> QED
      BY <3>1
  <2> QED
    BY <2>1, <2>2
<1> QED
  BY <1>2, <1>3 DEF InOrder

\* readFrame: the next frame, or the end of a body that is not all frames.
LEMMA ReadFrameKeeps ==
  ASSUME IInv, ReadFrame
  PROVE  IInv'
<1>1. TypeOK /\ InOrder /\ LastIsLast /\ Unread /\ Pushed /\ Ended
  BY DEF IInv
<1>2. /\ side = "server" /\ reader = "reading" /\ HasFrame(buffer)
      /\ buffer' = AfterFrame(buffer)
      /\ UNCHANGED <<side, written, wire, http, foreign>>
  BY DEF ReadFrame, bodyVars
<1>3. PICK tails, lost : OnTheWay(tails, lost)
  BY <1>1, <1>2 DEF Unread
<1> DEFINE d == Len(dispatched)
           fs == RawOf(written)
           more == wire \o lost
<1>4. /\ written \in Seq(Frames) /\ dispatched \in Seq(Frames)
      /\ d \in Nat /\ Len(written) \in Nat /\ d <= Len(written)
      /\ buffer \in Seq(Nat) /\ more \in Seq(Nat)
  <2>1. wire \in Seq(Nat) /\ lost \in Seq(Nat)
    BY <1>1, <1>3 DEF TypeOK, OnTheWay
  <2>2. more \in Seq(Nat)
    BY <2>1, ConcatProperties
  <2> QED
    BY <1>1, <2>2, LenProperties DEF TypeOK, InOrder
<1>5. /\ fs \in Seq(RawFrames) /\ Len(fs) = Len(written) /\ d \in 0..Len(fs)
      /\ \A i \in 1..Len(written) : fs[i] = Raw(written[i]) /\ written[i] \in Frames
  BY <1>4, RawWritten
<1>6. /\ Encodes(tails, fs) /\ buffer \o more = tails[d]
      /\ ~foreign => tails[Len(written)] = <<>>
  BY <1>3 DEF OnTheWay
<1> HIDE DEF d, fs, more
<1>7. CASE /\ d < Len(fs)
           /\ Decodable(FirstFrame(buffer))
           /\ decodeFrame(FirstFrame(buffer)) = fs[d + 1]
           /\ AfterFrame(buffer) \in Seq(Nat)
           /\ AfterFrame(buffer) \o more = tails[d + 1]
  <2> DEFINE f == written[d + 1]
  <2>1. /\ d + 1 \in 1..Len(written) /\ fs[d + 1] = Raw(f) /\ f \in Frames
    BY <1>4, <1>5, <1>7
  <2> HIDE DEF f
  <2>2. Received(fs[d + 1]) = f /\ fs[d + 1].type = f.type
    BY <2>1, FrameIsRead
  <2>3. /\ dispatched' = Append(dispatched, f)
        /\ reader' = IF f.type = HALF_CLOSE THEN "ended" ELSE reader
    BY <1>7, <2>2 DEF ReadFrame
  <2>4. dispatched' \in Seq(Frames) /\ Len(dispatched') = d + 1 /\ InOrder'
    <3>1. /\ dispatched' \in Seq(Frames) /\ Len(dispatched') = d + 1
          /\ dispatched'[d + 1] = f
          /\ \A i \in 1..d : dispatched'[i] = dispatched[i]
      BY <1>4, <2>1, <2>3, AppendProperties DEF d
    <3>2. \A i \in 1..(d + 1) : dispatched'[i] = written[i]
      <4> TAKE i \in 1..(d + 1)
      <4>1. i \in 1..d \/ i = d + 1
        BY <1>4
      <4>2. i \in 1..d => dispatched[i] = written[i]
        BY <1>1 DEF InOrder, d
      <4> QED
        BY <3>1, <4>1, <4>2 DEF f
    <3> QED
      BY <1>2, <1>4, <2>1, <3>1, <3>2 DEF InOrder
  <2>5. reader' \in {"reading", "ended"}
    BY <1>2, <2>3
  <2>6. TypeOK'
    BY <1>1, <1>2, <1>7, <2>4, <2>5 DEF TypeOK, Frames, LastType
  <2>7. LastIsLast' /\ Pushed'
    BY <1>1, <1>2 DEF LastIsLast, LastType, Pushed
  <2>8. Unread'
    <3>1. OnTheWay(tails, lost)'
      <4>1. buffer' \o (wire' \o lost) = tails[Len(dispatched')]
        BY <1>2, <1>7, <2>4 DEF more
      <4> QED
        BY <1>2, <1>3, <4>1 DEF OnTheWay
    <3> QED
      BY <3>1 DEF Unread
  <2>9. Ended'
    <3> SUFFICES ASSUME reader' = "ended"
                 PROVE  /\ Len(dispatched') = Len(written)
                        /\ written # <<>> /\ written[Len(written)].type = LastType
      BY <1>2 DEF Ended, LastType
    <3>1. f.type = LastType
      BY <1>2, <2>3 DEF LastType
    <3>2. d + 1 = Len(written)
      BY <1>1, <2>1, <3>1 DEF LastIsLast, f
    <3>3. written # <<>>
      BY <1>4, <2>1, EmptySeq
    <3> QED
      BY <2>4, <3>1, <3>2, <3>3 DEF f
  <2> QED
    BY <2>4, <2>6, <2>7, <2>8, <2>9 DEF IInv
<1>8. CASE ~Decodable(FirstFrame(buffer)) /\ AfterFrame(buffer) \in Seq(Nat)
  <2>1. reader' = "failed" /\ UNCHANGED dispatched
    BY <1>8 DEF ReadFrame
  <2>2. TypeOK'
    BY <1>1, <1>2, <1>8, <2>1 DEF TypeOK, Frames, LastType
  <2>3. InOrder' /\ LastIsLast' /\ Unread' /\ Pushed' /\ Ended'
    BY <1>1, <1>2, <2>1 DEF InOrder, LastIsLast, LastType, Unread, Pushed, Ended
  <2> QED
    BY <2>2, <2>3 DEF IInv
<1>9. \/ /\ d < Len(fs)
         /\ Decodable(FirstFrame(buffer))
         /\ decodeFrame(FirstFrame(buffer)) = fs[d + 1]
         /\ AfterFrame(buffer) \in Seq(Nat)
         /\ Len(AfterFrame(buffer)) + HEADER_SIZE <= Len(buffer)
         /\ AfterFrame(buffer) \o more = tails[d + 1]
      \/ /\ d = Len(fs)
         /\ tails[d] # <<>>
         /\ ~Decodable(FirstFrame(buffer))
         /\ AfterFrame(buffer) \in Seq(Nat)
  BY <1>2, <1>4, <1>5, <1>6, NextFrame, Zenon
<1> QED
  BY <1>7, <1>8, <1>9, Zenon

\* A chunk for push.
LEMMA ReadChunkKeeps ==
  ASSUME IInv, NEW k \in 1..Len(wire), ReadChunk(k)
  PROVE  IInv'
<1>1. TypeOK /\ InOrder /\ LastIsLast /\ Unread /\ Pushed /\ Ended
  BY DEF IInv
<1> DEFINE s == push(buffer, Chunk(k))
           n == Len(s.frames)
           gs == [i \in DOMAIN s.frames |-> Received(s.frames[i])]
<1>2. /\ side = "client" /\ reader = "reading" /\ Arrives(k)
      /\ buffer' = s.buffer
      /\ dispatched' = IF s.threw THEN dispatched ELSE dispatched \o gs
      /\ reader' = IF s.threw THEN "failed" ELSE reader
      /\ UNCHANGED <<side, written, http, foreign>>
  BY DEF ReadChunk
<1>3. PICK tails, lost : OnTheWay(tails, lost)
  BY <1>1, <1>2 DEF Unread
<1> DEFINE d == Len(dispatched)
           fs == RawOf(written)
           more == wire' \o lost
<1>4. /\ wire' \in Seq(Nat) /\ Chunk(k) \in Seq(Nat) /\ more \in Seq(Nat)
      /\ (buffer \o Chunk(k)) \o more = tails[d]
  BY <1>1, <1>2, <1>3, ArrivedCells
<1>5. /\ written \in Seq(Frames) /\ dispatched \in Seq(Frames)
      /\ d \in Nat /\ Len(written) \in Nat /\ d <= Len(written)
      /\ buffer \in Seq(Nat)
  BY <1>1, LenProperties DEF TypeOK, InOrder
<1>6. /\ fs \in Seq(RawFrames) /\ Len(fs) = Len(written) /\ d \in 0..Len(fs)
      /\ \A i \in 1..Len(written) : fs[i] = Raw(written[i]) /\ written[i] \in Frames
  BY <1>5, RawWritten
<1>7. Encodes(tails, fs)
  BY <1>3 DEF OnTheWay
<1> HIDE DEF s, d, fs, more
<1>8. IsCut(s, fs, tails, d, more)
  BY <1>4, <1>5, <1>6, <1>7, PushCutsFrames DEF s
<1>9. LastIsLast'
  BY <1>1, <1>2 DEF LastIsLast, LastType
<1>10. CASE s.threw = TRUE
  <2>1. reader' = "failed" /\ UNCHANGED dispatched
    BY <1>2, <1>10
  <2>2. TypeOK'
    BY <1>1, <1>2, <1>4, <1>8, <2>1 DEF TypeOK, Frames, LastType, IsCut
  <2>3. InOrder' /\ Unread' /\ Pushed' /\ Ended'
    BY <1>1, <1>2, <2>1 DEF InOrder, Unread, Pushed, Ended
  <2> QED
    BY <1>9, <2>2, <2>3 DEF IInv
<1>11. CASE s.threw = FALSE
  <2>1. reader' = "reading" /\ dispatched' = dispatched \o gs
    BY <1>2, <1>11
  <2>2. /\ s.frames \in Seq(RawFrames) /\ n \in Nat /\ DOMAIN s.frames = 1..n
        /\ d + n <= Len(written)
        /\ \A i \in 1..n : s.frames[i] = fs[d + i]
        /\ ~HasFrame(s.buffer)
        /\ s.buffer \o more = tails[d + n]
    <3>1. s.frames \in Seq(RawFrames)
      BY <1>8, <1>11 DEF IsCut
    <3>2. n \in Nat /\ DOMAIN s.frames = 1..n
      BY <3>1, LenProperties
    <3> QED
      BY <1>6, <1>8, <1>11, <3>1, <3>2 DEF IsCut
  <2> HIDE DEF n
  <2>3. ASSUME NEW i \in 1..n
        PROVE  /\ Received(s.frames[i]) = written[d + i]
               /\ written[d + i] \in Frames
    <3>1. d + i \in 1..Len(written)
      BY <1>5, <2>2
    <3>2. fs[d + i] = Raw(written[d + i]) /\ written[d + i] \in Frames
      BY <1>6, <3>1
    <3>3. Received(Raw(written[d + i])) = written[d + i]
      BY <3>2, FrameIsRead
    <3> QED
      BY <2>2, <3>2, <3>3
  <2>4. gs \in Seq(Frames) /\ Len(gs) = n /\ \A i \in 1..n : gs[i] = written[d + i]
    <3>1. gs \in [1..n -> Frames] /\ \A i \in 1..n : gs[i] = written[d + i]
      BY <2>2, <2>3
    <3> HIDE DEF gs
    <3> QED
      BY <2>2, <3>1
  <2> HIDE DEF gs
  <2>5. dispatched' \in Seq(Frames) /\ Len(dispatched') = d + n /\ InOrder'
    <3>1. d + n <= Len(written) /\ n \in Nat /\ UNCHANGED written
      BY <1>2, <2>2
    <3> QED
      BY <1>1, <2>1, <2>4, <3>1, DispatchedNext DEF d
  <2>6. TypeOK'
    BY <1>1, <1>2, <1>4, <1>8, <2>1, <2>5 DEF TypeOK, Frames, LastType, IsCut
  <2>7. Unread'
    <3>1. buffer' \o (wire' \o lost) = tails[Len(dispatched')]
      BY <1>2, <2>2, <2>5 DEF more
    <3>2. OnTheWay(tails, lost)'
      BY <1>2, <1>3, <3>1 DEF OnTheWay
    <3> QED
      BY <3>2 DEF Unread
  <2>8. Pushed' /\ Ended'
    BY <1>2, <2>1, <2>2 DEF Pushed, Ended
  <2> QED
    BY <1>9, <2>5, <2>6, <2>7, <2>8 DEF IInv
<1> QED
  BY <1>8, <1>10, <1>11 DEF IsCut

\* Nothing more comes: a body that ended has been read to its end.
LEMMA ReadEndKeeps ==
  ASSUME IInv, ReadEnd
  PROVE  IInv'
<1>1. TypeOK /\ InOrder /\ LastIsLast /\ Unread /\ Pushed /\ Ended
  BY DEF IInv
<1>2. /\ reader = "reading" /\ wire = <<>> /\ http # "open"
      /\ side = "server" => ~HasFrame(buffer)
      /\ reader' = IF http = "ended" THEN "ended" ELSE "failed"
      /\ UNCHANGED <<side, written, wire, http, foreign, buffer, dispatched>>
  BY DEF ReadEnd, NothingToRead, bodyVars
<1>3. TypeOK' /\ InOrder' /\ LastIsLast' /\ Unread' /\ Pushed'
  BY <1>1, <1>2
  DEF TypeOK, Frames, InOrder, LastIsLast, LastType, Unread, Pushed
<1>4. Ended'
  <2> SUFFICES ASSUME http = "ended"
               PROVE  Len(dispatched) = Len(written)
    BY <1>2 DEF Ended
  <2>1. PICK tails, lost : OnTheWay(tails, lost)
    BY <1>1, <1>2 DEF Unread
  <2>2. /\ Encodes(tails, RawOf(written)) /\ lost = <<>>
        /\ buffer \o (wire \o lost) = tails[Len(dispatched)]
    BY <2>1 DEF OnTheWay
  <2>3. buffer \in Seq(Nat) /\ ~HasFrame(buffer)
    BY <1>1, <1>2 DEF TypeOK, Pushed
  <2>4. buffer \o (<<>> \o <<>>) = buffer
    BY <2>3, ConcatSimplifications, EmptySeq
  <2>5. tails[Len(dispatched)] = buffer
    BY <1>2, <2>2, <2>4
  <2>6. /\ RawOf(written) \in Seq(RawFrames) /\ Len(RawOf(written)) = Len(written)
        /\ Len(dispatched) \in 0..Len(RawOf(written))
    <3>1. Len(dispatched) \in Nat /\ Len(dispatched) <= Len(written)
      BY <1>1, LenProperties DEF TypeOK, InOrder
    <3>2. /\ RawOf(written) \in Seq(RawFrames)
          /\ Len(RawOf(written)) = Len(written) /\ Len(written) \in Nat
      BY <1>1, RawWritten DEF TypeOK
    <3> QED
      BY <3>1, <3>2
  <2> QED
    BY <2>2, <2>3, <2>5, <2>6, NoFrameYet
<1> QED
  BY <1>3, <1>4 DEF IInv

-----------------------------------------------------------------------------
(* The theorems.                                                           *)

\* Every step keeps the invariant.
LEMMA InvStep == IInv /\ [Next]_vars => IInv'
<1> SUFFICES ASSUME IInv, [Next]_vars
             PROVE  IInv'
  OBVIOUS
<1>1. CASE WriteFrame
  BY <1>1, WriteKeeps
<1>2. CASE WriteForeign
  BY <1>2, ForeignKeeps
<1>3. CASE BodyEnds
  BY <1>3, EndKeeps
<1>4. CASE BodyBreaks
  BY <1>4, BreakKeeps
<1>5. ASSUME NEW k \in 1..Len(wire), ReadChunk(k)
      PROVE  IInv'
  BY <1>5, ReadChunkKeeps
<1>6. ASSUME NEW k \in 1..Len(wire), Fill(k)
      PROVE  IInv'
  BY <1>6, FillKeeps
<1>7. CASE ReadFrame
  BY <1>7, ReadFrameKeeps
<1>8. CASE ReadEnd
  BY <1>8, ReadEndKeeps
<1>9. CASE UNCHANGED vars
  <2>1. UNCHANGED <<side, written, wire, http, foreign, buffer, dispatched, reader>>
    BY <1>9 DEF vars, bodyVars
  <2>2. TypeOK' /\ InOrder' /\ LastIsLast' /\ Pushed' /\ Ended'
    BY <2>1 DEF IInv, TypeOK, Frames, LastType, InOrder, LastIsLast, Pushed, Ended
  <2>3. Unread'
    BY <2>1 DEF IInv, Unread, OnTheWay
  <2> QED
    BY <2>2, <2>3 DEF IInv
<1> QED
  BY <1>1, <1>2, <1>3, <1>4, <1>5, <1>6, <1>7, <1>8, <1>9 DEF Next, Read, Over

\* The invariant holds in every state.
LEMMA Invariance == Spec => []IInv
BY InitInv, InvStep, PTL DEF Spec

\* The variables of a body and its reader keep their types, for every set of
\* messages: in particular what readResponseLoop and readLoop dispatch are
\* frames that a writer writes.
THEOREM TypeCorrect == Spec => []TypeOK
<1>1. IInv => TypeOK
  BY DEF IInv
<1> QED
  BY Invariance, <1>1, PTL

\* What push (stream.ts) and readFrame (frame_stream.go) make of a body, cut
\* into pieces anywhere and broken off anywhere, is a prefix of what was
\* written: no frame is lost, made up, altered or dispatched twice.
THEOREM FramesArriveInOrder == Spec => []FramesInOrder
<1>1. IInv => FramesInOrder
  <2> SUFFICES ASSUME IInv
               PROVE  FramesInOrder
    OBVIOUS
  <2>1. /\ dispatched \in Seq(Frames) /\ Len(dispatched) \in Nat
        /\ written \in Seq(Frames) /\ Len(written) \in Nat
        /\ Len(dispatched) <= Len(written)
        /\ \A i \in 1..Len(dispatched) : dispatched[i] = written[i]
    BY LenProperties DEF IInv, TypeOK, InOrder
  <2> DEFINE front == SubSeq(written, 1, Len(dispatched))
  <2>2. /\ front \in Seq(Frames) /\ Len(front) = Len(dispatched)
        /\ \A i \in 1..Len(dispatched) : front[i] = written[i]
    <3>1. \A i \in 1..Len(dispatched) : written[i] \in Frames
      <4>1. \A i \in 1..Len(written) : written[i] \in Frames
        BY <2>1, ElementOfSeq
      <4>2. \A i \in 1..Len(dispatched) : i \in 1..Len(written)
        BY <2>1
      <4> QED
        BY <4>1, <4>2
    <3>2. /\ front \in Seq(Frames)
          /\ Len(front) = IF 1 <= Len(dispatched) THEN Len(dispatched) - 1 + 1 ELSE 0
          /\ \A i \in 1..(Len(dispatched) - 1 + 1) : front[i] = written[1 + i - 1]
      BY <2>1, <3>1, SubSeqProperties
    <3> HIDE DEF front
    <3>3. Len(dispatched) - 1 + 1 = Len(dispatched)
      BY <2>1
    <3>4. \A i \in 1..Len(dispatched) : 1 + i - 1 = i
      BY <2>1
    <3> QED
      BY <2>1, <3>2, <3>3, <3>4
  <2> HIDE DEF front
  <2>3. dispatched = front
    BY <2>1, <2>2, SeqEqual
  <2>4. SubSeq(dispatched, 1, Len(dispatched)) = dispatched
    BY <2>1, SubSeqFull
  <2> QED
    BY <2>1, <2>3, <2>4 DEF FramesInOrder, IsPrefix, front
<1> QED
  BY Invariance, <1>1, PTL

\* A reader that reports the end of a body (onClose, the end of readLoop) has
\* dispatched all that was written, wherever the connection broke.
THEOREM WholeAtTheEnd == Spec => []EndIsWhole
<1>1. IInv => EndIsWhole
  BY DEF IInv, Ended, EndIsWhole
<1> QED
  BY Invariance, <1>1, PTL

=============================================================================
