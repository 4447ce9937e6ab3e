------------------------------- MODULE Framing -------------------------------
(***************************************************************************)
(* The wire format, on both sides: GRTC frames (codec.ts, frame.go) and    *)
(* the gRPC prefix of a message (grpc-message.ts, frame.go).               *)
(*                                                                         *)
(* A cell is a field of the format, or a piece of a payload: the 16 bytes  *)
(* of a header are four cells and the 5 bytes of a prefix are two. A cell  *)
(* is a number, so that a length can be read where none was written.       *)
(***************************************************************************)
EXTENDS Integers, Sequences

CONSTANT Magic   \* GROTTO_MAGIC

ASSUME MagicAssumption == Magic \in Nat

HEADERS == 1
MESSAGE == 2
HALF_CLOSE == 3
TRAILERS == 4

SINGLE_CALL_ID == 1
HEADER_SIZE == 4

encodeFrame(type, payload) ==
  <<Magic, SINGLE_CALL_ID, type, Len(payload)>> \o payload

\* Faulty: the magic is not compared.
DecodableAny(cells) ==
  Len(cells) >= HEADER_SIZE /\ HEADER_SIZE + cells[4] <= Len(cells)

\* decodeFrame returns, rather than throws.
Decodable(cells) ==
  /\ Len(cells) >= HEADER_SIZE
  /\ cells[1] = Magic
  /\ HEADER_SIZE + cells[4] <= Len(cells)

decodeFrame(cells) ==
  [type |-> cells[3],
   payload |-> SubSeq(cells, HEADER_SIZE + 1, HEADER_SIZE + cells[4])]

-----------------------------------------------------------------------------
(* The gRPC prefix.                                                        *)

PREFIX_SIZE == 2

wrapGrpcMessage(body) == <<0, Len(body)>> \o body

\* Faulty: the body starts at the length.
unwrapFromLength(cells) == SubSeq(cells, PREFIX_SIZE, 1 + cells[2])

unwrapGrpcMessage(cells) ==
  SubSeq(cells, PREFIX_SIZE + 1, PREFIX_SIZE + cells[2])

\* decodeMessagePayload, decodeGrpcPayload: a payload from which no message
\* can be unwrapped is the message.
decodeMessagePayload(cells) ==
  IF Len(cells) >= PREFIX_SIZE /\ PREFIX_SIZE + cells[2] <= Len(cells)
  THEN unwrapGrpcMessage(cells)
  ELSE cells

-----------------------------------------------------------------------------
(* Cutting a buffer into frames.                                           *)

HasFrame(buffer) ==
  /\ Len(buffer) >= HEADER_SIZE
  /\ Len(buffer) >= HEADER_SIZE + buffer[4]

\* The frame at the front of the buffer, and what is behind it.
FirstFrame(buffer) == SubSeq(buffer, 1, HEADER_SIZE + buffer[4])
AfterFrame(buffer) ==
  SubSeq(buffer, HEADER_SIZE + buffer[4] + 1, Len(buffer))

\* tryShiftFrame: the frame leaves the buffer before it is decoded.
tryShiftFrame(s) ==
  IF s.threw \/ ~HasFrame(s.buffer)
  THEN s
  ELSE LET frame == FirstFrame(s.buffer) IN
       [buffer |-> AfterFrame(s.buffer),
        frames |-> IF Decodable(frame)
                   THEN Append(s.frames, decodeFrame(frame))
                   ELSE s.frames,
        threw  |-> ~Decodable(frame)]

\* Faulty: one frame for one chunk.
pushOne(buffer, chunk) ==
  tryShiftFrame([buffer |-> buffer \o chunk, frames |-> <<>>, threw |-> FALSE])

\* FrameStreamReader.push shifts until there is no frame: n times at most.
push(buffer, chunk) ==
  LET merged == buffer \o chunk
      shifted[n \in 0..(Len(merged) \div HEADER_SIZE)] ==
        IF n = 0
        THEN [buffer |-> merged, frames |-> <<>>, threw |-> FALSE]
        ELSE tryShiftFrame(shifted[n - 1])
  IN shifted[Len(merged) \div HEADER_SIZE]

=============================================================================
