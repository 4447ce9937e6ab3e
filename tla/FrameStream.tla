----------------------------- MODULE FrameStream -----------------------------
(***************************************************************************)
(* One HTTP body with frames in it, from the writer that encodes them      *)
(* to the reader that dispatches them.  A request's body is read by the    *)
(* server's frameReader and readLoop (frame_stream.go, rpc.go), which ask  *)
(* for more only when the buffer has no whole frame; a response's body by  *)
(* the client's FrameStreamReader and readResponseLoop (stream.ts,         *)
(* connection.ts), which are given chunks.  HTTP cuts a body anywhere.     *)
(***************************************************************************)
EXTENDS Framing, SequencesExt

CONSTANTS
  Messages,   \* the bodies of the messages that may be sent
  MaxFrames,  \* bound on the frames of a body
  ReadSize    \* cells that one Read of the server may return

ASSUME StreamAssumption ==
  /\ \A body \in Messages : body \in Seq(Nat)
  /\ MaxFrames \in Nat \ {0} /\ ReadSize \in Nat \ {0}

VARIABLES
  side,        \* who reads: "client" or "server"; it never changes
  written,     \* the frames written
  wire,        \* cells on their way
  http,        \* the body: "open", "ended" or "broken"
  foreign,     \* something that is not a frame has been written
  buffer,      \* the cells not yet cut into frames
  dispatched,  \* the frames dispatched
  reader       \* "reading", "ended" (onClose, a HALF_CLOSE) or "failed"

bodyVars == <<written, wire, http, foreign>>
vars == <<side, bodyVars, buffer, dispatched, reader>>

\* The last frame of a body, and all of them.
LastType == IF side = "client" THEN TRAILERS ELSE HALF_CLOSE

Frames ==
  [type : {HEADERS, LastType}, body : {<<>>}] \cup
  [type : {MESSAGE}, body : Messages]

-----------------------------------------------------------------------------
(* The writer and the network.                                             *)

CanWrite ==
  /\ http = "open" /\ ~foreign
  /\ written # <<>> => Last(written).type # LastType

\* enqueueFrame, writeFrame.
WriteFrame ==
  /\ CanWrite
  /\ Len(written) < MaxFrames
  /\ \E f \in Frames :
       /\ f.type = HEADERS => written = <<>>
       /\ written' = Append(written, f)
       /\ wire' = wire \o encodeFrame(f.type, IF f.type = MESSAGE
                                             THEN wrapGrpcMessage(f.body)
                                             ELSE f.body)
  /\ UNCHANGED <<side, http, foreign, buffer, dispatched, reader>>

\* The other end, or a proxy, does not speak the protocol.
WriteForeign ==
  /\ CanWrite
  /\ foreign' = TRUE
  /\ \E n \in 0..1 :
       wire' = wire \o <<Magic + 1, SINGLE_CALL_ID, HEADERS, n>>
  /\ UNCHANGED <<side, written, http, buffer, dispatched, reader>>

\* closeRequestStream, the return of ServeHTTP: after whole frames.
BodyEnds ==
  /\ http = "open"
  /\ http' = "ended"
  /\ UNCHANGED <<side, written, wire, foreign, buffer, dispatched, reader>>

\* The connection is lost, with some of what was on its way.
BodyBreaks ==
  /\ http = "open"
  /\ http' = "broken"
  /\ \E k \in 0..Len(wire) : wire' = SubSeq(wire, 1, k)
  /\ UNCHANGED <<side, written, foreign, buffer, dispatched, reader>>

-----------------------------------------------------------------------------
(* The readers.                                                            *)

Arrives(k) ==
  /\ k <= Len(wire)
  /\ wire' = SubSeq(wire, k + 1, Len(wire))

Chunk(k) == SubSeq(wire, 1, k)

\* dispatch, and readLoop's switch: of a message, its body.
Received(f) ==
  [type |-> f.type,
   body |-> IF f.type = MESSAGE THEN decodeMessagePayload(f.payload)
                                ELSE f.payload]

\* A chunk for readResponseLoop. When push throws, the frames that it has
\* already collected are gone with it.
ReadChunk(k) ==
  /\ side = "client" /\ reader = "reading"
  /\ Arrives(k)
  /\ LET s == push(buffer, Chunk(k)) IN
       /\ buffer' = s.buffer
       /\ dispatched' =
            IF s.threw THEN dispatched
            ELSE dispatched \o [i \in DOMAIN s.frames |-> Received(s.frames[i])]
       /\ reader' = IF s.threw THEN "failed" ELSE reader
  /\ UNCHANGED <<side, written, http, foreign>>

\* fill, first for a header and then for the frame.
Fill(k) ==
  /\ side = "server" /\ reader = "reading"
  /\ ~HasFrame(buffer)
  /\ k <= ReadSize
  /\ Arrives(k)
  /\ buffer' = buffer \o Chunk(k)
  /\ UNCHANGED <<side, written, http, foreign, dispatched, reader>>

\* readFrame has its frame. readLoop is over after HALF_CLOSE.
ReadFrame ==
  /\ side = "server" /\ reader = "reading"
  /\ HasFrame(buffer)
  /\ buffer' = AfterFrame(buffer)
  /\ IF Decodable(FirstFrame(buffer))
     THEN LET f == decodeFrame(FirstFrame(buffer)) IN
          /\ dispatched' = Append(dispatched, Received(f))
          /\ reader' = IF f.type = HALF_CLOSE THEN "ended" ELSE reader
     ELSE reader' = "failed" /\ UNCHANGED dispatched
  /\ UNCHANGED <<side, bodyVars>>

NothingToRead ==
  /\ reader = "reading"
  /\ wire = <<>> /\ http # "open"
  /\ side = "server" => ~HasFrame(buffer)

\* Faulty: the error of a Read is taken for the end.
ReadEndAnyhow ==
  /\ NothingToRead
  /\ reader' = "ended"
  /\ UNCHANGED <<side, bodyVars, buffer, dispatched>>

\* done, io.EOF; or the read rejects. What the buffer still has is dropped.
ReadEnd ==
  /\ NothingToRead
  /\ reader' = IF http = "ended" THEN "ended" ELSE "failed"
  /\ UNCHANGED <<side, bodyVars, buffer, dispatched>>

-----------------------------------------------------------------------------
(* The specification.                                                      *)

Init ==
  /\ side \in {"client", "server"}
  /\ written = <<>>
  /\ wire = <<>>
  /\ http = "open"
  /\ foreign = FALSE
  /\ buffer = <<>>
  /\ dispatched = <<>>
  /\ reader = "reading"

Read ==
  \/ \E k \in 1..Len(wire) : ReadChunk(k)
  \/ \E k \in 1..Len(wire) : Fill(k)
  \/ ReadFrame
  \/ ReadEnd

Over == reader # "reading" /\ UNCHANGED vars

Next ==
  \/ WriteFrame
  \/ WriteForeign
  \/ BodyEnds
  \/ BodyBreaks
  \/ Read
  \/ Over

Spec == Init /\ [][Next]_vars

\* What is on its way arrives, and the reader takes it. The writer may stop
\* anywhere, with the body open.
FairSpec == Spec /\ WF_vars(Read)

-----------------------------------------------------------------------------
(* Properties.                                                             *)

\* Every variable keeps its type; in particular, what is dispatched are frames
\* that a writer may have written.
TypeOK ==
  /\ side \in {"client", "server"}
  /\ written \in Seq(Frames)
  /\ wire \in Seq(Nat)
  /\ http \in {"open", "ended", "broken"}
  /\ foreign \in BOOLEAN
  /\ buffer \in Seq(Nat)
  /\ dispatched \in Seq(Frames)
  /\ reader \in {"reading", "ended", "failed"}

\* What push and readFrame make of the chunks is what was written: the same
\* frames in the same order with the same bodies, none of them twice, none
\* made of the pieces of others, and nothing after one that was lost.
FramesInOrder == IsPrefix(dispatched, written)

\* A reader that reports the regular end of a body has dispatched all of it:
\* a body that breaks off, inside a frame or between two, is not taken for
\* one that ended (unless the bytes were never a frame).
EndIsWhole ==
  reader = "ended" /\ ~foreign => Len(dispatched) = Len(written)

\* Each frame is dispatched once its bytes have arrived, without waiting for
\* later ones: not one of several in a chunk stays in the buffer.
EveryFrameDispatched ==
  \A i \in 1..MaxFrames :
    (Len(written) >= i)
      ~> (Len(dispatched) >= i \/ foreign \/ http = "broken")

=============================================================================
