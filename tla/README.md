# A verification project for grotto-web

grotto-web carries gRPC calls over plain HTTP POSTs with streaming bodies: a Go
server (`server/pkg/grottoserver`) and a TypeScript client (`client-web`). A
unary, client-streaming or server-streaming call is one POST; a bidirectional
call is two, the *server leg* (responses) and the *client leg* (requests), which
the server joins by a session id.

The TLA+ modules here model the parts of both sides in which several activities
share state. TLC checks them on small instances; every safety property that it
checks, the refinements among them, is also proved by TLAPS for every value of
the constants. Every name in the modules that has a
counterpart in the code keeps its name; `PROJECT.json` gives the source lines of
each definition.

    tlc -workers 2 -config MCBidiSession.cfg MCBidiSession.tla
    for m in BidiSession RpcConn Framing FrameStream ClientSession GrottoCall \
             BidiClient BidiCall; do tlapm ${m}Proofs.tla; done

## The system

| Component | State | Operations | Interacts with |
|---|---|---|---|
| Bidi session (`bidi.go`) | registry of sessions; per session `clientConn`, `terminated`, `timer`, channels `clientLeg`, `done` | `create`, `get`, `remove`, `attachClient`, `terminate`, `signalDone`, the two serve functions | two connections, the timer's goroutine, the readLoops through `onTerminate` |
| Server connection (`rpc.go`, `serveUnary`/`serveStream` of `grottoserver.go`) | `inbound` channel (16), `ctx`, `requestBody`, `recvClosed`, `sentHeader`, `finished` | `readLoop`, four receiving loops around `readFrame`, `SendHeader`, `SendMsg`, `finishOK`/`finishError` | net/http (body, context, ResponseWriter), the RPC handler, the session |
| Server framing (`frame.go`, `frame_stream.go`) | the bytes not yet cut into frames | `fill`, `readFrame`, encode/decode, gRPC prefix | the request body, readLoop |
| Routing (`grottoserver.go`) | the map of services | `RegisterService`, `ServeHTTP` | net/http |
| Client connection (`connection.ts`) | request stream, `closed`, response headers | `connect`, `sendHeaders/Message/HalfClose`, `close`, `readResponseLoop` | fetch, handlers of the session |
| Client session (`RpcSession` in `grotto-rpc.ts`) | `messages`, `trailers`, `failure`, `waiters` | `awaitUnaryResponse`, `drainResponse`, `nextMessage`, `fail` | its connection, a call |
| Client calls (`GrottoRpc`) | per call: where it is; for bidi the client leg's task, the timer | `runUnary`, `runClientStream`, `iterateServerStream`, `iterateBidiStream` | two sessions, the caller's input and consumer |
| Client framing (`framing/*.ts`) | the bytes not yet cut into frames | `push`, `tryShiftFrame`, encode/decode, gRPC prefix | the response body, readResponseLoop |

Not modelled: the example service and client, generated code, build files.

What is hard in it:

* **Goroutines and locks.** A session is touched by up to seven goroutines at
  once (two handlers' goroutines, two readLoops, the timer, refused client
  legs), and only part of what they do is under `s.mu`: the tests and closes of
  `clientLeg` in `terminate` and of `done` are not.
* **Selects that choose at random.** `readFrame` may see the end of the context
  or the channel, `pushInbound` may drop a frame or push it.
* **Lifetimes.** A leg's ResponseWriter is usable until its ServeHTTP returns,
  and it returns when another goroutine closes `done`.
* **Timeouts that race** with what they wait for, on both sides.
* **Callbacks.** The client's steps between two awaits interleave with fetch,
  the response reader, the timer, the consumer and the input.
* **Partial failure.** Either leg of a bidi call can fail, or fall silent, alone.
* **Two ends, two connections.** One outcome is told to two POSTs, and the
  client has to put it together again.
* **Bytes.** HTTP cuts a body anywhere; one wrong boundary shifts every frame
  behind it.

`PROJECT.json` lists these hazards at their lines, each with the properties that
would notice it going wrong; a note says what none of them notices, and why.

## Modules

    BidiJoin       <--implements--  BidiSession  <--  MCBidiSession
        ^                                        <--  BidiSessionProofs
        |
        +-- BidiCall  <--  MCBidiCall
               |
               v
    ClientSession  <--  BidiClient  <--  MCBidiClient
                   <--  GrottoCall  <--  MCGrottoCall
    MessageStream  <--implements--  RpcConn  <--  MCRpcConn
                                             <--  RpcConnProofs
    Framing        <--  FrameStream  <--  MCFrameStream

    ClientSessionProofs  <--  GrottoCallProofs
                         <--  BidiClientProofs  <--  BidiCallProofs
    FramingProofs        <--  FrameStreamProofs

Each module of proofs extends the module that it is named after.

Where several goroutines or callbacks share state there is a module of their
steps; `BidiCall` composes the client's side of a bidi call with the server's;
`FrameStream` goes below frames, to what the bodies are made of.

An operator with the comment *Faulty* is not part of its model: it is the
operator below it with a plausible bug, and the properties are checked to fail
when it takes that one's place.

### BidiJoin: what a session promises

Three variables: the client leg that joined, the outcome each leg was given,
and whether the legs may return. At most one leg joins, an outcome is never
changed, and the release comes once, when the joined legs have theirs.

### BidiSession: `bidi.go`

One session with its server leg and any number of POSTs that carry its id. A
step is what a goroutine does between two points at which another can see or
change what it uses. `srv`, `leg[c]` and `read[x]` say where the server leg, a
client leg and a connection's readLoop are; `call[t]` says where goroutine `t`
is inside `terminate` and `signalDone`, which anybody may be in: the server
leg, a client leg, a readLoop (through `onTerminate`), the timer. The
select-then-close pairs are two steps. `Close` of a channel that is already
closed yields `"reclosed"`, the panic. Frames are reduced to whether one waits
for `consumeStreamHeaders`; the handler's `RecvMsg`, which reads the same
channel, may take it. `status[x]` is the outcome in the TRAILERS of a leg,
written by whoever calls `finishLocked` first.

| Code | Actions |
|---|---|
| `terminate` | `TerminateLock`, `TerminateFinishServer`, `TerminateFinishClient`, `TerminateCheckLeg`, `TerminateCloseLeg` |
| `signalDone` | `SignalCheck`, `SignalClose` |
| `create`, `remove` | `CreateSession`, `SetServerHook`, `TimerFires`, `RemoveSession` |
| `attachClient` | `AttachClient`, `AttachRefused` |
| `serveBidiServerLeg` | the disjuncts of `ServeServer`, `ServerHeadersFail`, `SelectContextDone`, `Handler` |
| `serveBidiClientLeg` | `LookupSession`, the disjuncts of `ServeClient`, `LegHeadersFail` |
| `readLoop`, `invokeTerminate` | the disjuncts of `ReadLoop` |

Of net/http it assumes that a request's context may end at any moment, that
panics of the goroutines it starts are recovered, and that it closes a body
when ServeHTTP has returned. `HandlerPanics` is a constant.

### MessageStream: what a connection promises its handler

The number of messages the client has sent, those the handler has received, and
whether it was told the end. A message is received once, after the earlier ones
and without a gap; the end is told when all have been received, and nothing
comes after it. `cut` (the connection is cancelled) allows gaps and an early
end, `mixed` (two goroutines read from the connection) also another order.

### RpcConn: `rpc.go`, `serveUnary`, `serveStream`

One connection of any of five kinds. `readLoop` reads frames that the client
chooses, pushes them into `inbound` (capacity a constant) and ends; two
consumers run the receiving loops: the handler's goroutine and, for a client
leg, the goroutine that serves the leg's POST. `op` says which loop the
handler's goroutine is in. Messages are numbered, so that order, loss and
duplication show in `delivered`; the response is the sequence of frame types
`out`. The context, the response and the session may fail or end at any moment.

### ClientSession, GrottoCall, BidiClient: `connection.ts`, `grotto-rpc.ts`

`ClientSession` has, for every POST of a call, the connection and the session,
and the network's callbacks: response headers, a chunk with several frames, the
end of the body, an error. JavaScript runs to the next await, so a step is what
lies between two awaits. `waiting[c]` is the promise in `RpcSession.waiters`,
which `notify` resolves. `GrottoCall` is the three calls that need one POST with
the consumer of a server stream; `BidiClient` is `iterateBidiStream`: the
generator (`main`), the client leg's task (`task`), the timer and the consumer.
The server is the environment; it sends MESSAGEs, TRAILERS and nothing after
them that the client looks at, in any chunks, and may stop at any point.

### BidiCall: both ends of one bidi call

`BidiClient` with a server instead of an environment. The session is `BidiJoin`,
the specification that `BidiSession` is shown to implement: its `Join`, `Settle`
and `Release` are taken from there by `INSTANCE`, and the module adds when the
code takes them: `expiry` is the timer, `reason` what `terminate` was called
with, `leg` where the client leg's POST is, `handler` and `verdict` the RPC
handler. The frames that the client's task has sent are those of its POST in
`ClientSession`; `taken` says how many of them have left the inbound channel,
which two goroutines read, and `stashed` whether one is kept in `requestBody`.
What the client sees of a response is limited to what has been written to it.
At most one of the two POSTs is lost by the network.

Merged or left out, each without a difference to the client: the client leg's
response headers are flushed in the step that ends `consumeStreamHeaders`; the
end of a response that has brought its TRAILERS is not delivered (the client
does not look at it); goroutines of a session that has been released are not
followed; the client's timer never fires, because it is cleared first (the run
`client_bidi_not_joined_in_time`). A server leg that is refused before there is
a session is not modelled here.

### Framing, FrameStream: `framing/*.ts`, `frame.go`, `frame_stream.go`

`Framing` has the formats and the pure functions: a frame and its header, the
gRPC prefix, and cutting a buffer into frames. Cells stand for bytes: one for
each field of a header or a prefix, and one for each piece of a payload. A cell
is a number, so that any cell can be misread as a length, which is what goes
wrong when a boundary is wrong. `FrameStream` is one body: a writer that writes
whole frames, HTTP that cuts them anywhere, ends or breaks, bytes of somebody
who does not speak the protocol, and the reader of either side. The client's
gets chunks and calls `push`; the server's calls `Read` only when there is no
whole frame in its buffer.

## What is checked

| Run | Instance | What it shows |
|---|---|---|
| `session` | 1 client leg, handlers may panic, fair | `SettledBeforeReleased`: both legs have their TRAILERS when `done` is closed. `WaitingLegHasWaker`: the server leg's select is always going to be woken. `ImplementsJoin`. `UnjoinedSessionEnds`, `ClientEndReleases`, `LegsReleased`: the timer ends a session that nobody joins, the end of the client leg releases it, the end of the server leg releases all others. `AbortReleasesLeg`: a client leg whose handler panicked is released when its POST is aborted. (Without an abort it stays, hence no deadlock check: the code has no `defer` for it.) |
| `session_two_legs` | 2 client legs, symmetric | `ClientLegClosedOnce`, `LegNotAbandoned` when POSTs race for one session. `OutcomesAccounted`: each leg reports the outcome the handler returned or the one reason the session was terminated for; both report the handler's if nobody terminated it. (Where `terminate` and the returning handler each finish one leg, a call reports two outcomes: the code allows it.) `NoWriteAfterReturn`: no goroutine writes TRAILERS to a leg that has returned. |
| `conn` | all five kinds; capacity 1, 2 messages, 2 replies, fair | Nothing twice; and, for a client leg only if the handler's `RecvMsg` did not race with the leg for the first frames (`raced`), order. `NoGap`, `EndIsComplete`: no gap and a truthful end of requests, on a connection that neither is cancelled nor raced. `ResponseWellFormed`: of every kind of call, the server leg with its two writers included, the response is HEADERS, MESSAGEs, TRAILERS, or TRAILERS and the late HEADERS of `SendHeader`. No handler without its request. `CallEnds`: a call that its client ended is finished. `ReaderEnds`: the readLoop of a finished call ends, though nobody takes its frames any more. `ImplementsStream`: to the handler all this is a `MessageStream`. |
| `client_call` | 4 messages in, 3 out, fair | Each message once and in order, success only when complete, nothing left behind, every call ends with its response. |
| `client_bidi` | 3 messages in, 2 out, fair | The same for two legs: success only if both legs succeeded and the whole input was sent. `FailureEndsCall`: a failure of the server leg during the iteration ends the call, even if the input and the client leg stay silent; so does one of the client leg once the task waits for its response. While the task waits for the input instead, it does not look at the client leg (grotto-rpc.ts:206-210): the call then ends if the input does, and hangs with a silent input unless the server leg fails or the consumer leaves. `CallSettles`: when both responses are over, so is the call, if the input ends. |
| `framing` | 3 frames, two message bodies, reads of 3 cells, fair | `FramesInOrder`: for every way to cut the body, the frames read are the ones written. `EndIsWhole`: no broken body is taken for one that ended. `EveryFrameDispatched`: no frame waits in the buffer for later bytes. |
| `bidi_call` | 1 reply, no requests, fair | `SuccessIsAgreed`: when the client's iteration completes, the handler returned OK and both legs said so. `SessionReleased`: whatever the client does, its session is released. `OkIsDelivered`: a session that ended well is a call that returns, if the network does not fail. |

Runs that show a disagreement between the code and what it says (the
`findings` of `PROJECT.json`):

| Run | Disagreement |
|---|---|
| `session_done_closed_twice` | `signalDone`'s test does not keep two goroutines from closing `done`: a panic, in a readLoop or the timer one that ends the process. |
| `session_expired_after_join` | A joined session is killed with "client leg not opened within 10s". |
| `conn_false_end` | A broken request body reaches the handler as `io.EOF`. |
| `client_bidi_not_joined_in_time` | The client's 10 s limit on the client leg limits nothing. |
| `bidi_call_request_lost` | The first request of a bidi call may be kept for a `RecvMsg` that has already looked for it: the handler is told the end of the requests without it, and the call ends with OK. |

Smaller ones are visible in the same modules without a run of their own.
`SendHeader` tests `sentHeader` but not `finished`, so that the HEADERS may follow the
TRAILERS of a server leg that was terminated (`CallSendHeader`, `LateHeaders`). One call may report two
outcomes, the handler's on one leg and the reason of a `terminate` on the other
(`OutcomesAccounted`; the client does not take it for a success,
`SuccessIsAgreed`).
`decodeGrpcPayload` promises to accept raw payloads too, but takes some of them
for wrapped ones (`decodeMessagePayload`; no sender of this code writes them).
A client leg that comes late to a terminated session is answered "already has a
client leg" (`AttachRefused` with `clientConn = NoLeg`). A CANCEL may be
reported as the context's error, because `readFrame` may look at the context
first (`TakeContextDone` with `peer = "cancelled"`). And a unary call that is
half-closed without a message fails with `EOF`, never with the message written
for it (`TakeEnd` with `sent = 0`).

### Bounds

* *Client legs*: two are enough for two POSTs that race for one session; the
  third would only be refused once more. Liveness is checked with one: symmetry
  is unsound there, and a refused leg waits for nothing.
* *Capacity* 1 instead of 16, with 2 messages besides HEADERS and HALF_CLOSE:
  the channel is full, and empties, in every kind of call, and a message can be
  in each of `delivered`, `requestBody`, `taken`, the channel and `pending`
  while another is in the next. `MaxMessages`,
  `MaxReplies` and `MaxSends` bound what a peer, the handler and the input may
  do, never what the code must do.
* *Chunks* of at most two messages and TRAILERS: enough for messages and
  TRAILERS to arrive together, in one chunk or several.
* *Frames*: three are the first, a middle and the last one. Of the two message
  bodies one is empty and one starts with cells that look like a frame and like
  a prefix, so that a boundary that is off by one is seen. Reads of 3 cells end
  inside every header.
* *The whole bidi call*: one reply is enough for the responses and outcomes of
  the two legs to race. The run of the lost request has one request; the fair run has
  none, since `BidiClient` and `RpcConn` are about the requests.
* *Time* is not counted: the timer may fire at any moment after it was armed.

### Fairness

`BidiSession` and `RpcConn`: every goroutine that can run does (the Go
scheduler), the timer goes off (`time.AfterFunc`), a write ends with or without
an error, and net/http closes the body of a request that has been served.
Nothing is assumed of a peer. The handler is assumed to return only once its
`RecvMsg` can do nothing but fail (strong fairness, since in between it may be
busy sending). The steps that the end of a request's context allows are excluded
from fairness, because nothing makes the context end.

`GrottoCall` and `BidiClient`: the event loop runs what is ready, and a consumer
asks for the next message or leaves. The network is not fair. That the input
ends is assumed only where it is needed: for `CallSettles`, by the run's specification
in `GrottoCall` and by the property itself in `BidiClient`, and for
`OkIsDelivered` of `BidiCall`. Half of `FailureEndsCall` assumes it in the same way. Without it `iterateBidiStream` can wait for ever after OK TRAILERS or on a client leg that has failed, and
`runClientStream` does not look at a failure before its input has ended.

`BidiCall` has the fairness of both: goroutines, the timer, the client's event
loop, a handler that returns once there is nothing left to receive, and a
network that delivers what has been written unless it fails. `FrameStream`
assumes only that what is on its way arrives and is read.

## What is proved

`BidiSessionProofs`, for any set of client legs:

| Theorem | States |
|---|---|
| `TypeCorrect` | `Spec => []TypeOK` |
| `ClosesClientLegOnce` | `Spec => []ClientLegClosedOnce` |
| `SettlesBeforeRelease` | `Spec => []SettledBeforeReleased` |
| `AccountsForOutcomes` | `Spec => []OutcomesAccounted` |
| `WakesServerLeg` | `Spec => []WaitingLegHasWaker` |
| `AbandonsNoLeg` | `Spec => []LegNotAbandoned`, if handlers do not panic |
| `WritesBeforeReturn` | `Spec => NoWriteAfterReturn`, if handlers do not panic |
| `Implementation` | `Spec => ImplementsJoin` |

The assumptions are those of `BidiSession` on its constants: the legs are
distinct, and none is `NoLeg`.

None of the properties is inductive. That both legs have their TRAILERS when
`done` is closed needs to know how far each goroutine in `terminate` has come
(`CallProgress`), that only one gets past its critical section and works on the
client leg that joined (`OneTerminator`), that nobody joins afterwards
(`LegChannel`, `Decided`), and where the serve functions are when they act on it
(`ServerProgress`, `LegProgress`). That the channel `clientLeg` is closed once
although `terminate` closes it outside the lock follows from `LegChannel`: the
goroutine about to close it is the one terminator, and `terminated` keeps
`attachClient` out. `Callers` says that no goroutine is in `terminate` before it
calls it, `Waker` who will close `clientLeg`, `Releases` who has closed `done`,
`Outcomes` whose outcome is in the TRAILERS (the handler's, or the reason of the
one terminator), `Refused` that nobody can terminate a session for a server leg
that was refused before it had one. `IInv` is their conjunction;
`InvInit` and `InvStep`, with one step for each action, prove it. `Writers` adds
that a step that writes TRAILERS writes them to a leg of the session that has
none; `WritesBeforeReturn` and the refinement (`FinishSettles`, `JoinStep`) rest
on it and on `IInv`.

`RpcConnProofs`, for every kind of call, every capacity of the channel and any
number of messages and replies:

| Theorem | States |
|---|---|
| `TypeCorrect` | `Spec => []TypeOK` |
| `KeepsOrder` | `Spec => []InOrder` |
| `LosesNothing` | `Spec => []NoGap` |
| `EndsTruthfully` | `Spec => []EndIsComplete` |
| `AnswersWellFormed` | `Spec => []ResponseWellFormed` |
| `HandlesRequests` | `Spec => []HandlerHasRequest` |
| `Implementation` | `Spec => ImplementsStream` |

The assumptions are those of `RpcConn`: the kinds are among the five, the
capacity is at least 1. A message that the client has sent passes five places:
`pending`, `inbound`, the frame a loop has `taken`, `requestBody`, `delivered`.
`Complete` says that it is in one of them as long as the context is not done,
`Once` that it is in one only, `ChannelOrder` and `Sorted` that the places hold
the messages in the order of the client. That the two consumers do not mix them
up is `Alone`: while the leg still looks for its HEADERS the handler has nothing,
unless its `RecvMsg` overtook the leg (`raced`), in which case only `Once` and
`ChannelOrder` survive. `LastFrame` ties the close of the channel to HALF_CLOSE
and to what the client did, so that an `io.EOF` found in the channel comes after
the last message; `Requested` says which loops have left a request behind,
`Response` and `Answered` who may still write what (`SendHeader` behind TRAILERS only on a
server leg whose response is TRAILERS alone, after which nothing is written). `IInv` is their conjunction
with `Loops` (which loop runs in which kind of call) and `FramesProper` (where
there is a frame, and of what kind). `InitInv` and `InvStep` prove it, with a
lemma for each part; `CheckEffect` and `ProcessEffect` restate the loops' steps
as a list of cases, and `InvMeans` draws the conclusions. For the refinement, `EndSeen` adds that
`io.EOF` comes only from a readLoop that reads no more; a step that delivers is
then a `Receive` because the state after it satisfies `IInv` too
(`ReceiveStep`). TLC finds `IInv` true
in all 884955 states with a capacity of 2, 2 messages and 2 replies.

`FramingProofs`, about the operators of `Framing` for frames of any size:

| Theorem | States |
|---|---|
| `FrameIsCutOff` | a buffer that starts with an encoded frame holds it whole; what is cut off are exactly its cells |
| `DecodeEncode` | `decodeFrame` accepts an encoded frame and returns its type and payload |
| `UnwrapWrap` | `decodeMessagePayload` undoes the gRPC prefix of every wrapped message |
| `ShiftsOneFrame` | one step of `push` collects the frame, keeps the rest and throws no error |
| `PushCutsFrames` | `push`, for any body and any chunk of it: exactly the whole frames, in order, and the rest is kept |

They rest on the layout of an encoded frame, which `Framing` states cell by
cell. A body is described by what is behind each of its frames (`Encodes`): the
encodings one behind the other, and then nothing, or cells that no frame begins
with. `NextFrame` says what a buffer somewhere in a body has at its front: the
next frame, or no frame at all. `push` repeats `tryShiftFrame` at most as often
as the buffer has room for headers; `Collected` is the invariant of that loop,
`CollectedNext` one round of it. The induction over the rounds is one over the
elements of a set (`NatSetInduction`, from the well-foundedness of `<`), since
the library's induction theorems take an operator, and that the loop's
recursive function exists is shown the same way (`PushLoop`).

`FrameStreamProofs`, for any set of messages, any length of a body, chunks and
Reads of any size:

| Theorem | States |
|---|---|
| `TypeCorrect` | `Spec => []TypeOK` |
| `FramesArriveInOrder` | `Spec => []FramesInOrder` |
| `WholeAtTheEnd` | `Spec => []EndIsWhole` |

That a prefix has been dispatched is not inductive: the cells have to be where
they belong. `OnTheWay` says so: the buffer, the wire and what was lost with the
connection are together exactly the rest of the body behind the frames that were
dispatched. `Unread` is that, as long as the reader reads; `Pushed` says that
`push` leaves no whole frame behind, `LastIsLast` that HALF_CLOSE and TRAILERS
are written last, which is why a reader that stops at HALF_CLOSE misses nothing.
`ReadChunkKeeps` rests on `PushCutsFrames`, `ReadFrameKeeps` on `NextFrame`, and
`FrameIsRead` says that decoding what was encoded gives the frame again.

`ClientSessionProofs` has the lemmas about the steps of a POST that the client's
calls share: its types, and `Numbered`: what the consumer has and what waits in
`RpcSession.messages` are together the messages that have arrived, in order.

`GrottoCallProofs` and `BidiClientProofs`, for any number of messages:

| Theorem | States |
|---|---|
| `TypeCorrect` | `Spec => []TypeOK` |
| `EachOnce` | `Spec => []EachMessageOnce` |
| `Success` | `Spec => []SuccessIsComplete` |
| `QuietWhenOver` | `Spec => QuietAfterEnd` |

Success is not inductive either: `Progress` says what each waiting place has
seen before the call may go on from it (a complete request before the answer is
looked for; OK TRAILERS and no message left before `iterateBidiStream` joins its
task), `PostsFollow` which POSTs there are while the generator and the task are
where they are, and that none is open when it is over. `Shared` is `Numbered`
for the leg with the responses.

`BidiCallProofs`, for any number of messages and both ends:

| Theorem | States |
|---|---|
| `CallIsClient` | `CallSpec => Spec`: each step of a call from end to end is one of `BidiClient`, or none |
| `CallTypeCorrect` | `CallSpec => []CallTypeOK` |
| `Agreement` | `CallSpec => []SuccessIsAgreed` |

With `CallIsClient` what is proved of `BidiClient` holds end to end; only the
server's part of the invariant is new: `Truthful`, that TRAILERS which the client
has seen are those of the session's outcome and come behind all that was written;
`OkIsTheHandlers`, that an outcome of success is the handler's verdict;
`TakenOnce`, that the two goroutines that read the client leg's channel do not
take a message twice. `Agreement` then follows from `SuccessIsComplete`.

TLC found each of these invariants true on a small instance before it was
proved. The assumptions are those of the modules on their constants: the names of
POSTs are distinct, the bounds are natural numbers, messages are sequences of
cells, and `Magic` is a cell.

Only model-checked: all liveness, which is beyond the prover
(`AbortReleasesLeg`, `UnjoinedSessionEnds`, `ClientEndReleases`, `LegsReleased`,
`CallEnds`, `ReaderEnds`, `CallSettles`, `FailureEndsCall`,
`EveryFrameDispatched`, `SessionReleased`, `OkIsDelivered`); and
`NoWriteAfterReturn` and `LegNotAbandoned` with handlers that panic (they do not
hold then). That the session in `BidiCall` is the one of `bidi.go` is the
refinement proved in `BidiSessionProofs`; that its client leg's channel behaves
like the one of `RpcConn` is not stated formally.

## What is left out

* `mergeContexts`, which ends the handler's context when either leg's ends: the
  handler may return at any moment anyway.
* The data race on `c.ctx`, and net/http's header state when the response
  headers of a client leg race with its TRAILERS.
* Metadata, payloads and errors of marshalling; frames of another call id, which
  `readLoop` skips.
* Of a frame's bytes, those that no boundary depends on: `Framing` has one cell
  for each field, and leaves out flags and the JSON of HEADERS and TRAILERS. In
  the other modules frames are atomic.
* In `RpcConn`, a second HEADERS frame in one request body, which the loops take
  like the first, and frames of unknown types, which they skip: the client sends
  neither. And a `SendHeader` whose write fails, which leaves no trace in `out`.
* In `ClientSession`, the callbacks of a POST that arrive after `close()`, whose
  session nobody looks at any more.
* Routing, which keeps no state that a call changes.
* Of the client, what only a direct user of `GrottoConnection` can do, and
  CANCEL or undecodable frames in a response, which this server never sends.

## Plan

Done: all the modules above and the proofs of their safety properties. Next, in
this order:

1. `BidiCall` with the connection's promise taken from `MessageStream`, as the
   session's is from `BidiJoin`: its `taken`, `stashed`, `received` and `eof`
   shown to be steps of a stream with two readers.
2. The safety half of the liveness properties, where there is one: what each
   waiting goroutine waits for is still to come (as `WaitingLegHasWaker` says of
   the server leg), for the client leg's task and for `readLoop`.
3. A module for a direct user of `GrottoConnection`, who may call `close` and the
   `send` functions in any order.
