------------------------------ MODULE BidiClient ------------------------------
(***************************************************************************)
(* iterateBidiStream (grotto-rpc.ts): the generator that opens the server  *)
(* leg, starts an asynchronous task for the client leg, and yields what    *)
(* the server leg brings; the task, which sends the caller's input; the    *)
(* 10 s timer; and the consumer of the generator.                          *)
(***************************************************************************)
EXTENDS ClientSession, FiniteSets

CONSTANTS
  ServerLeg, ClientLeg,   \* serverConn and clientConn
  MaxSends                \* bound on the messages of the input

ASSUME LegsAssumption ==
  /\ ServerLeg # ClientLeg
  /\ Posts = {ServerLeg, ClientLeg}
  /\ MaxSends \in Nat

VARIABLES
  main,       \* where the generator is
  task,       \* where the client leg's task, clientLegPromise, is
  timer,      \* clientLegTimer: "none", "armed" or "cleared"
  connected,  \* clientLegConnected
  elapsed,    \* 10 s have passed since the timer was armed
  yielded,    \* the messages given to the consumer, in order
  result      \* how the generator ended

callVars == <<main, task, timer, connected, elapsed, yielded, result>>
vars == <<connVars, sessVars, callVars>>

TypeOK ==
  /\ SessionTypeOK
  /\ main \in {"start", "opening", "looping", "suspended", "joining", "ended"}
  /\ task \in {"none", "starting", "sending", "draining", "resolved",
               "rejected"}
  /\ timer \in {"none", "armed", "cleared"}
  /\ connected \in BOOLEAN
  /\ elapsed \in BOOLEAN
  /\ yielded \in Seq(1..MaxMessages)
  /\ result \in {"none", "returned", "threw", "stopped"}

Init ==
  /\ SessionInit
  /\ main = "start"
  /\ task = "none"
  /\ timer = "none"
  /\ connected = FALSE
  /\ elapsed = FALSE
  /\ yielded = <<>>
  /\ result = "none"

-----------------------------------------------------------------------------
(* The generator.                                                          *)

\* start, finishSending: the server leg's request is HEADERS and HALF_CLOSE.
OpenServerLeg ==
  /\ main = "start"
  /\ main' = "opening"
  /\ http' = [http EXCEPT ![ServerLeg] = "pending"]
  /\ request' = [request EXCEPT ![ServerLeg] = "closed"]
  /\ Enqueue(ServerLeg, <<"HEADERS", "HALF_CLOSE">>)
  /\ UNCHANGED <<closed, headers, sessVars, task, timer, connected, elapsed,
                 yielded, result>>

ClearTimer == timer' = IF timer = "armed" THEN "cleared" ELSE timer

\* Faulty: the finally block closes the server leg only.
EndForgettingLeg(r) ==
  /\ main' = "ended"
  /\ result' = r
  /\ CloseAll({ServerLeg})
  /\ ClearTimer
  /\ UNCHANGED <<sessVars, task, connected, elapsed, yielded>>

\* The generator is over, with its finally block.
End(r) ==
  /\ main' = "ended"
  /\ result' = r
  /\ CloseAll(IF task = "none" THEN {ServerLeg} ELSE {ServerLeg, ClientLeg})
  /\ ClearTimer
  /\ UNCHANGED <<sessVars, task, connected, elapsed, yielded>>

\* awaitResponseHeaders rejects, or there is no Grotto-Session-Id.
OpeningFails ==
  /\ main = "opening"
  /\ headers[ServerLeg] \in {"rejected", "bare"}
  /\ End("threw")

\* The session id is known: the task runs up to its first await, which opens
\* the client leg's POST, and then the timer is armed.
LaunchClientLeg ==
  /\ main = "opening"
  /\ headers[ServerLeg] = "named"
  /\ main' = "looping"
  /\ task' = "starting"
  /\ timer' = "armed"
  /\ Connect(ClientLeg)
  /\ UNCHANGED <<closed, headers, sent, sessVars, connected, elapsed, yielded,
                 result>>

Looping == main = "looping" /\ ~waiting[ServerLeg]

YieldMessage ==
  /\ Looping
  /\ HasMessage(ServerLeg)
  /\ yielded' = Append(yielded, Head(messages[ServerLeg]))
  /\ messages' = [messages EXCEPT ![ServerLeg] = Tail(@)]
  /\ main' = "suspended"
  /\ UNCHANGED <<connVars, arrived, trailers, failure, waiting, task, timer,
                 connected, elapsed, result>>

ThrowFailure ==
  /\ Looping
  /\ Failed(ServerLeg)
  /\ End("threw")

Await ==
  /\ Looping
  /\ HasNothing(ServerLeg)
  /\ Wait(ServerLeg)
  /\ UNCHANGED <<connVars, callVars>>

\* Faulty: the client leg is not awaited.
LeaveLoopAndReturn ==
  /\ Looping
  /\ HasEnded(ServerLeg)
  /\ End("returned")

\* The server leg has brought OK TRAILERS: `await clientLegPromise`.
LeaveLoop ==
  /\ Looping
  /\ HasEnded(ServerLeg)
  /\ main' = "joining"
  /\ UNCHANGED <<connVars, sessVars, task, timer, connected, elapsed, yielded,
                 result>>

JoinClientLeg ==
  /\ main = "joining"
  /\ \/ task = "resolved" /\ End("returned")
     \/ task = "rejected" /\ End("threw")

-----------------------------------------------------------------------------
(* The client leg's task.                                                  *)

\* Faulty: the task's failure is not passed on to the server session.
RejectSilently ==
  /\ task' = "rejected"
  /\ UNCHANGED <<connVars, sessVars, main, timer, connected, elapsed, yielded,
                 result>>

\* The catch of the task: serverSession.fail(err), and the promise rejects.
Reject ==
  /\ task' = "rejected"
  /\ Fail(ServerLeg, "leg")
  /\ UNCHANGED <<connVars, arrived, messages, trailers, main, timer, connected,
                 elapsed, yielded, result>>

\* A send throws: the connection was closed under the task.
SendThrows ==
  /\ task \in {"starting", "sending"}
  /\ ~CanSend(ClientLeg)
  /\ Reject

StartClientLeg ==
  /\ task = "starting"
  /\ CanSend(ClientLeg)
  /\ task' = "sending"
  /\ Enqueue(ClientLeg, <<"HEADERS">>)
  /\ connected' = TRUE
  /\ ClearTimer
  /\ UNCHANGED <<request, closed, headers, http, sessVars, main, elapsed,
                 yielded, result>>

Sent ==
  Cardinality({i \in DOMAIN sent[ClientLeg] : sent[ClientLeg][i] = "MESSAGE"})

SendMessage ==
  /\ task = "sending"
  /\ CanSend(ClientLeg)
  /\ Sent < MaxSends
  /\ Enqueue(ClientLeg, <<"MESSAGE">>)
  /\ UNCHANGED <<request, closed, headers, http, sessVars, callVars>>

InputThrows == task = "sending" /\ Reject

FinishSending ==
  /\ task = "sending"
  /\ CanSend(ClientLeg)
  /\ task' = "draining"
  /\ Enqueue(ClientLeg, <<"HALF_CLOSE">>)
  /\ request' = [request EXCEPT ![ClientLeg] = "closed"]
  /\ UNCHANGED <<closed, headers, http, sessVars, main, timer, connected,
                 elapsed, yielded, result>>

\* drainResponse.
DrainResponse ==
  /\ task = "draining"
  /\ ~waiting[ClientLeg]
  /\ \/ Failed(ClientLeg) /\ Reject
     \/ /\ HasEnded(ClientLeg)
        /\ task' = "resolved"
        /\ UNCHANGED <<connVars, sessVars, main, timer, connected, elapsed,
                       yielded, result>>
     \/ /\ HasNothing(ClientLeg)
        /\ Wait(ClientLeg)
        /\ UNCHANGED <<connVars, callVars>>

-----------------------------------------------------------------------------
(* Time, the consumer, the network.                                        *)

\* 10 s pass. The timer's callback cannot run before the task has come back
\* from its first await, for which nothing outside has to happen.
TenSecondsPass ==
  /\ timer # "none" /\ ~elapsed /\ main # "ended"
  /\ task # "starting"
  /\ elapsed' = TRUE
  /\ IF timer = "armed" /\ ~connected
     THEN /\ Fail(ServerLeg, "timeout")
          /\ CloseAll({ServerLeg})
     ELSE UNCHANGED <<connVars, failure, waiting>>
  /\ UNCHANGED <<arrived, messages, trailers, main, task, timer, connected,
                 yielded, result>>

ConsumerPulls ==
  /\ main = "suspended"
  /\ main' = "looping"
  /\ UNCHANGED <<connVars, sessVars, task, timer, connected, elapsed, yielded,
                 result>>

ConsumerStops ==
  /\ main = "suspended"
  /\ End("stopped")

\* Only the server leg's response carries messages and names a session; it
\* does not name one when the server refused the request's HEADERS.
NetworkStep ==
  /\ \/ Network(ServerLeg, 0..2, {"bare", "named"})
     \/ Network(ClientLeg, {0}, {"bare"})
  /\ UNCHANGED callVars

Over == main = "ended" /\ UNCHANGED vars

Generate ==
  \/ OpenServerLeg \/ OpeningFails \/ LaunchClientLeg
  \/ YieldMessage \/ ThrowFailure \/ Await \/ LeaveLoop
  \/ JoinClientLeg

Task == SendThrows \/ StartClientLeg \/ DrainResponse

\* The caller's input yields a message, throws or ends.
Input == SendMessage \/ InputThrows \/ FinishSending

Next ==
  \/ Generate
  \/ Task
  \/ Input
  \/ TenSecondsPass
  \/ ConsumerPulls
  \/ ConsumerStops
  \/ NetworkStep
  \/ Over

Spec == Init /\ [][Next]_vars

\* The event loop runs what is ready, and a consumer that has not left its
\* loop asks for the next message. The input may stay silent for ever.
FairSpec ==
  /\ Spec
  /\ WF_vars(Generate)
  /\ WF_vars(Task)
  /\ WF_vars(ConsumerPulls \/ ConsumerStops)

-----------------------------------------------------------------------------
(* Properties.                                                             *)

\* What the server leg brought is either with the consumer or still buffered,
\* once and in order.
EachMessageOnce ==
  yielded \o messages[ServerLeg] = [i \in 1..arrived[ServerLeg] |-> i]

\* The iteration completes normally only if both legs did: every message was
\* delivered, the whole input was sent, and both legs brought OK TRAILERS.
SuccessIsComplete ==
  result = "returned" =>
    /\ Len(yielded) = arrived[ServerLeg]
    /\ \A c \in Posts : trailers[c] = "ok"
    /\ sent[ClientLeg][Len(sent[ClientLeg])] = "HALF_CLOSE"

\* A generator that is over leaves no POST behind: the task, which may still
\* run, sends nothing more, and nothing arrives.
QuietAfterEnd ==
  [][main = "ended" => UNCHANGED <<connVars, arrived, messages, trailers>>]_vars

LegFailed(c) == failure[c] # "none" \/ trailers[c] = "error"

\* The failures that the code looks at. The server leg's are seen while the
\* call is iterated (when the generator already waits for the client leg it is
\* too late to matter), the client leg's only where the task waits for its
\* response, and those of the task itself.
SeenFailure ==
  \/ LegFailed(ServerLeg) /\ main \in {"opening", "looping", "suspended"}
  \/ task = "draining" /\ Failed(ClientLeg)
  \/ task = "rejected"

\* A failure that is seen ends the call, even if the other leg stays silent,
\* and one of the server leg even if the input does. A client leg that fails
\* while the task waits for the input is not looked at: such a call ends if
\* the input does, and with a silent input it hangs, unless the server leg
\* fails too or the consumer leaves.
FailureEndsCall ==
  /\ SeenFailure ~> main = "ended"
  /\ WF_vars(Input) =>
       (task = "sending" /\ LegFailed(ClientLeg) ~> main = "ended")

\* When both responses are over, so is the call, provided that the input,
\* which FairSpec leaves free to stay silent, ends or throws in time.
CallSettles ==
  WF_vars(Input) =>
    ((\A c \in Posts : http[c] = "ended") ~> (main = "ended"))

\* The README says that the two legs are joined within 10 seconds, and
\* method-url.ts that this is how long the client waits for the client leg:
\* after 10 s the server has answered the client leg, or the call has failed.
JoinedInTime ==
  elapsed => \/ headers[ClientLeg] # "none"
             \/ failure[ServerLeg] # "none"
             \/ main = "ended"

=============================================================================
