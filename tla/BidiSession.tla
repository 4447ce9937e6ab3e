----------------------------- MODULE BidiSession -----------------------------
(***************************************************************************)
(* One bidirectional session of the Go server (bidi.go): the POST that     *)
(* opens it (the server leg), the POSTs that try to join it (client legs), *)
(* the expiry timer, and the readLoop of every leg's rpcConn, each a       *)
(* goroutine.  A step is what a goroutine does between two points where    *)
(* another can see or change what it uses: a critical section of s.mu,     *)
(* r.mu or c.mu, a receive, the test of a channel, its close.              *)
(*                                                                         *)
(* Frames are reduced to whether one waits for consumeStreamHeaders (fed); *)
(* RpcConn has the frames, the inbound queue and its readers.              *)
(***************************************************************************)

CONSTANTS
  Server,         \* the server leg
  ClientLegs,     \* the POSTs that carry this session's id
  NoLeg,          \* nil for session.clientConn
  HandlerPanics   \* whether the RPC handler may panic

ASSUME LegsAssumption ==
  /\ Server \notin ClientLegs
  /\ NoLeg \notin {Server} \cup ClientLegs

ASSUME HandlerPanicsAssumption == HandlerPanics \in BOOLEAN

VARIABLES
  srv,         \* where serveBidiServerLeg is
  leg,         \* [ClientLegs -> where serveBidiClientLeg is]
  read,        \* [Legs -> where rpcConn.readLoop is]
  call,        \* [Threads -> where the goroutine is in terminate/signalDone]
  timer,       \* session.timer
  registered,  \* the id is in registry.sessions
  response,    \* [Legs -> what the HTTP response headers say]
  terminated,  \* session.terminated
  clientConn,  \* session.clientConn
  captured,    \* the clientConn terminate read under s.mu
  clientLeg,   \* the channel session.clientLeg
  done,        \* the channel session.done
  result,      \* handlerErr of serveBidiServerLeg
  status,      \* [Legs -> rpcConn.finished, with the TRAILERS written]
  fed,         \* [Legs -> a frame waits for consumeStreamHeaders]
  hook         \* [Legs -> rpcConn.onTerminate is set]

sessionVars == <<timer, registered, terminated, clientConn, captured,
                 clientLeg, done>>
connVars == <<status, fed, hook>>
vars == <<srv, leg, read, call, response, result, sessionVars, connVars>>

Legs == {Server} \cup ClientLegs

Serve(x) == <<"serve", x>>
Read(x)  == <<"read", x>>
Timer    == <<"timer", Server>>
Threads  == {Serve(x) : x \in Legs} \cup {Read(x) : x \in Legs} \cup {Timer}

\* The error a goroutine passes to terminate.
Reason(t) ==
  IF t = Timer THEN "expired"
  ELSE IF t = Serve(Server) THEN "cancelled"
  ELSE IF t \in {Read(x) : x \in Legs} THEN "closed" ELSE "badHeaders"

-----------------------------------------------------------------------------
(* The shared operations.                                                  *)

\* close(ch): closing a closed channel panics.
Close(ch) == IF ch = "open" THEN "closed" ELSE "reclosed"

\* finishLocked: the first caller writes the TRAILERS, later ones nothing.
Finish(x, o) ==
  status' = IF status[x] = "none" THEN [status EXCEPT ![x] = o] ELSE status

GoTo(t, pc) == call' = [call EXCEPT ![t] = pc]

-----------------------------------------------------------------------------
(* bidiSession.terminate and signalDone, for any goroutine t that called.  *)

\* Faulty: terminate finishes the server's connection for the client's.
TerminateLockWrongConn(t) ==
  /\ call[t] = "lock"
  /\ ~terminated
  /\ GoTo(t, "finishServer")
  /\ terminated' = TRUE
  /\ captured' = IF clientConn = NoLeg THEN Server ELSE clientConn
  /\ timer' = IF timer = "armed" THEN "stopped" ELSE timer
  /\ UNCHANGED <<srv, leg, read, response, result, registered, clientConn,
                 clientLeg, done, connVars>>

\* Faulty: every caller gets past the critical section.
TerminateLockAgain(t) ==
  /\ call[t] = "lock"
  /\ GoTo(t, "finishServer")
  /\ terminated' = TRUE
  /\ captured' = clientConn
  /\ timer' = IF timer = "armed" THEN "stopped" ELSE timer
  /\ UNCHANGED <<srv, leg, read, response, result, registered, clientConn,
                 clientLeg, done, connVars>>

\* The critical section of terminate: only one caller gets past it.
TerminateLock(t) ==
  /\ call[t] = "lock"
  /\ IF terminated
     THEN /\ GoTo(t, "idle")
          /\ UNCHANGED <<terminated, captured, timer>>
     ELSE /\ GoTo(t, "finishServer")
          /\ terminated' = TRUE
          /\ captured' = clientConn
          /\ timer' = IF timer = "armed" THEN "stopped" ELSE timer
  /\ UNCHANGED <<srv, leg, read, response, result, registered, clientConn,
                 clientLeg, done, connVars>>

\* serverConn.finishError(reason) waits while SendMsg holds the same mutex.
TerminateFinishServer(t) ==
  /\ call[t] = "finishServer"
  /\ srv # "sending"
  /\ Finish(Server, Reason(t))
  /\ GoTo(t, "finishClient")
  /\ UNCHANGED <<srv, leg, read, response, result, sessionVars,
                 fed, hook>>

\* Faulty: the client's connection is forgotten.
TerminateSkipClient(t) ==
  /\ call[t] = "finishClient"
  /\ GoTo(t, "checkLeg")
  /\ UNCHANGED <<srv, leg, read, response, result, sessionVars, connVars>>

TerminateFinishClient(t) ==
  /\ call[t] = "finishClient"
  /\ IF captured = NoLeg THEN UNCHANGED status
                         ELSE Finish(captured, Reason(t))
  /\ GoTo(t, "checkLeg")
  /\ UNCHANGED <<srv, leg, read, response, result, sessionVars,
                 fed, hook>>

\* select { case <-s.clientLeg: default: close(s.clientLeg) }, outside s.mu.
TerminateCheckLeg(t) ==
  /\ call[t] = "checkLeg"
  /\ GoTo(t, IF clientLeg = "open" THEN "closeLeg" ELSE "checkDone")
  /\ UNCHANGED <<srv, leg, read, response, result, sessionVars, connVars>>

TerminateCloseLeg(t) ==
  /\ call[t] = "closeLeg"
  /\ clientLeg' = Close(clientLeg)
  /\ GoTo(t, IF clientLeg = "open" THEN "checkDone" ELSE "panicked")
  /\ UNCHANGED <<srv, leg, read, response, result, timer, registered,
                 terminated, clientConn, captured, done, connVars>>

\* signalDone: the same select on s.done, outside s.mu.
SignalCheck(t) ==
  /\ call[t] = "checkDone"
  /\ GoTo(t, IF done = "open" THEN "closeDone" ELSE "idle")
  /\ UNCHANGED <<srv, leg, read, response, result, sessionVars, connVars>>

SignalClose(t) ==
  /\ call[t] = "closeDone"
  /\ done' = Close(done)
  /\ GoTo(t, IF done = "open" THEN "idle" ELSE "panicked")
  /\ UNCHANGED <<srv, leg, read, response, result, timer, registered,
                 terminated, clientConn, captured, clientLeg, connVars>>

SessionCall(t) ==
  \/ TerminateLock(t)
  \/ TerminateFinishServer(t)
  \/ TerminateFinishClient(t)
  \/ TerminateCheckLeg(t)
  \/ TerminateCloseLeg(t)
  \/ SignalCheck(t)
  \/ SignalClose(t)

\* The goroutine time.AfterFunc starts when the ten seconds have passed.
TimerFires ==
  /\ timer = "armed"
  /\ timer' = "fired"
  /\ GoTo(Timer, "lock")
  /\ UNCHANGED <<srv, leg, read, response, result, registered, terminated,
                 clientConn, captured, clientLeg, done, connVars>>

-----------------------------------------------------------------------------
(* readLoop of a leg's rpcConn.                                            *)

\* consumeStreamHeaders has not taken its frame yet.
AwaitsHeaders(x) ==
  IF x = Server THEN srv = "headers" ELSE leg[x] \in {"attach", "headers"}

\* A frame that consumeStreamHeaders accepts is pushed.
ReadFrame(x) ==
  /\ read[x] = "reading"
  /\ AwaitsHeaders(x)
  /\ ~fed[x]
  /\ fed' = [fed EXCEPT ![x] = TRUE]
  /\ UNCHANGED <<srv, leg, read, call, response, result, sessionVars, status, hook>>

\* A HALF_CLOSE frame, or the end of the body, which pushes one: the loop
\* stops and never looks at this leg again.
ReadHalfClose(x) ==
  /\ read[x] = "reading"
  /\ fed' = IF AwaitsHeaders(x) THEN [fed EXCEPT ![x] = TRUE] ELSE fed
  /\ read' = [read EXCEPT ![x] = "exited"]
  /\ UNCHANGED <<srv, leg, call, response, result, sessionVars, status, hook>>

\* A CANCEL frame, or a body that cannot be read to its end.
ReadAbort(x) ==
  /\ read[x] = "reading"
  /\ read' = [read EXCEPT ![x] = "aborting"]
  /\ UNCHANGED <<srv, leg, call, response, result, sessionVars, connVars>>

\* Faulty: nobody calls the hook.
InvokeNothing(x) ==
  /\ read[x] = "aborting"
  /\ read' = [read EXCEPT ![x] = "exited"]
  /\ UNCHANGED <<srv, leg, call, response, result, sessionVars, connVars>>

\* The deferred invokeTerminate runs once, with the hook set by then or none.
InvokeTerminate(x) ==
  /\ read[x] = "aborting"
  /\ IF hook[x]
     THEN /\ read' = [read EXCEPT ![x] = "terminating"]
          /\ GoTo(Read(x), "lock")
     ELSE /\ read' = [read EXCEPT ![x] = "exited"]
          /\ UNCHANGED call
  /\ UNCHANGED <<srv, leg, response, result, sessionVars, connVars>>

ReadLoopExits(x) ==
  /\ read[x] = "terminating"
  /\ call[Read(x)] = "idle"
  /\ read' = [read EXCEPT ![x] = "exited"]
  /\ UNCHANGED <<srv, leg, call, response, result, sessionVars, connVars>>

\* readFrame of the leg's rpcConn has something to return: a frame, the end
\* of the channel, or the connection's context, cancelled by readLoop or by
\* finishLocked. (net/http may end the context besides, at any moment.)
ReadReturns(x) == fed[x] \/ read[x] # "reading" \/ status[x] # "none"

-----------------------------------------------------------------------------
(* serveBidiServerLeg, from consumeStreamHeaders on.  The context of its    *)
(* request may be done at any moment: it is looked at in two places.       *)

ServerHeaders ==
  /\ srv = "headers"
  /\ fed[Server]
  /\ fed' = [fed EXCEPT ![Server] = FALSE]
  /\ srv' = "create"
  /\ UNCHANGED <<leg, read, call, response, result, sessionVars, status, hook>>

\* The context is done, a CANCEL was read, or the HEADERS do not parse.
ServerHeadersFail ==
  /\ srv = "headers"
  /\ Finish(Server, "badHeaders")
  /\ fed' = [fed EXCEPT ![Server] = FALSE]
  /\ srv' = "returned"
  /\ UNCHANGED <<leg, read, call, response, result, sessionVars,
                 hook>>

\* Faulty: the timer is not started.
CreateUntimed ==
  /\ srv = "create"
  /\ registered' = TRUE
  /\ srv' = "hook"
  /\ UNCHANGED <<leg, read, call, response, result, timer, terminated,
                 clientConn, captured, clientLeg, done, connVars>>

\* registry.create up to the insertion in the map. Nobody has the id yet.
CreateSession ==
  /\ srv = "create"
  /\ timer' = "armed"
  /\ registered' = TRUE
  /\ srv' = "hook"
  /\ UNCHANGED <<leg, read, call, response, result, terminated, clientConn,
                 captured, clientLeg, done, connVars>>

\* serverConn.setOnTerminate, not synchronised with the readLoop.
SetServerHook ==
  /\ srv = "hook"
  /\ hook' = [hook EXCEPT ![Server] = TRUE]
  /\ srv' = "respond"
  /\ UNCHANGED <<leg, read, call, response, result, sessionVars, status, fed>>

\* The response headers with the session id are flushed to the client.
RespondServerLeg ==
  /\ srv = "respond"
  /\ response' = [response EXCEPT ![Server] = "accepted"]
  /\ srv' = "select"
  /\ UNCHANGED <<leg, read, call, result, sessionVars, connVars>>

SelectClientLeg ==
  /\ srv = "select"
  /\ clientLeg # "open"
  /\ srv' = "readClient"
  /\ UNCHANGED <<leg, read, call, response, result, sessionVars, connVars>>

\* Faulty: the server leg leaves without terminating the session.
LeaveOnContextDone ==
  /\ srv = "select"
  /\ srv' = "remove"
  /\ UNCHANGED <<leg, read, call, response, result, sessionVars, connVars>>

SelectContextDone ==
  /\ srv = "select"
  /\ srv' = "terminate"
  /\ GoTo(Serve(Server), "lock")
  /\ UNCHANGED <<leg, read, response, result, sessionVars, connVars>>

ServerTerminated ==
  /\ srv = "terminate"
  /\ call[Serve(Server)] = "idle"
  /\ srv' = "awaitDone"
  /\ UNCHANGED <<leg, read, call, response, result, sessionVars, connVars>>

ReadClientConn ==
  /\ srv = "readClient"
  /\ srv' = IF clientConn = NoLeg THEN "awaitDone" ELSE "handler"
  /\ UNCHANGED <<leg, read, call, response, result, sessionVars, connVars>>

ServerAwaitDone ==
  /\ srv = "awaitDone"
  /\ done # "open"
  /\ srv' = "remove"
  /\ UNCHANGED <<leg, read, call, response, result, sessionVars, connVars>>

\* The RPC handler: SendMsg holds serverConn.mu while it writes...
HandlerSend ==
  /\ srv = "handler"
  /\ status[Server] = "none"
  /\ srv' = "sending"
  /\ UNCHANGED <<leg, read, call, response, result, sessionVars, connVars>>

\* ... which ends with or without an error.
HandlerSent ==
  /\ srv = "sending"
  /\ srv' = "handler"
  /\ UNCHANGED <<leg, read, call, response, result, sessionVars, connVars>>

\* The handler's RecvMsg reads the same inbound channel as the client leg's
\* consumeStreamHeaders, and may take the frame that one waits for.
HandlerReceives ==
  /\ srv = "handler"
  /\ leg[clientConn] = "headers"
  /\ fed[clientConn]
  /\ fed' = [fed EXCEPT ![clientConn] = FALSE]
  /\ UNCHANGED <<srv, leg, read, call, response, result, sessionVars, status, hook>>

HandlerReturns(o) ==
  /\ srv = "handler"
  /\ result' = o
  /\ srv' = "finishServer"
  /\ UNCHANGED <<leg, read, call, response, sessionVars, connVars>>

\* net/http recovers the panic; none of the lines after the call run.
HandlerPanic ==
  /\ HandlerPanics
  /\ srv = "handler"
  /\ srv' = "panicked"
  /\ UNCHANGED <<leg, read, call, response, result, sessionVars, connVars>>

FinishServerConn ==
  /\ srv = "finishServer"
  /\ Finish(Server, result)
  /\ srv' = "finishClient"
  /\ UNCHANGED <<leg, read, call, response, result, sessionVars,
                 fed, hook>>

\* clientConn is finished with outcome o, and signalDone called.
FinishClient(o) ==
  /\ srv = "finishClient"
  /\ Finish(clientConn, o)
  /\ srv' = "signal"
  /\ GoTo(Serve(Server), "checkDone")
  /\ UNCHANGED <<leg, read, response, result, sessionVars, fed, hook>>

\* Faulty: the client leg is told the call went well, whatever the handler
\* returned.
FinishClientOK == FinishClient("ok")

\* Faulty: signalDone is forgotten.
FinishClientSilently ==
  /\ srv = "finishClient"
  /\ Finish(clientConn, result)
  /\ srv' = "remove"
  /\ UNCHANGED <<leg, read, call, response, result, sessionVars, fed, hook>>

FinishClientConn == FinishClient(result)

ServerSignalled ==
  /\ srv = "signal"
  /\ call[Serve(Server)] = "idle"
  /\ srv' = "remove"
  /\ UNCHANGED <<leg, read, call, response, result, sessionVars, connVars>>

RemoveSession ==
  /\ srv = "remove"
  /\ registered' = FALSE
  /\ srv' = "returned"
  /\ UNCHANGED <<leg, read, call, response, result, timer, terminated,
                 clientConn, captured, clientLeg, done, connVars>>

\* A panic of this goroutine is recovered by net/http.
ServerPanics ==
  /\ srv \in {"terminate", "signal"}
  /\ call[Serve(Server)] = "panicked"
  /\ srv' = "panicked"
  /\ UNCHANGED <<leg, read, call, response, result, sessionVars, connVars>>

-----------------------------------------------------------------------------
(* serveBidiClientLeg, for the POST c.                                     *)

\* registry.get, then newRPCConn, which starts the readLoop; or a 404. A
\* client has the id only once the server leg has answered.
LookupSession(c) ==
  /\ leg[c] = "idle"
  /\ response[Server] = "accepted"
  /\ IF registered
     THEN /\ leg' = [leg EXCEPT ![c] = "attach"]
          /\ read' = [read EXCEPT ![c] = "reading"]
          /\ UNCHANGED response
     ELSE /\ leg' = [leg EXCEPT ![c] = "returned"]
          /\ response' = [response EXCEPT ![c] = "notFound"]
          /\ UNCHANGED read
  /\ UNCHANGED <<srv, call, result, sessionVars, connVars>>

\* What attachClient assigns: the client leg c joins the session.
JoinSession(c) ==
  /\ leg[c] = "attach"
  /\ clientConn' = c
  /\ timer' = IF timer = "armed" THEN "stopped" ELSE timer
  /\ hook' = [hook EXCEPT ![c] = TRUE]
  /\ clientLeg' = Close(clientLeg)
  /\ leg' = [leg EXCEPT ![c] = "headers"]
  /\ UNCHANGED <<srv, read, call, response, result, registered, terminated,
                 captured, done, status, fed>>

\* Faulty: a second client leg may take the session over.
AttachAnyway(c) == ~terminated /\ JoinSession(c)

\* Faulty: a terminated session may be joined.
AttachTerminated(c) == clientConn = NoLeg /\ JoinSession(c)

\* Faulty: the server leg is not woken.
AttachSilently(c) ==
  /\ leg[c] = "attach"
  /\ ~terminated
  /\ clientConn = NoLeg
  /\ clientConn' = c
  /\ timer' = IF timer = "armed" THEN "stopped" ELSE timer
  /\ hook' = [hook EXCEPT ![c] = TRUE]
  /\ leg' = [leg EXCEPT ![c] = "headers"]
  /\ UNCHANGED <<srv, read, call, response, result, registered, terminated,
                 captured, clientLeg, done, status, fed>>

\* The critical section of attachClient.
AttachClient(c) == ~terminated /\ clientConn = NoLeg /\ JoinSession(c)

\* attachClient returned false: a 409, whichever condition failed. The
\* readLoop of a refused leg has no hook and is not followed any further.
AttachRefused(c) ==
  /\ leg[c] = "attach"
  /\ terminated \/ clientConn # NoLeg
  /\ response' = [response EXCEPT ![c] = "conflict"]
  /\ leg' = [leg EXCEPT ![c] = "returned"]
  /\ read' = [read EXCEPT ![c] = "off"]
  /\ fed' = [fed EXCEPT ![c] = FALSE]
  /\ UNCHANGED <<srv, call, result, sessionVars, status,
                 hook>>

LegHeaders(c) ==
  /\ leg[c] = "headers"
  /\ fed[c]
  /\ fed' = [fed EXCEPT ![c] = FALSE]
  /\ leg' = [leg EXCEPT ![c] = "respond"]
  /\ UNCHANGED <<srv, read, call, response, result, sessionVars, status, hook>>

\* The same failures, and the end of a channel that the handler emptied.
LegHeadersFail(c) ==
  /\ leg[c] = "headers"
  /\ fed' = [fed EXCEPT ![c] = FALSE]
  /\ leg' = [leg EXCEPT ![c] = "terminate"]
  /\ GoTo(Serve(c), "lock")
  /\ UNCHANGED <<srv, read, response, result, sessionVars, status, hook>>

LegTerminated(c) ==
  /\ leg[c] = "terminate"
  /\ call[Serve(c)] = "idle"
  /\ leg' = [leg EXCEPT ![c] = "awaitDone"]
  /\ UNCHANGED <<srv, read, call, response, result, sessionVars, connVars>>

RespondClientLeg(c) ==
  /\ leg[c] = "respond"
  /\ response' = [response EXCEPT ![c] = "accepted"]
  /\ leg' = [leg EXCEPT ![c] = "awaitDone"]
  /\ UNCHANGED <<srv, read, call, result, sessionVars, connVars>>

\* Faulty: the client leg returns when its own body has ended.
LegAwaitBody(c) ==
  /\ leg[c] = "awaitDone"
  /\ done # "open" \/ read[c] = "exited"
  /\ leg' = [leg EXCEPT ![c] = "returned"]
  /\ UNCHANGED <<srv, read, call, response, result, sessionVars, connVars>>

LegAwaitDone(c) ==
  /\ leg[c] = "awaitDone"
  /\ done # "open"
  /\ leg' = [leg EXCEPT ![c] = "returned"]
  /\ UNCHANGED <<srv, read, call, response, result, sessionVars, connVars>>

LegPanics(c) ==
  /\ leg[c] = "terminate"
  /\ call[Serve(c)] = "panicked"
  /\ leg' = [leg EXCEPT ![c] = "panicked"]
  /\ UNCHANGED <<srv, read, call, response, result, sessionVars, connVars>>

-----------------------------------------------------------------------------
(* The specification.                                                      *)

\* net/http recovers panics of the goroutines it starts; a panic of a
\* readLoop or of the timer's goroutine ends the process.
Crashed ==
  \E t \in Threads : call[t] = "panicked" /\ t[1] \in {"read", "timer"}

ServerReturned == srv \in {"returned", "panicked"}

Returned(x) ==
  IF x = Server THEN ServerReturned ELSE leg[x] \in {"returned", "panicked"}

Init ==
  /\ srv = "headers"
  /\ leg = [c \in ClientLegs |-> "idle"]
  /\ read = [x \in Legs |-> IF x = Server THEN "reading" ELSE "off"]
  /\ call = [t \in Threads |-> "idle"]
  /\ timer = "unset"
  /\ registered = FALSE
  /\ response = [x \in Legs |-> "none"]
  /\ terminated = FALSE
  /\ clientConn = NoLeg
  /\ captured = NoLeg
  /\ clientLeg = "open"
  /\ done = "open"
  /\ result = "none"
  /\ status = [x \in Legs |-> "none"]
  /\ fed = [x \in Legs |-> FALSE]
  /\ hook = [x \in Legs |-> FALSE]

ReadLoop(x) ==
  \/ ReadFrame(x)
  \/ ReadHalfClose(x)
  \/ ReadAbort(x)
  \/ InvokeTerminate(x)
  \/ ReadLoopExits(x)

Handler ==
  \/ HandlerSend
  \/ HandlerSent
  \/ HandlerReceives
  \/ \E o \in {"ok", "handlerError"} : HandlerReturns(o)
  \/ HandlerPanic

\* The steps of serveBidiServerLeg outside the handler, but for the two that
\* the end of the request's context allows.
ServeServer ==
  \/ ServerHeaders
  \/ CreateSession
  \/ SetServerHook
  \/ RespondServerLeg
  \/ SelectClientLeg
  \/ ServerTerminated
  \/ ReadClientConn
  \/ ServerAwaitDone
  \/ FinishServerConn
  \/ FinishClientConn
  \/ ServerSignalled
  \/ RemoveSession
  \/ ServerPanics

\* The steps of serveBidiClientLeg once the POST has arrived.
ServeClient(c) ==
  \/ AttachClient(c)
  \/ AttachRefused(c)
  \/ LegHeaders(c)
  \/ LegTerminated(c)
  \/ RespondClientLeg(c)
  \/ LegAwaitDone(c)
  \/ LegPanics(c)

Step ==
  \/ \E t \in Threads : SessionCall(t)
  \/ TimerFires
  \/ \E x \in Legs : ReadLoop(x)
  \/ ServeServer
  \/ ServerHeadersFail
  \/ SelectContextDone
  \/ Handler
  \/ \E c \in ClientLegs : LookupSession(c) \/ ServeClient(c) \/ LegHeadersFail(c)

\* Where the system may come to rest: every goroutine that ServeHTTP started
\* has returned, or the process is gone.
AtRest ==
  \/ Crashed
  \/ /\ ServerReturned
     /\ \A c \in ClientLegs : Returned(c) \/ leg[c] = "idle"
     /\ \A t \in Threads : call[t] \in {"idle", "panicked"}

Next == (~Crashed /\ Step) \/ (AtRest /\ UNCHANGED vars)

Spec == Init /\ [][Next]_vars

-----------------------------------------------------------------------------
(* Fairness.  The Go scheduler runs every goroutine that can run, timers   *)
(* go off, a write ends with or without an error, and net/http closes the  *)
(* body of a request that has been served, which ends its readLoop.  What  *)
(* a peer sends, when it goes away and when the handler returns is not     *)
(* fair, except that the handler returns at last once its RecvMsg can only *)
(* fail.                                                                   *)

HandlerGivesUp ==
  /\ clientConn # NoLeg
  /\ read[clientConn] # "reading" \/ status[clientConn] # "none"
  /\ \E o \in {"ok", "handlerError"} : HandlerReturns(o)

Live(A) == ~Crashed /\ A

Fairness ==
  /\ \A t \in Threads : WF_vars(Live(SessionCall(t)))
  /\ WF_vars(Live(TimerFires))
  /\ WF_vars(Live(ServeServer))
  /\ WF_vars(Live(HandlerSent))
  /\ SF_vars(Live(HandlerGivesUp))
  /\ \A x \in Legs :
       /\ WF_vars(Live(InvokeTerminate(x) \/ ReadLoopExits(x)))
       /\ WF_vars(Live(Returned(x) /\ ReadAbort(x)))
  /\ \A c \in ClientLegs :
       WF_vars(Live(ServeClient(c) \/ (ReadReturns(c) /\ LegHeadersFail(c))))

FairSpec == Spec /\ Fairness

-----------------------------------------------------------------------------
(* Types.                                                                  *)

ServerPC ==
  {"headers", "create", "hook", "respond", "select", "terminate",
   "readClient", "awaitDone", "handler", "sending", "finishServer",
   "finishClient", "signal", "remove", "returned", "panicked"}

LegPC ==
  {"idle", "attach", "headers", "terminate", "respond", "awaitDone",
   "returned", "panicked"}

ReadPC == {"off", "reading", "aborting", "terminating", "exited"}

CallPC ==
  {"idle", "lock", "finishServer", "finishClient", "checkLeg", "closeLeg",
   "checkDone", "closeDone", "panicked"}

Channel == {"open", "closed", "reclosed"}

Statuses ==
  {"none", "ok", "handlerError", "expired", "closed", "cancelled",
   "badHeaders"}

\* Every variable of the session and of its goroutines keeps its type.
TypeOK ==
  /\ srv \in ServerPC
  /\ leg \in [ClientLegs -> LegPC]
  /\ read \in [Legs -> ReadPC]
  /\ call \in [Threads -> CallPC]
  /\ timer \in {"unset", "armed", "fired", "stopped"}
  /\ registered \in BOOLEAN
  /\ response \in [Legs -> {"none", "accepted", "notFound", "conflict"}]
  /\ terminated \in BOOLEAN
  /\ clientConn \in ClientLegs \cup {NoLeg}
  /\ captured \in ClientLegs \cup {NoLeg}
  /\ clientLeg \in Channel
  /\ done \in Channel
  /\ result \in {"none", "ok", "handlerError"}
  /\ status \in [Legs -> Statuses]
  /\ fed \in [Legs -> BOOLEAN]
  /\ hook \in [Legs -> BOOLEAN]

-----------------------------------------------------------------------------
(* Safety.                                                                 *)

\* The goroutines inside terminate, before it reaches signalDone.
Terminating(t) ==
  call[t] \in {"finishServer", "finishClient", "checkLeg", "closeLeg"}

\* session.clientLeg is closed once, although attachClient closes it under
\* s.mu and terminate tests and closes it outside: closing it twice would
\* panic, in terminate's case in a goroutine that nobody recovers.
ClientLegClosedOnce == clientLeg # "reclosed"

\* When session.done is closed, both legs have their TRAILERS: a client leg
\* returns from ServeHTTP on done, and its ResponseWriter dies with it.
SettledBeforeReleased ==
  done # "open" =>
    /\ status[Server] # "none"
    /\ clientConn # NoLeg => status[clientConn] # "none"

\* No TRAILERS are written to a leg whose ServeHTTP has returned, whichever
\* of the server leg, the other leg's readLoop or the timer writes them.
NoWriteAfterReturn ==
  [][\A x \in Legs : status'[x] # status[x] => ~Returned(x)]_vars

\* The errors terminate is called with.
Terminations == {"expired", "cancelled", "closed", "badHeaders"}

\* The legs of a released session report what happened to it: the outcome
\* that the handler returned, or, if somebody terminated the session, the one
\* reason for which it was. A call that nobody terminated has two legs, and
\* both report the handler's outcome. Where terminate runs while the handler
\* returns, one leg may have been finished by either: such a call reports two
\* outcomes, but never two reasons, an outcome that the handler did not
\* return, or none.
OutcomesAccounted ==
  done # "open" =>
    /\ terminated \/ clientConn # NoLeg
    /\ \E reason \in Terminations :
         \A x \in {Server, clientConn} \ {NoLeg} :
           \/ result # "none" /\ status[x] = result
           \/ terminated /\ status[x] = reason

\* A server leg that waits for its client leg will be woken: the timer is
\* still running, or somebody is about to terminate the session.
WaitingLegHasWaker ==
  srv = "select" /\ clientLeg = "open" =>
    \/ timer = "armed"
    \/ call[Timer] = "lock"
    \/ \E t \in Threads : Terminating(t)

\* The server leg never leaves a client leg behind that waits for done,
\* which nobody else would close for it.
LegNotAbandoned == ServerReturned /\ clientConn # NoLeg => done # "open"

\* BidiSession implements BidiJoin: one client leg, one outcome for each leg,
\* and no release before both have theirs.
Abstract == INSTANCE BidiJoin WITH client <- clientConn,
                                   outcome <- status,
                                   released <- (done # "open")
ImplementsJoin == Abstract!Spec

-----------------------------------------------------------------------------
(* What the code says of itself and does not do.                           *)

\* signalDone tests done before it closes it, so that it is closed once.
DoneClosedOnce == done # "reclosed"

\* "client leg not opened within 10s" is told to calls without a client leg.
ExpiredMeansUnjoined ==
  (\E x \in Legs : status[x] = "expired") => clientConn = NoLeg

-----------------------------------------------------------------------------
(* Liveness.                                                               *)

\* A session that nobody joins leaves the registry.
UnjoinedSessionEnds ==
  registered /\ clientConn = NoLeg ~> ~registered \/ clientConn # NoLeg

\* Once nothing more can be read from the joined client leg (HALF_CLOSE,
\* CANCEL, a broken body), the session is released, unless the handler
\* panics, after which nobody does it.
ClientEndReleases ==
  clientConn # NoLeg /\ read[clientConn] # "reading"
    ~> done # "open" \/ srv = "panicked" \/ Crashed

\* Once the server leg has returned, and not by a panic, every client leg that
\* has arrived returns, and the readLoops of both stop.
LegsReleased ==
  srv = "returned" ~>
    \/ Crashed
    \/ \A x \in Legs :
         /\ read[x] \in {"off", "exited"}
         /\ x # Server /\ leg[x] # "idle" => Returned(x)

\* A client leg can be got rid of even when the handler has panicked and
\* nobody will finish the call: a CANCEL or a broken body still ends it.
AbortReleasesLeg ==
  \A c \in ClientLegs :
    hook[c] /\ read[c] = "aborting" ~> Returned(c) \/ Crashed

=============================================================================
