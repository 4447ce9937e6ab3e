-------------------------- MODULE BidiSessionProofs --------------------------
(***************************************************************************)
(* Theorems of BidiSession, for any number of client legs.  They rest on   *)
(* one inductive invariant, IInv, whose parts say who may be inside        *)
(* terminate, which channel is still open and which TRAILERS are written   *)
(* at each point of each goroutine.                                        *)
(***************************************************************************)
EXTENDS BidiSession, TLAPS

-----------------------------------------------------------------------------
(* The inductive invariant.                                                *)

\* The legs of the session, as far as it has any, have their TRAILERS.
Settled ==
  /\ status[Server] # "none"
  /\ clientConn # NoLeg => status[clientConn] # "none"

\* No client leg can join any more.
Decided == terminated \/ clientConn # NoLeg

\* Only one goroutine gets past the critical section of terminate, and it
\* finishes the client leg that has joined.
OneTerminator ==
  /\ \A t \in Threads : Terminating(t) => terminated
  /\ \A t, u \in Threads : Terminating(t) /\ Terminating(u) => t = u
  /\ captured = IF terminated THEN clientConn ELSE NoLeg

\* clientLeg is open as long as nobody joined or terminated the session, and
\* when terminate is about to close it.
LegChannel ==
  /\ clientLeg # "reclosed"
  /\ clientLeg # "open" => Decided
  /\ ~Decided => clientLeg = "open"
  /\ \A t \in Threads : call[t] = "closeLeg" => clientLeg = "open"

\* How far terminate and signalDone have come.
CallProgress ==
  \A t \in Threads :
    /\ call[t] \in {"finishClient", "checkLeg", "closeLeg"} =>
         status[Server] # "none"
    /\ call[t] \in {"checkLeg", "closeLeg", "checkDone", "closeDone",
                    "panicked"} => Decided /\ Settled

\* done is closed for good, and on legs that have their TRAILERS.
DoneSettled == done # "open" => Decided /\ Settled

\* How far serveBidiServerLeg has come.
Early == {"headers", "create", "hook", "respond"}

ServerProgress ==
  /\ srv \in Early => response[Server] # "accepted"
  /\ srv \in {"handler", "sending", "finishServer", "finishClient", "signal"}
       => clientConn # NoLeg
  /\ srv \in {"finishClient", "signal", "remove", "returned"} =>
       status[Server] # "none"
  /\ srv = "signal" => Settled
  /\ srv = "panicked" /\ ~HandlerPanics => status[Server] # "none"
  /\ status[Server] # "none" =>
       Decided \/ (srv = "returned" /\ response[Server] # "accepted")
  /\ srv \in {"finishServer", "finishClient"} => result # "none"
  /\ srv \in Early \cup {"select", "readClient", "handler", "sending"} =>
       result = "none"

\* How far serveBidiClientLeg has come.
LegProgress ==
  \A c \in ClientLegs :
    /\ leg[c] # "idle" => response[Server] = "accepted"
    /\ clientConn = c => leg[c] \notin {"idle", "attach"}
    /\ leg[c] \in {"headers", "terminate", "respond", "awaitDone",
                   "panicked"} => clientConn = c
    /\ leg[c] \in {"returned", "panicked"} /\ clientConn = c =>
         status[c] # "none"
    /\ leg[c] \in {"idle", "attach"} => status[c] = "none"

\* No goroutine is inside terminate or signalDone before it calls them.
Callers ==
  /\ srv \in {"headers", "create"} => timer = "unset"
  /\ timer \in {"unset", "armed"} => call[Timer] = "idle"
  /\ srv \in Early \cup {"select", "readClient", "handler", "sending",
                         "finishServer", "finishClient"} =>
       call[Serve(Server)] = "idle"
  /\ \A x \in Legs :
       read[x] \in {"reading", "aborting"} => call[Read(x)] = "idle"
  /\ \A c \in ClientLegs :
       /\ leg[c] \in {"idle", "attach", "headers"} => call[Serve(c)] = "idle"
       /\ hook[c] => leg[c] \notin {"idle", "attach"}
       /\ call[Read(c)] # "idle" => hook[c]

\* Somebody will close clientLeg: whoever terminated the session, or else
\* the timer.
Waker ==
  clientLeg = "open" =>
    /\ terminated => \E t \in Threads : Terminating(t)
    /\ srv \in {"hook", "respond", "select"} =>
         \/ timer = "armed"
         \/ call[Timer] = "lock"
         \/ \E t \in Threads : Terminating(t)

\* The server leg has closed done, or seen it closed, when it moves on.
Releases ==
  /\ srv = "signal" =>
       call[Serve(Server)] \in {"checkDone", "closeDone"} \/ done # "open"
  /\ srv = "remove" => done # "open"
  /\ srv = "returned" => done # "open" \/ response[Server] # "accepted"
  /\ srv = "panicked" /\ ~HandlerPanics => done # "open"
  /\ \A t \in Threads : call[t] = "panicked" => done # "open"

\* Whose outcome is in the TRAILERS: the handler's, or that of the one
\* terminator, whose reason it is as long as terminate runs.
Outcomes ==
  /\ \A x \in Legs : status[x] \in {"none", result} \cup Terminations
  /\ \A x \in Legs :
       status[x] \in Terminations =>
         terminated \/ (srv = "returned" /\ response[Server] # "accepted")
  /\ \A t \in Threads : Terminating(t) =>
       \A x \in Legs : status[x] \in Terminations => status[x] = Reason(t)
  /\ \A x, y \in Legs :
       status[x] \in Terminations /\ status[y] \in Terminations =>
         status[x] = status[y]

\* A server leg that is refused before it has a session leaves nobody behind
\* who could terminate one.
Refused ==
  /\ srv \notin Early \cup {"returned"} => response[Server] = "accepted"
  /\ srv \in {"headers", "create", "returned"} /\ response[Server] # "accepted"
       => /\ timer = "unset"
          /\ ~hook[Server]
          /\ \A t \in Threads : call[t] = "idle"

IInv ==
  /\ TypeOK
  /\ OneTerminator
  /\ LegChannel
  /\ CallProgress
  /\ DoneSettled
  /\ ServerProgress
  /\ LegProgress
  /\ Callers
  /\ Waker
  /\ Releases
  /\ Outcomes
  /\ Refused

-----------------------------------------------------------------------------
(* Types.                                                                  *)

\* The goroutines named in the actions are threads.
LEMMA ThreadNames ==
  /\ Timer \in Threads
  /\ \A x \in Legs : Serve(x) \in Threads /\ Read(x) \in Threads
BY DEF Threads

\* Two goroutines that are named apart are apart.
LEMMA ThreadsDiffer ==
  ASSUME NEW x \in Legs, NEW y \in Legs
  PROVE  /\ Serve(x) # Timer /\ Read(x) # Timer /\ Serve(x) # Read(y)
         /\ x # y => Serve(x) # Serve(y) /\ Read(x) # Read(y)
BY DEF Serve, Read, Timer

\* terminate always finishes the connections with an error.
LEMMA ReasonType ==
  ASSUME NEW t \in Threads
  PROVE  Reason(t) \in Terminations /\ Reason(t) \in Statuses \ {"none", "ok"}
BY DEF Reason, Statuses, Terminations

\* The initial values have their types.
LEMMA TypeInit == Init => TypeOK
<1> SUFFICES ASSUME Init PROVE TypeOK
  OBVIOUS
<1>1. read \in [Legs -> ReadPC]
  BY DEF Init, ReadPC
<1>2. call \in [Threads -> CallPC] /\ leg \in [ClientLegs -> LegPC]
  BY DEF Init, CallPC, LegPC
<1>3. status \in [Legs -> Statuses]
  BY DEF Init, Statuses
<1>4. QED
  BY <1>1, <1>2, <1>3 DEF Init, TypeOK, ServerPC, Channel

\* Every step of every goroutine keeps the types.
LEMMA TypeStep == TypeOK /\ [Next]_vars => TypeOK'
<1> SUFFICES ASSUME TypeOK, [Next]_vars PROVE TypeOK'
  OBVIOUS
<1> USE ThreadNames, LegsAssumption DEF TypeOK, vars, sessionVars, connVars
<1>1. ASSUME NEW t \in Threads, TerminateLock(t) PROVE TypeOK'
  BY <1>1 DEF TerminateLock, GoTo, CallPC
<1>2. ASSUME NEW t \in Threads, TerminateFinishServer(t) PROVE TypeOK'
  BY <1>2, ReasonType DEF TerminateFinishServer, GoTo, CallPC, Finish, Statuses, Legs
<1>3. ASSUME NEW t \in Threads, TerminateFinishClient(t) PROVE TypeOK'
  BY <1>3, ReasonType DEF TerminateFinishClient, GoTo, CallPC, Finish, Statuses, Legs
<1>4. ASSUME NEW t \in Threads, TerminateCheckLeg(t) PROVE TypeOK'
  BY <1>4 DEF TerminateCheckLeg, GoTo, CallPC
<1>5. ASSUME NEW t \in Threads, TerminateCloseLeg(t) PROVE TypeOK'
  BY <1>5 DEF TerminateCloseLeg, GoTo, CallPC, Close, Channel
<1>6. ASSUME NEW t \in Threads, SignalCheck(t) PROVE TypeOK'
  BY <1>6 DEF SignalCheck, GoTo, CallPC
<1>7. ASSUME NEW t \in Threads, SignalClose(t) PROVE TypeOK'
  BY <1>7 DEF SignalClose, GoTo, CallPC, Close, Channel
<1>8. ASSUME TimerFires PROVE TypeOK'
  BY <1>8 DEF TimerFires, GoTo, CallPC
<1>9. ASSUME NEW x \in Legs, ReadFrame(x) PROVE TypeOK'
  BY <1>9 DEF ReadFrame, ReadPC
<1>10. ASSUME NEW x \in Legs, ReadHalfClose(x) PROVE TypeOK'
  BY <1>10 DEF ReadHalfClose, ReadPC
<1>11. ASSUME NEW x \in Legs, ReadAbort(x) PROVE TypeOK'
  BY <1>11 DEF ReadAbort, ReadPC
<1>12. ASSUME NEW x \in Legs, InvokeTerminate(x) PROVE TypeOK'
  BY <1>12 DEF InvokeTerminate, GoTo, CallPC, ReadPC
<1>13. ASSUME NEW x \in Legs, ReadLoopExits(x) PROVE TypeOK'
  BY <1>13 DEF ReadLoopExits, ReadPC
<1>14. ASSUME ServerHeaders PROVE TypeOK'
  BY <1>14 DEF ServerHeaders, ServerPC, Legs
<1>15. ASSUME ServerHeadersFail PROVE TypeOK'
  BY <1>15 DEF ServerHeadersFail, Finish, Statuses, Legs, ServerPC
<1>16. ASSUME CreateSession PROVE TypeOK'
  BY <1>16 DEF CreateSession, ServerPC
<1>17. ASSUME SetServerHook PROVE TypeOK'
  BY <1>17 DEF SetServerHook, ServerPC, Legs
<1>18. ASSUME RespondServerLeg PROVE TypeOK'
  BY <1>18 DEF RespondServerLeg, ServerPC, Legs
<1>19. ASSUME SelectClientLeg PROVE TypeOK'
  BY <1>19 DEF SelectClientLeg, ServerPC
<1>20. ASSUME SelectContextDone PROVE TypeOK'
  BY <1>20 DEF SelectContextDone, GoTo, CallPC, ServerPC, Legs
<1>21. ASSUME ServerTerminated PROVE TypeOK'
  BY <1>21 DEF ServerTerminated, ServerPC
<1>22. ASSUME ReadClientConn PROVE TypeOK'
  BY <1>22 DEF ReadClientConn, ServerPC, ReadPC
<1>23. ASSUME ServerAwaitDone PROVE TypeOK'
  BY <1>23 DEF ServerAwaitDone, ServerPC
<1>24. ASSUME FinishServerConn PROVE TypeOK'
  BY <1>24 DEF FinishServerConn, Finish, Statuses, Legs, ServerPC
<1>25. ASSUME FinishClientConn PROVE TypeOK'
  BY <1>25 DEF FinishClientConn, FinishClient, GoTo, CallPC, Finish, Statuses, Legs, ServerPC
<1>26. ASSUME ServerSignalled PROVE TypeOK'
  BY <1>26 DEF ServerSignalled, ServerPC
<1>27. ASSUME RemoveSession PROVE TypeOK'
  BY <1>27 DEF RemoveSession, ServerPC
<1>28. ASSUME ServerPanics PROVE TypeOK'
  BY <1>28 DEF ServerPanics, ServerPC
<1>29. ASSUME HandlerSend PROVE TypeOK'
  BY <1>29 DEF HandlerSend, ServerPC
<1>30. ASSUME HandlerSent PROVE TypeOK'
  BY <1>30 DEF HandlerSent, ServerPC
<1>31. ASSUME HandlerReceives PROVE TypeOK'
  BY <1>31 DEF HandlerReceives, ServerPC, Legs
<1>32. ASSUME NEW o \in {"ok", "handlerError"}, HandlerReturns(o) PROVE TypeOK'
  BY <1>32 DEF HandlerReturns, ServerPC
<1>33. ASSUME HandlerPanic PROVE TypeOK'
  BY <1>33 DEF HandlerPanic, ServerPC
<1>34. ASSUME NEW c \in ClientLegs, LookupSession(c) PROVE TypeOK'
  BY <1>34 DEF LookupSession, LegPC, Legs, ReadPC
<1>35. ASSUME NEW c \in ClientLegs, AttachClient(c) PROVE TypeOK'
  BY <1>35 DEF AttachClient, JoinSession, Close, Channel, LegPC, Legs
<1>36. ASSUME NEW c \in ClientLegs, AttachRefused(c) PROVE TypeOK'
  BY <1>36 DEF AttachRefused, LegPC, Legs, ReadPC
<1>37. ASSUME NEW c \in ClientLegs, LegHeaders(c) PROVE TypeOK'
  BY <1>37 DEF LegHeaders, LegPC, Legs
<1>38. ASSUME NEW c \in ClientLegs, LegHeadersFail(c) PROVE TypeOK'
  BY <1>38 DEF LegHeadersFail, GoTo, CallPC, LegPC, Legs
<1>39. ASSUME NEW c \in ClientLegs, LegTerminated(c) PROVE TypeOK'
  BY <1>39 DEF LegTerminated, LegPC, Legs
<1>40. ASSUME NEW c \in ClientLegs, RespondClientLeg(c) PROVE TypeOK'
  BY <1>40 DEF RespondClientLeg, ServerPC, LegPC, Legs
<1>41. ASSUME NEW c \in ClientLegs, LegAwaitDone(c) PROVE TypeOK'
  BY <1>41 DEF LegAwaitDone, LegPC, Legs
<1>42. ASSUME NEW c \in ClientLegs, LegPanics(c) PROVE TypeOK'
  BY <1>42 DEF LegPanics, LegPC, Legs
<1>43. CASE UNCHANGED vars
  BY <1>43
<1>44. QED
  BY <1>1, <1>2, <1>3, <1>4, <1>5, <1>6, <1>7, <1>8, <1>9, <1>10, <1>11, <1>12, <1>13, <1>14, <1>15, <1>16, <1>17, <1>18, <1>19, <1>20, <1>21, <1>22, <1>23, <1>24, <1>25, <1>26, <1>27, <1>28, <1>29, <1>30, <1>31, <1>32, <1>33, <1>34, <1>35, <1>36, <1>37, <1>38, <1>39, <1>40, <1>41, <1>42, <1>43
     DEF Next, Step, SessionCall, ReadLoop, ServeServer, Handler, ServeClient

\* Every variable of the session keeps its type.
THEOREM TypeCorrect == Spec => []TypeOK
<1>1. Init => TypeOK
  BY TypeInit
<1>2. TypeOK /\ [Next]_vars => TypeOK'
  BY TypeStep
<1>3. QED
  BY <1>1, <1>2, PTL DEF Spec

-----------------------------------------------------------------------------
(* The invariant.                                                          *)

\* The invariant holds when the server leg arrives...
LEMMA InvInit == Init => IInv
<1> SUFFICES ASSUME Init PROVE IInv
  OBVIOUS
<1>1. TypeOK
  BY TypeInit
<1>2. \A t \in Threads : call[t] = "idle"
  BY DEF Init
<1>3. OneTerminator /\ LegChannel /\ CallProgress /\ DoneSettled
  BY <1>2 DEF Init, OneTerminator, LegChannel, CallProgress, DoneSettled,
              Terminating, Decided
<1>4. ServerProgress /\ Outcomes /\ Refused
  BY <1>2 DEF Init, ServerProgress, Early, Outcomes, Refused, Terminations,
              Terminating, Legs
<1>5. LegProgress
  BY LegsAssumption DEF Init, LegProgress, Legs
<1>6. Callers
  BY <1>2, ThreadNames DEF Init, Callers, Early, Legs
<1>7. Waker /\ Releases
  BY <1>2 DEF Init, Waker, Releases
<1>8. QED
  BY <1>1, <1>3, <1>4, <1>5, <1>6, <1>7 DEF IInv

\* ... and every step of every goroutine keeps it.
LEMMA InvStep == IInv /\ [Next]_vars => IInv'
<1> SUFFICES ASSUME IInv, [Next]_vars PROVE IInv'
  OBVIOUS
<1>0. TypeOK'
  BY TypeStep DEF IInv
<1> USE <1>0, ThreadNames, ThreadsDiffer, LegsAssumption
    DEF IInv, TypeOK, OneTerminator, LegChannel, CallProgress, DoneSettled,
        ServerProgress, Early, LegProgress, Callers, Waker,
       Releases, Outcomes, Refused, Terminations, Terminating,
        Decided, Settled, Legs, vars, sessionVars, connVars
<1>1. ASSUME NEW t \in Threads, TerminateLock(t) PROVE IInv'
  BY <1>1 DEF TerminateLock, GoTo
<1>2. ASSUME NEW t \in Threads, TerminateFinishServer(t) PROVE IInv'
  BY <1>2, ReasonType DEF TerminateFinishServer, GoTo, Finish
<1>3. ASSUME NEW t \in Threads, TerminateFinishClient(t) PROVE IInv'
  BY <1>3, ReasonType DEF TerminateFinishClient, GoTo, Finish
<1>4. ASSUME NEW t \in Threads, TerminateCheckLeg(t) PROVE IInv'
  BY <1>4 DEF TerminateCheckLeg, GoTo
<1>5. ASSUME NEW t \in Threads, TerminateCloseLeg(t) PROVE IInv'
  BY <1>5 DEF TerminateCloseLeg, GoTo, Close
<1>6. ASSUME NEW t \in Threads, SignalCheck(t) PROVE IInv'
  BY <1>6 DEF SignalCheck, GoTo
<1>7. ASSUME NEW t \in Threads, SignalClose(t) PROVE IInv'
  BY <1>7 DEF SignalClose, GoTo, Close
<1>8. ASSUME TimerFires PROVE IInv'
  BY <1>8 DEF TimerFires, GoTo
<1>9. ASSUME NEW x \in Legs, ReadFrame(x) PROVE IInv'
  BY <1>9 DEF ReadFrame
<1>10. ASSUME NEW x \in Legs, ReadHalfClose(x) PROVE IInv'
  BY <1>10 DEF ReadHalfClose
<1>11. ASSUME NEW x \in Legs, ReadAbort(x) PROVE IInv'
  BY <1>11 DEF ReadAbort
<1>12. ASSUME NEW x \in Legs, InvokeTerminate(x) PROVE IInv'
  BY <1>12 DEF InvokeTerminate, GoTo
<1>13. ASSUME NEW x \in Legs, ReadLoopExits(x) PROVE IInv'
  BY <1>13 DEF ReadLoopExits
<1>14. ASSUME ServerHeaders PROVE IInv'
  BY <1>14 DEF ServerHeaders
<1>15. ASSUME ServerHeadersFail PROVE IInv'
  BY <1>15 DEF ServerHeadersFail, Finish
<1>16. ASSUME CreateSession PROVE IInv'
  BY <1>16 DEF CreateSession
<1>17. ASSUME SetServerHook PROVE IInv'
  BY <1>17 DEF SetServerHook
<1>18. ASSUME RespondServerLeg PROVE IInv'
  BY <1>18 DEF RespondServerLeg
<1>19. ASSUME SelectClientLeg PROVE IInv'
  BY <1>19 DEF SelectClientLeg
<1>20. ASSUME SelectContextDone PROVE IInv'
  BY <1>20 DEF SelectContextDone, GoTo
<1>21. ASSUME ServerTerminated PROVE IInv'
  BY <1>21 DEF ServerTerminated
<1>22. ASSUME ReadClientConn PROVE IInv'
  BY <1>22 DEF ReadClientConn
<1>23. ASSUME ServerAwaitDone PROVE IInv'
  BY <1>23 DEF ServerAwaitDone
<1>24. ASSUME FinishServerConn PROVE IInv'
  BY <1>24 DEF FinishServerConn, Finish
<1>25. ASSUME FinishClientConn PROVE IInv'
  BY <1>25 DEF FinishClientConn, FinishClient, GoTo, Finish
<1>26. ASSUME ServerSignalled PROVE IInv'
  BY <1>26 DEF ServerSignalled
<1>27. ASSUME RemoveSession PROVE IInv'
  BY <1>27 DEF RemoveSession
<1>28. ASSUME ServerPanics PROVE IInv'
  BY <1>28 DEF ServerPanics
<1>29. ASSUME HandlerSend PROVE IInv'
  BY <1>29 DEF HandlerSend
<1>30. ASSUME HandlerSent PROVE IInv'
  BY <1>30 DEF HandlerSent
<1>31. ASSUME HandlerReceives PROVE IInv'
  BY <1>31 DEF HandlerReceives
<1>32. ASSUME NEW o \in {"ok", "handlerError"}, HandlerReturns(o) PROVE IInv'
  BY <1>32 DEF HandlerReturns
<1>33. ASSUME HandlerPanic PROVE IInv'
  BY <1>33 DEF HandlerPanic
<1>34. ASSUME NEW c \in ClientLegs, LookupSession(c) PROVE IInv'
  BY <1>34 DEF LookupSession
<1>35. ASSUME NEW c \in ClientLegs, AttachClient(c) PROVE IInv'
  BY <1>35 DEF AttachClient, JoinSession, Close
<1>36. ASSUME NEW c \in ClientLegs, AttachRefused(c) PROVE IInv'
  BY <1>36 DEF AttachRefused
<1>37. ASSUME NEW c \in ClientLegs, LegHeaders(c) PROVE IInv'
  BY <1>37 DEF LegHeaders
<1>38. ASSUME NEW c \in ClientLegs, LegHeadersFail(c) PROVE IInv'
  BY <1>38 DEF LegHeadersFail, GoTo
<1>39. ASSUME NEW c \in ClientLegs, LegTerminated(c) PROVE IInv'
  BY <1>39 DEF LegTerminated
<1>40. ASSUME NEW c \in ClientLegs, RespondClientLeg(c) PROVE IInv'
  BY <1>40 DEF RespondClientLeg
<1>41. ASSUME NEW c \in ClientLegs, LegAwaitDone(c) PROVE IInv'
  BY <1>41 DEF LegAwaitDone
<1>42. ASSUME NEW c \in ClientLegs, LegPanics(c) PROVE IInv'
  BY <1>42 DEF LegPanics
<1>43. CASE UNCHANGED vars
  BY <1>43
<1>44. QED
  BY <1>1, <1>2, <1>3, <1>4, <1>5, <1>6, <1>7, <1>8, <1>9, <1>10, <1>11, <1>12, <1>13, <1>14, <1>15, <1>16, <1>17, <1>18, <1>19, <1>20, <1>21, <1>22, <1>23, <1>24, <1>25, <1>26, <1>27, <1>28, <1>29, <1>30, <1>31, <1>32, <1>33, <1>34, <1>35, <1>36, <1>37, <1>38, <1>39, <1>40, <1>41, <1>42, <1>43
     DEF Next, Step, SessionCall, ReadLoop, ServeServer, Handler, ServeClient

\* TRAILERS are written once, to the legs of the session only.
LEMMA Writers ==
  ASSUME IInv, Next, NEW x \in Legs, status'[x] # status[x]
  PROVE  status[x] = "none" /\ x \in {Server, clientConn}
<1> USE DEF Finish
<1>1. captured \in {NoLeg, clientConn}
  BY DEF IInv, OneTerminator
<1>2. status \in [Legs -> Statuses]
  BY DEF IInv, TypeOK
<1>3. ASSUME NEW t \in Threads, SessionCall(t)
      PROVE  status[x] = "none" /\ x \in {Server, clientConn}
  BY <1>1, <1>2, <1>3
     DEF SessionCall, TerminateLock, TerminateFinishServer,
         TerminateFinishClient, TerminateCheckLeg, TerminateCloseLeg,
         SignalCheck, SignalClose, connVars
<1>4. CASE ServeServer \/ ServerHeadersFail \/ SelectContextDone
  BY <1>2, <1>4
     DEF ServeServer, ServerHeaders, ServerHeadersFail, CreateSession,
         SetServerHook, RespondServerLeg, SelectClientLeg, SelectContextDone,
         ServerTerminated, ReadClientConn, ServerAwaitDone, FinishServerConn,
         FinishClientConn, FinishClient, ServerSignalled, RemoveSession, ServerPanics,
         connVars
<1>5. CASE Handler
  BY <1>5 DEF Handler, HandlerSend, HandlerSent, HandlerReceives,
              HandlerReturns, HandlerPanic, connVars
<1>6. ASSUME NEW y \in Legs, ReadLoop(y) PROVE UNCHANGED status
  BY <1>6 DEF ReadLoop, ReadFrame, ReadHalfClose, ReadAbort,
              InvokeTerminate, ReadLoopExits, connVars
<1>7. ASSUME NEW c \in ClientLegs,
             LookupSession(c) \/ ServeClient(c) \/ LegHeadersFail(c)
      PROVE  UNCHANGED status
  BY <1>7 DEF LookupSession, ServeClient, LegHeadersFail, AttachClient,
              JoinSession, AttachRefused, LegHeaders, LegTerminated, RespondClientLeg,
              LegAwaitDone, LegPanics, connVars
<1>8. CASE TimerFires
  BY <1>8 DEF TimerFires, connVars
<1>9. CASE UNCHANGED vars
  BY <1>9 DEF vars, connVars
<1>10. QED
  BY <1>3, <1>4, <1>5, <1>6, <1>7, <1>8, <1>9 DEF Next, Step

\* IInv is an invariant of the session.
LEMMA Invariance == Spec => []IInv
<1>1. QED
  BY InvInit, InvStep, PTL DEF Spec

-----------------------------------------------------------------------------
(* The theorems.                                                           *)

\* attachClient and terminate never both close clientLeg, nor does either
\* twice.
THEOREM ClosesClientLegOnce == Spec => []ClientLegClosedOnce
<1>1. IInv => ClientLegClosedOnce
  BY DEF IInv, LegChannel, ClientLegClosedOnce
<1>2. QED
  BY <1>1, Invariance, PTL

\* When done is closed, the legs have their TRAILERS.
THEOREM SettlesBeforeRelease == Spec => []SettledBeforeReleased
<1>1. IInv => SettledBeforeReleased
  BY DEF IInv, DoneSettled, Settled, SettledBeforeReleased
<1>2. QED
  BY <1>1, Invariance, PTL

\* Each leg of a released session reports the handler's outcome or the one
\* reason for which the session was terminated; without a terminate, both
\* report the handler's.
THEOREM AccountsForOutcomes == Spec => []OutcomesAccounted
<1>1. IInv => OutcomesAccounted
  <2> SUFFICES ASSUME IInv, done # "open" PROVE OutcomesAccounted
    BY DEF OutcomesAccounted
  <2> DEFINE Joined == {Server, clientConn} \ {NoLeg}
  <2>1. Joined \subseteq Legs
    BY LegsAssumption DEF IInv, TypeOK, Legs
  <2>2. terminated \/ clientConn # NoLeg
    BY DEF IInv, DoneSettled, Decided
  <2>3. \A x \in Joined : status[x] # "none"
    BY LegsAssumption DEF IInv, DoneSettled, Settled
  <2>4. \A x \in Joined : status[x] = result \/ status[x] \in Terminations
    BY <2>1, <2>3 DEF IInv, Outcomes
  <2>5. \A x \in Legs : status[x] \in Terminations => terminated
    BY <2>2 DEF IInv, TypeOK, Outcomes, LegProgress
  <2>6. PICK reason \in Terminations :
          \A x \in Legs : status[x] \in Terminations => status[x] = reason
    BY DEF IInv, Outcomes, Terminations
  <2>7. QED
    BY <2>1, <2>2, <2>3, <2>4, <2>5, <2>6 DEF OutcomesAccounted
<1>2. QED
  BY <1>1, Invariance, PTL

\* A server leg that waits in its select is going to be woken.
THEOREM WakesServerLeg == Spec => []WaitingLegHasWaker
<1>1. IInv => WaitingLegHasWaker
  BY DEF IInv, Waker, WaitingLegHasWaker
<1>2. QED
  BY <1>1, Invariance, PTL

\* If handlers do not panic, the server leg leaves no client leg behind.
THEOREM AbandonsNoLeg ==
  ASSUME ~HandlerPanics
  PROVE  Spec => []LegNotAbandoned
<1>1. IInv => LegNotAbandoned
  <2> SUFFICES ASSUME IInv, ServerReturned, clientConn # NoLeg
               PROVE  done # "open"
    BY DEF LegNotAbandoned
  <2>1. clientConn \in ClientLegs
    BY DEF IInv, TypeOK
  <2>2. response[Server] = "accepted"
    BY <2>1 DEF IInv, LegProgress
  <2>3. QED
    BY <2>2 DEF IInv, Releases, ServerReturned
<1>2. QED
  BY <1>1, Invariance, PTL

\* If handlers do not panic, nobody writes TRAILERS to a leg whose ServeHTTP
\* has returned: by then it has them.
THEOREM WritesBeforeReturn ==
  ASSUME ~HandlerPanics
  PROVE  Spec => NoWriteAfterReturn
<1> DEFINE Quiet ==
      \A x \in Legs : status'[x] # status[x] => ~Returned(x)
<1>1. IInv => (ServerReturned => status[Server] # "none")
  BY DEF IInv, ServerProgress, ServerReturned
<1>2. IInv => \A c \in ClientLegs :
                clientConn = c /\ Returned(c) => status[c] # "none"
  BY LegsAssumption DEF IInv, LegProgress, Returned
<1>3. ASSUME IInv, Next PROVE Quiet
  <2> SUFFICES ASSUME NEW x \in Legs, status'[x] # status[x]
               PROVE  ~Returned(x)
    OBVIOUS
  <2>1. status[x] = "none" /\ x \in {Server, clientConn}
    BY <1>3, Writers
  <2>2. CASE x = Server
    BY <1>1, <1>3, <2>1, <2>2 DEF Returned
  <2>3. CASE x = clientConn /\ x # Server
    BY <1>2, <1>3, <2>1, <2>3 DEF Legs
  <2>4. QED
    BY <2>1, <2>2, <2>3
<1>4. QED
  <2>1. IInv /\ [Next]_vars => [Quiet]_vars
    BY <1>3
  <2>2. QED
    BY <2>1, Invariance, PTL DEF Spec, NoWriteAfterReturn

-----------------------------------------------------------------------------
(* BidiSession implements BidiJoin.                                        *)

\* A new session maps to a new abstract session.
LEMMA JoinInit == Init => Abstract!Init
BY DEF Init, Abstract!Init, Abstract!Legs, Legs

\* finishLocked on a leg of the session gives it an outcome, if it has none.
LEMMA FinishSettles ==
  ASSUME IInv, NEW x \in Legs, NEW o \in Statuses \ {"none"}, Finish(x, o),
         x \in {Server, clientConn}, o = "ok" => clientConn # NoLeg,
         UNCHANGED <<clientConn, done>>
  PROVE  [Abstract!Next]_(Abstract!vars)
<1>1. CASE status[x] = "none"
  <2>1. Abstract!Settle(x, o)
    BY <1>1, LegsAssumption
       DEF Abstract!Settle, Abstract!Joined, Finish, Legs
  <2>2. x \in Abstract!Legs /\ o \in Abstract!Outcomes \ {"none"}
    BY DEF Abstract!Legs, Legs, Abstract!Outcomes, Abstract!Failures, Statuses
  <2>3. QED
    BY <2>1, <2>2 DEF Abstract!Next
<1>2. CASE status[x] # "none"
  BY <1>2 DEF Finish, Abstract!vars
<1>3. QED
  BY <1>1, <1>2

\* Every step maps to a step of the abstract session or to a stutter.
LEMMA JoinStep == IInv /\ [Next]_vars => [Abstract!Next]_(Abstract!vars)
<1> SUFFICES ASSUME IInv, [Next]_vars
             PROVE  [Abstract!Next]_(Abstract!vars)
  OBVIOUS
<1> USE DEF connVars, sessionVars
<1>1. TypeOK
  BY DEF IInv
<1>2. ASSUME NEW t \in Threads, TerminateFinishServer(t)
      PROVE  [Abstract!Next]_(Abstract!vars)
  BY <1>2, ReasonType, FinishSettles DEF TerminateFinishServer, Legs
<1>3. ASSUME NEW t \in Threads, TerminateFinishClient(t)
      PROVE  [Abstract!Next]_(Abstract!vars)
  <2>1. CASE captured = NoLeg
    BY <1>3, <2>1 DEF TerminateFinishClient, Abstract!vars
  <2>2. CASE captured # NoLeg
    <3>1. captured = clientConn /\ captured \in Legs
      BY <1>1, <2>2 DEF IInv, OneTerminator, TypeOK, Legs
    <3>2. QED
      BY <1>3, <2>2, <3>1, ReasonType, FinishSettles
         DEF TerminateFinishClient
  <2>3. QED
    BY <2>1, <2>2
<1>4. CASE ServerHeadersFail
  BY <1>4, FinishSettles DEF ServerHeadersFail, Statuses, Legs
<1>5. ASSUME srv \in {"finishServer", "finishClient"}
      PROVE  /\ result \in Statuses \ {"none"}
             /\ clientConn # NoLeg /\ clientConn \in Legs
  BY <1>1, <1>5 DEF IInv, TypeOK, ServerProgress, Statuses, Legs
<1>6. CASE FinishServerConn
  BY <1>5, <1>6, FinishSettles DEF FinishServerConn, Legs
<1>7. CASE FinishClientConn
  BY <1>5, <1>7, FinishSettles DEF FinishClientConn, FinishClient
<1>8. ASSUME NEW c \in ClientLegs, AttachClient(c)
      PROVE  [Abstract!Next]_(Abstract!vars)
  <2>1. response[Server] = "accepted" /\ ~Decided
    BY <1>8 DEF AttachClient, JoinSession, IInv, LegProgress, Decided
  <2>2. done = "open" /\ status[Server] = "none"
    BY <2>1 DEF IInv, DoneSettled, ServerProgress
  <2>3. Abstract!Join(c)
    BY <1>8, <2>2 DEF AttachClient, JoinSession, Abstract!Join
  <2>4. QED
    BY <2>3 DEF Abstract!Next
<1>9. ASSUME NEW t \in Threads, SignalClose(t)
      PROVE  [Abstract!Next]_(Abstract!vars)
  <2>1. CASE done = "open"
    <3>1. Settled
      BY <1>9 DEF SignalClose, IInv, CallProgress
    <3>2. Abstract!Release
      BY <1>9, <2>1, <3>1
         DEF SignalClose, Close, Settled, Abstract!Release, Abstract!Joined
    <3>3. QED
      BY <3>2 DEF Abstract!Next
  <2>2. CASE done # "open"
    BY <1>9, <2>2 DEF SignalClose, Close, Abstract!vars
  <2>3. QED
    BY <2>1, <2>2
<1>10. ASSUME NEW t \in Threads,
              \/ TerminateLock(t)
              \/ TerminateCheckLeg(t)
              \/ TerminateCloseLeg(t)
              \/ SignalCheck(t)
       PROVE  UNCHANGED Abstract!vars
  BY <1>10 DEF TerminateLock, TerminateCheckLeg, TerminateCloseLeg,
               SignalCheck, Abstract!vars
<1>11. CASE \/ ServerHeaders \/ CreateSession \/ SetServerHook
            \/ RespondServerLeg \/ SelectClientLeg \/ SelectContextDone
            \/ ServerTerminated \/ ReadClientConn \/ ServerAwaitDone
            \/ ServerSignalled \/ RemoveSession \/ ServerPanics
            \/ Handler \/ TimerFires
  BY <1>11
     DEF ServerHeaders, CreateSession, SetServerHook, RespondServerLeg,
         SelectClientLeg, SelectContextDone, ServerTerminated, ReadClientConn,
         ServerAwaitDone, ServerSignalled, RemoveSession, ServerPanics,
         Handler, HandlerSend, HandlerSent, HandlerReceives, HandlerReturns,
         HandlerPanic, TimerFires, Abstract!vars
<1>12. ASSUME NEW x \in Legs, ReadLoop(x) PROVE UNCHANGED Abstract!vars
  BY <1>12 DEF ReadLoop, ReadFrame, ReadHalfClose, ReadAbort,
               InvokeTerminate, ReadLoopExits, Abstract!vars
<1>13. ASSUME NEW c \in ClientLegs,
              \/ LookupSession(c) \/ AttachRefused(c) \/ LegHeaders(c)
              \/ LegHeadersFail(c) \/ LegTerminated(c) \/ RespondClientLeg(c)
              \/ LegAwaitDone(c) \/ LegPanics(c)
       PROVE  UNCHANGED Abstract!vars
  BY <1>13 DEF LookupSession, AttachRefused, LegHeaders, LegHeadersFail,
               LegTerminated, RespondClientLeg, LegAwaitDone, LegPanics,
               Abstract!vars
<1>14. CASE UNCHANGED vars
  BY <1>14 DEF vars, Abstract!vars
<1>15. QED
  BY <1>2, <1>3, <1>4, <1>6, <1>7, <1>8, <1>9, <1>10, <1>11, <1>12, <1>13,
     <1>14
     DEF Next, Step, SessionCall, ServeServer, ServeClient

\* Whatever the goroutines of bidi.go do, in whatever order, is a behaviour
\* of the abstract session.
THEOREM Implementation == Spec => ImplementsJoin
<1>1. QED
  BY JoinInit, JoinStep, Invariance, PTL DEF Spec, ImplementsJoin, Abstract!Spec

=============================================================================
