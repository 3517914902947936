-------------------------- MODULE HttpServer_proofs --------------------------
(***************************************************************************)
(* HttpServer's types, that the dispatcher stops the applications only     *)
(* behind the last request, that no object is used after its delete, and   *)
(* what a shutdown leaves behind, for any number of connections, requests, *)
(* handlers and applications.                                              *)
(***************************************************************************)
EXTENDS HttpServer, CommonLemmas, TLAPS

Done == {h \in Handlers : handler[h].at = "done"}

N == Cardinality(Handlers)

(***************************************************************************)
(* The inductive invariant.  DispatcherStopsLast rests on three facts: the *)
(* stops the dispatcher has counted and those on their way to it are as    *)
(* many as the handlers that are done (StopsAccounted), it goes on to stop *)
(* the applications with the N-th (StopsCounted), and when all handlers    *)
(* are done a stop is the last in its queue (StopBehind).                  *)
(***************************************************************************)
StopsAccounted ==
  Cardinality(Done)
    = dispatcher.stops + Cardinality(Positions(Stop, dispatcherQueue))

StopsCounted ==
  /\ dispatcher.at \in {"unstarted", "take"} => dispatcher.stops < N
  /\ dispatcher.at \in {"stop", "done"} => dispatcher.stops = N

StopBehind ==
  Done = Handlers /\ dispatcherQueue # <<>> =>
    dispatcherQueue[Len(dispatcherQueue)] = Stop

\* What a thread's location says of the rest of its state.
Locations ==
  /\ main.at \in {"startApps", "open", "listen", "startThreads"} =>
       /\ \A h \in Handlers : handler[h].at = "unstarted"
       /\ dispatcher.at = "unstarted"
  /\ main.at \in {"startApps", "open", "listen", "startThreads", "accept",
                  "sendStops"} => main.stops < N + 2
  /\ \A h \in Handlers :
       handler[h].at \in {"parse", "check"} => handler[h].conn \in Connections

IInv == TypeOK /\ StopsAccounted /\ StopsCounted /\ StopBehind /\ Locations

\* A request is not the stop condition.
LEMMA RequestIsNotStop == \A r \in Requests : r # Stop
BY RequestsAssumption DEF Requests

\* The handlers that are done can be counted.
LEMMA DoneFinite ==
  /\ N \in Nat \ {0}
  /\ IsFiniteSet(Done)
  /\ Cardinality(Done) \in 0..N
  /\ Cardinality(Done) = N => Done = Handlers
<1>1. Done \in SUBSET Handlers
  BY DEF Done
<1>2. Handlers # {} => Cardinality(Handlers) # 0
  BY HandlersAssumption, FS_EmptySet
<1> QED
  BY <1>1, <1>2, HandlersAssumption, FS_Subset, FS_CardinalityType DEF N

\* A server about to start satisfies the invariant.
LEMMA InitIInv == Init => IInv
<1> SUFFICES ASSUME Init  PROVE IInv
  OBVIOUS
<1>1. Done = {} /\ Cardinality(Done) = 0
  BY FS_EmptySet DEF Init, Done
<1>2. Positions(Stop, dispatcherQueue) = {}
  BY DEF Init, Positions
<1>3. Cardinality(Positions(Stop, dispatcherQueue)) = 0
  BY <1>2, FS_EmptySet
<1>4. TypeOK
  <2>1. /\ 0 \in 0..(Cardinality(Handlers) + 2)
        /\ 0 \in 0..Cardinality(Handlers)
        /\ made \in [Connections -> 0..MaxRequests]
    BY DoneFinite, RequestsAssumption DEF Init, N
  <2>2. handler \in [Handlers -> HandlerStates]
    BY DEF Init, HandlerStates
  <2>3. /\ route \in [Requests -> Routes]
        /\ inbox \in [Apps -> Seq(Requests \cup {Stop})]
        /\ phase \in [Apps -> {"open", "closed", "draining", "finished"}]
        /\ held \in [Apps -> SUBSET Requests]
        /\ replies \in [Requests -> Nat]
    BY DEF Init, Routes
  <2> QED
    <3>1. main \in MainStates
      BY <2>1 DEF Init, MainStates
    <3>2. dispatcher \in DispatcherStates
      BY <2>1 DEF Init, DispatcherStates
    <3>3. /\ serverQueue \in Seq(Connections \cup {Stop})
          /\ dispatcherQueue \in Seq(Requests \cup {Stop})
      BY DEF Init
    <3>4. /\ listener = "none" /\ stopCalled = FALSE /\ accepted = {}
          /\ requestObjs = {} /\ responseObjs = {} /\ heapSound = TRUE
          /\ closed = {}
      BY DEF Init
    <3> QED  BY <2>1, <2>2, <2>3, <3>1, <3>2, <3>3, <3>4 DEF TypeOK
<1>5. StopsAccounted
  BY <1>1, <1>3 DEF Init, StopsAccounted
<1>6. StopsCounted /\ StopBehind /\ Locations
  BY DoneFinite DEF Init, StopsCounted, StopBehind, Locations
<1> QED
  BY <1>4, <1>5, <1>6 DEF IInv

-----------------------------------------------------------------------------
(* Types                                                                   *)

\* Every location is in the type of its thread.
LEMMA MainMove ==
  ASSUME TypeOK,
         NEW location \in {"open", "listen", "startThreads", "accept", "sendStops",
                           "joinHandlers", "joinDispatcher", "stopApps", "done",
                           "aborted"},
         MainGoto(location)
  PROVE  main' \in MainStates
BY DEF TypeOK, MainGoto, MainStates

\* A handler's new state leaves the others as they are.
LEMMA HandlerMove ==
  ASSUME TypeOK, NEW h \in Handlers, NEW state, state \in HandlerStates,
         handler' = [handler EXCEPT ![h] = state]
  PROVE  handler' \in [Handlers -> HandlerStates]
BY DEF TypeOK

\* A handler that changes its location only is still a handler.
LEMMA HandlerGoto ==
  ASSUME TypeOK, NEW h \in Handlers,
         NEW location \in {"take", "parse", "check", "stop", "done"},
         handler' = [handler EXCEPT ![h].at = location]
  PROVE  handler' \in [Handlers -> HandlerStates]
<1>1. [handler[h] EXCEPT !.at = location] \in HandlerStates
  <2> DEFINE s == handler[h]
  <2>1. s \in HandlerStates
    BY DEF TypeOK
  <2> HIDE DEF s
  <2>2. [s EXCEPT !.at = location] \in HandlerStates
    BY <2>1 DEF HandlerStates
  <2> QED
    BY <2>2 DEF s
<1> QED
  BY <1>1, HandlerMove

\* Every step keeps the variables in their types.
LEMMA TypeStep ==
  ASSUME IInv, Next
  PROVE  TypeOK'
<1> USE DEF IInv, TypeOK
<1> USE DEF mainVars, readVars, appVars, heapVars, clientVars
<1>1. CASE SignalStop
  BY <1>1 DEF SignalStop
<1>2. CASE StartApps
  BY <1>2, MainMove DEF StartApps
<1>3. CASE OpenSocket
  BY <1>3, MainMove DEF OpenSocket
<1>4. CASE Listen
  BY <1>4, MainMove DEF Listen
<1>5. CASE StartThreads
  <2>1. handler' \in [Handlers -> HandlerStates]
    <3>1. \A s \in HandlerStates : [s EXCEPT !.at = "take"] \in HandlerStates
      BY DEF HandlerStates
    <3>2. handler \in [Handlers -> HandlerStates]
      OBVIOUS
    <3> QED
      BY <1>5, <3>1, <3>2 DEF StartThreads
  <2>2. dispatcher' \in DispatcherStates
    BY <1>5 DEF StartThreads, DispatcherStates
  <2> QED
    BY <1>5, <2>1, <2>2, MainMove DEF StartThreads
<1>6. CASE \E c \in Connections : Accept(c)
  BY <1>6 DEF Accept
<1>7. CASE AcceptFails
  BY <1>7, MainMove DEF AcceptFails
<1>8. CASE SendStop
  <2>1. main' \in MainStates
    BY <1>8, DoneFinite DEF SendStop, Locations, MainStates, N
  <2> QED
    BY <1>8, <2>1 DEF SendStop
<1>9. CASE JoinHandlers
  BY <1>9, MainMove DEF JoinHandlers
<1>10. CASE JoinDispatcher
  BY <1>10, MainMove DEF JoinDispatcher
<1>11. CASE \E a \in Apps : StopApp(a)
  BY <1>11 DEF StopApp
<1>12. CASE RunReturns
  BY <1>12, MainMove DEF RunReturns
<1>13. ASSUME NEW h \in Handlers, HandlerTake(h)  PROVE TypeOK'
  <2>1. Head(serverQueue) \in Connections \cup {Stop}
    BY <1>13 DEF HandlerTake
  <2>2. [at |-> IF Head(serverQueue) = Stop THEN "stop" ELSE "parse",
         conn |-> Head(serverQueue)] \in HandlerStates
    BY <2>1 DEF HandlerStates, NoConnection
  <2>3. handler' \in [Handlers -> HandlerStates]
    BY <1>13, <2>2, HandlerMove DEF HandlerTake
  <2>4. serverQueue' \in Seq(Connections \cup {Stop})
    BY <1>13 DEF HandlerTake
  <2> QED
    BY <1>13, <2>3, <2>4 DEF HandlerTake
<1>14. ASSUME NEW h \in Handlers, NEW key \in Routes, HandlerParse(h, key)
       PROVE TypeOK'
  <2> DEFINE c == handler[h].conn
             r == <<c, made[c] + 1>>
  <2>1. c \in Connections /\ made[c] + 1 \in 0..MaxRequests /\ r \in Requests
    BY <1>14, RequestsAssumption DEF HandlerParse, Locations, Requests
  <2>2. /\ made' = [made EXCEPT ![c] = @ + 1]
        /\ route' = [route EXCEPT ![r] = key]
        /\ requestObjs' = requestObjs \cup {r}
        /\ responseObjs' = responseObjs \cup {r}
        /\ dispatcherQueue' = Append(dispatcherQueue, r)
        /\ handler' = [handler EXCEPT ![h].at = "check"]
    BY <1>14 DEF HandlerParse
  <2> HIDE DEF c, r
  <2>3. /\ made' \in [Connections -> 0..MaxRequests]
        /\ route' \in [Requests -> Routes]
        /\ requestObjs' \subseteq Requests /\ responseObjs' \subseteq Requests
        /\ dispatcherQueue' \in Seq(Requests \cup {Stop})
    BY <2>1, <2>2
  <2>4. handler' \in [Handlers -> HandlerStates]
    BY <2>2, HandlerGoto
  <2> QED
    BY <1>14, <2>3, <2>4 DEF HandlerParse
<1>15. ASSUME NEW h \in Handlers, HandlerParseFails(h)  PROVE TypeOK'
  <2>1. [at |-> "take", conn |-> NoConnection] \in HandlerStates
    BY DEF HandlerStates
  <2>2. handler' \in [Handlers -> HandlerStates]
    BY <1>15, <2>1, HandlerMove DEF HandlerParseFails
  <2> QED
    BY <1>15, <2>2 DEF HandlerParseFails
<1>16. ASSUME NEW h \in Handlers, HandlerCheckVersion(h)  PROVE TypeOK'
  <2> DEFINE r == Current(h)
  <2>1. handler[h].conn \in Connections
    BY <1>16 DEF HandlerCheckVersion, Locations
  <2>2. \/ handler' = [handler EXCEPT ![h] = [at |-> "take", conn |-> NoConnection]]
        \/ handler' = [handler EXCEPT ![h].at = "parse"]
    BY <1>16 DEF HandlerCheckVersion
  <2>3. handler' \in [Handlers -> HandlerStates]
    <3>1. [at |-> "take", conn |-> NoConnection] \in HandlerStates
      BY DEF HandlerStates
    <3> QED  BY <2>2, <3>1, HandlerMove, HandlerGoto
  <2>4. \/ /\ heapSound' = (r \in requestObjs /\ r \in responseObjs)
           /\ requestObjs' = requestObjs \ {r}
           /\ responseObjs' = responseObjs \ {r}
           /\ closed' = closed \cup {handler[h].conn}
        \/ UNCHANGED <<heapSound, requestObjs, responseObjs, closed>>
    BY <1>16 DEF HandlerCheckVersion
  <2> HIDE DEF r
  <2>5. /\ heapSound' \in BOOLEAN
        /\ requestObjs' \subseteq Requests /\ responseObjs' \subseteq Requests
        /\ closed' \subseteq Connections
    BY <2>1, <2>4
  <2>6. UNCHANGED <<main, listener, stopCalled, accepted, serverQueue, made,
                    route, dispatcherQueue, dispatcher, inbox, phase, held,
                    replies>>
    BY <1>16 DEF HandlerCheckVersion
  <2> QED
    BY <2>3, <2>5, <2>6
<1>17. ASSUME NEW h \in Handlers, HandlerStop(h)  PROVE TypeOK'
  <2>1. handler' \in [Handlers -> HandlerStates]
    BY <1>17, HandlerGoto DEF HandlerStop
  <2>2. dispatcherQueue' \in Seq(Requests \cup {Stop})
    BY <1>17 DEF HandlerStop
  <2> QED
    BY <1>17, <2>1, <2>2 DEF HandlerStop
<1>18. ASSUME NEW r \in Requests, DispatcherRedirect(r)  PROVE TypeOK'
  BY <1>18 DEF DispatcherRedirect, DispatcherHead
<1>19. ASSUME NEW r \in Requests, DispatcherServeNotFound(r)  PROVE TypeOK'
  BY <1>19 DEF DispatcherServeNotFound, DispatcherHead, Answered
<1>20. CASE DispatcherCountStop
  <2>1. dispatcher' \in DispatcherStates
    BY <1>20, DoneFinite
       DEF DispatcherCountStop, DispatcherHead, StopsCounted, DispatcherStates, N
  <2> QED
    BY <1>20, <2>1 DEF DispatcherCountStop, DispatcherHead
<1>21. ASSUME NEW a \in Apps, DispatcherStopApp(a)  PROVE TypeOK'
  BY <1>21 DEF DispatcherStopApp
<1>22. CASE DispatcherReturns
  <2>1. dispatcher' \in DispatcherStates
    BY <1>22 DEF DispatcherReturns, DispatcherStates
  <2> QED
    BY <1>22, <2>1 DEF DispatcherReturns
<1>23. ASSUME NEW a \in Apps, AppTake(a)  PROVE TypeOK'
  BY <1>23 DEF AppTake
<1>24. ASSUME NEW a \in Apps, NEW r \in Requests, AppAnswer(a, r)  PROVE TypeOK'
  BY <1>24 DEF AppAnswer, Answered
<1>25. ASSUME NEW a \in Apps, AppDrain(a)  PROVE TypeOK'
  BY <1>25 DEF AppDrain
<1> QED
  BY <1>1, <1>2, <1>3, <1>4, <1>5, <1>6, <1>7, <1>8, <1>9, <1>10, <1>11, <1>12,
     <1>13, <1>14, <1>15, <1>16, <1>17, <1>18, <1>19, <1>20, <1>21, <1>22,
     <1>23, <1>24, <1>25
     DEF Next, MainSteps, HandlerSteps, DispatcherSteps

-----------------------------------------------------------------------------
(* Where the threads are                                                   *)

\* Every step keeps the locations of the threads consistent.
LEMMA LocationsStep ==
  ASSUME IInv, Next
  PROVE  Locations'
<1> USE DoneFinite
<1> USE DEF IInv, TypeOK, Locations, N, MainStates, HandlerStates, DispatcherStates
<1> USE DEF mainVars, readVars, appVars, heapVars, clientVars
<1>1. ASSUME UNCHANGED <<main, handler, dispatcher>>  PROVE Locations'
  BY <1>1
<1>2. CASE StartApps \/ OpenSocket \/ Listen \/ AcceptFails \/ JoinHandlers
           \/ JoinDispatcher \/ RunReturns
  BY <1>2 DEF StartApps, OpenSocket, Listen, AcceptFails, JoinHandlers,
              JoinDispatcher, RunReturns, MainGoto
<1>3. CASE StartThreads
  BY <1>3 DEF StartThreads, MainGoto
<1>4. CASE SendStop
  BY <1>4 DEF SendStop
<1>5. ASSUME NEW h \in Handlers, HandlerTake(h)  PROVE Locations'
  <2>1. Head(serverQueue) \in Connections \cup {Stop}
    BY <1>5 DEF HandlerTake
  <2> QED  BY <1>5, <2>1 DEF HandlerTake
<1>6. ASSUME NEW h \in Handlers, NEW key \in Routes, HandlerParse(h, key)
      PROVE Locations'
  <2>1. /\ handler[h].conn \in Connections
        /\ handler' = [handler EXCEPT ![h].at = "check"]
        /\ UNCHANGED <<main, dispatcher>>
        /\ handler[h].at # "unstarted"
    BY <1>6 DEF HandlerParse
  <2> QED
    BY <2>1
<1>7. ASSUME NEW h \in Handlers, HandlerParseFails(h)  PROVE Locations'
  BY <1>7 DEF HandlerParseFails
<1>8. ASSUME NEW h \in Handlers, HandlerCheckVersion(h)  PROVE Locations'
  <2>1. \/ handler' = [handler EXCEPT ![h] = [at |-> "take", conn |-> NoConnection]]
        \/ handler' = [handler EXCEPT ![h].at = "parse"]
    BY <1>8 DEF HandlerCheckVersion
  <2>2. /\ handler[h].conn \in Connections /\ handler[h].at # "unstarted"
        /\ UNCHANGED <<main, dispatcher>>
    BY <1>8 DEF HandlerCheckVersion
  <2>3. CASE handler' = [handler EXCEPT ![h] = [at |-> "take", conn |-> NoConnection]]
    BY <2>2, <2>3
  <2>4. CASE handler' = [handler EXCEPT ![h].at = "parse"]
    BY <2>2, <2>4
  <2> QED
    BY <2>1, <2>3, <2>4
<1>9. ASSUME NEW h \in Handlers, HandlerStop(h)  PROVE Locations'
  BY <1>9 DEF HandlerStop
<1>10. CASE DispatcherCountStop \/ DispatcherReturns
  BY <1>10 DEF DispatcherCountStop, DispatcherReturns, DispatcherHead
<1> QED
  BY <1>1, <1>2, <1>3, <1>4, <1>5, <1>6, <1>7, <1>8, <1>9, <1>10
     DEF Next, MainSteps, HandlerSteps, DispatcherSteps, SignalStop, Accept,
         StopApp, DispatcherRedirect, DispatcherServeNotFound,
         DispatcherStopApp, AppTake, AppAnswer, AppDrain

-----------------------------------------------------------------------------
(* The accounting of the stops                                             *)

\* A step that moves no handler to or from "done" and leaves the stops in and
\* out of the dispatcher's queue alone leaves the accounting alone.
LEMMA SameCounts ==
  ASSUME IInv, Done' = Done, dispatcher' = dispatcher,
         dispatcherQueue' = dispatcherQueue
  PROVE  StopsAccounted' /\ StopsCounted' /\ StopBehind'
BY DEF IInv, StopsAccounted, StopsCounted, StopBehind, Positions

\* The dispatcher takes a request from the head of its queue.
LEMMA TakeRequest ==
  ASSUME IInv, NEW r \in Requests, DispatcherHead(r),
         handler' = handler, dispatcher' = dispatcher
  PROVE  StopsAccounted' /\ StopsCounted' /\ StopBehind'
<1> DEFINE q == dispatcherQueue
<1>1. /\ q \in Seq(Requests \cup {Stop}) /\ q # <<>>
      /\ dispatcherQueue' = Tail(q) /\ Head(q) # Stop
  BY RequestIsNotStop DEF IInv, TypeOK, DispatcherHead
<1>2. Done' = Done
  BY DEF Done
<1>3. /\ Cardinality(Positions(Stop, q)) \in Nat
      /\ Cardinality(Positions(Stop, Tail(q))) \in Nat
      /\ Cardinality(Positions(Stop, q)) = Cardinality(Positions(Stop, Tail(q)))
  <2>1. Tail(q) \in Seq(Requests \cup {Stop})
    BY <1>1
  <2>2. /\ Cardinality(Positions(Stop, q)) \in Nat
        /\ Cardinality(Positions(Stop, Tail(q))) \in Nat
    BY <1>1, <2>1, CountType
  <2>3. Cardinality(Positions(Stop, q))
          = Cardinality(Positions(Stop, Tail(q))) + (IF Head(q) = Stop THEN 1 ELSE 0)
    BY <1>1, CountTail
  <2> QED
    BY <1>1, <2>2, <2>3
<1>4. Positions(Stop, dispatcherQueue)' = Positions(Stop, Tail(q))
  BY <1>1 DEF Positions
<1>5. StopsAccounted'
  BY <1>2, <1>3, <1>4 DEF IInv, StopsAccounted
<1>6. StopsCounted'
  BY DEF IInv, StopsCounted
<1>7. StopBehind'
  BY <1>1, <1>2 DEF IInv, StopBehind
<1> QED
  BY <1>5, <1>6, <1>7

\* A handler hands over a request: it is not done, so StopBehind asks nothing.
LEMMA HandOver ==
  ASSUME IInv, NEW h \in Handlers, NEW key \in Routes, HandlerParse(h, key)
  PROVE  StopsAccounted' /\ StopsCounted' /\ StopBehind'
<1> DEFINE q == dispatcherQueue
           c == handler[h].conn
           r == <<c, made[c] + 1>>
<1>1. /\ q \in Seq(Requests \cup {Stop}) /\ r \in Requests /\ r # Stop
      /\ dispatcherQueue' = Append(q, r)
  BY RequestIsNotStop, RequestsAssumption
     DEF IInv, TypeOK, HandlerParse, Locations, Requests
<1>2. Done' = Done /\ h \notin Done'
  BY DEF IInv, TypeOK, HandlerParse, Done
<1>3. dispatcher' = dispatcher
  BY DEF HandlerParse
<1> HIDE DEF c, r
<1>4. Cardinality(Positions(Stop, Append(q, r))) = Cardinality(Positions(Stop, q))
  <2>1. Cardinality(Positions(Stop, q)) \in Nat
    BY <1>1, CountType
  <2>2. Cardinality(Positions(Stop, Append(q, r)))
          = Cardinality(Positions(Stop, q)) + (IF r = Stop THEN 1 ELSE 0)
    BY <1>1, CountAppend
  <2> QED
    BY <1>1, <2>1, <2>2
<1>5. Positions(Stop, dispatcherQueue)' = Positions(Stop, Append(q, r))
  BY <1>1 DEF Positions
<1>6. StopsAccounted'
  BY <1>2, <1>3, <1>4, <1>5 DEF IInv, StopsAccounted
<1>7. StopsCounted' /\ StopBehind'
  BY <1>2, <1>3 DEF IInv, StopsCounted, StopBehind
<1> QED
  BY <1>6, <1>7

\* A handler sends its stop and is done.
LEMMA HandlerDone ==
  ASSUME IInv, NEW h \in Handlers, HandlerStop(h)
  PROVE  StopsAccounted' /\ StopsCounted' /\ StopBehind'
<1> DEFINE q == dispatcherQueue
<1>1. /\ q \in Seq(Requests \cup {Stop})
      /\ dispatcherQueue' = Append(q, Stop)
  BY DEF IInv, TypeOK, HandlerStop
<1>2. Done' = Done \cup {h} /\ h \notin Done
  BY DEF IInv, TypeOK, HandlerStop, Done
<1>3. dispatcher' = dispatcher /\ dispatcher.stops \in Nat
  BY DoneFinite DEF IInv, TypeOK, HandlerStates, DispatcherStates, HandlerStop, N
<1>4. Cardinality(Done') = Cardinality(Done) + 1 /\ Cardinality(Done) \in Nat
  BY <1>2, DoneFinite, FS_AddElement
<1>5. /\ Cardinality(Positions(Stop, q)) \in Nat
      /\ Cardinality(Positions(Stop, Append(q, Stop)))
           = Cardinality(Positions(Stop, q)) + 1
  <2>1. Cardinality(Positions(Stop, q)) \in Nat
    BY <1>1, CountType
  <2>2. Cardinality(Positions(Stop, Append(q, Stop)))
          = Cardinality(Positions(Stop, q)) + (IF Stop = Stop THEN 1 ELSE 0)
    BY <1>1, CountAppend
  <2> QED
    BY <2>1, <2>2
<1>6. Positions(Stop, dispatcherQueue)' = Positions(Stop, Append(q, Stop))
  BY <1>1 DEF Positions
<1>7. StopsAccounted'
  BY <1>3, <1>4, <1>5, <1>6 DEF IInv, StopsAccounted
<1>8. StopsCounted'
  BY <1>3 DEF IInv, StopsCounted
<1>9. StopBehind'
  BY <1>1 DEF StopBehind
<1> QED
  BY <1>7, <1>8, <1>9

\* The dispatcher counts a stop.
LEMMA StopCounted ==
  ASSUME IInv, DispatcherCountStop
  PROVE  StopsAccounted' /\ StopsCounted' /\ StopBehind'
<1> DEFINE q == dispatcherQueue
<1>1. /\ q \in Seq(Requests \cup {Stop}) /\ q # <<>> /\ Head(q) = Stop
      /\ dispatcherQueue' = Tail(q)
  BY DEF IInv, TypeOK, DispatcherCountStop, DispatcherHead
<1>2. Done' = Done /\ N' = N
  BY DEF DispatcherCountStop, Done, N
<1>3. /\ dispatcher.stops \in Nat /\ dispatcher.stops < N
      /\ dispatcher'.stops = dispatcher.stops + 1
      /\ dispatcher'.at = IF dispatcher.stops + 1 = N THEN "stop" ELSE "take"
  BY DoneFinite
     DEF IInv, TypeOK, HandlerStates, DispatcherStates, StopsCounted, DispatcherCountStop, DispatcherHead, N
<1>4. /\ Cardinality(Positions(Stop, Tail(q))) \in Nat
      /\ Cardinality(Positions(Stop, q)) = Cardinality(Positions(Stop, Tail(q))) + 1
  <2>1. Tail(q) \in Seq(Requests \cup {Stop})
    BY <1>1
  <2>2. Cardinality(Positions(Stop, Tail(q))) \in Nat
    BY <2>1, CountType
  <2>3. Cardinality(Positions(Stop, q))
          = Cardinality(Positions(Stop, Tail(q))) + (IF Head(q) = Stop THEN 1 ELSE 0)
    BY <1>1, CountTail
  <2> QED
    BY <1>1, <2>2, <2>3
<1>5. Positions(Stop, dispatcherQueue)' = Positions(Stop, Tail(q))
  BY <1>1 DEF Positions
<1>6. StopsAccounted'
  BY <1>2, <1>3, <1>4, <1>5 DEF IInv, StopsAccounted
<1>7. StopsCounted'
  BY <1>2, <1>3, DoneFinite DEF StopsCounted
<1>8. StopBehind'
  BY <1>1, <1>2 DEF IInv, StopBehind
<1> QED
  BY <1>6, <1>7, <1>8

\* Every step keeps the stops accounted for.
LEMMA AccountingStep ==
  ASSUME IInv, Next
  PROVE  StopsAccounted' /\ StopsCounted' /\ StopBehind'
<1> DEFINE Goal == StopsAccounted' /\ StopsCounted' /\ StopBehind'
<1>1. ASSUME UNCHANGED <<handler, dispatcher, dispatcherQueue>>  PROVE Goal
  BY <1>1, SameCounts DEF Done
<1>2. CASE StartThreads
  <2>1. /\ Done = {} /\ Done' = {} /\ dispatcherQueue' = dispatcherQueue
        /\ dispatcher.at = "unstarted" /\ dispatcher'.at = "take"
        /\ dispatcher'.stops = dispatcher.stops
    BY <1>2 DEF IInv, TypeOK, Locations, StartThreads, Done
  <2>2. StopsAccounted'
    BY <2>1 DEF IInv, StopsAccounted, Positions
  <2>3. StopsCounted'
    BY <2>1 DEF IInv, StopsCounted
  <2>4. StopBehind'
    BY <2>1 DEF IInv, StopBehind
  <2> QED  BY <2>2, <2>3, <2>4
<1>3. ASSUME NEW h \in Handlers, handler[h].at \in {"take", "parse", "check"},
             \A i \in Handlers \ {h} : handler'[i] = handler[i],
             handler'[h].at # "done",
             UNCHANGED <<dispatcher, dispatcherQueue>>
      PROVE  Goal
  <2>1. Done' = Done
    BY <1>3 DEF Done
  <2> QED  BY <1>3, <2>1, SameCounts
<1>4. ASSUME NEW h \in Handlers,
             HandlerTake(h) \/ HandlerParseFails(h) \/ HandlerCheckVersion(h)
      PROVE  Goal
  <2>1. \A i \in Handlers \ {h} : handler'[i] = handler[i]
    BY <1>4 DEF IInv, TypeOK, HandlerTake, HandlerParseFails, HandlerCheckVersion
  <2>2. handler'[h].at # "done"
    BY <1>4 DEF IInv, TypeOK, HandlerStates, DispatcherStates, HandlerTake, HandlerParseFails, HandlerCheckVersion
  <2>3. /\ handler[h].at \in {"take", "parse", "check"}
        /\ UNCHANGED <<dispatcher, dispatcherQueue>>
    BY <1>4 DEF HandlerTake, HandlerParseFails, HandlerCheckVersion
  <2> QED  BY <1>3, <2>1, <2>2, <2>3
<1>5. ASSUME NEW h \in Handlers, NEW key \in Routes, HandlerParse(h, key)
      PROVE  Goal
  BY <1>5, HandOver
<1>6. ASSUME NEW h \in Handlers, HandlerStop(h)  PROVE Goal
  BY <1>6, HandlerDone
<1>7. ASSUME NEW r \in Requests,
             DispatcherRedirect(r) \/ DispatcherServeNotFound(r)
      PROVE  Goal
  BY <1>7, TakeRequest DEF DispatcherRedirect, DispatcherServeNotFound
<1>8. CASE DispatcherCountStop
  BY <1>8, StopCounted
<1>9. CASE DispatcherReturns
  <2>1. /\ Done' = Done /\ dispatcherQueue' = dispatcherQueue
        /\ dispatcher'.stops = dispatcher.stops
        /\ dispatcher.at = "stop" /\ dispatcher'.at = "done"
    BY <1>9 DEF IInv, TypeOK, DispatcherReturns, Done
  <2>2. StopsAccounted'
    BY <2>1 DEF IInv, StopsAccounted, Positions
  <2>3. StopsCounted' /\ StopBehind'
    BY <2>1 DEF IInv, StopsCounted, StopBehind
  <2> QED  BY <2>2, <2>3
<1>10. CASE SignalStop \/ (\E c \in Connections : Accept(c)) \/ AcceptFails
            \/ (\E a \in Apps : \/ AppTake(a) \/ AppDrain(a)
                                \/ \E r \in Requests : AppAnswer(a, r))
  BY <1>1, <1>10 DEF SignalStop, Accept, AcceptFails, AppTake, AppAnswer, AppDrain
<1>11. CASE StartApps \/ OpenSocket \/ Listen \/ SendStop \/ JoinHandlers
            \/ JoinDispatcher \/ RunReturns
            \/ (\E a \in Apps : StopApp(a) \/ DispatcherStopApp(a))
  BY <1>1, <1>11 DEF StartApps, OpenSocket, Listen, SendStop, JoinHandlers,
                     JoinDispatcher, RunReturns, StopApp, DispatcherStopApp
<1> HIDE DEF Goal
<1> QED
  BY <1>2, <1>4, <1>5, <1>6, <1>7, <1>8, <1>9, <1>10, <1>11
     DEF Next, MainSteps, HandlerSteps, DispatcherSteps, Goal

-----------------------------------------------------------------------------
(* The theorems                                                            *)

\* Every step keeps the invariant.
LEMMA Inductive == IInv /\ [Next]_vars => IInv'
<1> SUFFICES ASSUME IInv, [Next]_vars  PROVE IInv'
  OBVIOUS
<1>1. CASE Next
  BY <1>1, TypeStep, LocationsStep, AccountingStep DEF IInv
<1>2. CASE UNCHANGED vars
  BY <1>2 DEF vars, IInv, TypeOK, StopsAccounted, StopsCounted, StopBehind,
              Locations, Done, Positions
<1> QED
  BY <1>1, <1>2

\* Every reachable state satisfies the inductive invariant.
LEMMA Invariance == SafeSpec => []IInv
BY InitIInv, Inductive, PTL DEF SafeSpec

\* Every value stays in its type; that of main.stops and dispatcher.stops says
\* that run() sends no more stops than max_connection + 2 and that the
\* dispatcher counts no more than one per handler.
THEOREM TypeCorrect == SafeSpec => []TypeOK
<1>1. IInv => TypeOK
  BY DEF IInv
<1> QED
  BY <1>1, Invariance, PTL

\* HttpDispatcher::run() stops the applications when every handler has finished
\* and no request is left in its queue.
THEOREM StopsLast == SafeSpec => []DispatcherStopsLast
<1>1. IInv => DispatcherStopsLast
  <2> SUFFICES ASSUME IInv, dispatcher.at \in {"stop", "done"}
               PROVE  Done = Handlers /\ dispatcherQueue = <<>>
    BY DEF DispatcherStopsLast, Done
  <2>1. dispatcherQueue \in Seq(Requests \cup {Stop})
    BY DEF IInv, TypeOK
  <2>2. /\ Cardinality(Positions(Stop, dispatcherQueue)) \in Nat
        /\ Cardinality(Positions(Stop, dispatcherQueue)) = 0 =>
             \A i \in 1..Len(dispatcherQueue) : dispatcherQueue[i] # Stop
    BY <2>1, CountType
  <2>3. /\ dispatcher.stops = N
        /\ Cardinality(Done)
             = dispatcher.stops + Cardinality(Positions(Stop, dispatcherQueue))
    BY DEF IInv, StopsCounted, StopsAccounted
  <2>4. Done = Handlers /\ Cardinality(Positions(Stop, dispatcherQueue)) = 0
    BY <2>2, <2>3, DoneFinite
  <2>5. ASSUME dispatcherQueue # <<>>  PROVE FALSE
    <3>1. Len(dispatcherQueue) \in 1..Len(dispatcherQueue)
      BY <2>1, <2>5, EmptySeq
    <3>2. dispatcherQueue[Len(dispatcherQueue)] = Stop
      BY <2>4, <2>5 DEF IInv, StopBehind
    <3> QED  BY <2>2, <2>4, <3>1, <3>2
  <2> QED
    BY <2>4, <2>5
<1> QED
  BY <1>1, Invariance, PTL

-----------------------------------------------------------------------------
(***************************************************************************)
(* The life of a request in the server: who owns its two objects from the  *)
(* handler that read it to the thread that answers it, and what a shutdown *)
(* leaves behind.  Where clients speak HTTP/1.0 the first does not hold    *)
(* (see ClosedSocketNotUsed), so the theorems about objects are about      *)
(* servers whose clients do not.                                           *)
(***************************************************************************)

\* The requests or connections in a queue.
Waiting(q) == Range(q) \ {Stop}

\* Nothing but stops is in the queue twice.
Once(q) == \A i, j \in 1..Len(q) : q[i] = q[j] /\ q[i] # Stop => i = j

\* What application a has been given and has not answered.
Pending(a) == Waiting(inbox[a]) \cup held[a]

Made(r) == r[2] <= made[r[1]]

(***************************************************************************)
(* The owners of a request.  That no thread uses a deleted object follows  *)
(* from there being one place, at any moment, from which a request can be  *)
(* taken: the dispatcher's queue, one application's queue, or its threads. *)
(***************************************************************************)
QueuedOnce ==
  /\ Once(dispatcherQueue)
  /\ \A a \in Apps : Once(inbox[a])

OneOwner ==
  \A a \in Apps :
    /\ Waiting(inbox[a]) \cap held[a] = {}
    /\ Pending(a) \cap Waiting(dispatcherQueue) = {}
    /\ \A r \in Pending(a) : route[r] = a

\* The objects allocated are those of the requests that have an owner.
ObjectsOwned ==
  /\ responseObjs = requestObjs
  /\ \A r \in Requests :
       r \in requestObjs
         <=> r \in Waiting(dispatcherQueue) \/ \E a \in Apps : r \in Pending(a)

\* What was made has been answered or still has its objects.
RepliesAccounted ==
  \A r \in Requests :
    /\ r \in requestObjs => Made(r)
    /\ replies[r] = IF Made(r) /\ r \notin requestObjs THEN 1 ELSE 0

NothingClosed == Http10 = {} /\ closed = {} /\ heapSound

OwnersInv ==
  /\ QueuedOnce
  /\ OneOwner
  /\ ObjectsOwned
  /\ RepliesAccounted
  /\ NothingClosed

(***************************************************************************)
(* The order of a shutdown.  In every queue the stop comes behind the      *)
(* work, so a thread that has taken it leaves nothing.                     *)
(***************************************************************************)
StopsBehind(q) == \A i, j \in 1..Len(q) : i <= j /\ q[i] = Stop => q[j] = Stop

Stopped == {h \in Handlers : handler[h].at \in {"stop", "done"}}

HandlersStopLast ==
  /\ StopsBehind(serverQueue)
  /\ Stopped # {} => Waiting(serverQueue) = {}
  /\ main.at \in {"startApps", "open", "listen", "startThreads", "accept"} =>
       Stop \notin Range(serverQueue) /\ Stopped = {}

MainJoins ==
  /\ main.at \in {"joinDispatcher", "stopApps", "done"} => Done = Handlers
  /\ main.at \in {"stopApps", "done"} => dispatcher.at = "done"
  /\ main.at = "done" => \A a \in Apps : phase[a] = "finished"

\* The phases of the applications follow the dispatcher's.
PhasesFollow ==
  /\ dispatcher.at \in {"unstarted", "take"} => \A a \in Apps : phase[a] = "open"
  /\ dispatcher.at = "done" => \A a \in Apps : phase[a] # "open"

\* What the queue q and the threads of an application in phase p may hold: an
\* open one has no stop, a closed one has one, behind its requests, and one that
\* has taken it has an empty queue.
InboxFits(q, p, h) ==
  /\ p = "open" => Stop \notin Range(q)
  /\ p = "closed" =>
       /\ q # <<>>
       /\ \A i \in 1..Len(q) : q[i] = Stop <=> i = Len(q)
  /\ p \in {"draining", "finished"} => q = <<>>
  /\ p = "finished" => h = {}

AppsStopLast == \A a \in Apps : InboxFits(inbox[a], phase[a], held[a])

ShutdownInv == HandlersStopLast /\ MainJoins /\ PhasesFollow /\ AppsStopLast

-----------------------------------------------------------------------------
(* Queues                                                                  *)

\* What the end of a queue does to the work in it.
LEMMA WaitingAppend ==
  ASSUME NEW S, NEW q \in Seq(S), NEW x \in S
  PROVE  /\ x = Stop => Waiting(Append(q, x)) = Waiting(q)
         /\ x # Stop => Waiting(Append(q, x)) = Waiting(q) \cup {x}
         /\ Once(q) /\ x \notin Waiting(q) => Once(Append(q, x))
<1>1. /\ Append(q, x) \in Seq(S)
      /\ Len(q) \in Nat
      /\ Len(Append(q, x)) = Len(q) + 1
      /\ \A i \in 1..Len(q) : Append(q, x)[i] = q[i] /\ q[i] \in Range(q)
      /\ Append(q, x)[Len(q) + 1] = x
      /\ Range(Append(q, x)) = Range(q) \cup {x}
  BY RangeAppend, RangeType
<1>2. ASSUME Once(q), x \notin Waiting(q),
             NEW i \in 1..(Len(q) + 1), NEW j \in 1..(Len(q) + 1),
             Append(q, x)[i] = Append(q, x)[j], Append(q, x)[i] # Stop
      PROVE  i = j
  <2>1. (i \in 1..Len(q) \/ i = Len(q) + 1) /\ (j \in 1..Len(q) \/ j = Len(q) + 1)
    BY <1>1
  <2>2. \A k \in 1..Len(q) : q[k] # x \/ x = Stop
    BY <1>1, <1>2 DEF Waiting
  <2> QED  BY <1>1, <1>2, <2>1, <2>2 DEF Once
<1>3. Once(q) /\ x \notin Waiting(q) => Once(Append(q, x))
  BY <1>1, <1>2 DEF Once
<1> QED
  BY <1>1, <1>3 DEF Waiting

\* What the removal of the head does to the work in a queue without repeats.
LEMMA WaitingTail ==
  ASSUME NEW S, NEW q \in Seq(S), q # <<>>, Once(q)
  PROVE  /\ Head(q) \in S /\ Tail(q) \in Seq(S)
         /\ Once(Tail(q))
         /\ Head(q) # Stop => Head(q) \in Waiting(q)
         /\ Waiting(Tail(q)) = Waiting(q) \ {Head(q)}
<1>1. /\ Head(q) \in S /\ Tail(q) \in Seq(S)
      /\ Len(q) \in Nat \ {0} /\ Len(Tail(q)) = Len(q) - 1
      /\ Head(q) = q[1]
      /\ \A i \in 1..Len(Tail(q)) : Tail(q)[i] = q[i + 1]
      /\ Range(q) = {Head(q)} \cup Range(Tail(q))
  BY RangeTail
<1>2. Once(Tail(q))
  <2> SUFFICES ASSUME NEW i \in 1..Len(Tail(q)), NEW j \in 1..Len(Tail(q)),
                      Tail(q)[i] = Tail(q)[j], Tail(q)[i] # Stop
               PROVE  i = j
    BY DEF Once
  <2>1. /\ i + 1 \in 1..Len(q) /\ j + 1 \in 1..Len(q)
        /\ q[i + 1] = q[j + 1] /\ q[i + 1] # Stop
    BY <1>1
  <2>2. i + 1 = j + 1
    BY <2>1 DEF Once
  <2> QED  BY <2>2
<1>3. Head(q) # Stop => Head(q) \notin Range(Tail(q))
  <2> SUFFICES ASSUME Head(q) # Stop, Head(q) \in Range(Tail(q))  PROVE FALSE
    OBVIOUS
  <2>1. PICK i \in 1..Len(Tail(q)) : Tail(q)[i] = Head(q)
    BY <1>1, RangeType
  <2>2. /\ i + 1 \in 1..Len(q) /\ 1 \in 1..Len(q)
        /\ q[i + 1] = q[1] /\ q[1] # Stop /\ i + 1 # 1
    BY <1>1, <2>1
  <2> QED  BY <2>2 DEF Once
<1> QED
  BY <1>1, <1>2, <1>3 DEF Waiting


-----------------------------------------------------------------------------
(* The owners of a request                                                 *)

LEMMA InitOwners == Http10 = {} /\ Init => OwnersInv
<1> SUFFICES ASSUME Http10 = {}, Init  PROVE OwnersInv
  OBVIOUS
<1>1. /\ dispatcherQueue = <<>> /\ \A a \in Apps : inbox[a] = <<>> /\ held[a] = {}
      /\ requestObjs = {} /\ responseObjs = {} /\ closed = {} /\ heapSound = TRUE
      /\ \A c \in Connections : made[c] = 0
      /\ \A r \in Requests : replies[r] = 0
  BY DEF Init
<1>2. Waiting(<<>>) = {} /\ Once(<<>>)
  BY DEF Waiting, Once, Range
<1>3. \A r \in Requests : ~Made(r)
  BY <1>1 DEF Made, Requests
<1>4. \A a \in Apps : Pending(a) = {} /\ Waiting(inbox[a]) = {}
  BY <1>1, <1>2 DEF Pending
<1>5. QueuedOnce /\ OneOwner
  BY <1>1, <1>2, <1>4 DEF QueuedOnce, OneOwner
<1>6. ObjectsOwned /\ RepliesAccounted /\ NothingClosed
  BY <1>1, <1>2, <1>3, <1>4 DEF ObjectsOwned, RepliesAccounted, NothingClosed
<1> QED
  BY <1>5, <1>6 DEF OwnersInv

\* A step that moves only stops moves no request.
LEMMA SameOwners ==
  ASSUME TypeOK, OwnersInv,
         Once(dispatcherQueue'), \A a \in Apps : Once(inbox'[a]),
         Waiting(dispatcherQueue') = Waiting(dispatcherQueue),
         \A a \in Apps : Waiting(inbox'[a]) = Waiting(inbox[a]),
         UNCHANGED <<made, route, held, requestObjs, responseObjs, heapSound,
                     closed, replies>>
  PROVE  OwnersInv'
<1>1. \A a \in Apps : Pending(a)' = Pending(a)
  BY DEF Pending
<1>2. QueuedOnce'
  BY DEF QueuedOnce
<1>3. OneOwner'
  BY <1>1 DEF OwnersInv, OneOwner
<1>4. ObjectsOwned'
  BY <1>1 DEF OwnersInv, ObjectsOwned
<1>5. RepliesAccounted' /\ NothingClosed'
  BY DEF OwnersInv, RepliesAccounted, NothingClosed, Made
<1> QED
  BY <1>2, <1>3, <1>4, <1>5 DEF OwnersInv

\* The handler makes the next request of its connection, which nobody owns yet.
LEMMA ParseOwners ==
  ASSUME IInv, OwnersInv, NEW h \in Handlers, NEW key \in Routes,
         HandlerParse(h, key)
  PROVE  OwnersInv'
<1> DEFINE c == handler[h].conn
           r == <<c, made[c] + 1>>
<1>1. c \in Connections /\ made[c] \in Nat /\ r \in Requests /\ r # Stop
  BY RequestIsNotStop, RequestsAssumption
     DEF IInv, TypeOK, HandlerParse, Locations, Requests
<1>2. /\ made' = [made EXCEPT ![c] = @ + 1]
      /\ route' = [route EXCEPT ![r] = key]
      /\ requestObjs' = requestObjs \cup {r}
      /\ responseObjs' = responseObjs \cup {r}
      /\ dispatcherQueue' = Append(dispatcherQueue, r)
      /\ UNCHANGED <<inbox, held, heapSound, closed, replies>>
  BY DEF HandlerParse, appVars, clientVars
<1>3. ~Made(r) /\ r[2] <= made'[r[1]]
  BY <1>1, <1>2 DEF Made, IInv, TypeOK
<1>4. \A s \in Requests \ {r} : Made(s)' <=> Made(s)
  BY <1>1, <1>2, SMTT(20) DEF Made, IInv, TypeOK, Requests
<1> HIDE DEF c, r
<1>5. r \notin requestObjs /\ replies[r] = 0
  BY <1>1, <1>3 DEF OwnersInv, RepliesAccounted
<1>6. r \notin Waiting(dispatcherQueue) /\ \A a \in Apps : r \notin Pending(a)
  BY <1>1, <1>5 DEF OwnersInv, ObjectsOwned
<1>7. /\ Waiting(dispatcherQueue') = Waiting(dispatcherQueue) \cup {r}
      /\ Once(dispatcherQueue')
  BY <1>1, <1>2, <1>6, WaitingAppend DEF IInv, TypeOK, OwnersInv, QueuedOnce
<1>8. \A a \in Apps : Pending(a)' = Pending(a) /\ Waiting(inbox'[a]) = Waiting(inbox[a])
  BY <1>2 DEF Pending
<1>9. QueuedOnce'
  BY <1>2, <1>7 DEF OwnersInv, QueuedOnce
<1>10. OneOwner'
  <2>1. \A a \in Apps : \A s \in Pending(a) : route'[s] = a
    <3> SUFFICES ASSUME NEW a \in Apps, NEW s \in Pending(a)  PROVE route'[s] = a
      OBVIOUS
    <3>1. s # r /\ route[s] = a
      BY <1>6 DEF OwnersInv, OneOwner
    <3> QED  BY <1>2, <3>1 DEF IInv, TypeOK
  <2> QED  BY <1>2, <1>6, <1>7, <1>8, <2>1 DEF OwnersInv, OneOwner
<1>11. ObjectsOwned'
  <2>1. responseObjs' = requestObjs'
    BY <1>2 DEF OwnersInv, ObjectsOwned
  <2> QED  BY <1>2, <1>7, <1>8, <2>1 DEF OwnersInv, ObjectsOwned
<1>12. RepliesAccounted'
  <2> SUFFICES ASSUME NEW s \in Requests
               PROVE  /\ s \in requestObjs' => Made(s)'
                      /\ replies'[s] = IF Made(s)' /\ s \notin requestObjs' THEN 1 ELSE 0
    BY DEF RepliesAccounted
  <2>1. CASE s = r
    BY <1>1, <1>2, <1>3, <1>5, <2>1 DEF Made
  <2>2. CASE s # r
    BY <1>2, <1>4, <2>2 DEF OwnersInv, RepliesAccounted
  <2> QED  BY <2>1, <2>2
<1>13. NothingClosed'
  BY <1>2 DEF OwnersInv, NothingClosed
<1> QED
  BY <1>9, <1>10, <1>11, <1>12, <1>13 DEF OwnersInv


\* The head of the dispatcher's queue has its objects and leaves the queue.
LEMMA HeadOwned ==
  ASSUME IInv, OwnersInv, NEW r \in Requests, DispatcherHead(r)
  PROVE  /\ r # Stop /\ r \in requestObjs /\ r \in responseObjs
         /\ r \in Waiting(dispatcherQueue)
         /\ replies[r] = 0 /\ Made(r)
         /\ \A a \in Apps : r \notin Pending(a)
         /\ Waiting(dispatcherQueue') = Waiting(dispatcherQueue) \ {r}
         /\ Once(dispatcherQueue')
<1>1. /\ dispatcherQueue \in Seq(Requests \cup {Stop}) /\ dispatcherQueue # <<>>
      /\ Once(dispatcherQueue) /\ r = Head(dispatcherQueue) /\ r # Stop
      /\ dispatcherQueue' = Tail(dispatcherQueue)
  BY RequestIsNotStop DEF IInv, TypeOK, OwnersInv, QueuedOnce, DispatcherHead
<1>2. /\ r \in Waiting(dispatcherQueue)
      /\ Waiting(dispatcherQueue') = Waiting(dispatcherQueue) \ {r}
      /\ Once(dispatcherQueue')
  BY <1>1, WaitingTail
<1>3. r \in requestObjs /\ r \in responseObjs
  BY <1>2 DEF OwnersInv, ObjectsOwned
<1>4. replies[r] = 0 /\ Made(r)
  BY <1>3 DEF OwnersInv, RepliesAccounted
<1>5. \A a \in Apps : r \notin Pending(a)
  BY <1>2 DEF OwnersInv, OneOwner
<1> QED
  BY <1>1, <1>2, <1>3, <1>4, <1>5

\* A request goes from the dispatcher's queue to that of its application.
LEMMA RedirectOwners ==
  ASSUME IInv, OwnersInv, NEW r \in Requests, DispatcherRedirect(r)
  PROVE  OwnersInv'
<1> DEFINE b == route[r]
<1>1. DispatcherHead(r)
  BY DEF DispatcherRedirect
<1>2. /\ b \in Apps
      /\ heapSound' = (r \in requestObjs)
      /\ inbox' = [inbox EXCEPT ![b] = Append(@, r)]
      /\ UNCHANGED <<made, route, held, requestObjs, responseObjs, closed, replies>>
  BY DEF DispatcherRedirect, readVars, clientVars
<1>3. route[r] = b
  OBVIOUS
<1> HIDE DEF b
<1>4. /\ inbox[b] \in Seq(Requests \cup {Stop}) /\ Once(inbox[b])
      /\ r # Stop /\ r \notin Waiting(inbox[b]) /\ r \notin held[b]
      /\ inbox'[b] = Append(inbox[b], r)
  BY <1>1, <1>2, HeadOwned DEF IInv, TypeOK, OwnersInv, QueuedOnce, Pending
<1>5. Waiting(inbox'[b]) = Waiting(inbox[b]) \cup {r} /\ Once(inbox'[b])
  BY <1>4, WaitingAppend
<1>6. \A a \in Apps \ {b} : inbox'[a] = inbox[a]
  BY <1>2 DEF IInv, TypeOK
<1>7. \A a \in Apps : Pending(a)' = IF a = b THEN Pending(a) \cup {r} ELSE Pending(a)
  BY <1>2, <1>5, <1>6 DEF Pending
<1>8. /\ Waiting(dispatcherQueue') = Waiting(dispatcherQueue) \ {r}
      /\ Once(dispatcherQueue')
      /\ r \in requestObjs /\ r \in Waiting(dispatcherQueue)
      /\ \A a \in Apps : r \notin Pending(a)
  BY <1>1, HeadOwned
<1>9. QueuedOnce'
  BY <1>5, <1>6, <1>8 DEF OwnersInv, QueuedOnce
<1>10. OneOwner'
  <2> SUFFICES ASSUME NEW a \in Apps
               PROVE  /\ Waiting(inbox'[a]) \cap held'[a] = {}
                      /\ Pending(a)' \cap Waiting(dispatcherQueue') = {}
                      /\ \A s \in Pending(a)' : route'[s] = a
    BY DEF OneOwner
  <2>1. /\ Waiting(inbox[a]) \cap held[a] = {}
        /\ Pending(a) \cap Waiting(dispatcherQueue) = {}
        /\ \A s \in Pending(a) : route[s] = a
    BY DEF OwnersInv, OneOwner
  <2>2. CASE a = b
    BY <1>2, <1>3, <1>4, <1>5, <1>7, <1>8, <2>1, <2>2
  <2>3. CASE a # b
    BY <1>2, <1>6, <1>7, <1>8, <2>1, <2>3
  <2> QED  BY <2>2, <2>3
<1>11. ObjectsOwned'
  <2>1. \A s \in Requests :
          (\E a \in Apps : s \in Pending(a)') <=> s = r \/ \E a \in Apps : s \in Pending(a)
    BY <1>2, <1>7
  <2>2. /\ responseObjs = requestObjs
        /\ \A s \in Requests :
             s \in requestObjs
               <=> s \in Waiting(dispatcherQueue) \/ \E a \in Apps : s \in Pending(a)
    BY DEF OwnersInv, ObjectsOwned
  <2> QED  BY <1>2, <1>8, <2>1, <2>2 DEF ObjectsOwned
<1>12. RepliesAccounted' /\ NothingClosed'
  BY <1>2, <1>8 DEF OwnersInv, RepliesAccounted, NothingClosed, Made
<1> QED
  BY <1>9, <1>10, <1>11, <1>12 DEF OwnersInv

\* An answer ends the life of the request's objects, once its owner let it go.
LEMMA AnswerOwners ==
  ASSUME IInv, OwnersInv, NEW r \in Requests,
         r \in requestObjs, QueuedOnce', OneOwner',
         \A s \in Requests \ {r} :
           /\ s \in Waiting(dispatcherQueue') <=> s \in Waiting(dispatcherQueue)
           /\ \A a \in Apps : s \in Pending(a)' <=> s \in Pending(a),
         r \notin Waiting(dispatcherQueue'),
         \A a \in Apps : r \notin Pending(a)',
         replies' = Answered(r),
         heapSound' = (r \in requestObjs /\ r \in responseObjs),
         requestObjs' = requestObjs \ {r},
         responseObjs' = responseObjs \ {r},
         UNCHANGED <<made, closed>>
  PROVE  OwnersInv'
<1>1. responseObjs = requestObjs /\ r \in responseObjs /\ Made(r) /\ replies[r] = 0
  BY DEF OwnersInv, ObjectsOwned, RepliesAccounted
<1>2. replies' = [replies EXCEPT ![r] = 1]
  BY <1>1 DEF OwnersInv, NothingClosed, Answered, IInv, TypeOK
<1>3. ObjectsOwned'
  BY <1>1 DEF OwnersInv, ObjectsOwned
<1>4. RepliesAccounted'
  <2> SUFFICES ASSUME NEW s \in Requests
               PROVE  /\ s \in requestObjs' => Made(s)'
                      /\ replies'[s] = IF Made(s)' /\ s \notin requestObjs' THEN 1 ELSE 0
    BY DEF RepliesAccounted
  <2>1. Made(s)' = Made(s)
    BY DEF Made
  <2>2. CASE s = r
    BY <1>1, <1>2, <2>1, <2>2 DEF IInv, TypeOK
  <2>3. CASE s # r
    BY <1>2, <2>1, <2>3 DEF OwnersInv, RepliesAccounted, IInv, TypeOK
  <2> QED  BY <2>2, <2>3
<1>5. NothingClosed'
  BY <1>1 DEF OwnersInv, NothingClosed
<1> QED
  BY <1>3, <1>4, <1>5 DEF OwnersInv

LEMMA NotFoundOwners ==
  ASSUME IInv, OwnersInv, NEW r \in Requests, DispatcherServeNotFound(r)
  PROVE  OwnersInv'
<1>1. DispatcherHead(r)
  BY DEF DispatcherServeNotFound
<1>2. /\ replies' = Answered(r)
      /\ heapSound' = (r \in requestObjs /\ r \in responseObjs)
      /\ requestObjs' = requestObjs \ {r} /\ responseObjs' = responseObjs \ {r}
      /\ UNCHANGED <<made, route, inbox, held, closed>>
  BY DEF DispatcherServeNotFound, readVars, appVars
<1>3. /\ r \in requestObjs /\ \A a \in Apps : r \notin Pending(a)
      /\ Waiting(dispatcherQueue') = Waiting(dispatcherQueue) \ {r}
      /\ Once(dispatcherQueue')
  BY <1>1, HeadOwned
<1>4. \A a \in Apps : Pending(a)' = Pending(a)
  BY <1>2 DEF Pending
<1>5. QueuedOnce' /\ OneOwner'
  BY <1>2, <1>3, <1>4 DEF OwnersInv, QueuedOnce, OneOwner
<1> QED
  BY <1>2, <1>3, <1>4, <1>5, AnswerOwners


\* A thread of the application takes a request out of its queue.
LEMMA TakeOwners ==
  ASSUME IInv, OwnersInv, NEW b \in Apps, AppTake(b)
  PROVE  OwnersInv'
<1> DEFINE r == Head(inbox[b])
<1>1. /\ inbox[b] \in Seq(Requests \cup {Stop}) /\ inbox[b] # <<>>
      /\ Once(inbox[b]) /\ r # Stop
      /\ inbox' = [inbox EXCEPT ![b] = Tail(@)]
      /\ held' = [held EXCEPT ![b] = @ \cup {r}]
      /\ heapSound' = (r \in requestObjs)
      /\ UNCHANGED <<made, route, dispatcherQueue, requestObjs, responseObjs,
                     closed, replies>>
  BY DEF AppTake, IInv, TypeOK, OwnersInv, QueuedOnce, readVars, clientVars
<1>2. inbox'[b] = Tail(inbox[b]) /\ held'[b] = held[b] \cup {r}
  BY <1>1 DEF IInv, TypeOK
<1>3. \A a \in Apps \ {b} : inbox'[a] = inbox[a] /\ held'[a] = held[a]
  BY <1>1 DEF IInv, TypeOK
<1> HIDE DEF r
<1>4. /\ r \in Requests /\ r \in Waiting(inbox[b])
      /\ Waiting(inbox'[b]) = Waiting(inbox[b]) \ {r} /\ Once(inbox'[b])
  BY <1>1, <1>2, WaitingTail DEF r
<1>5. \A a \in Apps : Pending(a)' = Pending(a)
  BY <1>2, <1>3, <1>4 DEF Pending
<1>6. r \in requestObjs
  BY <1>4 DEF Pending, OwnersInv, ObjectsOwned
<1>7. QueuedOnce'
  BY <1>1, <1>3, <1>4 DEF OwnersInv, QueuedOnce
<1>8. OneOwner'
  BY <1>1, <1>2, <1>3, <1>4, <1>5 DEF OwnersInv, OneOwner
<1>9. ObjectsOwned' /\ RepliesAccounted' /\ NothingClosed'
  BY <1>1, <1>5, <1>6
     DEF OwnersInv, ObjectsOwned, RepliesAccounted, NothingClosed, Made
<1> QED
  BY <1>7, <1>8, <1>9 DEF OwnersInv

LEMMA AppAnswerOwners ==
  ASSUME IInv, OwnersInv, NEW b \in Apps, NEW r \in Requests, AppAnswer(b, r)
  PROVE  OwnersInv'
<1>1. /\ r \in held[b]
      /\ held' = [held EXCEPT ![b] = @ \ {r}]
      /\ replies' = Answered(r)
      /\ heapSound' = (r \in requestObjs /\ r \in responseObjs)
      /\ requestObjs' = requestObjs \ {r} /\ responseObjs' = responseObjs \ {r}
      /\ UNCHANGED <<made, route, dispatcherQueue, inbox, closed>>
  BY DEF AppAnswer, readVars
<1>2. held'[b] = held[b] \ {r} /\ \A a \in Apps \ {b} : held'[a] = held[a]
  BY <1>1 DEF IInv, TypeOK
<1>3. /\ r \in Pending(b) /\ r \notin Waiting(inbox[b]) /\ route[r] = b
      /\ r \notin Waiting(dispatcherQueue)
      /\ \A a \in Apps \ {b} : r \notin Pending(a)
  BY <1>1 DEF Pending, OwnersInv, OneOwner
<1>4. r \in requestObjs
  BY <1>3 DEF OwnersInv, ObjectsOwned
<1>5. \A a \in Apps : Pending(a)' = Pending(a) \ {r}
  BY <1>1, <1>2, <1>3 DEF Pending
<1>6. QueuedOnce'
  BY <1>1 DEF OwnersInv, QueuedOnce
<1>7. OneOwner'
  BY <1>1, <1>2, <1>5 DEF OwnersInv, OneOwner
<1> QED
  BY <1>1, <1>3, <1>4, <1>5, <1>6, <1>7, AnswerOwners

\* Without HTTP/1.0 clients the check of the version finds nothing to close,
\* whatever has become of the memory it reads.
LEMMA CheckFindsNothing ==
  ASSUME OwnersInv, NEW h \in Handlers, HandlerCheckVersion(h)
  PROVE  /\ handler' = [handler EXCEPT ![h].at = "parse"]
         /\ UNCHANGED <<made, route, dispatcherQueue, inbox, held, requestObjs,
                        responseObjs, heapSound, closed, replies>>
<1>1. \A version \in VersionsRead(h) : version = "HTTP/1.1"
  BY DEF OwnersInv, NothingClosed, VersionsRead, Version
<1> QED
  BY <1>1 DEF HandlerCheckVersion, readVars, appVars, heapVars

\* A stop put in a queue or taken from it is not a request.
LEMMA StopOwners ==
  ASSUME IInv, OwnersInv,
         \/ \E h \in Handlers : HandlerStop(h)
         \/ DispatcherCountStop
         \/ \E a \in Apps : DispatcherStopApp(a) \/ AppDrain(a)
  PROVE  OwnersInv'
<1>1. ASSUME NEW q, q \in Seq(Requests \cup {Stop}), Once(q)
      PROVE  /\ Once(Append(q, Stop)) /\ Waiting(Append(q, Stop)) = Waiting(q)
             /\ q # <<>> /\ Head(q) = Stop =>
                  Once(Tail(q)) /\ Waiting(Tail(q)) = Waiting(q)
  <2>1. Stop \notin Waiting(q)
    BY DEF Waiting
  <2>2. Once(Append(q, Stop)) /\ Waiting(Append(q, Stop)) = Waiting(q)
    BY <1>1, <2>1, WaitingAppend
  <2>3. ASSUME q # <<>>, Head(q) = Stop
        PROVE  Once(Tail(q)) /\ Waiting(Tail(q)) = Waiting(q)
    <3>1. Once(Tail(q)) /\ Waiting(Tail(q)) = Waiting(q) \ {Head(q)}
      BY <1>1, <2>3, WaitingTail
    <3> QED  BY <2>1, <2>3, <3>1
  <2> QED  BY <2>2, <2>3
<1>2. /\ dispatcherQueue \in Seq(Requests \cup {Stop}) /\ Once(dispatcherQueue)
      /\ \A a \in Apps : inbox[a] \in Seq(Requests \cup {Stop}) /\ Once(inbox[a])
  BY DEF IInv, TypeOK, OwnersInv, QueuedOnce
<1>3. UNCHANGED <<made, route, held, requestObjs, responseObjs, heapSound,
                  closed, replies>>
  BY DEF HandlerStop, DispatcherCountStop, DispatcherStopApp, AppDrain,
         readVars, appVars, heapVars, clientVars
<1>4. \/ dispatcherQueue' = dispatcherQueue
      \/ dispatcherQueue' = Append(dispatcherQueue, Stop)
      \/ /\ dispatcherQueue # <<>> /\ Head(dispatcherQueue) = Stop
         /\ dispatcherQueue' = Tail(dispatcherQueue)
  BY DEF HandlerStop, DispatcherCountStop, DispatcherHead, DispatcherStopApp, AppDrain
<1>5. /\ Waiting(dispatcherQueue') = Waiting(dispatcherQueue)
      /\ Once(dispatcherQueue')
  BY <1>1, <1>2, <1>4
<1>6. ASSUME NEW a \in Apps
      PROVE  \/ inbox'[a] = inbox[a]
             \/ inbox'[a] = Append(inbox[a], Stop)
             \/ inbox[a] # <<>> /\ Head(inbox[a]) = Stop /\ inbox'[a] = Tail(inbox[a])
  BY DEF IInv, TypeOK, HandlerStop, DispatcherCountStop, DispatcherStopApp,
         AppDrain, appVars
<1>7. \A a \in Apps : Waiting(inbox'[a]) = Waiting(inbox[a]) /\ Once(inbox'[a])
  BY <1>1, <1>2, <1>6
<1> QED
  BY <1>3, <1>5, <1>7, SameOwners DEF IInv


\* Every step keeps each request with one owner, and its objects with it.
LEMMA OwnersStep ==
  ASSUME IInv, OwnersInv, Next
  PROVE  OwnersInv'
<1>1. ASSUME UNCHANGED <<made, route, dispatcherQueue, inbox, held, requestObjs,
                         responseObjs, heapSound, closed, replies>>
      PROVE  OwnersInv'
  BY <1>1 DEF OwnersInv, QueuedOnce, OneOwner, ObjectsOwned, RepliesAccounted,
              NothingClosed, Pending, Made
<1>2. ASSUME NEW h \in Handlers, HandlerSteps(h)  PROVE OwnersInv'
  <2>1. CASE HandlerTake(h) \/ HandlerParseFails(h)
    BY <1>1, <2>1 DEF HandlerTake, HandlerParseFails, readVars, appVars, heapVars,
                      clientVars
  <2>2. CASE \E key \in Routes : HandlerParse(h, key)
    BY <2>2, ParseOwners
  <2>3. CASE HandlerCheckVersion(h)
    BY <1>1, <2>3, CheckFindsNothing
  <2>4. CASE HandlerStop(h)
    BY <2>4, StopOwners
  <2> QED  BY <1>2, <2>1, <2>2, <2>3, <2>4 DEF HandlerSteps
<1>3. CASE DispatcherSteps
  <2>1. CASE \E r \in Requests : DispatcherRedirect(r) \/ DispatcherServeNotFound(r)
    BY <2>1, RedirectOwners, NotFoundOwners
  <2>2. CASE DispatcherCountStop \/ \E a \in Apps : DispatcherStopApp(a)
    BY <2>2, StopOwners
  <2>3. CASE DispatcherReturns
    BY <1>1, <2>3 DEF DispatcherReturns, readVars, appVars, heapVars, clientVars
  <2> QED  BY <1>3, <2>1, <2>2, <2>3 DEF DispatcherSteps
<1>4. ASSUME NEW a \in Apps,
             AppTake(a) \/ AppDrain(a) \/ \E r \in Requests : AppAnswer(a, r)
      PROVE  OwnersInv'
  BY <1>4, TakeOwners, AppAnswerOwners, StopOwners
<1>5. CASE SignalStop \/ AcceptFails \/ \E c \in Connections : Accept(c)
  BY <1>1, <1>5 DEF SignalStop, AcceptFails, Accept, readVars, appVars, heapVars,
                    clientVars
<1>6. CASE MainSteps
  BY <1>1, <1>6 DEF MainSteps, StartApps, OpenSocket, Listen, StartThreads,
     SendStop, JoinHandlers, JoinDispatcher, RunReturns, StopApp, readVars,
     appVars, heapVars, clientVars
<1> QED
  BY <1>2, <1>3, <1>4, <1>5, <1>6 DEF Next

LEMMA OwnersInductive == IInv /\ OwnersInv /\ [Next]_vars => OwnersInv'
<1>1. CASE UNCHANGED vars
  BY <1>1 DEF vars, OwnersInv, QueuedOnce, OneOwner, ObjectsOwned,
              RepliesAccounted, NothingClosed, Pending, Made
<1> QED
  BY <1>1, OwnersStep

LEMMA OwnersInvariance == Http10 = {} /\ SafeSpec => []OwnersInv
BY InitOwners, Invariance, OwnersInductive, PTL DEF SafeSpec

\* For any number of handlers, applications and connections, none of HTTP/1.0:
\* what waits in a queue or is held by an application is allocated, and no
\* thread uses or deletes what another has deleted, but for the version a
\* handler may read of a request that is already deleted
\* (HttpConnectionHandler.cpp:45), which the property leaves out.
THEOREM OneOwnerUses == Http10 = {} /\ SafeSpec => []OnlyVersionReadAfterDelete
<1>1. IInv /\ OwnersInv => OnlyVersionReadAfterDelete
  <2> SUFFICES ASSUME IInv, OwnersInv  PROVE OnlyVersionReadAfterDelete
    OBVIOUS
  <2>1. heapSound
    BY DEF OwnersInv, NothingClosed
  <2>2. ASSUME NEW q \in Seq(Requests \cup {Stop})  PROVE Waiting(q) \subseteq Requests
    BY DEF Waiting, Range
  <2>3. ASSUME NEW r \in Waiting(dispatcherQueue)
        PROVE  r \in requestObjs /\ r \in responseObjs
    BY <2>2, <2>3 DEF OwnersInv, ObjectsOwned, IInv, TypeOK
  <2>4. ASSUME NEW a \in Apps, NEW r \in Pending(a)
        PROVE  r \in requestObjs /\ r \in responseObjs
    <3>1. r \in Requests
      BY <2>2, <2>4 DEF Pending, IInv, TypeOK
    <3> QED  BY <2>4, <3>1 DEF OwnersInv, ObjectsOwned
  <2> QED
    BY <2>1, <2>3, <2>4 DEF OnlyVersionReadAfterDelete, Waiting, Pending
<1> QED
  BY <1>1, Invariance, OwnersInvariance, PTL

-----------------------------------------------------------------------------
(* The order of a shutdown                                                 *)

\* Stops stay behind the rest when a stop is added, and when anything is added
\* to a queue without stops.
LEMMA BehindAppend ==
  ASSUME NEW S, NEW q \in Seq(S), NEW x \in S, StopsBehind(q),
         x # Stop => Stop \notin Range(q)
  PROVE  StopsBehind(Append(q, x))
<1>1. /\ Len(q) \in Nat
      /\ Len(Append(q, x)) = Len(q) + 1
      /\ \A i \in 1..Len(q) : Append(q, x)[i] = q[i] /\ q[i] \in Range(q)
      /\ Append(q, x)[Len(q) + 1] = x
  BY RangeAppend, RangeType
<1> SUFFICES ASSUME NEW i \in 1..(Len(q) + 1), NEW j \in 1..(Len(q) + 1), i <= j,
                    Append(q, x)[i] = Stop
             PROVE  Append(q, x)[j] = Stop
  BY <1>1 DEF StopsBehind
<1>2. (i \in 1..Len(q) \/ i = Len(q) + 1) /\ (j \in 1..Len(q) \/ j = Len(q) + 1)
  BY <1>1
<1>3. CASE x = Stop
  BY <1>1, <1>2, <1>3 DEF StopsBehind
<1>4. CASE x # Stop
  BY <1>1, <1>2, <1>4 DEF StopsBehind
<1> QED
  BY <1>3, <1>4

\* When the head is a stop, all that is left are stops.
LEMMA BehindTail ==
  ASSUME NEW S, NEW q \in Seq(S), q # <<>>, StopsBehind(q)
  PROVE  /\ StopsBehind(Tail(q))
         /\ Range(Tail(q)) \subseteq Range(q)
         /\ Waiting(Tail(q)) \subseteq Waiting(q)
         /\ Head(q) = Stop => Waiting(Tail(q)) = {}
         /\ Head(q) # Stop => Waiting(q) # {}
<1>1. /\ Tail(q) \in Seq(S)
      /\ Len(q) \in Nat \ {0} /\ Len(Tail(q)) = Len(q) - 1
      /\ Head(q) = q[1]
      /\ \A i \in 1..Len(Tail(q)) : Tail(q)[i] = q[i + 1]
      /\ Range(q) = {Head(q)} \cup Range(Tail(q))
  BY RangeTail
<1>2. StopsBehind(Tail(q))
  <2> SUFFICES ASSUME NEW i \in 1..Len(Tail(q)), NEW j \in 1..Len(Tail(q)), i <= j,
                      Tail(q)[i] = Stop
               PROVE  Tail(q)[j] = Stop
    BY DEF StopsBehind
  <2>1. /\ i + 1 \in 1..Len(q) /\ j + 1 \in 1..Len(q) /\ i + 1 <= j + 1
        /\ q[i + 1] = Stop
    BY <1>1
  <2>2. q[j + 1] = Stop
    BY <2>1 DEF StopsBehind
  <2> QED  BY <1>1, <2>2
<1>3. ASSUME Head(q) = Stop  PROVE Waiting(Tail(q)) = {}
  <2> SUFFICES ASSUME NEW x \in Range(Tail(q))  PROVE x = Stop
    BY DEF Waiting
  <2>1. PICK i \in 1..Len(Tail(q)) : Tail(q)[i] = x
    BY <1>1, RangeType
  <2>2. /\ 1 \in 1..Len(q) /\ i + 1 \in 1..Len(q) /\ 1 <= i + 1
        /\ q[1] = Stop /\ x = q[i + 1]
    BY <1>1, <1>3, <2>1
  <2> QED  BY <2>2 DEF StopsBehind
<1> QED
  BY <1>1, <1>2, <1>3 DEF Waiting

\* A handler that takes a stop leaves no connection in the queue.
LEMMA HandlersStopStep ==
  ASSUME IInv, HandlersStopLast, Next
  PROVE  HandlersStopLast'
<1> DEFINE Early == {"startApps", "open", "listen", "startThreads", "accept"}
<1>0. serverQueue \in Seq(Connections \cup {Stop})
  BY DEF IInv, TypeOK
<1>1. ASSUME serverQueue' = serverQueue, Stopped' = Stopped,
             main'.at \in Early => main.at \in Early
      PROVE  HandlersStopLast'
  BY <1>1 DEF HandlersStopLast
<1>2. ASSUME NEW c \in Connections, Accept(c)  PROVE HandlersStopLast'
  <2>1. /\ serverQueue' = Append(serverQueue, c) /\ c # Stop
        /\ Stop \notin Range(serverQueue) /\ Stopped = {} /\ StopsBehind(serverQueue)
    BY <1>2, ConnectionsAssumption DEF Accept, HandlersStopLast
  <2>2. Stopped' = {}
    BY <1>2, <2>1 DEF Accept, Stopped
  <2>3. Stop \notin Range(serverQueue')
    BY <1>0, <2>1, RangeAppend
  <2>4. StopsBehind(serverQueue')
    BY <1>0, <2>1, BehindAppend
  <2> QED  BY <2>2, <2>3, <2>4 DEF HandlersStopLast
<1>3. CASE SendStop
  <2>1. /\ serverQueue' = Append(serverQueue, Stop) /\ Stopped' = Stopped
        /\ main'.at \notin Early
    BY <1>3 DEF SendStop, Stopped
  <2>2. StopsBehind(serverQueue')
    BY <1>0, <2>1, BehindAppend DEF HandlersStopLast
  <2>3. Waiting(serverQueue') = Waiting(serverQueue)
    BY <1>0, <2>1, WaitingAppend
  <2> QED  BY <2>1, <2>2, <2>3 DEF HandlersStopLast
<1>4. ASSUME NEW h \in Handlers, HandlerTake(h)  PROVE HandlersStopLast'
  <2>1. /\ serverQueue # <<>> /\ serverQueue' = Tail(serverQueue)
        /\ main' = main
        /\ \A i \in Handlers \ {h} : handler'[i] = handler[i]
        /\ handler'[h].at = IF Head(serverQueue) = Stop THEN "stop" ELSE "parse"
    BY <1>4 DEF HandlerTake, mainVars, IInv, TypeOK
  <2>2. /\ StopsBehind(serverQueue')
        /\ Range(serverQueue') \subseteq Range(serverQueue)
        /\ Waiting(serverQueue') \subseteq Waiting(serverQueue)
        /\ Head(serverQueue) = Stop => Waiting(serverQueue') = {}
    BY <1>0, <2>1, BehindTail DEF HandlersStopLast
  <2>3. CASE Head(serverQueue) = Stop
    <3>1. main.at \notin Early
      BY <1>0, <2>1, <2>3, RangeTail DEF HandlersStopLast
    <3> QED  BY <2>1, <2>2, <2>3, <3>1 DEF HandlersStopLast
  <2>4. CASE Head(serverQueue) # Stop
    <3>1. Stopped' = Stopped
      BY <1>4, <2>1, <2>4 DEF Stopped, HandlerTake
    <3> QED  BY <2>1, <2>2, <3>1 DEF HandlersStopLast
  <2> QED  BY <2>3, <2>4
<1>5. ASSUME NEW h \in Handlers,
             HandlerParseFails(h) \/ HandlerCheckVersion(h) \/ HandlerStop(h)
               \/ \E key \in Routes : HandlerParse(h, key)
      PROVE  HandlersStopLast'
  <2>1. /\ serverQueue' = serverQueue /\ main' = main
        /\ \A i \in Handlers \ {h} : handler'[i] = handler[i]
    BY <1>5 DEF HandlerParseFails, HandlerCheckVersion, HandlerStop, HandlerParse,
                mainVars, IInv, TypeOK
  <2>2. handler'[h].at \in {"stop", "done"} <=> handler[h].at \in {"stop", "done"}
    <3>1. \/ /\ handler[h].at \in {"parse", "check"}
             /\ \/ handler' = [handler EXCEPT ![h] = [at |-> "take", conn |-> NoConnection]]
                \/ handler' = [handler EXCEPT ![h].at = "parse"]
                \/ handler' = [handler EXCEPT ![h].at = "check"]
          \/ /\ handler[h].at = "stop"
             /\ handler' = [handler EXCEPT ![h].at = "done"]
      BY <1>5 DEF HandlerParseFails, HandlerCheckVersion, HandlerStop, HandlerParse
    <3>2. handler \in [Handlers -> HandlerStates] /\ handler[h] \in HandlerStates
      BY DEF IInv, TypeOK
    <3> QED  BY <3>1, <3>2 DEF HandlerStates
  <2> QED  BY <1>1, <2>1, <2>2 DEF Stopped
<1>6. CASE StartThreads
  <2>1. Stopped = {} /\ Stopped' = {}
    BY <1>6 DEF StartThreads, HandlersStopLast, IInv, TypeOK, Stopped
  <2>2. serverQueue' = serverQueue /\ main.at \in Early
    BY <1>6 DEF StartThreads
  <2> QED  BY <1>1, <2>1, <2>2
<1>7. ASSUME UNCHANGED <<serverQueue, handler>>, main'.at \in Early => main.at \in Early
      PROVE  HandlersStopLast'
  BY <1>1, <1>7 DEF Stopped
<1>8. CASE SignalStop \/ AcceptFails \/ StartApps \/ OpenSocket \/ Listen
           \/ JoinHandlers \/ JoinDispatcher \/ RunReturns \/ DispatcherSteps
           \/ (\E a \in Apps : \/ StopApp(a) \/ AppTake(a) \/ AppDrain(a)
                               \/ \E r \in Requests : AppAnswer(a, r))
  <2>1. UNCHANGED <<serverQueue, handler>>
    BY <1>8 DEF SignalStop, AcceptFails, StartApps, OpenSocket, Listen, JoinHandlers,
       JoinDispatcher, RunReturns, DispatcherSteps, DispatcherRedirect,
       DispatcherServeNotFound, DispatcherCountStop, DispatcherStopApp,
       DispatcherReturns, StopApp, AppTake, AppDrain, AppAnswer
  <2>2. main'.at \in Early => main.at \in Early
    <3>1. \/ main' = main
          \/ main.at \in {"startApps", "open", "listen", "accept"}
          \/ \E location \in {"joinDispatcher", "aborted", "stopApps", "done"} :
               MainGoto(location)
      BY <1>8 DEF SignalStop, AcceptFails, StartApps, OpenSocket, Listen, JoinHandlers,
         JoinDispatcher, RunReturns, DispatcherSteps, DispatcherRedirect,
         DispatcherServeNotFound, DispatcherCountStop, DispatcherStopApp,
         DispatcherReturns, StopApp, AppTake, AppDrain, AppAnswer, mainVars
    <3> QED  BY <3>1 DEF MainGoto, IInv, TypeOK, MainStates
  <2> QED  BY <1>7, <2>1, <2>2
<1> HIDE DEF Early
<1> QED
  BY <1>2, <1>3, <1>4, <1>5, <1>6, <1>8 DEF Next, MainSteps, HandlerSteps


\* The main thread goes on from a join only when the threads it waits for have
\* ended, and an ended thread stays so.
LEMMA MainJoinsStep ==
  ASSUME IInv, MainJoins, AppsStopLast, Next
  PROVE  MainJoins'
<1>1. main \in MainStates /\ handler \in [Handlers -> HandlerStates]
  BY DEF IInv, TypeOK
<1>2. Done = Handlers => Done' = Handlers
  <2> SUFFICES ASSUME Done = Handlers  PROVE handler' = handler
    BY DEF Done
  <2>1. \A h \in Handlers : handler[h].at = "done"
    BY DEF Done
  <2>2. main.at # "startThreads"
    BY <2>1, HandlersAssumption DEF IInv, Locations
  <2> QED
    BY <2>1, <2>2 DEF Next, MainSteps, HandlerSteps, DispatcherSteps,
       SignalStop, StartApps, OpenSocket, Listen, StartThreads, SendStop,
       JoinHandlers, JoinDispatcher, RunReturns, StopApp, Accept, AcceptFails,
       HandlerTake, HandlerParse, HandlerParseFails, HandlerCheckVersion,
       HandlerStop, DispatcherRedirect, DispatcherServeNotFound,
       DispatcherCountStop, DispatcherStopApp, DispatcherReturns, AppTake,
       AppAnswer, AppDrain
<1>3. dispatcher.at = "done" => dispatcher'.at = "done"
  <2>1. dispatcher.at = "done" => main.at # "startThreads"
    BY DEF IInv, Locations
  <2> QED
    BY <2>1 DEF Next, MainSteps, HandlerSteps, DispatcherSteps,
       SignalStop, StartApps, OpenSocket, Listen, StartThreads, SendStop,
       JoinHandlers, JoinDispatcher, RunReturns, StopApp, Accept, AcceptFails,
       HandlerTake, HandlerParse, HandlerParseFails, HandlerCheckVersion,
       HandlerStop, DispatcherHead, DispatcherRedirect, DispatcherServeNotFound,
       DispatcherCountStop, DispatcherStopApp, DispatcherReturns, AppTake,
       AppAnswer, AppDrain
<1>4. \A a \in Apps : phase[a] = "finished" => phase'[a] = "finished"
  <2> SUFFICES ASSUME NEW a \in Apps, phase[a] = "finished"
               PROVE  phase'[a] = "finished"
    OBVIOUS
  <2>1. inbox[a] = <<>> /\ phase \in [Apps -> {"open", "closed", "draining", "finished"}]
    BY DEF AppsStopLast, InboxFits, IInv, TypeOK
  <2>2. \/ phase' = phase
        \/ \E b \in Apps :
             \/ phase[b] = "open" /\ phase' = [phase EXCEPT ![b] = "closed"]
             \/ phase' = [phase EXCEPT ![b] = "finished"]
             \/ inbox[b] # <<>> /\ phase' = [phase EXCEPT ![b] = "draining"]
    BY DEF Next, MainSteps, HandlerSteps, DispatcherSteps,
       SignalStop, StartApps, OpenSocket, Listen, StartThreads, SendStop,
       JoinHandlers, JoinDispatcher, RunReturns, StopApp, Accept, AcceptFails,
       HandlerTake, HandlerParse, HandlerParseFails, HandlerCheckVersion,
       HandlerStop, DispatcherRedirect, DispatcherServeNotFound,
       DispatcherCountStop, DispatcherStopApp, DispatcherReturns, AppTake,
       AppAnswer, AppDrain, appVars
  <2> QED  BY <2>1, <2>2
<1>5. \/ main'.at = main.at
      \/ main'.at \notin {"joinDispatcher", "stopApps", "done"}
      \/ main'.at = "joinDispatcher" /\ Done = Handlers
      \/ main'.at = "stopApps" /\ main.at = "joinDispatcher" /\ dispatcher.at = "done"
      \/ /\ main'.at = "done" /\ main.at = "stopApps"
         /\ \A a \in Apps : phase[a] = "finished"
  <2>1. CASE UNCHANGED main
    BY <2>1
  <2>2. CASE StartApps \/ OpenSocket \/ Listen \/ StartThreads \/ AcceptFails \/ SendStop
    BY <1>1, <2>2 DEF StartApps, OpenSocket, Listen, StartThreads, AcceptFails,
                      SendStop, MainGoto, MainStates
  <2>3. CASE JoinHandlers \/ JoinDispatcher \/ RunReturns
    BY <1>1, <2>3 DEF JoinHandlers, JoinDispatcher, RunReturns, MainGoto, MainStates,
                      Done
  <2> QED
    BY <2>1, <2>2, <2>3 DEF Next, MainSteps, HandlerSteps, DispatcherSteps,
       SignalStop, StopApp, Accept, HandlerTake, HandlerParse, HandlerParseFails,
       HandlerCheckVersion, HandlerStop, DispatcherRedirect,
       DispatcherServeNotFound, DispatcherCountStop, DispatcherStopApp,
       DispatcherReturns, AppTake, AppAnswer, AppDrain, mainVars
<1> QED
  BY <1>2, <1>3, <1>4, <1>5 DEF MainJoins

\* What puts a request or the stop in the queue of an application, and what takes
\* one out of it, leaves there what its phase allows.
LEMMA InboxMoves ==
  ASSUME NEW q \in Seq(Requests \cup {Stop}),
         NEW p \in {"open", "closed", "draining", "finished"}, NEW h,
         InboxFits(q, p, h)
  PROVE  /\ p = "open" => /\ \A r \in Requests : InboxFits(Append(q, r), p, h)
                          /\ InboxFits(Append(q, Stop), "closed", h)
         /\ q # <<>> /\ Head(q) # Stop =>
              \A g : InboxFits(Tail(q), p, g)
         /\ q # <<>> /\ Head(q) = Stop =>
              p = "closed" /\ InboxFits(Tail(q), "draining", h)
<1>1. ASSUME p = "open", NEW r \in Requests  PROVE InboxFits(Append(q, r), p, h)
  <2>1. Range(Append(q, r)) = Range(q) \cup {r} /\ r # Stop
    BY RangeAppend, RequestIsNotStop
  <2> QED  BY <1>1, <2>1 DEF InboxFits
<1>2. ASSUME p = "open"  PROVE InboxFits(Append(q, Stop), "closed", h)
  <2>1. /\ Len(q) \in Nat
        /\ Append(q, Stop) # <<>>
        /\ Len(Append(q, Stop)) = Len(q) + 1
        /\ \A i \in 1..Len(q) : Append(q, Stop)[i] = q[i] /\ q[i] \in Range(q)
        /\ Append(q, Stop)[Len(q) + 1] = Stop
    BY RangeAppend, RangeType
  <2>2. Stop \notin Range(q)
    BY <1>2 DEF InboxFits
  <2> QED  BY <2>1, <2>2 DEF InboxFits
<1>3. ASSUME q # <<>>
      PROVE  /\ Tail(q) \in Seq(Requests \cup {Stop})
             /\ Len(q) \in Nat \ {0} /\ Len(Tail(q)) = Len(q) - 1
             /\ Head(q) = q[1]
             /\ \A i \in 1..Len(Tail(q)) : Tail(q)[i] = q[i + 1]
             /\ Range(q) = {Head(q)} \cup Range(Tail(q))
  BY <1>3, RangeTail
<1>4. \A s \in Seq(Requests \cup {Stop}) : s = <<>> <=> Len(s) = 0
  BY EmptySeq
<1>5. ASSUME q # <<>>, Head(q) # Stop, NEW g  PROVE InboxFits(Tail(q), p, g)
  <2>1. p \notin {"draining", "finished"}
    BY <1>5 DEF InboxFits
  <2>2. CASE p = "closed"
    <3>1. \A i \in 1..Len(q) : q[i] = Stop <=> i = Len(q)
      BY <2>2 DEF InboxFits
    <3>2. Len(q) # 1
      BY <1>3, <1>5, <3>1
    <3>3. Tail(q) # <<>>
      <4>1. Len(Tail(q)) # 0
        BY <1>3, <1>5, <3>2
      <4> QED  BY <1>3, <1>4, <1>5, <4>1
    <3>4. \A i \in 1..Len(Tail(q)) : Tail(q)[i] = Stop <=> i = Len(Tail(q))
      <4> TAKE i \in 1..Len(Tail(q))
      <4>1. i + 1 \in 1..Len(q) /\ (i + 1 = Len(q) <=> i = Len(Tail(q)))
        BY <1>3, <1>5
      <4>2. Tail(q)[i] = q[i + 1]
        BY <1>3, <1>5
      <4> QED  BY <3>1, <4>1, <4>2
    <3> QED  BY <2>2, <3>3, <3>4 DEF InboxFits
  <2>3. CASE p # "closed"
    BY <1>3, <1>5, <2>1, <2>3 DEF InboxFits
  <2> QED  BY <2>2, <2>3
<1>6. ASSUME q # <<>>, Head(q) = Stop
      PROVE  p = "closed" /\ InboxFits(Tail(q), "draining", h)
  <2>1. p = "closed"
    BY <1>3, <1>6 DEF InboxFits
  <2>2. 1 \in 1..Len(q) /\ q[1] = Stop
    BY <1>3, <1>6
  <2>3. Tail(q) = <<>>
    <3>1. Len(q) = 1
      BY <2>1, <2>2 DEF InboxFits
    <3>2. Tail(q) \in Seq(Requests \cup {Stop}) /\ Len(Tail(q)) = 0
      BY <1>3, <1>6, <3>1
    <3> QED  BY <1>4, <3>2
  <2>4. InboxFits(<<>>, "draining", h)
    BY DEF InboxFits
  <2> QED  BY <2>1, <2>3, <2>4
<1> QED
  BY <1>1, <1>2, <1>5, <1>6


\* The queue of an application gets requests before its one stop, and an
\* application that has taken the stop ends with nothing to answer.
LEMMA AppsStopStep ==
  ASSUME IInv, PhasesFollow, AppsStopLast, Next
  PROVE  AppsStopLast'
<1>1. /\ inbox \in [Apps -> Seq(Requests \cup {Stop})]
      /\ phase \in [Apps -> {"open", "closed", "draining", "finished"}]
      /\ held \in [Apps -> SUBSET Requests]
  BY DEF IInv, TypeOK
<1>2. \A a \in Apps : InboxFits(inbox[a], phase[a], held[a])
  BY DEF AppsStopLast
<1>3. ASSUME NEW b \in Apps, NEW q, NEW p, NEW h,
             inbox' = [inbox EXCEPT ![b] = q],
             phase' = [phase EXCEPT ![b] = p],
             held' = [held EXCEPT ![b] = h],
             InboxFits(q, p, h)
      PROVE  AppsStopLast'
  <2> SUFFICES ASSUME NEW a \in Apps  PROVE InboxFits(inbox'[a], phase'[a], held'[a])
    BY DEF AppsStopLast
  <2>1. CASE a = b
    BY <1>1, <1>3, <2>1
  <2>2. CASE a # b
    BY <1>1, <1>2, <1>3, <2>2
  <2> QED  BY <2>1, <2>2
<1>4. ASSUME NEW r \in Requests, DispatcherRedirect(r)  PROVE AppsStopLast'
  <2> DEFINE a == route[r]
             q == Append(inbox[a], r)
  <2>1. /\ a \in Apps /\ phase[a] = "open"
        /\ inbox' = [inbox EXCEPT ![a] = q]
        /\ phase' = phase /\ held' = held
    BY <1>4 DEF DispatcherRedirect, DispatcherHead, PhasesFollow
  <2>2. InboxFits(q, phase[a], held[a])
    BY <1>1, <1>2, <2>1, InboxMoves
  <2> HIDE DEF a, q
  <2>3. /\ phase' = [phase EXCEPT ![a] = phase[a]]
        /\ held' = [held EXCEPT ![a] = held[a]]
    BY <1>1, <2>1
  <2> QED  BY ONLY <1>3, <2>1, <2>2, <2>3
<1>5. ASSUME NEW a \in Apps, DispatcherStopApp(a)  PROVE AppsStopLast'
  <2>1. /\ phase[a] = "open" /\ phase' = [phase EXCEPT ![a] = "closed"]
        /\ inbox' = [inbox EXCEPT ![a] = Append(inbox[a], Stop)]
        /\ held' = held
    BY <1>5 DEF DispatcherStopApp
  <2>2. InboxFits(Append(inbox[a], Stop), "closed", held[a])
    BY <1>1, <1>2, <2>1, InboxMoves
  <2>3. /\ held' = [held EXCEPT ![a] = held[a]]
    BY <1>1, <2>1
  <2> QED  BY <1>3, <2>1, <2>2, <2>3
<1>6. ASSUME NEW a \in Apps, AppTake(a)  PROVE AppsStopLast'
  <2> DEFINE g == held[a] \cup {Head(inbox[a])}
  <2>1. /\ inbox[a] # <<>> /\ Head(inbox[a]) # Stop
        /\ inbox' = [inbox EXCEPT ![a] = Tail(inbox[a])]
        /\ held' = [held EXCEPT ![a] = g]
        /\ phase' = phase
    BY <1>6 DEF AppTake
  <2> HIDE DEF g
  <2>2. InboxFits(Tail(inbox[a]), phase[a], g)
    <3>1. /\ inbox[a] \in Seq(Requests \cup {Stop})
          /\ phase[a] \in {"open", "closed", "draining", "finished"}
          /\ InboxFits(inbox[a], phase[a], held[a])
      BY <1>1, <1>2
    <3>2. \A s : InboxFits(Tail(inbox[a]), phase[a], s)
      BY <2>1, <3>1, InboxMoves
    <3> QED  BY <3>2
  <2>3. /\ phase' = [phase EXCEPT ![a] = phase[a]]
    BY <1>1, <2>1
  <2> QED  BY <1>3, <2>1, <2>2, <2>3
<1>7. ASSUME NEW a \in Apps, NEW r \in Requests, AppAnswer(a, r)
      PROVE  AppsStopLast'
  <2>1. /\ held' = [held EXCEPT ![a] = held[a] \ {r}]
        /\ inbox' = inbox /\ phase' = phase
    BY <1>7 DEF AppAnswer
  <2>2. InboxFits(inbox[a], phase[a], held[a] \ {r})
    BY <1>2 DEF InboxFits
  <2>3. /\ inbox' = [inbox EXCEPT ![a] = inbox[a]]
        /\ phase' = [phase EXCEPT ![a] = phase[a]]
    BY <1>1, <2>1
  <2> QED  BY <1>3, <2>1, <2>2, <2>3
<1>8. ASSUME NEW a \in Apps, AppDrain(a)  PROVE AppsStopLast'
  <2>1. /\ inbox[a] # <<>> /\ Head(inbox[a]) = Stop
        /\ inbox' = [inbox EXCEPT ![a] = Tail(inbox[a])]
        /\ phase' = [phase EXCEPT ![a] = "draining"] /\ held' = held
    BY <1>8 DEF AppDrain
  <2>2. InboxFits(Tail(inbox[a]), "draining", held[a])
    BY <1>1, <1>2, <2>1, InboxMoves
  <2>3. /\ held' = [held EXCEPT ![a] = held[a]]
    BY <1>1, <2>1
  <2> QED  BY <1>3, <2>1, <2>2, <2>3
<1>9. ASSUME NEW a \in Apps, StopApp(a)  PROVE AppsStopLast'
  <2>1. /\ phase[a] = "draining" /\ held[a] = {}
        /\ phase' = [phase EXCEPT ![a] = "finished"]
        /\ inbox' = inbox /\ held' = held
    BY <1>9 DEF StopApp
  <2>2. InboxFits(inbox[a], "finished", held[a])
    BY <1>2, <2>1 DEF InboxFits
  <2>3. /\ inbox' = [inbox EXCEPT ![a] = inbox[a]]
        /\ held' = [held EXCEPT ![a] = held[a]]
    BY <1>1, <2>1
  <2> QED  BY <1>3, <2>1, <2>2, <2>3
<1>10. ASSUME UNCHANGED <<inbox, phase, held>>  PROVE AppsStopLast'
  BY <1>10 DEF AppsStopLast
<1> QED
  BY <1>4, <1>5, <1>6, <1>7, <1>8, <1>9, <1>10 DEF Next, MainSteps, HandlerSteps,
     DispatcherSteps, SignalStop, StartApps, OpenSocket, Listen, StartThreads,
     SendStop, JoinHandlers, JoinDispatcher, RunReturns, Accept, AcceptFails,
     HandlerTake, HandlerParse, HandlerParseFails, HandlerCheckVersion, HandlerStop,
     DispatcherServeNotFound, DispatcherCountStop, DispatcherReturns, appVars

\* The applications are open while the dispatcher counts stops and closed when
\* it returns.
LEMMA PhasesStep ==
  ASSUME IInv, PhasesFollow, AppsStopLast, Next
  PROVE  PhasesFollow'
<1>1. /\ phase \in [Apps -> {"open", "closed", "draining", "finished"}]
      /\ inbox \in [Apps -> Seq(Requests \cup {Stop})]
      /\ dispatcher \in DispatcherStates
  BY DEF IInv, TypeOK
<1>2. \/ phase' = phase
      \/ /\ dispatcher.at = "stop" /\ dispatcher' = dispatcher
         /\ \E a \in Apps : phase' = [phase EXCEPT ![a] = "closed"]
      \/ /\ dispatcher' = dispatcher
         /\ \E a \in Apps :
              /\ phase[a] # "open"
              /\ \E p \in {"draining", "finished"} : phase' = [phase EXCEPT ![a] = p]
  <2>1. CASE \E a \in Apps : DispatcherStopApp(a)
    BY <2>1 DEF DispatcherStopApp
  <2>2. CASE \E a \in Apps : StopApp(a)
    BY <2>2 DEF StopApp
  <2>3. ASSUME NEW a \in Apps, AppDrain(a)
        PROVE  /\ dispatcher' = dispatcher /\ phase[a] # "open"
               /\ phase' = [phase EXCEPT ![a] = "draining"]
    <3>1. /\ inbox[a] # <<>> /\ Head(inbox[a]) = Stop
          /\ phase' = [phase EXCEPT ![a] = "draining"] /\ dispatcher' = dispatcher
      BY <2>3 DEF AppDrain
    <3>2. phase[a] = "closed"
      <4>1. InboxFits(inbox[a], phase[a], held[a])
        BY DEF AppsStopLast
      <4>2. /\ inbox[a] \in Seq(Requests \cup {Stop})
            /\ phase[a] \in {"open", "closed", "draining", "finished"}
        BY <1>1
      <4> QED  BY <3>1, <4>1, <4>2, InboxMoves
    <3> QED  BY <3>1, <3>2
  <2> QED
    BY <2>1, <2>2, <2>3 DEF Next, MainSteps, HandlerSteps, DispatcherSteps,
       SignalStop, StartApps, OpenSocket, Listen, StartThreads, SendStop,
       JoinHandlers, JoinDispatcher, RunReturns, Accept, AcceptFails, HandlerTake,
       HandlerParse, HandlerParseFails, HandlerCheckVersion, HandlerStop,
       DispatcherRedirect, DispatcherServeNotFound, DispatcherCountStop,
       DispatcherReturns, AppTake, AppAnswer, appVars
<1>3. \/ dispatcher' = dispatcher
      \/ phase' = phase /\ dispatcher.at \in {"unstarted", "take"} /\ dispatcher'.at \in {"take", "stop"}
      \/ /\ phase' = phase /\ dispatcher'.at = "done"
         /\ \A a \in Apps : phase[a] # "open"
  <2>1. CASE StartThreads
    BY <1>1, <2>1 DEF StartThreads, IInv, Locations, DispatcherStates, appVars
  <2>2. CASE DispatcherCountStop
    BY <1>1, <2>2 DEF DispatcherCountStop, DispatcherHead, DispatcherStates, appVars
  <2>3. CASE DispatcherReturns
    BY <1>1, <2>3 DEF DispatcherReturns, DispatcherStates, appVars
  <2> QED
    BY <2>1, <2>2, <2>3 DEF Next, MainSteps, HandlerSteps, DispatcherSteps,
       SignalStop, StartApps, OpenSocket, Listen, SendStop, JoinHandlers,
       JoinDispatcher, RunReturns, StopApp, Accept, AcceptFails, HandlerTake,
       HandlerParse, HandlerParseFails, HandlerCheckVersion, HandlerStop,
       DispatcherRedirect, DispatcherServeNotFound, DispatcherStopApp, AppTake,
       AppAnswer, AppDrain
<1> QED
  BY <1>1, <1>2, <1>3 DEF PhasesFollow


LEMMA InitShutdown == Init => ShutdownInv
<1> SUFFICES ASSUME Init  PROVE ShutdownInv
  OBVIOUS
<1>1. Range(<<>>) = {} /\ Waiting(<<>>) = {} /\ StopsBehind(<<>>)
  BY DEF Range, Waiting, StopsBehind
<1>2. HandlersStopLast
  BY <1>1 DEF Init, HandlersStopLast, Stopped
<1>3. MainJoins /\ PhasesFollow
  BY DEF Init, MainJoins, PhasesFollow
<1>4. AppsStopLast
  BY <1>1 DEF Init, AppsStopLast, InboxFits
<1> QED
  BY <1>2, <1>3, <1>4 DEF ShutdownInv

LEMMA ShutdownInductive == IInv /\ ShutdownInv /\ [Next]_vars => ShutdownInv'
<1> SUFFICES ASSUME IInv, ShutdownInv, [Next]_vars  PROVE ShutdownInv'
  OBVIOUS
<1>1. CASE Next
  BY <1>1, HandlersStopStep, MainJoinsStep, PhasesStep, AppsStopStep DEF ShutdownInv
<1>2. CASE UNCHANGED vars
  BY <1>2 DEF vars, ShutdownInv, HandlersStopLast, MainJoins, PhasesFollow,
              AppsStopLast, Stopped, Done
<1> QED
  BY <1>1, <1>2

LEMMA ShutdownInvariance == SafeSpec => []ShutdownInv
BY InitShutdown, Invariance, ShutdownInductive, PTL DEF SafeSpec

\* When HttpServer::run() returns, every accepted connection was served, every
\* request answered once and every object deleted, whatever was on its way when
\* the signal came.
THEOREM DrainsCompletely == Http10 = {} /\ SafeSpec => []StopDrains
<1>1. IInv /\ OwnersInv /\ ShutdownInv /\ DispatcherStopsLast => StopDrains
  <2> SUFFICES ASSUME IInv, OwnersInv, ShutdownInv, DispatcherStopsLast,
                      main.at = "done"
               PROVE  /\ Range(serverQueue) \subseteq {Stop}
                      /\ \A c \in Connections : \A i \in 1..MaxRequests :
                           replies[<<c, i>>] = IF i <= made[c] THEN 1 ELSE 0
                      /\ \A a \in Apps : inbox[a] = <<>> /\ held[a] = {}
                      /\ requestObjs = {} /\ responseObjs = {}
    BY DEF StopDrains
  <2>1. /\ Done = Handlers /\ dispatcher.at = "done"
        /\ \A a \in Apps : phase[a] = "finished"
    BY DEF ShutdownInv, MainJoins
  <2>2. Range(serverQueue) \subseteq {Stop}
    <3>1. Stopped # {}
      BY <2>1, HandlersAssumption DEF Stopped, Done
    <3> QED  BY <3>1 DEF ShutdownInv, HandlersStopLast, Waiting
  <2>3. dispatcherQueue = <<>>
    BY <2>1 DEF DispatcherStopsLast
  <2>4. \A a \in Apps : inbox[a] = <<>> /\ held[a] = {}
    BY <2>1 DEF ShutdownInv, AppsStopLast, InboxFits
  <2>5. requestObjs = {} /\ responseObjs = {}
    <3>1. Waiting(<<>>) = {}
      BY DEF Waiting, Range
    <3>2. \A a \in Apps : Pending(a) = {}
      BY <2>4, <3>1 DEF Pending
    <3>3. requestObjs \subseteq Requests /\ responseObjs = requestObjs
      BY DEF IInv, TypeOK, OwnersInv, ObjectsOwned
    <3> QED  BY <2>3, <3>1, <3>2, <3>3 DEF OwnersInv, ObjectsOwned
  <2>6. \A r \in Requests : replies[r] = IF Made(r) THEN 1 ELSE 0
    BY <2>5 DEF OwnersInv, RepliesAccounted
  <2>7. ASSUME NEW c \in Connections, NEW i \in 1..MaxRequests
        PROVE  replies[<<c, i>>] = IF i <= made[c] THEN 1 ELSE 0
    <3>1. <<c, i>> \in Requests /\ (Made(<<c, i>>) <=> i <= made[c])
      BY DEF Requests, Made
    <3> QED  BY <2>6, <3>1
  <2> QED  BY <2>2, <2>4, <2>5, <2>7
<1> QED
  BY <1>1, Invariance, OwnersInvariance, ShutdownInvariance, StopsLast, PTL

-----------------------------------------------------------------------------
(* The server is the environment of its applications                       *)

\* What application a sees of the replies.
Seen(a) == [r \in Requests |-> IF route[r] = a THEN replies[r] ELSE 0]

LEMMA InitService ==
  ASSUME Init, NEW a \in Apps
  PROVE  Service(a)!Init
BY DEF Init, Service!Init

\* A step that leaves the application's queue, phase and threads alone, and the
\* replies to its requests, is none of its steps.
LEMMA ServiceStutter ==
  ASSUME NEW a \in Apps, inbox'[a] = inbox[a], phase'[a] = phase[a],
         held'[a] = held[a], Seen(a)' = Seen(a)
  PROVE  UNCHANGED Service(a)!serviceVars
BY DEF Service!serviceVars, Seen

\* Only an answer changes a reply.
LEMMA SameReplies ==
  ASSUME NEW a \in Apps, UNCHANGED <<route, replies>>
  PROVE  Seen(a)' = Seen(a)
BY DEF Seen

\* An answer is seen by the application the request is for, and no other.
LEMMA AnswerSeen ==
  ASSUME IInv, OwnersInv, NEW r \in Requests, replies[r] = 0,
         replies' = Answered(r), route' = route, NEW a \in Apps
  PROVE  Seen(a)' = IF route[r] = a THEN [Seen(a) EXCEPT ![r] = 1] ELSE Seen(a)
<1>1. replies' = [replies EXCEPT ![r] = 1]
  BY DEF OwnersInv, NothingClosed, Answered, IInv, TypeOK
<1>2. replies \in [Requests -> Nat]
  BY DEF IInv, TypeOK
<1> QED
  BY <1>1, <1>2 DEF Seen

\* For each application, a step is one of AppService's or none.
LEMMA ServiceStep ==
  ASSUME IInv, OwnersInv, ShutdownInv, Next, NEW a \in Apps
  PROVE  [Service(a)!Next]_(Service(a)!serviceVars)
<1> DEFINE Goal == [Service(a)!Next]_(Service(a)!serviceVars)
<1> SUFFICES Goal
  OBVIOUS
<1>0. /\ inbox \in [Apps -> Seq(Requests \cup {Stop})]
      /\ phase \in [Apps -> {"open", "closed", "draining", "finished"}]
      /\ held \in [Apps -> SUBSET Requests]
      /\ route \in [Requests -> Routes]
  BY DEF IInv, TypeOK
<1>1. ASSUME UNCHANGED <<inbox, phase, held>>, Seen(a)' = Seen(a)  PROVE Goal
  BY <1>1, ServiceStutter
<1>2. ASSUME UNCHANGED <<inbox, phase, held, route, replies>>  PROVE Goal
  BY <1>1, <1>2, SameReplies
<1>3. ASSUME NEW h \in Handlers, NEW key \in Routes, HandlerParse(h, key)  PROVE Goal
  <2> DEFINE c == handler[h].conn
             r == <<c, made[c] + 1>>
  <2>1. /\ route' = [route EXCEPT ![r] = key]
        /\ UNCHANGED <<inbox, phase, held, replies>>
    BY <1>3 DEF HandlerParse, appVars, clientVars
  <2>2. r \in Requests /\ ~Made(r)
    BY <1>3, RequestsAssumption
       DEF IInv, TypeOK, HandlerParse, Locations, Requests, Made
  <2> HIDE DEF c, r
  <2>3. replies[r] = 0
    BY <2>2 DEF OwnersInv, RepliesAccounted
  <2>4. \A s \in Requests :
          (IF route'[s] = a THEN replies'[s] ELSE 0) = IF route[s] = a THEN replies[s] ELSE 0
    BY <1>0, <2>1, <2>3
  <2>5. Seen(a)' = Seen(a)
    BY <2>4 DEF Seen
  <2> QED  BY <1>1, <2>1, <2>5
<1>4. ASSUME NEW r \in Requests, DispatcherRedirect(r)  PROVE Goal
  <2>1. /\ route[r] \in Apps /\ inbox' = [inbox EXCEPT ![route[r]] = Append(@, r)]
        /\ UNCHANGED <<phase, held, route, replies>> /\ phase[a] = "open"
    BY <1>4 DEF DispatcherRedirect, DispatcherHead, ShutdownInv, PhasesFollow,
                readVars, clientVars
  <2>2. Seen(a)' = Seen(a)
    BY <2>1, SameReplies
  <2>3. CASE route[r] = a
    <3>1. inbox'[a] = Append(inbox[a], r)
      BY <1>0, <2>1, <2>3
    <3>2. Service(a)!Submit(r)
      BY <2>1, <2>2, <3>1 DEF Service!Submit, Seen
    <3> QED  BY <3>2 DEF Service!Next
  <2>4. CASE route[r] # a
    BY <1>0, <2>1, <2>2, <2>4, ServiceStutter
  <2> QED  BY <2>3, <2>4
<1>5. ASSUME NEW r \in Requests, DispatcherServeNotFound(r)  PROVE Goal
  <2>1. /\ DispatcherHead(r) /\ route[r] # a /\ replies' = Answered(r)
        /\ UNCHANGED <<inbox, phase, held, route>>
    BY <1>5, AppsAssumption DEF DispatcherServeNotFound, readVars, appVars
  <2>2. replies[r] = 0
    BY <2>1, HeadOwned
  <2>3. Seen(a)' = Seen(a)
    BY <2>1, <2>2, AnswerSeen
  <2> QED  BY <1>1, <2>1, <2>3
<1>6. ASSUME NEW b \in Apps, DispatcherStopApp(b)  PROVE Goal
  <2>1. /\ phase[b] = "open" /\ phase' = [phase EXCEPT ![b] = "closed"]
        /\ inbox' = [inbox EXCEPT ![b] = Append(@, Stop)]
        /\ UNCHANGED <<held, route, replies>>
    BY <1>6 DEF DispatcherStopApp, readVars, clientVars
  <2>2. Seen(a)' = Seen(a)
    BY <2>1, SameReplies
  <2>3. CASE a = b
    <3>1. inbox'[a] = Append(inbox[a], Stop) /\ phase'[a] = "closed"
      BY <1>0, <2>1, <2>3
    <3>2. Service(a)!Close
      BY <2>1, <2>2, <2>3, <3>1 DEF Service!Close, Seen
    <3> QED  BY <3>2 DEF Service!Next
  <2>4. CASE a # b
    BY <1>0, <2>1, <2>2, <2>4, ServiceStutter
  <2> QED  BY <2>3, <2>4
<1>7. ASSUME NEW b \in Apps, AppTake(b)  PROVE Goal
  <2>1. /\ inbox[b] # <<>> /\ Head(inbox[b]) # Stop
        /\ inbox' = [inbox EXCEPT ![b] = Tail(@)]
        /\ held' = [held EXCEPT ![b] = @ \cup {Head(inbox[b])}]
        /\ UNCHANGED <<phase, route, replies>>
    BY <1>7 DEF AppTake, readVars, clientVars
  <2>2. Seen(a)' = Seen(a)
    BY <2>1, SameReplies
  <2>3. CASE a = b
    <3>1. inbox'[a] = Tail(inbox[a]) /\ held'[a] = held[a] \cup {Head(inbox[a])}
      BY <1>0, <2>1, <2>3
    <3>2. Service(a)!Take
      BY <2>1, <2>2, <2>3, <3>1 DEF Service!Take, Seen
    <3> QED  BY <3>2 DEF Service!Next, Service!Work
  <2>4. CASE a # b
    BY <1>0, <2>1, <2>2, <2>4, ServiceStutter
  <2> QED  BY <2>3, <2>4
<1>8. ASSUME NEW b \in Apps, NEW r \in Requests, AppAnswer(b, r)  PROVE Goal
  <2>1. /\ r \in held[b] /\ held' = [held EXCEPT ![b] = @ \ {r}]
        /\ replies' = Answered(r)
        /\ UNCHANGED <<inbox, phase, route>>
    BY <1>8 DEF AppAnswer, readVars
  <2>2. r \in Pending(b)
    BY <2>1 DEF Pending
  <2>3. route[r] = b /\ r \in requestObjs
    BY <2>2 DEF OwnersInv, OneOwner, ObjectsOwned
  <2>4. replies[r] = 0
    BY <2>3 DEF OwnersInv, RepliesAccounted
  <2>5. Seen(a)' = IF route[r] = a THEN [Seen(a) EXCEPT ![r] = 1] ELSE Seen(a)
    BY <2>1, <2>4, AnswerSeen
  <2>6. CASE a = b
    <3>1. held'[a] = held[a] \ {r} /\ r \in held[a] /\ Seen(a)[r] = 0
          /\ Seen(a)' = [Seen(a) EXCEPT ![r] = 1]
      BY <1>0, <2>1, <2>3, <2>4, <2>5, <2>6 DEF Seen
    <3>2. Service(a)!Answer(r)
      BY <2>1, <3>1 DEF Service!Answer, Seen
    <3> QED  BY <3>2 DEF Service!Next, Service!Work
  <2>7. CASE a # b
    BY <1>0, <2>1, <2>3, <2>5, <2>7, ServiceStutter
  <2> QED  BY <2>6, <2>7
<1>9. ASSUME NEW b \in Apps, AppDrain(b)  PROVE Goal
  <2>1. /\ inbox[b] # <<>> /\ Head(inbox[b]) = Stop
        /\ inbox' = [inbox EXCEPT ![b] = Tail(@)]
        /\ phase' = [phase EXCEPT ![b] = "draining"]
        /\ UNCHANGED <<held, route, replies>>
    BY <1>9 DEF AppDrain, readVars, clientVars
  <2>2. Seen(a)' = Seen(a)
    BY <2>1, SameReplies
  <2>3. CASE a = b
    <3>1. inbox'[a] = Tail(inbox[a]) /\ phase'[a] = "draining"
      BY <1>0, <2>1, <2>3
    <3>2. Service(a)!Drain
      BY <2>1, <2>2, <2>3, <3>1 DEF Service!Drain, Seen
    <3> QED  BY <3>2 DEF Service!Next, Service!Work
  <2>4. CASE a # b
    BY <1>0, <2>1, <2>2, <2>4, ServiceStutter
  <2> QED  BY <2>3, <2>4
<1>10. ASSUME NEW b \in Apps, StopApp(b)  PROVE Goal
  <2>1. /\ phase[b] = "draining" /\ held[b] = {}
        /\ phase' = [phase EXCEPT ![b] = "finished"]
        /\ UNCHANGED <<inbox, held, route, replies>>
    BY <1>10 DEF StopApp, readVars, clientVars
  <2>2. Seen(a)' = Seen(a)
    BY <2>1, SameReplies
  <2>3. CASE a = b
    <3>1. phase'[a] = "finished"
      BY <1>0, <2>1, <2>3
    <3>2. Service(a)!Finish
      BY <2>1, <2>2, <2>3, <3>1 DEF Service!Finish, Seen
    <3> QED  BY <3>2 DEF Service!Next, Service!Work
  <2>4. CASE a # b
    BY <1>0, <2>1, <2>2, <2>4, ServiceStutter
  <2> QED  BY <2>3, <2>4
<1> HIDE DEF Goal
<1>11. CASE SignalStop \/ AcceptFails \/ (\E c \in Connections : Accept(c))
            \/ StartApps \/ OpenSocket \/ Listen \/ StartThreads \/ SendStop
            \/ JoinHandlers \/ JoinDispatcher \/ RunReturns
            \/ DispatcherCountStop \/ DispatcherReturns
            \/ (\E h \in Handlers : HandlerTake(h) \/ HandlerParseFails(h)
                                      \/ HandlerCheckVersion(h) \/ HandlerStop(h))
  <2>1. UNCHANGED <<inbox, phase, held, route, replies>>
    BY <1>11 DEF SignalStop, AcceptFails, Accept, StartApps, OpenSocket, Listen,
       StartThreads, SendStop, JoinHandlers, JoinDispatcher, RunReturns,
       DispatcherCountStop, DispatcherReturns, HandlerTake, HandlerParseFails,
       HandlerCheckVersion, HandlerStop, readVars, appVars, clientVars
  <2> QED  BY <1>2, <2>1
<1>12. ASSUME NEW h \in Handlers, HandlerSteps(h)  PROVE Goal
  BY <1>3, <1>11, <1>12 DEF HandlerSteps
<1>13. CASE DispatcherSteps
  BY <1>4, <1>5, <1>6, <1>11, <1>13 DEF DispatcherSteps
<1>14. CASE MainSteps
  BY <1>10, <1>11, <1>14 DEF MainSteps
<1> QED
  BY <1>6, <1>7, <1>8, <1>9, <1>11, <1>12, <1>13, <1>14 DEF Next

\* HttpDispatcher gives each application its requests and then one stop, and
\* each request is answered once: with PipelineIsService of WebApp_proofs, the
\* two sides of the queue between them keep the same contract.
THEOREM ServerIsEnvironment ==
  Http10 = {} /\ SafeSpec =>
    /\ \A a \in Apps : Service(a)!Init
    /\ [][\A a \in Apps : [Service(a)!Next]_(Service(a)!serviceVars)]_vars
<1>1. Init => \A a \in Apps : Service(a)!Init
  BY InitService
<1>2. IInv /\ OwnersInv /\ ShutdownInv /\ [Next]_vars =>
        [\A a \in Apps : [Service(a)!Next]_(Service(a)!serviceVars)]_vars
  BY ServiceStep
<1> QED
  BY <1>1, <1>2, Invariance, OwnersInvariance, ShutdownInvariance, PTL DEF SafeSpec

=============================================================================
