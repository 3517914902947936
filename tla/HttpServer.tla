----------------------------- MODULE HttpServer -----------------------------
(***************************************************************************)
(* The web server of project1, from main() to its return.                  *)
(*                                                                         *)
(*   main thread -> serverQueue -> handlers -> dispatcherQueue             *)
(*               -> dispatcher -> the queue of each application            *)
(*                                                                         *)
(* The main thread accepts connections, each HttpConnectionHandler reads   *)
(* the requests of one connection at a time, the dispatcher routes them.   *)
(* A signal closes the listening socket; accept() then throws and run()    *)
(* shuts the server down in its catch.  Queue operations are atomic (see   *)
(* ConcurrentQueue); an application is an AppService (see WebApp).         *)
(***************************************************************************)
EXTENDS Naturals, Sequences, FiniteSets, SequencesExt

CONSTANTS
  Connections,    \* the connections clients open, each one once
  MaxRequests,    \* bound: requests a client sends on a connection
  Handlers,       \* the connection handlers, max_connection of them
  Apps,           \* the registered web applications
  NotFound,       \* the route of a request no application's ID is a prefix of
  Http10,         \* connections whose client speaks HTTP/1.0
  Stop            \* the stop conditions Socket() and reqRes()

ASSUME ConnectionsAssumption ==
  Stop \notin Connections /\ Http10 \subseteq Connections

ASSUME HandlersAssumption == IsFiniteSet(Handlers) /\ Handlers # {}

ASSUME AppsAssumption == NotFound \notin Apps

ASSUME RequestsAssumption ==
  /\ MaxRequests \in Nat
  /\ Stop \notin Connections \X Nat

VARIABLES
  main,             \* [at, stops]: the main thread; stops sent to serverQueue
  listener,         \* connectionRequestSocket: "none" (-1), "open" or "closed"
  stopCalled,       \* history: HttpServer::stop() has been called
  accepted,         \* history: the connections accepted
  serverQueue,
  handler,          \* handler[h]: [at, conn]
  made,             \* made[c]: requests read from c
  dispatcherQueue,
  dispatcher,       \* [at, stops]
  route,            \* route[r]: the application r is for, or NotFound
  inbox,            \* inbox[a]: the queue of application a
  phase,            \* phase[a]: see AppService
  held,             \* held[a]: requests a has taken and not answered
  requestObjs,      \* the HttpRequest objects that are allocated
  responseObjs,     \* the HttpResponse objects that are allocated
  heapSound,        \* FALSE once a deleted object is used or deleted, but for
                    \* the handler's late read of a version (see ReadsDeleted)
  closed,           \* the connections a handler has closed
  replies           \* replies[r]: responses sent for r

vars == <<main, listener, stopCalled, accepted, serverQueue, handler, made,
          dispatcherQueue, dispatcher, route, inbox, phase, held, requestObjs,
          responseObjs, heapSound, closed, replies>>

mainVars == <<main, listener, stopCalled, accepted>>
readVars == <<made, route>>
appVars == <<inbox, phase, held>>
heapVars == <<requestObjs, responseObjs, heapSound>>
clientVars == <<closed, replies>>

Requests == Connections \X (1..MaxRequests)

Routes == Apps \cup {NotFound}

NoConnection == Stop

MainStates ==
  [at : {"startApps", "open", "listen", "startThreads", "accept", "sendStops",
         "joinHandlers", "joinDispatcher", "stopApps", "done", "aborted"},
   stops : 0..(Cardinality(Handlers) + 2)]

HandlerStates ==
  [at : {"unstarted", "take", "parse", "check", "stop", "done"},
   conn : Connections \cup {NoConnection}]

DispatcherStates ==
  [at : {"unstarted", "take", "stop", "done"},
   stops : 0..Cardinality(Handlers)]

TypeOK ==
  /\ main \in MainStates
  /\ listener \in {"none", "open", "closed"}
  /\ stopCalled \in BOOLEAN
  /\ accepted \subseteq Connections
  /\ serverQueue \in Seq(Connections \cup {Stop})
  /\ handler \in [Handlers -> HandlerStates]
  /\ made \in [Connections -> 0..MaxRequests]
  /\ dispatcherQueue \in Seq(Requests \cup {Stop})
  /\ dispatcher \in DispatcherStates
  /\ route \in [Requests -> Routes]
  /\ inbox \in [Apps -> Seq(Requests \cup {Stop})]
  /\ phase \in [Apps -> {"open", "closed", "draining", "finished"}]
  /\ held \in [Apps -> SUBSET Requests]
  /\ requestObjs \subseteq Requests
  /\ responseObjs \subseteq Requests
  /\ heapSound \in BOOLEAN
  /\ closed \subseteq Connections
  /\ replies \in [Requests -> Nat]

Init ==
  /\ main = [at |-> "startApps", stops |-> 0]
  /\ listener = "none"
  /\ stopCalled = FALSE
  /\ accepted = {}
  /\ serverQueue = <<>>
  /\ handler = [h \in Handlers |-> [at |-> "unstarted", conn |-> NoConnection]]
  /\ made = [c \in Connections |-> 0]
  /\ dispatcherQueue = <<>>
  /\ dispatcher = [at |-> "unstarted", stops |-> 0]
  /\ route = [r \in Requests |-> NotFound]
  /\ inbox = [a \in Apps |-> <<>>]
  /\ phase = [a \in Apps |-> "open"]
  /\ held = [a \in Apps |-> {}]
  /\ requestObjs = {}
  /\ responseObjs = {}
  /\ heapSound = TRUE
  /\ closed = {}
  /\ replies = [r \in Requests |-> 0]

-----------------------------------------------------------------------------
(* signalHandler(), which runs on top of the main thread                   *)

\* stopListening(): without a listening socket there is nothing to close, and
\* closing again a descriptor that is closed changes nothing.
SignalStop ==
  /\ main.at \notin {"done", "aborted"}
  /\ stopCalled' = TRUE
  /\ listener' = IF listener = "open" THEN "closed" ELSE listener
  /\ UNCHANGED <<main, accepted, serverQueue, handler, readVars,
                 dispatcherQueue, dispatcher, appVars, heapVars, clientVars>>

-----------------------------------------------------------------------------
(* HttpServer::run()                                                       *)

MainGoto(location) == main' = [main EXCEPT !.at = location]

StartApps ==
  /\ main.at = "startApps"
  /\ MainGoto("open")
  /\ UNCHANGED <<listener, stopCalled, accepted, serverQueue, handler, readVars,
                 dispatcherQueue, dispatcher, appVars, heapVars, clientVars>>

\* openConnectionRequestSocket(); no address may be free, which throws.
OpenSocket ==
  /\ main.at = "open"
  /\ \/ listener' = "open" /\ MainGoto("listen")
     \/ listener' = listener /\ MainGoto("sendStops")
  /\ UNCHANGED <<stopCalled, accepted, serverQueue, handler, readVars,
                 dispatcherQueue, dispatcher, appVars, heapVars, clientVars>>

\* ::listen() may fail, and does if a signal has closed the socket.
Listen ==
  /\ main.at = "listen"
  /\ \/ listener = "open" /\ MainGoto("startThreads")
     \/ MainGoto("sendStops")
  /\ UNCHANGED <<listener, stopCalled, accepted, serverQueue, handler, readVars,
                 dispatcherQueue, dispatcher, appVars, heapVars, clientVars>>

StartThreads ==
  /\ main.at = "startThreads"
  /\ MainGoto("accept")
  /\ handler' = [h \in Handlers |-> [handler[h] EXCEPT !.at = "take"]]
  /\ dispatcher' = [dispatcher EXCEPT !.at = "take"]
  /\ UNCHANGED <<listener, stopCalled, accepted, serverQueue, readVars,
                 dispatcherQueue, appVars, heapVars, clientVars>>

Accept(c) ==
  /\ main.at = "accept"
  /\ listener = "open"
  /\ c \notin accepted
  /\ accepted' = accepted \cup {c}
  /\ serverQueue' = Append(serverQueue, c)
  /\ UNCHANGED <<main, listener, stopCalled, handler, readVars,
                 dispatcherQueue, dispatcher, appVars, heapVars, clientVars>>

\* accept() fails when stop() has closed the socket; the operating system may
\* also report an error of the connection itself.  Both throw.
AcceptFails ==
  /\ main.at = "accept"
  /\ MainGoto("sendStops")
  /\ UNCHANGED <<listener, stopCalled, accepted, serverQueue, handler, readVars,
                 dispatcherQueue, dispatcher, appVars, heapVars, clientVars>>

\* Mutant: the loop's condition is <=.
SendStopTooMany ==
  /\ main.at = "sendStops"
  /\ serverQueue' = Append(serverQueue, Stop)
  /\ main' = [stops |-> main.stops + 1,
              at |-> IF main.stops + 1 = Cardinality(Handlers) + 3
                     THEN "joinHandlers" ELSE "sendStops"]
  /\ UNCHANGED <<listener, stopCalled, accepted, handler, readVars,
                 dispatcherQueue, dispatcher, appVars, heapVars, clientVars>>

\* Mutant: one stop is put in the queue for all the handlers.
SendStopOnce ==
  /\ main.at = "sendStops"
  /\ serverQueue' = Append(serverQueue, Stop)
  /\ MainGoto("joinHandlers")
  /\ UNCHANGED <<listener, stopCalled, accepted, handler, readVars,
                 dispatcherQueue, dispatcher, appVars, heapVars, clientVars>>

\* One turn of the loop up to max_connection + 2.
SendStop ==
  /\ main.at = "sendStops"
  /\ serverQueue' = Append(serverQueue, Stop)
  /\ main' = [stops |-> main.stops + 1,
              at |-> IF main.stops + 1 = Cardinality(Handlers) + 2
                     THEN "joinHandlers" ELSE "sendStops"]
  /\ UNCHANGED <<listener, stopCalled, accepted, handler, readVars,
                 dispatcherQueue, dispatcher, appVars, heapVars, clientVars>>

\* waitToFinish() of every handler asserts that its thread was started.
JoinHandlers ==
  /\ main.at = "joinHandlers"
  /\ \/ /\ \A h \in Handlers : handler[h].at = "done"
        /\ MainGoto("joinDispatcher")
     \/ /\ \E h \in Handlers : handler[h].at = "unstarted"
        /\ MainGoto("aborted")
  /\ UNCHANGED <<listener, stopCalled, accepted, serverQueue, handler, readVars,
                 dispatcherQueue, dispatcher, appVars, heapVars, clientVars>>

\* After the join the handlers, serverQueue and the dispatcher are deleted.
JoinDispatcher ==
  /\ main.at = "joinDispatcher"
  /\ dispatcher.at = "done"
  /\ MainGoto("stopApps")
  /\ UNCHANGED <<listener, stopCalled, accepted, serverQueue, handler, readVars,
                 dispatcherQueue, dispatcher, appVars, heapVars, clientVars>>

\* a's stop() returns.
StopApp(a) ==
  /\ main.at = "stopApps"
  /\ phase[a] = "draining"
  /\ held[a] = {}
  /\ phase' = [phase EXCEPT ![a] = "finished"]
  /\ UNCHANGED <<mainVars, serverQueue, handler, readVars, dispatcherQueue,
                 dispatcher, inbox, held, heapVars, clientVars>>

RunReturns ==
  /\ main.at = "stopApps"
  /\ \A a \in Apps : phase[a] = "finished"
  /\ MainGoto("done")
  /\ UNCHANGED <<listener, stopCalled, accepted, serverQueue, handler, readVars,
                 dispatcherQueue, dispatcher, appVars, heapVars, clientVars>>

-----------------------------------------------------------------------------
(* HttpConnectionHandler                                                   *)

HandlerTake(h) ==
  /\ handler[h].at = "take"
  /\ serverQueue # <<>>
  /\ serverQueue' = Tail(serverQueue)
  /\ handler' = [handler EXCEPT
       ![h] = [at |-> IF Head(serverQueue) = Stop THEN "stop" ELSE "parse",
               conn |-> Head(serverQueue)]]
  /\ UNCHANGED <<mainVars, readVars, dispatcherQueue, dispatcher, appVars,
                 heapVars, clientVars>>

\* The request the handler has read last.
Current(h) == <<handler[h].conn, made[handler[h].conn]>>

\* parse() succeeds; the request and its response go to the dispatcher.
HandlerParse(h, key) ==
  /\ handler[h].at = "parse"
  /\ made[handler[h].conn] < MaxRequests
  /\ LET c == handler[h].conn
         r == <<c, made[c] + 1>>
     IN  /\ made' = [made EXCEPT ![c] = @ + 1]
         /\ route' = [route EXCEPT ![r] = key]
         /\ requestObjs' = requestObjs \cup {r}
         /\ responseObjs' = responseObjs \cup {r}
         /\ dispatcherQueue' = Append(dispatcherQueue, r)
  /\ handler' = [handler EXCEPT ![h].at = "check"]
  /\ UNCHANGED <<mainVars, serverQueue, dispatcher, appVars, heapSound,
                 clientVars>>

\* parse() fails: the client sent something else or ended the connection.
HandlerParseFails(h) ==
  /\ handler[h].at = "parse"
  /\ handler' = [handler EXCEPT ![h] = [at |-> "take", conn |-> NoConnection]]
  /\ UNCHANGED <<mainVars, serverQueue, readVars, dispatcherQueue, dispatcher,
                 appVars, heapVars, clientVars>>

Version(c) == IF c \in Http10 THEN "HTTP/1.0" ELSE "HTTP/1.1"

\* The request was handed over, answered and deleted before the handler reads
\* its version: a use after delete, the one heapSound does not record.
ReadsDeleted(h) == handler[h].at = "check" /\ Current(h) \notin requestObjs

\* What getHttpVersion() may return.  The memory of a deleted request may be
\* another request's.
VersionsRead(h) ==
  {Version(handler[h].conn)} \cup
    (IF ReadsDeleted(h) THEN {Version(r[1]) : r \in requestObjs} ELSE {})

\* Mutant: the condition on the version is inverted.
HandlerCheckVersionInverted(h) ==
  /\ handler[h].at = "check"
  /\ \E version \in VersionsRead(h) :
       IF version # "HTTP/1.0"
       THEN LET r == Current(h)
            IN  /\ heapSound' = (r \in requestObjs /\ r \in responseObjs)
                /\ requestObjs' = requestObjs \ {r}
                /\ responseObjs' = responseObjs \ {r}
                /\ closed' = closed \cup {handler[h].conn}
                /\ handler' = [handler EXCEPT
                     ![h] = [at |-> "take", conn |-> NoConnection]]
       ELSE /\ handler' = [handler EXCEPT ![h].at = "parse"]
            /\ UNCHANGED <<heapVars, closed>>
  /\ UNCHANGED <<mainVars, serverQueue, readVars, dispatcherQueue, dispatcher,
                 appVars, replies>>

\* handleHttpRequest() returned true: only the version decides.
HandlerCheckVersion(h) ==
  /\ handler[h].at = "check"
  /\ \E version \in VersionsRead(h) :
       IF version = "HTTP/1.0"
       THEN LET r == Current(h)
            IN  /\ heapSound' = (r \in requestObjs /\ r \in responseObjs)
                /\ requestObjs' = requestObjs \ {r}
                /\ responseObjs' = responseObjs \ {r}
                /\ closed' = closed \cup {handler[h].conn}
                /\ handler' = [handler EXCEPT
                     ![h] = [at |-> "take", conn |-> NoConnection]]
       ELSE /\ handler' = [handler EXCEPT ![h].at = "parse"]
            /\ UNCHANGED <<heapVars, closed>>
  /\ UNCHANGED <<mainVars, serverQueue, readVars, dispatcherQueue, dispatcher,
                 appVars, replies>>

HandlerStop(h) ==
  /\ handler[h].at = "stop"
  /\ dispatcherQueue' = Append(dispatcherQueue, Stop)
  /\ handler' = [handler EXCEPT ![h].at = "done"]
  /\ UNCHANGED <<mainVars, serverQueue, readVars, dispatcher, appVars, heapVars,
                 clientVars>>

-----------------------------------------------------------------------------
(* HttpDispatcher                                                          *)

DispatcherHead(x) ==
  /\ dispatcher.at = "take"
  /\ dispatcherQueue # <<>>
  /\ x = Head(dispatcherQueue)
  /\ dispatcherQueue' = Tail(dispatcherQueue)

\* extractKey() reads the request's URI.
DispatcherRedirect(r) ==
  /\ DispatcherHead(r)
  /\ route[r] \in Apps
  /\ heapSound' = (r \in requestObjs)
  /\ inbox' = [inbox EXCEPT ![route[r]] = Append(@, r)]
  /\ UNCHANGED <<mainVars, serverQueue, handler, readVars, dispatcher, phase,
                 held, requestObjs, responseObjs, clientVars>>

\* A response is sent unless its connection has been closed.
Answered(r) == [replies EXCEPT ![r] = IF r[1] \in closed THEN @ ELSE @ + 1]

\* Mutant: the request is not deleted.
DispatcherServeNotFoundLeak(r) ==
  /\ DispatcherHead(r)
  /\ route[r] = NotFound
  /\ heapSound' = (r \in requestObjs /\ r \in responseObjs)
  /\ replies' = Answered(r)
  /\ responseObjs' = responseObjs \ {r}
  /\ UNCHANGED <<mainVars, serverQueue, handler, readVars, dispatcher, appVars,
                 requestObjs, closed>>

\* Mutant: the response is built and deleted, but not sent.
DispatcherServeNotFoundUnsent(r) ==
  /\ DispatcherHead(r)
  /\ route[r] = NotFound
  /\ heapSound' = (r \in requestObjs /\ r \in responseObjs)
  /\ requestObjs' = requestObjs \ {r}
  /\ responseObjs' = responseObjs \ {r}
  /\ UNCHANGED <<mainVars, serverQueue, handler, readVars, dispatcher, appVars,
                 clientVars>>

DispatcherServeNotFound(r) ==
  /\ DispatcherHead(r)
  /\ route[r] = NotFound
  /\ heapSound' = (r \in requestObjs /\ r \in responseObjs)
  /\ replies' = Answered(r)
  /\ requestObjs' = requestObjs \ {r}
  /\ responseObjs' = responseObjs \ {r}
  /\ UNCHANGED <<mainVars, serverQueue, handler, readVars, dispatcher, appVars,
                 closed>>

\* Mutant: the first handler's stop is taken for the last one.
DispatcherCountFirstStop ==
  /\ DispatcherHead(Stop)
  /\ dispatcher' = [stops |-> dispatcher.stops + 1, at |-> "stop"]
  /\ UNCHANGED <<mainVars, serverQueue, handler, readVars, appVars, heapVars,
                 clientVars>>

\* Mutant: each handler's stop is passed on to the applications.
DispatcherForwardStop ==
  /\ DispatcherHead(Stop)
  /\ dispatcher' = [stops |-> dispatcher.stops + 1,
                    at |-> IF dispatcher.stops + 1 = Cardinality(Handlers)
                           THEN "stop" ELSE "take"]
  /\ inbox' = [a \in Apps |-> Append(inbox[a], Stop)]
  /\ phase' = [a \in Apps |-> "closed"]
  /\ UNCHANGED <<mainVars, serverQueue, handler, readVars, held, heapVars,
                 clientVars>>

\* consumeForever() returned: one more handler has finished.
DispatcherCountStop ==
  /\ DispatcherHead(Stop)
  /\ dispatcher' = [stops |-> dispatcher.stops + 1,
                    at |-> IF dispatcher.stops + 1 = Cardinality(Handlers)
                           THEN "stop" ELSE "take"]
  /\ UNCHANGED <<mainVars, serverQueue, handler, readVars, appVars, heapVars,
                 clientVars>>

\* One turn of the loop that sends a stop to every application.
DispatcherStopApp(a) ==
  /\ dispatcher.at = "stop"
  /\ phase[a] = "open"
  /\ phase' = [phase EXCEPT ![a] = "closed"]
  /\ inbox' = [inbox EXCEPT ![a] = Append(@, Stop)]
  /\ UNCHANGED <<mainVars, serverQueue, handler, readVars, dispatcherQueue,
                 dispatcher, held, heapVars, clientVars>>

DispatcherReturns ==
  /\ dispatcher.at = "stop"
  /\ \A a \in Apps : phase[a] # "open"
  /\ dispatcher' = [dispatcher EXCEPT !.at = "done"]
  /\ UNCHANGED <<mainVars, serverQueue, handler, readVars, dispatcherQueue,
                 appVars, heapVars, clientVars>>

-----------------------------------------------------------------------------
(* The applications                                                        *)

AppTake(a) ==
  /\ inbox[a] # <<>>
  /\ Head(inbox[a]) # Stop
  /\ inbox' = [inbox EXCEPT ![a] = Tail(@)]
  /\ held' = [held EXCEPT ![a] = @ \cup {Head(inbox[a])}]
  /\ heapSound' = (Head(inbox[a]) \in requestObjs)
  /\ UNCHANGED <<mainVars, serverQueue, handler, readVars, dispatcherQueue,
                 dispatcher, phase, requestObjs, responseObjs, clientVars>>

\* The application sends the response and deletes it and the request.
AppAnswer(a, r) ==
  /\ r \in held[a]
  /\ held' = [held EXCEPT ![a] = @ \ {r}]
  /\ replies' = Answered(r)
  /\ heapSound' = (r \in requestObjs /\ r \in responseObjs)
  /\ requestObjs' = requestObjs \ {r}
  /\ responseObjs' = responseObjs \ {r}
  /\ UNCHANGED <<mainVars, serverQueue, handler, readVars, dispatcherQueue,
                 dispatcher, inbox, phase, closed>>

AppDrain(a) ==
  /\ inbox[a] # <<>>
  /\ Head(inbox[a]) = Stop
  /\ inbox' = [inbox EXCEPT ![a] = Tail(@)]
  /\ phase' = [phase EXCEPT ![a] = "draining"]
  /\ UNCHANGED <<mainVars, serverQueue, handler, readVars, dispatcherQueue,
                 dispatcher, held, heapVars, clientVars>>

-----------------------------------------------------------------------------

\* What the main thread does without waiting for a client.
MainSteps ==
  \/ StartApps \/ OpenSocket \/ Listen \/ StartThreads \/ SendStop
  \/ JoinHandlers \/ JoinDispatcher \/ RunReturns
  \/ \E a \in Apps : StopApp(a)

HandlerSteps(h) ==
  \/ HandlerTake(h)
  \/ \E key \in Routes : HandlerParse(h, key)
  \/ HandlerParseFails(h)
  \/ HandlerCheckVersion(h)
  \/ HandlerStop(h)

DispatcherSteps ==
  \/ \E r \in Requests : DispatcherRedirect(r) \/ DispatcherServeNotFound(r)
  \/ DispatcherCountStop
  \/ \E a \in Apps : DispatcherStopApp(a)
  \/ DispatcherReturns

\* After a use of deleted memory nothing is known: the model stops there.
Next ==
  /\ heapSound
  /\ \/ SignalStop
     \/ MainSteps
     \/ \E c \in Connections : Accept(c)
     \/ AcceptFails
     \/ \E h \in Handlers : HandlerSteps(h)
     \/ DispatcherSteps
     \/ \E a \in Apps : \/ AppTake(a)
                        \/ \E r \in Requests : AppAnswer(a, r)
                        \/ AppDrain(a)

SafeSpec == Init /\ [][Next]_vars

\* The scheduler is fair to every thread, clients send what they have to send
\* and then end their connections, and every calculation ends.  Nothing obliges
\* a client to connect, or a signal or an error of accept() to come.
Fairness ==
  /\ WF_vars(heapSound /\ MainSteps)
  /\ WF_vars(heapSound /\ listener = "closed" /\ AcceptFails)
  /\ \A h \in Handlers : WF_vars(heapSound /\ HandlerSteps(h))
  /\ WF_vars(heapSound /\ DispatcherSteps)
  /\ \A a \in Apps :
       /\ WF_vars(heapSound /\ (AppTake(a) \/ AppDrain(a)))
       /\ \A r \in Requests : WF_vars(heapSound /\ AppAnswer(a, r))

Spec == SafeSpec /\ Fairness

-----------------------------------------------------------------------------
(* Safety                                                                  *)

\* The dispatcher closes the applications only when every handler has finished
\* and no request is left on its way to an application: it counts one stop
\* per handler, and each handler's stop is behind the handler's requests.
DispatcherStopsLast ==
  dispatcher.at \in {"stop", "done"} =>
    /\ \A h \in Handlers : handler[h].at = "done"
    /\ dispatcherQueue = <<>>

\* A thread uses or deletes no request or response that another thread has
\* deleted, and whatever waits in a queue or is being worked on is allocated,
\* with ONE exception the code does have: a handler may read the version of a
\* request already deleted (HttpConnectionHandler.cpp:45, after the hand-over
\* at :39; ReadsDeleted).  The property leaves that read out and says nothing
\* else dangles.
OnlyVersionReadAfterDelete ==
  /\ heapSound
  /\ \A r \in Range(dispatcherQueue) \ {Stop} :
       r \in requestObjs /\ r \in responseObjs
  /\ \A a \in Apps : \A r \in (Range(inbox[a]) \ {Stop}) \cup held[a] :
       r \in requestObjs /\ r \in responseObjs

\* "pending HTTP requests that are enqueued will be allowed to finish": when
\* run() returns, every accepted connection was served, every request read
\* from it was answered once, and no request or response leaks.
StopDrains ==
  main.at = "done" =>
    /\ Range(serverQueue) \subseteq {Stop}
    /\ \A c \in Connections : \A i \in 1..MaxRequests :
         replies[<<c, i>>] = IF i <= made[c] THEN 1 ELSE 0
    /\ \A a \in Apps : inbox[a] = <<>> /\ held[a] = {}
    /\ requestObjs = {} /\ responseObjs = {}

-----------------------------------------------------------------------------
(* Liveness                                                                *)

\* A stop() that closes the listening socket of the running server ends in the
\* return of run(), whatever connections and requests are under way.  A stop that
\* comes before the socket listens is no such stop: the server drops it.
StopCompletes ==
  (main.at = "accept" /\ listener = "closed") ~> (main.at = "done")

\* Every request that was read is answered.
RequestsAnswered ==
  \A r \in Requests : (r[2] <= made[r[1]]) ~> (replies[r] = 1)

-----------------------------------------------------------------------------
(* The server is the environment AppService describes                      *)

Service(a) ==
  INSTANCE AppService WITH
    inbox <- inbox[a],
    phase <- phase[a],
    held <- held[a],
    replies <- [r \in Requests |-> IF route[r] = a THEN replies[r] ELSE 0]

\* Each application is served as it expects: no request follows the stop, there
\* is one stop, and what was submitted is taken, answered once and waited for.
ServesApps ==
  /\ \A a \in Apps : Service(a)!Init
  /\ [][\A a \in Apps : [Service(a)!Next]_(Service(a)!serviceVars)]_vars
  /\ \A a \in Apps : Service(a)!Fairness

-----------------------------------------------------------------------------
(* What comments, assertions and documentation say and the code does not do *)

\* "The socket will not be more used, close the connection"
\* (HttpConnectionHandler.cpp:46): no response for it is still to be sent.
ClosedSocketNotUsed ==
  \A r \in Requests :
    r[1] \in closed =>
      /\ r \notin Range(dispatcherQueue)
      /\ \A a \in Apps : r \notin Range(inbox[a]) \cup held[a]

\* assert(this->thread) in Thread::waitToFinish() (Thread.cpp:24).
JoinsStartedThreads ==
  main.at \in {"joinHandlers", "joinDispatcher"} =>
    \A h \in Handlers : handler[h].at # "unstarted"

=============================================================================
