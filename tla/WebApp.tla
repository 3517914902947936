------------------------------- MODULE WebApp -------------------------------
(***************************************************************************)
(* A web application of project1: FactWebApp and GoldbachWebApp are the    *)
(* same pipeline of threads around a different calculation.                *)
(*                                                                         *)
(*   inbox -> analyzer -> appQueue -> calculators -> packQueue -> packer   *)
(*         -> msgQueue -> msg (the ...ShowMsg thread)                      *)
(*                                                                         *)
(* The analyzer cuts a request into its numbers, the calculators solve     *)
(* them in any order, the packer puts each request together again and msg  *)
(* sends the page.  Queue operations are atomic (see ConcurrentQueue).     *)
(* The dispatcher that fills inbox is the environment.                     *)
(***************************************************************************)
EXTENDS Naturals, Sequences, FiniteSets, SequencesExt

CONSTANTS Requests,     \* the requests that can arrive
          Count,        \* Count[r]: numbers in r's query, 0 for the homepage
          Malformed,    \* requests with a number std::stoi does not accept
          Calculators,  \* the calculator threads, one per hardware thread
          Stop          \* the stop conditions reqRes(), reqProcessed(), resPackage()

ASSUME RequestsAssumption ==
  /\ IsFiniteSet(Requests)
  /\ Count \in [Requests -> Nat]
  /\ Malformed \subseteq Requests
  /\ Stop \notin Requests

ASSUME CalculatorsAssumption ==
  IsFiniteSet(Calculators) /\ Calculators # {}

VARIABLES
  alive,        \* FALSE once std::terminate ended the process
  inbox,        \* HttpApp::queue
  open,         \* the dispatcher has not sent its stop yet
  submitted,    \* history: the requests the dispatcher has sent
  analyzer,     \* [at, req, next, stops]: the analyzer's thread
  cont,         \* ReqAnalizer::cont, the next package id
  appQueue,     \* the analyzer's producing queue
  calculator,   \* calculator[k]: [at, number], the number is Stop if it has none
  packQueue,    \* the packer's queue
  packer,       \* [at, stops]: the packer's thread
  packages,     \* Packer::packages, <<>> for an id not in the map
  counters,     \* Packer::counters
  msgQueue,     \* the ...ShowMsg thread's queue
  msg,          \* "take" or "done"
  requestObjs,  \* the HttpRequest objects that are allocated
  responseObjs, \* the HttpResponse objects that are allocated
  replies,      \* replies[r]: responses sent for r
  page,         \* page[r]: the numbers shown in r's response, in order
  joined        \* how many of the joins of WebApp::stop() have returned

vars == <<alive, inbox, open, submitted, analyzer, cont, appQueue, calculator,
          packQueue, packer, packages, counters, msgQueue, msg, requestObjs,
          responseObjs, replies, page, joined>>

inputVars == <<inbox, open, submitted>>
analyzerVars == <<analyzer, cont>>
packerVars == <<packer, packages, counters>>
heapVars == <<requestObjs, responseObjs>>
clientVars == <<replies, page>>

-----------------------------------------------------------------------------
(* Data                                                                    *)

Ids == 0..Cardinality(Requests)

\* reqProcessed: one number of a request.  The response pointer is the
\* request's identity, and pos stands for the number too.
Numbers == [req : Requests, total : Nat, pos : Nat, id : Ids, solved : BOOLEAN]

Number(r, i, id) ==
  [req |-> r, total |-> Count[r], pos |-> i, id |-> id, solved |-> FALSE]

\* resPackage.  The slots resize() makes hold reqProcessed(), the stop condition.
Packages == [req : Requests, slots : Seq(Numbers \cup {Stop})]

\* operator== tells a stop from whatever has a response.
ASSUME StopAssumption == Stop \notin Numbers \cup Packages

NoRequest == "none"

AnalyzerStates ==
  [at : {"take", "produce", "home", "stop", "done"},
   req : Requests \cup {NoRequest}, next : Nat, stops : Nat]

CalculatorStates ==
  [at : {"take", "solve", "stop", "done"}, number : Numbers \cup {Stop}]

PackerStates == [at : {"take", "stop", "done"}, stops : Nat]

TypeOK ==
  /\ alive \in BOOLEAN
  /\ inbox \in Seq(Requests \cup {Stop})
  /\ open \in BOOLEAN
  /\ submitted \subseteq Requests
  /\ analyzer \in AnalyzerStates
  /\ cont \in Ids
  /\ appQueue \in Seq(Numbers \cup {Stop})
  /\ calculator \in [Calculators -> CalculatorStates]
  /\ packQueue \in Seq(Numbers \cup {Stop})
  /\ packer \in PackerStates
  /\ packages \in [Ids -> Seq(Numbers \cup {Stop})]
  /\ counters \in [Ids -> Nat]
  /\ msgQueue \in Seq(Packages \cup {Stop})
  /\ msg \in {"take", "done"}
  /\ requestObjs \subseteq Requests
  /\ responseObjs \subseteq Requests
  /\ replies \in [Requests -> Nat]
  /\ page \in [Requests -> Seq(Numbers \cup {Stop})]
  /\ joined \in 0..4

\* start() has run to its end: queues and threads exist.  Its catch, which calls
\* stop() and so joins threads that were never started, is left out.
Init ==
  /\ alive = TRUE
  /\ inbox = <<>>
  /\ open = TRUE
  /\ submitted = {}
  /\ analyzer = [at |-> "take", req |-> NoRequest, next |-> 0, stops |-> 0]
  /\ cont = 0
  /\ appQueue = <<>>
  /\ calculator = [k \in Calculators |-> [at |-> "take", number |-> Stop]]
  /\ packQueue = <<>>
  /\ packer = [at |-> "take", stops |-> 0]
  /\ packages = [id \in Ids |-> <<>>]
  /\ counters = [id \in Ids |-> 0]
  /\ msgQueue = <<>>
  /\ msg = "take"
  /\ requestObjs = {}
  /\ responseObjs = {}
  /\ replies = [r \in Requests |-> 0]
  /\ page = [r \in Requests |-> <<>>]
  /\ joined = 0

-----------------------------------------------------------------------------
(* The environment: HttpDispatcher                                         *)

Submit(r) ==
  /\ open
  /\ r \notin submitted
  /\ submitted' = submitted \cup {r}
  /\ inbox' = Append(inbox, r)
  /\ requestObjs' = requestObjs \cup {r}
  /\ responseObjs' = responseObjs \cup {r}
  /\ UNCHANGED <<open, analyzerVars, appQueue, calculator, packQueue,
                 packerVars, msgQueue, msg, clientVars, joined>>

SubmitStop ==
  /\ open
  /\ open' = FALSE
  /\ inbox' = Append(inbox, Stop)
  /\ UNCHANGED <<submitted, analyzerVars, appQueue, calculator, packQueue,
                 packerVars, msgQueue, msg, heapVars, clientVars, joined>>

-----------------------------------------------------------------------------
(* ReqAnalizer                                                             *)

AnalyzerTake ==
  /\ analyzer.at = "take"
  /\ inbox # <<>>
  /\ inbox' = Tail(inbox)
  /\ LET r == Head(inbox)
         after == CASE r = Stop -> "stop"
                    [] r # Stop /\ Count[r] > 0 -> "produce"
                    [] OTHER -> "home"
     IN  /\ analyzer' = [at |-> after, next |-> 0, stops |-> 0,
                         req |-> IF r = Stop THEN NoRequest ELSE r]
         \* std::stoi throws and nothing catches it in this thread
         /\ alive' = (r \notin Malformed)
  /\ UNCHANGED <<open, submitted, cont, appQueue, calculator, packQueue,
                 packerVars, msgQueue, msg, heapVars, clientVars, joined>>

\* Mutant: ++cont is inside the loop.
AnalyzerProduceIdPerNumber ==
  /\ analyzer.at = "produce"
  /\ LET r == analyzer.req
         last == analyzer.next + 1 = Count[r]
     IN  /\ appQueue' = Append(appQueue, Number(r, analyzer.next, cont))
         /\ analyzer' = IF last THEN [analyzer EXCEPT !.at = "take"]
                                ELSE [analyzer EXCEPT !.next = @ + 1]
         /\ requestObjs' = IF last THEN requestObjs \ {r} ELSE requestObjs
         /\ cont' = cont + 1
  /\ UNCHANGED <<inputVars, calculator, packQueue, packerVars, msgQueue, msg,
                 responseObjs, clientVars, joined>>

\* Mutant: ++cont is forgotten, so that requests share a package id.
AnalyzerProduceSameId ==
  /\ analyzer.at = "produce"
  /\ LET r == analyzer.req
         last == analyzer.next + 1 = Count[r]
     IN  /\ appQueue' = Append(appQueue, Number(r, analyzer.next, cont))
         /\ analyzer' = IF last THEN [analyzer EXCEPT !.at = "take"]
                                ELSE [analyzer EXCEPT !.next = @ + 1]
         /\ requestObjs' = IF last THEN requestObjs \ {r} ELSE requestObjs
  /\ UNCHANGED <<inputVars, cont, calculator, packQueue, packerVars, msgQueue,
                 msg, responseObjs, clientVars, joined>>

\* One turn of the loop over the numbers; the last one deletes the request.
AnalyzerProduce ==
  /\ analyzer.at = "produce"
  /\ LET r == analyzer.req
         last == analyzer.next + 1 = Count[r]
     IN  /\ appQueue' = Append(appQueue, Number(r, analyzer.next, cont))
         /\ analyzer' = IF last THEN [analyzer EXCEPT !.at = "take"]
                                ELSE [analyzer EXCEPT !.next = @ + 1]
         /\ requestObjs' = IF last THEN requestObjs \ {r} ELSE requestObjs
         /\ cont' = IF last THEN cont + 1 ELSE cont
  /\ UNCHANGED <<inputVars, calculator, packQueue, packerVars, msgQueue, msg,
                 responseObjs, clientVars, joined>>

\* Mutant: the homepage's request is not deleted.
AnalyzerServeHomepageLeak ==
  /\ analyzer.at = "home"
  /\ analyzer' = [analyzer EXCEPT !.at = "take"]
  /\ replies' = [replies EXCEPT ![analyzer.req] = @ + 1]
  /\ responseObjs' = responseObjs \ {analyzer.req}
  /\ UNCHANGED <<inputVars, cont, appQueue, calculator, packQueue, packerVars,
                 msgQueue, msg, requestObjs, page, joined>>

\* serveHomepage
AnalyzerServeHomepage ==
  /\ analyzer.at = "home"
  /\ analyzer' = [analyzer EXCEPT !.at = "take"]
  /\ replies' = [replies EXCEPT ![analyzer.req] = @ + 1]
  /\ requestObjs' = requestObjs \ {analyzer.req}
  /\ responseObjs' = responseObjs \ {analyzer.req}
  /\ UNCHANGED <<inputVars, cont, appQueue, calculator, packQueue, packerVars,
                 msgQueue, msg, page, joined>>

\* Mutant: the analyzer stops one calculator only.
AnalyzerStopOne ==
  /\ analyzer.at = "stop"
  /\ appQueue' = Append(appQueue, Stop)
  /\ analyzer' = [analyzer EXCEPT !.stops = 1, !.at = "done"]
  /\ UNCHANGED <<inputVars, cont, calculator, packQueue, packerVars, msgQueue,
                 msg, heapVars, clientVars, joined>>

\* One turn of the loop that sends a stop to each calculator.
AnalyzerStop ==
  /\ analyzer.at = "stop"
  /\ appQueue' = Append(appQueue, Stop)
  /\ analyzer' = [analyzer EXCEPT
       !.stops = @ + 1,
       !.at = IF analyzer.stops + 1 = Cardinality(Calculators)
              THEN "done" ELSE "stop"]
  /\ UNCHANGED <<inputVars, cont, calculator, packQueue, packerVars, msgQueue,
                 msg, heapVars, clientVars, joined>>

-----------------------------------------------------------------------------
(* Calculator                                                              *)

CalculatorTake(k) ==
  /\ calculator[k].at = "take"
  /\ appQueue # <<>>
  /\ appQueue' = Tail(appQueue)
  /\ calculator' = [calculator EXCEPT
       ![k] = [at |-> IF Head(appQueue) = Stop THEN "stop" ELSE "solve",
               number |-> Head(appQueue)]]
  /\ UNCHANGED <<inputVars, analyzerVars, packQueue, packerVars, msgQueue, msg,
                 heapVars, clientVars, joined>>

CalculatorSolve(k) ==
  /\ calculator[k].at = "solve"
  /\ packQueue' = Append(packQueue, [calculator[k].number EXCEPT !.solved = TRUE])
  /\ calculator' = [calculator EXCEPT ![k] = [at |-> "take", number |-> Stop]]
  /\ UNCHANGED <<inputVars, analyzerVars, appQueue, packerVars, msgQueue, msg,
                 heapVars, clientVars, joined>>

CalculatorStop(k) ==
  /\ calculator[k].at = "stop"
  /\ packQueue' = Append(packQueue, Stop)
  /\ calculator' = [calculator EXCEPT ![k].at = "done"]
  /\ UNCHANGED <<inputVars, analyzerVars, appQueue, packerVars, msgQueue, msg,
                 heapVars, clientVars, joined>>

-----------------------------------------------------------------------------
(* Packer                                                                  *)

\* resize(total) and insert at pos: one element more than the request has.
NewPackage(n) ==
  InsertAt([i \in 1..n.total |-> Stop], n.pos + 1, n)

Packed(n) ==
  IF packages[n.id] = <<>>
  THEN NewPackage(n)
  ELSE [packages[n.id] EXCEPT ![n.pos + 1] = n]

Arrived(n) == IF packages[n.id] = <<>> THEN 1 ELSE counters[n.id] + 1

\* Mutant: a package of two numbers or more is sent one number too early.
PackerPackEarly ==
  /\ packer.at = "take"
  /\ packQueue # <<>>
  /\ Head(packQueue) # Stop
  /\ packQueue' = Tail(packQueue)
  /\ LET n == Head(packQueue)
     IN  /\ packages' = [packages EXCEPT ![n.id] = Packed(n)]
         /\ counters' = [counters EXCEPT ![n.id] = Arrived(n)]
         /\ msgQueue' = IF Arrived(n) = n.total - 1 \/ n.total = 1
                        THEN Append(msgQueue, [req |-> n.req, slots |-> Packed(n)])
                        ELSE msgQueue
  /\ UNCHANGED <<inputVars, analyzerVars, appQueue, calculator, packer, msg,
                 heapVars, clientVars, joined>>

PackerPack ==
  /\ packer.at = "take"
  /\ packQueue # <<>>
  /\ Head(packQueue) # Stop
  /\ packQueue' = Tail(packQueue)
  /\ LET n == Head(packQueue)
     IN  /\ packages' = [packages EXCEPT ![n.id] = Packed(n)]
         /\ counters' = [counters EXCEPT ![n.id] = Arrived(n)]
         /\ msgQueue' = IF Arrived(n) = n.total
                        THEN Append(msgQueue, [req |-> n.req, slots |-> Packed(n)])
                        ELSE msgQueue
  /\ UNCHANGED <<inputVars, analyzerVars, appQueue, calculator, packer, msg,
                 heapVars, clientVars, joined>>

\* Mutant: the packer stops with the first calculator that stops.
PackerCountFirstStop ==
  /\ packer.at = "take"
  /\ packQueue # <<>>
  /\ Head(packQueue) = Stop
  /\ packQueue' = Tail(packQueue)
  /\ packer' = [stops |-> packer.stops + 1, at |-> "stop"]
  /\ UNCHANGED <<inputVars, analyzerVars, appQueue, calculator, packages,
                 counters, msgQueue, msg, heapVars, clientVars, joined>>

\* consumeForever() returned: one more calculator has finished.
PackerCountStop ==
  /\ packer.at = "take"
  /\ packQueue # <<>>
  /\ Head(packQueue) = Stop
  /\ packQueue' = Tail(packQueue)
  /\ packer' = [stops |-> packer.stops + 1,
                at |-> IF packer.stops + 1 = Cardinality(Calculators)
                       THEN "stop" ELSE "take"]
  /\ UNCHANGED <<inputVars, analyzerVars, appQueue, calculator, packages,
                 counters, msgQueue, msg, heapVars, clientVars, joined>>

PackerStop ==
  /\ packer.at = "stop"
  /\ msgQueue' = Append(msgQueue, Stop)
  /\ packer' = [packer EXCEPT !.at = "done"]
  /\ UNCHANGED <<inputVars, analyzerVars, appQueue, calculator, packQueue,
                 packages, counters, msg, heapVars, clientVars, joined>>

-----------------------------------------------------------------------------
(* ShowMsg                                                                 *)

\* The page shows processed_number[0 .. size() - 2].
MsgShow ==
  /\ msg = "take"
  /\ msgQueue # <<>>
  /\ Head(msgQueue) # Stop
  /\ msgQueue' = Tail(msgQueue)
  /\ LET package == Head(msgQueue)
     IN  /\ page' = [page EXCEPT ![package.req] = Front(package.slots)]
         /\ replies' = [replies EXCEPT ![package.req] = @ + 1]
         /\ responseObjs' = responseObjs \ {package.req}
  /\ UNCHANGED <<inputVars, analyzerVars, appQueue, calculator, packQueue,
                 packerVars, msg, requestObjs, joined>>

MsgStop ==
  /\ msg = "take"
  /\ msgQueue # <<>>
  /\ Head(msgQueue) = Stop
  /\ msgQueue' = Tail(msgQueue)
  /\ msg' = "done"
  /\ UNCHANGED <<inputVars, analyzerVars, appQueue, calculator, packQueue,
                 packerVars, heapVars, clientVars, joined>>

-----------------------------------------------------------------------------
(* WebApp::stop(), run by the main thread once the dispatcher has finished *)

Finished(i) ==
  CASE i = 0 -> analyzer.at = "done"
    [] i = 1 -> \A k \in Calculators : calculator[k].at = "done"
    [] i = 2 -> packer.at = "done"
    [] i = 3 -> msg = "done"

\* waitToFinish() of the next thread; after the last one all are deleted.
Join ==
  /\ ~open
  /\ joined < 4
  /\ Finished(joined)
  /\ joined' = joined + 1
  /\ UNCHANGED <<inputVars, analyzerVars, appQueue, calculator, packQueue,
                 packerVars, msgQueue, msg, heapVars, clientVars>>

-----------------------------------------------------------------------------

AnalyzerSteps ==
  AnalyzerProduce \/ AnalyzerServeHomepage \/ AnalyzerStop

CalculatorSteps(k) ==
  CalculatorTake(k) \/ CalculatorSolve(k) \/ CalculatorStop(k)

PackerSteps == PackerPack \/ PackerCountStop \/ PackerStop

MsgSteps == MsgShow \/ MsgStop

Steps ==
  \/ \E r \in Requests : Submit(r)
  \/ SubmitStop
  \/ AnalyzerSteps
  \/ \E k \in Calculators : CalculatorSteps(k)
  \/ PackerSteps
  \/ MsgSteps
  \/ Join

Next ==
  /\ alive
  /\ \/ AnalyzerTake
     \/ Steps /\ UNCHANGED alive

SafeSpec == Init /\ [][Next]_vars

\* Every thread that can go on goes on: the calculations end and the scheduler
\* is fair.  Nothing obliges the dispatcher to send a request or a stop.
Fairness ==
  /\ WF_vars(alive /\ AnalyzerTake)
  /\ WF_vars(alive /\ AnalyzerSteps /\ UNCHANGED alive)
  /\ \A k \in Calculators : WF_vars(alive /\ CalculatorSteps(k) /\ UNCHANGED alive)
  /\ WF_vars(alive /\ PackerSteps /\ UNCHANGED alive)
  /\ WF_vars(alive /\ MsgSteps /\ UNCHANGED alive)
  /\ WF_vars(alive /\ Join /\ UNCHANGED alive)

Spec == SafeSpec /\ Fairness

-----------------------------------------------------------------------------
(* Properties                                                              *)

Travelling ==
  (Range(appQueue) \cup Range(packQueue) \cup
   {calculator[k].number : k \in Calculators}) \ {Stop}

\* However the calculators interleave, the page of a request shows all its
\* numbers, each one once, solved, in the order in which they were asked, and
\* none of another request: what FactPacker::consume() and the loop up to
\* size() - 1 in servePrimFactResponse() are for.
PageShowsRequest ==
  \A r \in Requests :
    replies[r] > 0 =>
      /\ Len(page[r]) = Count[r]
      /\ \A i \in 1..Count[r] :
           /\ page[r][i] # Stop
           /\ page[r][i].req = r
           /\ page[r][i].pos = i - 1
           /\ page[r][i].solved

\* Whatever still refers to a request or a response finds it allocated: the
\* threads that delete them (ReqAnalizer::consume(), ShowMsg::consume()) are
\* the last to use them, although copies of the pointers travel in four queues.
PointersValid ==
  /\ \A r \in Range(inbox) \ {Stop} : r \in requestObjs \cap responseObjs
  /\ analyzer.at \in {"produce", "home"} =>
       analyzer.req \in requestObjs \cap responseObjs
  /\ \A n \in Travelling : n.req \in responseObjs
  /\ \A p \in Range(msgQueue) \ {Stop} : p.req \in responseObjs

\* The packer sends its stop behind the whole work: it has seen the stop of
\* every calculator, nothing is on its way to it and the package of every
\* request with numbers has been sent on (FactPacker::run()).
PackerStopsLast ==
  packer.at # "take" =>
    /\ Travelling = {}
    /\ \A r \in submitted :
         Count[r] > 0 => \/ replies[r] > 0
                         \/ \E p \in Range(msgQueue) \ {Stop} : p.req = r

\* When WebApp::stop() deletes the threads and their queues nobody uses them
\* any more, no queue holds anything and no request or response leaks.
DeletesIdleThreads ==
  joined = 4 =>
    /\ analyzer.at = "done" /\ packer.at = "done" /\ msg = "done"
    /\ \A k \in Calculators : calculator[k].at = "done"
    /\ inbox = <<>> /\ appQueue = <<>> /\ packQueue = <<>> /\ msgQueue = <<>>
    /\ requestObjs = {} /\ responseObjs = {}

-----------------------------------------------------------------------------
(* The pipeline is an AppService                                           *)

phase ==
  CASE open -> "open"
    [] ~open /\ Stop \in Range(inbox) -> "closed"
    [] ~open /\ Stop \notin Range(inbox) /\ joined < 4 -> "draining"
    [] OTHER -> "finished"

held == {r \in submitted : r \notin Range(inbox) /\ replies[r] = 0}

Service == INSTANCE AppService

\* The five kinds of threads together answer every request once, and once the
\* stop has come stop() returns with everything answered.
ImplementsService == Service!Spec

=============================================================================
