# Specifications of Programacion-Paralela

TLA+ models of the programs of this repository, the TLC configurations that
check them on small instances, and theorems about them checked by TLAPS. The
source is under `src/`; `PROJECT.json` gives the lines each definition models.

The repository holds the work of a course on parallel programming: one team's
web server (project1) and heat transfer simulation (project2, project2.2), and
one student's password crackers and exercises. The web server is the largest
program and the one with most concurrency (section 1). The simulations of a
network are built on its framework (section 2); the C programs with threads,
the password search among them, come next (section 3), then the programs with
OpenMP and MPI (section 4). Every program of the repository that shares state
or passes messages is modelled, but for those named under "Not modelled".

## 1. The web server (`src/Team/projects/project1`)

    main ── serverQueue ──> HttpConnectionHandler x max_connection
                                   │ dispatcherQueue
                                   v
                             HttpDispatcher ── not found page
                         appQueue  │   │  appQueue
                                   v   v
           FactWebApp:  ReqAnalizer -> Calculator x CPUs -> Packer -> ShowMsg
        GoldbachWebApp:  the same four stages

| Component | State | Operations | Interacts through | What is hard |
|---|---|---|---|---|
| `Queue`, `Semaphore` (`prodcons/`) | the elements, a mutex, a counting semaphore | `enqueue`, `dequeue` | called by every thread | lost wake-ups, a pop of an empty queue |
| `HttpServer`, `TcpServer` | listening socket, threads, queues | `run`, `stop` from a signal handler, `acceptAllConnections` | `serverQueue`, joins | shutdown while work is under way; errors on the way up; a signal at any time |
| `HttpConnectionHandler` | the connection it reads | `consume`, `run` | `dispatcherQueue`, the heap | uses the request after handing it over |
| `HttpDispatcher` | count of stops | `consume`, `run`, `serveNotFound` | the applications' queues | stops of several handlers mixed with requests |
| `FactWebApp`, `GoldbachWebApp` | four threads' states and four queues | `start`, `stop`, the stages' `consume`/`run` | queues that carry pointers to the response | numbers of several requests finish in any order; objects passed from thread to thread and deleted by the last |
| `FactModel` with `FactShowMsg` | number, divisor, factors, page index | `prime_fact`, printing of powers | – | loops whose bound shrinks, index moved in two loops |
| `GoldbachModel` with `GoldbachShowMsg` | sieve, primes, sums, page line | `calculateSums`, printing of sums | – | no sum twice, none missed; products of ints |
| `Consumer`, `Producer`, `Assembler`, `Thread` | – | `consumeForever`, `produce`, `waitToFinish` | base classes of the threads above | inside the actions of the threads |
| `HttpRequest`, `HttpResponse`, `Socket` | text buffers | `parse`, `send` | one socket shared by copies | by outcome only |
| `Log`, `Util` | a stream and a mutex | `append` | called by handlers | nothing depends on it; not modelled |

What makes it correct: an element put in a queue is taken once, in order; the
page of a request shows that request's results and nothing else; every request
read is answered once; objects are deleted after their last use; a stop reaches
every thread after its work and before nothing else, so that a shutdown both
ends and drains.

### Modules

| Module | Models |
|---|---|
| `FifoQueue` | abstract: a FIFO queue whose elements are given to consumers once, in order |
| `ConcurrentQueue` | `Queue.hpp` and `Semaphore.cpp` by lock, push, unlock, signal, wait, pop; implements `FifoQueue` |
| `AppService` | abstract: what server and application owe each other: no request after the stop, one answer for each request, an end after the stop |
| `WebApp` | one application from the dispatcher's queue to the page; implements `AppService` |
| `HttpServer` | from `main()` to the return of `run()`, with any number of `AppService`s; shown to keep the server's side of `AppService` and to use its guarantee only |
| `FactModel` | `prime_fact()` and the powers printed for one number |
| `GoldbachModel` | `calculateSums()` and the lines printed for one number |
| `CommonLemmas` | lemmas on which several proofs rest: threads counted by location, what push and pop do to the elements of a queue and to their order, divisibility, the least natural number of a set, sums over a function's values |
| `*_proofs` | the theorems of the module they extend |
| `MC*` | instances for TLC |

The modules are composed by contract. A queue operation is one action in
`WebApp` and `HttpServer`, as `ConcurrentQueue => FifoQueue` allows. An
application is an `AppService` in `HttpServer`; `WebApp` implements
`AppService` in the run `webapp`, and `HttpServer` is the environment that
`AppService` describes (`ServesApps`) in the run `server_liveness`.

State and code: a variable has the code's name where the code has one
(`serverQueue`, `packages`, `counters`, `results`, ...). A thread is a record
with a field `at` for where its `run()` or `consume()` stands. `requestObjs` and
`responseObjs` are the `HttpRequest`s and `HttpResponse`s allocated, so that a
`delete` takes one out and a use of a pointer asks whether it is in;
`heapSound` is FALSE once a deleted object has been used or deleted again, after
which C++ says nothing and the model stops. One use is not counted there: the
handler's read of the version after the hand-over (`HttpConnectionHandler.cpp:45`).
`ReadsDeleted` says when the request is gone by then, `VersionsRead` what may be read
instead, and the model goes on, so that the rest of the server can be checked. A request is `<<connection, number>>`:
the code's objects have no other identity. In `WebApp` a number is a record
`[req, total, pos, id, solved]`, the fields of `reqProcessed` that matter; the
results themselves are the subject of `FactModel` and `GoldbachModel`.

Actions and code: an action stands for one pass of a thread's loop between two
points where others can interfere: a `dequeue` and all that `consume()` does
until it blocks or produces again. Analyzer steps are one `produce` each,
because calculators may already work on the first numbers of a request while it
queues the others. The connection handler's pass is split at the one place where it matters,
between the hand-over (`HandlerParse`) and the reading of the version
(`HandlerCheckVersion`).

What was left out of the server: HTTP syntax and page layout (text), the log,
the arguments of the program (constants of the models: `Handlers` is
`max_connection`, `Calculators` is `hardware_concurrency()`, at least one of
each), a client that never reads (a `send` succeeds) and bytes of two responses
mixed on one connection when a client pipelines its requests.

### Runs

| Run | Question | Instance |
|---|---|---|
| `queue` | does the semaphore count the elements, is a pop always defined, is it a FIFO queue that forgets nobody? | 2 producers, 2 consumers, 3 elements of 2 values |
| `webapp` | does each page show its request, are pointers valid, is the stop last, is the pipeline an `AppService`? | 3 requests of 3, 2 and 0 numbers, 2 calculators |
| `server_safety` | do stops overtake requests at any level, is anything but the version of a request used after it is deleted (`OnlyVersionReadAfterDelete`), does a shutdown leave nothing behind? | 2 connections of up to 2 requests, 2 handlers, 1 application |
| `server_liveness` | does every stop complete, is every request answered, are applications served as `AppService` asks? | 2 connections of 1 request, 2 handlers, 2 applications |
| `server_http10`, `server_startup` | (violated) what a comment and an assertion say of the server, see Findings | as `server_liveness` |
| `factorization` | are the factors primes, is their product the number, is the page its factorization, does it end? | -12..400 and eight larger numbers with large, repeated or no small factors |
| `goldbach` | does the sieve find the primes, are exactly the Goldbach sums found, each once, and printed whole, and which ints can overflow? | every int of seven bits |

Why the bounds are enough. In the queue two threads of each kind make every
pair of operations interleave, and three elements let a consumer come back
while another is inside. In the pipeline a request with three numbers on two
calculators lets results of one request overtake each other, and two requests
lets those of different ones; the third takes the homepage branch. In the
server two handlers and two connections let one handler stop while the other still
reads; two requests on a connection let a stop or a version check meet the
other request, and the not-found page and applications answer in either order. Two
applications let the dispatcher stop one while the other works. The numbers of
`factorization` include squares and cubes of primes above the first divisor,
products of two near primes, primes, powers of two, zero, one and negatives; in
seven bits `goldbach` meets both sides of every bound of the code, both
parities and both signs.

Deadlock is not checked in these runs because the programs stop: consumers of
an idle queue wait (`queue`, `webapp`, where no request need come), the server
ends at `done`, a calculation at `done`. That they stop only there is what the
liveness properties say.

### Fairness

Weak fairness of every thread's steps: a thread that can go on goes on, as the
operating system's scheduler has it. Locks and semaphores of `ConcurrentQueue`
need no strong fairness for the property checked, that elements and consumers
do not wait on each other for ever. A calculation
ends (shown by `Terminates` in the two algorithm modules, for numbers in range).
A client sends what it has to send and ends its connection: the code has no
timeout, so without this assumption a shutdown can wait for ever for a client
that holds its connection open. Nothing obliges a client to connect, a request to
come, or the signal or an error of `accept()` to happen; only when the
listening socket is closed must `accept()` fail. After a use of a deleted
object, and after an exception that ends the process, nothing is promised.

### Findings and observations

Two runs show what the code does against its own words:

1. `server_http10`: with an HTTP/1.0 client the handler deletes the request and
   response it has queued and closes the connection before the answer.
2. `server_startup`: if the port is taken, `run()` joins threads it has not
   started, and the assertion of `waitToFinish()` fails.

The models have the following as well; no run of its own states it.

- `std::stoi` throws in the analyzer's thread for a number that is only a sign
  or too long (`FactReqAnalizer.cpp:55`); nothing catches it, the process ends, and
  `printError()`, documented as the answer (`FactShowMsg.hpp:40`), is called by nobody. `webapp`
  has no such request in it (`Malformed` is empty): every promise would end there.
- The version is read from a request that may be deleted, or another one's,
  by then (`HttpConnectionHandler.cpp:45`, `ReadsDeleted`): a use after the delete, by which an
  HTTP/1.1 connection can be closed. `OnlyVersionReadAfterDelete` says by its name that it
  excepts this read and that there is no other.
- A signal that comes before the listening socket is open is lost
  (`TcpServer.cpp:39`), in spite of `HttpServer.cpp:79-81`: `StopCompletes` speaks of the
  stops that find it open. A second signal closes the stored descriptor again
  (`TcpServer.cpp:40`), which by then may be another file's; the model has the second signal and not that.
- The catch of an application's `start()` (`FactWebApp.cpp:48-51`) calls `stop()`, which
  joins threads that were not started; the models begin with applications that did start.
- Above half of the int range `j * i` overflows in the sieve, and the least int
  has no absolute value (`GoldbachModel.cpp:46`, `:32`): `Terminates` names both.
- Any failure of `accept()` ends the accept loop, so that one aborted connection
  shuts the server down (`AcceptFails` is enabled without a stop); that the
  shutdown is then orderly is part of `StopDrains`.
- The packer's `packages` and `counters` are never erased.

A machine that reports no hardware threads would have no calculator at all;
`CalculatorsAssumption` leaves it out of the models.

### Proofs

All for any values of the constants that satisfy the modules' assumptions.

- **`ConcurrentQueue_proofs`**. `TypeCorrect`, `SemaphoreCounts`, `DequeueIsDefined`,
  `MutexExcludes`, `QueueRefinesFifo`. `NeverPopsEmpty` is not inductive: that the
  queue is not empty follows from counting. The invariant says that the
  semaphore's value, plus the permits granted to consumers that have not popped
  yet, plus the signals still owed by producers that have pushed, account for the
  length of the queue; each action moves one thread from one of these sets to
  another, and `CommonLemmas` says what that does to their cardinalities. A consumer
  at its pop holds a permit, so the queue has an element. The refinement adds
  that the queue is always the tail of the sequence of what was pushed, and
  maps a pop to the abstract `Dequeue` and a push to `Enqueue`.
- **`HttpServer_proofs`**. `TypeCorrect`, `StopsLast`. `DispatcherStopsLast` is about
  the end of a long protocol; the invariant behind it has three parts:
  the stops the dispatcher has counted and those still in its queue are as many as
  the handlers that are done (`StopsAccounted`); it leaves its loop with the
  N-th (`StopsCounted`); when all handlers are done the last element of its
  queue, if any, is a stop (`StopBehind`). When it has counted N, no stop is
  left in the queue, all handlers are done, hence the queue is empty.
- The second half of **`HttpServer_proofs`**. `OneOwnerUses`, `DrainsCompletely`,
  `ServerIsEnvironment`. A request is used safely because at every moment one
  thread owns it: its handler, a queue, the dispatcher or an application
  (`OneOwner`, and `QueuedOnce` for the queues), and because the allocated objects
  are exactly those with an owner (`ObjectsOwned`). What `OneOwnerUses` excepts is what
  `OnlyVersionReadAfterDelete` excepts, the handler's read of a version it no longer owns. All three have the hypothesis
  `Http10 = {}`: with an HTTP/1.0 client the handler deletes what it has handed over,
  and the property is false (finding 1 above shows it). `DrainsCompletely` adds what
  the shutdown needs: each queue has its stops behind its work
  (`HandlersStopLast`, `AppsStopLast`), the phases of the applications follow the
  dispatcher's (`PhasesFollow`), and `main` passes a join only when the thread has
  ended (`MainJoins`). `ServerIsEnvironment` maps, for each application, `Redirect` to
  `AppService`'s `Submit`, the dispatcher's stop to `Close`, the application's
  steps to `Take`, `Drain`, `Answer` and `Finish`, and everything else to a stutter.
- **`WebApp_proofs`**. `TypeCorrect`, `PointersHold`, `PagesRight`, `PackerLast`,
  `DeletesLast`, `PipelineIsService`, for any number of requests, numbers and
  calculators. The invariant (`IInv`) follows a request through the pipeline: it
  and its response are allocated until their last use (`ObjectsOwned`); as many ids are in use as requests
  have been numbered (`IdsCounted`), each the id of one request (`NumbersMade`); a
  number is in one queue, in one calculator or in one package (`NumbersApart`); a
  package has a slot for each number of its request and a counter that says how
  many have come (`PackagesFit`), so that what is sent is whole and nothing of it travels any
  more (`SentWhole`, `PagesShown`), and what is asked is not lost (`NothingLost`).
  The second half counts stops: those the analyzer has sent wait behind the
  numbers or have ended a calculator (`AnalyzerStops`); those the packer has
  counted and those in its queue are as many as the calculators that are done, and when
  all are, a stop is the last in its queue (`PackerCounts`); `msg` gets its stop behind all the packages
  (`MsgStopsLast`). Each part is needed by another: a page can be sent with an empty slot
  unless two numbers of one request never share a slot, which `NumbersApart` says.
  `PipelineIsService` maps `Submit` and `SubmitStop` to `Submit` and `Close`, the analyzer's
  step to `Take` or `Drain`, the homepage and the page of `msg` to `Answer`, the last join to
  `Finish`. It is the safety part of `ImplementsService`; with `ServerIsEnvironment` both
  sides of the queue between server and application keep the contract that `AppService` states.
  `StopAssumption` says that a stop is no number or package: the code tells them apart by the response.
- **`FactModel_proofs`**. `TypeCorrect`, `OnlyPrimes`, `FactorsMakeNumber`,
  `ShowsFactorization`. No step tests a number for being
  prime. The invariant (`NoSmallDivisor`) is that nothing below the divisor
  being tried divides what is left of the input. A divisor found is then a
  prime, because a divisor of it would divide the input (`FirstDivisorIsPrime`);
  the quotient has no new divisors (`QuotientKeeps`); the even number skipped
  would make 2 a divisor (`SkipEven`); and past the square root two factors would be too large
  (`RestIsPrime`). `FactorsMultiply` is that the rest times the factors is the number.
  The page needs that the factors ascend (`Ascending`) and that the last power shown
  counts the repetitions of its base so far (`LastPower`); then the product of the page is that
  of the factors shown. `Product` is a recursive function, not an operator, and what
  it is for a sequence with one element more is proved by a least counterexample
  (`LeastNatural`), since the library's induction cannot be used here.
- **`GoldbachModel_proofs`**. `TypeCorrect`, `SieveFindsPrimes`, `FindsEverySum`,
  `ShowsEverySum`, `OverflowsOutside`. A number is unmarked when no smaller
  divisor tried divides it (`Sieved`); a composite divisor is passed over because
  what it would mark is marked already. The results are the sums whose first
  terms the loops have been at (`Tried`), each once (`SumsFound`): a new one differs from the others because the primes
  increase, and an odd number less an odd sum of two terms leaves 2 only where
  that pair is in the list already. The page's lines are the results cut into sums
  (`PageFollows`). `OverflowsOutside` bounds the products of the sieve by twice the number:
  up to half of the int range, whatever its width, nothing overflows.

Only model-checked: liveness under fairness (the provers have no
ENABLED), so the fairness part of `ImplementsFifo`, `ImplementsService` and
`ServesApps`, and `StopCompletes`, `RequestsAnswered` and `Terminates`. No module
with a theorem reaches a RECURSIVE operator.

## 2. The network simulations (`Individual/Exercises/pthreads/network_simul_*`)

A producer makes messages for random targets, a dispatcher passes them to the
consumers' queues, an empty message is the stop. Four programs vary this, over
copies of the framework of section 1. `NetworkSimulations` puts the four
modules side by side: `program` says which one a behaviour is of, the other
variables are theirs.

| Module | Program | State | What is hard |
|---|---|---|---|
| `PacketLoss` | `network_simul_packet_loss` | a queue for the dispatcher, for each consumer and for the assembler; the counts of the threads | the assembler is a target of the dispatcher and puts what it does not lose back into the dispatcher's queue, behind the stop |
| `PacketLoss2` | `network_simul_packet_loss2` | the same, the assembler in front | the assembler returns at the stop and hands none on |
| `MultiProducer` | `network_simul_producers` | also the counter of the numbers left, and its mutex as the grain of `GetIndex` | each producer sends a stop, the dispatcher leaves at the first |
| `BoundedSimulation` | `network_simul_bounded` | also the two semaphores of each queue | producers that block, and a target nobody registered |

A thread of the first three pops from one queue only and then only appends to
others, so that a pop with its pushes is one step. In `BoundedSimulation` a push
can block, so waiting, pushing and signalling are steps of their own.

Run `network_simulations` (three messages, two consumers, two producers where
there are several, queues of two places): `MessagesConserved` (what was
produced is in a queue, consumed or counted as lost; the semaphores account
for every place), `MessagesInOrder` (a consumer gets its messages in the order they
were made, numbers are taken once, no stop overtakes), `SimulationEnds` (`main` of the three programs other than
`packet_loss2` joins all its threads, unless the bounded one's dispatcher has thrown). Three
messages let one be lost, one be sent again and one still be under way, or fill a
queue of two places.

`NetworkSimulations_proofs` proves `OrderKept`, that is `MessagesInOrder`, for any number
of messages, producers, consumers and places. The property is about what
arrived; it holds because of what is still on its way. The invariant of each program
but `packet_loss2` is over the whole path of a consumer's messages: what it received, then its queue, then the
dispatcher's. For any two messages for this consumer, the one further on has
the lower number (with several producers: another number); lemmas at the head of
the module say how a queue operation changes such a path, for any order, and the programs use
them for their own. Besides that:

- `packet_loss` (`LossInv`): a number in the way is below the producer's next one; nothing
  comes behind a stop but, in the dispatcher's queue, the assembler's repeats, which have a source of their own.
- `packet_loss2` (`Loss2Inv`): no stop is in the queues behind the assembler's.
- `producers` (`ManyInv`): the numbers in producers' hands and in the way are above the
  counter and differ; the dispatcher's own end is the end of what it passes on.
- `bounded` (`BoundedInv`): the message in the dispatcher's hand is between the two queues; a queue's
  length is the value of its `canConsume`, plus one while somebody is at the pop it waited for (`BoundedCounts`).

The second half proves `MessagesKept`, that is `MessagesConserved`, and `TypeCorrect`, that is `TypeOK`.
The number of messages made is a sum of sums: the messages that are no stop in each queue, those in
a thread's hand, what each consumer received, and what was discarded. A step
changes one or two terms, or, when a stop spreads, each by nothing. The lemmas at the end of `CommonLemmas`
say that such a fold has the value of a function on the subsets that sums them element by element (`SumsExist`,
`SumIs`), and changes by as much as one of its terms does (`SumChange`).
`CountInv` is each program's balance besides `OrderInv`; `TypeOK` follows because nothing in a
balance is negative, so that no more is discarded than was made. With several producers,
who has not taken a number holds none (`ManyIdle`). The bounded simulation needs two facts more:

- for the end, where all must have been consumed: the stop is the producer's last message, the
  dispatcher passes it to each consumer once and behind everything else, and whoever has ended leaves an empty
  queue (`BoundedEnds`);
- for its places: the values of a queue's two semaphores, its elements and the threads between a wait and
  its signal make up the places of the queue (`BoundedPlaces`).

What the runs show of the code: in `packet_loss` a packet that is sent again can find the
dispatcher gone, and stays in its queue (`LeavesNothing` says that only such packets do).
In `packet_loss2` the assembler keeps the stop to itself (`AssemblerTest.cpp:21`), nobody stops after it, and `main`
never ends, contrary to "Wait for objets to finish the simulation" and
"Simulation finished" (`ProducerConsumerTest.cpp:76`, `:84`): `SimulationEnds` leaves this
program out, and `NobodyStops` only says why its consumers' steps after a stop are not in the model. With several
producers the messages behind the first stop are never dispatched; for `MessagesConserved` they are still in
their queue. In `bounded` one of the targets the producer draws is no consumer's
(`ProducerTest.cpp:35`): the dispatcher throws, and the process ends.

## 3. The C programs with threads

`ThreadPrograms` puts the ten modules side by side. `pc` is where the threads are,
`shared` the record they share (the code's `simulation_t`, `shared_data_t`, ...), and
`private` what main and each of them hold. A thread creation that fails is part of
each program, with what the code then does about the threads that exist.

| Module | Programs | Subject |
|---|---|---|
| `UnboundedBuffer` | `prod_cons_unbound_produce0` (and the identical `consume0` and class example), `produce2`, `create_threads_pri` | units counted under a mutex, a semaphore and a queue that must agree |
| `BoundedBuffer` | `prod_cons_bound`, `prod_cons_bound_mod` | a circular buffer between two semaphores, without a mutex |
| `GreetingOrder` | `hello_order_semaphor`, `_semaphor2`, `_semaphor_named`, `hello_order_busywait`, `delayed_busy_wait`, `hello_order_cond_safe`, `hello_iw_shr`, `hello_iw_pri`, `hello_w`, `std_thread_c` | threads that greet in order, or not |
| `SharedCounters` | `birthday_pinata`, `position_race`, `team_shot_put`, `grandma_lottery` | threads that report to main through memory |
| `DiningPhilosophers` | `dining_philosophers_impl` | chopsticks taken in an order that depends on the rank |
| `FenceSearch` | `fence_parallelization` | a maximum found by threads that share the rows |
| `RelayRace` | `relay_race`, `relay_race_order_effect`, `mist_cond_var` | barriers and batons |
| `SerialSearch`, `ThreadSearch`, `QueueSearch` over `PasswordCandidates` | `zippass_serial`, `serial_optimized`, `zippass_openmp` (one thread); `zippass_pthread`; `pthread_optimized` | the search of a password by number in the base of the alphabet: one thread, ranges dealt to threads, candidates through a queue |

A candidate is the sequence of the positions of its characters in the alphabet
and a file is the password that opens it, or one of `NoPassword` (nothing in reach opens it) and
`Unreadable`. libzip is external.

Run `thread_programs` (two producers, two consumers, two units, a buffer of two
places, three greeting threads, a pinata of three hits, three philosophers, a
terrain of three by three, teams of two, an alphabet of two characters, passwords
of up to two, two files). `NothingLost`: at every step units, hits, places,
chopsticks and batons are each in one place and agree with counters and
semaphores. Of `prod_cons_unbound_produce2`, which makes no unit, it says next to nothing.
`ResultsComplete`: what main shows is what the threads did, read after they did it; the order
of the greetings is stated of the programs that keep one.
`AnswersRight`: each search finds exactly the passwords that are among its
candidates, whoever finds them, and stores what it prints in time.
`AllGetThere`: the programs end, but for the two that hang, `produce2` and `semaphor2`, and two
or three philosophers eat again and again. A crash counts as an end: the property is about waiting. Two
threads of a kind give every pair of steps in both orders; three philosophers are the
least odd table and two the least even one; two files show what one search leaves to the next
one; a password of one character, one of two and none tell apart the lengths at
which the numbering is in doubt.

`ThreadPrograms_proofs` proves `NothingIsLost`, that is `NothingLost`, for any number of threads, units,
places, philosophers and teams. `program` never changes, so that the invariant `LostInv` has a part
for each module, kept by this module's steps alone. None of the properties is
inductive. What each needs besides:

- `UnboundedBuffer` (`UnboundedInv`): a unit is in the queue, consumed or in one producer's hand, and the semaphore,
  the producers that have yet to post and the consumers that have waited but not popped make up the queue's
  length (`UnitsInv`), so that a consumer at its pop finds a unit; the threads behind main's index have not
  started (`TeamsInv`), else a creation could set one back that holds something. `TakenInv` and
  `JoinInv` (a consumption claimed is made or under way; a thread joined is done)
  give `SimulationOutlivesThreads`, the part of `ResultsComplete` about `UnboundedBuffer`: the
  simulation is destroyed under no thread, and after every unit was consumed, unless a team could not be created.
- `BoundedBuffer` (`BufferInv`): an equation for each semaphore, with one for the thread between its wait and its post. They
  keep the producer's place apart from the consumer's, modulo the capacity (`TurnsApart`),
  so that the values not yet taken are in the buffer in order.
- `SharedCounters` (`PinataInv`, `RaceInv`): hits and what is left of the pinata make its life; who is between lock and unlock
  holds the mutex, the position counts those that have moved, and the positions given are the first ones.
- `RelayRace` (`RelayInv`): past the barrier everybody has arrived; a baton under way was passed by a starter that is done, and
  a finisher that runs had it from its own; the places given are the first ones.
- `DiningPhilosophers` (`DiningInv`): the value of a chopstick's semaphore and the philosophers that hold it make one,
  whatever the order each takes them in; a philosopher is created once, and nobody eats alone at the table.

TLC checked `LostInv` on the constants of `thread_programs` before it was proved.

Finding 3, run `zippass_cut`: the readme promises the password that decrypts a
file; with as many threads as characters the numbers dealt out for a length
reach longer passwords, and `snprintf()` stores no more than `char_num + 1`
characters (`file_manage.c:127`).

Observed in the code, and part of the models unless said otherwise:

- `hello_order_semaphor_named` and `hello_order_semaphor2` promise "a greet of every thread in order"
  (`:30`, `:28`). In the first the elements of the array are one semaphore, worth one,
  so that nothing keeps the order; in the second the post that lets somebody greet first is a comment
  (`:125`), and all wait for ever. No property is stated of either's order. The last thread of the greeting exercises posts a semaphore main may have
  destroyed. `delayed_busy_wait` divides by zero with its default arguments (`DivideByZero`).
- `prod_cons_unbound_produce2` tests its counter the wrong way round (`producer.c:17`), makes nothing
  and hangs, though its design produces `unit_count` units (`prod_cons_unbound_produce2.pseudo:35-37`). `create_threads_pri` joins identifiers that their threads have yet to store,
  and frees a team twice after a failure. When a creation fails, semaphores and queues are
  destroyed under the threads that run; when both teams fail main returns NULL for both and waits for nobody's units.
- `team_shot_put` gives ties to one team, and after a failed creation reads a
  board that is still written. `grandma_lottery` reads eight bytes of an
  allocation of four. One `birthday_pinata` thread makes all the hits, because it keeps the mutex.
- One philosopher alone waits for the chopstick in its own hand. A relay race
  without one of its starters hangs at the barrier. `mist_cond_var` does not repeat
  its wait, so that a spurious wake-up lets a thread out early.
- `fence_parallelization` leaves out the rows of a thread that was not created; no rows at all underflow.
- The password searches: `MIN` in `zippass_pthread` is a maximum, so that low
  numbers are skipped for short lengths and others tried that are too long; the serial versions miss the
  password that is the first character alone, for every file but the first; the
  TODO that "01 or 001 ... are left out" (`file_manage.c:154`) is not so; a file that cannot be read
  is "opened" by the first candidate or not printed at all; an alphabet of one character
  never ends (excluded by `CandidatesAssumption`); `zippass_pthread` and `pthread_optimized` allocate a hundred bytes for
  their list of paths (`array.c:20`, `simulation.c:36`) and overrun it with the thirteenth (not modelled); in `pthread_optimized` a consumer that cannot be created leaves the producer running.

## 4. The programs with OpenMP and MPI

`ParallelPrograms` puts the eight modules side by side, with the same three variables.

| Module | Programs | Subject |
|---|---|---|
| `MessagePassing` | MPI (external) | ordered channels; a send that returns at once (`eager`) or when it is received, as the standard leaves open |
| `MessageExercises` | `send_recv_ord_itm`, `_ord_sem`, `_urd`, `relay_race_dist`, `lucky_number_reduce`, `_who`, `stdin_bcast`, `stdin_sendrecv`, `mpi_wrapper` | greetings in turn, a referee, reductions, input passed on |
| `RangeDistribution` | `hybrid_distr_arg`, `_stdin`, `_file`, `_bcast`, `_cyclic`, `_wtime` | a range dealt to processes and there to threads |
| `PingPong` | `ping_pong_perfect` | two processes with two threads each |
| `OddEvenSort` | three `odd_even_sort_*` | phases of compare and swap shared by a team |
| `ParallelStatistics` | `average_atomic`, `average_reduction`, `desc_stats`, `desc_stats_median`, `readers_writers` | sums, races on extremes and counters |
| `StagedLoops` | `parallel_for`, `several_for`, `several_for_stages`, `schedule`, `runtime_schedule` | static, dynamic and guided schedules, barriers and single |
| `HeatSimulation` | `project2` | a job file; each plate evolves cell by cell, by a team, until it is in balance; the report |
| `DistributedHeat` | `project2.2` | process 0 deals blocks of jobs to workers and gathers their lines; its plates are `HeatSimulation`'s |

A parallel loop is modelled by the iterations dealt to each thread and one step
per iteration (or per access, where the access is not protected), with the implied
barrier at its end. Temperatures are integers and their division rounds, which
keeps what the properties need: that every state depends on the one before alone.

Run `parallel_programs` (one to three processes, for the relay race four and five; two or
three threads; all sequences of up to five of three numbers to sort; ranges that divide evenly, unevenly, are
empty, negative or upside down; plates of 2x2, 3x4 and 4x4; job files of up to three
jobs, one with a missing plate). `ResultsRight`: the result is the one a single thread
or process computes, in every interleaving; what races in the code, the extremes of `desc_stats` and the counters
of `readers_writers`, a sum without an initial value, and cyclic ranges that do not start at zero, are left out, since the code gets
them wrong. `MessagesArrive`: what is sent reaches the one it is for in the
order it relies on; nothing is stated of the report of a single process. `ProgramsEnd`: every program halts, or is in
one of the hangs its comment names. Five numbers make
passes that need several phases; three processes give workers two jobs, one
or none.

Observed in the code, and part of the models unless said otherwise:

- `project2`: `max_change` starts at `DBL_MIN` (`Heatsim.cpp:126`), so that an epsilon of zero
  never ends (`NeverBalanced`); two jobs with the same plate and number of states write one
  file; the report is written after all plates, or not at all. A plate with no rows underflows and a blank line of a job file is a job without a plate (both not modelled).
- `project2.2`: process 0 waits for all the lines of a worker before it turns to the
  next (`main.cpp:57-68`): one worker simulates after the other. Where
  sends wait for their receiver, a worker with two jobs jams with it (`Jammed`, which `ProgramsEnd` leaves out); its design
  would receive from any process (`heatsim.pseudo:15`). One process alone writes an empty report, though
  "se utilizara un proceso en la ejecucion" (`readme.md:40`) would have it simulate.
- `send_recv_ord_sem` and `mpi_wrapper`: the last process sends a turn nobody
  receives, and hangs where messages are not buffered. `ping_pong_perfect`: the two
  threads of a process use MPI without asking for it, and play with two balls where the readme (`:3`)
  has one player serve to the other; `BallsConserved` is that none is lost or made, however many there are.
- The hybrid programs: `-1` marks a thread without numbers, so that idle threads show a range and a
  real -1 is lost; the cyclic one ignores the start, though its readme (`:3`) deals out the range, and `CyclicSizes`
  is stated of ranges that start at zero; `hybrid_distr_file` reads no file.
- `relay_race_dist` asks for more processes than its message says. `desc_stats` has
  a race on its extremes, and a maximum that starts at zero, where its readme (`:3`) asks for minimum and maximum by
  reductions; the sum of `average_atomic` starts with what the memory holds; the letter and the counters of
  `readers_writers` are shared without protection, where its readme (`:3`) asks for no anomaly of concurrency.
- With fewer than two numbers the bound `n - 2` of `odd_even_sort_*` underflows ("overrun" in the model).

### Fairness, and deadlock

The three suites have one fairness condition: some thread or process that can
run does (weak fairness of the step of the program). Each program makes finitely many steps, but for
the philosophers, so that nothing stronger is needed for an end; where a
program does not end the property names the program and the state it hangs in.
Deadlock is not checked because the programs stop; that they stop only where
they should is what `SimulationEnds`, `AllGetThere` and `ProgramsEnd` say.

## Not modelled

- `prod_cons_unbound_cpp` and `std_thread_cpp` do not compile; `hello`, `recursive_hello`, and the
  four introductory programs with OpenMP and MPI share no state.
- The OpenMP version of the password search with more than one thread: its threads share
  the digits and the candidate without protection and its work-sharing construct is inside a condition; there
  is no behaviour the language would promise.
- The copies of the server in the network simulations' directories are not used by
  their programs; project1's own is modelled.
- `Log`, `Util`, `Comparasion.cpp`, `UniformRandom`, text parsing and printing, Makefiles, images and data.

## What is left

Everything planned has been modelled. Only model-checked, besides liveness:

- `TypeOK` of `ThreadPrograms` and of `ParallelPrograms`. `LostInv` contains the types of the programs
  it is about; those of the searches and greetings would need their own.
- `ResultsComplete`, but for `UnboundedBuffer` (above), and `AnswersRight`: the numbering of candidates is
  a recursion over the candidate's length, and what it computes for every length is an induction
  over data.
- `ResultsRight` and `MessagesArrive` of `ParallelPrograms`. What the provers can still do there: the block mapping of
  `RangeDistribution` as a partition, and the channels of `MessagePassing`.
