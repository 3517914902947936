--------------------------- MODULE ThreadPrograms ---------------------------
(***************************************************************************)
(* The C programs with threads side by side: the exercises, and the        *)
(* password search in its five versions.  A behaviour is one of a single   *)
(* program: pc says where its threads are, shared is the record they       *)
(* share, and private what main and each of them hold.                     *)
(***************************************************************************)
EXTENDS PasswordCandidates

CONSTANTS UnitCount, ProducerCount, ConsumerCount, BufferCapacity, Rounds,
          ThreadCount, LifePinata, AthleteCount, MaxNumber,
          MaxPhilosophers, Rows, Columns, FenceThreads, TeamCount,
          FileCount,
          ShownArchives,    \* what a file may be, in the searches with threads
          SearchThreads, SearchConsumers

VARIABLES program, pc, shared, private

vars == <<program, pc, shared, private>>

Unbounded == INSTANCE UnboundedBuffer
Bounded == INSTANCE BoundedBuffer
Greeting == INSTANCE GreetingOrder
Counters == INSTANCE SharedCounters
Dining == INSTANCE DiningPhilosophers
Fence == INSTANCE FenceSearch
Relay == INSTANCE RelayRace
Serial == INSTANCE SerialSearch WITH Contents <- Archives
Thread == INSTANCE ThreadSearch WITH Contents <- ShownArchives,
                                     ThreadCount <- SearchThreads
Queue == INSTANCE QueueSearch WITH Contents <- ShownArchives,
                                   ConsumerCount <- SearchConsumers

ASSUME ProgramsAssumption ==
  /\ Unbounded!ValidArguments /\ Bounded!ValidArguments /\ Relay!ValidArguments
  /\ Greeting!ThreadsAssumption /\ Counters!CountersAssumption
  /\ Dining!PhilosophersAssumption /\ Fence!FenceAssumption
  /\ Serial!SerialAssumption /\ Thread!ThreadSearchAssumption
  /\ Queue!QueueSearchAssumption

UnboundedPrograms ==
  {"prod_cons_unbound_produce0", "prod_cons_unbound_produce2", "create_threads_pri"}
BoundedPrograms == {"prod_cons_bound", "prod_cons_bound_mod"}
GreetingPrograms ==
  {"hello_order_semaphor", "hello_order_semaphor2", "hello_order_semaphor_named",
   "hello_order_busywait", "delayed_busy_wait", "hello_order_cond_safe",
   "hello_iw_shr", "hello_iw_pri", "hello_w", "std_thread_c"}
CounterPrograms ==
  {"birthday_pinata", "position_race", "team_shot_put", "grandma_lottery"}
RelayPrograms == {"relay_race", "relay_race_order_effect", "mist_cond_var"}
SerialPrograms == {"zippass_serial", "serial_optimized", "zippass_openmp"}
SearchPrograms == SerialPrograms \cup {"zippass_pthread", "pthread_optimized"}

Init ==
  \/ Unbounded!Init \/ Bounded!Init \/ Greeting!Init \/ Counters!Init \/ Relay!Init
  \/ program = "dining_philosophers" /\ Dining!Init
  \/ program = "fence_parallelization" /\ Fence!Init
  \/ Serial!Init
  \/ program = "zippass_pthread" /\ Thread!Init
  \/ program = "pthread_optimized" /\ Queue!Init

UnboundedNext == program \in UnboundedPrograms /\ Unbounded!Next
BoundedNext == program \in BoundedPrograms /\ Bounded!Next
GreetingNext == program \in GreetingPrograms /\ Greeting!Next
CountersNext == program \in CounterPrograms /\ Counters!Next
RelayNext == program \in RelayPrograms /\ Relay!Next
DiningNext == program = "dining_philosophers" /\ Dining!Next
FenceNext == program = "fence_parallelization" /\ Fence!Next
SearchNext ==
  \/ program \in SerialPrograms /\ Serial!Next
  \/ program = "zippass_pthread" /\ Thread!Next
  \/ program = "pthread_optimized" /\ Queue!Next

Next ==
  /\ UNCHANGED program
  /\ \/ UnboundedNext \/ BoundedNext \/ GreetingNext \/ CountersNext
     \/ RelayNext \/ DiningNext \/ FenceNext \/ SearchNext

\* Some thread that can run does: no program but the philosophers' loops.
Spec == Init /\ [][Next]_vars /\ WF_vars(Next)

-----------------------------------------------------------------------------

TypeOK ==
  /\ program \in UnboundedPrograms => Unbounded!TypeOK
  /\ program \in BoundedPrograms => Bounded!TypeOK
  /\ program \in GreetingPrograms => Greeting!TypeOK
  /\ program \in CounterPrograms => Counters!TypeOK
  /\ program \in RelayPrograms => Relay!TypeOK
  /\ program = "dining_philosophers" => Dining!TypeOK
  /\ program = "fence_parallelization" => Fence!TypeOK
  /\ program \in SerialPrograms => Serial!TypeOK
  /\ program = "zippass_pthread" => Thread!TypeOK
  /\ program = "pthread_optimized" => Queue!TypeOK

\* The units, values, hits, positions, chopsticks and batons the threads pass
\* around are neither lost nor doubled, and with the counters and semaphores
\* agree at every step, not only when the program has ended.  Of produce2 this
\* says little, for it has no unit to lose: its producers leave when there are
\* units to make, contrary to its design, and that is not stated as right.
NothingLost ==
  /\ program \in UnboundedPrograms => Unbounded!UnitsConserved
  /\ program \in BoundedPrograms => Bounded!BufferKept
  /\ program \in CounterPrograms => Counters!CountedOnce
  /\ program \in RelayPrograms => Relay!FairRace
  /\ program = "dining_philosophers" => Dining!ChopsticksKept

\* What main shows at the end is what the threads did, and was read when they
\* had done it: greetings in order (but for semaphor2 and the named semaphore,
\* which break the order they promise, see GreetsAsPromised), points of a
\* finished board, the longest fence, and no thread left behind by a team that
\* is complete.  A process that crashed after a creation that failed shows
\* nothing, and nothing is asked of it.
ResultsComplete ==
  /\ program \in UnboundedPrograms => Unbounded!DestroysIdle
  /\ program \in BoundedPrograms => Bounded!DestroysIdle
  /\ program \in GreetingPrograms =>
       Greeting!GreetsAsPromised /\ Greeting!OutlivesThreads
  /\ program \in CounterPrograms => Counters!VerdictOfBoard /\ Counters!TicketKept
  /\ program \in RelayPrograms => Relay!MistOpens
  /\ program = "fence_parallelization" => Fence!LongestFence

\* Each search answers with the passwords of the archives and no others, but
\* for those its numbering of the candidates leaves out, whatever thread finds
\* them and whatever the others have begun; and the optimized program prints
\* and destroys what no thread uses any more.
AnswersRight ==
  /\ program \in SerialPrograms => Serial!AnswersRight
  /\ program = "zippass_pthread" => Thread!AnswersRight
  /\ program = "pthread_optimized" => Queue!AnswersRight /\ Queue!DestroysIdle

Halted ==
  CASE program \in SerialPrograms -> pc = "done"
    [] program = "pthread_optimized" -> pc.main \in {"done", "crashed"}
    [] program \in BoundedPrograms -> pc.main = "done"
    [] program \in UnboundedPrograms ->
         private.at \in {"done", "crashed"} \/ private.failed = {"producers", "consumers"}
    [] program \in RelayPrograms ->
         private.at \in {"done", "crashed"} \/ Relay!StarterMissing
    [] OTHER -> private.at \in {"done", "crashed"}

Eating == program = "dining_philosophers" /\ Dining!SomeoneEats

\* The programs come to an end, thread creations that fail included, and two or
\* more philosophers eat again and again.  Left out are the two programs that
\* hang, produce2, which makes nothing, and semaphor2, where nobody may begin;
\* a relay race without one of its starters hangs as well, and so may a main
\* that could create neither team whole: it joins consumers, with no producer.
\* Every search ends: its teams are joined, each consumer gets a stop.
\* A crash after a creation that failed, a division by zero in delayed_busy_wait
\* included, is an end here: the property is about waiting, not about crashes.
AllGetThere ==
  /\ program \notin {"prod_cons_unbound_produce2", "hello_order_semaphor2",
                    "dining_philosophers"} => <>Halted
  /\ program = "dining_philosophers" /\ shared.philosopher_num > 1 =>
       []<>(Eating \/ Halted)

\* "the path of each file and the password that decrypts it"
\* (zippass_pthread/readme.md:30).
PrintedPasswordOpens ==
  program = "zippass_pthread" => Thread!PrintedPasswordOpens

=============================================================================
