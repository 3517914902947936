-------------------------- MODULE ParallelPrograms --------------------------
(***************************************************************************)
(* The programs with OpenMP and MPI side by side: loops shared by a team   *)
(* of threads, processes that pass messages, and the two heat transfer     *)
(* simulations.  A behaviour is one of a single program.                   *)
(***************************************************************************)
EXTENDS Naturals

CONSTANTS MaxProcesses, ProcessCounts, RaceProcessCounts, LuckyNumbers, InputValues,
          OmpThreads, OverallRanges, MaxServes,
          MaxLength, Numbers, SortThreads, ValueLists, StatThreads, Letters, Garbage,
          LoopThreads, IterationCounts, StageCounts, BlockSizes,
          Plates, NoPlate, JobFiles, NumThreads, DblMin, MaxStates

VARIABLES program, pc, shared, private

vars == <<program, pc, shared, private>>

Messages == INSTANCE MessageExercises
Ranges == INSTANCE RangeDistribution
Rally == INSTANCE PingPong
Sort == INSTANCE OddEvenSort
Stats == INSTANCE ParallelStatistics
Loops == INSTANCE StagedLoops
Heat == INSTANCE HeatSimulation
Distributed == INSTANCE DistributedHeat

MessagePrograms ==
  Messages!InTurns \cup Messages!ToFirst \cup Messages!Lucky \cup Messages!Input
    \cup {"relay_race_dist"}
RangePrograms ==
  Ranges!SendingPrograms \cup Ranges!BroadcastPrograms \cup {"hybrid_distr_arg"}
StatPrograms == Stats!Averages \cup Stats!Descriptions \cup {"readers_writers"}
LoopPrograms == Loops!Printing \cup Loops!Mapping

Init ==
  \/ Messages!Init \/ Ranges!Init \/ Rally!Init \/ Sort!Init \/ Stats!Init
  \/ Loops!Init \/ Heat!Init \/ Distributed!Init

Next ==
  /\ UNCHANGED program
  /\ \/ program \in MessagePrograms /\ Messages!Next
     \/ program \in RangePrograms /\ Ranges!Next
     \/ program = "ping_pong_perfect" /\ Rally!Next
     \/ program \in Sort!Programs /\ Sort!Next
     \/ program \in StatPrograms /\ Stats!Next
     \/ program \in LoopPrograms /\ Loops!Next
     \/ program = "heatsim" /\ Heat!Next
     \/ program = "heatsim_mpi" /\ Distributed!Next

\* Some thread or process that can run does; none of the programs has a loop
\* in which one of them could keep the others from running.
Spec == Init /\ [][Next]_vars /\ WF_vars(Next)

-----------------------------------------------------------------------------

TypeOK ==
  /\ program \in MessagePrograms => Messages!TypeOK
  /\ program \in RangePrograms => Ranges!TypeOK
  /\ program = "ping_pong_perfect" => Rally!TypeOK
  /\ program \in Sort!Programs => Sort!TypeOK
  /\ program \in StatPrograms => Stats!TypeOK
  /\ program \in LoopPrograms => Loops!TypeOK
  /\ program = "heatsim" => Heat!TypeOK
  /\ program = "heatsim_mpi" => Distributed!TypeOK

\* What several threads or processes compute together is what one alone would:
\* the same order, sums, plates and mappings in every interleaving.  Left out
\* is what the code gets wrong: the minimum and maximum of desc_stats and the
\* counters of readers_writers, both racing, a sum without an initial value,
\* and cyclic ranges that do not start at zero.
ResultsRight ==
  /\ program \in Sort!Programs => Sort!SortedAtEnd /\ Sort!FewPasses
  /\ program \in StatPrograms => Stats!AverageOfAll
  /\ program \in LoopPrograms => Loops!StagesSeparated /\ Loops!MappingComplete
  /\ program \in MessagePrograms => Messages!StatisticsOfAll
  /\ program \in RangePrograms => Ranges!RangePartitioned /\ Ranges!CyclicSizes
  /\ program = "heatsim" => Heat!StatesExact /\ Heat!ReportExact

\* What is sent arrives at the one it is for, in the order the receiver relies
\* on: greetings, batons, values, balls (however many), jobs and, if there is a
\* worker, their lines.
MessagesArrive ==
  /\ program \in MessagePrograms =>
       Messages!GreetOnce /\ Messages!RefereeFair /\ Messages!ValuesArrive
  /\ program = "ping_pong_perfect" => Rally!BallsConserved
  /\ program = "heatsim_mpi" => Distributed!LinesInOrder

Halted ==
  \/ program \in MessagePrograms /\ Messages!Halted
  \/ program \in RangePrograms /\ Ranges!Halted
  \/ program = "ping_pong_perfect" /\ Rally!Halted
  \/ program \in Sort!Programs /\ Sort!Halted
  \/ program \in StatPrograms /\ Stats!Halted
  \/ program \in LoopPrograms /\ Loops!Halted
  \/ program = "heatsim" /\ Heat!Halted
  \/ program = "heatsim_mpi" /\ Distributed!Halted

\* Every program ends, or goes on for ever at one of these points, which are no
\* end and are left out: without buffers for messages the greeting in turns in
\* its last message, and the distributed simulation when a worker has two jobs
\* (Jammed); a plate with an epsilon of zero, never balanced; an odd-even sort
\* of less than two numbers, whose index overruns the array.  The ping-pong,
\* which has no end, counts as ended at its bound.  A crash is an end.
ProgramsEnd == <>Halted

=============================================================================
