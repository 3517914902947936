----------------------------- MODULE StagedLoops -----------------------------
(***************************************************************************)
(* Loops shared by a team of threads: the programs that print who made     *)
(* each iteration (parallel_for, several_for and several_for_stages, with  *)
(* stages one after the other), and those that store it and then print the *)
(* mapping (schedule, for each kind of schedule, and runtime_schedule).    *)
(***************************************************************************)
EXTENDS Integers, Sequences, FiniteSets, FiniteSetsExt, Functions, SequencesExt

CONSTANTS LoopThreads, IterationCounts, StageCounts, BlockSizes

VARIABLES program, pc, shared, private

vars == <<program, pc, shared, private>>

Printing == {"parallel_for", "several_for", "several_for_stages"}
Mapping == {"schedule", "runtime_schedule"}
Kinds == <<"static", "dynamic", "guided">>
Threads == 0..(LoopThreads - 1)
Iterations == 0..(shared.iteration_count - 1)

TypeOK ==
  /\ pc \in [Threads -> {"loop", "body", "barrier", "single", "done"}]
  /\ shared.next \in 0..shared.iteration_count
  /\ shared.mapping \in [Iterations -> Threads] /\ shared.made \subseteq Iterations
  /\ private \in [Threads -> [todo : SUBSET Iterations, stage : 1..(shared.stages + 1),
                              dealt : BOOLEAN]]

\* kinds: the schedule of each of the stages; made: what it has made so far.
Start(kinds, block_size) ==
  \E iteration_count \in IterationCounts :
    /\ pc = [t \in Threads |-> IF kinds = <<>> THEN "done" ELSE "loop"]
    /\ shared = [iteration_count |-> iteration_count, kinds |-> kinds,
                 stages |-> Len(kinds), block_size |-> block_size, next |-> 0,
                 mapping |-> [i \in 0..(iteration_count - 1) |-> 0],
                 made |-> {}, arrived |-> {}, separated |-> 0, output |-> <<>>]
    /\ private = [t \in Threads |-> [todo |-> {}, stage |-> 1, dealt |-> FALSE]]

InitParallelFor == program = "parallel_for" /\ Start(<<"static">>, 0)
InitSeveralFor == program = "several_for" /\ Start([s \in 1..3 |-> "static"], 0)
InitStages ==
  /\ program = "several_for_stages"
  /\ \E stage_count \in StageCounts : Start([s \in 1..stage_count |-> "static"], 0)
InitSchedule ==
  program = "schedule" /\ \E block_size \in BlockSizes : Start(Kinds, block_size)
InitRuntime ==
  program = "runtime_schedule" /\ \E kind \in Range(Kinds) : Start(<<kind>>, 0)

Init ==
  InitParallelFor \/ InitSeveralFor \/ InitStages \/ InitSchedule \/ InitRuntime

Go(t, at) == pc' = [pc EXCEPT ![t] = at]

-----------------------------------------------------------------------------
(* The schedules                                                           *)

Smaller(a, b) == IF a < b THEN a ELSE b
BlockStart(t, count) == t * (count \div LoopThreads) + Smaller(t, count % LoopThreads)

\* Blocks for each thread, or chunks of block_size dealt in turns.
StaticShare(t) ==
  IF shared.block_size = 0
  THEN BlockStart(t, shared.iteration_count)
       ..(BlockStart(t + 1, shared.iteration_count) - 1)
  ELSE {i \in Iterations : (i \div shared.block_size) % LoopThreads = t}

\* Mutant: the last chunk is as large as the others.
ChunkSizeUncut(kind) ==
  LET least == Max({1, shared.block_size})
      left == shared.iteration_count - shared.next
      part == (left + LoopThreads - 1) \div LoopThreads
  IN IF kind = "guided" THEN Max({least, part}) ELSE least

\* What a thread that asks for work is given: as many iterations as block_size
\* says, or, guided, its part of those that are left if that is more.
ChunkSize(kind) ==
  LET least == Max({1, shared.block_size})
      left == shared.iteration_count - shared.next
      part == (left + LoopThreads - 1) \div LoopThreads
  IN Smaller(left, IF kind = "guided" THEN Max({least, part}) ELSE least)

Kind(t) == shared.kinds[private[t].stage]

TakeStatic(t) ==
  /\ pc[t] = "loop" /\ private[t].stage <= shared.stages
  /\ Kind(t) = "static" /\ ~private[t].dealt
  /\ private' = [private EXCEPT ![t].todo = StaticShare(t), ![t].dealt = TRUE]
  /\ Go(t, "body")
  /\ UNCHANGED shared

\* Mutant: the chunk is given again to who asks next.
TakeChunkTwice(t) ==
  /\ pc[t] = "loop" /\ private[t].stage <= shared.stages
  /\ Kind(t) # "static" /\ shared.next < shared.iteration_count
  /\ private' = [private EXCEPT ![t].todo =
       shared.next..(shared.next + ChunkSize(Kind(t)) - 1)]
  /\ \/ shared' = [shared EXCEPT !.next = @ + ChunkSize(Kind(t))]
     \/ UNCHANGED shared
  /\ Go(t, "body")

TakeChunk(t) ==
  /\ pc[t] = "loop" /\ private[t].stage <= shared.stages
  /\ Kind(t) # "static" /\ shared.next < shared.iteration_count
  /\ private' = [private EXCEPT ![t].todo =
       shared.next..(shared.next + ChunkSize(Kind(t)) - 1)]
  /\ shared' = [shared EXCEPT !.next = @ + ChunkSize(Kind(t))]
  /\ Go(t, "body")

\* An iteration prints its line, or stores the number of its thread.
Iterate(t) ==
  /\ pc[t] = "body" /\ private[t].todo # {}
  /\ LET i == Min(private[t].todo) IN
     shared' = [shared EXCEPT !.made = @ \cup {i},
       !.mapping[i] = IF program \in Mapping THEN t ELSE @,
       !.output = IF program \in Printing
                  THEN Append(@, [kind |-> "line", stage |-> private[t].stage, text |-> i])
                  ELSE @]
  /\ private' = [private EXCEPT ![t].todo = @ \ {Min(@)}]
  /\ UNCHANGED pc

EndChunk(t) ==
  /\ pc[t] = "body" /\ private[t].todo = {}
  /\ Go(t, "loop")
  /\ UNCHANGED <<shared, private>>

-----------------------------------------------------------------------------
(* The barrier after a loop, and the thread that separates the stages      *)

NoWorkLeft(t) ==
  \/ Kind(t) = "static" /\ private[t].dealt
  \/ Kind(t) # "static" /\ shared.next = shared.iteration_count

EndLoop(t) ==
  /\ pc[t] = "loop" /\ private[t].stage <= shared.stages /\ NoWorkLeft(t)
  /\ shared' = [shared EXCEPT !.arrived = @ \cup {t}]
  /\ Go(t, "barrier")
  /\ UNCHANGED private

\* Mutant: the thread that separates the stages does not wait for the others.
LeaveBarrierEarly(t) ==
  /\ pc[t] = "barrier"
  /\ Go(t, "single")
  /\ UNCHANGED <<shared, private>>

LeaveBarrier(t) ==
  /\ pc[t] = "barrier" /\ shared.arrived = Threads
  /\ Go(t, "single")
  /\ UNCHANGED <<shared, private>>

\* Only the schedules print the mapping; the last stage of several_for and
\* the loop of parallel_for have nothing after them.
Separator(t) ==
  [kind |-> "separator", stage |-> private[t].stage,
   text |-> IF program \in Mapping THEN shared.mapping ELSE "", made |-> shared.made]
Separated == program \notin {"parallel_for"}
HasSeparator(t) ==
  Separated /\ (program = "several_for" => private[t].stage < shared.stages)

\* omp single: the first thread to come does it, and a barrier holds them all.
Single(t) ==
  /\ pc[t] = "single" /\ shared.separated < private[t].stage
  /\ shared' = [shared EXCEPT !.separated = private[t].stage,
       !.output = IF HasSeparator(t) THEN Append(@, Separator(t)) ELSE @]
  /\ UNCHANGED <<pc, private>>

\* The next stage begins when all have left the one before.
NextStage ==
  /\ \A t \in Threads : pc[t] = "single" /\ shared.separated = private[t].stage
  /\ private' = [t \in Threads |->
       [todo |-> {}, stage |-> private[t].stage + 1, dealt |-> FALSE]]
  /\ shared' = [shared EXCEPT !.next = 0, !.made = {}, !.arrived = {}]
  /\ pc' = [t \in Threads |->
       IF private[t].stage = shared.stages THEN "done" ELSE "loop"]

Team ==
  \/ NextStage
  \/ \E t \in Threads :
       \/ TakeStatic(t) \/ Iterate(t) \/ EndChunk(t)
       \/ EndLoop(t) \/ LeaveBarrier(t) \/ Single(t)

Scheduled == Team \/ \E t \in Threads : TakeChunk(t)

ParallelForNext == program = "parallel_for" /\ Team
SeveralForNext == program = "several_for" /\ Team
StagesNext == program = "several_for_stages" /\ Team
ScheduleNext == program = "schedule" /\ Scheduled
RuntimeNext == program = "runtime_schedule" /\ Scheduled

Next ==
  ParallelForNext \/ SeveralForNext \/ StagesNext \/ ScheduleNext \/ RuntimeNext

-----------------------------------------------------------------------------

Lines == {i \in DOMAIN shared.output : shared.output[i].kind = "line"}

\* "Las salidas de una etapa no deben mezclarse con las salidas de la siguiente"
\* (several_for_stages/readme.md): the lines come stage by stage, with the
\* separator between them, and each iteration prints once in each stage.
StagesSeparated ==
  program \in Printing =>
    /\ \A i, j \in DOMAIN shared.output : i < j =>
         IF i \in Lines THEN shared.output[i].stage <= shared.output[j].stage
         ELSE shared.output[i].stage < shared.output[j].stage
    /\ \A i, j \in Lines : i # j => shared.output[i] # shared.output[j]
    /\ (\A t \in Threads : pc[t] = "done") =>
         {<<shared.output[i].stage, shared.output[i].text>> : i \in Lines}
           = (1..shared.stages) \X Iterations

\* A mapping is printed when every iteration has its thread, and says what the
\* schedule promises: a static one only depends on the number of threads, and
\* in a dynamic one an iteration that was given out has one owner.
MappingComplete ==
  program \in Mapping =>
    /\ \A s \in DOMAIN shared.output :
         LET mapping == shared.output[s].text IN
           /\ shared.output[s].made = Iterations
           /\ shared.kinds[s] = "static" =>
                \A t \in Threads : {i \in Iterations : mapping[i] = t} = StaticShare(t)
    /\ \A t, u \in Threads :
         t # u /\ private[t].stage = private[u].stage
           => private[t].todo \cap private[u].todo = {}

Halted == \A t \in Threads : pc[t] = "done"

=============================================================================
