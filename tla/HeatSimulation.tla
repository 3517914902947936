--------------------------- MODULE HeatSimulation ---------------------------
(***************************************************************************)
(* The heat transfer simulation of project2: the plates of a job file, one *)
(* after the other, each brought to its balance by states that a team of   *)
(* threads computes from the plate before into a second one; then a report *)
(* with a line for every job, and the plates themselves.                   *)
(*                                                                         *)
(* Temperatures are integers, and the rounding of the division stands for  *)
(* that of the floating point numbers.                                     *)
(***************************************************************************)
EXTENDS Integers, Sequences, FiniteSets, FiniteSetsExt, Functions, SequencesExt

CONSTANTS Plates,      \* plate name -> cells, or NoPlate when there is no file
          NoPlate,
          JobFiles,    \* the job files: sequences of lines
          NumThreads,
          DblMin,      \* the least change there is
          MaxStates    \* bound of k for the plates that are never balanced

VARIABLES program, pc, shared, private

vars == <<program, pc, shared, private>>

Threads == 0..(NumThreads - 1)

RowCount(plate) == 1 + Max({cell[1] : cell \in DOMAIN plate})
ColumnCount(plate) == 1 + Max({cell[2] : cell \in DOMAIN plate})

\* The cells that are not on the edge, in the order of the collapsed loops.
Inner(plate) ==
  (1..(RowCount(plate) - 2)) \X (1..(ColumnCount(plate) - 2))
Position(plate, cell) == (cell[1] - 1) * (ColumnCount(plate) - 2) + cell[2] - 1

\* schedule(static): contiguous blocks, the first ones one longer.
Smaller(a, b) == IF a < b THEN a ELSE b
BlockStart(t, count) == t * (count \div NumThreads) + Smaller(t, count % NumThreads)
CellsOf(t, plate) ==
  LET count == Cardinality(Inner(plate)) IN
  {cell \in Inner(plate) :
     Position(plate, cell) \in BlockStart(t, count)..(BlockStart(t + 1, count) - 1)}

Magnitude(x) == IF x < 0 THEN -x ELSE x

\* division is dimensions^2 / (delta_time * diffusion).
Temperature(plate, division, cell) ==
  LET row == cell[1]
      col == cell[2]
  IN plate[cell] + (plate[row - 1, col] + plate[row, col + 1] + plate[row, col - 1]
                      + plate[row + 1, col] - 4 * plate[cell]) \div division

-----------------------------------------------------------------------------

TypeOK ==
  /\ pc \in {"start", "fill", "state", "report", "binaries", "done", "crashed"}
  /\ shared.index \in 1..(Len(shared.info) + 1)
  /\ \A i \in DOMAIN shared.jobs : shared.jobs[i].k \in 0..MaxStates
  /\ private.todo \in [Threads -> SUBSET UNION {DOMAIN Plates[name] :
                          name \in {n \in DOMAIN Plates : Plates[n] # NoPlate}}]

\* info: the lines of the job file.
Init ==
  /\ program = "heatsim"
  /\ pc = "start"
  /\ \E info \in JobFiles :
       shared = [info |-> info, jobs |-> <<>>, index |-> 1, max_change |-> 0,
                 report |-> <<>>, binaries |-> <<>>]
  /\ private = [todo |-> [t \in Threads |-> {}], max |-> [t \in Threads |-> 0]]

Crash == pc' = "crashed" /\ UNCHANGED <<shared, private>>

ExtractData(info) ==
  [i \in DOMAIN info |->
    [plate_name |-> info[i].plate_name, delta_time |-> info[i].delta_time,
     division |-> info[i].division, epsilon |-> info[i].epsilon,
     k |-> 0, time_elapsed |-> 0, current_plate |-> <<>>, temp_plate |-> <<>>]]

AnalyzeArguments ==
  /\ pc = "start"
  /\ \/ /\ shared' = [shared EXCEPT !.jobs = ExtractData(shared.info)]
        /\ pc' = "fill"
        /\ UNCHANGED private
     \/ Crash                             \* no job file

Job == shared.jobs[shared.index]

\* max_change starts above zero in every thread.
BeginState(plate) ==
  private' = [todo |-> [t \in Threads |-> CellsOf(t, plate)],
              max |-> [t \in Threads |-> DblMin]]

FillMatrix ==
  /\ pc = "fill" /\ shared.index <= Len(shared.jobs)
  /\ IF Plates[Job.plate_name] = NoPlate
     THEN Crash
     ELSE /\ shared' = [shared EXCEPT
               !.jobs[shared.index].current_plate = Plates[Job.plate_name],
               !.jobs[shared.index].temp_plate = Plates[Job.plate_name]]
          /\ pc' = "state"
          /\ BeginState(Plates[Job.plate_name])

NextOf(t, plate) ==
  CHOOSE cell \in private.todo[t] :
    \A other \in private.todo[t] : Position(plate, cell) <= Position(plate, other)

\* Mutant: the new temperature goes into the plate the others still read.
CalculateTempInPlace(t) ==
  /\ pc = "state" /\ private.todo[t] # {}
  /\ LET cell == NextOf(t, Job.current_plate)
         temp == Temperature(Job.current_plate, Job.division, cell)
         change == Magnitude(temp - Job.current_plate[cell])
     IN /\ shared' = [shared EXCEPT !.jobs[shared.index].current_plate[cell] = temp]
        /\ private' = [private EXCEPT !.todo[t] = @ \ {cell},
                                      !.max[t] = Max({@, change})]
  /\ UNCHANGED pc

CalculateTemp(t) ==
  /\ pc = "state" /\ private.todo[t] # {}
  /\ LET cell == NextOf(t, Job.current_plate)
         temp == Temperature(Job.current_plate, Job.division, cell)
         change == Magnitude(temp - Job.current_plate[cell])
     IN /\ shared' = [shared EXCEPT !.jobs[shared.index].temp_plate[cell] = temp]
        /\ private' = [private EXCEPT !.todo[t] = @ \ {cell},
                                      !.max[t] = Max({@, change})]
  /\ UNCHANGED pc

\* The end of the parallel loop: the maxima of the threads are combined, the
\* plates change places, and a balanced plate gives way to the next job.
StateChange ==
  /\ pc = "state" /\ \A t \in Threads : private.todo[t] = {}
  /\ Job.k < MaxStates
  /\ LET max_change == Max(Range(private.max))
         balanced == max_change <= Job.epsilon
     IN /\ shared' = [shared EXCEPT
             !.max_change = max_change,
             !.jobs[shared.index] = [Job EXCEPT !.k = @ + 1,
                !.time_elapsed = Job.delta_time * (Job.k + 1),
                !.current_plate = Job.temp_plate, !.temp_plate = Job.current_plate],
             !.index = IF balanced THEN @ + 1 ELSE @]
        /\ pc' = IF balanced THEN "fill" ELSE "state"
        /\ IF balanced THEN UNCHANGED private ELSE BeginState(Job.temp_plate)

ReportLine(job) == [plate_name |-> job.plate_name, k |-> job.k, time |-> job.time_elapsed]

\* All the lines, when all the plates are done; or the file cannot be written.
WriteReport ==
  /\ pc = "fill" /\ shared.index > Len(shared.jobs)
  /\ \/ /\ shared' = [shared EXCEPT
             !.report = [i \in DOMAIN shared.jobs |-> ReportLine(shared.jobs[i])],
             !.index = 1]
        /\ pc' = "binaries"
        /\ UNCHANGED private
     \/ Crash

FileName(job) == <<job.plate_name, job.k>>

\* A file of the plate's name and k: of two jobs with the same the last remains.
WriteBinaryMatrix ==
  /\ pc = "binaries"
  /\ IF shared.index > Len(shared.jobs)
     THEN pc' = "done" /\ UNCHANGED <<shared, private>>
     ELSE \/ /\ shared' = [shared EXCEPT !.index = @ + 1,
                  !.binaries = [name \in DOMAIN @ \cup {FileName(Job)} |->
                     IF name = FileName(Job) THEN Job.current_plate ELSE @[name]]]
             /\ UNCHANGED <<pc, private>>
          \/ Crash

Next ==
  \/ AnalyzeArguments \/ FillMatrix \/ StateChange \/ WriteReport \/ WriteBinaryMatrix
  \/ \E t \in Threads : CalculateTemp(t)

-----------------------------------------------------------------------------
(* What the simulation promises, whatever the threads do                   *)

Evolved(plate, division) ==
  [cell \in DOMAIN plate |-> IF cell \in Inner(plate)
                             THEN Temperature(plate, division, cell) ELSE plate[cell]]

\* The plate in its n-th state.
InState(plate, division, n) ==
  LET state[k \in 0..n] == IF k = 0 THEN plate ELSE Evolved(state[k - 1], division)
  IN state[n]

LargestChange(plate, division) ==
  Max({DblMin} \cup {Magnitude(Temperature(plate, division, cell) - plate[cell]) :
                       cell \in Inner(plate)})

Initial(job) == Plates[job.plate_name]

\* The first state whose changes are no larger than epsilon.
Balanced(job, k) ==
  /\ k >= 1
  /\ LargestChange(InState(Initial(job), job.division, k - 1), job.division)
       <= job.epsilon
  /\ \A n \in 1..(k - 1) :
       LargestChange(InState(Initial(job), job.division, n - 1), job.division)
         > job.epsilon

\* The current plate is in the state its k says, and what the threads have put
\* into the other one belongs to the next state, in any order of the cells.
StatesExact ==
  pc = "state" =>
    /\ Job.current_plate = InState(Initial(Job), Job.division, Job.k)
    /\ \A cell \in Inner(Job.current_plate) \ UNION Range(private.todo) :
         Job.temp_plate[cell] = Temperature(Job.current_plate, Job.division, cell)

\* The report has a line for every job or none; each says when its plate was
\* balanced for the first time, and every file is the plate of such a job.
ReportExact ==
  /\ \A i \in DOMAIN shared.report :
       /\ shared.report[i].plate_name = shared.info[i].plate_name
       /\ Balanced(shared.info[i], shared.report[i].k)
       /\ shared.report[i].time = shared.info[i].delta_time * shared.report[i].k
  /\ shared.report = <<>> \/ Len(shared.report) = Len(shared.info)
  /\ \A name \in DOMAIN shared.binaries : \E i \in DOMAIN shared.jobs :
       /\ FileName(shared.jobs[i]) = name
       /\ shared.binaries[name]
            = InState(Initial(shared.jobs[i]), shared.jobs[i].division, name[2])
  /\ pc = "done" => \A i \in DOMAIN shared.jobs :
       FileName(shared.jobs[i]) \in DOMAIN shared.binaries

\* A plate with an epsilon under the least change is never found balanced.
NeverBalanced == pc = "state" /\ Job.epsilon < DblMin

Halted == pc \in {"done", "crashed"} \/ NeverBalanced

=============================================================================
