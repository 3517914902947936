------------------------- MODULE ParallelStatistics -------------------------
(***************************************************************************)
(* Statistics computed by teams of threads: the averages with atomic sums  *)
(* and with a reduction, the descriptive statistics whose minimum and      *)
(* maximum are shared and unprotected (desc_stats, and desc_stats_median,  *)
(* which sorts first), and the counters of readers_writers.                *)
(* Values are integers; of the averages the sums are kept, of the standard *)
(* deviation the numbers the deviations were taken from.                   *)
(***************************************************************************)
EXTENDS Integers, Sequences, FiniteSets, FiniteSetsExt, Functions, SequencesExt

CONSTANTS ValueLists, StatThreads, Letters, Garbage

VARIABLES program, pc, shared, private

vars == <<program, pc, shared, private>>

Averages == {"average_atomic", "average_reduction"}
Descriptions == {"desc_stats", "desc_stats_median"}
Threads == 0..(StatThreads - 1)

TypeOK ==
  /\ pc \in [Threads -> {"start", "loop", "new_min", "max", "new_max", "add",
                         "barrier", "deviate", "letter", "test_w", "done"}]
  /\ shared.combined \subseteq Threads
  /\ \A t \in Threads : private[t].todo \subseteq 1..Len(shared.values)

Idle == [t \in Threads |-> [todo |-> {}, sum |-> 0, average |-> {}]]

\* first: the number read first, where min starts; max starts at zero.
Start(values, first, total_sum) ==
  /\ pc = [t \in Threads |-> "start"]
  /\ shared = [values |-> values, initial |-> total_sum, total_sum |-> total_sum,
               min |-> first, max |-> 0,
               combined |-> {}, deviated |-> {},
               letter |-> "none", input |-> <<>>, taken |-> 0,
               reader_count |-> 0, writer_count |-> 0]
  /\ private = Idle

\* total_sum has no initial value.
InitAtomic ==
  /\ program = "average_atomic"
  /\ \E values \in ValueLists, total_sum \in Garbage : Start(values, 0, total_sum)
InitReduction ==
  program = "average_reduction" /\ \E values \in ValueLists : Start(values, 0, 0)
InitDescStats ==
  /\ program = "desc_stats"
  /\ \E values \in ValueLists : values # <<>> /\ Start(values, values[1], 0)
\* The numbers are sorted when min has its first value.
InitMedian ==
  /\ program = "desc_stats_median"
  /\ \E values \in ValueLists :
       values # <<>> /\ Start(SortSeq(values, LAMBDA a, b : a < b), values[1], 0)
InitReaders ==
  /\ program = "readers_writers"
  /\ pc = [t \in Threads |-> "start"]
  /\ \E input \in Letters :
       shared = [values |-> <<>>, initial |-> 0, total_sum |-> 0,
                 min |-> 0, max |-> 0, combined |-> {}, deviated |-> {},
                 letter |-> "none", input |-> input, taken |-> 0,
                 reader_count |-> 0, writer_count |-> 0]
  /\ private = Idle

Init == InitAtomic \/ InitReduction \/ InitDescStats \/ InitMedian \/ InitReaders

Go(t, at) == pc' = [pc EXCEPT ![t] = at]

Smaller(a, b) == IF a < b THEN a ELSE b
BlockStart(t, count) ==
  1 + t * (count \div StatThreads) + Smaller(t, count % StatThreads)
Share(t) ==
  LET count == Len(shared.values) IN BlockStart(t, count)..(BlockStart(t + 1, count) - 1)

Value(t) == shared.values[Min(private[t].todo)]

BeginLoop(t) ==
  /\ pc[t] = "start"
  /\ private' = [private EXCEPT ![t].todo = Share(t)]
  /\ Go(t, "loop")
  /\ UNCHANGED shared

\* The partial sums of the threads.
AddValue(t) ==
  /\ pc[t] = "loop" /\ private[t].todo # {}
  /\ private' = [private EXCEPT ![t].sum = @ + Value(t),
                                ![t].todo = @ \ {Min(@)}]
  /\ UNCHANGED <<pc, shared>>

\* Mutant: a thread adds its sum to what it finds before its loop.
CombineSet(t) ==
  /\ shared' = [shared EXCEPT !.total_sum = private[t].sum,
                              !.combined = @ \cup {t}]

\* In one step: atomic, or the runtime's own combination of a reduction.
Combine(t) ==
  /\ shared' = [shared EXCEPT !.total_sum = @ + private[t].sum,
                              !.combined = @ \cup {t}]

EndAverage(t) ==
  /\ pc[t] = "loop" /\ private[t].todo = {}
  /\ Combine(t)
  /\ Go(t, "done")
  /\ UNCHANGED private

AverageAtomicNext(t) ==
  program = "average_atomic" /\ (BeginLoop(t) \/ AddValue(t) \/ EndAverage(t))

AverageReductionNext(t) ==
  program = "average_reduction" /\ (BeginLoop(t) \/ AddValue(t) \/ EndAverage(t))

-----------------------------------------------------------------------------
(* Minimum and maximum are compared and set in separate steps.             *)

TestMin(t) ==
  /\ pc[t] = "loop" /\ private[t].todo # {}
  /\ Go(t, IF shared.min > Value(t) THEN "new_min" ELSE "max")
  /\ UNCHANGED <<shared, private>>

SetMin(t) ==
  /\ pc[t] = "new_min"
  /\ shared' = [shared EXCEPT !.min = Value(t)]
  /\ Go(t, "max")
  /\ UNCHANGED private

TestMax(t) ==
  /\ pc[t] = "max"
  /\ Go(t, IF shared.max < Value(t) THEN "new_max" ELSE "add")
  /\ UNCHANGED <<shared, private>>

SetMax(t) ==
  /\ pc[t] = "new_max"
  /\ shared' = [shared EXCEPT !.max = Value(t)]
  /\ Go(t, "add")
  /\ UNCHANGED private

AddToAverage(t) ==
  /\ pc[t] = "add"
  /\ private' = [private EXCEPT ![t].sum = @ + Value(t), ![t].todo = @ \ {Min(@)}]
  /\ Go(t, "loop")
  /\ UNCHANGED shared

EndFirstLoop(t) ==
  /\ pc[t] = "loop" /\ private[t].todo = {}
  /\ Combine(t)
  /\ Go(t, "barrier")
  /\ UNCHANGED private

\* Mutant: no barrier between the loops.
BeginDeviationsEarly(t) ==
  /\ pc[t] = "barrier"
  /\ private' = [private EXCEPT ![t].todo = Share(t)]
  /\ Go(t, "deviate")
  /\ UNCHANGED shared

\* The second loop needs the average of the first, complete at its barrier.
BeginDeviations(t) ==
  /\ pc[t] = "barrier" /\ shared.combined = Threads
  /\ private' = [private EXCEPT ![t].todo = Share(t)]
  /\ Go(t, "deviate")
  /\ UNCHANGED shared

Deviate(t) ==
  /\ pc[t] = "deviate" /\ private[t].todo # {}
  /\ private' = [private EXCEPT ![t].average = @ \cup {shared.total_sum},
                                ![t].todo = @ \ {Min(@)}]
  /\ UNCHANGED <<pc, shared>>

EndDeviations(t) ==
  /\ pc[t] = "deviate" /\ private[t].todo = {}
  /\ shared' = [shared EXCEPT !.deviated = @ \cup {t}]
  /\ Go(t, "done")
  /\ UNCHANGED private

Describe(t) ==
  \/ BeginLoop(t) \/ TestMin(t) \/ SetMin(t) \/ TestMax(t) \/ SetMax(t)
  \/ AddToAverage(t) \/ EndFirstLoop(t)
  \/ BeginDeviations(t) \/ Deviate(t) \/ EndDeviations(t)

DescStatsNext(t) == program = "desc_stats" /\ Describe(t)
MedianNext(t) == program = "desc_stats_median" /\ Describe(t)

-----------------------------------------------------------------------------
(* readers_writers: the letter is shared, the counters are protected.      *)

\* A further letter is read into the variable the others may be testing.
ReadLetter(t) ==
  /\ pc[t] = "start"
  /\ IF shared.taken < Len(shared.input)
     THEN /\ shared' = [shared EXCEPT !.taken = @ + 1,
                                      !.letter = shared.input[shared.taken + 1]]
          /\ Go(t, "letter")
     ELSE Go(t, "done") /\ UNCHANGED shared
  /\ UNCHANGED private

TestReader(t) ==
  /\ pc[t] = "letter"
  /\ IF shared.letter = "R"
     THEN shared' = [shared EXCEPT !.reader_count = @ + 1] /\ Go(t, "start")
     ELSE Go(t, "test_w") /\ UNCHANGED shared
  /\ UNCHANGED private

\* The letter may be another one by now.
TestWriter(t) ==
  /\ pc[t] = "test_w"
  /\ shared' = IF shared.letter = "W"
               THEN [shared EXCEPT !.writer_count = @ + 1] ELSE shared
  /\ Go(t, "start")
  /\ UNCHANGED private

ReadersNext(t) ==
  program = "readers_writers" /\ (ReadLetter(t) \/ TestReader(t) \/ TestWriter(t))

Next ==
  \E t \in Threads :
    \/ AverageAtomicNext(t) \/ AverageReductionNext(t)
    \/ DescStatsNext(t) \/ MedianNext(t) \/ ReadersNext(t)

-----------------------------------------------------------------------------

Halted == \A t \in Threads : pc[t] = "done"

SumOf(values) == MapThenSumSet(LAMBDA i : values[i], DOMAIN values)

\* The average is that of all values, also the one the deviations of every
\* thread start from.  average_atomic leaves its sum without an initial value:
\* only the runs whose memory was zero are held to this.
AverageOfAll ==
  program \notin {"readers_writers"} =>
    /\ shared.initial = 0 /\ shared.combined = Threads =>
         shared.total_sum = SumOf(shared.values)
    /\ \A t \in Threads : private[t].average \subseteq {SumOf(shared.values)}

=============================================================================
