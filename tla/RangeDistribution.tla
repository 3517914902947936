-------------------------- MODULE RangeDistribution --------------------------
(***************************************************************************)
(* The programs that deal out a range of integers to processes, and in     *)
(* each of them to threads: the range comes from the arguments, or process *)
(* 0 reads it and sends it (stdin, file, wtime) or broadcasts it (bcast,   *)
(* cyclic).  Blocks everywhere, but hybrid_distr_cyclic deals in turns.    *)
(***************************************************************************)
EXTENDS MessagePassing, Integers, FiniteSets, FiniteSetsExt, Functions

CONSTANTS ProcessCounts, OmpThreads,   \* threads of each process
          OverallRanges                \* pairs <<start, finish>>

VARIABLES program, pc, shared, private

vars == <<program, pc, shared, private>>

SendingPrograms == {"hybrid_distr_stdin", "hybrid_distr_file", "hybrid_distr_wtime"}
BroadcastPrograms == {"hybrid_distr_bcast", "hybrid_distr_cyclic"}

Processes == 0..(shared.process_count - 1)
Threads == 0..(OmpThreads - 1)

TypeOK ==
  /\ shared.process_count \in ProcessCounts /\ shared.eager \in BOOLEAN
  /\ pc \in [Processes -> {"start", "send", "receive_start", "receive_finish",
                           "range", "threads", "finalize", "done"}]
  /\ \A p \in Processes : DOMAIN private[p].shown \subseteq Threads

\* argc is 3 when the arguments have the range.
Start ==
  \E process_count \in ProcessCounts, eager, given \in BOOLEAN,
     overall \in OverallRanges :
    /\ pc = [p \in 0..(process_count - 1) |-> "start"]
    /\ shared = [process_count |-> process_count, eager |-> eager, given |-> given,
                 overall |-> overall, channels |-> NoMessages,
                 target |-> 1, broadcast |-> <<>>]
    /\ private = [p \in 0..(process_count - 1) |->
                   [overall_start |-> -1, overall_finish |-> -1,
                    process_start |-> -1, process_finish |-> -1,
                    process_size |-> 0, shown |-> <<>>]]

InitArg == program = "hybrid_distr_arg" /\ Start
InitStdin == program = "hybrid_distr_stdin" /\ Start
InitFile == program = "hybrid_distr_file" /\ Start
InitWtime == program = "hybrid_distr_wtime" /\ Start
InitBcast == program = "hybrid_distr_bcast" /\ Start
InitCyclic == program = "hybrid_distr_cyclic" /\ Start

Init == InitArg \/ InitStdin \/ InitFile \/ InitWtime \/ InitBcast \/ InitCyclic

Go(p, at) == pc' = [pc EXCEPT ![p] = at]

-----------------------------------------------------------------------------
(* The integer division of C rounds towards zero.                          *)

Quotient(a, b) == IF a >= 0 THEN a \div b ELSE -((-a) \div b)
Remainder(a, b) == a - b * Quotient(a, b)
Smaller(a, b) == IF a < b THEN a ELSE b

\* Mutant: the numbers left over go to nobody.
StartWithoutRest(rank, end, workers, begin) ==
  begin + rank * Quotient(end - begin, workers)

calculate_start(rank, end, workers, begin) ==
  begin + rank * Quotient(end - begin, workers)
        + Smaller(rank, Remainder(end - begin, workers))

calculate_finish(rank, end, workers, begin) ==
  calculate_start(rank + 1, end, workers, begin)

\* The cyclic program begins at the process's number, whatever the start.
Mapping(rank, workers, finish) ==
  {i \in 0..(finish - 1) : i >= rank /\ (i - rank) % workers = 0}

-----------------------------------------------------------------------------
(* The range of the whole program reaches each process                     *)

\* From the arguments; without them hybrid_distr_arg shows its usage and ends,
\* and process 0 of the others reads the range.
ReadRange(p) ==
  /\ pc[p] = "start"
  /\ IF shared.given \/ (p = 0 /\ program # "hybrid_distr_arg")
     THEN private' = [private EXCEPT ![p].overall_start = shared.overall[1],
                                     ![p].overall_finish = shared.overall[2]]
     ELSE UNCHANGED private
  /\ Go(p, IF shared.given /\ program \notin BroadcastPrograms THEN "range"
           ELSE IF program = "hybrid_distr_arg" THEN "finalize"
           ELSE IF p = 0 THEN "send" ELSE "receive_start")
  /\ UNCHANGED shared

\* The start and then the finish, to one process after the other.
SendRange ==
  /\ pc[0] = "send"
  /\ IF shared.target < shared.process_count
     THEN /\ shared' = [shared EXCEPT !.target = @ + 1,
               !.channels = Sent(Sent(@, 0, shared.target, private[0].overall_start),
                                 0, shared.target, private[0].overall_finish)]
          /\ UNCHANGED pc
     ELSE Go(0, "range") /\ UNCHANGED shared
  /\ UNCHANGED private

\* Mutant: the first of the two messages is taken for the finish.
ReceiveFinishFirst(p) ==
  /\ pc[p] = "receive_start" /\ Waiting(shared.channels, 0, p)
  /\ private' = [private EXCEPT ![p].overall_finish = Received(shared.channels, 0, p)]
  /\ shared' = [shared EXCEPT !.channels = Taken(@, 0, p)]
  /\ Go(p, "receive_finish")

ReceiveStart(p) ==
  /\ pc[p] = "receive_start" /\ Waiting(shared.channels, 0, p)
  /\ private' = [private EXCEPT ![p].overall_start = Received(shared.channels, 0, p)]
  /\ shared' = [shared EXCEPT !.channels = Taken(@, 0, p)]
  /\ Go(p, "receive_finish")

ReceiveFinish(p) ==
  /\ pc[p] = "receive_finish" /\ Waiting(shared.channels, 0, p)
  /\ private' = [private EXCEPT ![p].overall_finish = Received(shared.channels, 0, p)]
  /\ shared' = [shared EXCEPT !.channels = Taken(@, 0, p)]
  /\ Go(p, "range")

\* MPI_Bcast() twice, of arguments too.
BroadcastRange ==
  /\ pc[0] = "send"
  /\ shared' = [shared EXCEPT !.broadcast = Append(@,
       IF @ = <<>> THEN private[0].overall_start ELSE private[0].overall_finish)]
  /\ Go(0, IF shared.broadcast = <<>> THEN "send" ELSE "range")
  /\ UNCHANGED private

TakeBroadcast(p) ==
  /\ \/ /\ pc[p] = "receive_start" /\ Len(shared.broadcast) >= 1
        /\ private' = [private EXCEPT ![p].overall_start = shared.broadcast[1]]
        /\ Go(p, "receive_finish")
     \/ /\ pc[p] = "receive_finish" /\ Len(shared.broadcast) = 2
        /\ private' = [private EXCEPT ![p].overall_finish = shared.broadcast[2]]
        /\ Go(p, "range")
  /\ UNCHANGED shared

-----------------------------------------------------------------------------
(* The range of the process, and of its threads                            *)

CalculateRange(p) ==
  /\ pc[p] = "range"
  /\ LET start == calculate_start(p, private[p].overall_finish,
                    shared.process_count, private[p].overall_start)
         finish == calculate_finish(p, private[p].overall_finish,
                     shared.process_count, private[p].overall_start)
     IN private' = [private EXCEPT ![p].process_start = start,
                      ![p].process_finish = finish, ![p].process_size = finish - start]
  /\ Go(p, "threads")
  /\ UNCHANGED shared

\* my_start is the first number of the mapping, my_finish its last if it has two.
CyclicRange(p) ==
  /\ pc[p] = "range"
  /\ LET mapping == Mapping(p, shared.process_count, private[p].overall_finish)
     IN private' = [private EXCEPT
          ![p].process_start = IF mapping = {} THEN -1 ELSE Min(mapping),
          ![p].process_finish = IF Cardinality(mapping) < 2 THEN -1 ELSE Max(mapping),
          ![p].process_size = Cardinality(mapping)]
  /\ Go(p, "threads")
  /\ UNCHANGED shared

\* schedule(static): blocks again, the first ones one longer.
Block(p, t) ==
  LET count == Max({0, private[p].process_finish - private[p].process_start})
      first == private[p].process_start
  IN (first + t * (count \div OmpThreads) + Smaller(t, count % OmpThreads))
     ..(first + (t + 1) * (count \div OmpThreads)
          + Smaller(t + 1, count % OmpThreads) - 1)

\* -1 stands for "not yet": a block that begins with it is shown without it, and
\* a thread with no block shows the range from -1 to 0, of size 1.
ShownRange(block) ==
  LET later == block \ {-1}
  IN [start |-> IF later = {} THEN -1 ELSE Min(later),
      finish |-> IF block = {} THEN 0 ELSE Max(block) + 1]

\* Each thread prints once, in the critical section.
ShowThread(p, t) ==
  /\ pc[p] = "threads" /\ t \notin DOMAIN private[p].shown
  /\ private' = [private EXCEPT ![p].shown =
       [u \in DOMAIN @ \cup {t} |-> IF u = t THEN ShownRange(Block(p, t)) ELSE @[u]]]
  /\ UNCHANGED <<pc, shared>>

ThreadsEnd(p) ==
  /\ pc[p] = "threads" /\ DOMAIN private[p].shown = Threads
  /\ Go(p, "finalize")
  /\ UNCHANGED <<shared, private>>

Finalize(p) ==
  /\ pc[p] = "finalize"
  /\ Go(p, "done")
  /\ UNCHANGED <<shared, private>>

Show(p) ==
  (\E t \in Threads : ShowThread(p, t)) \/ ThreadsEnd(p) \/ Finalize(p)

Sending(p) ==
  \/ ReadRange(p) \/ ReceiveStart(p) \/ ReceiveFinish(p)
  \/ p = 0 /\ SendRange
  \/ CalculateRange(p) \/ Show(p)

ArgNext(p) ==
  program = "hybrid_distr_arg" /\ (ReadRange(p) \/ CalculateRange(p) \/ Show(p))

StdinNext(p) == program = "hybrid_distr_stdin" /\ Sending(p)
FileNext(p) == program = "hybrid_distr_file" /\ Sending(p)
WtimeNext(p) == program = "hybrid_distr_wtime" /\ Sending(p)

BcastNext(p) ==
  /\ program = "hybrid_distr_bcast"
  /\ \/ ReadRange(p) \/ TakeBroadcast(p) \/ CalculateRange(p) \/ Show(p)
     \/ p = 0 /\ BroadcastRange

CyclicNext(p) ==
  /\ program = "hybrid_distr_cyclic"
  /\ \/ ReadRange(p) \/ TakeBroadcast(p) \/ CyclicRange(p) \/ Show(p)
     \/ p = 0 /\ BroadcastRange

Process(p) ==
  /\ Returned(shared.channels, shared.eager, p)
  /\ \/ ArgNext(p) \/ StdinNext(p) \/ FileNext(p) \/ WtimeNext(p)
     \/ BcastNext(p) \/ CyclicNext(p)

Next == \E p \in Processes : Process(p)

-----------------------------------------------------------------------------

NumbersOf(range) == range.start..(range.finish - 1)
Overall == [start |-> shared.overall[1], finish |-> shared.overall[2]]
Halted == \A p \in Processes : pc[p] = "done"
Ranged == {p \in Processes : private[p].shown # <<>>}

\* Every number of the range is dealt to one process, and in it to one thread,
\* however the range came to the processes; no process has two numbers more
\* than another.  Left out are the number -1, which a thread takes for "not yet"
\* and may not show, and what a thread without numbers shows.
RangePartitioned ==
  program # "hybrid_distr_cyclic" /\ Halted /\ Ranged # {} =>
    LET working(p) == {t \in Threads : Block(p, t) # {}}
        parts == {<<p, t>> \in Processes \X Threads : t \in working(p)}
        shown(part) == NumbersOf(private[part[1]].shown[part[2]])
    IN /\ UNION {shown(part) : part \in parts} \ {-1} = NumbersOf(Overall) \ {-1}
       /\ \A part, other \in parts :
            part # other => (shown(part) \cap shown(other)) \ {-1} = {}
       /\ shared.overall[1] <= shared.overall[2] =>
            \A p, q \in Processes : private[p].process_size
                                      <= private[q].process_size + 1

\* The cyclic program deals a range that starts at zero, as many numbers as it
\* has.  Of other ranges nothing is stated: the readme (line 3) has the range
\* dealt, and the code takes no notice of its start.
CyclicSizes ==
  program = "hybrid_distr_cyclic" /\ Halted /\ shared.overall[1] = 0 =>
    MapThenSumSet(LAMBDA p : private[p].process_size, Processes)
      = shared.overall[2]

=============================================================================
