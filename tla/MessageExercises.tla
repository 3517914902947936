-------------------------- MODULE MessageExercises --------------------------
(***************************************************************************)
(* Small programs with processes that pass messages: greetings sent to the *)
(* first process (in order or as they come) or printed in turns, a relay   *)
(* race with a referee, statistics of lucky numbers by reductions, and the *)
(* values of standard input sent or broadcast to all.                      *)
(***************************************************************************)
EXTENDS MessagePassing, FiniteSets, FiniteSetsExt, Functions

CONSTANTS ProcessCounts, RaceProcessCounts, LuckyNumbers, InputValues

VARIABLES program, pc, shared, private

vars == <<program, pc, shared, private>>

InTurns == {"send_recv_ord_sem", "mpi_wrapper"}
ToFirst == {"send_recv_ord_itm", "send_recv_urd"}
Lucky == {"lucky_number_reduce", "lucky_number_who"}
Input == {"stdin_sendrecv", "stdin_bcast"}

Processes == 0..(shared.process_count - 1)
team_count == (shared.process_count - 1) \div 2
Starters == 1..team_count
Finishers == (team_count + 1)..(2 * team_count)

TypeOK ==
  /\ shared.process_count \in ProcessCounts \cup RaceProcessCounts /\ shared.eager \in BOOLEAN
  /\ pc \in [Processes -> {"start", "collect", "print", "pass", "barrier",
                           "send_baton", "receive_baton", "send_team", "referee",
                           "reduce", "statistics", "read", "send_values",
                           "receive_count", "receive_values",
                           "finalize", "failed", "done"}]
  /\ \A from, to \in Ranks : shared.channels[from][to] # <<>> => from \in Processes

\* One behaviour for each number of processes and each input of the program.
Start(process_count, argument_count, numbers, values) ==
  /\ pc = [p \in 0..(process_count - 1) |-> "start"]
  /\ \E eager \in BOOLEAN :
       shared = [process_count |-> process_count, eager |-> eager,
                 argument_count |-> argument_count, input |-> values,
                 channels |-> NoMessages, barrier |-> {}, printed |-> <<>>,
                 broadcast |-> <<>>,
                 contributed |-> [collective \in 1..3 |-> {}]]
  /\ private = [source |-> 1, target |-> 1, lucky |-> numbers,
                collective |-> [p \in 0..(process_count - 1) |-> 1],
                value_count |-> [p \in 0..(process_count - 1) |-> 0],
                values |-> [p \in 0..(process_count - 1) |-> <<>>]]

Greetings == \E count \in ProcessCounts : Start(count, 1, <<>>, <<>>)
Numbered ==
  \E count \in ProcessCounts :
    \E numbers \in [0..(count - 1) -> LuckyNumbers] : Start(count, 1, numbers, <<>>)
Reading ==
  \E count \in ProcessCounts, values \in InputValues : Start(count, 1, <<>>, values)

InitOrdItm == program = "send_recv_ord_itm" /\ Greetings
InitUrd == program = "send_recv_urd" /\ Greetings
InitOrdSem == program = "send_recv_ord_sem" /\ Greetings
InitWrapper == program = "mpi_wrapper" /\ Greetings
InitRelayDist ==
  /\ program = "relay_race_dist"
  /\ \E count \in RaceProcessCounts, argc \in {1, 3} : Start(count, argc, <<>>, <<>>)
InitReduce == program = "lucky_number_reduce" /\ Numbered
InitWho == program = "lucky_number_who" /\ Numbered
InitSendRecv == program = "stdin_sendrecv" /\ Reading
InitBcast == program = "stdin_bcast" /\ Reading

Init ==
  \/ InitOrdItm \/ InitUrd \/ InitOrdSem \/ InitWrapper \/ InitRelayDist
  \/ InitReduce \/ InitWho \/ InitSendRecv \/ InitBcast

Go(p, at) == pc' = [pc EXCEPT ![p] = at]

Send(from, to, message) ==
  shared' = [shared EXCEPT !.channels = Sent(@, from, to, message)]

MayGoOn(p) == Returned(shared.channels, shared.eager, p)

Finalize(p) ==
  /\ pc[p] = "finalize"
  /\ Go(p, "done")
  /\ UNCHANGED <<shared, private>>

-----------------------------------------------------------------------------
(* greet(): all send to process 0, which prints                            *)

SendGreeting(p) ==
  /\ p # 0 /\ pc[p] = "start"
  /\ Send(p, 0, p)
  /\ Go(p, "finalize")
  /\ UNCHANGED private

PrintOwn ==
  /\ pc[0] = "start"
  /\ shared' = [shared EXCEPT !.printed = <<0>>]
  /\ Go(0, "collect")
  /\ UNCHANGED private

Collect(source) ==
  /\ pc[0] = "collect" /\ private.source < shared.process_count
  /\ Waiting(shared.channels, source, 0)
  /\ shared' = [shared EXCEPT
       !.channels = Taken(@, source, 0),
       !.printed = Append(@, Received(shared.channels, source, 0))]
  /\ private' = [private EXCEPT !.source = @ + 1]
  /\ UNCHANGED pc

AllCollected ==
  /\ pc[0] = "collect" /\ private.source = shared.process_count
  /\ Go(0, "finalize")
  /\ UNCHANGED <<shared, private>>

Greet(p) ==
  \/ SendGreeting(p)
  \/ p = 0 /\ (PrintOwn \/ AllCollected)

OrdItmNext(p) ==
  /\ program = "send_recv_ord_itm"
  /\ Greet(p) \/ (p = 0 /\ Collect(private.source))

UrdNext(p) ==
  /\ program = "send_recv_urd"
  /\ Greet(p) \/ (p = 0 /\ \E source \in Processes : Collect(source))

-----------------------------------------------------------------------------
(* greet() in turns: a message goes round                                  *)

previous_process(p) == (shared.process_count + p - 1) % shared.process_count
next_process(p) == (p + 1) % shared.process_count

\* Mutant: no process waits for the one before.
AwaitTurnNot(p) ==
  /\ pc[p] = "start"
  /\ Go(p, "print")
  /\ UNCHANGED <<shared, private>>

AwaitTurn(p) ==
  /\ pc[p] = "start"
  /\ IF p > 0
     THEN /\ Waiting(shared.channels, previous_process(p), p)
          /\ shared' = [shared EXCEPT !.channels = Taken(@, previous_process(p), p)]
     ELSE UNCHANGED shared
  /\ Go(p, "print")
  /\ UNCHANGED private

PrintHello(p) ==
  /\ pc[p] = "print"
  /\ shared' = [shared EXCEPT !.printed = Append(@, p)]
  /\ Go(p, "pass")
  /\ UNCHANGED private

\* The last process sends as well, to process 0, which receives no more.
PassTurn(p) ==
  /\ pc[p] = "pass"
  /\ Send(p, next_process(p), TRUE)
  /\ Go(p, "finalize")
  /\ UNCHANGED private

OrdSemNext(p) ==
  program = "send_recv_ord_sem" /\ (AwaitTurn(p) \/ PrintHello(p) \/ PassTurn(p))

WrapperNext(p) ==
  program = "mpi_wrapper" /\ (AwaitTurn(p) \/ PrintHello(p) \/ PassTurn(p))

-----------------------------------------------------------------------------
(* simulate_relay_race()                                                   *)

ValidRace ==
  /\ shared.argument_count = 3
  /\ shared.process_count >= 3 /\ shared.process_count % 2 = 1

WaitBarrier(p) ==
  /\ pc[p] = "start"
  /\ IF ValidRace
     THEN /\ shared' = [shared EXCEPT !.barrier = @ \cup {p}]
          /\ Go(p, "barrier")
     ELSE Go(p, "failed") /\ UNCHANGED shared
  /\ UNCHANGED private

LeaveBarrier(p) ==
  /\ pc[p] = "barrier" /\ shared.barrier = Processes
  /\ Go(p, IF p = 0 THEN "referee"
           ELSE IF p \in Starters THEN "send_baton" ELSE "receive_baton")
  /\ UNCHANGED <<shared, private>>

RunStage1(p) ==
  /\ pc[p] = "send_baton"
  /\ Send(p, p + team_count, TRUE)
  /\ Go(p, "finalize")
  /\ UNCHANGED private

ReceiveBaton(p) ==
  /\ pc[p] = "receive_baton" /\ Waiting(shared.channels, p - team_count, p)
  /\ shared' = [shared EXCEPT !.channels = Taken(@, p - team_count, p)]
  /\ Go(p, "send_team")
  /\ UNCHANGED private

SendTeam(p) ==
  /\ pc[p] = "send_team"
  /\ Send(p, 0, p - team_count)
  /\ Go(p, "finalize")
  /\ UNCHANGED private

Referee(source) ==
  /\ pc[0] = "referee" /\ Len(shared.printed) < team_count
  /\ Waiting(shared.channels, source, 0)
  /\ shared' = [shared EXCEPT
       !.channels = Taken(@, source, 0),
       !.printed = Append(@, Received(shared.channels, source, 0))]
  /\ UNCHANGED <<pc, private>>

EndRace ==
  /\ pc[0] = "referee" /\ Len(shared.printed) = team_count
  /\ Go(0, "finalize")
  /\ UNCHANGED <<shared, private>>

RelayDistNext(p) ==
  /\ program = "relay_race_dist"
  /\ \/ WaitBarrier(p) \/ LeaveBarrier(p) \/ RunStage1(p)
     \/ ReceiveBaton(p) \/ SendTeam(p)
     \/ p = 0 /\ (EndRace \/ \E source \in Processes : Referee(source))

-----------------------------------------------------------------------------
(* generate_lucky_statistics(): the minimum, the maximum and the sum       *)

Collectives == 1..3

\* The number of the process is in; those of the others may be on their way.
Contribute(p) ==
  /\ pc[p] = "start" /\ private.collective[p] \in Collectives
  /\ shared' = [shared EXCEPT !.contributed[private.collective[p]] = @ \cup {p}]
  /\ Go(p, "reduce")
  /\ UNCHANGED private

AllContributed(p) == shared.contributed[private.collective[p]] = Processes

\* Mutant: a process goes on with the numbers that are in.
EndCollectiveEarly(p, waits) ==
  /\ pc[p] = "reduce"
  /\ Go(p, IF private.collective[p] = 3 THEN "statistics" ELSE "start")
  /\ private' = [private EXCEPT !.collective[p] = @ + 1,
       !.values[p] = Append(@, shared.contributed[private.collective[p]])]
  /\ UNCHANGED shared

\* Who waits has the numbers of all; the others are given no result.
EndCollective(p, waits) ==
  /\ pc[p] = "reduce" /\ (p \in waits => AllContributed(p))
  /\ Go(p, IF private.collective[p] = 3 THEN "statistics" ELSE "start")
  /\ private' = [private EXCEPT !.collective[p] = @ + 1,
       !.values[p] = IF p \in waits
                     THEN Append(@, shared.contributed[private.collective[p]]) ELSE @]
  /\ UNCHANGED shared

LuckySet(set) == {private.lucky[p] : p \in set}
AllMin(p) == Min(LuckySet(private.values[p][1]))
AllMax(p) == Max(LuckySet(private.values[p][2]))
AllSum(p) == MapThenSumSet(LAMBDA q : private.lucky[q], private.values[p][3])

PrintStatistics(p) ==
  /\ pc[p] = "statistics"
  /\ shared' = [shared EXCEPT !.printed = Append(@,
       [process |-> p, all_min |-> AllMin(p), all_max |-> AllMax(p),
        all_sum |-> AllSum(p)])]
  /\ Go(p, "finalize")
  /\ UNCHANGED private

PrintNothing(p) ==
  /\ pc[p] = "statistics"
  /\ Go(p, "finalize")
  /\ UNCHANGED <<shared, private>>

ReduceNext(p) ==
  /\ program = "lucky_number_reduce"
  /\ \/ Contribute(p) \/ EndCollective(p, {0})
     \/ IF p = 0 THEN PrintStatistics(p) ELSE PrintNothing(p)

\* Every process prints how its own number compares.
WhoNext(p) ==
  /\ program = "lucky_number_who"
  /\ Contribute(p) \/ EndCollective(p, Processes) \/ PrintStatistics(p)

-----------------------------------------------------------------------------
(* process_values()                                                        *)

\* Process 0 reads to the end of its input.
ReadInput(at) ==
  /\ pc[0] = "start"
  /\ private' = [private EXCEPT !.values[0] = shared.input,
                                !.value_count[0] = Len(shared.input)]
  /\ Go(0, at)
  /\ UNCHANGED shared

PrintValues(p) ==
  /\ pc[p] = "print"
  /\ shared' = [shared EXCEPT !.printed = Append(@, <<p, private.values[p]>>)]
  /\ Go(p, "finalize")
  /\ UNCHANGED private

SendCount ==
  /\ pc[0] = "read"
  /\ IF private.target < shared.process_count
     THEN Send(0, private.target, private.value_count[0]) /\ Go(0, "send_values")
     ELSE Go(0, "print") /\ UNCHANGED shared
  /\ UNCHANGED private

SendValues ==
  /\ pc[0] = "send_values"
  /\ Send(0, private.target, private.values[0])
  /\ private' = [private EXCEPT !.target = @ + 1]
  /\ Go(0, "read")

ReceiveCount(p) ==
  /\ p # 0 /\ pc[p] = "start" /\ Waiting(shared.channels, 0, p)
  /\ private' = [private EXCEPT !.value_count[p] = Received(shared.channels, 0, p)]
  /\ shared' = [shared EXCEPT !.channels = Taken(@, 0, p)]
  /\ Go(p, "receive_values")

\* As many values as there is room for; more of them are an error.
Fitting(p, values) == Len(values) <= private.value_count[p]

ReceiveValues(p) ==
  /\ pc[p] = "receive_values" /\ Waiting(shared.channels, 0, p)
  /\ LET values == Received(shared.channels, 0, p) IN
       /\ private' = [private EXCEPT !.values[p] = values]
       /\ Go(p, IF Fitting(p, values) THEN "print" ELSE "failed")
  /\ shared' = [shared EXCEPT !.channels = Taken(@, 0, p)]

SendRecvNext(p) ==
  /\ program = "stdin_sendrecv"
  /\ \/ p = 0 /\ (ReadInput("read") \/ SendCount \/ SendValues)
     \/ ReceiveCount(p) \/ ReceiveValues(p) \/ PrintValues(p)

\* MPI_Bcast(): process 0 does not wait for the others.
Broadcast ==
  /\ pc[0] = "read"
  /\ shared' = [shared EXCEPT !.broadcast =
       Append(@, IF @ = <<>> THEN private.value_count[0] ELSE private.values[0])]
  /\ Go(0, IF shared.broadcast = <<>> THEN "read" ELSE "print")
  /\ UNCHANGED private

BroadcastCount(p) ==
  /\ p # 0 /\ pc[p] = "start" /\ Len(shared.broadcast) >= 1
  /\ private' = [private EXCEPT !.value_count[p] = shared.broadcast[1]]
  /\ Go(p, "receive_values")
  /\ UNCHANGED shared

BroadcastValues(p) ==
  /\ pc[p] = "receive_values" /\ Len(shared.broadcast) >= 2
  /\ private' = [private EXCEPT !.values[p] = shared.broadcast[2]]
  /\ Go(p, IF Fitting(p, shared.broadcast[2]) THEN "print" ELSE "failed")
  /\ UNCHANGED shared

BcastNext(p) ==
  /\ program = "stdin_bcast"
  /\ \/ p = 0 /\ (ReadInput("read") \/ Broadcast)
     \/ BroadcastCount(p) \/ BroadcastValues(p) \/ PrintValues(p)

-----------------------------------------------------------------------------

Process(p) ==
  /\ MayGoOn(p)
  /\ \/ OrdItmNext(p) \/ UrdNext(p) \/ OrdSemNext(p) \/ WrapperNext(p)
     \/ RelayDistNext(p) \/ ReduceNext(p) \/ WhoNext(p)
     \/ SendRecvNext(p) \/ BcastNext(p) \/ Finalize(p)

Next == \E p \in Processes : Process(p)

-----------------------------------------------------------------------------

InOrder == \A i \in DOMAIN shared.printed : shared.printed[i] = i - 1

Ended == \A p \in Processes : pc[p] \in {"done", "failed"}

\* Each process greets once: in order of their numbers where the programs
\* are about the order, and the first one first where it is not.
GreetOnce ==
  /\ program \in InTurns \cup {"send_recv_ord_itm"} => InOrder
  /\ program = "send_recv_urd" =>
       /\ IsInjective(shared.printed)
       /\ Len(shared.printed) > 0 => shared.printed[1] = 0
       /\ Ended => Len(shared.printed) = shared.process_count

\* The referee's places are of different teams, each after its baton was handed
\* over, and nobody runs before all are at the start.
RefereeFair ==
  program = "relay_race_dist" =>
    /\ IsInjective(shared.printed)
    /\ \A i \in DOMAIN shared.printed :
         /\ pc[shared.printed[i]] \in {"finalize", "done"}
         /\ pc[shared.printed[i] + team_count] \in {"finalize", "done"}
    /\ (\E p \in Processes : pc[p] \notin {"start", "barrier", "failed"})
         => shared.barrier = Processes
    /\ Ended /\ ValidRace => Len(shared.printed) = team_count

\* Whatever the order in which the processes come to the reductions, who
\* prints statistics has the numbers of all, and of each who prints the same.
StatisticsOfAll ==
  program \in Lucky =>
    \A i \in DOMAIN shared.printed :
      LET line == shared.printed[i] IN
        /\ line.all_min = Min(Range(private.lucky))
        /\ line.all_max = Max(Range(private.lucky))
        /\ line.all_sum = MapThenSumSet(LAMBDA p : private.lucky[p], Processes)

\* Every process prints the values of process 0, in room made for them.
ValuesArrive ==
  program \in Input =>
    /\ \A i \in DOMAIN shared.printed : shared.printed[i][2] = shared.input
    /\ \A p \in Processes : pc[p] # "failed"

\* The turn of the last process is never taken: where sends wait for their
\* receiver it hangs, with one process already the first.  Nothing else does.
TurnHangs ==
  /\ program \in InTurns
  /\ ~shared.eager /\ Len(shared.printed) = shared.process_count
  /\ \A p \in Processes \ {shared.process_count - 1} : pc[p] = "done"

Halted == Ended \/ TurnHangs

=============================================================================
