----------------------------- MODULE PacketLoss -----------------------------
(***************************************************************************)
(* network_simul_packet_loss: a producer, a dispatcher, consumers and an   *)
(* assembler that is one more destination of the dispatcher and puts the   *)
(* packets it does not lose back into the dispatcher's queue.              *)
(*                                                                         *)
(* Each thread pops from one queue only, and what it does after a pop only *)
(* appends to others: a pop with its pushes is one step.                   *)
(***************************************************************************)
EXTENDS Naturals, Sequences, SequencesExt

CONSTANTS PackageCount,   \* packages to be produced
          ConsumerCount   \* consumer threads

CountsAssumption == PackageCount \in Nat /\ ConsumerCount \in Nat \ {0}

VARIABLES pc,          \* where main, the producer and the dispatcher are
          worker,      \* where the consumers and the assembler are
          queue,       \* queue[0]: the dispatcher's; queue[k]: toQueues[k]
          produced,    \* messages the producer has created
          received,    \* received[k]: the messages consumer k consumed
          discarded    \* messages the assembler lost

vars == <<pc, worker, queue, produced, received, discarded>>

Consumers == 1..ConsumerCount
Assembler == ConsumerCount + 1
ToQueues == 1..Assembler

Messages ==
  [target : 0..Assembler, source : 0..Assembler, number : 0..PackageCount]

\* NetworkMessage(), the stop condition
StopMessage == [target |-> 0, source |-> 0, number |-> 0]

TypeOK ==
  /\ pc \in [main : {"start", "join", "done"},
             producer : {"unstarted", "produce", "done"},
             dispatcher : {"unstarted", "consume", "done"}]
  /\ worker \in [ToQueues -> {"unstarted", "consume", "done"}]
  /\ queue \in [0..Assembler -> Seq(Messages)]
  /\ produced \in 0..PackageCount
  /\ received \in [Consumers -> Seq(Messages)]
  /\ discarded \in 0..PackageCount

Init ==
  /\ pc = [main |-> "start", producer |-> "unstarted",
           dispatcher |-> "unstarted"]
  /\ worker = [k \in ToQueues |-> "unstarted"]
  /\ queue = [k \in 0..Assembler |-> <<>>]
  /\ produced = 0
  /\ received = [k \in Consumers |-> <<>>]
  /\ discarded = 0

StartThreads ==
  /\ pc.main = "start"
  /\ pc' = [main |-> "join", producer |-> "produce", dispatcher |-> "consume"]
  /\ worker' = [k \in ToQueues |-> "consume"]
  /\ UNCHANGED <<queue, produced, received, discarded>>

-----------------------------------------------------------------------------
(* Queue and Consumer                                                      *)

Push(k, message) == queue' = [queue EXCEPT ![k] = Append(@, message)]

\* pop() returns the first element, for which consume() is called.
First(k) == Head(queue[k])
Ready(k) == queue[k] # <<>> /\ First(k) # StopMessage

\* The loop of consumeForever() ends.
Stopped(k) == queue[k] # <<>> /\ First(k) = StopMessage

-----------------------------------------------------------------------------

\* createMessage(): the random destination may be the assembler.
Produce(target) ==
  /\ pc.producer = "produce"
  /\ produced < PackageCount
  /\ Push(0, [target |-> target, source |-> 1, number |-> produced])
  /\ produced' = produced + 1
  /\ UNCHANGED <<pc, worker, received, discarded>>

ProducerStop ==
  /\ pc.producer = "produce"
  /\ produced = PackageCount
  /\ Push(0, StopMessage)
  /\ pc' = [pc EXCEPT !.producer = "done"]
  /\ UNCHANGED <<worker, produced, received, discarded>>

Dispatch ==
  /\ pc.dispatcher = "consume"
  /\ Ready(0)
  /\ queue' = [queue EXCEPT ![0] = Tail(@),
                            ![First(0).target] = Append(@, First(0))]
  /\ UNCHANGED <<pc, worker, produced, received, discarded>>

\* Mutant: the stop goes to the consumers alone.
DispatcherStopConsumers ==
  /\ pc.dispatcher = "consume"
  /\ Stopped(0)
  /\ queue' = [k \in 0..Assembler |->
       CASE k = 0 -> Tail(queue[0])
         [] k \in Consumers -> Append(queue[k], StopMessage)
         [] OTHER -> queue[k]]
  /\ pc' = [pc EXCEPT !.dispatcher = "done"]
  /\ UNCHANGED <<worker, produced, received, discarded>>

\* The stop is propagated to all the queues.
DispatcherStop ==
  /\ pc.dispatcher = "consume"
  /\ Stopped(0)
  /\ queue' = [k \in 0..Assembler |-> IF k = 0 THEN Tail(queue[0])
                                      ELSE Append(queue[k], StopMessage)]
  /\ pc' = [pc EXCEPT !.dispatcher = "done"]
  /\ UNCHANGED <<worker, produced, received, discarded>>

Consume(k) ==
  /\ worker[k] = "consume"
  /\ Ready(k)
  /\ queue' = [queue EXCEPT ![k] = Tail(@)]
  /\ received' = [received EXCEPT ![k] = Append(@, First(k))]
  /\ UNCHANGED <<pc, worker, produced, discarded>>

WorkerStop(k) ==
  /\ worker[k] = "consume"
  /\ Stopped(k)
  /\ queue' = [queue EXCEPT ![k] = Tail(@)]
  /\ worker' = [worker EXCEPT ![k] = "done"]
  /\ UNCHANGED <<pc, produced, received, discarded>>

\* Mutant: the packet is sent again and counted as lost as well.
RedirectAndCount(target) ==
  /\ worker[Assembler] = "consume"
  /\ Ready(Assembler)
  /\ queue' = [queue EXCEPT
       ![Assembler] = Tail(@),
       ![0] = Append(@, [target |-> target, source |-> Assembler,
                         number |-> 0])]
  /\ discarded' = discarded + 1
  /\ UNCHANGED <<pc, worker, produced, received>>

\* createMessageRand(): a new packet for a random consumer takes its place.
Redirect(target) ==
  /\ worker[Assembler] = "consume"
  /\ Ready(Assembler)
  /\ queue' = [queue EXCEPT
       ![Assembler] = Tail(@),
       ![0] = Append(@, [target |-> target, source |-> Assembler,
                         number |-> 0])]
  /\ UNCHANGED <<pc, worker, produced, received, discarded>>

Discard ==
  /\ worker[Assembler] = "consume"
  /\ Ready(Assembler)
  /\ queue' = [queue EXCEPT ![Assembler] = Tail(@)]
  /\ discarded' = discarded + 1
  /\ UNCHANGED <<pc, worker, produced, received>>

\* waitToFinish() of the producer, the dispatcher and every destination
Join ==
  /\ pc.main = "join"
  /\ pc.producer = "done" /\ pc.dispatcher = "done"
  /\ \A k \in ToQueues : worker[k] = "done"
  /\ pc' = [pc EXCEPT !.main = "done"]
  /\ UNCHANGED <<worker, queue, produced, received, discarded>>

ProducerSteps == ProducerStop \/ \E target \in ToQueues : Produce(target)
DispatcherSteps == DispatcherStop \/ Dispatch
ConsumerSteps(k) == Consume(k) \/ WorkerStop(k)
AssemblerSteps ==
  Discard \/ WorkerStop(Assembler) \/ \E k \in Consumers : Redirect(k)

Next ==
  \/ StartThreads
  \/ ProducerSteps
  \/ DispatcherSteps
  \/ \E k \in Consumers : ConsumerSteps(k)
  \/ AssemblerSteps
  \/ Join

-----------------------------------------------------------------------------

\* Every message is in one place: in a queue, consumed, or counted as lost.
Conserved ==
  LET InQueue(k) == Cardinality({i \in 1..Len(queue[k]) : queue[k][i] # StopMessage})
  IN  produced = discarded + SumFunction([k \in 0..Assembler |-> InQueue(k)])
                           + SumFunction([k \in Consumers |-> Len(received[k])])

\* The producer's messages reach their consumer, in the order of production.
InOrder ==
  \A k \in Consumers :
    LET path == received[k] \o queue[k] \o queue[0]
        Mine(i) == path[i].source = 1 /\ path[i].target = k
    IN  /\ \A i \in 1..Len(received[k]) : received[k][i].target = k
        /\ \A i, j \in 1..Len(path) :
             i < j /\ Mine(i) /\ Mine(j) => path[i].number < path[j].number

\* A consumer or assembler that has ended leaves no message in its queue; what
\* the dispatcher leaves in its own are packets sent again.
LeavesNothing ==
  /\ \A k \in ToQueues : worker[k] = "done" => queue[k] = <<>>
  /\ pc.dispatcher = "done" =>
       \A i \in 1..Len(queue[0]) : queue[0][i].source = Assembler

=============================================================================
