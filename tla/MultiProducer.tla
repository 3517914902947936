--------------------------- MODULE MultiProducer ---------------------------
(***************************************************************************)
(* network_simul_producers: several producers take the numbers of the      *)
(* packages from a shared counter and push to the dispatcher's queue, each *)
(* with a stop of its own at the end.  The dispatcher ends at the first    *)
(* stop, whatever the other producers still have to send.                  *)
(***************************************************************************)
EXTENDS Integers, Sequences, SequencesExt

CONSTANTS PackageCount, ProducerCount, ConsumerCount

CountsAssumption ==
  PackageCount \in Nat /\ ProducerCount \in Nat /\ ConsumerCount \in Nat \ {0}

VARIABLES pc,           \* where main and the dispatcher are
          worker,       \* where the consumers and the assembler are
          producer,     \* producer[p]: [at, index], the number taken last
          packagesLeft, \* SharedData::packagesLeft
          queue,        \* queue[0]: the dispatcher's; queue[k]: toQueues[k]
          received, discarded

vars == <<pc, worker, producer, packagesLeft, queue, received, discarded>>

Producers == 1..ProducerCount
Consumers == 1..ConsumerCount
Assembler == ConsumerCount + 1
ToQueues == 1..Assembler

Messages ==
  [target : 0..Assembler, source : 0..Assembler, number : 0..PackageCount]

StopMessage == [target |-> 0, source |-> 0, number |-> 0]

TypeOK ==
  /\ pc \in [main : {"start", "join", "done"},
             dispatcher : {"unstarted", "consume", "done"}]
  /\ worker \in [ToQueues -> {"unstarted", "consume", "done"}]
  /\ producer \in [Producers -> [at : {"unstarted", "take", "produce", "done"},
                                 index : 0..PackageCount]]
  /\ packagesLeft \in 0..PackageCount
  /\ queue \in [0..Assembler -> Seq(Messages)]
  /\ received \in [Consumers -> Seq(Messages)]
  /\ discarded \in 0..PackageCount

Init ==
  /\ pc = [main |-> "start", dispatcher |-> "unstarted"]
  /\ worker = [k \in ToQueues |-> "unstarted"]
  /\ producer = [p \in Producers |-> [at |-> "unstarted", index |-> 0]]
  /\ packagesLeft = PackageCount
  /\ queue = [k \in 0..Assembler |-> <<>>]
  /\ received = [k \in Consumers |-> <<>>]
  /\ discarded = 0

StartThreads ==
  /\ pc.main = "start"
  /\ pc' = [main |-> "join", dispatcher |-> "consume"]
  /\ worker' = [k \in ToQueues |-> "consume"]
  /\ producer' = [p \in Producers |-> [producer[p] EXCEPT !.at = "take"]]
  /\ UNCHANGED <<packagesLeft, queue, received, discarded>>

First(k) == Head(queue[k])
Ready(k) == queue[k] # <<>> /\ First(k) # StopMessage
Stopped(k) == queue[k] # <<>> /\ First(k) = StopMessage
Push(k, message) == queue' = [queue EXCEPT ![k] = Append(@, message)]

\* Mutant: the counter is read, and decremented after the mutex is released.
GetIndexUnlocked(p) ==
  /\ producer[p].at = "take"
  /\ producer' = [producer EXCEPT ![p] = [at |-> "produce",
                                          index |-> packagesLeft]]
  /\ packagesLeft' \in {packagesLeft, IF packagesLeft > 0 THEN packagesLeft - 1
                                      ELSE 0}
  /\ UNCHANGED <<pc, worker, queue, received, discarded>>

\* Mutant: the counter is decremented without a look at zero.
GetIndexUnchecked(p) ==
  /\ producer[p].at = "take"
  /\ packagesLeft \in Nat
  /\ producer' = [producer EXCEPT ![p] = [at |-> "produce",
                                          index |-> packagesLeft]]
  /\ packagesLeft' = packagesLeft - 1
  /\ UNCHANGED <<pc, worker, queue, received, discarded>>

\* SharedData::getIndex() under its mutex; zero says that none are left.
GetIndex(p) ==
  /\ producer[p].at = "take"
  /\ producer' = [producer EXCEPT ![p] = [at |-> "produce",
                                          index |-> packagesLeft]]
  /\ packagesLeft' = IF packagesLeft > 0 THEN packagesLeft - 1 ELSE 0
  /\ UNCHANGED <<pc, worker, queue, received, discarded>>

Produce(p, target) ==
  /\ producer[p].at = "produce"
  /\ producer[p].index # 0
  /\ Push(0, [target |-> target, source |-> 1, number |-> producer[p].index])
  /\ producer' = [producer EXCEPT ![p] = [at |-> "take", index |-> 0]]
  /\ UNCHANGED <<pc, worker, packagesLeft, received, discarded>>

ProducerStop(p) ==
  /\ producer[p].at = "produce"
  /\ producer[p].index = 0
  /\ Push(0, StopMessage)
  /\ producer' = [producer EXCEPT ![p].at = "done"]
  /\ UNCHANGED <<pc, worker, packagesLeft, received, discarded>>

Dispatch ==
  /\ pc.dispatcher = "consume"
  /\ Ready(0)
  /\ queue' = [queue EXCEPT ![0] = Tail(@),
                            ![First(0).target] = Append(@, First(0))]
  /\ UNCHANGED <<pc, worker, producer, packagesLeft, received, discarded>>

DispatcherStop ==
  /\ pc.dispatcher = "consume"
  /\ Stopped(0)
  /\ queue' = [k \in 0..Assembler |-> IF k = 0 THEN Tail(queue[0])
                                      ELSE Append(queue[k], StopMessage)]
  /\ pc' = [pc EXCEPT !.dispatcher = "done"]
  /\ UNCHANGED <<worker, producer, packagesLeft, received, discarded>>

Consume(k) ==
  /\ worker[k] = "consume"
  /\ Ready(k)
  /\ queue' = [queue EXCEPT ![k] = Tail(@)]
  /\ received' = [received EXCEPT ![k] = Append(@, First(k))]
  /\ UNCHANGED <<pc, worker, producer, packagesLeft, discarded>>

WorkerStop(k) ==
  /\ worker[k] = "consume"
  /\ Stopped(k)
  /\ queue' = [queue EXCEPT ![k] = Tail(@)]
  /\ worker' = [worker EXCEPT ![k] = "done"]
  /\ UNCHANGED <<pc, producer, packagesLeft, received, discarded>>

Redirect(target) ==
  /\ worker[Assembler] = "consume"
  /\ Ready(Assembler)
  /\ queue' = [queue EXCEPT
       ![Assembler] = Tail(@),
       ![0] = Append(@, [target |-> target, source |-> Assembler,
                         number |-> 0])]
  /\ UNCHANGED <<pc, worker, producer, packagesLeft, received, discarded>>

Discard ==
  /\ worker[Assembler] = "consume"
  /\ Ready(Assembler)
  /\ queue' = [queue EXCEPT ![Assembler] = Tail(@)]
  /\ discarded' = discarded + 1
  /\ UNCHANGED <<pc, worker, producer, packagesLeft, received>>

Join ==
  /\ pc.main = "join"
  /\ \A p \in Producers : producer[p].at = "done"
  /\ pc.dispatcher = "done"
  /\ \A k \in ToQueues : worker[k] = "done"
  /\ pc' = [pc EXCEPT !.main = "done"]
  /\ UNCHANGED <<worker, producer, packagesLeft, queue, received, discarded>>

ProducerSteps(p) ==
  GetIndex(p) \/ ProducerStop(p) \/ \E k \in ToQueues : Produce(p, k)
DispatcherSteps == DispatcherStop \/ Dispatch
ConsumerSteps(k) == Consume(k) \/ WorkerStop(k)
AssemblerSteps ==
  Discard \/ WorkerStop(Assembler) \/ \E k \in Consumers : Redirect(k)

Next ==
  \/ StartThreads
  \/ \E p \in Producers : ProducerSteps(p)
  \/ DispatcherSteps
  \/ \E k \in Consumers : ConsumerSteps(k)
  \/ AssemblerSteps
  \/ Join

-----------------------------------------------------------------------------

\* The numbers taken are those of the messages that wait, are consumed or
\* counted as lost: none is produced twice, none disappears.
Conserved ==
  LET InQueue(k) == Cardinality({i \in 1..Len(queue[k]) : queue[k][i] # StopMessage})
      inHand == {p \in Producers : producer[p].index # 0}
  IN  PackageCount - packagesLeft =
        discarded + Cardinality(inHand)
                  + SumFunction([k \in 0..Assembler |-> InQueue(k)])
                  + SumFunction([k \in Consumers |-> Len(received[k])])

\* Every number is some producer's once.
NumbersTakenOnce ==
  /\ \A p \in Producers : producer[p].index # 0 =>
       /\ producer[p].index > packagesLeft
       /\ \A q \in Producers \ {p} : producer[p].index # producer[q].index
  /\ \A k \in Consumers : \A i, j \in 1..Len(received[k]) :
       (i # j /\ received[k][i].source = 1 /\ received[k][j].source = 1)
         => received[k][i].number # received[k][j].number

\* What reached a consumer or the assembler before the stop is processed, even
\* when the dispatcher leaves messages of the other producers behind.
LeavesNothing == \A k \in ToQueues : worker[k] = "done" => queue[k] = <<>>

=============================================================================
