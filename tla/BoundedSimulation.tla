------------------------- MODULE BoundedSimulation -------------------------
(***************************************************************************)
(* network_simul_bounded: producer, dispatcher and consumers over queues   *)
(* of limited capacity, with a second semaphore for the free places.  The  *)
(* producer's random target may be a consumer that does not exist; the     *)
(* dispatcher then throws, and with it the process ends.                   *)
(***************************************************************************)
EXTENDS Naturals, Sequences, SequencesExt

CONSTANTS PackageCount, ConsumerCount,
          Capacity        \* maxQueueCapacity; zero would underflow the loop of
                          \* setBufferSize()

CountsAssumption ==
  /\ PackageCount \in Nat /\ ConsumerCount \in Nat \ {0}
  /\ Capacity \in Nat \ {0}

VARIABLES pc,          \* where main, the producer and the dispatcher are
          worker,      \* where the consumers are
          queue,       \* queue[0]: the dispatcher's; queue[k]: consumer k's
          canConsume, canProduce,   \* the semaphores of each queue
          hand,        \* the message the dispatcher has popped
          produced, received

vars == <<pc, worker, queue, canConsume, canProduce, hand, produced, received>>
semaphores == <<canConsume, canProduce>>

Consumers == 1..ConsumerCount
Queues == 0..ConsumerCount

Messages ==
  [target : 0..(ConsumerCount + 1), source : 0..1, number : 0..PackageCount]

StopMessage == [target |-> 0, source |-> 0, number |-> 0]

TypeOK ==
  /\ pc \in [main : {"start", "join", "done", "aborted"},
             producer : {"unstarted", "reserve", "push", "done"},
             dispatcher : {"unstarted", "take", "pop", "find", "reserve", "push",
                           "done"}]
  /\ worker \in [Consumers -> {"unstarted", "take", "pop", "done"}]
  /\ queue \in [Queues -> Seq(Messages)]
  /\ canConsume \in [Queues -> Nat] /\ canProduce \in [Queues -> Nat]
  /\ hand \in [message : Messages, target : 0..(ConsumerCount + 1)]
  /\ produced \in 0..PackageCount
  /\ received \in [Consumers -> Seq(Messages)]

\* Mutant: one place more than was asked for.
InitOneMore ==
  /\ pc = [main |-> "start", producer |-> "unstarted",
           dispatcher |-> "unstarted"]
  /\ worker = [k \in Consumers |-> "unstarted"]
  /\ queue = [k \in Queues |-> <<>>]
  /\ canConsume = [k \in Queues |-> 0]
  /\ canProduce = [k \in Queues |-> 1 + Capacity]
  /\ hand = [message |-> StopMessage, target |-> 0]
  /\ produced = 0
  /\ received = [k \in Consumers |-> <<>>]

\* A queue starts with one free place; setBufferSize() signals the others.
Init ==
  /\ pc = [main |-> "start", producer |-> "unstarted",
           dispatcher |-> "unstarted"]
  /\ worker = [k \in Consumers |-> "unstarted"]
  /\ queue = [k \in Queues |-> <<>>]
  /\ canConsume = [k \in Queues |-> 0]
  /\ canProduce = [k \in Queues |-> 1 + (Capacity - 1)]
  /\ hand = [message |-> StopMessage, target |-> 0]
  /\ produced = 0
  /\ received = [k \in Consumers |-> <<>>]

StartThreads ==
  /\ pc.main = "start"
  /\ pc' = [main |-> "join", producer |-> "reserve", dispatcher |-> "take"]
  /\ worker' = [k \in Consumers |-> "take"]
  /\ UNCHANGED <<queue, semaphores, hand, produced, received>>

-----------------------------------------------------------------------------
(* Queue::push() waits for a place, then pushes and signals; pop() waits   *)
(* for an element, then removes it and signals that its place is free.     *)

Reserve(k) ==
  /\ canProduce[k] > 0
  /\ canProduce' = [canProduce EXCEPT ![k] = @ - 1]
  /\ UNCHANGED <<queue, canConsume>>

Push(k, message) ==
  /\ queue' = [queue EXCEPT ![k] = Append(@, message)]
  /\ canConsume' = [canConsume EXCEPT ![k] = @ + 1]
  /\ UNCHANGED canProduce

Take(k) ==
  /\ canConsume[k] > 0
  /\ canConsume' = [canConsume EXCEPT ![k] = @ - 1]
  /\ UNCHANGED <<queue, canProduce>>

Pop(k) ==
  /\ queue' = [queue EXCEPT ![k] = Tail(@)]
  /\ canProduce' = [canProduce EXCEPT ![k] = @ + 1]
  /\ UNCHANGED canConsume

-----------------------------------------------------------------------------

ProducerReserve ==
  /\ pc.producer = "reserve"
  /\ Reserve(0)
  /\ pc' = [pc EXCEPT !.producer = "push"]
  /\ UNCHANGED <<worker, hand, produced, received>>

\* createMessage() was given one consumer more than there are.
ProducerPush(target) ==
  /\ pc.producer = "push"
  /\ produced < PackageCount
  /\ Push(0, [target |-> target, source |-> 1, number |-> produced])
  /\ produced' = produced + 1
  /\ pc' = [pc EXCEPT !.producer = "reserve"]
  /\ UNCHANGED <<worker, hand, received>>

ProducerStop ==
  /\ pc.producer = "push"
  /\ produced = PackageCount
  /\ Push(0, StopMessage)
  /\ pc' = [pc EXCEPT !.producer = "done"]
  /\ UNCHANGED <<worker, hand, produced, received>>

DispatcherTake ==
  /\ pc.dispatcher = "take"
  /\ Take(0)
  /\ pc' = [pc EXCEPT !.dispatcher = "pop"]
  /\ UNCHANGED <<worker, hand, produced, received>>

\* A stop is pushed to every queue, from the first one on.
DispatcherPop ==
  /\ pc.dispatcher = "pop"
  /\ Pop(0)
  /\ LET message == Head(queue[0])
     IN  IF message = StopMessage
         THEN /\ hand' = [message |-> message, target |-> 1]
              /\ pc' = [pc EXCEPT !.dispatcher = "reserve"]
         ELSE /\ hand' = [message |-> message, target |-> message.target]
              /\ pc' = [pc EXCEPT !.dispatcher = "find"]
  /\ UNCHANGED <<worker, produced, received>>

\* Dispatcher::consume(): the key must have been registered.
DispatcherFind ==
  /\ pc.dispatcher = "find"
  /\ pc' = IF hand.target \in Consumers
           THEN [pc EXCEPT !.dispatcher = "reserve"]
           ELSE [pc EXCEPT !.main = "aborted"]
  /\ UNCHANGED <<worker, queue, semaphores, hand, produced, received>>

DispatcherReserve ==
  /\ pc.dispatcher = "reserve"
  /\ Reserve(hand.target)
  /\ pc' = [pc EXCEPT !.dispatcher = "push"]
  /\ UNCHANGED <<worker, hand, produced, received>>

DispatcherPush ==
  /\ pc.dispatcher = "push"
  /\ hand.message # StopMessage
  /\ Push(hand.target, hand.message)
  /\ pc' = [pc EXCEPT !.dispatcher = "take"]
  /\ UNCHANGED <<worker, hand, produced, received>>

DispatcherPushStop ==
  /\ pc.dispatcher = "push"
  /\ hand.message = StopMessage
  /\ Push(hand.target, StopMessage)
  /\ IF hand.target = ConsumerCount
     THEN pc' = [pc EXCEPT !.dispatcher = "done"] /\ UNCHANGED hand
     ELSE /\ pc' = [pc EXCEPT !.dispatcher = "reserve"]
          /\ hand' = [hand EXCEPT !.target = @ + 1]
  /\ UNCHANGED <<worker, produced, received>>

ConsumerTake(k) ==
  /\ worker[k] = "take"
  /\ Take(k)
  /\ worker' = [worker EXCEPT ![k] = "pop"]
  /\ UNCHANGED <<pc, hand, produced, received>>

ConsumerPop(k) ==
  /\ worker[k] = "pop"
  /\ Pop(k)
  /\ LET message == Head(queue[k])
     IN  IF message = StopMessage
         THEN worker' = [worker EXCEPT ![k] = "done"] /\ UNCHANGED received
         ELSE /\ worker' = [worker EXCEPT ![k] = "take"]
              /\ received' = [received EXCEPT ![k] = Append(@, message)]
  /\ UNCHANGED <<pc, hand, produced>>

Join ==
  /\ pc.main = "join"
  /\ pc.producer = "done" /\ pc.dispatcher = "done"
  /\ \A k \in Consumers : worker[k] = "done"
  /\ pc' = [pc EXCEPT !.main = "done"]
  /\ UNCHANGED <<worker, queue, semaphores, hand, produced, received>>

ProducerSteps ==
  \/ ProducerReserve
  \/ \E target \in 1..(ConsumerCount + 1) : ProducerPush(target)
  \/ ProducerStop
DispatcherSteps ==
  \/ DispatcherTake \/ DispatcherPop \/ DispatcherFind
  \/ DispatcherReserve \/ DispatcherPush \/ DispatcherPushStop
ConsumerSteps(k) == ConsumerTake(k) \/ ConsumerPop(k)

\* Nothing runs once the process has been aborted.
Next ==
  /\ pc.main # "aborted"
  /\ \/ StartThreads
     \/ ProducerSteps
     \/ DispatcherSteps
     \/ \E k \in Consumers : ConsumerSteps(k)
     \/ Join

-----------------------------------------------------------------------------

\* The places of a queue are free, reserved, taken, or about to be freed.
PlacesAccounted ==
  /\ Len(queue[0]) + canProduce[0]
       + (IF pc.producer = "push" THEN 1 ELSE 0) = Capacity
  /\ \A k \in Consumers :
       Len(queue[k]) + canProduce[k]
         + (IF pc.dispatcher = "push" /\ hand.target = k THEN 1 ELSE 0) = Capacity

\* pop() finds an element, though it waits for it outside of the mutex.
PopsAnElement ==
  /\ pc.dispatcher = "pop" => queue[0] # <<>>
  /\ \A k \in Consumers : worker[k] = "pop" => queue[k] # <<>>

\* Consumers get their own messages in the order of production.
InOrder ==
  \A k \in Consumers : \A i, j \in 1..Len(received[k]) :
    /\ received[k][i].target = k
    /\ i < j => received[k][i].number < received[k][j].number

\* When the simulation has ended every message was consumed.
AllConsumed ==
  pc.main = "done" =>
    PackageCount = SumFunction([k \in Consumers |-> Len(received[k])])

=============================================================================
