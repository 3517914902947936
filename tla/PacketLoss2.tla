---------------------------- MODULE PacketLoss2 ----------------------------
(***************************************************************************)
(* network_simul_packet_loss2: the assembler stands between the producer   *)
(* and the dispatcher.  When the producer's stop reaches it, it returns    *)
(* and tells nobody.                                                       *)
(***************************************************************************)
EXTENDS Naturals, Sequences, SequencesExt

CONSTANTS PackageCount, ConsumerCount

CountsAssumption == PackageCount \in Nat /\ ConsumerCount \in Nat \ {0}

VARIABLES pc,          \* where main, producer, assembler and dispatcher are
          worker,      \* where the consumers are
          queue,       \* queue[0]: the dispatcher's, queue[N + 1]: the
                       \* assembler's, the others: the consumers'
          produced, received, discarded

vars == <<pc, worker, queue, produced, received, discarded>>

Consumers == 1..ConsumerCount
Assembler == ConsumerCount + 1

Messages ==
  [target : 0..Assembler, source : 0..Assembler, number : 0..PackageCount]

StopMessage == [target |-> 0, source |-> 0, number |-> 0]

TypeOK ==
  /\ pc \in [main : {"start", "join", "done"},
             producer : {"unstarted", "produce", "done"},
             assembler : {"unstarted", "consume", "done"},
             dispatcher : {"unstarted", "consume", "done"}]
  /\ worker \in [Consumers -> {"unstarted", "consume", "done"}]
  /\ queue \in [0..Assembler -> Seq(Messages)]
  /\ produced \in 0..PackageCount
  /\ received \in [Consumers -> Seq(Messages)]
  /\ discarded \in 0..PackageCount

Init ==
  /\ pc = [main |-> "start", producer |-> "unstarted",
           assembler |-> "unstarted", dispatcher |-> "unstarted"]
  /\ worker = [k \in Consumers |-> "unstarted"]
  /\ queue = [k \in 0..Assembler |-> <<>>]
  /\ produced = 0
  /\ received = [k \in Consumers |-> <<>>]
  /\ discarded = 0

StartThreads ==
  /\ pc.main = "start"
  /\ pc' = [main |-> "join", producer |-> "produce", assembler |-> "consume",
            dispatcher |-> "consume"]
  /\ worker' = [k \in Consumers |-> "consume"]
  /\ UNCHANGED <<queue, produced, received, discarded>>

First(k) == Head(queue[k])
Ready(k) == queue[k] # <<>> /\ First(k) # StopMessage
Stopped(k) == queue[k] # <<>> /\ First(k) = StopMessage
Push(k, message) == queue' = [queue EXCEPT ![k] = Append(@, message)]

Produce(target) ==
  /\ pc.producer = "produce"
  /\ produced < PackageCount
  /\ Push(Assembler, [target |-> target, source |-> 1, number |-> produced])
  /\ produced' = produced + 1
  /\ UNCHANGED <<pc, worker, received, discarded>>

ProducerStop ==
  /\ pc.producer = "produce"
  /\ produced = PackageCount
  /\ Push(Assembler, StopMessage)
  /\ pc' = [pc EXCEPT !.producer = "done"]
  /\ UNCHANGED <<worker, produced, received, discarded>>

Redirect(target) ==
  /\ pc.assembler = "consume"
  /\ Ready(Assembler)
  /\ queue' = [queue EXCEPT
       ![Assembler] = Tail(@),
       ![0] = Append(@, [target |-> target, source |-> Assembler,
                         number |-> 0])]
  /\ UNCHANGED <<pc, worker, produced, received, discarded>>

Discard ==
  /\ pc.assembler = "consume"
  /\ Ready(Assembler)
  /\ queue' = [queue EXCEPT ![Assembler] = Tail(@)]
  /\ discarded' = discarded + 1
  /\ UNCHANGED <<pc, worker, produced, received>>

\* run() returns after consumeForever(); the stop is not handed on.
AssemblerStop ==
  /\ pc.assembler = "consume"
  /\ Stopped(Assembler)
  /\ queue' = [queue EXCEPT ![Assembler] = Tail(@)]
  /\ pc' = [pc EXCEPT !.assembler = "done"]
  /\ UNCHANGED <<worker, produced, received, discarded>>

\* Only the assembler's packets come here, so that the key is a consumer's.
Dispatch ==
  /\ pc.dispatcher = "consume"
  /\ Ready(0)
  /\ queue' = [queue EXCEPT ![0] = Tail(@),
                            ![First(0).target] = Append(@, First(0))]
  /\ UNCHANGED <<pc, worker, produced, received, discarded>>

Consume(k) ==
  /\ worker[k] = "consume"
  /\ Ready(k)
  /\ queue' = [queue EXCEPT ![k] = Tail(@)]
  /\ received' = [received EXCEPT ![k] = Append(@, First(k))]
  /\ UNCHANGED <<pc, worker, produced, discarded>>

ProducerSteps == ProducerStop \/ \E k \in 1..Assembler : Produce(k)
AssemblerSteps == Discard \/ AssemblerStop \/ \E k \in Consumers : Redirect(k)

\* The stops of the dispatcher and the consumers and main's return would
\* follow a stop in the dispatcher's queue, which never comes (NobodyStops).
Next ==
  \/ StartThreads
  \/ ProducerSteps
  \/ AssemblerSteps
  \/ Dispatch
  \/ \E k \in Consumers : Consume(k)

-----------------------------------------------------------------------------

\* Every message is in one place: in a queue, consumed, or counted as lost.
Conserved ==
  LET InQueue(k) == Cardinality({i \in 1..Len(queue[k]) : queue[k][i] # StopMessage})
  IN  produced = discarded + SumFunction([k \in 0..Assembler |-> InQueue(k)])
                           + SumFunction([k \in Consumers |-> Len(received[k])])

\* No stop reaches the dispatcher or a consumer: the actions Next leaves out
\* have no behaviour.
NobodyStops ==
  \A k \in 0..ConsumerCount : \A i \in 1..Len(queue[k]) : queue[k][i] # StopMessage

=============================================================================
