------------------------- MODULE NetworkSimulations -------------------------
(***************************************************************************)
(* The four simulations of a network side by side.  A behaviour is one of  *)
(* a single program; the variables only the others have do not change.     *)
(***************************************************************************)
EXTENDS Naturals, Sequences, SequencesExt

CONSTANTS Programs,       \* the programs of this run
          PackageCount, ProducerCount, ConsumerCount, Capacity

VARIABLES program, pc, worker, queue, produced, received, discarded,
          producer, packagesLeft, canConsume, canProduce, hand

Loss == INSTANCE PacketLoss
Loss2 == INSTANCE PacketLoss2
Many == INSTANCE MultiProducer
Bounded == INSTANCE BoundedSimulation

ASSUME SimulationsAssumption ==
  /\ Loss!CountsAssumption /\ Loss2!CountsAssumption
  /\ Many!CountsAssumption /\ Bounded!CountsAssumption

vars == <<program, pc, worker, queue, produced, received, discarded, producer,
          packagesLeft, canConsume, canProduce, hand>>

manyVars == <<producer, packagesLeft>>
boundedVars == <<canConsume, canProduce, hand>>

Unused(v) == v = "unused"

Init ==
  \/ /\ program = "packet_loss" /\ Loss!Init
     /\ Unused(producer) /\ Unused(packagesLeft) /\ Unused(canConsume)
     /\ Unused(canProduce) /\ Unused(hand)
  \/ /\ program = "packet_loss2" /\ Loss2!Init
     /\ Unused(producer) /\ Unused(packagesLeft) /\ Unused(canConsume)
     /\ Unused(canProduce) /\ Unused(hand)
  \/ /\ program = "producers" /\ Many!Init
     /\ Unused(produced) /\ Unused(canConsume) /\ Unused(canProduce)
     /\ Unused(hand)
  \/ /\ program = "bounded" /\ Bounded!Init
     /\ Unused(discarded) /\ Unused(producer) /\ Unused(packagesLeft)

Running(name) == name \in Programs /\ program = name /\ UNCHANGED program

LossNext == Running("packet_loss") /\ Loss!Next /\ UNCHANGED <<manyVars, boundedVars>>
Loss2Next == Running("packet_loss2") /\ Loss2!Next /\ UNCHANGED <<manyVars, boundedVars>>
ManyNext == Running("producers") /\ Many!Next /\ UNCHANGED <<produced, boundedVars>>
BoundedNext == Running("bounded") /\ Bounded!Next /\ UNCHANGED <<discarded, manyVars>>

Next == LossNext \/ Loss2Next \/ ManyNext \/ BoundedNext

\* The threads take turns; a thread whose queue never empties is not starved,
\* for each program makes finitely many steps.
Fairness ==
  /\ WF_vars(LossNext) /\ WF_vars(Loss2Next)
  /\ WF_vars(ManyNext) /\ WF_vars(BoundedNext)

Spec == Init /\ [][Next]_vars /\ Fairness

-----------------------------------------------------------------------------

TypeOK ==
  CASE program = "packet_loss" -> Loss!TypeOK
    [] program = "packet_loss2" -> Loss2!TypeOK
    [] program = "producers" -> Many!TypeOK
    [] program = "bounded" -> Bounded!TypeOK

\* No message is lost on the way or duplicated: what was produced waits in one
\* queue, was consumed, or is counted as discarded; a bounded queue has no more
\* messages than places, and its semaphores account for each place.
MessagesConserved ==
  CASE program = "packet_loss" -> Loss!Conserved
    [] program = "packet_loss2" -> Loss2!Conserved
    [] program = "producers" -> Many!Conserved
    [] program = "bounded" -> Bounded!PlacesAccounted /\ Bounded!AllConsumed

\* A producer's messages arrive at their consumer in the order they were made,
\* of several producers each number once, and whoever takes the stop has taken
\* everything before it.  In packet_loss2 no stop passes the assembler: no one
\* promises that, but the actions its Next leaves out depend on it.
MessagesInOrder ==
  CASE program = "packet_loss" -> Loss!InOrder /\ Loss!LeavesNothing
    [] program = "packet_loss2" -> Loss2!NobodyStops
    [] program = "producers" -> Many!NumbersTakenOnce /\ Many!LeavesNothing
    [] program = "bounded" -> Bounded!InOrder /\ Bounded!PopsAnElement

\* The dispatcher's exception ends the process, not the simulation.
DispatcherThrew == program = "bounded" /\ pc.main = "aborted"

\* In packet_loss and producers main joins every thread and returns, and so in
\* bounded unless the dispatcher throws for a key without a queue.  Nothing is
\* stated of packet_loss2: its main waits for ever in the join of the
\* dispatcher, contrary to "Wait for objets to finish the simulation" and
\* "Simulation finished" (ProducerConsumerTest.cpp:76, :84), since its assembler
\* keeps the stop to itself (AssemblerTest.cpp:21).
SimulationEnds ==
  <>[](program # "packet_loss2" => pc.main = "done" \/ DispatcherThrew)

=============================================================================
