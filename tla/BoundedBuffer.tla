--------------------------- MODULE BoundedBuffer ---------------------------
(***************************************************************************)
(* prod_cons_bound and its modular version prod_cons_bound_mod: a producer *)
(* and a consumer go round a circular buffer a number of times, kept apart *)
(* by two semaphores and no mutex.                                         *)
(***************************************************************************)
EXTENDS Naturals, Sequences, SequencesExt

CONSTANTS BufferCapacity, Rounds

ValidArguments == BufferCapacity \in Nat \ {0} /\ Rounds \in Nat \ {0}

VARIABLES program, pc, shared, private

vars == <<program, pc, shared, private>>

Total == Rounds * BufferCapacity
Values == 0..Total

TypeOK ==
  /\ pc \in [main : {"producer", "consumer", "join", "destroy", "done"},
             produce : {"unstarted", "wait", "write", "post", "done"},
             consume : {"unstarted", "wait", "read", "post", "done"}]
  /\ shared \in [buffer : [0..(BufferCapacity - 1) -> Values],
                 can_produce : Nat, can_consume : Nat]
  /\ private \in [error : BOOLEAN, count : Values, taken : Values,
                  consumed : Seq(Values)]

\* Mutant: a value is ready before the first one was made.
StartReady ==
  /\ pc = [main |-> "producer", produce |-> "unstarted", consume |-> "unstarted"]
  /\ shared = [buffer |-> [i \in 0..(BufferCapacity - 1) |-> 0],
               can_produce |-> BufferCapacity, can_consume |-> 1]
  /\ private = [error |-> FALSE, count |-> 0, taken |-> 0, consumed |-> <<>>]

\* count and taken number the producer's and the consumer's turns, rounds
\* included: the index of a turn is what is left of whole rounds.
Start ==
  /\ pc = [main |-> "producer", produce |-> "unstarted", consume |-> "unstarted"]
  /\ shared = [buffer |-> [i \in 0..(BufferCapacity - 1) |-> 0],
               can_produce |-> BufferCapacity, can_consume |-> 0]
  /\ private = [error |-> FALSE, count |-> 0, taken |-> 0, consumed |-> <<>>]

InitBound == program = "prod_cons_bound" /\ Start
InitBoundMod == program = "prod_cons_bound_mod" /\ Start

Init == InitBound \/ InitBoundMod

Go(thread, at) == pc' = [pc EXCEPT ![thread] = at]

CreateProducer(created) ==
  /\ pc.main = "producer"
  /\ IF created
     THEN /\ pc' = [pc EXCEPT !.main = "consumer", !.produce = "wait"]
          /\ UNCHANGED private
     ELSE /\ Go("main", "destroy")
          /\ private' = [private EXCEPT !.error = TRUE]
  /\ UNCHANGED shared

\* A consumer that cannot be created leaves the producer running, unjoined.
CreateConsumer(created) ==
  /\ pc.main = "consumer"
  /\ IF created
     THEN /\ pc' = [pc EXCEPT !.main = "join", !.consume = "wait"]
          /\ UNCHANGED private
     ELSE /\ Go("main", "destroy")
          /\ private' = [private EXCEPT !.error = TRUE]
  /\ UNCHANGED shared

Join ==
  /\ pc.main = "join"
  /\ pc.produce = "done" /\ pc.consume = "done"
  /\ Go("main", "destroy")
  /\ UNCHANGED <<shared, private>>

Destroy == pc.main = "destroy" /\ Go("main", "done") /\ UNCHANGED <<shared, private>>

ProduceWait ==
  /\ pc.produce = "wait" /\ private.count < Total
  /\ shared.can_produce > 0
  /\ shared' = [shared EXCEPT !.can_produce = @ - 1]
  /\ Go("produce", "write")
  /\ UNCHANGED private

ProduceWrite ==
  /\ pc.produce = "write"
  /\ private' = [private EXCEPT !.count = @ + 1]
  /\ shared' = [shared EXCEPT !.buffer[private.count % BufferCapacity]
                  = private.count + 1]
  /\ Go("produce", "post")

ProducePost ==
  /\ pc.produce = "post"
  /\ shared' = [shared EXCEPT !.can_consume = @ + 1]
  /\ Go("produce", IF private.count = Total THEN "done" ELSE "wait")
  /\ UNCHANGED private

ConsumeWait ==
  /\ pc.consume = "wait" /\ private.taken < Total
  /\ shared.can_consume > 0
  /\ shared' = [shared EXCEPT !.can_consume = @ - 1]
  /\ Go("consume", "read")
  /\ UNCHANGED private

ConsumeRead ==
  /\ pc.consume = "read"
  /\ private' = [private EXCEPT !.taken = @ + 1,
       !.consumed = Append(@, shared.buffer[private.taken % BufferCapacity])]
  /\ Go("consume", "post")
  /\ UNCHANGED shared

ConsumePost ==
  /\ pc.consume = "post"
  /\ shared' = [shared EXCEPT !.can_produce = @ + 1]
  /\ Go("consume", IF private.taken = Total THEN "done" ELSE "wait")
  /\ UNCHANGED private

CreateThreads ==
  \/ \E created \in BOOLEAN : CreateProducer(created) \/ CreateConsumer(created)
  \/ Join
ProduceSteps == ProduceWait \/ ProduceWrite \/ ProducePost
ConsumeSteps == ConsumeWait \/ ConsumeRead \/ ConsumePost

BoundNext ==
  program = "prod_cons_bound"
    /\ (CreateThreads \/ Destroy \/ ProduceSteps \/ ConsumeSteps)
BoundModNext ==
  program = "prod_cons_bound_mod"
    /\ (CreateThreads \/ Destroy \/ ProduceSteps \/ ConsumeSteps)

Next == pc.main # "done" /\ (BoundNext \/ BoundModNext)

-----------------------------------------------------------------------------

\* Without a mutex, the producer never writes the element the consumer reads,
\* and no value is overwritten before it was consumed, or consumed twice.
BufferKept ==
  /\ private.consumed = [i \in 1..private.taken |-> i]
  /\ pc.produce = "write" /\ pc.consume = "read" =>
       private.count % BufferCapacity # private.taken % BufferCapacity
  /\ private.taken <= private.count /\ private.count <= private.taken + BufferCapacity

\* The semaphores are destroyed under a running thread only when the consumer
\* could not be created.
DestroysIdle ==
  pc.main = "done" /\ ~private.error => pc.produce = "done" /\ private.taken = Total

=============================================================================
