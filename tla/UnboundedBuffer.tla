-------------------------- MODULE UnboundedBuffer --------------------------
(***************************************************************************)
(* The unbounded-buffer exercises in C: a team of producers makes units    *)
(* numbered from one, a team of consumers takes them, and counters under   *)
(* mutexes say when to leave.  "produce0" stands for the identical         *)
(* consume0 and for the class example prod_cons_unbound, whose files are   *)
(* the same; "produce2" lets a semaphore stop the producers;               *)
(* "private" gives every thread a record of its own, with its identifier.  *)
(* A pthread_create() that fails is part of each program.                  *)
(***************************************************************************)
EXTENDS Naturals, Sequences, SequencesExt, FiniteSetsExt

CONSTANTS UnitCount, ProducerCount, ConsumerCount

ValidArguments ==
  UnitCount \in Nat \ {0} /\ ProducerCount \in Nat \ {0} /\ ConsumerCount \in Nat \ {0}

VARIABLES program,    \* which of the three programs this is
          pc,         \* where main and every thread are
          shared,     \* simulation_t
          private     \* what main and each thread hold

vars == <<program, pc, shared, private>>

Producers == 1..ProducerCount
Consumers == (ProducerCount + 1)..(ProducerCount + ConsumerCount)
Threads == Producers \cup Consumers
Units == 0..UnitCount

TypeOK ==
  /\ pc \in [Threads -> {"unstarted", "start", "claim", "enqueue", "post",
                         "wait", "dequeue", "done"}]
  /\ shared \in [next_unit : Units, consumed_count : Units, queue : Seq(Units),
                 can_consume : Nat, can_produce : Nat, consumed : Seq(Units)]
  /\ private.at \in {"producers", "consumers", "join", "destroy", "done", "crashed"}
  /\ private.index \in 1..(ProducerCount + ConsumerCount + 1)
  /\ private.failed \subseteq {"producers", "consumers"}
  /\ private.unit \in [Threads -> Units] /\ private.self \in [Threads -> BOOLEAN]

\* simulation_create(), then main is about to create the team of producers.
\* private.at, index, failed and joining are main's; failed holds the teams
\* create_threads() returned NULL for.
Start(permits) ==
  /\ pc = [t \in Threads |-> "unstarted"]
  /\ shared = [next_unit |-> 0, consumed_count |-> 0, queue |-> <<>>,
               can_consume |-> 0, can_produce |-> permits, consumed |-> <<>>]
  /\ private = [at |-> "producers", index |-> 1, failed |-> {}, joining |-> {},
                unit |-> [t \in Threads |-> 0], self |-> [t \in Threads |-> FALSE]]

InitProduce0 == program = "prod_cons_unbound_produce0" /\ Start(0)
InitProduce2 == program = "prod_cons_unbound_produce2" /\ Start(UnitCount)
InitPrivate == program = "create_threads_pri" /\ Start(0)

Init == InitProduce0 \/ InitProduce2 \/ InitPrivate

Go(t, at) == pc' = [pc EXCEPT ![t] = at]

-----------------------------------------------------------------------------
(* main *)

TeamOf(at) == IF at = "producers" THEN Producers ELSE Consumers
After(at) == IF at = "producers" THEN "consumers" ELSE "join"

CreateThread(t) ==
  /\ private.at \in {"producers", "consumers"} /\ private.joining = {}
  /\ t = private.index /\ t \in TeamOf(private.at)
  /\ Go(t, "start")
  /\ private' = [private EXCEPT !.index = t + 1,
                   !.at = IF t + 1 \in TeamOf(@) THEN @ ELSE After(@)]
  /\ UNCHANGED shared

\* The threads of the team that do exist are joined before NULL is returned.
CreateThreadFails ==
  /\ private.at \in {"producers", "consumers"} /\ private.joining = {}
  /\ private' = [private EXCEPT
       !.failed = @ \cup {private.at},
       !.index = ProducerCount + 1,
       !.joining = {t \in TeamOf(private.at) : pc[t] # "unstarted"},
       !.at = After(@)]
  /\ UNCHANGED <<pc, shared>>

\* join_threads(), one thread after another; a team returned as NULL is not
\* joined by create_consumers_producers(), nor is then the other one.
StartJoining ==
  /\ private.at = "join" /\ private.joining = {}
  /\ private' = IF private.failed = {}
                THEN [private EXCEPT !.joining = Threads, !.at = "destroy"]
                ELSE [private EXCEPT !.at = "destroy"]
  /\ shared' = IF program = "prod_cons_unbound_produce2" /\ private.failed = {}
               THEN [shared EXCEPT !.can_produce = @ + ProducerCount] ELSE shared
  /\ UNCHANGED pc

JoinThread(t) ==
  /\ private.joining # {} /\ t = Min(private.joining)
  /\ pc[t] = "done"
  /\ private' = [private EXCEPT !.joining = @ \ {t}]
  /\ UNCHANGED <<pc, shared>>

\* A private record whose thread has not yet stored its own identifier makes
\* pthread_join() follow a null handle.  After a failure join_threads() has
\* freed the records that create_threads() frees again.
JoinCrashes ==
  /\ program = "create_threads_pri"
  /\ \/ private.joining # {} /\ ~private.self[Min(private.joining)]
     \/ private.failed # {} /\ private.joining = {}
  /\ private.at # "done"
  /\ private' = [private EXCEPT !.at = "crashed", !.joining = {}]
  /\ UNCHANGED <<pc, shared>>

\* simulation_destroy(), whatever threads are left, and the end of the process.
Destroy ==
  /\ private.at = "destroy" /\ private.joining = {}
  /\ private' = [private EXCEPT !.at = "done"]
  /\ UNCHANGED <<pc, shared>>

-----------------------------------------------------------------------------
(* The threads.  A counter is read and changed under its mutex, and so is  *)
(* the queue: each is one step.                                            *)

StartRoutine(t) ==
  /\ pc[t] = "start"
  /\ private' = [private EXCEPT !.self[t] = program = "create_threads_pri"]
  /\ Go(t, "claim")
  /\ UNCHANGED shared

\* Mutant: the unit is the count from before it was incremented.
ClaimUnitLate(t) ==
  /\ program # "prod_cons_unbound_produce2"
  /\ pc[t] = "claim" /\ t \in Producers
  /\ IF shared.next_unit < UnitCount
     THEN /\ private' = [private EXCEPT !.unit[t] = shared.next_unit]
          /\ shared' = [shared EXCEPT !.next_unit = @ + 1]
          /\ Go(t, "enqueue")
     ELSE Go(t, "done") /\ UNCHANGED <<private, shared>>

ClaimUnit(t) ==
  /\ program # "prod_cons_unbound_produce2"
  /\ pc[t] = "claim" /\ t \in Producers
  /\ IF shared.next_unit < UnitCount
     THEN /\ private' = [private EXCEPT !.unit[t] = shared.next_unit + 1]
          /\ shared' = [shared EXCEPT !.next_unit = @ + 1]
          /\ Go(t, "enqueue")
     ELSE Go(t, "done") /\ UNCHANGED <<private, shared>>

\* produce2 leaves when there are units to make: its test is inverted.
ClaimUnit2(t) ==
  /\ program = "prod_cons_unbound_produce2"
  /\ pc[t] = "claim" /\ t \in Producers
  /\ shared.can_produce > 0
  /\ IF shared.next_unit < UnitCount
     THEN /\ shared' = [shared EXCEPT !.can_produce = @ - 1]
          /\ Go(t, "done") /\ UNCHANGED private
     ELSE /\ shared' = [shared EXCEPT !.can_produce = @ - 1, !.next_unit = @ + 1]
          /\ private' = [private EXCEPT !.unit[t] = shared.next_unit + 1]
          /\ Go(t, "enqueue")

Enqueue(t) ==
  /\ pc[t] = "enqueue"
  /\ shared' = [shared EXCEPT !.queue = Append(@, private.unit[t])]
  /\ Go(t, "post")
  /\ UNCHANGED private

PostConsume(t) ==
  /\ pc[t] = "post"
  /\ shared' = [shared EXCEPT !.can_consume = @ + 1]
  /\ Go(t, "claim")
  /\ UNCHANGED private

ClaimConsumption(t) ==
  /\ pc[t] = "claim" /\ t \in Consumers
  /\ IF shared.consumed_count < UnitCount
     THEN /\ shared' = [shared EXCEPT !.consumed_count = @ + 1]
          /\ Go(t, "wait")
     ELSE Go(t, "done") /\ UNCHANGED shared
  /\ UNCHANGED private

WaitConsume(t) ==
  /\ pc[t] = "wait"
  /\ shared.can_consume > 0
  /\ shared' = [shared EXCEPT !.can_consume = @ - 1]
  /\ Go(t, "dequeue")
  /\ UNCHANGED private

\* An empty queue leaves value at zero.
Dequeue(t) ==
  /\ pc[t] = "dequeue"
  /\ shared' =
       IF shared.queue = <<>> THEN [shared EXCEPT !.consumed = Append(@, 0)]
       ELSE [shared EXCEPT !.consumed = Append(@, Head(shared.queue)),
                           !.queue = Tail(@)]
  /\ Go(t, "claim")
  /\ UNCHANGED private

MainSteps ==
  \/ \E t \in Threads : CreateThread(t) \/ JoinThread(t)
  \/ CreateThreadFails \/ StartJoining \/ JoinCrashes \/ Destroy
ProducerSteps(t) == ClaimUnit(t) \/ ClaimUnit2(t) \/ Enqueue(t) \/ PostConsume(t)
ConsumerSteps(t) == ClaimConsumption(t) \/ WaitConsume(t) \/ Dequeue(t)

\* Once the process has ended none of its threads runs.
Next ==
  /\ private.at \notin {"done", "crashed"}
  /\ \/ MainSteps
     \/ \E t \in Threads : StartRoutine(t) \/ ProducerSteps(t) \/ ConsumerSteps(t)

-----------------------------------------------------------------------------

InHand == {t \in Producers : pc[t] = "enqueue"}

\* Every unit claimed is in one place, once: in a producer's hand, in the
\* queue, or consumed; and the semaphore never promises more than the queue
\* holds, so that a consumer allowed to dequeue finds a unit.
UnitsConserved ==
  LET Places(u) == Quantify(1..Len(shared.queue), LAMBDA i : shared.queue[i] = u)
                 + Quantify(1..Len(shared.consumed), LAMBDA i : shared.consumed[i] = u)
                 + Quantify(InHand, LAMBDA t : private.unit[t] = u)
  IN  /\ \A u \in Units : Places(u) = IF u \in 1..shared.next_unit THEN 1 ELSE 0
      /\ shared.can_consume + Quantify(Consumers, LAMBDA t : pc[t] = "dequeue")
           + Quantify(Producers, LAMBDA t : pc[t] = "post") = Len(shared.queue)

\* The simulation is destroyed under running threads only after a creation
\* that failed, and otherwise with every unit consumed.
DestroysIdle ==
  private.at = "done" /\ private.failed = {} =>
    /\ \A t \in Threads : pc[t] = "done"
    /\ Len(shared.consumed) = UnitCount

=============================================================================
