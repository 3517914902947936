----------------------------- MODULE RelayRace -----------------------------
(***************************************************************************)
(* relay_race and relay_race_order_effect: in each team a thread starts,   *)
(* behind a barrier, and hands a baton (a semaphore) to a second one that  *)
(* takes the next position; the two programs create the halves of the      *)
(* teams in opposite orders.  mist_cond_var is a barrier made of a         *)
(* condition variable, whose wait is not repeated.                         *)
(***************************************************************************)
EXTENDS Naturals, FiniteSets, FiniteSetsExt

CONSTANTS TeamCount

ValidArguments == TeamCount \in Nat \ {0}

VARIABLES program, pc, shared, private

vars == <<program, pc, shared, private>>

Starters == 0..(TeamCount - 1)
Finishers == TeamCount..(2 * TeamCount - 1)
Runners == Starters \cup Finishers
Workers == 0..2      \* mist_cond_var has three
Threads == IF program = "mist_cond_var" THEN Workers ELSE Runners

TypeOK ==
  /\ pc \in [Threads -> {"unstarted", "missing", "arrive", "barrier", "pass",
                         "receive", "finish", "done", "waiting"}]
  /\ shared.arrived \subseteq Threads
  /\ shared.batons \in [Starters -> 0..1]
  /\ shared.position \in 0..TeamCount /\ shared.counter \in 0..3
  /\ private.at \in {"create", "join", "done", "crashed"}
  /\ private.places \in [Threads -> 0..TeamCount]

Start ==
  /\ pc = [t \in Threads |-> "unstarted"]
  /\ shared = [arrived |-> {}, batons |-> [t \in Starters |-> 0], position |-> 0,
               counter |-> 0, open |-> FALSE]
  /\ private = [at |-> "create", index |-> 0, places |-> [t \in Threads |-> 0]]

InitRelay == program = "relay_race" /\ Start
InitOrderEffect == program = "relay_race_order_effect" /\ Start
InitMist == program = "mist_cond_var" /\ Start

Init == InitRelay \/ InitOrderEffect \/ InitMist

Go(t, at) == pc' = [pc EXCEPT ![t] = at]

\* The thread of the index-th creation: starters first, or finishers first.
StartersFirst(index) == index
FinishersFirst(index) == (index + TeamCount) % (2 * TeamCount)

\* After a creation that failed the loop goes on.
CreateRunner(t, created) ==
  /\ private.at = "create" /\ private.index < 2 * TeamCount
  /\ Go(t, IF ~created THEN "missing"
           ELSE IF t \in Starters THEN "arrive" ELSE "receive")
  /\ private' = [private EXCEPT !.index = @ + 1]
  /\ UNCHANGED shared

CreateWorker ==
  /\ private.at = "create" /\ private.index < Cardinality(Workers)
  /\ Go(private.index, "arrive")
  /\ private' = [private EXCEPT !.index = @ + 1]
  /\ UNCHANGED shared

AllCreated ==
  /\ private.at = "create" /\ private.index = Cardinality(Threads)
  /\ private' = [private EXCEPT !.at = "join", !.index = 0]
  /\ UNCHANGED <<pc, shared>>

\* The handle of a thread that was not created may bring the process down.
Join ==
  /\ private.at = "join"
  /\ IF private.index = Cardinality(Threads)
     THEN private' = [private EXCEPT !.at = "done"]
     ELSE /\ pc[private.index] \in {"done", "missing"}
          /\ \/ private' = [private EXCEPT !.index = @ + 1]
             \/ /\ pc[private.index] = "missing"
                /\ private' = [private EXCEPT !.at = "crashed"]
  /\ UNCHANGED <<pc, shared>>

-----------------------------------------------------------------------------
(* start_race() and finish_race()                                          *)

\* Mutant: a barrier that lets each thread through as it comes.
ArriveNoBarrier(t) ==
  /\ pc[t] = "arrive"
  /\ shared' = [shared EXCEPT !.arrived = @ \cup {t}]
  /\ pc' = [pc EXCEPT ![t] = "pass"]
  /\ UNCHANGED private

\* The last of team_count threads lets all of them through the barrier.
Arrive(t) ==
  /\ pc[t] = "arrive"
  /\ shared' = [shared EXCEPT !.arrived = @ \cup {t}]
  /\ pc' = IF Cardinality(shared'.arrived) = TeamCount
           THEN [u \in Runners |-> IF u \in shared'.arrived THEN "pass" ELSE pc[u]]
           ELSE [pc EXCEPT ![t] = "barrier"]
  /\ UNCHANGED private

PassBaton(t) ==
  /\ pc[t] = "pass"
  /\ shared' = [shared EXCEPT !.batons[t] = @ + 1]
  /\ Go(t, "done")
  /\ UNCHANGED private

ReceiveBaton(t) ==
  /\ pc[t] = "receive" /\ shared.batons[t - TeamCount] > 0
  /\ shared' = [shared EXCEPT !.batons[t - TeamCount] = @ - 1]
  /\ Go(t, "finish")
  /\ UNCHANGED private

\* In the mutex.
Finish(t) ==
  /\ pc[t] = "finish"
  /\ shared' = [shared EXCEPT !.position = @ + 1]
  /\ private' = [private EXCEPT !.places[t] = shared.position + 1]
  /\ Go(t, "done")

Running ==
  \/ \E t \in Starters : Arrive(t) \/ PassBaton(t)
  \/ \E t \in Finishers : ReceiveBaton(t) \/ Finish(t)

RelayNext ==
  /\ program = "relay_race"
  /\ \/ \E created \in BOOLEAN : CreateRunner(StartersFirst(private.index), created)
     \/ AllCreated \/ Join \/ Running

OrderEffectNext ==
  /\ program = "relay_race_order_effect"
  /\ \/ \E created \in BOOLEAN : CreateRunner(FinishersFirst(private.index), created)
     \/ AllCreated \/ Join \/ Running

-----------------------------------------------------------------------------
(* mistery()                                                               *)

CountIn(t) ==
  /\ pc[t] = "arrive"
  /\ IF shared.counter + 1 < 3
     THEN /\ shared' = [shared EXCEPT !.counter = @ + 1]
          /\ Go(t, "waiting")
     ELSE /\ shared' = [shared EXCEPT !.counter = 0, !.open = TRUE]
          /\ pc' = [u \in Workers |-> IF pc[u] = "waiting" \/ u = t THEN "pass"
                                      ELSE pc[u]]
  /\ UNCHANGED private

\* pthread_cond_wait() may come back without a signal, and is not called again.
SpuriousWakeup(t) ==
  /\ pc[t] = "waiting"
  /\ Go(t, "pass")
  /\ UNCHANGED <<shared, private>>

LeaveMist(t) == pc[t] = "pass" /\ Go(t, "done") /\ UNCHANGED <<shared, private>>

MistNext ==
  /\ program = "mist_cond_var"
  /\ \/ CreateWorker \/ AllCreated \/ Join
     \/ \E t \in Workers : CountIn(t) \/ SpuriousWakeup(t) \/ LeaveMist(t)

Next ==
  /\ private.at \notin {"done", "crashed"}
  /\ RelayNext \/ OrderEffectNext \/ MistNext

-----------------------------------------------------------------------------

StarterMissing == \E t \in Threads \cap Starters : pc[t] = "missing"

\* No baton is passed before every team is at the start, a team finishes after
\* its own starter, and the places are given once each, in order.  A starter that is
\* missing keeps all the others at the barrier.
FairRace ==
  program # "mist_cond_var" =>
    /\ (\E t \in Starters : pc[t] \in {"pass", "done"}) => shared.arrived = Starters
    /\ \A t \in Finishers : pc[t] \in {"finish", "done"} => pc[t - TeamCount] = "done"
    /\ {private.places[t] : t \in {u \in Finishers : pc[u] = "done"}}
         = 1..Cardinality({u \in Finishers : pc[u] = "done"})
    /\ StarterMissing => shared.position = 0

\* Woken spuriously a thread leaves early, but still no one is left behind:
\* the counter lets the third arrival open the barrier.
MistOpens ==
  program = "mist_cond_var" =>
    (shared.open <=> \A t \in Workers : pc[t] \in {"pass", "done"})

=============================================================================
