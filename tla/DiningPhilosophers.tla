------------------------ MODULE DiningPhilosophers ------------------------
(***************************************************************************)
(* dining_philosophers_impl: philosophers that think and eat for ever,     *)
(* with a semaphore for each chopstick.  Those of even rank take the one   *)
(* on their right first, those of odd rank the one on their left.          *)
(***************************************************************************)
EXTENDS Naturals, FiniteSets, FiniteSetsExt

CONSTANTS MaxPhilosophers     \* the greatest first argument given

PhilosophersAssumption == MaxPhilosophers \in Nat \ {0}

VARIABLES pc, shared, private

vars == <<pc, shared, private>>

Philosophers == 0..(shared.philosopher_num - 1)
Locations == {"unstarted", "think", "right", "left", "eat", "put_left", "put_right"}

TypeOK ==
  /\ shared \in [philosopher_num : 1..MaxPhilosophers, max_think : 0..1, max_eat : 0..1,
                 chopsticks : [0..(MaxPhilosophers - 1) -> Nat]]
  /\ pc \in [0..(MaxPhilosophers - 1) -> Locations]
  /\ private \in [at : {"create", "join", "done", "crashed"},
                  index : 0..MaxPhilosophers,
                  second : [0..(MaxPhilosophers - 1) -> BOOLEAN]]

\* What analyze_arguments() accepts: any number but zero of philosophers, and
\* any durations, a greatest one of zero milliseconds included.
ValidArguments ==
  [philosopher_num : 1..MaxPhilosophers, max_think : 0..1, max_eat : 0..1]

Init ==
  \E arguments \in ValidArguments :
    /\ shared = [philosopher_num |-> arguments.philosopher_num,
                 max_think |-> arguments.max_think, max_eat |-> arguments.max_eat,
                 chopsticks |-> [c \in 0..(MaxPhilosophers - 1) |-> 1]]
    /\ pc = [p \in 0..(MaxPhilosophers - 1) |-> "unstarted"]
    /\ private = [at |-> "create", index |-> 0,
                  second |-> [p \in 0..(MaxPhilosophers - 1) |-> FALSE]]

\* A creation that fails is reported, and the loop goes on.
CreateThread(created) ==
  /\ private.at = "create"
  /\ IF private.index = shared.philosopher_num
     THEN private' = [private EXCEPT !.at = "join", !.index = 0] /\ UNCHANGED pc
     ELSE /\ private' = [private EXCEPT !.index = @ + 1]
          /\ IF created THEN pc' = [pc EXCEPT ![private.index] = "think"]
             ELSE UNCHANGED pc
  /\ UNCHANGED shared

\* A philosopher is never joined.  The handle of one that was not created may
\* come back with an error or bring the process down.
JoinMissing ==
  /\ private.at = "join"
  /\ IF private.index = shared.philosopher_num
     THEN private' = [private EXCEPT !.at = "done"]
     ELSE /\ pc[private.index] = "unstarted"
          /\ \/ private' = [private EXCEPT !.index = @ + 1]
             \/ private' = [private EXCEPT !.at = "crashed"]
  /\ UNCHANGED <<pc, shared>>

-----------------------------------------------------------------------------

Left(p) == (p + 1) % shared.philosopher_num
Go(p, at) == pc' = [pc EXCEPT ![p] = at]

\* Mutant: every philosopher begins with the chopstick on the right.
ThinkRightFirst(p) ==
  /\ pc[p] = "think" /\ shared.max_think # 0
  /\ Go(p, "right")
  /\ private' = [private EXCEPT !.second[p] = FALSE]
  /\ UNCHANGED shared

Think(p) ==
  /\ pc[p] = "think" /\ shared.max_think # 0
  /\ Go(p, IF p % 2 = 0 THEN "right" ELSE "left")
  /\ private' = [private EXCEPT !.second[p] = FALSE]
  /\ UNCHANGED shared

\* The random duration is a remainder, of a division by zero when the greatest
\* duration is zero.
DivideByZero(p) ==
  /\ \/ pc[p] = "think" /\ shared.max_think = 0
     \/ pc[p] = "eat" /\ shared.max_eat = 0
  /\ private' = [private EXCEPT !.at = "crashed"]
  /\ UNCHANGED <<pc, shared>>

Get(p, chopstick, other) ==
  /\ shared.chopsticks[chopstick] > 0
  /\ shared' = [shared EXCEPT !.chopsticks[chopstick] = @ - 1]
  /\ IF private.second[p] THEN Go(p, "eat") /\ UNCHANGED private
     ELSE Go(p, other) /\ private' = [private EXCEPT !.second[p] = TRUE]

GetRightChopstick(p) == pc[p] = "right" /\ Get(p, p, "left")
GetLeftChopstick(p) == pc[p] = "left" /\ Get(p, Left(p), "right")

Eat(p) ==
  /\ pc[p] = "eat" /\ shared.max_eat # 0
  /\ Go(p, "put_left")
  /\ UNCHANGED <<shared, private>>

Put(p, chopstick, next) ==
  /\ shared' = [shared EXCEPT !.chopsticks[chopstick] = @ + 1]
  /\ Go(p, next)
  /\ UNCHANGED private

PutLeftChopstick(p) == pc[p] = "put_left" /\ Put(p, Left(p), "put_right")
PutRightChopstick(p) == pc[p] = "put_right" /\ Put(p, p, "think")

Philosopher(p) ==
  \/ Think(p) \/ DivideByZero(p) \/ Eat(p)
  \/ GetRightChopstick(p) \/ GetLeftChopstick(p)
  \/ PutLeftChopstick(p) \/ PutRightChopstick(p)

Next ==
  /\ private.at \notin {"done", "crashed"}
  /\ \/ \E created \in BOOLEAN : CreateThread(created)
     \/ JoinMissing
     \/ \E p \in Philosophers : Philosopher(p)

-----------------------------------------------------------------------------

Holds(p) ==
  LET one == IF private.second[p] THEN 1 ELSE 0
  IN  CASE pc[p] = "right" -> IF one = 1 THEN {Left(p)} ELSE {}
        [] pc[p] = "left" -> IF one = 1 THEN {p} ELSE {}
        [] pc[p] \in {"eat", "put_left"} -> {p, Left(p)}
        [] pc[p] = "put_right" -> {p}
        [] OTHER -> {}

\* A chopstick is on the table or in one hand, so that no two neighbours eat.
\* A single philosopher has one chopstick, and never eats.
ChopsticksKept ==
  /\ \A c \in Philosophers :
       shared.chopsticks[c] + Quantify(Philosophers, LAMBDA p : c \in Holds(p)) = 1
  /\ shared.philosopher_num = 1 => pc[0] # "eat"

SomeoneEats == \E p \in Philosophers : pc[p] = "eat"

=============================================================================
