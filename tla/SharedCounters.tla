--------------------------- MODULE SharedCounters ---------------------------
(***************************************************************************)
(* Four exercises whose threads report to main through memory: threads     *)
(* hit a pinata under a mutex (birthday_pinata), take positions in a race  *)
(* (position_race), write their best shot on a board that main then reads  *)
(* (team_shot_put), or return a number (grandma_lottery).                  *)
(***************************************************************************)
EXTENDS Naturals, Integers, Sequences, SequencesExt, FiniteSetsExt

CONSTANTS ThreadCount,    \* of the pinata and of the race
          LifePinata, AthleteCount,
          MaxNumber       \* the numbers drawn at random are below it

CountersAssumption ==
  /\ ThreadCount \in Nat /\ LifePinata \in Nat /\ MaxNumber \in Nat \ {0}
  /\ AthleteCount \in Nat /\ AthleteCount % 2 = 1

VARIABLES program, pc, shared, private

vars == <<program, pc, shared, private>>

\* The athletes of team one come first.
Athletes == 0..(2 * AthleteCount - 1)
Threads ==
  CASE program = "team_shot_put" -> Athletes
    [] program = "grandma_lottery" -> 0..1
    [] OTHER -> 0..(ThreadCount - 1)
Nobody == -1
Garbage == MaxNumber     \* what memory outside of an allocation may hold

TypeOK ==
  /\ pc \in [Threads -> {"unstarted", "lock", "hit", "unlock", "move", "arrive",
                         "shoot", "draw", "done"}]
  /\ shared.mutex \in Threads \cup {Nobody}
  /\ shared.life_pinata \in 0..LifePinata /\ shared.position \in 0..ThreadCount
  /\ shared.results \in [Threads -> 0..MaxNumber]
  /\ private.at \in {"create", "join", "score", "done", "crashed"}
  /\ private.hit_number \in [Threads -> 0..LifePinata]
  /\ private.my_position \in [Threads -> 0..ThreadCount]
  /\ private.broke_pinata \subseteq Threads /\ private.pairs \in [0..1 -> Nat]
  /\ private.tickets \in Seq(0..MaxNumber)

Start ==
  /\ pc = [t \in Threads |-> "unstarted"]
  /\ shared = [mutex |-> Nobody, life_pinata |-> LifePinata, position |-> 0,
               results |-> [t \in Threads |-> 0]]
  /\ private = [at |-> "create", index |-> 0, created |-> 0,
                hit_number |-> [t \in Threads |-> 0], broke_pinata |-> {},
                my_position |-> [t \in Threads |-> 0],
                pairs |-> [team \in 0..1 |-> 0], tickets |-> <<>>]

InitPinata == program = "birthday_pinata" /\ Start
InitRace == program = "position_race" /\ Start
InitShotPut == program = "team_shot_put" /\ Start
InitLottery == program = "grandma_lottery" /\ Start

Init == InitPinata \/ InitRace \/ InitShotPut \/ InitLottery

Go(t, at) == pc' = [pc EXCEPT ![t] = at]
MainAt(at) == private.at = at
Count == Cardinality(Threads)

CreateThread(first) ==
  /\ MainAt("create") /\ private.index < Count
  /\ Go(private.index, first)
  /\ private' = [private EXCEPT !.index = @ + 1, !.created = @ + 1]
  /\ UNCHANGED shared

\* The pinata and the race join as many threads as were asked for all the same.
\* The shot put goes on to the points at once, with athletes still shooting.
CreateThreadFails(next) ==
  /\ MainAt("create") /\ private.index < Count
  /\ private' = [private EXCEPT !.at = next, !.index = 0]
  /\ UNCHANGED <<pc, shared>>

AllCreated ==
  /\ MainAt("create") /\ private.index = Count
  /\ private' = [private EXCEPT !.at = "join", !.index = 0]
  /\ UNCHANGED <<pc, shared>>

Join(next) ==
  /\ MainAt("join")
  /\ IF private.index = Count THEN private' = [private EXCEPT !.at = next, !.index = 0]
     ELSE /\ private.index < private.created => pc[private.index] = "done"
          /\ \/ private' = [private EXCEPT !.index = @ + 1]
             \/ /\ private.index >= private.created   \* a handle never set
                /\ private' = [private EXCEPT !.at = "crashed"]
  /\ UNCHANGED <<pc, shared>>

Lock(t, next) ==
  /\ pc[t] = "lock" /\ shared.mutex = Nobody
  /\ shared' = [shared EXCEPT !.mutex = t]
  /\ Go(t, next)
  /\ UNCHANGED private

Unlock(t) ==
  /\ pc[t] = "unlock"
  /\ shared' = [shared EXCEPT !.mutex = Nobody]
  /\ Go(t, "done")
  /\ UNCHANGED private

-----------------------------------------------------------------------------

\* The lock is held around the whole loop: the first thread makes every hit.
HitPinata(t) ==
  /\ pc[t] = "hit"
  /\ IF shared.life_pinata > 0
     THEN /\ shared' = [shared EXCEPT !.life_pinata = @ - 1]
          /\ private' = [private EXCEPT !.hit_number[t] = @ + 1,
               !.broke_pinata = IF shared.life_pinata = 1 THEN @ \cup {t} ELSE @]
          /\ UNCHANGED pc
     ELSE Go(t, "unlock") /\ UNCHANGED <<shared, private>>

PinataNext ==
  /\ program = "birthday_pinata"
  /\ \/ CreateThread("lock") \/ CreateThreadFails("join") \/ AllCreated \/ Join("done")
     \/ \E t \in Threads : Lock(t, "hit") \/ HitPinata(t) \/ Unlock(t)

\* ++position, and then the position read back.
Move(t) ==
  /\ pc[t] = "move"
  /\ shared' = [shared EXCEPT !.position = @ + 1]
  /\ Go(t, "arrive")
  /\ UNCHANGED private

Arrive(t) ==
  /\ pc[t] = "arrive"
  /\ private' = [private EXCEPT !.my_position[t] = shared.position]
  /\ Go(t, "unlock")
  /\ UNCHANGED shared

RaceNext ==
  /\ program = "position_race"
  /\ \/ CreateThread("lock") \/ CreateThreadFails("join") \/ AllCreated \/ Join("done")
     \/ \E t \in Threads : Lock(t, "move") \/ Move(t) \/ Arrive(t) \/ Unlock(t)

\* The best of three shots goes to the element of the athlete's own team.
ShootBall(t) ==
  /\ pc[t] = "shoot"
  /\ \E best_shot \in 0..(MaxNumber - 1) :
       shared' = [shared EXCEPT !.results[t] = best_shot]
  /\ Go(t, "done")
  /\ UNCHANGED private

\* A pair with equal shots counts for team one.
ScorePair ==
  /\ MainAt("score")
  /\ IF private.index = AthleteCount THEN private' = [private EXCEPT !.at = "done"]
     ELSE LET team == IF shared.results[private.index]
                           < shared.results[AthleteCount + private.index]
                      THEN 1 ELSE 0
          IN  private' = [private EXCEPT !.index = @ + 1, !.pairs[team] = @ + 1]
  /\ UNCHANGED <<pc, shared>>

ShotPutNext ==
  /\ program = "team_shot_put"
  /\ \/ CreateThread("shoot") \/ CreateThreadFails("score") \/ AllCreated
     \/ Join("score") \/ ScorePair
     \/ \E t \in Athletes : ShootBall(t)

DrawNumber(t) ==
  /\ pc[t] = "draw"
  /\ \E number \in 0..(MaxNumber - 1) :
       shared' = [shared EXCEPT !.results[t] = number]
  /\ Go(t, "done")
  /\ UNCHANGED private

\* The second ticket is written as an unsigned int and read as a size_t: the
\* bytes behind the allocation are printed with it.
ReadTicket ==
  /\ MainAt("create") /\ private.created > private.index
  /\ pc[private.index] = "done"
  /\ \E ticket \in {shared.results[private.index]}
                   \cup (IF private.index = 1 THEN {Garbage} ELSE {}) :
       private' = [private EXCEPT !.tickets = Append(@, ticket), !.index = @ + 1,
                     !.at = IF private.index = 1 THEN "done" ELSE @]
  /\ UNCHANGED <<pc, shared>>

\* A grandchild leaves when the one before is back.
SendGrandchild(created) ==
  /\ MainAt("create") /\ private.created = private.index
  /\ IF created
     THEN Go(private.index, "draw") /\ private' = [private EXCEPT !.created = @ + 1]
     ELSE private' = [private EXCEPT !.at = "done"] /\ UNCHANGED pc
  /\ UNCHANGED shared

LotteryNext ==
  /\ program = "grandma_lottery"
  /\ \/ ReadTicket \/ \E created \in BOOLEAN : SendGrandchild(created)
     \/ \E t \in 0..1 : DrawNumber(t)

Next ==
  /\ private.at \notin {"done", "crashed"}
  /\ PinataNext \/ RaceNext \/ ShotPutNext \/ LotteryNext

-----------------------------------------------------------------------------

\* Every hit is counted by one thread and at most one broke the pinata; the
\* positions given are one to their number, each once.
CountedOnce ==
  /\ program = "birthday_pinata" =>
       /\ SumFunction(private.hit_number) + shared.life_pinata = LifePinata
       /\ Cardinality(private.broke_pinata) <= 1
       /\ \A t \in Threads : pc[t] = "done" => shared.life_pinata = 0
  /\ program = "position_race" =>
       {private.my_position[t] : t \in {u \in Threads : pc[u] \in {"unlock", "done"}}}
         = 1..Cardinality({u \in Threads : pc[u] \in {"unlock", "done"}})

\* The points are those of the board when every athlete was joined; after a
\* creation that failed main may read a board that is still being written.
VerdictOfBoard ==
  program = "team_shot_put" /\ private.at = "done" /\ private.created = Count =>
    private.pairs[1] = Quantify(0..(AthleteCount - 1), LAMBDA i :
                         shared.results[AthleteCount + i] > shared.results[i])

\* What the first grandchild returns is what is read.
TicketKept ==
  program = "grandma_lottery" /\ private.tickets # <<>> =>
    private.tickets[1] = shared.results[0]

=============================================================================
