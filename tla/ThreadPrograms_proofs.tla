------------------------ MODULE ThreadPrograms_proofs ------------------------
(***************************************************************************)
(* That the C programs with threads lose and double nothing, whatever the  *)
(* number of threads and the interleaving.  Each component has its own     *)
(* invariant, stronger than what the runs check: it says besides where the *)
(* threads are that hold something (a unit, a turn, a mutex, a chopstick,  *)
(* a baton), how many they are, and that main has not yet created those    *)
(* behind its index.  A program is told from the others by the variable    *)
(* program, which no step changes, so that LostInv, the conjunction of     *)
(* these invariants, is kept if each component keeps its own.              *)
(***************************************************************************)
EXTENDS ThreadPrograms, CommonLemmas, TLAPS

-----------------------------------------------------------------------------
(* The invariants.                                                         *)

\* The threads that hit the pinata, or run.
Contestants == 0..(ThreadCount - 1)

\* What the pinata and the race have in common: the types of what they hold.
ContestType ==
  /\ shared \in [mutex : Contestants \cup {-1}, life_pinata : Nat, position : Nat,
                 results : [Contestants -> Nat]]
  /\ private \in [at : {"create", "join", "done", "crashed"}, index : Nat, created : Nat,
                  hit_number : [Contestants -> Nat],
                  broke_pinata : SUBSET Contestants,
                  my_position : [Contestants -> Nat],
                  pairs : [0..1 -> Nat], tickets : {<<>>}]

\* Who broke the pinata did it alone, and a thread leaves the lock when nothing
\* is left to hit.
PinataInv ==
  /\ pc \in [Contestants -> {"unstarted", "lock", "hit", "unlock", "done"}]
  /\ ContestType
  /\ SumFunction(private.hit_number) + shared.life_pinata = LifePinata
  /\ private.broke_pinata # {} => shared.life_pinata = 0
  /\ \A t, u \in private.broke_pinata : t = u
  /\ \A t \in Contestants : pc[t] \in {"unlock", "done"} => shared.life_pinata = 0

\* Only the thread that holds the mutex moves, the position counts those that
\* have moved, and the positions given are the first ones.
RaceInv ==
  /\ pc \in [Contestants -> {"unstarted", "lock", "move", "arrive", "unlock", "done"}]
  /\ ContestType
  /\ private.at = "create" =>
       \A t \in Contestants : t >= private.index => pc[t] = "unstarted"
  /\ \A t \in Contestants : pc[t] \in {"move", "arrive", "unlock"} => shared.mutex = t
  /\ shared.position = Cardinality(At(Contestants, pc, {"arrive", "unlock", "done"}))
  /\ {private.my_position[t] : t \in At(Contestants, pc, {"unlock", "done"})}
       = 1..Cardinality(At(Contestants, pc, {"unlock", "done"}))

\* The philosophers that hold the chopstick c.
Holders(c) == {p \in Dining!Philosophers : c \in Dining!Holds(p)}

Seats == 0..(MaxPhilosophers - 1)

DiningType ==
  /\ shared \in [philosopher_num : 1..MaxPhilosophers, max_think : 0..1, max_eat : 0..1,
                 chopsticks : [Seats -> Nat]]
  /\ private \in [at : {"create", "join", "done", "crashed"}, index : Nat,
                  second : [Seats -> BOOLEAN]]

\* A philosopher is created once, and alone at the table never has two.
DiningInv ==
  /\ pc \in [Seats -> Dining!Locations]
  /\ DiningType
  /\ private.at = "create" =>
       \A p \in Dining!Philosophers : p >= private.index => pc[p] = "unstarted"
  /\ \A c \in Dining!Philosophers : shared.chopsticks[c] + Cardinality(Holders(c)) = 1
  /\ shared.philosopher_num = 1 => pc[0] \notin {"eat", "put_left", "put_right"}

BufferType ==
  /\ pc \in [main : {"producer", "consumer", "join", "destroy", "done"},
             produce : {"unstarted", "wait", "write", "post", "done"},
             consume : {"unstarted", "wait", "read", "post", "done"}]
  /\ shared \in [buffer : [0..(BufferCapacity - 1) -> Nat],
                 can_produce : Nat, can_consume : Nat]
  /\ private \in [error : BOOLEAN, count : Nat, taken : Nat, consumed : Seq(Nat)]

\* The semaphores and the turns agree, the values not yet taken are in the
\* buffer, and the ones taken are those made, in order.
BufferInv ==
  /\ BufferType
  /\ pc.main = "producer" => pc.produce = "unstarted"
  /\ pc.main \in {"producer", "consumer"} => pc.consume = "unstarted"
  /\ shared.can_consume + One(pc.produce, {"post"}) + private.taken
       + One(pc.consume, {"read"}) = private.count
  /\ shared.can_produce + One(pc.produce, {"write"}) + private.count
       + One(pc.consume, {"post"}) = private.taken + BufferCapacity
  /\ \A i \in private.taken..(private.count - 1) :
       shared.buffer[i % BufferCapacity] = i + 1
  /\ private.consumed = [i \in 1..private.taken |-> i]

\* The thread of the index-th creation.
Nth(index) ==
  IF program = "relay_race" THEN Relay!StartersFirst(index)
  ELSE Relay!FinishersFirst(index)

RelayType ==
  /\ pc \in [Relay!Runners -> {"unstarted", "missing", "arrive", "barrier", "pass",
                               "receive", "finish", "done"}]
  /\ shared \in [arrived : SUBSET Relay!Starters, batons : [Relay!Starters -> Nat],
                 position : Nat, counter : {0}, open : {FALSE}]
  /\ private \in [at : {"create", "join", "done", "crashed"}, index : Nat,
                  places : [Relay!Runners -> Nat]]

\* Who is at or past the barrier has arrived, who is past it has let everybody
\* through, and a baton on the way was passed by a starter that is done.
StartersInv ==
  \A t \in Relay!Starters :
    /\ pc[t] \notin {"receive", "finish"}
    /\ t \in shared.arrived <=> pc[t] \in {"barrier", "pass", "done"}
    /\ pc[t] \in {"pass", "done"} => shared.arrived = Relay!Starters
    /\ shared.batons[t] > 0 => pc[t] = "done"

FinishersInv ==
  \A t \in Relay!Finishers :
    /\ pc[t] \in {"unstarted", "missing", "receive", "finish", "done"}
    /\ pc[t] \in {"finish", "done"} => pc[t - TeamCount] = "done"

\* The places given are the first ones.
FinishersDone == At(Relay!Finishers, pc, {"done"})

PlacesInv ==
  /\ shared.position = Cardinality(FinishersDone)
  /\ {private.places[t] : t \in FinishersDone} = 1..Cardinality(FinishersDone)

\* The threads main has not come to have not started.
RunnersAhead ==
  private.at = "create" =>
    \A i \in 0..(2 * TeamCount - 1) : i >= private.index => pc[Nth(i)] = "unstarted"

RelayInv == RelayType /\ StartersInv /\ FinishersInv /\ PlacesInv /\ RunnersAhead

\* What main, the threads and the simulation hold.
SharedType ==
  shared \in [next_unit : Nat, consumed_count : Nat, queue : Seq(Unbounded!Units),
              can_consume : Nat, can_produce : Nat, consumed : Seq(Unbounded!Units)]

PrivateType ==
  private \in [at : {"producers", "consumers", "join", "destroy", "done", "crashed"},
               index : Nat, failed : SUBSET {"producers", "consumers"},
               joining : SUBSET Unbounded!Threads,
               unit : [Unbounded!Threads -> Unbounded!Units],
               self : [Unbounded!Threads -> BOOLEAN]]

UnboundedType ==
  /\ pc \in [Unbounded!Threads -> {"unstarted", "start", "claim", "enqueue", "post",
                                   "wait", "dequeue", "done"}]
  /\ SharedType /\ PrivateType

\* Each team does its own work, and who main has not come to has not started.
TeamsInv ==
  /\ \A t \in Unbounded!Producers : pc[t] \notin {"wait", "dequeue"}
  /\ \A t \in Unbounded!Consumers : pc[t] \notin {"enqueue", "post"}
  /\ private.at = "producers" => private.index <= ProducerCount
  /\ private.at \in {"producers", "consumers"} =>
       \A t \in Unbounded!Threads : t >= private.index => pc[t] = "unstarted"

\* The producers that hold the unit u, those whose unit the semaphore does not
\* count yet, and the consumers that have or wait for a unit that it counts no more.
Holding(u) == {t \in Unbounded!Producers : pc[t] = "enqueue" /\ private.unit[t] = u}
Posting == At(Unbounded!Producers, pc, {"post"})
Dequeuing == At(Unbounded!Consumers, pc, {"dequeue"})
Taking == At(Unbounded!Consumers, pc, {"wait", "dequeue"})

\* In how many places the unit u is.
UnitPlaces(u) ==
  Cardinality(Positions(u, shared.queue)) + Cardinality(Positions(u, shared.consumed))
    + Cardinality(Holding(u))

UnitsInv ==
  /\ shared.next_unit <= UnitCount
  /\ program = "prod_cons_unbound_produce2" => shared.next_unit = 0
  /\ \A u \in Unbounded!Units :
       UnitPlaces(u) = IF u \in 1..shared.next_unit THEN 1 ELSE 0
  /\ shared.can_consume + Cardinality(Dequeuing) + Cardinality(Posting)
       = Len(shared.queue)

\* The consumptions claimed are those made and those under way.
TakenInv ==
  /\ shared.consumed_count <= UnitCount
  /\ shared.consumed_count = Len(shared.consumed) + Cardinality(Taking)
  /\ \A t \in Unbounded!Consumers : pc[t] = "done" => shared.consumed_count = UnitCount

\* The threads main has joined are done.
JoinInv ==
  /\ private.at \in {"destroy", "done"} /\ private.failed = {} =>
       \A t \in Unbounded!Threads \ private.joining : pc[t] = "done"
  /\ private.at = "done" => private.joining = {}

UnboundedInv == UnboundedType /\ TeamsInv /\ UnitsInv /\ TakenInv /\ JoinInv

LostInv ==
  /\ program \in UnboundedPrograms => UnboundedInv
  /\ program \in BoundedPrograms => BufferInv
  /\ program = "birthday_pinata" => PinataInv
  /\ program = "position_race" => RaceInv
  /\ program \in {"relay_race", "relay_race_order_effect"} => RelayInv
  /\ program = "dining_philosophers" => DiningInv

-----------------------------------------------------------------------------
(* Sets that differ by one element, and intervals.                         *)

\* 1 if the set A has the element t.
Has(A, t) == IF t \in A THEN 1 ELSE 0

\* What adding or removing one element does to the size of a set.
LEMMA OneElement ==
  ASSUME NEW A, IsFiniteSet(A), NEW B, NEW t, A \ {t} = B \ {t}
  PROVE  /\ IsFiniteSet(B) /\ Cardinality(A) \in Nat /\ Cardinality(B) \in Nat
         /\ Cardinality(B) = Cardinality(A) + Has(B, t) - Has(A, t)
<1>1. Cardinality(A) \in Nat
  BY FS_CardinalityType
<1>2. CASE t \in A <=> t \in B
  <2>1. A = B
    BY <1>2
  <2> QED
    BY <1>1, <2>1 DEF Has
<1>3. CASE t \in A /\ t \notin B
  <2>1. B = A \ {t}
    BY <1>3
  <2>2. IsFiniteSet(A \ {t}) /\ Cardinality(A \ {t}) = Cardinality(A) - 1
    BY <1>3, FS_RemoveElement
  <2>3. Cardinality(B) \in Nat
    BY <2>1, <2>2, FS_CardinalityType
  <2> QED
    BY <1>1, <1>3, <2>1, <2>2, <2>3 DEF Has
<1>4. CASE t \notin A /\ t \in B
  <2>1. B = A \cup {t}
    BY <1>4
  <2>2. IsFiniteSet(A \cup {t}) /\ Cardinality(A \cup {t}) = Cardinality(A) + 1
    BY <1>4, FS_AddElement
  <2> QED
    BY <1>1, <1>4, <2>1, <2>2 DEF Has
<1> QED
  BY <1>2, <1>3, <1>4

\* An interval that begins at 0 has as many elements as its length.
LEMMA FirstNumbers ==
  ASSUME NEW n \in Nat
  PROVE  IsFiniteSet(0..(n - 1)) /\ Cardinality(0..(n - 1)) = n
<1> DEFINE m == n - 1
<1>1. 0 \in Int /\ m \in Int /\ (0 > m <=> n = 0) /\ m - 0 + 1 = n
  OBVIOUS
<1> HIDE DEF m
<1>2. IsFiniteSet(0..m) /\ Cardinality(0..m) = IF 0 > m THEN 0 ELSE m - 0 + 1
  BY <1>1, FS_Interval
<1> QED
  BY <1>1, <1>2 DEF m

\* The members of a finite set that are at some locations are finitely many.
LEMMA AtType ==
  ASSUME NEW S, IsFiniteSet(S), NEW f, NEW L
  PROVE  IsFiniteSet(At(S, f, L)) /\ Cardinality(At(S, f, L)) \in Nat
<1>1. At(S, f, L) \in SUBSET S
  BY DEF At
<1> QED
  BY <1>1, FS_Subset, FS_CardinalityType

-----------------------------------------------------------------------------
(* The pinata                                                              *)

\* The arguments of both programs.
LEMMA CountersAssumed == ThreadCount \in Nat /\ LifePinata \in Nat
  BY ProgramsAssumption DEF Counters!CountersAssumption

\* The threads of both programs.
LEMMA ContestThreads ==
  ASSUME program \in {"birthday_pinata", "position_race"}
  PROVE  /\ Counters!Threads = Contestants /\ Counters!Count = ThreadCount
         /\ IsFiniteSet(Contestants) /\ -1 \notin Contestants
<1>1. Counters!Threads = Contestants
  BY DEF Counters!Threads, Contestants
<1>2. IsFiniteSet(Contestants) /\ Cardinality(Contestants) = ThreadCount
  BY CountersAssumed, FirstNumbers DEF Contestants
<1> QED
  BY <1>1, <1>2 DEF Counters!Count, Counters!Cardinality, Cardinality, Contestants

\* No thread has hit the pinata.
LEMMA PinataInitially ==
  ASSUME Counters!InitPinata
  PROVE  PinataInv
<1>1. program = "birthday_pinata" /\ Counters!Start
  BY DEF Counters!InitPinata
<1>2. Counters!Threads = Contestants /\ IsFiniteSet(Contestants)
  BY <1>1, ContestThreads
<1>3. /\ pc = [t \in Contestants |-> "unstarted"]
      /\ shared = [mutex |-> -1, life_pinata |-> LifePinata, position |-> 0,
                   results |-> [t \in Contestants |-> 0]]
      /\ private = [at |-> "create", index |-> 0, created |-> 0,
                    hit_number |-> [t \in Contestants |-> 0], broke_pinata |-> {},
                    my_position |-> [t \in Contestants |-> 0],
                    pairs |-> [team \in 0..1 |-> 0], tickets |-> <<>>]
  BY <1>1, <1>2 DEF Counters!Start, Counters!Nobody
<1>4. ContestType
  BY <1>3, CountersAssumed DEF ContestType
<1>5. SumFunction(private.hit_number) = 0
  <2>1. private.hit_number \in [Contestants -> Nat]
        /\ \A t \in Contestants : private.hit_number[t] = 0
    BY <1>3
  <2> QED
    BY <1>2, <2>1, SumType
<1> QED
  BY <1>3, <1>4, <1>5, CountersAssumed DEF PinataInv

\* What main does leaves the threads' records alone.
RecordsKept ==
  /\ ContestType' /\ UNCHANGED shared
  /\ private'.hit_number = private.hit_number
  /\ private'.broke_pinata = private.broke_pinata
  /\ private'.my_position = private.my_position

\* Main goes on to join the threads, and joins them.
LEMMA ContestMain ==
  ASSUME ContestType,
         Counters!CreateThreadFails("join") \/ Counters!AllCreated \/ Counters!Join("done")
  PROVE  RecordsKept /\ UNCHANGED pc /\ private'.at # "create"
<1>1. private.index \in Nat /\ private.index + 1 \in Nat
  BY DEF ContestType
<1>2. ASSUME NEW at \in {"create", "join", "done", "crashed"},
             private' = [private EXCEPT !.at = at, !.index = 0], UNCHANGED shared
      PROVE  RecordsKept /\ private'.at = at
  BY <1>2 DEF ContestType, RecordsKept, Contestants
<1>3. CASE Counters!CreateThreadFails("join") \/ Counters!AllCreated
  BY <1>2, <1>3 DEF Counters!CreateThreadFails, Counters!AllCreated
<1>4. CASE Counters!Join("done")
  <2>1. /\ UNCHANGED <<pc, shared>> /\ private.at = "join"
        /\ \/ private' = [private EXCEPT !.at = "done", !.index = 0]
           \/ private' = [private EXCEPT !.index = @ + 1]
           \/ private' = [private EXCEPT !.at = "crashed"]
    BY <1>4 DEF Counters!Join, Counters!MainAt
  <2>2. CASE private' = [private EXCEPT !.at = "done", !.index = 0]
    BY <1>2, <2>1, <2>2
  <2>3. CASE private' = [private EXCEPT !.index = @ + 1]
    BY <1>1, <2>1, <2>3 DEF ContestType, RecordsKept, Contestants
  <2>4. CASE private' = [private EXCEPT !.at = "crashed"]
    BY <2>1, <2>4 DEF ContestType, RecordsKept, Contestants
  <2> QED
    BY <2>1, <2>2, <2>3, <2>4
<1> QED
  BY <1>3, <1>4

\* Main creates the next thread.
LEMMA ContestCreate ==
  ASSUME ContestType, program \in {"birthday_pinata", "position_race"},
         NEW first, Counters!CreateThread(first)
  PROVE  /\ RecordsKept
         /\ private.at = "create" /\ private.index \in Contestants
         /\ private'.index = private.index + 1
         /\ pc' = [pc EXCEPT ![private.index] = first]
<1>1. Counters!Count = ThreadCount /\ ThreadCount \in Nat
  BY ContestThreads, CountersAssumed
<1>2. /\ private.at = "create" /\ private.index < ThreadCount
      /\ private' = [private EXCEPT !.index = @ + 1, !.created = @ + 1]
      /\ pc' = [pc EXCEPT ![private.index] = first]
      /\ UNCHANGED shared
  BY <1>1 DEF Counters!CreateThread, Counters!MainAt, Counters!Go
<1>3. private.index \in Nat /\ private.index + 1 \in Nat /\ private.created + 1 \in Nat
  BY DEF ContestType
<1>4. RecordsKept /\ private'.index = private.index + 1
  BY <1>2, <1>3 DEF ContestType, RecordsKept, Contestants
<1> QED
  BY <1>1, <1>2, <1>3, <1>4 DEF Contestants

\* A hit adds one to what its thread has counted and takes one from the life.
LEMMA HitCounted ==
  ASSUME PinataInv, NEW t \in Contestants, Counters!HitPinata(t), program = "birthday_pinata"
  PROVE  PinataInv'
<1>1. IsFiniteSet(Contestants)
  BY ContestThreads
<1>0. ContestType
  BY DEF PinataInv
<1>2. shared.life_pinata \in Nat /\ private.hit_number \in [Contestants -> Nat]
  BY <1>0 DEF ContestType
<1>3. CASE shared.life_pinata > 0
  <2>1. /\ shared' = [shared EXCEPT !.life_pinata = @ - 1]
        /\ private' = [private EXCEPT !.hit_number[t] = @ + 1,
             !.broke_pinata = IF shared.life_pinata = 1 THEN @ \cup {t} ELSE @]
        /\ UNCHANGED pc
    BY <1>3 DEF Counters!HitPinata
  <2> DEFINE hits == [private.hit_number EXCEPT ![t] = @ + 1]
  <2>2. /\ hits \in [Contestants -> Nat] /\ hits[t] = private.hit_number[t] + 1
        /\ Differ(Contestants, Nat, private.hit_number, hits, t)
    BY <1>1, <1>2 DEF Differ
  <2>3. shared'.life_pinata = shared.life_pinata - 1 /\ private'.hit_number = hits
    BY <1>0, <2>1 DEF ContestType
  <2>4. private'.broke_pinata = IF shared.life_pinata = 1 THEN {t} ELSE {}
    <3>1. private.broke_pinata = {}
      BY <1>2, <1>3 DEF PinataInv
    <3>2. private'.broke_pinata = IF shared.life_pinata = 1
                                  THEN private.broke_pinata \cup {t}
                                  ELSE private.broke_pinata
      BY <1>0, <2>1 DEF ContestType
    <3> QED
      BY <3>1, <3>2
  <2>5. ContestType'
    <3>1. shared' \in [mutex : Contestants \cup {-1}, life_pinata : Nat, position : Nat,
                       results : [Contestants -> Nat]]
      <4>1. shared.life_pinata - 1 \in Nat
        BY <1>2, <1>3
      <4> QED
        BY <1>0, <2>1, <4>1 DEF ContestType
    <3>2. private' \in [at : {"create", "join", "done", "crashed"}, index : Nat,
                        created : Nat, hit_number : [Contestants -> Nat],
                        broke_pinata : SUBSET Contestants,
                        my_position : [Contestants -> Nat],
                        pairs : [0..1 -> Nat], tickets : {<<>>}]
      <4>1. private' = [private EXCEPT !.hit_number = hits,
                          !.broke_pinata = IF shared.life_pinata = 1 THEN @ \cup {t} ELSE @]
        BY <2>1
      <4> HIDE DEF hits
      <4> QED
        BY <1>0, <2>2, <4>1 DEF ContestType
    <3> QED
      BY <3>1, <3>2 DEF ContestType, Contestants
  <2>6. SumFunction(hits) = SumFunction(private.hit_number) + 1
        /\ SumFunction(private.hit_number) \in Nat
    <3>1. /\ SumFunction(hits) = SumFunction(private.hit_number)
                                   + (hits[t] - private.hit_number[t])
          /\ SumFunction(private.hit_number) \in Nat /\ private.hit_number[t] \in Nat
      <4> HIDE DEF hits
      <4> QED
        BY <2>2, SumChange
    <3> QED
      BY <2>2, <3>1
  <2>7. SumFunction(private'.hit_number) + shared'.life_pinata = LifePinata
    BY <1>2, <2>3, <2>6, CountersAssumed DEF PinataInv
  <2>8. \A u \in Contestants : pc[u] \notin {"unlock", "done"}
    BY <1>3 DEF PinataInv
  <2> QED
    BY <1>2, <2>1, <2>3, <2>4, <2>5, <2>7, <2>8 DEF PinataInv, Contestants
<1>4. CASE ~(shared.life_pinata > 0)
  <2>1. shared.life_pinata = 0
    BY <1>2, <1>4
  <2>2. pc' = [pc EXCEPT ![t] = "unlock"] /\ UNCHANGED <<shared, private>>
    BY <1>4 DEF Counters!HitPinata, Counters!Go
  <2> QED
    BY <2>1, <2>2 DEF PinataInv, ContestType, Contestants
<1> QED
  BY <1>3, <1>4

\* Every step keeps what is said of the pinata.
LEMMA PinataKept ==
  ASSUME PinataInv, program = "birthday_pinata", Counters!Next
  PROVE  PinataInv'
<1>1. Counters!PinataNext
  BY DEF Counters!Next, Counters!RaceNext, Counters!ShotPutNext, Counters!LotteryNext
<1>2. ContestType
  BY DEF PinataInv
<1>3. ASSUME RecordsKept,
             pc' \in [Contestants -> {"unstarted", "lock", "hit", "unlock", "done"}],
             \A u \in Contestants : pc'[u] \in {"unlock", "done"} => pc[u] \in {"unlock", "done"}
      PROVE  PinataInv'
  BY <1>3 DEF PinataInv, RecordsKept, Contestants
<1>4. CASE Counters!CreateThread("lock")
  <2>1. RecordsKept /\ pc' = [pc EXCEPT ![private.index] = "lock"]
    BY <1>2, <1>4, ContestCreate
  <2>2. /\ pc' \in [Contestants -> {"unstarted", "lock", "hit", "unlock", "done"}]
        /\ \A u \in Contestants : pc'[u] \in {"unlock", "done"} => pc[u] \in {"unlock", "done"}
    BY <2>1 DEF PinataInv
  <2> QED
    BY <1>3, <2>1, <2>2
<1>5. CASE Counters!CreateThreadFails("join") \/ Counters!AllCreated \/ Counters!Join("done")
  <2>1. RecordsKept /\ UNCHANGED pc
    BY <1>2, <1>5, ContestMain
  <2> QED
    BY <1>3, <2>1 DEF PinataInv
<1>6. ASSUME NEW t \in Contestants,
             Counters!Lock(t, "hit") \/ Counters!HitPinata(t) \/ Counters!Unlock(t)
      PROVE  PinataInv'
  <2>1. CASE Counters!HitPinata(t)
    BY <2>1, HitCounted
  <2>2. CASE Counters!Lock(t, "hit") \/ Counters!Unlock(t)
    <3>1. /\ UNCHANGED private
          /\ \/ shared' = [shared EXCEPT !.mutex = t] /\ pc' = [pc EXCEPT ![t] = "hit"]
             \/ /\ shared' = [shared EXCEPT !.mutex = -1] /\ pc' = [pc EXCEPT ![t] = "done"]
                /\ pc[t] = "unlock"
      BY <2>2 DEF Counters!Lock, Counters!Unlock, Counters!Go, Counters!Nobody
    <3>2. ContestType' /\ shared'.life_pinata = shared.life_pinata
      BY <1>2, <3>1 DEF ContestType, Contestants
    <3>3. /\ pc' \in [Contestants -> {"unstarted", "lock", "hit", "unlock", "done"}]
          /\ \A u \in Contestants : pc'[u] \in {"unlock", "done"} => pc[u] \in {"unlock", "done"}
      BY <3>1 DEF PinataInv
    <3> QED
      BY <3>1, <3>2, <3>3 DEF PinataInv, Contestants
  <2> QED
    BY <1>6, <2>1, <2>2
<1>7. Counters!Threads = Contestants
  BY ContestThreads
<1> QED
  BY <1>1, <1>4, <1>5, <1>6, <1>7 DEF Counters!PinataNext

-----------------------------------------------------------------------------
(* The race                                                                *)

\* The threads that have their position, and those that have moved.
Placed == At(Contestants, pc, {"unlock", "done"})
Moved == At(Contestants, pc, {"arrive", "unlock", "done"})

\* The sets of threads of the race are finite.
LEMMA ContestSets ==
  ASSUME program = "position_race"
  PROVE  /\ Counters!Threads = Contestants /\ IsFiniteSet(Contestants)
         /\ IsFiniteSet(Placed) /\ Cardinality(Placed) \in Nat
         /\ IsFiniteSet(Moved) /\ Cardinality(Moved) \in Nat
<1>1. Counters!Threads = Contestants /\ IsFiniteSet(Contestants)
  BY ContestThreads
<1> QED
  BY <1>1, AtType DEF Placed, Moved

\* No thread has moved.
LEMMA RaceInitially ==
  ASSUME Counters!InitRace
  PROVE  RaceInv
<1>1. program = "position_race" /\ Counters!Start
  BY DEF Counters!InitRace
<1>2. Counters!Threads = Contestants /\ IsFiniteSet(Contestants)
  BY <1>1, ContestThreads
<1>3. /\ pc = [t \in Contestants |-> "unstarted"]
      /\ shared = [mutex |-> -1, life_pinata |-> LifePinata, position |-> 0,
                   results |-> [t \in Contestants |-> 0]]
      /\ private = [at |-> "create", index |-> 0, created |-> 0,
                    hit_number |-> [t \in Contestants |-> 0], broke_pinata |-> {},
                    my_position |-> [t \in Contestants |-> 0],
                    pairs |-> [team \in 0..1 |-> 0], tickets |-> <<>>]
  BY <1>1, <1>2 DEF Counters!Start, Counters!Nobody
<1>4. ContestType
  BY <1>3, CountersAssumed DEF ContestType
<1>5. Placed = {} /\ Moved = {}
  BY <1>3 DEF Placed, Moved, At
<1>6. Cardinality(Placed) = 0 /\ Cardinality(Moved) = 0
  BY <1>5, FS_EmptySet
<1>7. {private.my_position[t] : t \in Placed} = 1..Cardinality(Placed)
  BY <1>5, <1>6
<1>8. \A t \in Contestants : pc[t] = "unstarted"
  BY <1>3
<1>9. pc \in [Contestants -> {"unstarted", "lock", "move", "arrive", "unlock", "done"}]
  BY <1>3
<1> QED
  BY <1>3, <1>4, <1>6, <1>7, <1>8, <1>9 DEF RaceInv, Placed, Moved

\* A step that moves no thread into the position or out of it.
LEMMA PlacesKept ==
  ASSUME RaceInv, program = "position_race", ContestType',
         pc' \in [Contestants -> {"unstarted", "lock", "move", "arrive", "unlock", "done"}],
         private'.at = "create" =>
           \A u \in Contestants : u >= private'.index => pc'[u] = "unstarted",
         \A u \in Contestants : pc'[u] \in {"move", "arrive", "unlock"} => shared'.mutex = u,
         \A u \in Contestants : pc'[u] \in {"unlock", "done"} <=> pc[u] \in {"unlock", "done"},
         shared'.position = Cardinality(Moved'),
         private'.my_position = private.my_position
  PROVE  RaceInv'
<1>1. Placed' = Placed
  BY DEF Placed, At, Contestants
<1>2. {private'.my_position[t] : t \in Placed'} = 1..Cardinality(Placed')
  BY <1>1 DEF RaceInv, Placed
<1> QED
  BY <1>2 DEF RaceInv, Placed, Moved, Contestants

\* Every step keeps what is said of the race.
LEMMA RaceKept ==
  ASSUME RaceInv, program = "position_race", program' = program, Counters!Next
  PROVE  RaceInv'
<1>1. Counters!RaceNext
  BY DEF Counters!Next, Counters!PinataNext, Counters!ShotPutNext, Counters!LotteryNext
<1>2. /\ ContestType /\ shared.position = Cardinality(Moved)
      /\ \A t \in Contestants : pc[t] \in {"move", "arrive", "unlock"} => shared.mutex = t
      /\ pc \in [Contestants -> {"unstarted", "lock", "move", "arrive", "unlock", "done"}]
      /\ -1 \notin Contestants
  BY DEF RaceInv, Moved, Contestants
<1>3. /\ Counters!Threads = Contestants /\ IsFiniteSet(Contestants)
      /\ IsFiniteSet(Placed) /\ Cardinality(Placed) \in Nat
      /\ IsFiniteSet(Moved) /\ Cardinality(Moved) \in Nat
  BY ContestSets
<1>4. CASE Counters!CreateThread("lock")
  <2>1. /\ RecordsKept /\ private.at = "create" /\ private.index \in Contestants
        /\ private'.index = private.index + 1
        /\ pc' = [pc EXCEPT ![private.index] = "lock"]
    BY <1>2, <1>4, ContestCreate
  <2>2. \A u \in Contestants : u >= private.index => pc[u] = "unstarted"
    BY <2>1 DEF RaceInv
  <2>3. pc[private.index] = "unstarted" /\ private.index \in Nat
    BY <2>1, <2>2 DEF Contestants
  <2>4. /\ pc' \in [Contestants -> {"unstarted", "lock", "move", "arrive", "unlock", "done"}]
        /\ \A u \in Contestants : u >= private.index + 1 => pc'[u] = "unstarted"
        /\ \A u \in Contestants : pc'[u] = pc[u] \/ (pc'[u] = "lock" /\ pc[u] = "unstarted")
    <3>1. \A u \in Contestants : u >= private.index + 1 => u # private.index /\ u >= private.index
      BY <2>1, <2>3 DEF Contestants
    <3> QED
      BY <1>2, <2>1, <2>2, <2>3, <3>1
  <2>5. Moved' = Moved
    BY <2>4 DEF Moved, At, Contestants
  <2> QED
    BY <1>2, <2>1, <2>4, <2>5, PlacesKept DEF RecordsKept
<1>5. CASE Counters!CreateThreadFails("join") \/ Counters!AllCreated \/ Counters!Join("done")
  <2>1. RecordsKept /\ UNCHANGED pc /\ private'.at # "create"
    BY <1>2, <1>5, ContestMain
  <2>2. Moved' = Moved
    BY <2>1 DEF Moved, At, Contestants
  <2> QED
    BY <1>2, <2>1, <2>2, PlacesKept DEF RecordsKept
<1>6. ASSUME NEW t \in Contestants, Counters!Lock(t, "move")
      PROVE  RaceInv'
  <2>1. /\ pc[t] = "lock" /\ shared.mutex = -1 /\ UNCHANGED private
        /\ shared' = [shared EXCEPT !.mutex = t] /\ pc' = [pc EXCEPT ![t] = "move"]
    BY <1>6 DEF Counters!Lock, Counters!Go, Counters!Nobody
  <2>2. ContestType' /\ shared'.mutex = t /\ shared'.position = shared.position
    BY <1>2, <2>1 DEF ContestType, Contestants
  <2>3. \A u \in Contestants : pc[u] \notin {"move", "arrive", "unlock"}
    BY <1>2, <2>1
  <2>4. /\ pc' \in [Contestants -> {"unstarted", "lock", "move", "arrive", "unlock", "done"}]
        /\ \A u \in Contestants : pc'[u] = pc[u] \/ (u = t /\ pc'[u] = "move" /\ pc[u] = "lock")
    BY <1>2, <2>1
  <2>5. Moved' = Moved
    BY <2>4 DEF Moved, At, Contestants
  <2>6. private'.at = "create" =>
          \A u \in Contestants : u >= private'.index => pc'[u] = "unstarted"
    BY <2>1, <2>4 DEF RaceInv
  <2>7. \A u \in Contestants : pc'[u] \in {"move", "arrive", "unlock"} => shared'.mutex = u
    BY <2>2, <2>3, <2>4
  <2>8. \A u \in Contestants : pc'[u] \in {"unlock", "done"} <=> pc[u] \in {"unlock", "done"}
    BY <2>4
  <2> QED
    BY <1>2, <2>1, <2>2, <2>4, <2>5, <2>6, <2>7, <2>8, PlacesKept
<1>7. ASSUME NEW t \in Contestants, Counters!Move(t)
      PROVE  RaceInv'
  <2>1. /\ pc[t] = "move" /\ UNCHANGED private
        /\ shared' = [shared EXCEPT !.position = @ + 1] /\ pc' = [pc EXCEPT ![t] = "arrive"]
    BY <1>7 DEF Counters!Move, Counters!Go
  <2>2. /\ ContestType' /\ shared'.mutex = shared.mutex
        /\ shared'.position = shared.position + 1
    <3>1. shared.position + 1 \in Nat
      BY <1>2 DEF ContestType
    <3> QED
      BY <1>2, <2>1, <3>1 DEF ContestType, Contestants
  <2>3. /\ pc' \in [Contestants -> {"unstarted", "lock", "move", "arrive", "unlock", "done"}]
        /\ \A u \in Contestants \ {t} : pc'[u] = pc[u]
        /\ pc'[t] = "arrive"
    BY <1>2, <2>1
  <2>4. Moved' = Moved \cup {t} /\ t \notin Moved
    BY <2>1, <2>3 DEF Moved, At, Contestants
  <2>5. Cardinality(Moved') = Cardinality(Moved) + 1
    BY <1>3, <2>4, FS_AddElement
  <2>6. private'.at = "create" =>
          \A u \in Contestants : u >= private'.index => pc'[u] = "unstarted"
    BY <2>1, <2>3 DEF RaceInv
  <2>7. \A u \in Contestants : pc'[u] \in {"move", "arrive", "unlock"} => shared'.mutex = u
    BY <1>2, <2>1, <2>2, <2>3
  <2>8. \A u \in Contestants : pc'[u] \in {"unlock", "done"} <=> pc[u] \in {"unlock", "done"}
    BY <2>1, <2>3
  <2> QED
    BY <1>2, <2>1, <2>2, <2>3, <2>5, <2>6, <2>7, <2>8, PlacesKept
<1>8. ASSUME NEW t \in Contestants, Counters!Arrive(t)
      PROVE  RaceInv'
  <2>1. /\ pc[t] = "arrive" /\ UNCHANGED shared
        /\ private' = [private EXCEPT !.my_position[t] = shared.position]
        /\ pc' = [pc EXCEPT ![t] = "unlock"]
    BY <1>8 DEF Counters!Arrive, Counters!Go
  <2> DEFINE given == [private.my_position EXCEPT ![t] = shared.position]
             n == Cardinality(Placed)
  <2>2. ContestType' /\ private'.my_position = given
        /\ private'.at = private.at /\ private'.index = private.index
    <3>1. given \in [Contestants -> Nat] /\ private' = [private EXCEPT !.my_position = given]
      BY <1>2, <2>1 DEF ContestType
    <3> HIDE DEF given
    <3> QED
      BY <1>2, <2>1, <3>1 DEF ContestType, Contestants
  <2>3. /\ pc' \in [Contestants -> {"unstarted", "lock", "move", "arrive", "unlock", "done"}]
        /\ \A u \in Contestants \ {t} : pc'[u] = pc[u]
        /\ pc'[t] = "unlock"
    BY <1>2, <2>1
  <2>4. \A u \in Contestants : pc[u] = "arrive" => u = t
    BY <1>2, <2>1
  <2>5. /\ Moved = Placed \cup {t} /\ t \notin Placed
        /\ Placed' = Placed \cup {t} /\ Moved' = Moved
    BY <2>1, <2>3, <2>4 DEF Moved, Placed, At, Contestants
  <2>6. Cardinality(Moved) = n + 1 /\ Cardinality(Placed') = n + 1
    BY <1>3, <2>5, FS_AddElement
  <2>7. shared.position = n + 1 /\ n \in Nat
    BY <1>2, <1>3, <2>6
  <2>8. {private.my_position[u] : u \in Placed} = 1..n
    BY DEF RaceInv, Placed
  <2>9. {given[u] : u \in Placed'} = 1..(n + 1)
    <3>1. given[t] = n + 1 /\ \A u \in Placed : given[u] = private.my_position[u]
      BY <1>2, <2>5, <2>7 DEF ContestType, Placed, At
    <3>2. 1..(n + 1) = 1..n \cup {n + 1}
      BY <2>7
    <3> HIDE DEF given, n
    <3> QED
      BY <2>5, <2>8, <3>1, <3>2
  <2>10. private'.at = "create" =>
          \A u \in Contestants : u >= private'.index => pc'[u] = "unstarted"
    BY <2>1, <2>2, <2>3 DEF RaceInv
  <2>11. \A u \in Contestants : pc'[u] \in {"move", "arrive", "unlock"} => shared'.mutex = u
    BY <1>2, <2>1, <2>3
  <2>12. shared'.position = Cardinality(Moved')
    BY <1>2, <2>1, <2>5
  <2>13. {private'.my_position[u] : u \in Placed'} = 1..Cardinality(Placed')
    BY <2>2, <2>6, <2>9
  <2> HIDE DEF given, n
  <2> QED
    BY <2>2, <2>3, <2>10, <2>11, <2>12, <2>13 DEF RaceInv, Placed, Moved, Contestants
<1>9. ASSUME NEW t \in Contestants, Counters!Unlock(t)
      PROVE  RaceInv'
  <2>1. /\ pc[t] = "unlock" /\ UNCHANGED private
        /\ shared' = [shared EXCEPT !.mutex = -1] /\ pc' = [pc EXCEPT ![t] = "done"]
    BY <1>9 DEF Counters!Unlock, Counters!Go, Counters!Nobody
  <2>2. ContestType' /\ shared'.position = shared.position
    BY <1>2, <2>1 DEF ContestType, Contestants
  <2>3. /\ pc' \in [Contestants -> {"unstarted", "lock", "move", "arrive", "unlock", "done"}]
        /\ \A u \in Contestants \ {t} : pc'[u] = pc[u]
        /\ pc'[t] = "done"
    BY <1>2, <2>1
  <2>4. \A u \in Contestants \ {t} : pc[u] \notin {"move", "arrive", "unlock"}
    BY <1>2, <2>1
  <2>5. Moved' = Moved
    BY <2>1, <2>3 DEF Moved, At, Contestants
  <2>6. private'.at = "create" =>
          \A u \in Contestants : u >= private'.index => pc'[u] = "unstarted"
    BY <2>1, <2>3 DEF RaceInv
  <2>7. \A u \in Contestants : pc'[u] \in {"move", "arrive", "unlock"} => shared'.mutex = u
    BY <2>3, <2>4
  <2>8. \A u \in Contestants : pc'[u] \in {"unlock", "done"} <=> pc[u] \in {"unlock", "done"}
    BY <2>1, <2>3
  <2> QED
    BY <1>2, <2>1, <2>2, <2>3, <2>5, <2>6, <2>7, <2>8, PlacesKept
<1> QED
  BY <1>1, <1>3, <1>4, <1>5, <1>6, <1>7, <1>8, <1>9 DEF Counters!RaceNext

\* What is proved of the pinata and of the race is what the runs check.
LEMMA CountersCounted ==
  ASSUME program = "birthday_pinata" => PinataInv, program = "position_race" => RaceInv
  PROVE  Counters!CountedOnce
<1>1. ASSUME program = "birthday_pinata"
      PROVE  /\ Counters!SumFunction(private.hit_number) + shared.life_pinata = LifePinata
             /\ Counters!Cardinality(private.broke_pinata) <= 1
             /\ \A t \in Counters!Threads : pc[t] = "done" => shared.life_pinata = 0
  <2>1. PinataInv /\ Counters!Threads = Contestants
    BY <1>1, ContestThreads
  <2>2. SumFunction(private.hit_number) + shared.life_pinata = LifePinata
    BY <2>1 DEF PinataInv
  <2>3. Cardinality(private.broke_pinata) <= 1
    <3>1. CASE private.broke_pinata = {}
      BY <3>1, FS_EmptySet
    <3>2. CASE private.broke_pinata # {}
      <4>1. PICK t : private.broke_pinata = {t}
        BY <2>1, <3>2 DEF PinataInv
      <4>2. Cardinality({t}) = 1
        BY FS_Singleton, Zenon
      <4> QED
        BY <4>1, <4>2
    <3> QED
      BY <3>1, <3>2
  <2>4. Counters!SumFunction(private.hit_number) = SumFunction(private.hit_number)
    BY DEF Counters!SumFunction, SumFunction, Counters!SumFunctionOnSet, SumFunctionOnSet,
           Counters!FoldFunctionOnSet, FoldFunctionOnSet,
           Counters!MapThenFoldSet, MapThenFoldSet
  <2>5. Counters!Cardinality(private.broke_pinata) = Cardinality(private.broke_pinata)
    BY DEF Counters!Cardinality, Cardinality
  <2> QED
    BY <2>1, <2>2, <2>3, <2>4, <2>5 DEF PinataInv
<1>2. ASSUME program = "position_race"
      PROVE  {private.my_position[t] :
                t \in {u \in Counters!Threads : pc[u] \in {"unlock", "done"}}}
               = 1..Counters!Cardinality({u \in Counters!Threads : pc[u] \in {"unlock", "done"}})
  <2>1. RaceInv /\ Counters!Threads = Contestants
    BY <1>2, ContestThreads
  <2>2. {private.my_position[t] : t \in Placed} = 1..Cardinality(Placed)
    BY <2>1 DEF RaceInv, Placed
  <2>3. Counters!Cardinality(Placed) = Cardinality(Placed)
    BY DEF Counters!Cardinality, Cardinality
  <2>4. Placed = {u \in Counters!Threads : pc[u] \in {"unlock", "done"}}
    BY <2>1 DEF Placed, At
  <2> QED
    BY <2>2, <2>3, <2>4
<1> QED
  BY <1>1, <1>2 DEF Counters!CountedOnce

-----------------------------------------------------------------------------
(* The philosophers                                                        *)

\* What a philosopher holds at a location, by whether one hand is full.
HoldsAt(at, second, right, left) ==
  IF at = "right" THEN IF second THEN {left} ELSE {}
  ELSE IF at = "left" THEN IF second THEN {right} ELSE {}
  ELSE IF at \in {"eat", "put_left"} THEN {right, left}
  ELSE IF at = "put_right" THEN {right} ELSE {}

\* The table, and the chopstick to the left of a philosopher.
LEMMA Table ==
  ASSUME DiningType
  PROVE  /\ Dining!Philosophers = 0..(shared.philosopher_num - 1)
         /\ Dining!Philosophers \subseteq Seats /\ IsFiniteSet(Dining!Philosophers)
         /\ 0 \in Dining!Philosophers
         /\ \A p \in Dining!Philosophers :
              /\ Dining!Left(p) \in Dining!Philosophers
              /\ Dining!Left(p) = p <=> shared.philosopher_num = 1
         /\ shared.philosopher_num = 1 => Dining!Philosophers = {0}
<1>1. MaxPhilosophers \in Nat \ {0}
  BY ProgramsAssumption DEF Dining!PhilosophersAssumption
<1>2. PICK n \in 1..MaxPhilosophers : n = shared.philosopher_num
  BY DEF DiningType
<1>3. Dining!Philosophers = 0..(n - 1)
  BY <1>2 DEF Dining!Philosophers
<1>4. n \in Nat /\ n <= MaxPhilosophers /\ n >= 1
  BY <1>1, <1>2
<1>5. IsFiniteSet(0..(n - 1))
  BY <1>4, FirstNumbers
<1>6. 0..(n - 1) \subseteq Seats /\ 0 \in 0..(n - 1)
  BY <1>1, <1>4 DEF Seats
<1>7. ASSUME NEW p \in 0..(n - 1)
      PROVE  /\ (p + 1) % n \in 0..(n - 1)
             /\ (p + 1) % n = p <=> n = 1
  <2>1. CASE p + 1 < n
    <3>1. (p + 1) % n = p + 1
      BY <1>4, <2>1
    <3> QED
      BY <1>4, <2>1, <3>1
  <2>2. CASE p + 1 = n
    <3>1. (p + 1) % n = 0
      BY <1>4, <2>2
    <3> QED
      BY <1>4, <2>2, <3>1
  <2> QED
    BY <1>4, <2>1, <2>2
<1>8. \A p : Dining!Left(p) = (p + 1) % n
  BY <1>2 DEF Dining!Left
<1>9. n = 1 => 0..(n - 1) = {0}
  BY <1>4
<1> QED
  BY <1>2, <1>3, <1>5, <1>6, <1>7, <1>8, <1>9

\* What the philosophers hold, before and after a step.
LEMMA HoldsIs ==
  ASSUME NEW p
  PROVE  /\ Dining!Holds(p) = HoldsAt(pc[p], private.second[p], p, Dining!Left(p))
         /\ Dining!Holds(p)' = HoldsAt(pc'[p], private'.second[p], p, Dining!Left(p)')
<1> DEFINE one == IF private.second[p] THEN 1 ELSE 0
<1>1. one = 1 <=> private.second[p]
  OBVIOUS
<1>2. one' = 1 <=> private'.second[p]
  OBVIOUS
<1>3. Dining!Holds(p) = HoldsAt(pc[p], private.second[p], p, Dining!Left(p))
  BY <1>1, Zenon DEF Dining!Holds, HoldsAt
<1>4. Dining!Holds(p)' = HoldsAt(pc'[p], private'.second[p], p, Dining!Left(p)')
  BY <1>2, Zenon DEF Dining!Holds, HoldsAt
<1> QED
  BY <1>3, <1>4

\* One philosopher alone moves, and a chopstick leaves the table as it comes
\* into a hand.
Moves(p) ==
  /\ DiningType' /\ pc' \in [Seats -> Dining!Locations]
  /\ private'.at = private.at /\ private'.index = private.index
  /\ shared'.philosopher_num = shared.philosopher_num
  /\ pc[p] # "unstarted"
  /\ \A q \in Seats \ {p} : pc'[q] = pc[q] /\ private'.second[q] = private.second[q]

Trades(p) ==
  /\ shared.philosopher_num = 1 => pc'[p] \notin {"eat", "put_left", "put_right"}
  /\ \A c \in Dining!Philosophers :
       shared'.chopsticks[c] + Has(Dining!Holds(p)', c)
         = shared.chopsticks[c] + Has(Dining!Holds(p), c)

\* Then all is kept.
LEMMA DiningMove ==
  ASSUME DiningInv, NEW p \in Dining!Philosophers, Moves(p), Trades(p)
  PROVE  DiningInv'
<1> DEFINE P == Dining!Philosophers
<1>1. DiningType /\ pc \in [Seats -> Dining!Locations]
  BY DEF DiningInv
<1>2. P \subseteq Seats /\ IsFiniteSet(P) /\ P' = P /\ p \in Seats
      /\ (shared.philosopher_num = 1 => P = {0})
  BY <1>1, Table DEF Dining!Philosophers, Moves
<1>3. \A q : Dining!Left(q)' = Dining!Left(q)
  BY DEF Dining!Left, Moves
<1>4. ASSUME NEW c \in P
      PROVE  shared'.chopsticks[c] + Cardinality(Holders(c)') = 1
  <2> DEFINE A == Holders(c)
             B == Holders(c)'
  <2>1. A = {q \in P : c \in Dining!Holds(q)} /\ B = {q \in P : c \in Dining!Holds(q)'}
    <3>1. A = {q \in P : c \in Dining!Holds(q)} /\ B = {q \in P' : c \in Dining!Holds(q)'}
      BY DEF Holders
    <3> HIDE DEF A, B, P
    <3> QED
      BY <1>2, <3>1
  <2>2. \A q \in P \ {p} : Dining!Holds(q)' = Dining!Holds(q)
    <3>1. \A q : Dining!Holds(q) = HoldsAt(pc[q], private.second[q], q, Dining!Left(q))
      BY HoldsIs
    <3>2. \A q : Dining!Holds(q)' = HoldsAt(pc'[q], private'.second[q], q, Dining!Left(q))
      BY HoldsIs, <1>3
    <3>3. \A q \in P \ {p} : pc'[q] = pc[q] /\ private'.second[q] = private.second[q]
      BY <1>2 DEF Moves
    <3> QED
      BY <3>1, <3>2, <3>3
  <2>3. IsFiniteSet(A)
    <3>1. A \in SUBSET P
      BY <2>1
    <3> HIDE DEF A, P
    <3> QED
      BY <1>2, <3>1, FS_Subset
  <2> HIDE DEF A, B
  <2>4. A \ {p} = B \ {p}
    BY <1>2, <2>1, <2>2
  <2>5. /\ Cardinality(A) \in Nat /\ Cardinality(B) \in Nat
        /\ Cardinality(B) = Cardinality(A) + Has(B, p) - Has(A, p)
    BY <2>3, <2>4, OneElement
  <2>6. Has(A, p) = Has(Dining!Holds(p), c) /\ Has(B, p) = Has(Dining!Holds(p)', c)
    BY <2>1 DEF Has
  <2>7. shared.chopsticks[c] + Cardinality(A) = 1
    BY DEF DiningInv, A
  <2>8. shared'.chopsticks[c] \in Nat /\ shared.chopsticks[c] \in Nat
    BY <1>1, <1>2 DEF DiningType, Moves, Seats
  <2>9. Has(A, p) \in Nat /\ Has(B, p) \in Nat
    BY DEF Has
  <2>10. shared'.chopsticks[c] + Has(B, p) = shared.chopsticks[c] + Has(A, p)
    BY <2>6 DEF Trades
  <2>11. shared'.chopsticks[c] + Cardinality(B) = 1
    <3>1. PICK x \in Nat, y \in Nat : x = shared.chopsticks[c] /\ y = shared'.chopsticks[c]
      BY <2>8
    <3>2. PICK a \in Nat, b \in Nat : a = Has(A, p) /\ b = Has(B, p)
      BY <2>9
    <3>3. x + Cardinality(A) = 1 /\ y + b = x + a /\ Cardinality(B) = Cardinality(A) + b - a
      BY <2>5, <2>7, <2>10, <3>1, <3>2
    <3>4. y + Cardinality(B) = 1
      BY <2>5, <3>3
    <3> QED
      BY <3>1, <3>4
  <2> QED
    BY <2>11 DEF B
<1>5. \A c \in P' : shared'.chopsticks[c] + Cardinality(Holders(c)') = 1
  <2> HIDE DEF P
  <2> QED
    BY <1>2, <1>4
<1>6. private'.at = "create" => \A q \in P' : q >= private'.index => pc'[q] = "unstarted"
  BY <1>1, <1>2 DEF DiningInv, Moves
<1>7. shared'.philosopher_num = 1 => pc'[0] \notin {"eat", "put_left", "put_right"}
  BY <1>1, <1>2 DEF Moves, Trades
<1> QED
  BY <1>5, <1>6, <1>7 DEF DiningInv, Seats, Moves

\* A philosopher that takes a chopstick from the table: before that, nobody
\* held it.
LEMMA ChopstickTaken ==
  ASSUME DiningInv, NEW p \in Dining!Philosophers, NEW c \in Dining!Philosophers,
         NEW other \in {"left", "right"}, Dining!Get(p, c, other),
         \/ pc[p] = "right" /\ c = p /\ other = "left"
         \/ pc[p] = "left" /\ c = Dining!Left(p) /\ other = "right"
  PROVE  DiningInv'
<1> DEFINE P == Dining!Philosophers
           chopsticks == [shared.chopsticks EXCEPT ![c] = @ - 1]
           to == IF private.second[p] THEN "eat" ELSE other
<1>1. DiningType /\ pc \in [Seats -> Dining!Locations]
  BY DEF DiningInv
<1>2. /\ P \subseteq Seats /\ IsFiniteSet(P)
      /\ Dining!Left(p) = p <=> shared.philosopher_num = 1
  BY <1>1, Table
<1>3. shared.chopsticks[c] \in Nat /\ shared.chopsticks[c] > 0 /\ private.second[p] \in BOOLEAN
  BY <1>1, <1>2 DEF Dining!Get, DiningType
<1>4. c \notin HoldsAt(pc[p], private.second[p], p, Dining!Left(p))
  <2>1. Holders(c) \in SUBSET P
    BY DEF Holders
  <2>2. Cardinality(Holders(c)) \in Nat /\ IsFiniteSet(Holders(c))
    <3> HIDE DEF P
    <3> QED
      BY <1>2, <2>1, FS_Subset, FS_CardinalityType
  <2>3. shared.chopsticks[c] + Cardinality(Holders(c)) = 1
    BY DEF DiningInv
  <2>4. Holders(c) = {}
    <3>1. Cardinality(Holders(c)) = 0
      BY <1>3, <2>2, <2>3
    <3> QED
      BY <2>2, <3>1, FS_EmptySet
  <2> QED
    BY <2>4, HoldsIs DEF Holders
<1>5. private.second[p] => shared.philosopher_num # 1
  BY <1>2, <1>4 DEF HoldsAt
<1>6. chopsticks \in [Seats -> Nat] /\ chopsticks[c] = shared.chopsticks[c] - 1
      /\ \A d \in P : d # c => chopsticks[d] = shared.chopsticks[d]
  BY <1>1, <1>2, <1>3 DEF DiningType
<1>7. /\ shared' = [shared EXCEPT !.chopsticks = chopsticks]
      /\ pc' = [pc EXCEPT ![p] = to]
      /\ IF private.second[p] THEN UNCHANGED private
         ELSE private' = [private EXCEPT !.second[p] = TRUE]
  BY DEF Dining!Get, Dining!Go
<1> HIDE DEF chopsticks
<1>8. DiningType' /\ shared'.philosopher_num = shared.philosopher_num
      /\ shared'.chopsticks = chopsticks
      /\ private'.at = private.at /\ private'.index = private.index
      /\ private'.second[p] = TRUE
      /\ \A q \in Seats \ {p} : private'.second[q] = private.second[q]
  <2>1. shared' \in [philosopher_num : 1..MaxPhilosophers, max_think : 0..1, max_eat : 0..1,
                     chopsticks : [Seats -> Nat]]
        /\ shared'.philosopher_num = shared.philosopher_num
        /\ shared'.chopsticks = chopsticks
    BY <1>1, <1>6, <1>7 DEF DiningType
  <2>2. CASE private.second[p]
    BY <1>1, <1>7, <2>1, <2>2 DEF DiningType, Seats
  <2>3. CASE ~private.second[p]
    <3> DEFINE second == [private.second EXCEPT ![p] = TRUE]
    <3>1. second \in [Seats -> BOOLEAN] /\ private' = [private EXCEPT !.second = second]
          /\ second[p] = TRUE /\ \A q \in Seats \ {p} : second[q] = private.second[q]
      BY <1>1, <1>2, <1>7, <2>3 DEF DiningType
    <3> HIDE DEF second
    <3>2. private'.second = second
      BY <1>1, <3>1 DEF DiningType
    <3>3. /\ private'.at = private.at /\ private'.index = private.index
          /\ private' \in [at : {"create", "join", "done", "crashed"}, index : Nat,
                           second : [Seats -> BOOLEAN]]
      BY <1>1, <3>1 DEF DiningType
    <3> QED
      BY <2>1, <3>1, <3>2, <3>3 DEF DiningType, Seats
  <2> QED
    BY <2>2, <2>3
<1>9. to \in Dining!Locations
      /\ (shared.philosopher_num = 1 => to \notin {"eat", "put_left", "put_right"})
  BY <1>5 DEF Dining!Locations
<1>10. pc' \in [Seats -> Dining!Locations] /\ pc'[p] = to
       /\ \A q \in Seats \ {p} : pc'[q] = pc[q]
  BY <1>1, <1>2, <1>7, <1>9
<1>11. Moves(p)
  BY <1>8, <1>10 DEF Moves
<1> DEFINE before == Dining!Holds(p)
           after == Dining!Holds(p)'
<1>12. c \in after /\ c \notin before /\ \A d : d # c => (d \in after <=> d \in before)
  <2>1. before = HoldsAt(pc[p], private.second[p], p, Dining!Left(p))
        /\ after = HoldsAt(pc'[p], private'.second[p], p, Dining!Left(p)')
    BY HoldsIs
  <2>2. Dining!Left(p)' = Dining!Left(p)
    BY <1>8 DEF Dining!Left
  <2>3. after = HoldsAt(to, TRUE, p, Dining!Left(p))
    BY <1>8, <1>10, <2>1, <2>2
  <2> HIDE DEF before, after
  <2> QED
    BY <1>3, <1>4, <2>1, <2>3 DEF HoldsAt
<1>13. Trades(p)
  <2> HIDE DEF before, after, P
  <2>1. Has(after, c) = 1 /\ Has(before, c) = 0
        /\ \A d : d # c => Has(after, d) = Has(before, d)
    BY <1>12 DEF Has
  <2>2. \A d \in P : shared'.chopsticks[d] + Has(after, d) = shared.chopsticks[d] + Has(before, d)
    BY <1>3, <1>6, <1>8, <2>1
  <2> QED
    BY <1>9, <1>10, <2>2 DEF Trades, before, after, P
<1> QED
  BY <1>11, <1>13, DiningMove

\* A philosopher that puts a chopstick down.
LEMMA ChopstickPut ==
  ASSUME DiningInv, NEW p \in Dining!Philosophers, NEW c \in Dining!Philosophers,
         NEW to \in {"put_right", "think"}, Dining!Put(p, c, to),
         \/ pc[p] = "put_left" /\ c = Dining!Left(p) /\ to = "put_right"
         \/ pc[p] = "put_right" /\ c = p /\ to = "think"
  PROVE  DiningInv'
<1> DEFINE P == Dining!Philosophers
           chopsticks == [shared.chopsticks EXCEPT ![c] = @ + 1]
<1>1. DiningType /\ pc \in [Seats -> Dining!Locations]
  BY DEF DiningInv
<1>2. /\ P \subseteq Seats
      /\ Dining!Left(p) = p <=> shared.philosopher_num = 1
      /\ shared.philosopher_num = 1 => P = {0}
  BY <1>1, Table
<1>3. shared.philosopher_num # 1
  BY <1>2 DEF DiningInv
<1>4. shared.chopsticks[c] \in Nat
  BY <1>1, <1>2 DEF DiningType
<1>5. chopsticks \in [Seats -> Nat] /\ chopsticks[c] = shared.chopsticks[c] + 1
      /\ \A d \in P : d # c => chopsticks[d] = shared.chopsticks[d]
  BY <1>1, <1>2, <1>4 DEF DiningType
<1>6. /\ shared' = [shared EXCEPT !.chopsticks = chopsticks]
      /\ pc' = [pc EXCEPT ![p] = to] /\ UNCHANGED private
  BY DEF Dining!Put, Dining!Go
<1> HIDE DEF chopsticks
<1>7. DiningType' /\ shared'.philosopher_num = shared.philosopher_num
      /\ shared'.chopsticks = chopsticks
      /\ private'.at = private.at /\ private'.index = private.index
      /\ private'.second = private.second
  BY <1>1, <1>2, <1>5, <1>6 DEF DiningType, Seats
<1>8. pc' \in [Seats -> Dining!Locations] /\ pc'[p] = to /\ pc[p] # "unstarted"
      /\ \A q \in Seats \ {p} : pc'[q] = pc[q]
  BY <1>1, <1>2, <1>6 DEF Dining!Locations
<1>9. Moves(p)
  BY <1>7, <1>8 DEF Moves
<1> DEFINE before == Dining!Holds(p)
           after == Dining!Holds(p)'
<1>11. c \notin after /\ c \in before /\ \A d : d # c => (d \in after <=> d \in before)
  <2>1. before = HoldsAt(pc[p], private.second[p], p, Dining!Left(p))
        /\ after = HoldsAt(pc'[p], private'.second[p], p, Dining!Left(p)')
    BY HoldsIs
  <2>2. Dining!Left(p)' = Dining!Left(p)
    BY <1>7 DEF Dining!Left
  <2>3. after = HoldsAt(to, private.second[p], p, Dining!Left(p))
    BY <1>7, <1>8, <2>1, <2>2
  <2> HIDE DEF before, after
  <2> QED
    BY <1>2, <1>3, <2>1, <2>3 DEF HoldsAt
<1>12. Trades(p)
  <2> HIDE DEF before, after, P
  <2>1. Has(after, c) = 0 /\ Has(before, c) = 1 /\ \A d : d # c => Has(after, d) = Has(before, d)
    BY <1>11 DEF Has
  <2>2. \A d \in P : shared'.chopsticks[d] + Has(after, d) = shared.chopsticks[d] + Has(before, d)
    BY <1>4, <1>5, <1>7, <2>1
  <2> QED
    BY <1>3, <2>2 DEF Trades, before, after, P
<1> QED
  BY <1>9, <1>12, DiningMove

\* Nobody has begun to think.
LEMMA DiningInitially ==
  ASSUME Dining!Init
  PROVE  DiningInv
<1>1. PICK arguments \in Dining!ValidArguments :
        /\ shared = [philosopher_num |-> arguments.philosopher_num,
                     max_think |-> arguments.max_think, max_eat |-> arguments.max_eat,
                     chopsticks |-> [c \in Seats |-> 1]]
        /\ pc = [p \in Seats |-> "unstarted"]
        /\ private = [at |-> "create", index |-> 0, second |-> [p \in Seats |-> FALSE]]
  BY DEF Dining!Init, Seats
<1>2. DiningType
  BY <1>1 DEF DiningType, Dining!ValidArguments
<1>3. Dining!Philosophers \subseteq Seats /\ 0 \in Dining!Philosophers
  BY <1>2, Table
<1>4. \A p \in Seats : pc[p] = "unstarted"
  BY <1>1
<1>5. ASSUME NEW c \in Dining!Philosophers
      PROVE  shared.chopsticks[c] + Cardinality(Holders(c)) = 1
  <2>1. \A p \in Dining!Philosophers : Dining!Holds(p) = {}
    BY <1>3, <1>4, HoldsIs DEF HoldsAt
  <2>2. Holders(c) = {}
    BY <2>1 DEF Holders
  <2>3. Cardinality(Holders(c)) = 0
    BY <2>2, FS_EmptySet
  <2>4. shared.chopsticks[c] = 1
    BY <1>1, <1>3
  <2> QED
    BY <2>3, <2>4
<1>6. pc \in [Seats -> Dining!Locations]
  BY <1>1 DEF Dining!Locations
<1> QED
  BY <1>2, <1>3, <1>4, <1>5, <1>6 DEF DiningInv

\* Main creates the philosophers one after another.
LEMMA DiningCreated ==
  ASSUME DiningInv, NEW created, Dining!CreateThread(created)
  PROVE  DiningInv'
<1> DEFINE P == Dining!Philosophers
           n == shared.philosopher_num
           i == private.index
<1>1. DiningType /\ pc \in [Seats -> Dining!Locations]
  BY DEF DiningInv
<1>2. P \subseteq Seats /\ 0 \in P /\ n \in Nat /\ i \in Nat /\ P = 0..(n - 1)
      /\ (n = 1 => P = {0})
  BY <1>1, Table DEF DiningType
<1>3. private.at = "create" /\ UNCHANGED shared
      /\ \A p \in P : p >= i => pc[p] = "unstarted"
  BY DEF Dining!CreateThread, DiningInv
<1>4. DiningType' /\ P' = P /\ \A q : Dining!Left(q)' = Dining!Left(q)
  <2>1. P' = P /\ \A q : Dining!Left(q)' = Dining!Left(q)
    BY <1>3 DEF Dining!Philosophers, Dining!Left
  <2>2. /\ UNCHANGED shared
        /\ \/ private' = [private EXCEPT !.at = "join", !.index = 0]
           \/ private' = [private EXCEPT !.index = @ + 1]
    BY DEF Dining!CreateThread
  <2>3. private.index + 1 \in Nat
    BY <1>2
  <2>4. DiningType'
    <3>1. CASE private' = [private EXCEPT !.at = "join", !.index = 0]
      BY <1>1, <2>2, <3>1 DEF DiningType, Seats
    <3>2. CASE private' = [private EXCEPT !.index = @ + 1]
      BY <1>1, <2>2, <2>3, <3>2 DEF DiningType, Seats
    <3> QED
      BY <2>2, <3>1, <3>2
  <2> QED
    BY <2>1, <2>4
<1>5. /\ pc' \in [Seats -> Dining!Locations]
      /\ private'.second = private.second
      /\ \A p \in P : pc'[p] = pc[p] \/ (pc[p] = "unstarted" /\ pc'[p] = "think")
      /\ private'.at = "create" =>
           \A p \in P : p >= private'.index => pc'[p] = "unstarted"
  <2>1. CASE i = n
    <3>1. private' = [private EXCEPT !.at = "join", !.index = 0] /\ UNCHANGED pc
      BY <2>1 DEF Dining!CreateThread
    <3>2. private'.at = "join" /\ private'.second = private.second
      BY <1>1, <3>1 DEF DiningType
    <3> QED
      BY <1>1, <3>1, <3>2
  <2>2. CASE i # n
    <3>1. /\ private' = [private EXCEPT !.index = @ + 1]
          /\ pc' = [pc EXCEPT ![i] = "think"] \/ UNCHANGED pc
      BY <2>2 DEF Dining!CreateThread
    <3>2. private'.index = i + 1 /\ private'.second = private.second
      BY <1>1, <3>1 DEF DiningType
    <3>3. \A p \in P : p >= i + 1 => p >= i /\ p # i
      BY <1>2
    <3>4. i \in P => pc[i] = "unstarted"
      BY <1>2, <1>3
    <3>5. "think" \in Dining!Locations
      BY DEF Dining!Locations
    <3> HIDE DEF P, i
    <3>6. pc' \in [Seats -> Dining!Locations]
      BY <1>1, <3>1, <3>5
    <3>7. \A p \in P : pc'[p] = pc[p] \/ (p = i /\ pc[p] = "unstarted" /\ pc'[p] = "think")
      BY <1>1, <1>2, <3>1, <3>4
    <3> QED
      BY <1>3, <3>2, <3>3, <3>6, <3>7
  <2> QED
    BY <2>1, <2>2
<1>6. \A p \in P : Dining!Holds(p)' = Dining!Holds(p)
  <2>1. \A p \in P : /\ Dining!Holds(p) = HoldsAt(pc[p], private.second[p], p, Dining!Left(p))
                     /\ Dining!Holds(p)' = HoldsAt(pc'[p], private.second[p], p, Dining!Left(p))
    BY <1>4, <1>5, HoldsIs
  <2> QED
    BY <1>5, <2>1 DEF HoldsAt
<1>7. ASSUME NEW c \in P  PROVE Holders(c)' = Holders(c)
  <2>1. /\ Holders(c) = {p \in P : c \in Dining!Holds(p)}
        /\ Holders(c)' = {p \in P' : c \in Dining!Holds(p)'}
    BY DEF Holders
  <2> QED
    BY <1>4, <1>6, <2>1
<1>8. \A c \in P' : shared'.chopsticks[c] + Cardinality(Holders(c)') = 1
  BY <1>3, <1>4, <1>7 DEF DiningInv
<1>9. shared'.philosopher_num = 1 => pc'[0] \notin {"eat", "put_left", "put_right"}
  BY <1>2, <1>3, <1>5 DEF DiningInv
<1> HIDE DEF P
<1> QED
  BY <1>4, <1>5, <1>8, <1>9 DEF DiningInv, Seats, P

\* Steps that leave the table, the locations and the hands alone.
LEMMA DiningStill ==
  ASSUME DiningInv, UNCHANGED <<pc, shared>>, DiningType',
         private'.at # "create" \/ UNCHANGED <<private.at, private.index>>,
         private'.second = private.second
  PROVE  DiningInv'
<1> DEFINE P == Dining!Philosophers
<1>1. P' = P /\ \A q : Dining!Left(q)' = Dining!Left(q)
  BY DEF Dining!Philosophers, Dining!Left
<1>2. \A p \in P : Dining!Holds(p)' = Dining!Holds(p)
  BY <1>1, HoldsIs
<1>3. ASSUME NEW c \in P  PROVE Holders(c)' = Holders(c)
  <2>1. /\ Holders(c) = {p \in P : c \in Dining!Holds(p)}
        /\ Holders(c)' = {p \in P' : c \in Dining!Holds(p)'}
    BY DEF Holders
  <2> QED
    BY <1>1, <1>2, <2>1
<1>4. \A c \in P' : shared'.chopsticks[c] + Cardinality(Holders(c)') = 1
  BY <1>1, <1>3 DEF DiningInv
<1>5. private'.at = "create" => \A p \in P' : p >= private'.index => pc'[p] = "unstarted"
  BY <1>1 DEF DiningInv
<1> HIDE DEF P
<1> QED
  BY <1>1, <1>4, <1>5 DEF DiningInv, Seats, P

\* A philosopher with free hands that stays so, or with two that keeps them.
LEMMA HandsKept ==
  ASSUME DiningInv, NEW p \in Dining!Philosophers,
         Dining!Think(p) \/ Dining!Eat(p)
  PROVE  DiningInv'
<1>1. DiningType /\ pc \in [Seats -> Dining!Locations]
  BY DEF DiningInv
<1>2. p \in Seats /\ Dining!Philosophers \subseteq Seats
      /\ (shared.philosopher_num = 1 => Dining!Philosophers = {0})
  BY <1>1, Table
<1>3. /\ UNCHANGED shared
      /\ private'.at = private.at /\ private'.index = private.index
      /\ \A q \in Seats \ {p} : private'.second[q] = private.second[q]
      /\ \/ pc[p] = "think" /\ private'.second[p] = FALSE
            /\ pc' = [pc EXCEPT ![p] = IF p % 2 = 0 THEN "right" ELSE "left"]
         \/ pc[p] = "eat" /\ pc' = [pc EXCEPT ![p] = "put_left"]
      /\ DiningType'
  <2>1. CASE Dining!Think(p)
    <3> DEFINE second == [private.second EXCEPT ![p] = FALSE]
    <3>1. /\ second \in [Seats -> BOOLEAN] /\ second[p] = FALSE
          /\ \A q \in Seats \ {p} : second[q] = private.second[q]
          /\ private' = [private EXCEPT !.second = second]
      BY <1>1, <1>2, <2>1 DEF Dining!Think, DiningType
    <3> HIDE DEF second
    <3>2. /\ private'.second = second
          /\ private'.at = private.at /\ private'.index = private.index
          /\ private' \in [at : {"create", "join", "done", "crashed"}, index : Nat,
                           second : [Seats -> BOOLEAN]]
      BY <1>1, <3>1 DEF DiningType
    <3> QED
      BY <1>1, <2>1, <3>1, <3>2 DEF Dining!Think, Dining!Go, DiningType, Seats
  <2>2. CASE Dining!Eat(p)
    BY <1>1, <2>2 DEF Dining!Eat, Dining!Go, DiningType, Seats
  <2> QED
    BY <2>1, <2>2
<1>4. pc' \in [Seats -> Dining!Locations] /\ pc[p] # "unstarted"
      /\ \A q \in Seats \ {p} : pc'[q] = pc[q]
  BY <1>1, <1>2, <1>3 DEF Dining!Locations
<1>5. Moves(p)
  BY <1>3, <1>4 DEF Moves
<1>6. Dining!Holds(p)' = Dining!Holds(p)
  <2>1. /\ Dining!Holds(p) = HoldsAt(pc[p], private.second[p], p, Dining!Left(p))
        /\ Dining!Holds(p)' = HoldsAt(pc'[p], private'.second[p], p, Dining!Left(p)')
        /\ Dining!Left(p)' = Dining!Left(p)
    BY <1>3, HoldsIs DEF Dining!Left
  <2>2. pc'[p] \in {"right", "left", "put_left"}
    BY <1>1, <1>2, <1>3
  <2>3. CASE pc[p] = "think"
    <3>1. pc'[p] \in {"right", "left"} /\ private'.second[p] = FALSE
      BY <1>1, <1>2, <1>3, <2>3
    <3> QED
      BY <2>1, <2>3, <3>1 DEF HoldsAt
  <2>4. CASE pc[p] = "eat"
    <3>1. pc'[p] = "put_left"
      BY <1>1, <1>2, <1>3, <2>4
    <3> QED
      BY <2>1, <2>4, <3>1 DEF HoldsAt
  <2> QED
    BY <1>3, <2>3, <2>4
<1>7. shared.philosopher_num = 1 => pc'[p] \notin {"eat", "put_left", "put_right"}
  BY <1>1, <1>2, <1>3 DEF DiningInv
<1>8. Trades(p)
  BY <1>3, <1>6, <1>7 DEF Trades
<1> QED
  BY <1>5, <1>8, DiningMove

\* Every step keeps what is said of the philosophers.
LEMMA DiningKept ==
  ASSUME DiningInv, Dining!Next
  PROVE  DiningInv'
<1>1. DiningType
  BY DEF DiningInv
<1>2. ASSUME NEW created, Dining!CreateThread(created)  PROVE DiningInv'
  BY <1>2, DiningCreated
<1>3. CASE Dining!JoinMissing
  <2>1. private.at = "join" /\ UNCHANGED <<pc, shared>> /\ private.index + 1 \in Nat
        /\ \/ private' = [private EXCEPT !.at = "done"]
           \/ private' = [private EXCEPT !.index = @ + 1]
           \/ private' = [private EXCEPT !.at = "crashed"]
    BY <1>1, <1>3 DEF Dining!JoinMissing, DiningType
  <2>2. DiningType' /\ private'.at # "create" /\ private'.second = private.second
    BY <1>1, <2>1 DEF DiningType, Seats
  <2> QED
    BY <2>1, <2>2, DiningStill
<1>4. ASSUME NEW p \in Dining!Philosophers, Dining!Philosopher(p)  PROVE DiningInv'
  <2>1. Dining!Left(p) \in Dining!Philosophers
    BY <1>1, Table
  <2>2. CASE Dining!DivideByZero(p)
    <3>1. private' = [private EXCEPT !.at = "crashed"] /\ UNCHANGED <<pc, shared>>
      BY <2>2 DEF Dining!DivideByZero
    <3>2. DiningType' /\ private'.at = "crashed" /\ private'.second = private.second
      BY <1>1, <3>1 DEF DiningType, Seats
    <3> QED
      BY <3>1, <3>2, DiningStill
  <2>3. CASE Dining!Think(p) \/ Dining!Eat(p)
    BY <2>3, HandsKept
  <2>4. CASE Dining!GetRightChopstick(p)
    BY <2>4, ChopstickTaken DEF Dining!GetRightChopstick
  <2>5. CASE Dining!GetLeftChopstick(p)
    BY <2>1, <2>5, ChopstickTaken DEF Dining!GetLeftChopstick
  <2>6. CASE Dining!PutLeftChopstick(p)
    BY <2>1, <2>6, ChopstickPut DEF Dining!PutLeftChopstick
  <2>7. CASE Dining!PutRightChopstick(p)
    BY <2>7, ChopstickPut DEF Dining!PutRightChopstick
  <2> QED
    BY <1>4, <2>2, <2>3, <2>4, <2>5, <2>6, <2>7 DEF Dining!Philosopher
<1> QED
  BY <1>2, <1>3, <1>4 DEF Dining!Next

\* What is proved of the philosophers is what the runs check.
LEMMA DiningChecked == ASSUME DiningInv  PROVE Dining!ChopsticksKept
<1>1. ASSUME NEW c \in Dining!Philosophers
      PROVE  Dining!Quantify(Dining!Philosophers, LAMBDA p : c \in Dining!Holds(p))
               = Cardinality(Holders(c))
  BY DEF Dining!Quantify, Dining!Cardinality, Cardinality, Holders
<1>2. \A c \in Dining!Philosophers :
        shared.chopsticks[c]
          + Dining!Quantify(Dining!Philosophers, LAMBDA p : c \in Dining!Holds(p)) = 1
  BY <1>1 DEF DiningInv
<1> QED
  BY <1>2 DEF DiningInv, Dining!ChopsticksKept

-----------------------------------------------------------------------------
(* The bounded buffer                                                      *)

\* Turns less than a whole round apart have different elements of the buffer.
LEMMA TurnsApart ==
  ASSUME NEW n \in Nat \ {0}, NEW i \in Nat, NEW j \in Nat, i < j, j < i + n
  PROVE  i % n # j % n
<1> DEFINE p == i \div n
           q == j \div n
<1>1. /\ p \in Int /\ q \in Int /\ i % n \in Int /\ j % n \in Int
      /\ i = n * p + (i % n) /\ j = n * q + (j % n)
  OBVIOUS
<1> HIDE DEF p, q
<1>2. SUFFICES ASSUME i % n = j % n  PROVE FALSE
  OBVIOUS
<1>3. n * q - n * p > 0 /\ n * q - n * p < n
  BY <1>1, <1>2
<1>4. PICK k \in Int : k = q - p
  BY <1>1
<1>5. n * q - n * p = n * k
  BY <1>1, <1>4
<1>6. k >= 1 \/ k <= 0
  OBVIOUS
<1>7. CASE k >= 1
  <2>1. n * k >= n * 1
    BY <1>7
  <2> QED
    BY <1>3, <1>5, <2>1
<1>8. CASE k <= 0
  <2>1. n * k <= n * 0
    BY <1>8
  <2> QED
    BY <1>3, <1>5, <2>1
<1> QED
  BY <1>6, <1>7, <1>8

\* The turns are less than a round apart.
LEMMA BufferBounds ==
  ASSUME BufferInv
  PROVE  /\ BufferType
         /\ BufferCapacity \in Nat \ {0} /\ private.count \in Nat /\ private.taken \in Nat
         /\ private.taken <= private.count
         /\ private.count <= private.taken + BufferCapacity
         /\ pc.consume = "read" => private.taken < private.count
         /\ pc.produce = "write" => private.count < private.taken + BufferCapacity
<1>1. BufferCapacity \in Nat \ {0}
  BY ProgramsAssumption DEF Bounded!ValidArguments
<1>2. /\ BufferType /\ private.count \in Nat /\ private.taken \in Nat
      /\ shared.can_produce \in Nat /\ shared.can_consume \in Nat
  BY DEF BufferInv, BufferType
<1>3. \A at, L : One(at, L) \in Nat
  BY DEF One
<1>4. /\ shared.can_consume + One(pc.produce, {"post"}) + private.taken
           + One(pc.consume, {"read"}) = private.count
      /\ shared.can_produce + One(pc.produce, {"write"}) + private.count
           + One(pc.consume, {"post"}) = private.taken + BufferCapacity
  BY DEF BufferInv
<1>5. pc.consume = "read" => One(pc.consume, {"read"}) = 1
  BY DEF One
<1>6. pc.produce = "write" => One(pc.produce, {"write"}) = 1
  BY DEF One
<1>7. /\ private.taken <= private.count
      /\ pc.consume = "read" => private.taken < private.count
  BY <1>2, <1>3, <1>4, <1>5
<1>8. /\ private.count <= private.taken + BufferCapacity
      /\ pc.produce = "write" => private.count < private.taken + BufferCapacity
  BY <1>1, <1>2, <1>3, <1>4, <1>6
<1> QED
  BY <1>1, <1>2, <1>7, <1>8

\* The buffer is empty.
LEMMA BufferInitially ==
  ASSUME Bounded!Init
  PROVE  BufferInv
<1>1. Bounded!Start
  BY DEF Bounded!Init, Bounded!InitBound, Bounded!InitBoundMod
<1>2. BufferCapacity \in Nat \ {0}
  BY ProgramsAssumption DEF Bounded!ValidArguments
<1>3. /\ pc = [main |-> "producer", produce |-> "unstarted", consume |-> "unstarted"]
      /\ shared = [buffer |-> [i \in 0..(BufferCapacity - 1) |-> 0],
                   can_produce |-> BufferCapacity, can_consume |-> 0]
      /\ private = [error |-> FALSE, count |-> 0, taken |-> 0, consumed |-> <<>>]
  BY <1>1 DEF Bounded!Start
<1>4. BufferType
  BY <1>2, <1>3 DEF BufferType
<1>5. <<>> = [i \in 1..0 |-> i]
  OBVIOUS
<1> QED
  BY <1>2, <1>3, <1>4, <1>5 DEF BufferInv, BufferType, One

\* Steps that move the threads or change a semaphore, and leave the turns.
LEMMA TurnsKept ==
  ASSUME BufferInv, BufferType', shared'.buffer = shared.buffer,
         private'.count = private.count, private'.taken = private.taken,
         private'.consumed = private.consumed,
         pc'.main = "producer" => pc'.produce = "unstarted",
         pc'.main \in {"producer", "consumer"} => pc'.consume = "unstarted",
         shared'.can_consume + One(pc'.produce, {"post"}) + private.taken
           + One(pc'.consume, {"read"}) = private.count,
         shared'.can_produce + One(pc'.produce, {"write"}) + private.count
           + One(pc'.consume, {"post"}) = private.taken + BufferCapacity
  PROVE  BufferInv'
  BY DEF BufferInv, BufferType

\* Main creates the two threads, and ends.
LEMMA MainTurns ==
  ASSUME BufferInv, Bounded!CreateThreads \/ Bounded!Destroy
  PROVE  BufferInv'
<1>1. BufferType
  BY BufferBounds
<1>2. /\ shared.can_consume + One(pc.produce, {"post"}) + private.taken
           + One(pc.consume, {"read"}) = private.count
      /\ shared.can_produce + One(pc.produce, {"write"}) + private.count
           + One(pc.consume, {"post"}) = private.taken + BufferCapacity
      /\ pc.main = "producer" => pc.produce = "unstarted"
      /\ pc.main \in {"producer", "consumer"} => pc.consume = "unstarted"
  BY DEF BufferInv
<1>3. One("unstarted", {"post"}) = One("wait", {"post"})
      /\ One("unstarted", {"read"}) = One("wait", {"read"})
      /\ One("unstarted", {"write"}) = One("wait", {"write"})
  BY DEF One
<1>4. ASSUME NEW created \in BOOLEAN, Bounded!CreateProducer(created)  PROVE BufferInv'
  <2>1. /\ UNCHANGED shared /\ pc.produce = "unstarted" /\ pc.consume = "unstarted"
        /\ \/ /\ pc' = [pc EXCEPT !.main = "consumer", !.produce = "wait"]
              /\ UNCHANGED private
           \/ /\ pc' = [pc EXCEPT !.main = "destroy"]
              /\ private' = [private EXCEPT !.error = TRUE]
    BY <1>2, <1>4 DEF Bounded!CreateProducer, Bounded!Go
  <2>2. /\ BufferType' /\ pc'.consume = pc.consume
        /\ \/ pc'.main = "consumer" /\ pc'.produce = "wait"
           \/ pc'.main = "destroy" /\ pc'.produce = pc.produce
        /\ private'.count = private.count /\ private'.taken = private.taken
        /\ private'.consumed = private.consumed
    <3>1. CASE /\ pc' = [pc EXCEPT !.main = "consumer", !.produce = "wait"]
               /\ UNCHANGED private
      BY <1>1, <2>1, <3>1 DEF BufferType
    <3>2. CASE /\ pc' = [pc EXCEPT !.main = "destroy"]
               /\ private' = [private EXCEPT !.error = TRUE]
      BY <1>1, <2>1, <3>2 DEF BufferType
    <3> QED
      BY <2>1, <3>1, <3>2
  <2> QED
    BY <1>2, <1>3, <2>1, <2>2, TurnsKept
<1>5. ASSUME NEW created \in BOOLEAN, Bounded!CreateConsumer(created)  PROVE BufferInv'
  <2>1. /\ UNCHANGED shared /\ pc.consume = "unstarted"
        /\ \/ /\ pc' = [pc EXCEPT !.main = "join", !.consume = "wait"]
              /\ UNCHANGED private
           \/ /\ pc' = [pc EXCEPT !.main = "destroy"]
              /\ private' = [private EXCEPT !.error = TRUE]
    BY <1>2, <1>5 DEF Bounded!CreateConsumer, Bounded!Go
  <2>2. /\ BufferType' /\ pc'.produce = pc.produce
        /\ \/ pc'.main = "join" /\ pc'.consume = "wait"
           \/ pc'.main = "destroy" /\ pc'.consume = pc.consume
        /\ private'.count = private.count /\ private'.taken = private.taken
        /\ private'.consumed = private.consumed
    <3>1. CASE /\ pc' = [pc EXCEPT !.main = "join", !.consume = "wait"]
               /\ UNCHANGED private
      BY <1>1, <2>1, <3>1 DEF BufferType
    <3>2. CASE /\ pc' = [pc EXCEPT !.main = "destroy"]
               /\ private' = [private EXCEPT !.error = TRUE]
      BY <1>1, <2>1, <3>2 DEF BufferType
    <3> QED
      BY <2>1, <3>1, <3>2
  <2>3. One("unstarted", {"post"}) = One("wait", {"post"})
    BY <1>3
  <2>4. /\ One(pc'.consume, {"read"}) = One(pc.consume, {"read"})
        /\ One(pc'.consume, {"post"}) = One(pc.consume, {"post"})
    BY <1>3, <2>1, <2>2
  <2> QED
    BY <1>2, <2>1, <2>2, <2>4, TurnsKept
<1>6. CASE Bounded!Join \/ Bounded!Destroy
  <2>1. /\ UNCHANGED <<shared, private>>
        /\ pc' = [pc EXCEPT !.main = "destroy"] \/ pc' = [pc EXCEPT !.main = "done"]
    BY <1>6 DEF Bounded!Join, Bounded!Destroy, Bounded!Go
  <2>2. /\ BufferType' /\ pc'.produce = pc.produce /\ pc'.consume = pc.consume
        /\ pc'.main \in {"destroy", "done"}
    BY <1>1, <2>1 DEF BufferType
  <2> QED
    BY <1>2, <2>1, <2>2, TurnsKept
<1> QED
  BY <1>4, <1>5, <1>6 DEF Bounded!CreateThreads

\* The steps at a semaphore.
LEMMA SemaphoreTurns ==
  ASSUME BufferInv,
         \/ Bounded!ProduceWait \/ Bounded!ProducePost
         \/ Bounded!ConsumeWait \/ Bounded!ConsumePost
  PROVE  BufferInv'
<1>1. BufferType
  BY BufferBounds
<1>2. /\ shared.can_consume + One(pc.produce, {"post"}) + private.taken
           + One(pc.consume, {"read"}) = private.count
      /\ shared.can_produce + One(pc.produce, {"write"}) + private.count
           + One(pc.consume, {"post"}) = private.taken + BufferCapacity
      /\ pc.main = "producer" => pc.produce = "unstarted"
      /\ pc.main \in {"producer", "consumer"} => pc.consume = "unstarted"
  BY DEF BufferInv
<1>3. shared.can_produce \in Nat /\ shared.can_consume \in Nat
      /\ private.count \in Nat /\ private.taken \in Nat /\ BufferCapacity \in Nat
  BY <1>1, BufferBounds DEF BufferType
<1>4. /\ One("post", {"post"}) = 1 /\ One("write", {"write"}) = 1 /\ One("read", {"read"}) = 1
      /\ \A at : at # "post" => One(at, {"post"}) = 0
      /\ \A at : at # "write" => One(at, {"write"}) = 0
      /\ \A at : at # "read" => One(at, {"read"}) = 0
      /\ \A at, L : One(at, L) \in Nat
  BY DEF One
<1>5. CASE Bounded!ProduceWait
  <2>1. /\ pc.produce = "wait" /\ shared.can_produce > 0 /\ UNCHANGED private
        /\ shared' = [shared EXCEPT !.can_produce = @ - 1]
        /\ pc' = [pc EXCEPT !["produce"] = "write"]
    BY <1>5 DEF Bounded!ProduceWait, Bounded!Go
  <2>2. shared.can_produce - 1 \in Nat
    BY <1>3, <2>1
  <2>3. /\ BufferType' /\ shared'.buffer = shared.buffer
        /\ shared'.can_produce = shared.can_produce - 1 /\ shared'.can_consume = shared.can_consume
        /\ pc'.produce = "write" /\ pc'.consume = pc.consume /\ pc'.main = pc.main
    BY <1>1, <2>1, <2>2 DEF BufferType
  <2>4. shared'.can_consume + One(pc'.produce, {"post"}) + private.taken
          + One(pc'.consume, {"read"}) = private.count
    BY <1>2, <1>4, <2>1, <2>3
  <2>5. shared'.can_produce + One(pc'.produce, {"write"}) + private.count
          + One(pc'.consume, {"post"}) = private.taken + BufferCapacity
    BY <1>2, <1>3, <1>4, <2>1, <2>3
  <2> QED
    BY <1>2, <2>1, <2>3, <2>4, <2>5, TurnsKept
<1>6. CASE Bounded!ProducePost
  <2>1. /\ pc.produce = "post" /\ UNCHANGED private
        /\ shared' = [shared EXCEPT !.can_consume = @ + 1]
        /\ \E to \in {"done", "wait"} : pc' = [pc EXCEPT !["produce"] = to]
    BY <1>6 DEF Bounded!ProducePost, Bounded!Go
  <2>2. shared.can_consume + 1 \in Nat
    BY <1>3
  <2>3. /\ BufferType' /\ shared'.buffer = shared.buffer
        /\ shared'.can_consume = shared.can_consume + 1 /\ shared'.can_produce = shared.can_produce
        /\ pc'.produce \in {"done", "wait"} /\ pc'.consume = pc.consume /\ pc'.main = pc.main
    BY <1>1, <2>1, <2>2 DEF BufferType
  <2>4. shared'.can_consume + One(pc'.produce, {"post"}) + private.taken
          + One(pc'.consume, {"read"}) = private.count
    BY <1>2, <1>3, <1>4, <2>1, <2>3
  <2>5. shared'.can_produce + One(pc'.produce, {"write"}) + private.count
          + One(pc'.consume, {"post"}) = private.taken + BufferCapacity
    BY <1>2, <1>4, <2>1, <2>3
  <2> QED
    BY <1>2, <2>1, <2>3, <2>4, <2>5, TurnsKept
<1>7. CASE Bounded!ConsumeWait
  <2>1. /\ pc.consume = "wait" /\ shared.can_consume > 0 /\ UNCHANGED private
        /\ shared' = [shared EXCEPT !.can_consume = @ - 1]
        /\ pc' = [pc EXCEPT !["consume"] = "read"]
    BY <1>7 DEF Bounded!ConsumeWait, Bounded!Go
  <2>2. shared.can_consume - 1 \in Nat
    BY <1>3, <2>1
  <2>3. /\ BufferType' /\ shared'.buffer = shared.buffer
        /\ shared'.can_consume = shared.can_consume - 1 /\ shared'.can_produce = shared.can_produce
        /\ pc'.consume = "read" /\ pc'.produce = pc.produce /\ pc'.main = pc.main
    BY <1>1, <2>1, <2>2 DEF BufferType
  <2>4. shared'.can_consume + One(pc'.produce, {"post"}) + private.taken
          + One(pc'.consume, {"read"}) = private.count
    BY <1>2, <1>3, <1>4, <2>1, <2>3
  <2>5. shared'.can_produce + One(pc'.produce, {"write"}) + private.count
          + One(pc'.consume, {"post"}) = private.taken + BufferCapacity
    BY <1>2, <1>4, <2>1, <2>3
  <2> QED
    BY <1>2, <2>1, <2>3, <2>4, <2>5, TurnsKept
<1>8. CASE Bounded!ConsumePost
  <2>1. /\ pc.consume = "post" /\ UNCHANGED private
        /\ shared' = [shared EXCEPT !.can_produce = @ + 1]
        /\ \E to \in {"done", "wait"} : pc' = [pc EXCEPT !["consume"] = to]
    BY <1>8 DEF Bounded!ConsumePost, Bounded!Go
  <2>2. shared.can_produce + 1 \in Nat
    BY <1>3
  <2>3. /\ BufferType' /\ shared'.buffer = shared.buffer
        /\ shared'.can_produce = shared.can_produce + 1 /\ shared'.can_consume = shared.can_consume
        /\ pc'.consume \in {"done", "wait"} /\ pc'.produce = pc.produce /\ pc'.main = pc.main
    BY <1>1, <2>1, <2>2 DEF BufferType
  <2>4. shared'.can_consume + One(pc'.produce, {"post"}) + private.taken
          + One(pc'.consume, {"read"}) = private.count
    BY <1>2, <1>4, <2>1, <2>3
  <2>5. shared'.can_produce + One(pc'.produce, {"write"}) + private.count
          + One(pc'.consume, {"post"}) = private.taken + BufferCapacity
    BY <1>2, <1>3, <1>4, <2>1, <2>3
  <2> QED
    BY <1>2, <2>1, <2>3, <2>4, <2>5, TurnsKept
<1> QED
  BY <1>5, <1>6, <1>7, <1>8

\* What is written does not replace a value that was not taken yet.
LEMMA WriteTurn ==
  ASSUME BufferInv, Bounded!ProduceWrite
  PROVE  BufferInv'
<1> DEFINE count == private.count
           taken == private.taken
           n == BufferCapacity
           buffer == [shared.buffer EXCEPT ![count % n] = count + 1]
<1>1. /\ BufferType /\ n \in Nat \ {0} /\ count \in Nat /\ taken \in Nat
      /\ taken <= count
      /\ pc.produce = "write" => count < taken + n
  BY BufferBounds
<1>2. /\ pc.produce = "write"
      /\ private' = [private EXCEPT !.count = @ + 1]
      /\ shared' = [shared EXCEPT !.buffer = buffer]
      /\ pc' = [pc EXCEPT !["produce"] = "post"]
  BY DEF Bounded!ProduceWrite, Bounded!Go
<1>3. count % n \in 0..(n - 1) /\ count + 1 \in Nat
  BY <1>1
<1>4. buffer \in [0..(n - 1) -> Nat] /\ buffer[count % n] = count + 1
      /\ \A k \in 0..(n - 1) : k # count % n => buffer[k] = shared.buffer[k]
  BY <1>1, <1>3 DEF BufferType
<1> HIDE DEF buffer
<1>5. /\ BufferType' /\ shared'.buffer = buffer
      /\ shared'.can_produce = shared.can_produce /\ shared'.can_consume = shared.can_consume
      /\ private'.count = count + 1 /\ private'.taken = taken
      /\ private'.consumed = private.consumed
      /\ pc'.produce = "post" /\ pc'.consume = pc.consume /\ pc'.main = pc.main
  BY <1>1, <1>2, <1>3, <1>4 DEF BufferType
<1>6. ASSUME NEW i \in taken..count
      PROVE  buffer[i % n] = i + 1
  <2>1. CASE i = count
    BY <1>4, <2>1
  <2>2. CASE i # count
    <3>1. i \in taken..(count - 1) /\ i \in Nat /\ i < count /\ count < i + n
      BY <1>1, <1>2, <2>2
    <3>2. i % n # count % n /\ i % n \in 0..(n - 1)
      BY <1>1, <3>1, TurnsApart
    <3>3. shared.buffer[i % n] = i + 1
      BY <3>1 DEF BufferInv
    <3> QED
      BY <1>4, <3>2, <3>3
  <2> QED
    BY <2>1, <2>2
<1>7. \A i \in private'.taken..(private'.count - 1) :
        shared'.buffer[i % BufferCapacity] = i + 1
  <2>1. (count + 1) - 1 = count
    BY <1>1
  <2> QED
    BY <1>5, <1>6, <2>1
<1>8. /\ shared'.can_consume + One(pc'.produce, {"post"}) + private'.taken
           + One(pc'.consume, {"read"}) = private'.count
      /\ shared'.can_produce + One(pc'.produce, {"write"}) + private'.count
           + One(pc'.consume, {"post"}) = private'.taken + BufferCapacity
  <2>1. /\ One("post", {"post"}) = 1 /\ One("write", {"write"}) = 1
        /\ One("post", {"write"}) = 0 /\ One("write", {"post"}) = 0
        /\ \A at, L : One(at, L) \in Nat
    BY DEF One
  <2>2. shared.can_produce \in Nat /\ shared.can_consume \in Nat
    BY <1>1 DEF BufferType
  <2>3. /\ shared.can_consume + One(pc.produce, {"post"}) + private.taken
             + One(pc.consume, {"read"}) = private.count
        /\ shared.can_produce + One(pc.produce, {"write"}) + private.count
             + One(pc.consume, {"post"}) = private.taken + BufferCapacity
    BY DEF BufferInv
  <2> QED
    BY <1>1, <1>2, <1>5, <2>1, <2>2, <2>3
<1>9. /\ pc'.main = "producer" => pc'.produce = "unstarted"
      /\ pc'.main \in {"producer", "consumer"} => pc'.consume = "unstarted"
      /\ private'.consumed = [i \in 1..private'.taken |-> i]
  BY <1>2, <1>5 DEF BufferInv
<1> QED
  BY <1>5, <1>7, <1>8, <1>9 DEF BufferInv, BufferType

\* The first numbers in order, and the next one.
LEMMA NumbersAppend ==
  ASSUME NEW n \in Nat, NEW s \in Seq(Nat), s = [i \in 1..n |-> i],
         NEW x \in Nat, x = n + 1
  PROVE  Append(s, x) \in Seq(Nat) /\ Append(s, x) = [i \in 1..(n + 1) |-> i]
<1> DEFINE t == Append(s, x)
<1>1. Len(s) = n /\ \A i \in 1..n : s[i] = i
  OBVIOUS
<1>2. /\ t \in Seq(Nat) /\ Len(t) = n + 1 /\ t[n + 1] = x
      /\ \A i \in 1..n : t[i] = s[i]
  BY <1>1, RangeAppend
<1> HIDE DEF t
<1>3. ASSUME NEW i \in 1..(n + 1)  PROVE t[i] = i
  <2>1. i \in 1..n \/ i = n + 1
    OBVIOUS
  <2> QED
    BY <1>1, <1>2, <2>1
<1>4. t = [i \in 1..(n + 1) |-> t[i]]
  BY <1>2
<1>5. t = [i \in 1..(n + 1) |-> i]
  BY <1>3, <1>4
<1> QED
  BY <1>2, <1>5 DEF t

\* What is read is the value after the last one consumed.
LEMMA ReadTurn ==
  ASSUME BufferInv, Bounded!ConsumeRead
  PROVE  BufferInv'
<1> DEFINE count == private.count
           taken == private.taken
           n == BufferCapacity
           value == shared.buffer[taken % n]
           consumed == Append(private.consumed, value)
<1>1. /\ BufferType /\ n \in Nat \ {0} /\ count \in Nat /\ taken \in Nat
      /\ pc.consume = "read" => taken < count
  BY BufferBounds
<1>2. /\ pc.consume = "read"
      /\ private' = [private EXCEPT !.taken = @ + 1, !.consumed = consumed]
      /\ pc' = [pc EXCEPT !["consume"] = "post"]
      /\ UNCHANGED shared
  BY DEF Bounded!ConsumeRead, Bounded!Go
<1>3. value = taken + 1 /\ taken + 1 \in Nat
  <2>1. taken \in taken..(count - 1)
    BY <1>1, <1>2
  <2> QED
    BY <1>1, <2>1 DEF BufferInv
<1>4. private.consumed \in Seq(Nat) /\ private.consumed = [i \in 1..taken |-> i]
  BY <1>1 DEF BufferInv, BufferType
<1>5. consumed \in Seq(Nat) /\ consumed = [i \in 1..(taken + 1) |-> i]
  <2> HIDE DEF value, taken
  <2> QED
    BY <1>3, <1>4, <1>1, NumbersAppend
<1> HIDE DEF value, consumed
<1>6. /\ BufferType' /\ shared'.buffer = shared.buffer
      /\ shared'.can_produce = shared.can_produce /\ shared'.can_consume = shared.can_consume
      /\ private'.count = count /\ private'.taken = taken + 1
      /\ private'.consumed = consumed
      /\ pc'.produce = pc.produce /\ pc'.consume = "post" /\ pc'.main = pc.main
  BY <1>1, <1>2, <1>3, <1>5 DEF BufferType
<1>7. \A i \in private'.taken..(private'.count - 1) :
        shared'.buffer[i % BufferCapacity] = i + 1
  <2>1. \A i \in (taken + 1)..(count - 1) : i \in taken..(count - 1)
    BY <1>1
  <2> QED
    BY <1>6, <2>1 DEF BufferInv
<1>8. /\ shared'.can_consume + One(pc'.produce, {"post"}) + private'.taken
           + One(pc'.consume, {"read"}) = private'.count
      /\ shared'.can_produce + One(pc'.produce, {"write"}) + private'.count
           + One(pc'.consume, {"post"}) = private'.taken + BufferCapacity
  <2>1. /\ One("post", {"post"}) = 1 /\ One("read", {"read"}) = 1
        /\ One("post", {"read"}) = 0 /\ One("read", {"post"}) = 0
        /\ \A at, L : One(at, L) \in Nat
    BY DEF One
  <2>2. shared.can_produce \in Nat /\ shared.can_consume \in Nat
    BY <1>1 DEF BufferType
  <2>3. /\ shared.can_consume + One(pc.produce, {"post"}) + private.taken
             + One(pc.consume, {"read"}) = private.count
        /\ shared.can_produce + One(pc.produce, {"write"}) + private.count
             + One(pc.consume, {"post"}) = private.taken + BufferCapacity
    BY DEF BufferInv
  <2> QED
    BY <1>1, <1>2, <1>6, <2>1, <2>2, <2>3
<1>9. /\ pc'.main = "producer" => pc'.produce = "unstarted"
      /\ pc'.main \in {"producer", "consumer"} => pc'.consume = "unstarted"
      /\ private'.consumed = [i \in 1..private'.taken |-> i]
  BY <1>2, <1>5, <1>6 DEF BufferInv
<1> QED
  BY <1>6, <1>7, <1>8, <1>9 DEF BufferInv, BufferType

\* Every step keeps what is said of the buffer.
LEMMA BufferStays ==
  ASSUME BufferInv, Bounded!Next
  PROVE  BufferInv'
<1>1. \/ Bounded!CreateThreads \/ Bounded!Destroy
      \/ Bounded!ProduceSteps \/ Bounded!ConsumeSteps
  BY DEF Bounded!Next, Bounded!BoundNext, Bounded!BoundModNext
<1> QED
  BY <1>1, MainTurns, SemaphoreTurns, WriteTurn, ReadTurn
     DEF Bounded!ProduceSteps, Bounded!ConsumeSteps

\* What is proved of the buffer is what the runs check.
LEMMA BufferChecked == ASSUME BufferInv  PROVE Bounded!BufferKept
<1>1. /\ BufferCapacity \in Nat \ {0} /\ private.count \in Nat /\ private.taken \in Nat
      /\ private.taken <= private.count
      /\ private.count <= private.taken + BufferCapacity
      /\ pc.consume = "read" => private.taken < private.count
      /\ pc.produce = "write" => private.count < private.taken + BufferCapacity
  BY BufferBounds
<1>2. pc.produce = "write" /\ pc.consume = "read" =>
        private.count % BufferCapacity # private.taken % BufferCapacity
  BY <1>1, TurnsApart
<1> QED
  BY <1>1, <1>2 DEF BufferInv, Bounded!BufferKept

-----------------------------------------------------------------------------
(* The relay race                                                          *)

RelayRaces == {"relay_race", "relay_race_order_effect"}

\* The runners, and what is known of their numbers.
LEMMA RelayRunners ==
  /\ TeamCount \in Nat \ {0}
  /\ Relay!Starters = 0..(TeamCount - 1)
  /\ IsFiniteSet(Relay!Starters) /\ Cardinality(Relay!Starters) = TeamCount
  /\ IsFiniteSet(Relay!Finishers)
  /\ Relay!Starters \cap Relay!Finishers = {}
  /\ Relay!Runners = Relay!Starters \cup Relay!Finishers
  /\ Relay!Runners = 0..(2 * TeamCount - 1)
  /\ \A t \in Relay!Finishers : t - TeamCount \in Relay!Starters
<1>1. TeamCount \in Nat \ {0}
  BY ProgramsAssumption DEF Relay!ValidArguments
<1>2. IsFiniteSet(0..(TeamCount - 1)) /\ Cardinality(0..(TeamCount - 1)) = TeamCount
  BY <1>1, FirstNumbers
<1>3. IsFiniteSet(0..(2 * TeamCount - 1))
  <2>1. 2 * TeamCount \in Nat
    BY <1>1
  <2> QED
    BY <2>1, FirstNumbers
<1>4. Relay!Finishers \in SUBSET (0..(2 * TeamCount - 1))
  BY <1>1 DEF Relay!Finishers
<1>5. IsFiniteSet(Relay!Finishers)
  BY <1>3, <1>4, FS_Subset
<1>6. \A t \in Relay!Finishers : t - TeamCount \in Relay!Starters
  BY <1>1 DEF Relay!Starters, Relay!Finishers
<1>7. /\ Relay!Starters \cap Relay!Finishers = {}
      /\ Relay!Runners = Relay!Starters \cup Relay!Finishers
      /\ Relay!Runners = 0..(2 * TeamCount - 1)
  BY <1>1 DEF Relay!Starters, Relay!Finishers, Relay!Runners
<1> QED
  BY <1>1, <1>2, <1>5, <1>6, <1>7 DEF Relay!Starters

\* In both orders each runner is created once.
LEMMA NthRunner ==
  ASSUME NEW i \in 0..(2 * TeamCount - 1)
  PROVE  /\ Nth(i) \in Relay!Runners
         /\ \A j \in 0..(2 * TeamCount - 1) : Nth(j) = Nth(i) => j = i
<1>1. TeamCount \in Nat \ {0} /\ Relay!Runners = 0..(2 * TeamCount - 1)
  BY RelayRunners
<1>2. ASSUME NEW k \in 0..(2 * TeamCount - 1)
      PROVE  (k + TeamCount) % (2 * TeamCount)
               = IF k < TeamCount THEN k + TeamCount ELSE k - TeamCount
  <2>1. PICK n \in Nat : n = 2 * TeamCount
    BY <1>1
  <2>2. CASE k < TeamCount
    <3>1. k + TeamCount \in 0..(n - 1)
      BY <1>1, <2>1, <2>2
    <3>2. (k + TeamCount) % n = k + TeamCount
      BY <1>1, <2>1, <3>1
    <3> QED
      BY <2>1, <2>2, <3>2
  <2>3. CASE ~(k < TeamCount)
    <3>1. PICK m \in 0..(n - 1) : m = k - TeamCount
      BY <1>1, <2>1, <2>3
    <3>2. k + TeamCount = m + n
      BY <1>1, <2>1, <3>1
    <3>3. (m + n) % n = m
      BY <1>1, <2>1
    <3> QED
      BY <1>1, <2>1, <2>3, <3>1, <3>2, <3>3
  <2> QED
    BY <2>2, <2>3
<1>3. \A k \in 0..(2 * TeamCount - 1) :
        Nth(k) = IF program = "relay_race" THEN k
                 ELSE IF k < TeamCount THEN k + TeamCount ELSE k - TeamCount
  BY <1>2 DEF Nth, Relay!StartersFirst, Relay!FinishersFirst
<1>4. PICK n \in Nat : n = TeamCount
  BY <1>1
<1> QED
  BY <1>1, <1>3, <1>4

\* Nobody runs.
LEMMA RelayInitially ==
  ASSUME Relay!InitRelay \/ Relay!InitOrderEffect
  PROVE  RelayInv
<1>1. program \in RelayRaces /\ Relay!Start
  BY DEF Relay!InitRelay, Relay!InitOrderEffect, RelayRaces
<1>2. Relay!Threads = Relay!Runners
  BY <1>1 DEF Relay!Threads, RelayRaces
<1>3. /\ pc = [t \in Relay!Runners |-> "unstarted"]
      /\ shared = [arrived |-> {}, batons |-> [t \in Relay!Starters |-> 0], position |-> 0,
                   counter |-> 0, open |-> FALSE]
      /\ private = [at |-> "create", index |-> 0,
                    places |-> [t \in Relay!Runners |-> 0]]
  BY <1>1, <1>2 DEF Relay!Start
<1>4. RelayType
  BY <1>3 DEF RelayType
<1>5. \A t \in Relay!Runners : pc[t] = "unstarted"
  BY <1>3
<1>6. Relay!Starters \subseteq Relay!Runners /\ Relay!Finishers \subseteq Relay!Runners
  BY RelayRunners
<1>7. StartersInv /\ FinishersInv
  BY <1>3, <1>5, <1>6 DEF StartersInv, FinishersInv
<1>8. FinishersDone = {}
  BY <1>5, <1>6 DEF FinishersDone, At
<1>9. PlacesInv
  <2>1. Cardinality(FinishersDone) = 0
    BY <1>8, FS_EmptySet
  <2> QED
    BY <1>3, <1>8, <2>1 DEF PlacesInv
<1>10. \A i \in 0..(2 * TeamCount - 1) : pc[Nth(i)] = "unstarted"
  BY <1>5, NthRunner
<1> QED
  BY <1>4, <1>7, <1>9, <1>10 DEF RelayInv, RunnersAhead

\* Main creates a runner, or fails to.
LEMMA RunnerCreated ==
  ASSUME RelayInv, program \in RelayRaces, program' = program, NEW created,
         Relay!CreateRunner(Nth(private.index), created)
  PROVE  RelayInv'
<1> DEFINE t == Nth(private.index)
<1>1. /\ private.at = "create" /\ private.index < 2 * TeamCount
      /\ \E to \in {"missing", "arrive", "receive"} :
           /\ pc' = [pc EXCEPT ![t] = to]
           /\ t \notin Relay!Starters => to # "arrive"
           /\ t \in Relay!Starters => to # "receive"
      /\ private' = [private EXCEPT !.index = @ + 1]
      /\ UNCHANGED shared
  BY DEF Relay!CreateRunner, Relay!Go
<1>2. RelayType /\ private.index \in Nat /\ private.index + 1 \in Nat
  <2>1. RelayType
    BY DEF RelayInv
  <2>2. private.index \in Nat
    BY <2>1 DEF RelayType
  <2> QED
    BY <2>1, <2>2
<1>3. private.index \in 0..(2 * TeamCount - 1)
  BY <1>1, <1>2, RelayRunners
<1>4. t \in Relay!Runners /\ pc[t] = "unstarted"
      /\ \A j \in 0..(2 * TeamCount - 1) : Nth(j) = t => j = private.index
  BY <1>1, <1>2, <1>3, NthRunner DEF RelayInv, RunnersAhead
<1> HIDE DEF t
<1>5. PICK to \in {"missing", "arrive", "receive"} :
        /\ pc' = [pc EXCEPT ![t] = to]
        /\ t \notin Relay!Starters => to # "arrive"
        /\ t \in Relay!Starters => to # "receive"
  BY <1>1
<1>6. /\ pc' \in [Relay!Runners -> {"unstarted", "missing", "arrive", "barrier", "pass",
                                    "receive", "finish", "done"}]
      /\ pc'[t] = to /\ \A u \in Relay!Runners \ {t} : pc'[u] = pc[u]
  BY <1>2, <1>4, <1>5 DEF RelayType
<1>7. RelayType' /\ private'.index = private.index + 1 /\ private'.at = private.at
      /\ private'.places = private.places
  BY <1>1, <1>2, <1>6 DEF RelayType
<1>8. Relay!Starters \subseteq Relay!Runners /\ Relay!Finishers \subseteq Relay!Runners
      /\ Relay!Starters \cap Relay!Finishers = {}
      /\ \A u \in Relay!Finishers : u - TeamCount \in Relay!Starters
      /\ (t \in Relay!Starters \/ t \in Relay!Finishers)
  BY <1>4, RelayRunners
<1>9. StartersInv'
  BY <1>1, <1>4, <1>5, <1>6, <1>8 DEF RelayInv, StartersInv
<1>10. FinishersInv'
  BY <1>4, <1>5, <1>6, <1>8 DEF RelayInv, FinishersInv
<1>11. FinishersDone' = FinishersDone
  BY <1>4, <1>6, <1>8 DEF FinishersDone, At
<1>12. PlacesInv'
  BY <1>1, <1>7, <1>11 DEF RelayInv, PlacesInv
<1>13. \A i : Nth(i)' = Nth(i)
  BY DEF Nth, Relay!StartersFirst, Relay!FinishersFirst
<1>14. ASSUME NEW i \in 0..(2 * TeamCount - 1), i >= private.index + 1
       PROVE  pc'[Nth(i)] = "unstarted"
  <2>1. i >= private.index /\ i # private.index
    BY <1>2, <1>14
  <2>2. Nth(i) \in Relay!Runners /\ Nth(i) # t
    BY <1>4, <2>1, NthRunner
  <2>3. pc[Nth(i)] = "unstarted"
    BY <1>1, <2>1 DEF RelayInv, RunnersAhead
  <2> QED
    BY <1>6, <2>2, <2>3
<1> QED
  BY <1>7, <1>9, <1>10, <1>12, <1>13, <1>14 DEF RelayInv, RunnersAhead

\* Main goes on to join the runners, and joins them.
LEMMA RelayJoined ==
  ASSUME RelayInv, Relay!AllCreated \/ Relay!Join
  PROVE  RelayInv'
<1>1. RelayType
  BY DEF RelayInv
<1>2. UNCHANGED <<pc, shared>>
  BY DEF Relay!AllCreated, Relay!Join
<1>3. \/ private' = [private EXCEPT !.at = "join", !.index = 0]
      \/ private' = [private EXCEPT !.at = "done"]
      \/ private' = [private EXCEPT !.at = "crashed"]
      \/ private' = [private EXCEPT !.index = @ + 1] /\ private.at = "join"
  BY DEF Relay!AllCreated, Relay!Join
<1>4. private' \in [at : {"create", "join", "done", "crashed"}, index : Nat,
                    places : [Relay!Runners -> Nat]]
      /\ private'.places = private.places /\ private'.at # "create"
  <2>1. private \in [at : {"create", "join", "done", "crashed"}, index : Nat,
                    places : [Relay!Runners -> Nat]]
    BY <1>1 DEF RelayType
  <2>2. CASE private' = [private EXCEPT !.at = "join", !.index = 0]
    BY <2>1, <2>2
  <2>3. CASE private' = [private EXCEPT !.at = "done"]
    BY <2>1, <2>3
  <2>4. CASE private' = [private EXCEPT !.at = "crashed"]
    BY <2>1, <2>4
  <2>5. CASE private' = [private EXCEPT !.index = @ + 1] /\ private.at = "join"
    BY <2>1, <2>5
  <2> QED
    BY <1>3, <2>2, <2>3, <2>4, <2>5
<1>5. FinishersDone' = FinishersDone
  BY <1>2 DEF FinishersDone, At
<1>6. PlacesInv'
  BY <1>2, <1>4, <1>5 DEF RelayInv, PlacesInv
<1>7. RelayType'
  BY <1>1, <1>2, <1>4 DEF RelayType
<1>8. StartersInv' /\ FinishersInv'
  BY <1>2 DEF RelayInv, StartersInv, FinishersInv
<1> QED
  BY <1>4, <1>6, <1>7, <1>8 DEF RelayInv, RunnersAhead

\* A step leaves the runners that main has not come to where they are.
LEMMA AheadKept ==
  ASSUME RunnersAhead, program' = program,
         private'.at = private.at, private'.index = private.index,
         \A u \in Relay!Runners : pc[u] = "unstarted" => pc'[u] = "unstarted"
  PROVE  RunnersAhead'
<1>1. \A i : Nth(i)' = Nth(i)
  BY DEF Nth, Relay!StartersFirst, Relay!FinishersFirst
<1>2. \A i \in 0..(2 * TeamCount - 1) : Nth(i) \in Relay!Runners
  BY NthRunner
<1> QED
  BY <1>1, <1>2 DEF RunnersAhead

\* A starter comes to the barrier when nobody has passed it.
LEMMA NobodyPassed ==
  ASSUME StartersInv, FinishersInv, RelayType,
         NEW t \in Relay!Starters, pc[t] = "arrive"
  PROVE  /\ t \notin shared.arrived
         /\ \A u \in Relay!Starters :
              pc[u] \notin {"pass", "done"} /\ ~(shared.batons[u] > 0)
         /\ \A u \in Relay!Finishers : pc[u] \notin {"finish", "done"}
<1>1. t \notin shared.arrived
  BY DEF StartersInv
<1>2. \A u \in Relay!Starters : pc[u] \notin {"pass", "done"}
  BY <1>1 DEF StartersInv
<1>3. \A u \in Relay!Starters : ~(shared.batons[u] > 0)
  BY <1>2 DEF StartersInv
<1>4. \A u \in Relay!Finishers : pc[u] \notin {"finish", "done"}
  BY <1>2, RelayRunners DEF FinishersInv
<1> QED
  BY <1>1, <1>2, <1>3, <1>4

\* The last starter opens the barrier, the others wait behind it.
LEMMA StarterArrives ==
  ASSUME RelayInv, program' = program, NEW t \in Relay!Starters, Relay!Arrive(t)
  PROVE  RelayInv'
<1>1. RelayType /\ StartersInv /\ FinishersInv /\ PlacesInv /\ RunnersAhead
  BY DEF RelayInv
<1>2. /\ pc[t] = "arrive" /\ private' = private
      /\ shared' = [shared EXCEPT !.arrived = @ \cup {t}]
  BY DEF Relay!Arrive
<1>3. /\ Relay!Starters \subseteq Relay!Runners /\ Relay!Finishers \subseteq Relay!Runners
      /\ Relay!Starters \cap Relay!Finishers = {}
      /\ IsFiniteSet(Relay!Starters) /\ Cardinality(Relay!Starters) = TeamCount
      /\ \A u \in Relay!Finishers : u - TeamCount \in Relay!Starters
  BY RelayRunners
<1>4. /\ t \notin shared.arrived
      /\ \A u \in Relay!Starters :
           pc[u] \notin {"pass", "done"} /\ ~(shared.batons[u] > 0)
      /\ \A u \in Relay!Finishers : pc[u] \notin {"finish", "done"}
  BY <1>1, <1>2, NobodyPassed
<1>5. shared \in [arrived : SUBSET Relay!Starters, batons : [Relay!Starters -> Nat],
                  position : Nat, counter : {0}, open : {FALSE}]
      /\ pc \in [Relay!Runners -> {"unstarted", "missing", "arrive", "barrier", "pass",
                                   "receive", "finish", "done"}]
  BY <1>1 DEF RelayType
<1>6. /\ shared' \in [arrived : SUBSET Relay!Starters, batons : [Relay!Starters -> Nat],
                      position : Nat, counter : {0}, open : {FALSE}]
      /\ shared'.arrived = shared.arrived \cup {t}
      /\ shared'.batons = shared.batons /\ shared'.position = shared.position
  BY <1>2, <1>5
<1>7. /\ \A u \in Relay!Finishers : pc'[u] = pc[u]
      /\ pc' \in [Relay!Runners -> {"unstarted", "missing", "arrive", "barrier", "pass",
                                    "receive", "finish", "done"}]
      /\ \/ /\ shared'.arrived = Relay!Starters
            /\ \A u \in Relay!Starters : pc'[u] = "pass"
         \/ pc'[t] = "barrier" /\ \A u \in Relay!Runners \ {t} : pc'[u] = pc[u]
  <2>1. CASE Relay!Cardinality(shared'.arrived) = TeamCount
    <3>1. Cardinality(shared'.arrived) = TeamCount
      BY <2>1 DEF Relay!Cardinality, Cardinality
    <3>2. shared'.arrived \in SUBSET Relay!Starters
      BY <1>6
    <3>3. shared'.arrived = Relay!Starters
      BY <1>3, <3>1, <3>2, FS_Subset
    <3>4. pc' = [u \in Relay!Runners |-> IF u \in Relay!Starters THEN "pass" ELSE pc[u]]
      BY <2>1, <3>3 DEF Relay!Arrive
    <3> QED
      BY <1>3, <1>5, <3>3, <3>4
  <2>2. CASE Relay!Cardinality(shared'.arrived) # TeamCount
    <3>1. pc' = [pc EXCEPT ![t] = "barrier"]
      BY <2>2 DEF Relay!Arrive
    <3> QED
      BY <1>3, <1>5, <3>1
  <2> QED
    BY <2>1, <2>2
<1>8. RelayType'
  BY <1>1, <1>2, <1>6, <1>7 DEF RelayType
<1>9. StartersInv'
  <2>1. CASE shared'.arrived = Relay!Starters /\ \A u \in Relay!Starters : pc'[u] = "pass"
    BY <1>4, <1>6, <2>1 DEF StartersInv
  <2>2. CASE pc'[t] = "barrier" /\ \A u \in Relay!Runners \ {t} : pc'[u] = pc[u]
    <3>1. \A u \in Relay!Starters :
            /\ pc'[u] \notin {"receive", "finish", "pass", "done"}
            /\ u \in shared'.arrived <=> pc'[u] = "barrier"
      BY <1>1, <1>3, <1>4, <1>6, <2>2 DEF StartersInv
    <3> QED
      BY <1>4, <1>6, <3>1 DEF StartersInv
  <2> QED
    BY <1>7, <2>1, <2>2
<1>10. FinishersInv'
  BY <1>1, <1>4, <1>7 DEF FinishersInv
<1>11. FinishersDone' = FinishersDone
  BY <1>7 DEF FinishersDone, At
<1>12. PlacesInv'
  BY <1>1, <1>2, <1>6, <1>11 DEF PlacesInv
<1>13. \A u \in Relay!Runners : pc[u] = "unstarted" => pc'[u] = "unstarted"
  <2>1. CASE shared'.arrived = Relay!Starters /\ \A u \in Relay!Starters : pc'[u] = "pass"
    <3>1. \A u \in Relay!Starters : pc[u] # "unstarted"
      BY <1>1, <1>2, <1>6, <2>1 DEF StartersInv
    <3> QED
      BY <1>7, <3>1, RelayRunners
  <2>2. CASE pc'[t] = "barrier" /\ \A u \in Relay!Runners \ {t} : pc'[u] = pc[u]
    BY <1>2, <2>2
  <2> QED
    BY <1>7, <2>1, <2>2
<1>14. RunnersAhead'
  BY <1>1, <1>2, <1>13, AheadKept
<1> QED
  BY <1>8, <1>9, <1>10, <1>12, <1>14 DEF RelayInv

\* A starter lets the baton go when everybody has passed the barrier.
LEMMA BatonPassed ==
  ASSUME RelayInv, program' = program, NEW t \in Relay!Starters, Relay!PassBaton(t)
  PROVE  RelayInv'
<1>1. RelayType /\ StartersInv /\ FinishersInv /\ PlacesInv /\ RunnersAhead
  BY DEF RelayInv
<1>2. /\ pc[t] = "pass" /\ private' = private /\ pc' = [pc EXCEPT ![t] = "done"]
      /\ shared' = [shared EXCEPT !.batons[t] = @ + 1]
  BY DEF Relay!PassBaton, Relay!Go
<1>3. /\ Relay!Starters \subseteq Relay!Runners /\ Relay!Finishers \subseteq Relay!Runners
      /\ Relay!Starters \cap Relay!Finishers = {}
      /\ \A u \in Relay!Finishers : u - TeamCount \in Relay!Starters
  BY RelayRunners
<1>4. shared \in [arrived : SUBSET Relay!Starters, batons : [Relay!Starters -> Nat],
                  position : Nat, counter : {0}, open : {FALSE}]
      /\ pc \in [Relay!Runners -> {"unstarted", "missing", "arrive", "barrier", "pass",
                                   "receive", "finish", "done"}]
  BY <1>1 DEF RelayType
<1>5. /\ shared' \in [arrived : SUBSET Relay!Starters, batons : [Relay!Starters -> Nat],
                      position : Nat, counter : {0}, open : {FALSE}]
      /\ shared'.arrived = shared.arrived /\ shared'.position = shared.position
      /\ \A u \in Relay!Starters \ {t} : shared'.batons[u] = shared.batons[u]
  <2>1. shared.batons[t] \in Nat
    BY <1>4
  <2>2. shared.batons[t] + 1 \in Nat
    BY <2>1
  <2> QED
    BY <1>2, <1>4, <2>2
<1>6. /\ pc' \in [Relay!Runners -> {"unstarted", "missing", "arrive", "barrier", "pass",
                                    "receive", "finish", "done"}]
      /\ pc'[t] = "done" /\ \A u \in Relay!Runners \ {t} : pc'[u] = pc[u]
  BY <1>2, <1>3, <1>4
<1>7. RelayType'
  BY <1>1, <1>2, <1>5, <1>6 DEF RelayType
<1>8. StartersInv'
  BY <1>1, <1>2, <1>3, <1>5, <1>6 DEF StartersInv
<1>9. FinishersInv'
  BY <1>1, <1>2, <1>3, <1>6 DEF FinishersInv
<1>10. FinishersDone' = FinishersDone
  BY <1>3, <1>6 DEF FinishersDone, At
<1>11. PlacesInv'
  BY <1>1, <1>2, <1>5, <1>10 DEF PlacesInv
<1>12. RunnersAhead'
  BY <1>1, <1>2, <1>6, AheadKept
<1> QED
  BY <1>7, <1>8, <1>9, <1>11, <1>12 DEF RelayInv

\* A finisher takes the baton of its own team.
LEMMA BatonReceived ==
  ASSUME RelayInv, program' = program, NEW t \in Relay!Finishers, Relay!ReceiveBaton(t)
  PROVE  RelayInv'
<1>1. RelayType /\ StartersInv /\ FinishersInv /\ PlacesInv /\ RunnersAhead
  BY DEF RelayInv
<1> DEFINE s == t - TeamCount
<1>2. /\ pc[t] = "receive" /\ private' = private /\ pc' = [pc EXCEPT ![t] = "finish"]
      /\ shared' = [shared EXCEPT !.batons[s] = @ - 1] /\ shared.batons[s] > 0
  BY DEF Relay!ReceiveBaton, Relay!Go
<1>3. /\ Relay!Starters \subseteq Relay!Runners /\ Relay!Finishers \subseteq Relay!Runners
      /\ Relay!Starters \cap Relay!Finishers = {} /\ s \in Relay!Starters
      /\ \A u \in Relay!Finishers : u - TeamCount \in Relay!Starters
  BY RelayRunners
<1> HIDE DEF s
<1>4. shared \in [arrived : SUBSET Relay!Starters, batons : [Relay!Starters -> Nat],
                  position : Nat, counter : {0}, open : {FALSE}]
      /\ pc \in [Relay!Runners -> {"unstarted", "missing", "arrive", "barrier", "pass",
                                   "receive", "finish", "done"}]
  BY <1>1 DEF RelayType
<1>5. shared.batons[s] - 1 \in Nat
  <2>1. shared.batons[s] \in Nat
    BY <1>3, <1>4
  <2> QED
    BY <1>2, <2>1
<1>6. /\ shared' \in [arrived : SUBSET Relay!Starters, batons : [Relay!Starters -> Nat],
                      position : Nat, counter : {0}, open : {FALSE}]
      /\ shared'.arrived = shared.arrived /\ shared'.position = shared.position
      /\ \A u \in Relay!Starters \ {s} : shared'.batons[u] = shared.batons[u]
  BY <1>2, <1>4, <1>5
<1>7. /\ pc' \in [Relay!Runners -> {"unstarted", "missing", "arrive", "barrier", "pass",
                                    "receive", "finish", "done"}]
      /\ pc'[t] = "finish" /\ \A u \in Relay!Runners \ {t} : pc'[u] = pc[u]
      /\ \A u \in Relay!Starters : pc'[u] = pc[u]
  BY <1>2, <1>3, <1>4
<1>8. RelayType'
  BY <1>1, <1>2, <1>6, <1>7 DEF RelayType
<1>9. pc[s] = "done"
  BY <1>1, <1>2, <1>3 DEF StartersInv
<1>10. StartersInv'
  BY <1>1, <1>6, <1>7, <1>9 DEF StartersInv
<1>11. FinishersInv'
  BY <1>1, <1>3, <1>7, <1>9 DEF FinishersInv, s
<1>12. FinishersDone' = FinishersDone
  BY <1>2, <1>3, <1>7 DEF FinishersDone, At
<1>13. PlacesInv'
  BY <1>1, <1>2, <1>6, <1>12 DEF PlacesInv
<1>14. RunnersAhead'
  BY <1>1, <1>2, <1>7, AheadKept
<1> QED
  BY <1>8, <1>10, <1>11, <1>13, <1>14 DEF RelayInv

\* A finisher takes the next place.
LEMMA FinisherPlaced ==
  ASSUME RelayInv, program' = program, NEW t \in Relay!Finishers, Relay!Finish(t)
  PROVE  RelayInv'
<1>1. RelayType /\ StartersInv /\ FinishersInv /\ PlacesInv /\ RunnersAhead
  BY DEF RelayInv
<1>2. /\ pc[t] = "finish" /\ pc' = [pc EXCEPT ![t] = "done"]
      /\ shared' = [shared EXCEPT !.position = @ + 1]
      /\ private' = [private EXCEPT !.places[t] = shared.position + 1]
  BY DEF Relay!Finish, Relay!Go
<1>3. /\ Relay!Starters \subseteq Relay!Runners /\ Relay!Finishers \subseteq Relay!Runners
      /\ Relay!Starters \cap Relay!Finishers = {} /\ IsFiniteSet(Relay!Finishers)
  BY RelayRunners
<1>4. /\ shared \in [arrived : SUBSET Relay!Starters, batons : [Relay!Starters -> Nat],
                     position : Nat, counter : {0}, open : {FALSE}]
      /\ pc \in [Relay!Runners -> {"unstarted", "missing", "arrive", "barrier", "pass",
                                   "receive", "finish", "done"}]
      /\ private \in [at : {"create", "join", "done", "crashed"}, index : Nat,
                      places : [Relay!Runners -> Nat]]
  BY <1>1 DEF RelayType
<1>5. PICK n \in Nat : n = shared.position /\ n + 1 \in Nat
  <2>1. shared.position \in Nat
    BY <1>4
  <2> QED
    BY <2>1
<1>6. /\ shared' \in [arrived : SUBSET Relay!Starters, batons : [Relay!Starters -> Nat],
                      position : Nat, counter : {0}, open : {FALSE}]
      /\ shared'.arrived = shared.arrived /\ shared'.batons = shared.batons
      /\ shared'.position = n + 1
  BY <1>2, <1>4, <1>5
<1>7. /\ private' \in [at : {"create", "join", "done", "crashed"}, index : Nat,
                       places : [Relay!Runners -> Nat]]
      /\ private'.at = private.at /\ private'.index = private.index
      /\ private'.places[t] = n + 1
      /\ \A u \in Relay!Runners \ {t} : private'.places[u] = private.places[u]
  BY <1>2, <1>3, <1>4, <1>5
<1>8. /\ pc' \in [Relay!Runners -> {"unstarted", "missing", "arrive", "barrier", "pass",
                                    "receive", "finish", "done"}]
      /\ pc'[t] = "done" /\ \A u \in Relay!Runners \ {t} : pc'[u] = pc[u]
      /\ \A u \in Relay!Starters : pc'[u] = pc[u]
  BY <1>2, <1>3, <1>4
<1>9. RelayType'
  BY <1>6, <1>7, <1>8 DEF RelayType
<1>10. StartersInv'
  BY <1>1, <1>6, <1>8 DEF StartersInv
<1>11. FinishersInv'
  BY <1>1, <1>2, <1>3, <1>8, RelayRunners DEF FinishersInv
<1>12. FinishersDone' = FinishersDone \cup {t} /\ t \notin FinishersDone
  BY <1>2, <1>3, <1>8 DEF FinishersDone, At
<1>13. IsFiniteSet(FinishersDone) /\ Cardinality(FinishersDone) = n
  BY <1>1, <1>3, <1>5, AtType DEF PlacesInv, FinishersDone
<1>14. Cardinality(FinishersDone') = n + 1
  BY <1>12, <1>13, FS_AddElement
<1>15. {private'.places[u] : u \in FinishersDone'} = 1..(n + 1)
  <2>1. {private.places[u] : u \in FinishersDone} = 1..n
    BY <1>1, <1>13 DEF PlacesInv
  <2>2. \A u \in FinishersDone : private'.places[u] = private.places[u]
    BY <1>3, <1>7, <1>12 DEF FinishersDone, At
  <2>3. {private'.places[u] : u \in FinishersDone'} = (1..n) \cup {n + 1}
    BY <1>7, <1>12, <2>1, <2>2
  <2>4. (1..n) \cup {n + 1} = 1..(n + 1)
    BY <1>5
  <2> QED
    BY <2>3, <2>4
<1>16. PlacesInv'
  BY <1>6, <1>14, <1>15 DEF PlacesInv
<1>17. RunnersAhead'
  BY <1>1, <1>2, <1>7, <1>8, AheadKept
<1> QED
  BY <1>9, <1>10, <1>11, <1>16, <1>17 DEF RelayInv

\* Every step keeps what is said of the relay race.
LEMMA RelayKept ==
  ASSUME RelayInv, program \in RelayRaces, program' = program, Relay!Next
  PROVE  RelayInv'
<1>1. \/ \E created \in BOOLEAN : Relay!CreateRunner(Nth(private.index), created)
      \/ Relay!AllCreated \/ Relay!Join \/ Relay!Running
  <2>1. Relay!RelayNext \/ Relay!OrderEffectNext
    BY DEF Relay!Next, Relay!MistNext, RelayRaces
  <2>2. CASE Relay!RelayNext
    BY <2>2 DEF Relay!RelayNext, Nth
  <2>3. CASE Relay!OrderEffectNext
    BY <2>3 DEF Relay!OrderEffectNext, Nth
  <2> QED
    BY <2>1, <2>2, <2>3
<1>2. CASE \E created \in BOOLEAN : Relay!CreateRunner(Nth(private.index), created)
  <2>1. PICK created \in BOOLEAN : Relay!CreateRunner(Nth(private.index), created)
    BY <1>2
  <2> QED
    BY <2>1, RunnerCreated
<1>3. CASE Relay!AllCreated \/ Relay!Join
  BY <1>3, RelayJoined
<1>4. CASE Relay!Running
  BY <1>4, StarterArrives, BatonPassed, BatonReceived, FinisherPlaced DEF Relay!Running
<1> QED
  BY <1>1, <1>2, <1>3, <1>4

\* Nobody gets a place when a starter is missing: who is done has the baton of
\* its own starter, which left the barrier with all the others.
LEMMA MissingStarter ==
  ASSUME RelayInv, NEW t \in Relay!Starters, pc[t] = "missing"
  PROVE  shared.position = 0
<1>1. RelayType /\ StartersInv /\ FinishersInv /\ PlacesInv
  BY DEF RelayInv
<1>2. shared.arrived # Relay!Starters
  BY <1>1 DEF StartersInv
<1>3. \A u \in Relay!Starters : pc[u] # "done"
  BY <1>1, <1>2 DEF StartersInv
<1>4. \A u \in Relay!Finishers : pc[u] # "done"
  BY <1>1, <1>3, RelayRunners DEF FinishersInv
<1>5. FinishersDone = {}
  BY <1>4 DEF FinishersDone, At
<1>6. Cardinality(FinishersDone) = 0
  BY <1>5, FS_EmptySet
<1> QED
  BY <1>1, <1>6 DEF PlacesInv

\* The race is fair.
LEMMA RelayChecked ==
  ASSUME program \in RelayPrograms, program \in RelayRaces => RelayInv
  PROVE  Relay!FairRace
<1>1. CASE program = "mist_cond_var"
  BY <1>1 DEF Relay!FairRace
<1>2. CASE program # "mist_cond_var"
  <2>1. RelayInv
    BY <1>2 DEF RelayPrograms, RelayRaces
  <2>2. StartersInv /\ FinishersInv /\ PlacesInv
    BY <2>1 DEF RelayInv
  <2>3. (\E t \in Relay!Starters : pc[t] \in {"pass", "done"}) =>
          shared.arrived = Relay!Starters
    BY <2>2 DEF StartersInv
  <2>4. \A t \in Relay!Finishers : pc[t] \in {"finish", "done"} =>
          pc[t - TeamCount] = "done"
    BY <2>2 DEF FinishersInv
  <2>5. {private.places[t] : t \in FinishersDone} = 1..Relay!Cardinality(FinishersDone)
    BY <2>2 DEF PlacesInv, Relay!Cardinality, Cardinality
  <2>6. FinishersDone = {u \in Relay!Finishers : pc[u] = "done"}
    BY DEF FinishersDone, At
  <2>7. Relay!StarterMissing => shared.position = 0
    BY <2>1, MissingStarter DEF Relay!StarterMissing
  <2> QED
    BY <2>3, <2>4, <2>5, <2>6, <2>7 DEF Relay!FairRace
<1> QED
  BY <1>1, <1>2

-----------------------------------------------------------------------------
(* The unbounded buffer                                                    *)

\* The two teams.
LEMMA Teams ==
  /\ UnitCount \in Nat \ {0} /\ ProducerCount \in Nat \ {0} /\ ConsumerCount \in Nat \ {0}
  /\ IsFiniteSet(Unbounded!Producers) /\ IsFiniteSet(Unbounded!Consumers)
  /\ Unbounded!Producers \cap Unbounded!Consumers = {}
  /\ Unbounded!Threads = Unbounded!Producers \cup Unbounded!Consumers
  /\ \A t \in Unbounded!Threads : t \in Nat
  /\ \A t \in Unbounded!Producers : t <= ProducerCount
  /\ \A t \in Unbounded!Consumers : t >= ProducerCount + 1
  /\ ProducerCount + 1 \in Unbounded!Consumers
<1>1. UnitCount \in Nat \ {0} /\ ProducerCount \in Nat \ {0} /\ ConsumerCount \in Nat \ {0}
  BY ProgramsAssumption DEF Unbounded!ValidArguments
<1>2. IsFiniteSet(1..ProducerCount)
  BY <1>1, FS_Interval
<1>3. IsFiniteSet((ProducerCount + 1)..(ProducerCount + ConsumerCount))
  <2>1. ProducerCount + 1 \in Int /\ ProducerCount + ConsumerCount \in Int
    BY <1>1
  <2> QED
    BY <2>1, FS_Interval
<1> QED
  BY <1>1, <1>2, <1>3 DEF Unbounded!Producers, Unbounded!Consumers, Unbounded!Threads

\* No unit is made, and nobody has started.
LEMMA UnboundedInitially ==
  ASSUME Unbounded!Init
  PROVE  UnboundedInv
<1>1. PICK permits \in Nat : Unbounded!Start(permits)
  BY Teams DEF Unbounded!Init, Unbounded!InitProduce0, Unbounded!InitProduce2,
               Unbounded!InitPrivate
<1>2. /\ pc = [t \in Unbounded!Threads |-> "unstarted"]
      /\ shared = [next_unit |-> 0, consumed_count |-> 0, queue |-> <<>>,
                   can_consume |-> 0, can_produce |-> permits, consumed |-> <<>>]
      /\ private = [at |-> "producers", index |-> 1, failed |-> {}, joining |-> {},
                    unit |-> [t \in Unbounded!Threads |-> 0],
                    self |-> [t \in Unbounded!Threads |-> FALSE]]
  BY <1>1 DEF Unbounded!Start
<1>3. 0 \in Unbounded!Units
  BY Teams DEF Unbounded!Units
<1>4. UnboundedType
  BY <1>2, <1>3 DEF UnboundedType, SharedType, PrivateType
<1>5. \A t \in Unbounded!Threads : pc[t] = "unstarted"
  BY <1>2
<1>6. Unbounded!Producers \subseteq Unbounded!Threads
      /\ Unbounded!Consumers \subseteq Unbounded!Threads
  BY Teams
<1>7. TeamsInv
  BY <1>2, <1>5, <1>6, Teams DEF TeamsInv
<1>8. Posting = {} /\ Dequeuing = {} /\ Taking = {} /\ \A u : Holding(u) = {}
  BY <1>5, <1>6 DEF Posting, Dequeuing, Taking, Holding, At
<1>9. \A u : Positions(u, <<>>) = {}
  BY DEF Positions
<1>10. Cardinality({}) = 0
  BY FS_EmptySet
<1>11. shared.queue = <<>> /\ shared.consumed = <<>> /\ Len(<<>>) = 0
       /\ shared.next_unit = 0 /\ shared.can_consume = 0 /\ shared.consumed_count = 0
  BY <1>2
<1>12. ASSUME NEW u  PROVE UnitPlaces(u) = 0
  <2>1. /\ Cardinality(Positions(u, shared.queue)) = 0
        /\ Cardinality(Positions(u, shared.consumed)) = 0 /\ Cardinality(Holding(u)) = 0
    BY <1>8, <1>9, <1>10, <1>11
  <2> QED
    BY <2>1 DEF UnitPlaces
<1>13. UnitsInv
  BY <1>8, <1>10, <1>11, <1>12, Teams DEF UnitsInv
<1>14. TakenInv
  BY <1>5, <1>6, <1>8, <1>10, <1>11, Teams DEF TakenInv
<1>15. JoinInv
  BY <1>2 DEF JoinInv
<1> QED
  BY <1>4, <1>7, <1>13, <1>14, <1>15 DEF UnboundedInv

\* What the move of one thread changes in the counts.
LEMMA ThreadMoves ==
  ASSUME NEW t \in Unbounded!Threads,
         \A s \in Unbounded!Threads \ {t} : pc'[s] = pc[s]
  PROVE  /\ Cardinality(Posting) \in Nat /\ Cardinality(Posting') \in Nat
         /\ Cardinality(Posting') = Cardinality(Posting) + Has(Posting', t) - Has(Posting, t)
         /\ Cardinality(Dequeuing) \in Nat /\ Cardinality(Dequeuing') \in Nat
         /\ Cardinality(Dequeuing')
              = Cardinality(Dequeuing) + Has(Dequeuing', t) - Has(Dequeuing, t)
         /\ Cardinality(Taking) \in Nat /\ Cardinality(Taking') \in Nat
         /\ Cardinality(Taking') = Cardinality(Taking) + Has(Taking', t) - Has(Taking, t)
<1>1. /\ IsFiniteSet(Unbounded!Producers) /\ IsFiniteSet(Unbounded!Consumers)
      /\ Unbounded!Producers \subseteq Unbounded!Threads
      /\ Unbounded!Consumers \subseteq Unbounded!Threads
  BY Teams
<1>2. IsFiniteSet(Posting) /\ IsFiniteSet(Dequeuing) /\ IsFiniteSet(Taking)
  BY <1>1, AtType DEF Posting, Dequeuing, Taking
<1>3. /\ Posting \ {t} = Posting' \ {t} /\ Dequeuing \ {t} = Dequeuing' \ {t}
      /\ Taking \ {t} = Taking' \ {t}
  BY <1>1 DEF Posting, Dequeuing, Taking, At
<1> QED
  BY <1>2, <1>3, OneElement

\* What it changes in the number of the holders of one unit.
LEMMA HoldingMoves ==
  ASSUME NEW t \in Unbounded!Threads, NEW u,
         \A s \in Unbounded!Threads \ {t} :
           pc'[s] = pc[s] /\ private'.unit[s] = private.unit[s]
  PROVE  /\ Cardinality(Holding(u)) \in Nat /\ Cardinality(Holding(u)') \in Nat
         /\ Cardinality(Holding(u)')
              = Cardinality(Holding(u)) + Has(Holding(u)', t) - Has(Holding(u), t)
<1>1. IsFiniteSet(Unbounded!Producers) /\ Unbounded!Producers \subseteq Unbounded!Threads
  BY Teams
<1>2. Holding(u) \in SUBSET Unbounded!Producers
  BY DEF Holding
<1>3. IsFiniteSet(Holding(u))
  BY <1>1, <1>2, FS_Subset
<1>4. Holding(u) \ {t} = Holding(u)' \ {t}
  BY <1>1 DEF Holding
<1> QED
  BY <1>3, <1>4, OneElement

\* Who has a unit or waits for one.
Busy == {"enqueue", "post", "wait", "dequeue"}

\* Steps that leave the units where they are.
LEMMA UnitsStay ==
  ASSUME UnitsInv, TakenInv, program' = program,
         shared'.next_unit = shared.next_unit, shared'.queue = shared.queue,
         shared'.consumed = shared.consumed, shared'.can_consume = shared.can_consume,
         shared'.consumed_count = shared.consumed_count,
         private'.unit = private.unit,
         \A s \in Unbounded!Threads : pc'[s] # pc[s] => pc'[s] \notin Busy /\ pc[s] \notin Busy,
         \A s \in Unbounded!Consumers :
           pc'[s] = "done" => pc[s] = "done" \/ shared.consumed_count = UnitCount
  PROVE  UnitsInv' /\ TakenInv'
<1>1. Unbounded!Producers \subseteq Unbounded!Threads
      /\ Unbounded!Consumers \subseteq Unbounded!Threads
  BY Teams
<1>2. Posting' = Posting /\ Dequeuing' = Dequeuing /\ Taking' = Taking
  BY <1>1 DEF Posting, Dequeuing, Taking, At, Busy
<1>3. ASSUME NEW u  PROVE Holding(u)' = Holding(u)
  BY <1>1 DEF Holding, Busy
<1>4. ASSUME NEW u  PROVE UnitPlaces(u)' = UnitPlaces(u)
  BY <1>3 DEF UnitPlaces
<1>5. UnitsInv'
  BY <1>2, <1>4 DEF UnitsInv
<1>6. TakenInv'
  BY <1>2 DEF TakenInv
<1> QED
  BY <1>5, <1>6

\* What main knows of the threads it has joined stays when the threads that
\* are done stay so.
LEMMA JoinStays ==
  ASSUME JoinInv, private'.at = private.at, private'.failed = private.failed,
         private'.joining = private.joining,
         \A s \in Unbounded!Threads : pc[s] = "done" => pc'[s] = "done"
  PROVE  JoinInv'
  BY DEF JoinInv

\* A thread that moves within its own work.
LEMMA TeamsStay ==
  ASSUME TeamsInv, UnboundedType, private'.at = private.at, private'.index = private.index,
         NEW t \in Unbounded!Threads, pc[t] # "unstarted", NEW to, pc' = [pc EXCEPT ![t] = to],
         t \in Unbounded!Producers => to \notin {"wait", "dequeue"},
         t \in Unbounded!Consumers => to \notin {"enqueue", "post"}
  PROVE  TeamsInv'
<1>1. pc'[t] = to /\ \A s \in Unbounded!Threads \ {t} : pc'[s] = pc[s]
  BY DEF UnboundedType
<1>2. Unbounded!Producers \subseteq Unbounded!Threads
      /\ Unbounded!Consumers \subseteq Unbounded!Threads
  BY Teams
<1> QED
  BY <1>1, <1>2 DEF TeamsInv

\* Main creates a thread.
LEMMA ThreadCreated ==
  ASSUME UnboundedInv, program' = program,
         NEW t \in Unbounded!Threads, Unbounded!CreateThread(t)
  PROVE  UnboundedInv'
<1>1. UnboundedType /\ TeamsInv /\ UnitsInv /\ TakenInv /\ JoinInv
  BY DEF UnboundedInv
<1> DEFINE next == IF t + 1 \in Unbounded!TeamOf(private.at) THEN private.at
                   ELSE Unbounded!After(private.at)
<1>2. /\ private.at \in {"producers", "consumers"} /\ private.joining = {}
      /\ t = private.index /\ t \in Unbounded!TeamOf(private.at)
      /\ pc' = [pc EXCEPT ![t] = "start"] /\ UNCHANGED shared
      /\ private' = [private EXCEPT !.index = t + 1, !.at = next]
  BY DEF Unbounded!CreateThread, Unbounded!Go
<1>3. /\ next \in {"producers", "consumers", "join"}
      /\ next = "producers" => t + 1 \in Unbounded!Producers
  BY <1>2 DEF Unbounded!TeamOf, Unbounded!After
<1> HIDE DEF next
<1>4. t + 1 \in Nat /\ t \in Nat
  BY Teams
<1>5. /\ PrivateType' /\ private'.at = next
      /\ private'.index = t + 1 /\ private'.unit = private.unit
  <2>1. PrivateType
    BY <1>1 DEF UnboundedType
  <2> QED
    BY <1>2, <1>3, <1>4, <2>1 DEF PrivateType
<1>6. /\ pc' \in [Unbounded!Threads -> {"unstarted", "start", "claim", "enqueue", "post",
                                        "wait", "dequeue", "done"}]
      /\ pc'[t] = "start" /\ \A s \in Unbounded!Threads \ {t} : pc'[s] = pc[s]
  BY <1>1, <1>2 DEF UnboundedType
<1>7. UnboundedType'
  BY <1>1, <1>2, <1>5, <1>6 DEF UnboundedType, SharedType
<1>8. Unbounded!Producers \subseteq Unbounded!Threads
      /\ Unbounded!Consumers \subseteq Unbounded!Threads
  BY Teams
<1>9. pc[t] = "unstarted"
  BY <1>1, <1>2, <1>4 DEF TeamsInv
<1>10. TeamsInv'
  <2>1. \A s \in Unbounded!Threads : s >= t + 1 => s >= private.index /\ s # t
    BY <1>2, <1>4, Teams
  <2>2. \A s \in Unbounded!Threads : s >= private'.index => pc'[s] = "unstarted"
    BY <1>1, <1>2, <1>5, <1>6, <2>1 DEF TeamsInv
  <2>3. private'.at = "producers" => private'.index <= ProducerCount
    BY <1>3, <1>5, Teams
  <2>4. /\ \A s \in Unbounded!Producers : pc'[s] \notin {"wait", "dequeue"}
        /\ \A s \in Unbounded!Consumers : pc'[s] \notin {"enqueue", "post"}
    BY <1>1, <1>6, <1>8 DEF TeamsInv
  <2> QED
    BY <2>2, <2>3, <2>4 DEF TeamsInv
<1>11. UnitsInv' /\ TakenInv'
  <2>1. \A s \in Unbounded!Threads : pc'[s] # pc[s] => pc'[s] \notin Busy /\ pc[s] \notin Busy
    BY <1>6, <1>9 DEF Busy
  <2>2. \A s \in Unbounded!Consumers : pc'[s] = "done" => pc[s] = "done"
    BY <1>6, <1>8
  <2> QED
    BY <1>1, <1>2, <1>5, <2>1, <2>2, UnitsStay
<1>12. JoinInv'
  BY <1>3, <1>5 DEF JoinInv
<1> QED
  BY <1>7, <1>10, <1>11, <1>12 DEF UnboundedInv

\* The other steps of main: the creation of a team fails, the threads are
\* joined, the simulation is destroyed.
LEMMA MainGoesOn ==
  ASSUME UnboundedInv, program' = program, private.at \notin {"done", "crashed"},
         \/ Unbounded!CreateThreadFails \/ Unbounded!StartJoining \/ Unbounded!JoinCrashes
         \/ Unbounded!Destroy \/ \E t \in Unbounded!Threads : Unbounded!JoinThread(t)
  PROVE  UnboundedInv'
<1>1. UnboundedType /\ TeamsInv /\ UnitsInv /\ TakenInv /\ JoinInv
  BY DEF UnboundedInv
<1>2. PrivateType /\ SharedType
  BY <1>1 DEF UnboundedType
<1>3. Unbounded!Producers \subseteq Unbounded!Threads
      /\ Unbounded!Consumers \subseteq Unbounded!Threads
      /\ ProducerCount + 1 \in Nat /\ ProducerCount \in Nat
  BY Teams
<1>4. SUFFICES
        /\ PrivateType'
        /\ private'.unit = private.unit /\ UNCHANGED pc
        /\ \/ UNCHANGED shared
           \/ shared' = [shared EXCEPT !.can_produce = @ + ProducerCount]
        /\ private'.at \in {"producers", "consumers"} =>
             \/ private'.at = private.at /\ private'.index = private.index
             \/ /\ private.at = "producers" /\ private'.at = "consumers"
                /\ private'.index = ProducerCount + 1
        /\ JoinInv'
  <2>1. /\ SharedType'
        /\ shared'.next_unit = shared.next_unit /\ shared'.queue = shared.queue
        /\ shared'.consumed = shared.consumed /\ shared'.can_consume = shared.can_consume
        /\ shared'.consumed_count = shared.consumed_count
    <3>1. CASE UNCHANGED shared
      BY <1>2, <3>1 DEF SharedType
    <3>2. CASE shared' = [shared EXCEPT !.can_produce = @ + ProducerCount]
      <4>1. shared.can_produce + ProducerCount \in Nat
        <5>1. shared.can_produce \in Nat
          BY <1>2 DEF SharedType
        <5> QED
          BY <1>3, <5>1
      <4> QED
        BY <1>2, <3>2, <4>1 DEF SharedType
    <3> QED
      BY <1>4, <3>1, <3>2
  <2>2. UnboundedType'
    BY <1>1, <1>4, <2>1 DEF UnboundedType
  <2>3. TeamsInv'
    <3>1. CASE private'.at \notin {"producers", "consumers"}
      BY <1>1, <1>4, <3>1 DEF TeamsInv
    <3>2. CASE private'.at = private.at /\ private'.index = private.index
      BY <1>1, <1>4, <3>2 DEF TeamsInv
    <3>3. CASE /\ private.at = "producers" /\ private'.at = "consumers"
               /\ private'.index = ProducerCount + 1
      <4>1. ASSUME NEW s \in Unbounded!Threads, s >= ProducerCount + 1
            PROVE  pc[s] = "unstarted"
        <5>1. private.index \in Nat /\ s \in Nat /\ private.index <= ProducerCount
          BY <1>1, <1>2, <3>3, Teams DEF TeamsInv, PrivateType
        <5>2. s >= private.index
          BY <1>3, <4>1, <5>1
        <5> QED
          BY <1>1, <3>3, <5>2 DEF TeamsInv
      <4> QED
        BY <1>1, <1>4, <3>3, <4>1 DEF TeamsInv
    <3> QED
      BY <1>4, <3>1, <3>2, <3>3
  <2>4. UnitsInv' /\ TakenInv'
    BY <1>1, <1>3, <1>4, <2>1, UnitsStay
  <2> QED
    BY <1>4, <2>2, <2>3, <2>4 DEF UnboundedInv
<1>5. CASE Unbounded!CreateThreadFails
  <2> DEFINE started == {t \in Unbounded!TeamOf(private.at) : pc[t] # "unstarted"}
             next == Unbounded!After(private.at)
  <2>1. /\ private.at \in {"producers", "consumers"} /\ UNCHANGED <<pc, shared>>
        /\ private' = [private EXCEPT !.failed = @ \cup {private.at},
                         !.index = ProducerCount + 1, !.joining = started, !.at = next]
    BY <1>5 DEF Unbounded!CreateThreadFails
  <2>2. started \in SUBSET Unbounded!Threads
    BY <1>3 DEF Unbounded!TeamOf
  <2>3. next \in {"consumers", "join"} /\ (next = "consumers" => private.at = "producers")
    BY <2>1 DEF Unbounded!After
  <2> HIDE DEF started, next
  <2>4. /\ PrivateType'
        /\ private'.unit = private.unit /\ private'.at = next
        /\ private'.index = ProducerCount + 1
    BY <1>2, <1>3, <2>1, <2>2, <2>3 DEF PrivateType
  <2> QED
    BY <2>1, <2>3, <2>4 DEF JoinInv
<1>6. CASE Unbounded!StartJoining
  <2>1. /\ private.at = "join" /\ UNCHANGED pc
        /\ \/ private' = [private EXCEPT !.joining = Unbounded!Threads, !.at = "destroy"]
           \/ private' = [private EXCEPT !.at = "destroy"] /\ private.failed # {}
        /\ \/ UNCHANGED shared
           \/ shared' = [shared EXCEPT !.can_produce = @ + ProducerCount]
    BY <1>6 DEF Unbounded!StartJoining
  <2>2. CASE private' = [private EXCEPT !.joining = Unbounded!Threads, !.at = "destroy"]
    <3>1. JoinInv'
      BY <1>2, <2>2 DEF JoinInv, PrivateType
    <3> QED
      BY <1>2, <2>1, <2>2, <3>1 DEF PrivateType
  <2>3. CASE private' = [private EXCEPT !.at = "destroy"] /\ private.failed # {}
    <3>1. JoinInv'
      BY <1>2, <2>3 DEF JoinInv, PrivateType
    <3> QED
      BY <1>2, <2>1, <2>3, <3>1 DEF PrivateType
  <2> QED
    BY <2>1, <2>2, <2>3
<1>7. CASE \E t \in Unbounded!Threads : Unbounded!JoinThread(t)
  <2>1. PICK t \in Unbounded!Threads : Unbounded!JoinThread(t)
    BY <1>7
  <2>2. /\ pc[t] = "done" /\ UNCHANGED <<pc, shared>>
        /\ private' = [private EXCEPT !.joining = @ \ {t}]
    BY <2>1 DEF Unbounded!JoinThread
  <2>3. JoinInv'
    BY <1>1, <1>2, <2>2 DEF JoinInv, PrivateType
  <2> QED
    BY <1>2, <2>2, <2>3 DEF PrivateType
<1>8. CASE Unbounded!JoinCrashes
  <2>1. private' = [private EXCEPT !.at = "crashed", !.joining = {}] /\ UNCHANGED <<pc, shared>>
    BY <1>8 DEF Unbounded!JoinCrashes
  <2>2. JoinInv'
    BY <1>2, <2>1 DEF JoinInv, PrivateType
  <2> QED
    BY <1>2, <2>1, <2>2 DEF PrivateType
<1>9. CASE Unbounded!Destroy
  <2>1. /\ private.at = "destroy" /\ private.joining = {} /\ UNCHANGED <<pc, shared>>
        /\ private' = [private EXCEPT !.at = "done"]
    BY <1>9 DEF Unbounded!Destroy
  <2>2. JoinInv'
    BY <1>1, <1>2, <2>1 DEF JoinInv, PrivateType
  <2> QED
    BY <1>2, <2>1, <2>2 DEF PrivateType
<1> QED
  BY <1>5, <1>6, <1>7, <1>8, <1>9

\* A thread moves to another location.
ThreadGoes(t, to) ==
  /\ pc[t] \notin {"unstarted", "done"} /\ pc' = [pc EXCEPT ![t] = to]
  /\ private'.at = private.at /\ private'.index = private.index
  /\ private'.failed = private.failed /\ private'.joining = private.joining

\* What every move of a thread keeps.
LEMMA ThreadWorks ==
  ASSUME UnboundedInv, NEW t \in Unbounded!Threads,
         NEW to \in {"claim", "enqueue", "post", "wait", "dequeue", "done"},
         ThreadGoes(t, to),
         t \in Unbounded!Producers => to \notin {"wait", "dequeue"},
         t \in Unbounded!Consumers => to \notin {"enqueue", "post"}
  PROVE  /\ pc' \in [Unbounded!Threads -> {"unstarted", "start", "claim", "enqueue", "post",
                                           "wait", "dequeue", "done"}]
         /\ pc'[t] = to /\ \A s \in Unbounded!Threads \ {t} : pc'[s] = pc[s]
         /\ TeamsInv' /\ JoinInv'
<1>1. UnboundedType /\ TeamsInv /\ JoinInv
  BY DEF UnboundedInv
<1>2. pc[t] \notin {"unstarted", "done"} /\ pc' = [pc EXCEPT ![t] = to]
      /\ private'.at = private.at /\ private'.index = private.index
      /\ private'.failed = private.failed /\ private'.joining = private.joining
  BY DEF ThreadGoes
<1>3. /\ pc' \in [Unbounded!Threads -> {"unstarted", "start", "claim", "enqueue", "post",
                                        "wait", "dequeue", "done"}]
      /\ pc'[t] = to /\ \A s \in Unbounded!Threads \ {t} : pc'[s] = pc[s]
  BY <1>1, <1>2 DEF UnboundedType
<1>4. TeamsInv'
  BY <1>1, <1>2, TeamsStay
<1>5. JoinInv'
  BY <1>1, <1>2, <1>3, JoinStays
<1> QED
  BY <1>3, <1>4, <1>5

\* The steps that neither give nor take a unit: the beginning, and the end when
\* there is nothing left.
LEMMA ThreadIdles ==
  ASSUME UnboundedInv, program' = program, NEW t \in Unbounded!Threads,
         NEW to \in {"claim", "done"}, ThreadGoes(t, to), pc[t] \in {"start", "claim"},
         PrivateType', private'.unit = private.unit, SharedType',
         shared'.next_unit = shared.next_unit, shared'.queue = shared.queue,
         shared'.consumed = shared.consumed, shared'.can_consume = shared.can_consume,
         shared'.consumed_count = shared.consumed_count,
         t \in Unbounded!Consumers /\ to = "done" => shared.consumed_count = UnitCount
  PROVE  UnboundedInv'
<1>1. UnboundedType /\ TeamsInv /\ UnitsInv /\ TakenInv /\ JoinInv
  BY DEF UnboundedInv
<1>2. /\ pc' \in [Unbounded!Threads -> {"unstarted", "start", "claim", "enqueue", "post",
                                        "wait", "dequeue", "done"}]
      /\ pc'[t] = to /\ \A s \in Unbounded!Threads \ {t} : pc'[s] = pc[s]
      /\ TeamsInv' /\ JoinInv'
  BY ThreadWorks
<1>3. UnboundedType'
  BY <1>2 DEF UnboundedType, PrivateType, SharedType
<1>4. \A s \in Unbounded!Threads : pc'[s] # pc[s] => pc'[s] \notin Busy /\ pc[s] \notin Busy
  BY <1>2 DEF Busy
<1>5. \A s \in Unbounded!Consumers :
        pc'[s] = "done" => pc[s] = "done" \/ shared.consumed_count = UnitCount
  BY <1>2, Teams
<1>6. UnitsInv' /\ TakenInv'
  BY <1>1, <1>4, <1>5, UnitsStay
<1> QED
  BY <1>2, <1>3, <1>6 DEF UnboundedInv

\* A thread stores its own identifier, or has none to store.
LEMMA ThreadBegins ==
  ASSUME UnboundedInv, program' = program, NEW t \in Unbounded!Threads,
         Unbounded!StartRoutine(t)
  PROVE  UnboundedInv'
<1>1. SharedType /\ PrivateType
  BY DEF UnboundedInv, UnboundedType, SharedType, PrivateType
<1>2. PICK b \in BOOLEAN : private' = [private EXCEPT !.self[t] = b]
  <2>1. CASE program = "create_threads_pri"
    BY <2>1 DEF Unbounded!StartRoutine
  <2>2. CASE program # "create_threads_pri"
    BY <2>2 DEF Unbounded!StartRoutine
  <2> QED
    BY <2>1, <2>2
<1>3. pc[t] = "start" /\ pc' = [pc EXCEPT ![t] = "claim"] /\ UNCHANGED shared
  BY DEF Unbounded!StartRoutine, Unbounded!Go
<1>4. /\ PrivateType' /\ private'.unit = private.unit /\ private'.at = private.at
      /\ private'.index = private.index /\ private'.failed = private.failed
      /\ private'.joining = private.joining
  BY <1>1, <1>2 DEF PrivateType
<1>5. SharedType'
  BY <1>1, <1>3 DEF SharedType
<1>6. ThreadGoes(t, "claim")
  BY <1>3, <1>4 DEF ThreadGoes
<1> QED
  BY <1>3, <1>4, <1>5, <1>6, ThreadIdles

\* A producer takes the next unit, or leaves when there is none; and the
\* producers of produce2 leave while there are some.
LEMMA UnitClaimed ==
  ASSUME UnboundedInv, program' = program, NEW t \in Unbounded!Threads,
         Unbounded!ClaimUnit(t) \/ Unbounded!ClaimUnit2(t)
  PROVE  UnboundedInv'
<1>1. UnboundedType /\ TeamsInv /\ UnitsInv /\ TakenInv /\ JoinInv /\ SharedType /\ PrivateType
  BY DEF UnboundedInv, UnboundedType, SharedType, PrivateType
<1>2. UnitCount \in Nat \ {0} /\ Unbounded!Producers \cap Unbounded!Consumers = {}
  BY Teams
<1>3. PICK n \in Nat : n = shared.next_unit /\ n <= UnitCount
  BY <1>1 DEF SharedType, UnitsInv
<1>4. pc[t] = "claim" /\ t \in Unbounded!Producers /\ t \notin Unbounded!Consumers
  BY <1>2 DEF Unbounded!ClaimUnit, Unbounded!ClaimUnit2
<1>5. CASE /\ program # "prod_cons_unbound_produce2" /\ n < UnitCount
           /\ private' = [private EXCEPT !.unit[t] = n + 1]
           /\ shared' = [shared EXCEPT !.next_unit = @ + 1]
           /\ pc' = [pc EXCEPT ![t] = "enqueue"]
  <2>1. n + 1 \in Unbounded!Units /\ n + 1 \in Nat /\ n + 1 <= UnitCount
    BY <1>2, <1>3, <1>5 DEF Unbounded!Units
  <2>2. /\ PrivateType' /\ private'.at = private.at /\ private'.index = private.index
        /\ private'.failed = private.failed /\ private'.joining = private.joining
        /\ private'.unit[t] = n + 1
        /\ \A s \in Unbounded!Threads \ {t} : private'.unit[s] = private.unit[s]
    BY <1>1, <1>5, <2>1 DEF PrivateType
  <2>3. /\ SharedType' /\ shared'.next_unit = n + 1 /\ shared'.queue = shared.queue
        /\ shared'.consumed = shared.consumed /\ shared'.can_consume = shared.can_consume
        /\ shared'.consumed_count = shared.consumed_count
    BY <1>1, <1>3, <1>5, <2>1 DEF SharedType
  <2>4. ThreadGoes(t, "enqueue")
    BY <1>4, <1>5, <2>2 DEF ThreadGoes
  <2>5. /\ pc' \in [Unbounded!Threads -> {"unstarted", "start", "claim", "enqueue", "post",
                                          "wait", "dequeue", "done"}]
        /\ pc'[t] = "enqueue" /\ \A s \in Unbounded!Threads \ {t} : pc'[s] = pc[s]
        /\ TeamsInv' /\ JoinInv'
    BY <1>4, <2>4, ThreadWorks
  <2>6. UnboundedType'
    BY <2>2, <2>3, <2>5 DEF UnboundedType, SharedType, PrivateType
  <2>7. /\ Cardinality(Posting') = Cardinality(Posting)
        /\ Cardinality(Dequeuing') = Cardinality(Dequeuing)
        /\ Cardinality(Taking') = Cardinality(Taking)
    <3>1. /\ t \notin Posting /\ t \notin Posting' /\ t \notin Dequeuing /\ t \notin Dequeuing'
          /\ t \notin Taking /\ t \notin Taking'
      BY <1>4, <2>5 DEF Posting, Dequeuing, Taking, At
    <3> QED
      BY <2>5, <3>1, ThreadMoves DEF Has
  <2>8. ASSUME NEW u \in Unbounded!Units
        PROVE  UnitPlaces(u)' = IF u \in 1..shared'.next_unit THEN 1 ELSE 0
    <3>1. Cardinality(Holding(u)) \in Nat
          /\ Cardinality(Holding(u)')
               = Cardinality(Holding(u)) + Has(Holding(u)', t) - Has(Holding(u), t)
      BY <2>2, <2>5, HoldingMoves
    <3>2. t \notin Holding(u) /\ (t \in Holding(u)' <=> u = n + 1)
      BY <1>4, <2>2, <2>5 DEF Holding
    <3>3. Cardinality(Holding(u)') = Cardinality(Holding(u)) + (IF u = n + 1 THEN 1 ELSE 0)
      BY <3>1, <3>2 DEF Has
    <3>4. UnitPlaces(u) = IF u \in 1..n THEN 1 ELSE 0
      BY <1>1, <1>3 DEF UnitsInv
    <3>5. /\ Cardinality(Positions(u, shared.queue)) \in Nat
          /\ Cardinality(Positions(u, shared.consumed)) \in Nat
      BY <1>1, CountType DEF SharedType
    <3>6. UnitPlaces(u)' = UnitPlaces(u) + (IF u = n + 1 THEN 1 ELSE 0)
      BY <2>3, <3>1, <3>3, <3>5 DEF UnitPlaces
    <3>7. u \in Nat
      BY DEF Unbounded!Units
    <3> QED
      BY <1>3, <2>3, <3>4, <3>6, <3>7
  <2>9. UnitsInv'
    BY <1>1, <1>5, <2>1, <2>3, <2>7, <2>8 DEF UnitsInv
  <2>10. TakenInv'
    BY <1>1, <1>4, <2>3, <2>5, <2>7, Teams DEF TakenInv
  <2> QED
    BY <2>5, <2>6, <2>9, <2>10 DEF UnboundedInv
<1>6. CASE /\ pc' = [pc EXCEPT ![t] = "done"] /\ UNCHANGED private
           /\ \/ UNCHANGED shared
              \/ shared' = [shared EXCEPT !.can_produce = @ - 1] /\ shared.can_produce > 0
  <2>1. /\ SharedType' /\ shared'.next_unit = shared.next_unit
        /\ shared'.queue = shared.queue /\ shared'.consumed = shared.consumed
        /\ shared'.can_consume = shared.can_consume
        /\ shared'.consumed_count = shared.consumed_count
    <3>1. CASE UNCHANGED shared
      BY <1>1, <3>1 DEF SharedType
    <3>2. CASE shared' = [shared EXCEPT !.can_produce = @ - 1] /\ shared.can_produce > 0
      <4>1. shared.can_produce \in Nat
        BY <1>1 DEF SharedType
      <4>2. shared.can_produce - 1 \in Nat
        BY <3>2, <4>1
      <4> QED
        BY <1>1, <3>2, <4>2 DEF SharedType
    <3> QED
      BY <1>6, <3>1, <3>2
  <2>2. PrivateType' /\ ThreadGoes(t, "done") /\ private'.unit = private.unit
    BY <1>1, <1>4, <1>6 DEF PrivateType, ThreadGoes
  <2> QED
    BY <1>4, <2>1, <2>2, ThreadIdles
<1>7. CASE Unbounded!ClaimUnit(t)
  BY <1>3, <1>5, <1>6, <1>7 DEF Unbounded!ClaimUnit, Unbounded!Go
<1>8. CASE Unbounded!ClaimUnit2(t)
  <2>1. program = "prod_cons_unbound_produce2" /\ shared.can_produce > 0
    BY <1>8 DEF Unbounded!ClaimUnit2
  <2>2. n < UnitCount
    BY <1>1, <1>2, <1>3, <2>1 DEF UnitsInv
  <2> QED
    BY <1>3, <1>6, <1>8, <2>1, <2>2 DEF Unbounded!ClaimUnit2, Unbounded!Go
<1> QED
  BY <1>7, <1>8

\* A step that moves a thread and changes no record but the shared one.
LEMMA SharedSteps ==
  ASSUME UnboundedInv, NEW t \in Unbounded!Threads,
         NEW to \in {"claim", "enqueue", "post", "wait", "dequeue", "done"},
         pc[t] \notin {"unstarted", "done"}, pc' = [pc EXCEPT ![t] = to],
         UNCHANGED private, SharedType',
         t \in Unbounded!Producers => to \notin {"wait", "dequeue"},
         t \in Unbounded!Consumers => to \notin {"enqueue", "post"}
  PROVE  /\ UnboundedType' /\ TeamsInv' /\ JoinInv'
         /\ pc'[t] = to /\ \A s \in Unbounded!Threads \ {t} : pc'[s] = pc[s]
<1>1. ThreadGoes(t, to)
  BY DEF ThreadGoes
<1>2. /\ pc' \in [Unbounded!Threads -> {"unstarted", "start", "claim", "enqueue", "post",
                                        "wait", "dequeue", "done"}]
      /\ pc'[t] = to /\ \A s \in Unbounded!Threads \ {t} : pc'[s] = pc[s]
      /\ TeamsInv' /\ JoinInv'
  BY <1>1, ThreadWorks
<1>3. UnboundedType'
  BY <1>2 DEF UnboundedInv, UnboundedType, PrivateType
<1> QED
  BY <1>2, <1>3

\* A producer puts the unit it holds into the queue.
LEMMA UnitEnqueued ==
  ASSUME UnboundedInv, program' = program, NEW t \in Unbounded!Threads, Unbounded!Enqueue(t)
  PROVE  UnboundedInv'
<1>1. TeamsInv /\ UnitsInv /\ TakenInv /\ SharedType /\ PrivateType
  BY DEF UnboundedInv, UnboundedType, SharedType, PrivateType
<1>2. /\ pc[t] = "enqueue" /\ pc' = [pc EXCEPT ![t] = "post"] /\ UNCHANGED private
      /\ shared' = [shared EXCEPT !.queue = Append(@, private.unit[t])]
  BY DEF Unbounded!Enqueue, Unbounded!Go
<1>3. t \in Unbounded!Producers /\ t \notin Unbounded!Consumers
  BY <1>1, <1>2, Teams DEF TeamsInv
<1>4. private.unit[t] \in Unbounded!Units /\ shared.queue \in Seq(Unbounded!Units)
      /\ shared.consumed \in Seq(Unbounded!Units)
  BY <1>1 DEF PrivateType, SharedType
<1>5. Append(shared.queue, private.unit[t]) \in Seq(Unbounded!Units)
      /\ Len(Append(shared.queue, private.unit[t])) = Len(shared.queue) + 1
  BY <1>4, RangeAppend
<1>6. /\ SharedType' /\ shared'.queue = Append(shared.queue, private.unit[t])
      /\ shared'.next_unit = shared.next_unit /\ shared'.consumed = shared.consumed
      /\ shared'.can_consume = shared.can_consume
      /\ shared'.consumed_count = shared.consumed_count
  BY <1>1, <1>2, <1>5 DEF SharedType
<1>7. /\ UnboundedType' /\ TeamsInv' /\ JoinInv'
      /\ pc'[t] = "post" /\ \A s \in Unbounded!Threads \ {t} : pc'[s] = pc[s]
  BY <1>2, <1>3, <1>6, SharedSteps
<1>8. /\ t \notin Posting /\ t \in Posting' /\ t \notin Dequeuing /\ t \notin Dequeuing'
      /\ t \notin Taking /\ t \notin Taking'
  BY <1>2, <1>3, <1>7 DEF Posting, Dequeuing, Taking, At
<1>9. /\ Cardinality(Posting) \in Nat /\ Cardinality(Posting') = Cardinality(Posting) + 1
      /\ Cardinality(Dequeuing) \in Nat /\ Cardinality(Dequeuing') = Cardinality(Dequeuing)
      /\ Cardinality(Taking') = Cardinality(Taking)
  BY <1>7, <1>8, ThreadMoves DEF Has
<1>10. ASSUME NEW u \in Unbounded!Units  PROVE UnitPlaces(u)' = UnitPlaces(u)
  <2>1. Cardinality(Holding(u)) \in Nat
        /\ Cardinality(Holding(u)')
             = Cardinality(Holding(u)) + Has(Holding(u)', t) - Has(Holding(u), t)
    BY <1>2, <1>7, HoldingMoves
  <2>2. t \notin Holding(u)' /\ (t \in Holding(u) <=> private.unit[t] = u)
    BY <1>2, <1>3, <1>7 DEF Holding
  <2>3. Cardinality(Holding(u)')
          = Cardinality(Holding(u)) - (IF private.unit[t] = u THEN 1 ELSE 0)
    BY <2>1, <2>2 DEF Has
  <2>4. Cardinality(Positions(u, shared'.queue))
          = Cardinality(Positions(u, shared.queue)) + (IF private.unit[t] = u THEN 1 ELSE 0)
    BY <1>4, <1>6, CountAppend
  <2>5. /\ Cardinality(Positions(u, shared.queue)) \in Nat
        /\ Cardinality(Positions(u, shared.consumed)) \in Nat
    BY <1>4, CountType
  <2> QED
    BY <1>6, <2>1, <2>3, <2>4, <2>5 DEF UnitPlaces
<1>11. shared.can_consume \in Nat /\ Len(shared.queue) \in Nat
  BY <1>1, <1>4 DEF SharedType
<1>12. shared'.can_consume + Cardinality(Dequeuing') + Cardinality(Posting')
         = Len(shared'.queue)
  BY <1>1, <1>5, <1>6, <1>9, <1>11 DEF UnitsInv
<1>13. UnitsInv'
  BY <1>1, <1>6, <1>10, <1>12 DEF UnitsInv
<1>14. TakenInv'
  BY <1>1, <1>3, <1>6, <1>7, <1>9, Teams DEF TakenInv
<1> QED
  BY <1>7, <1>13, <1>14 DEF UnboundedInv

\* It says so with the semaphore, as a consumer takes note of it: the semaphore
\* and those on either side of it still add up to the length of the queue.
LEMMA SemaphoreMoves ==
  ASSUME UnboundedInv, program' = program, NEW t \in Unbounded!Threads,
         Unbounded!PostConsume(t) \/ Unbounded!WaitConsume(t)
  PROVE  UnboundedInv'
<1>1. TeamsInv /\ UnitsInv /\ TakenInv /\ SharedType
  BY DEF UnboundedInv, UnboundedType, SharedType
<1>2. PICK n \in Nat : n = shared.can_consume
  BY <1>1 DEF SharedType
<1>3. Unbounded!Producers \cap Unbounded!Consumers = {}
      /\ Unbounded!Threads = Unbounded!Producers \cup Unbounded!Consumers
  BY Teams
<1>4. PICK m \in Nat, to \in {"claim", "dequeue"} :
        /\ shared' = [shared EXCEPT !.can_consume = m] /\ pc' = [pc EXCEPT ![t] = to]
        /\ UNCHANGED private
        /\ \/ pc[t] = "post" /\ to = "claim" /\ m = n + 1
           \/ pc[t] = "wait" /\ to = "dequeue" /\ m = n - 1
  <2>1. CASE Unbounded!PostConsume(t)
    <3>1. /\ shared' = [shared EXCEPT !.can_consume = n + 1] /\ n + 1 \in Nat
          /\ pc' = [pc EXCEPT ![t] = "claim"] /\ UNCHANGED private /\ pc[t] = "post"
      BY <1>2, <2>1 DEF Unbounded!PostConsume, Unbounded!Go
    <3> QED
      BY <3>1
  <2>2. CASE Unbounded!WaitConsume(t)
    <3>1. /\ shared' = [shared EXCEPT !.can_consume = n - 1] /\ n - 1 \in Nat
          /\ pc' = [pc EXCEPT ![t] = "dequeue"] /\ UNCHANGED private /\ pc[t] = "wait"
      BY <1>2, <2>2 DEF Unbounded!WaitConsume, Unbounded!Go
    <3> QED
      BY <3>1
  <2> QED
    BY <2>1, <2>2
<1>5. /\ SharedType' /\ shared'.can_consume = m
      /\ shared'.queue = shared.queue /\ shared'.consumed = shared.consumed
      /\ shared'.next_unit = shared.next_unit
      /\ shared'.consumed_count = shared.consumed_count
  BY <1>1, <1>4 DEF SharedType
<1>6. /\ pc[t] = "post" => t \in Unbounded!Producers /\ t \notin Unbounded!Consumers
      /\ pc[t] = "wait" => t \in Unbounded!Consumers /\ t \notin Unbounded!Producers
  BY <1>1, <1>3 DEF TeamsInv
<1>7. /\ UnboundedType' /\ TeamsInv' /\ JoinInv'
      /\ pc'[t] = to /\ \A s \in Unbounded!Threads \ {t} : pc'[s] = pc[s]
  BY <1>4, <1>5, <1>6, SharedSteps
<1>8. /\ Cardinality(Posting) \in Nat /\ Cardinality(Posting') \in Nat
      /\ Cardinality(Posting') = Cardinality(Posting) + Has(Posting', t) - Has(Posting, t)
      /\ Cardinality(Dequeuing) \in Nat /\ Cardinality(Dequeuing') \in Nat
      /\ Cardinality(Dequeuing')
           = Cardinality(Dequeuing) + Has(Dequeuing', t) - Has(Dequeuing, t)
      /\ Cardinality(Taking) \in Nat /\ Cardinality(Taking') \in Nat
      /\ Cardinality(Taking') = Cardinality(Taking) + Has(Taking', t) - Has(Taking, t)
  BY <1>7, ThreadMoves
<1>9. m + Cardinality(Dequeuing') + Cardinality(Posting')
        = n + Cardinality(Dequeuing) + Cardinality(Posting)
      /\ Cardinality(Taking') = Cardinality(Taking)
  <2>1. CASE pc[t] = "post" /\ to = "claim" /\ m = n + 1
    <3>1. /\ t \in Posting /\ t \notin Posting' /\ t \notin Dequeuing /\ t \notin Dequeuing'
          /\ t \notin Taking /\ t \notin Taking'
      BY <1>6, <1>7, <2>1 DEF Posting, Dequeuing, Taking, At
    <3> QED
      BY <1>8, <2>1, <3>1 DEF Has
  <2>2. CASE pc[t] = "wait" /\ to = "dequeue" /\ m = n - 1
    <3>1. /\ t \notin Posting /\ t \notin Posting' /\ t \notin Dequeuing /\ t \in Dequeuing'
          /\ t \in Taking /\ t \in Taking'
      BY <1>6, <1>7, <2>2 DEF Posting, Dequeuing, Taking, At
    <3> QED
      BY <1>8, <2>2, <3>1 DEF Has
  <2> QED
    BY <1>4, <2>1, <2>2
<1>10. ASSUME NEW u  PROVE UnitPlaces(u)' = UnitPlaces(u)
  <2>1. Holding(u)' = Holding(u)
    BY <1>3, <1>4, <1>7 DEF Holding
  <2> QED
    BY <1>5, <2>1 DEF UnitPlaces
<1>11. UnitsInv'
  BY <1>1, <1>2, <1>5, <1>9, <1>10 DEF UnitsInv
<1>12. TakenInv'
  BY <1>1, <1>3, <1>4, <1>5, <1>7, <1>9 DEF TakenInv
<1> QED
  BY <1>7, <1>11, <1>12 DEF UnboundedInv

\* A consumer claims a consumption, or leaves when all are claimed.
LEMMA ConsumptionClaimed ==
  ASSUME UnboundedInv, program' = program, NEW t \in Unbounded!Threads,
         Unbounded!ClaimConsumption(t)
  PROVE  UnboundedInv'
<1>1. TeamsInv /\ UnitsInv /\ TakenInv /\ SharedType /\ PrivateType
  BY DEF UnboundedInv, UnboundedType, SharedType, PrivateType
<1>2. Unbounded!Producers \cap Unbounded!Consumers = {} /\ UnitCount \in Nat
      /\ Unbounded!Threads = Unbounded!Producers \cup Unbounded!Consumers
  BY Teams
<1>3. PICK n \in Nat : n = shared.consumed_count /\ n <= UnitCount
  BY <1>1 DEF SharedType, TakenInv
<1>4. /\ pc[t] = "claim" /\ t \in Unbounded!Consumers /\ t \notin Unbounded!Producers
      /\ UNCHANGED private
      /\ \/ /\ n < UnitCount /\ shared' = [shared EXCEPT !.consumed_count = n + 1]
            /\ pc' = [pc EXCEPT ![t] = "wait"]
         \/ n = UnitCount /\ UNCHANGED shared /\ pc' = [pc EXCEPT ![t] = "done"]
  BY <1>2, <1>3 DEF Unbounded!ClaimConsumption, Unbounded!Go
<1>5. CASE n = UnitCount /\ UNCHANGED shared /\ pc' = [pc EXCEPT ![t] = "done"]
  <2>1. SharedType' /\ PrivateType' /\ ThreadGoes(t, "done")
    BY <1>1, <1>4, <1>5 DEF SharedType, PrivateType, ThreadGoes
  <2> QED
    BY <1>3, <1>4, <1>5, <2>1, ThreadIdles
<1>6. CASE /\ n < UnitCount /\ shared' = [shared EXCEPT !.consumed_count = n + 1]
           /\ pc' = [pc EXCEPT ![t] = "wait"]
  <2>1. /\ SharedType' /\ shared'.consumed_count = n + 1
        /\ shared'.queue = shared.queue /\ shared'.consumed = shared.consumed
        /\ shared'.next_unit = shared.next_unit /\ shared'.can_consume = shared.can_consume
    BY <1>1, <1>3, <1>6 DEF SharedType
  <2>2. /\ UnboundedType' /\ TeamsInv' /\ JoinInv'
        /\ pc'[t] = "wait" /\ \A s \in Unbounded!Threads \ {t} : pc'[s] = pc[s]
    BY <1>4, <1>6, <2>1, SharedSteps
  <2>3. /\ t \notin Posting /\ t \notin Posting' /\ t \notin Dequeuing /\ t \notin Dequeuing'
        /\ t \notin Taking /\ t \in Taking'
    BY <1>4, <2>2 DEF Posting, Dequeuing, Taking, At
  <2>4. /\ Cardinality(Posting') = Cardinality(Posting)
        /\ Cardinality(Dequeuing') = Cardinality(Dequeuing)
        /\ Cardinality(Taking) \in Nat /\ Cardinality(Taking') = Cardinality(Taking) + 1
    BY <2>2, <2>3, ThreadMoves DEF Has
  <2>5. ASSUME NEW u  PROVE UnitPlaces(u)' = UnitPlaces(u)
    <3>1. Holding(u)' = Holding(u)
      BY <1>2, <1>4, <2>2 DEF Holding
    <3> QED
      BY <2>1, <3>1 DEF UnitPlaces
  <2>6. UnitsInv'
    BY <1>1, <2>1, <2>4, <2>5 DEF UnitsInv
  <2>7. Len(shared.consumed) \in Nat
    BY <1>1 DEF SharedType
  <2>8. shared'.consumed_count = Len(shared'.consumed) + Cardinality(Taking')
    BY <1>1, <1>3, <2>1, <2>4, <2>7 DEF TakenInv
  <2>9. \A s \in Unbounded!Consumers : pc'[s] # "done"
    BY <1>1, <1>2, <1>3, <1>6, <2>2 DEF TakenInv
  <2>10. TakenInv'
    BY <1>2, <1>3, <1>6, <2>1, <2>8, <2>9 DEF TakenInv
  <2> QED
    BY <2>2, <2>6, <2>10 DEF UnboundedInv
<1> QED
  BY <1>4, <1>5, <1>6

\* A consumer takes the unit at the head of the queue: there is one.
LEMMA UnitDequeued ==
  ASSUME UnboundedInv, program' = program, NEW t \in Unbounded!Threads, Unbounded!Dequeue(t)
  PROVE  UnboundedInv'
<1>1. TeamsInv /\ UnitsInv /\ TakenInv /\ SharedType
  BY DEF UnboundedInv, UnboundedType, SharedType
<1>2. Unbounded!Producers \cap Unbounded!Consumers = {} /\ UnitCount \in Nat
      /\ Unbounded!Threads = Unbounded!Producers \cup Unbounded!Consumers
  BY Teams
<1>3. pc[t] = "dequeue" /\ pc' = [pc EXCEPT ![t] = "claim"] /\ UNCHANGED private
  BY DEF Unbounded!Dequeue, Unbounded!Go
<1>4. t \in Unbounded!Consumers /\ t \notin Unbounded!Producers
  BY <1>1, <1>2, <1>3 DEF TeamsInv
<1>5. shared.queue \in Seq(Unbounded!Units) /\ shared.consumed \in Seq(Unbounded!Units)
      /\ shared.can_consume \in Nat /\ Len(shared.queue) \in Nat
      /\ Len(shared.consumed) \in Nat
  BY <1>1 DEF SharedType
<1>6. \A s \in Unbounded!Threads \ {t} : pc'[s] = pc[s]
  BY <1>3 DEF UnboundedInv, UnboundedType
<1>7. /\ Cardinality(Posting) \in Nat /\ Cardinality(Posting') \in Nat
      /\ Cardinality(Posting') = Cardinality(Posting) + Has(Posting', t) - Has(Posting, t)
      /\ Cardinality(Dequeuing) \in Nat /\ Cardinality(Dequeuing') \in Nat
      /\ Cardinality(Dequeuing')
           = Cardinality(Dequeuing) + Has(Dequeuing', t) - Has(Dequeuing, t)
      /\ Cardinality(Taking) \in Nat /\ Cardinality(Taking') \in Nat
      /\ Cardinality(Taking') = Cardinality(Taking) + Has(Taking', t) - Has(Taking, t)
  BY <1>6, ThreadMoves
<1>8. pc'[t] = "claim"
  BY <1>3 DEF UnboundedInv, UnboundedType
<1>9. /\ t \notin Posting /\ t \notin Posting' /\ t \in Dequeuing /\ t \notin Dequeuing'
      /\ t \in Taking /\ t \notin Taking'
  BY <1>3, <1>4, <1>8 DEF Posting, Dequeuing, Taking, At
<1>10. /\ Cardinality(Posting') = Cardinality(Posting)
       /\ Cardinality(Dequeuing') = Cardinality(Dequeuing) - 1
       /\ Cardinality(Taking') = Cardinality(Taking) - 1
  BY <1>7, <1>9 DEF Has
<1>11. shared.queue # <<>>
  <2>1. Len(shared.queue) > 0
    BY <1>1, <1>5, <1>7, <1>10 DEF UnitsInv
  <2> QED
    BY <2>1
<1> DEFINE x == Head(shared.queue)
<1>12. shared' = [shared EXCEPT !.consumed = Append(@, x), !.queue = Tail(@)]
  BY <1>11 DEF Unbounded!Dequeue
<1>13. /\ x \in Unbounded!Units /\ Tail(shared.queue) \in Seq(Unbounded!Units)
       /\ Len(Tail(shared.queue)) = Len(shared.queue) - 1
  BY <1>5, <1>11, RangeTail
<1>14. \A u : Cardinality(Positions(u, shared.queue))
                = Cardinality(Positions(u, Tail(shared.queue))) + (IF x = u THEN 1 ELSE 0)
  BY <1>5, <1>11, CountTail
<1> HIDE DEF x
<1>15. /\ Append(shared.consumed, x) \in Seq(Unbounded!Units)
       /\ Len(Append(shared.consumed, x)) = Len(shared.consumed) + 1
  BY <1>5, <1>13, RangeAppend
<1>16. /\ SharedType' /\ shared'.queue = Tail(shared.queue)
       /\ shared'.consumed = Append(shared.consumed, x)
       /\ shared'.next_unit = shared.next_unit /\ shared'.can_consume = shared.can_consume
       /\ shared'.consumed_count = shared.consumed_count
  BY <1>1, <1>12, <1>13, <1>15 DEF SharedType
<1>17. UnboundedType' /\ TeamsInv' /\ JoinInv'
  BY <1>3, <1>4, <1>16, SharedSteps
<1>18. ASSUME NEW u \in Unbounded!Units  PROVE UnitPlaces(u)' = UnitPlaces(u)
  <2>1. Holding(u)' = Holding(u)
    BY <1>2, <1>3, <1>4, <1>6, <1>8 DEF Holding
  <2>2. Cardinality(Positions(u, shared'.consumed))
          = Cardinality(Positions(u, shared.consumed)) + (IF x = u THEN 1 ELSE 0)
    BY <1>5, <1>13, <1>16, CountAppend
  <2>3. /\ Cardinality(Positions(u, shared'.queue)) \in Nat
        /\ Cardinality(Positions(u, shared.consumed)) \in Nat
    BY <1>5, <1>13, <1>16, CountType
  <2>4. Cardinality(Positions(u, shared.queue))
          = Cardinality(Positions(u, shared'.queue)) + (IF x = u THEN 1 ELSE 0)
    BY <1>14, <1>16
  <2> QED
    BY <2>1, <2>2, <2>3, <2>4 DEF UnitPlaces
<1>19. shared'.can_consume + Cardinality(Dequeuing') + Cardinality(Posting')
         = Len(shared'.queue)
  <2>1. PICK a \in Nat, b \in Nat, c \in Nat, d \in Nat :
          /\ a = shared.can_consume /\ b = Cardinality(Dequeuing)
          /\ c = Cardinality(Posting) /\ d = Len(shared.queue)
    BY <1>5, <1>7
  <2>2. a + b + c = d
    BY <1>1, <2>1 DEF UnitsInv
  <2>3. shared'.can_consume = a /\ Len(shared'.queue) = d - 1
    BY <1>13, <1>16, <2>1
  <2>4. Cardinality(Dequeuing') = b - 1 /\ Cardinality(Posting') = c
    BY <1>10, <2>1
  <2>5. a + (b - 1) + c = d - 1
    BY <2>2
  <2> QED
    BY <2>3, <2>4, <2>5
<1>20. UnitsInv'
  BY <1>1, <1>16, <1>18, <1>19 DEF UnitsInv
<1>21. shared'.consumed_count = Len(shared'.consumed) + Cardinality(Taking')
  BY <1>1, <1>5, <1>7, <1>10, <1>15, <1>16 DEF TakenInv
<1>22. TakenInv'
  BY <1>1, <1>2, <1>6, <1>8, <1>16, <1>21 DEF TakenInv
<1> QED
  BY <1>17, <1>20, <1>22 DEF UnboundedInv

\* Every step keeps what is said of the units.
LEMMA UnboundedKept ==
  ASSUME UnboundedInv, program' = program, Unbounded!Next
  PROVE  UnboundedInv'
<1>1. /\ private.at \notin {"done", "crashed"}
      /\ \/ Unbounded!MainSteps
         \/ \E t \in Unbounded!Threads :
              \/ Unbounded!StartRoutine(t)
              \/ Unbounded!ProducerSteps(t) \/ Unbounded!ConsumerSteps(t)
  BY DEF Unbounded!Next
<1>2. CASE Unbounded!MainSteps
  BY <1>1, <1>2, ThreadCreated, MainGoesOn DEF Unbounded!MainSteps
<1>3. ASSUME NEW t \in Unbounded!Threads,
             \/ Unbounded!StartRoutine(t)
             \/ Unbounded!ProducerSteps(t) \/ Unbounded!ConsumerSteps(t)
      PROVE  UnboundedInv'
  <2>1. \/ Unbounded!StartRoutine(t)
        \/ Unbounded!ClaimUnit(t) \/ Unbounded!ClaimUnit2(t)
        \/ Unbounded!Enqueue(t)
        \/ Unbounded!PostConsume(t) \/ Unbounded!WaitConsume(t)
        \/ Unbounded!ClaimConsumption(t)
        \/ Unbounded!Dequeue(t)
    BY <1>3 DEF Unbounded!ProducerSteps, Unbounded!ConsumerSteps
  <2> QED
    BY <2>1, ThreadBegins, UnitClaimed, UnitEnqueued, SemaphoreMoves, ConsumptionClaimed,
       UnitDequeued
<1> QED
  BY <1>1, <1>2, <1>3

\* Main destroys the simulation, if no creation failed, when every thread is
\* done and every unit was consumed.
LEMMA UnboundedDestroysIdle ==
  ASSUME UnboundedInv
  PROVE  Unbounded!DestroysIdle
<1>1. TakenInv /\ JoinInv /\ SharedType
  BY DEF UnboundedInv, UnboundedType, SharedType
<1> SUFFICES ASSUME private.at = "done", private.failed = {}
             PROVE  /\ \A t \in Unbounded!Threads : pc[t] = "done"
                    /\ Len(shared.consumed) = UnitCount
  BY DEF Unbounded!DestroysIdle
<1>2. \A t \in Unbounded!Threads : pc[t] = "done"
  BY <1>1 DEF JoinInv
<1>3. \A t \in Unbounded!Consumers : pc[t] = "done"
  BY <1>2, Teams
<1>4. shared.consumed_count = UnitCount
  BY <1>1, <1>3, Teams DEF TakenInv
<1>5. Taking = {}
  BY <1>3 DEF Taking, At
<1>6. Cardinality(Taking) = 0
  BY <1>5, FS_EmptySet
<1>7. Len(shared.consumed) \in Nat
  BY <1>1 DEF SharedType
<1>8. Len(shared.consumed) = UnitCount
  BY <1>1, <1>4, <1>6, <1>7 DEF TakenInv
<1> QED
  BY <1>2, <1>8

\* What is proved of the units is what the runs check.
LEMMA UnboundedChecked ==
  ASSUME UnboundedInv
  PROVE  Unbounded!UnitsConserved
<1>1. UnitsInv
  BY DEF UnboundedInv
<1>2. Unbounded!UnitsConserved
  <2>1. ASSUME NEW u
        PROVE  /\ {i \in 1..Len(shared.queue) : shared.queue[i] = u}
                    = Positions(u, shared.queue)
               /\ {i \in 1..Len(shared.consumed) : shared.consumed[i] = u}
                    = Positions(u, shared.consumed)
               /\ {t \in Unbounded!InHand : private.unit[t] = u} = Holding(u)
    BY DEF Positions, Holding, Unbounded!InHand
  <2>2. /\ {t \in Unbounded!Consumers : pc[t] = "dequeue"} = Dequeuing
        /\ {t \in Unbounded!Producers : pc[t] = "post"} = Posting
    BY DEF Dequeuing, Posting, At
  <2>3. \A S : Unbounded!Cardinality(S) = Cardinality(S)
    BY DEF Unbounded!Cardinality, Cardinality
  <2>4. ASSUME NEW u
        PROVE  UnitPlaces(u)
                 = Unbounded!Quantify(1..Len(shared.queue), LAMBDA i : shared.queue[i] = u)
                   + Unbounded!Quantify(1..Len(shared.consumed),
                                        LAMBDA i : shared.consumed[i] = u)
                   + Unbounded!Quantify(Unbounded!InHand, LAMBDA t : private.unit[t] = u)
    BY <2>1, <2>3 DEF UnitPlaces, Unbounded!Quantify
  <2>5. /\ Unbounded!Quantify(Unbounded!Consumers, LAMBDA t : pc[t] = "dequeue")
             = Cardinality(Dequeuing)
        /\ Unbounded!Quantify(Unbounded!Producers, LAMBDA t : pc[t] = "post")
             = Cardinality(Posting)
    BY <2>2, <2>3 DEF Unbounded!Quantify
  <2>6. /\ \A u \in Unbounded!Units :
             UnitPlaces(u) = IF u \in 1..shared.next_unit THEN 1 ELSE 0
        /\ shared.can_consume + Cardinality(Dequeuing) + Cardinality(Posting)
             = Len(shared.queue)
    BY <1>1 DEF UnitsInv
  <2> QED
    BY <2>4, <2>5, <2>6 DEF Unbounded!UnitsConserved, Unbounded!Quantify
<1> QED
  BY <1>2

-----------------------------------------------------------------------------
(* All the programs                                                        *)

\* Each program begins as its own component says.
LEMMA LostInitially ==
  ASSUME Init
  PROVE  LostInv
<1>1. CASE Unbounded!Init
  <2>1. program \in UnboundedPrograms
    BY <1>1 DEF Unbounded!Init, Unbounded!InitProduce0, Unbounded!InitProduce2,
                Unbounded!InitPrivate, UnboundedPrograms
  <2> QED
    BY <1>1, <2>1, UnboundedInitially DEF LostInv, UnboundedPrograms, BoundedPrograms
<1>2. CASE Bounded!Init
  <2>1. program \in BoundedPrograms
    BY <1>2 DEF Bounded!Init, Bounded!InitBound, Bounded!InitBoundMod, BoundedPrograms
  <2> QED
    BY <1>2, <2>1, BufferInitially DEF LostInv, UnboundedPrograms, BoundedPrograms
<1>3. CASE Greeting!Init
  <2>1. program \in GreetingPrograms
    BY <1>3 DEF Greeting!Init, Greeting!InitSemaphor, Greeting!InitSemaphor2,
                Greeting!InitNamed, Greeting!InitBusyWait, Greeting!InitDelayed,
                Greeting!InitCondSafe, Greeting!InitShared, Greeting!InitPrivate,
                Greeting!InitPlain, Greeting!InitStandard, GreetingPrograms
  <2> QED
    BY <2>1 DEF LostInv, UnboundedPrograms, BoundedPrograms, GreetingPrograms
<1>4. CASE Counters!Init
  <2>1. CASE Counters!InitPinata
    <3>1. program = "birthday_pinata"
      BY <2>1 DEF Counters!InitPinata
    <3> QED
      BY <2>1, <3>1, PinataInitially DEF LostInv, UnboundedPrograms, BoundedPrograms
  <2>2. CASE Counters!InitRace
    <3>1. program = "position_race"
      BY <2>2 DEF Counters!InitRace
    <3> QED
      BY <2>2, <3>1, RaceInitially DEF LostInv, UnboundedPrograms, BoundedPrograms
  <2>3. CASE Counters!InitShotPut \/ Counters!InitLottery
    <3>1. program \in {"team_shot_put", "grandma_lottery"}
      BY <2>3 DEF Counters!InitShotPut, Counters!InitLottery
    <3> QED
      BY <3>1 DEF LostInv, UnboundedPrograms, BoundedPrograms
  <2> QED
    BY <1>4, <2>1, <2>2, <2>3 DEF Counters!Init
<1>5. CASE Relay!Init
  <2>1. CASE Relay!InitRelay \/ Relay!InitOrderEffect
    <3>1. program \in {"relay_race", "relay_race_order_effect"}
      BY <2>1 DEF Relay!InitRelay, Relay!InitOrderEffect
    <3> QED
      BY <2>1, <3>1, RelayInitially DEF LostInv, UnboundedPrograms, BoundedPrograms
  <2>2. CASE Relay!InitMist
    <3>1. program = "mist_cond_var"
      BY <2>2 DEF Relay!InitMist
    <3> QED
      BY <3>1 DEF LostInv, UnboundedPrograms, BoundedPrograms
  <2> QED
    BY <1>5, <2>1, <2>2 DEF Relay!Init
<1>6. CASE program = "dining_philosophers" /\ Dining!Init
  BY <1>6, DiningInitially DEF LostInv, UnboundedPrograms, BoundedPrograms
<1>7. CASE Serial!Init
  <2>1. program \in SerialPrograms
    BY <1>7 DEF Serial!Init, Serial!InitSerial, Serial!InitSerialOptimized,
                Serial!InitOpenmp, SerialPrograms
  <2> QED
    BY <2>1 DEF LostInv, UnboundedPrograms, BoundedPrograms, SerialPrograms
<1>8. CASE program \in {"fence_parallelization", "zippass_pthread", "pthread_optimized"}
  BY <1>8 DEF LostInv, UnboundedPrograms, BoundedPrograms
<1> QED
  BY <1>1, <1>2, <1>3, <1>4, <1>5, <1>6, <1>7, <1>8 DEF Init

\* The records stay what they are while nothing moves.
LEMMA LostStutters ==
  ASSUME LostInv, UNCHANGED vars
  PROVE  LostInv'
<1>1. program' = program /\ pc' = pc /\ shared' = shared /\ private' = private
  BY DEF vars
<1>2. UnboundedInv' <=> UnboundedInv
  BY <1>1 DEF UnboundedInv, UnboundedType, SharedType, PrivateType, TeamsInv, UnitsInv,
              TakenInv, JoinInv, UnitPlaces, Holding, Posting, Dequeuing, Taking
<1>3. BufferInv' <=> BufferInv
  BY <1>1 DEF BufferInv, BufferType
<1>4. (PinataInv' <=> PinataInv) /\ (RaceInv' <=> RaceInv)
  BY <1>1 DEF PinataInv, RaceInv, ContestType
<1>5. ASSUME RelayInv  PROVE RelayInv'
  <2>1. RelayType /\ StartersInv /\ FinishersInv /\ PlacesInv /\ RunnersAhead
    BY <1>5 DEF RelayInv
  <2>2. RelayType' /\ StartersInv' /\ FinishersInv'
    BY <1>1, <2>1 DEF RelayType, StartersInv, FinishersInv
  <2>3. PlacesInv'
    BY <1>1, <2>1 DEF PlacesInv, FinishersDone
  <2>4. RunnersAhead'
    BY <1>1, <2>1, AheadKept
  <2> QED
    BY <2>2, <2>3, <2>4 DEF RelayInv
<1>6. ASSUME DiningInv  PROVE DiningInv'
  <2>1. DiningType'
    BY <1>1, <1>6 DEF DiningInv, DiningType
  <2> QED
    BY <1>1, <1>6, <2>1, DiningStill
<1> QED
  BY <1>1, <1>2, <1>3, <1>4, <1>5, <1>6 DEF LostInv

\* Every step is one of the program that runs.
LEMMA LostKept ==
  ASSUME LostInv, Next
  PROVE  LostInv'
<1>1. /\ program' = program
      /\ \/ UnboundedNext \/ BoundedNext \/ GreetingNext \/ CountersNext
         \/ RelayNext \/ DiningNext \/ FenceNext \/ SearchNext
  BY DEF Next
<1>2. CASE UnboundedNext
  <2>1. program \in UnboundedPrograms /\ Unbounded!Next
    BY <1>2 DEF UnboundedNext
  <2>2. UnboundedInv'
    BY <1>1, <2>1, UnboundedKept DEF LostInv
  <2> QED
    BY <1>1, <2>1, <2>2 DEF LostInv, UnboundedPrograms, BoundedPrograms
<1>3. CASE BoundedNext
  <2>1. program \in BoundedPrograms /\ Bounded!Next
    BY <1>3 DEF BoundedNext
  <2>2. BufferInv'
    BY <2>1, BufferStays DEF LostInv
  <2> QED
    BY <1>1, <2>1, <2>2 DEF LostInv, UnboundedPrograms, BoundedPrograms
<1>4. CASE CountersNext
  <2>1. program \in CounterPrograms /\ Counters!Next
    BY <1>4 DEF CountersNext
  <2>2. CASE program = "birthday_pinata"
    <3>1. PinataInv'
      BY <2>1, <2>2, PinataKept DEF LostInv
    <3> QED
      BY <1>1, <2>2, <3>1 DEF LostInv, UnboundedPrograms, BoundedPrograms
  <2>3. CASE program = "position_race"
    <3>1. RaceInv'
      BY <1>1, <2>1, <2>3, RaceKept DEF LostInv
    <3> QED
      BY <1>1, <2>3, <3>1 DEF LostInv, UnboundedPrograms, BoundedPrograms
  <2>4. CASE program \in {"team_shot_put", "grandma_lottery"}
    BY <1>1, <2>4 DEF LostInv, UnboundedPrograms, BoundedPrograms
  <2> QED
    BY <2>1, <2>2, <2>3, <2>4 DEF CounterPrograms
<1>5. CASE RelayNext
  <2>1. program \in RelayPrograms /\ Relay!Next
    BY <1>5 DEF RelayNext
  <2>2. CASE program \in RelayRaces
    <3>1. RelayInv
      BY <2>2 DEF LostInv, RelayRaces
    <3>2. RelayInv'
      BY <1>1, <2>1, <2>2, <3>1, RelayKept
    <3> QED
      BY <1>1, <2>2, <3>2 DEF LostInv, UnboundedPrograms, BoundedPrograms, RelayRaces
  <2>3. CASE program = "mist_cond_var"
    BY <1>1, <2>3 DEF LostInv, UnboundedPrograms, BoundedPrograms
  <2> QED
    BY <2>1, <2>2, <2>3 DEF RelayPrograms, RelayRaces
<1>6. CASE DiningNext
  <2>1. program = "dining_philosophers" /\ Dining!Next
    BY <1>6 DEF DiningNext
  <2>2. DiningInv'
    BY <2>1, DiningKept DEF LostInv
  <2> QED
    BY <1>1, <2>1, <2>2 DEF LostInv, UnboundedPrograms, BoundedPrograms
<1>7. CASE GreetingNext \/ FenceNext \/ SearchNext
  <2>1. program \in GreetingPrograms \cup SearchPrograms
                      \cup {"fence_parallelization", "pthread_optimized"}
    BY <1>7 DEF GreetingNext, FenceNext, SearchNext, SearchPrograms
  <2> QED
    BY <1>1, <2>1 DEF LostInv, UnboundedPrograms, BoundedPrograms, GreetingPrograms,
                      SearchPrograms, SerialPrograms
<1> QED
  BY <1>1, <1>2, <1>3, <1>4, <1>5, <1>6, <1>7

\* In a state where the invariant holds nothing is lost, whatever the program.
LEMMA LostChecked ==
  ASSUME LostInv
  PROVE  NothingLost
<1>1. program \in UnboundedPrograms => Unbounded!UnitsConserved
  BY UnboundedChecked DEF LostInv
<1>2. program \in BoundedPrograms => Bounded!BufferKept
  BY BufferChecked DEF LostInv
<1>3. Counters!CountedOnce
  BY CountersCounted DEF LostInv
<1>4. program \in RelayPrograms => Relay!FairRace
  BY RelayChecked DEF LostInv, RelayRaces
<1>5. program = "dining_philosophers" => Dining!ChopsticksKept
  BY DiningChecked DEF LostInv
<1> QED
  BY <1>1, <1>2, <1>3, <1>4, <1>5 DEF NothingLost

\* The invariant holds in every reachable state.
LEMMA LostInvariant == Spec => []LostInv
<1>1. Init => LostInv
  BY LostInitially
<1>2. LostInv /\ [Next]_vars => LostInv'
  BY LostKept, LostStutters
<1> QED
  BY <1>1, <1>2, PTL DEF Spec

\* The units, values, hits, positions, chopsticks and batons that the threads
\* pass around are neither lost nor doubled, in any interleaving of any number
\* of threads, and whatever creations fail.
THEOREM NothingIsLost == Spec => []NothingLost
<1>1. LostInv => NothingLost
  BY LostChecked
<1> QED
  BY <1>1, LostInvariant, PTL

\* main of the unbounded-buffer programs does not destroy the simulation under
\* a thread that runs, and not before every unit was consumed, unless it could
\* not create a team.
THEOREM SimulationOutlivesThreads ==
  Spec => [](program \in UnboundedPrograms => Unbounded!DestroysIdle)
<1>1. LostInv => (program \in UnboundedPrograms => Unbounded!DestroysIdle)
  BY UnboundedDestroysIdle DEF LostInv
<1> QED
  BY <1>1, LostInvariant, PTL

=============================================================================
