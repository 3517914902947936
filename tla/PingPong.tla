------------------------------ MODULE PingPong ------------------------------
(***************************************************************************)
(* ping_pong_perfect: two processes that serve a ball to one another.      *)
(* Each of them has two threads in the same loop, so that there are two    *)
(* balls, and a thread may take the ball another one of its process served *)
(* for.  The messages go through the class Mpi.                            *)
(***************************************************************************)
EXTENDS Naturals, Sequences, FiniteSets, FiniteSetsExt, Functions

CONSTANTS ProcessCounts,
          MaxServes   \* the loops have no end: the serves of a process here

VARIABLES program, pc, shared, private

vars == <<program, pc, shared, private>>

Players == {0, 1}
Threads == {1, 2}                 \* num_threads(process_count)
Other(p) == 1 - p

TypeOK ==
  /\ pc \in [Players \X Threads -> {"mpi", "send", "sent", "receive", "print",
                                    "failed", "out"}]
  /\ \A p \in Players : Len(shared.channels[p]) <= 2 * MaxServes
  /\ private.serves \in [Players -> 0..(MaxServes + 1)]

\* Every other number of processes is an error, thrown and shown by main().
Init ==
  /\ program = "ping_pong_perfect"
  /\ \E process_count \in ProcessCounts, eager \in BOOLEAN :
       shared = [process_count |-> process_count, eager |-> eager,
                 channels |-> [p \in Players |-> <<>>]]
  /\ pc = [player \in Players \X Threads |-> "mpi"]
  /\ private = [serves |-> [p \in Players |-> 0]]

Go(p, t, at) == pc' = [pc EXCEPT ![p, t] = at]

CheckCount(p, t) ==
  /\ pc[p, t] = "mpi"
  /\ Go(p, t, IF shared.process_count # 2 THEN "failed"
              ELSE IF p = 0 THEN "send" ELSE "receive")
  /\ UNCHANGED <<shared, private>>

\* Mpi::send(); the sender goes on at once or when its message was taken.
Serve(p, t) ==
  /\ pc[p, t] = "send"
  /\ shared' = [shared EXCEPT !.channels[p] = Append(@, t)]
  /\ Go(p, t, "sent")
  /\ UNCHANGED private

ServeEnds(p, t) ==
  /\ pc[p, t] = "sent"
  /\ shared.eager \/ t \notin Range(shared.channels[p])
  /\ Go(p, t, IF p = 0 THEN "print" ELSE "receive")
  /\ UNCHANGED <<shared, private>>

\* Mutant: the ball stays where it was.
ReceiveCopy(p, t) ==
  /\ pc[p, t] = "receive" /\ shared.channels[Other(p)] # <<>>
  /\ Go(p, t, IF p = 0 THEN "send" ELSE "print")
  /\ UNCHANGED <<shared, private>>

\* Mpi::receive(), of either thread of the other process.
Receive(p, t) ==
  /\ pc[p, t] = "receive" /\ shared.channels[Other(p)] # <<>>
  /\ shared' = [shared EXCEPT !.channels[Other(p)] = Tail(@)]
  /\ Go(p, t, IF p = 0 THEN "send" ELSE "print")
  /\ UNCHANGED private

\* The message of a serve: before it in process 1, after it in process 0.
PrintServe(p, t) ==
  /\ pc[p, t] = "print" /\ private.serves[p] < MaxServes
  /\ private' = [private EXCEPT !.serves[p] = @ + 1]
  /\ Go(p, t, IF p = 0 THEN "receive" ELSE "send")
  /\ UNCHANGED shared

Next ==
  \E p \in Players, t \in Threads :
    \/ CheckCount(p, t) \/ Serve(p, t) \/ ServeEnds(p, t)
    \/ Receive(p, t) \/ PrintServe(p, t)

-----------------------------------------------------------------------------

At(p, labels) == {t \in Threads : pc[p, t] \in labels}

\* The balls in play: each thread of process 0 in the loop has brought one.
Balls == Cardinality(Threads \ At(0, {"mpi", "failed"}))

\* No ball is lost or doubled: each is held by a thread about to serve it or on
\* its way, and the players take turns with each, so that their serves never
\* differ by more than the number of balls.  How many balls there are is not
\* stated: the readme (line 3) has one, the code one for each thread.
BallsConserved ==
  /\ Cardinality(At(0, {"send"})) + Cardinality(At(1, {"print", "send"}))
       + Len(shared.channels[0]) + Len(shared.channels[1]) = Balls
  /\ private.serves[0] <= private.serves[1] + Balls
  /\ private.serves[1] <= private.serves[0] + Balls

\* The game goes on up to the bound, or was refused.
Halted ==
  \/ \A player \in Players \X Threads : pc[player] = "failed"
  \/ \E p \in Players : private.serves[p] = MaxServes

=============================================================================
