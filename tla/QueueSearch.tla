---------------------------- MODULE QueueSearch ----------------------------
(***************************************************************************)
(* pthread_optimized: a producer puts every candidate in a queue, and the  *)
(* consumers try each one on all the archives that are still closed.  The  *)
(* empty candidate stops a consumer.  An element is added to the queue and *)
(* then signalled through a semaphore, and waited for before it is taken:  *)
(* there are never fewer elements than signals, and each pair is one step. *)
(***************************************************************************)
EXTENDS PasswordCandidates, SequencesExt

CONSTANTS FileCount, Contents, ConsumerCount

QueueSearchAssumption ==
  /\ FileCount \in 1..50 /\ Contents \subseteq Archives
  /\ ConsumerCount \in Nat \ {0}

VARIABLES pc, shared, private

vars == <<pc, shared, private>>

\* Up to twelve: the list of paths has a hundred bytes, not a hundred pointers
\* (simulation.c:36), and more would overrun it.
Files == 1..FileCount
Consumers == 1..ConsumerCount
Characters == 0..(Base - 1)
Stop == <<>>

TypeOK ==
  /\ pc.main \in {"producer", "consumer", "join", "print", "error", "done", "crashed"}
  /\ pc.producer \in {"unstarted", "first", "second", "check", "stop", "done"}
  /\ pc.consumer \in [Consumers -> {"unstarted", "take", "look", "flag", "store", "done"}]
  /\ shared.archives \in [Files -> Contents]
  /\ shared.queue \in Seq(Seq(Characters))
  /\ shared.pass_found \in [Files -> BOOLEAN]
  /\ shared.passwords \in [Files -> Seq(Characters)]
  /\ private.length \in 1..MaxCharPass /\ private.number \in 0..(Base ^ MaxCharPass)
  /\ private.stops \in 0..ConsumerCount
  /\ private.password \in [Consumers -> Seq(Characters)]
  /\ private.file \in [Consumers -> Files]

\* simulation_create() and analyze_arguments().
Init ==
  /\ pc = [main |-> "producer", producer |-> "unstarted",
           consumer |-> [c \in Consumers |-> "unstarted"]]
  /\ \E archives \in [Files -> Contents] :
       shared = [archives |-> archives, queue |-> <<>>,
                 pass_found |-> [f \in Files |-> FALSE],
                 passwords |-> [f \in Files |-> <<>>], printed |-> <<>>]
  /\ private = [index |-> 1, length |-> 1, number |-> 0, stops |-> 0,
                password |-> [c \in Consumers |-> Stop],
                file |-> [c \in Consumers |-> 1]]

-----------------------------------------------------------------------------
(* create_consumers_producers()                                            *)

CreateProducer ==
  /\ pc.main = "producer"
  /\ pc' = [pc EXCEPT !.main = "consumer", !.producer = "first"]
  /\ UNCHANGED <<shared, private>>

\* The handle that was not set is joined.
CreateProducerFails ==
  /\ pc.main = "producer"
  /\ \E next \in {"error", "crashed"} : pc' = [pc EXCEPT !.main = next]
  /\ UNCHANGED <<shared, private>>

CreateConsumer ==
  /\ pc.main = "consumer" /\ private.index \in Consumers
  /\ pc' = [pc EXCEPT !.consumer[private.index] = "take"]
  /\ private' = [private EXCEPT !.index = @ + 1]
  /\ UNCHANGED shared

\* The consumers that exist are joined, and the producer is not.
CreateConsumerFails ==
  /\ pc.main = "consumer" /\ private.index \in Consumers
  /\ \A c \in 1..(private.index - 1) : pc.consumer[c] = "done"
  /\ pc' = [pc EXCEPT !.main = "error"]
  /\ UNCHANGED <<shared, private>>

AllCreated ==
  /\ pc.main = "consumer" /\ private.index > ConsumerCount
  /\ pc' = [pc EXCEPT !.main = "join"]
  /\ UNCHANGED <<shared, private>>

JoinThreads ==
  /\ pc.main = "join"
  /\ pc.producer = "done" /\ \A c \in Consumers : pc.consumer[c] = "done"
  /\ pc' = [pc EXCEPT !.main = "print"]
  /\ UNCHANGED <<shared, private>>

PrintPasswords ==
  /\ pc.main = "print"
  /\ shared' = [shared EXCEPT !.printed = [f \in Files |->
       IF shared.pass_found[f] THEN shared.passwords[f] ELSE <<>>]]
  /\ pc' = [pc EXCEPT !.main = "done"]
  /\ UNCHANGED private

\* simulation_destroy() without a look at the threads, and the end.
DestroyAfterError ==
  /\ pc.main = "error"
  /\ pc' = [pc EXCEPT !.main = "done"]
  /\ UNCHANGED <<shared, private>>

-----------------------------------------------------------------------------
(* produce(): digits are new for every length.                             *)

Digits == ChangeBase(private.number, 0)

Enqueue(password) == shared' = [shared EXCEPT !.queue = Append(@, password)]

ProduceFirst ==
  /\ pc.producer = "first"
  /\ Enqueue(Digits)
  /\ pc' = [pc EXCEPT !.producer = "second"]
  /\ UNCHANGED private

ProduceSecond ==
  /\ pc.producer = "second"
  /\ Enqueue(LastDigitZero(Digits))
  /\ pc' = [pc EXCEPT !.producer = "check"]
  /\ UNCHANGED private

KeepGoing == \E f \in Files : ~shared.pass_found[f]

CheckPassFound ==
  /\ pc.producer = "check"
  /\ LET last == private.number + 1 = Base ^ private.length
     IN  /\ private' =
              IF ~KeepGoing THEN private
              ELSE IF ~last THEN [private EXCEPT !.number = @ + 1]
              ELSE IF private.length < MaxCharPass
              THEN [private EXCEPT !.length = @ + 1, !.number = 0] ELSE private
         /\ pc' = [pc EXCEPT !.producer =
              IF KeepGoing /\ ~(last /\ private.length = MaxCharPass)
              THEN "first" ELSE "stop"]
  /\ UNCHANGED shared

\* Mutant: a single empty candidate stops them all.
ProduceOneStop ==
  /\ pc.producer = "stop"
  /\ Enqueue(Stop)
  /\ private' = [private EXCEPT !.stops = @ + 1]
  /\ pc' = [pc EXCEPT !.producer = "done"]

ProduceStop ==
  /\ pc.producer = "stop"
  /\ Enqueue(Stop)
  /\ private' = [private EXCEPT !.stops = @ + 1]
  /\ pc' = [pc EXCEPT !.producer = IF private.stops + 1 = ConsumerCount
                                   THEN "done" ELSE "stop"]

Produce == ProduceFirst \/ ProduceSecond \/ CheckPassFound \/ ProduceStop

-----------------------------------------------------------------------------
(* consume()                                                               *)

Go(c, at) == pc' = [pc EXCEPT !.consumer[c] = at]

Dequeue(c) ==
  /\ pc.consumer[c] = "take" /\ shared.queue # <<>>
  /\ shared' = [shared EXCEPT !.queue = Tail(@)]
  /\ private' = [private EXCEPT !.password[c] = Head(shared.queue), !.file[c] = 1]
  /\ Go(c, IF Head(shared.queue) = Stop THEN "done" ELSE "look")

\* Mutant: the loop over the files goes one too far.
NextFileOneMore(c) ==
  IF private.file[c] > FileCount THEN Go(c, "take") /\ UNCHANGED private
  ELSE private' = [private EXCEPT !.file[c] = @ + 1] /\ Go(c, "look")

\* After the last file, back to the queue.
NextFile(c) ==
  IF private.file[c] = FileCount THEN Go(c, "take") /\ UNCHANGED private
  ELSE private' = [private EXCEPT !.file[c] = @ + 1] /\ Go(c, "look")

\* The thread's own copy of the archive, made before the threads; an empty
\* path, which cannot be opened, if it could not be made.
Copy(c) == shared.archives[private.file[c]]

\* The flag is read under the mutex, and the copy tried after it.
TryPassword(c) ==
  /\ pc.consumer[c] = "look"
  /\ IF /\ ~shared.pass_found[private.file[c]]
        /\ ProcessFile(Copy(c), private.password[c])
     THEN Go(c, "flag") /\ UNCHANGED private
     ELSE NextFile(c)
  /\ UNCHANGED shared

RaiseFlag(c) ==
  /\ pc.consumer[c] = "flag"
  /\ shared' = [shared EXCEPT !.pass_found[private.file[c]] = TRUE]
  /\ Go(c, "store")
  /\ UNCHANGED private

\* Outside of the mutex.
StorePassword(c) ==
  /\ pc.consumer[c] = "store"
  /\ shared' = [shared EXCEPT !.passwords[private.file[c]] = private.password[c]]
  /\ NextFile(c)

Consume(c) == Dequeue(c) \/ TryPassword(c) \/ RaiseFlag(c) \/ StorePassword(c)

Main ==
  \/ CreateProducer \/ CreateProducerFails \/ CreateConsumer \/ CreateConsumerFails
  \/ AllCreated \/ JoinThreads \/ PrintPasswords \/ DestroyAfterError

Next ==
  /\ pc.main \notin {"done", "crashed"}
  /\ Main \/ Produce \/ \E c \in Consumers : Consume(c)

-----------------------------------------------------------------------------

\* The stop that ends a consumer is behind every candidate, so that when main
\* prints, the passwords within reach were all found, stored and right, even if
\* the producer stopped early: the flags it saw go up before the passwords are
\* stored.  A copy that cannot be opened "opens" with some candidate.
AnswersRight ==
  /\ pc.producer \in {"stop", "done"} /\ shared.queue # <<>> =>
       \A i, j \in 1..Len(shared.queue) :
         i < j /\ shared.queue[i] = Stop => shared.queue[j] = Stop
  /\ shared.printed # <<>> =>
       \A f \in Files :
         LET archive == shared.archives[f]  password == shared.printed[f]
         IN  /\ archive \in Passwords => password = archive
             /\ archive = NoPassword => password = <<>>
             /\ archive = Unreadable => password # <<>>

\* Only a consumer that could not be created leaves threads in a simulation
\* that is destroyed.
DestroysIdle ==
  pc.main \in {"print", "done"} /\ private.index > ConsumerCount =>
    /\ pc.producer = "done" /\ shared.queue = <<>>
    /\ \A c \in Consumers : pc.consumer[c] = "done"

=============================================================================
