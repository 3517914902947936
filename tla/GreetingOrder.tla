--------------------------- MODULE GreetingOrder ---------------------------
(***************************************************************************)
(* The exercises in which main creates a team of threads that greet: with  *)
(* an array of semaphores (three versions), with a busy wait on a shared   *)
(* turn (two), with a private text per thread that main prints after the   *)
(* joins, and with no order at all (hello_iw_shr, hello_iw_pri, hello_w,   *)
(* std_thread_c).  A thread that cannot be created ends main's loop, but   *)
(* main then joins as many threads as were asked for.                      *)
(***************************************************************************)
EXTENDS Naturals, Sequences, SequencesExt

CONSTANTS ThreadCount

ThreadsAssumption == ThreadCount \in Nat

VARIABLES program, pc, shared, private

vars == <<program, pc, shared, private>>

Threads == 0..(ThreadCount - 1)
Main == ThreadCount     \* main greets as well

TypeOK ==
  /\ pc \in [Threads -> {"unstarted", "wait", "greet", "load", "store", "signal",
                         "done"}]
  /\ shared.can_greet \in [Threads -> Nat]
  /\ shared.next_thread \in 0..ThreadCount
  /\ shared.max_delayed_time \in 0..1
  /\ shared.greets \in [Threads -> BOOLEAN]
  /\ shared.output \in Seq(Threads \cup {Main})
  /\ private.at \in {"create", "hello", "join", "print", "done", "crashed"}
  /\ private.index \in 0..ThreadCount /\ private.created \in 0..ThreadCount
  /\ private.turn \in [Threads -> 0..ThreadCount]

\* The state main has built when it calls create_threads().
Start(permits, delay) ==
  /\ pc = [t \in Threads |-> "unstarted"]
  /\ shared = [can_greet |-> permits, next_thread |-> 0, max_delayed_time |-> delay,
               greets |-> [t \in Threads |-> FALSE], output |-> <<>>]
  /\ private = [at |-> "create", index |-> 0, created |-> 0,
                turn |-> [t \in Threads |-> 0]]

None == [t \in Threads |-> 0]

InitSemaphor ==
  /\ program = "hello_order_semaphor"
  /\ Start([t \in Threads |-> IF t = 0 THEN 1 ELSE 0], 0)

\* Every semaphore at zero: the post for the first one is commented out.
InitSemaphor2 == program = "hello_order_semaphor2" /\ Start(None, 0)

\* Each element is a copy of one and the same named semaphore, which was
\* created with the value of the first call.
InitNamed ==
  program = "hello_order_semaphor_named" /\ Start([t \in Threads |-> 1], 0)

InitBusyWait == program = "hello_order_busywait" /\ Start(None, 0)

\* The greatest delay is zero unless both arguments are given.
InitDelayed ==
  program = "delayed_busy_wait" /\ \E delay \in 0..1 : Start(None, delay)

InitCondSafe == program = "hello_order_cond_safe" /\ Start(None, 0)
InitShared == program = "hello_iw_shr" /\ Start(None, 0)
InitPrivate == program = "hello_iw_pri" /\ Start(None, 0)
InitPlain == program = "hello_w" /\ Start(None, 0)
InitStandard == program = "std_thread_c" /\ Start(None, 0)

Init ==
  \/ InitSemaphor \/ InitSemaphor2 \/ InitNamed \/ InitBusyWait \/ InitDelayed
  \/ InitCondSafe \/ InitShared \/ InitPrivate \/ InitPlain \/ InitStandard

-----------------------------------------------------------------------------
(* main in create_threads()                                                *)

\* Mutant: one thread more than there is room for.
CreateThreadOneMore(first) ==
  /\ private.at = "create" /\ private.index <= ThreadCount
  /\ pc' = [pc EXCEPT ![private.index] = first]
  /\ private' = [private EXCEPT !.index = @ + 1, !.created = @ + 1]
  /\ UNCHANGED shared

CreateThread(first) ==
  /\ private.at = "create" /\ private.index < ThreadCount
  /\ pc' = [pc EXCEPT ![private.index] = first]
  /\ private' = [private EXCEPT !.index = @ + 1, !.created = @ + 1]
  /\ UNCHANGED shared

CreateThreadFails ==
  /\ private.at = "create" /\ private.index < ThreadCount
  /\ private' = [private EXCEPT !.at = "hello"]
  /\ UNCHANGED <<pc, shared>>

Hello ==
  /\ \/ private.at = "create" /\ private.index = ThreadCount
     \/ private.at = "hello"
  /\ shared' = [shared EXCEPT !.output = Append(@, Main)]
  /\ private' = [private EXCEPT !.at = "join", !.index = 0]
  /\ UNCHANGED pc

\* pthread_join() waits for a thread that was created; with the handle of one
\* that was not, it may come back with an error or bring the process down.
Join ==
  /\ private.at = "join" /\ private.index < ThreadCount
  /\ private.index < private.created => pc[private.index] = "done"
  /\ \/ private' = [private EXCEPT !.index = @ + 1]
     \/ private.index >= private.created /\ private' = [private EXCEPT !.at = "crashed"]
  /\ UNCHANGED <<pc, shared>>

Finish ==
  /\ private.at = "join" /\ private.index = ThreadCount
  /\ private' = [private EXCEPT !.at = "done"]
  /\ UNCHANGED <<pc, shared>>

CreateThreads(first) ==
  CreateThread(first) \/ CreateThreadFails \/ Hello \/ Join

-----------------------------------------------------------------------------
(* greet()                                                                 *)

WaitSemaphore(t) ==
  /\ pc[t] = "wait" /\ shared.can_greet[t] > 0
  /\ shared' = [shared EXCEPT !.can_greet[t] = @ - 1]
  /\ pc' = [pc EXCEPT ![t] = "greet"]
  /\ UNCHANGED private

Greet(t, next) ==
  /\ pc[t] = "greet"
  /\ shared' = [shared EXCEPT !.output = Append(@, t)]
  /\ pc' = [pc EXCEPT ![t] = next]
  /\ UNCHANGED private

SignalNext(t) ==
  /\ pc[t] = "signal"
  /\ shared' = [shared EXCEPT !.can_greet[(t + 1) % ThreadCount] = @ + 1]
  /\ pc' = [pc EXCEPT ![t] = "done"]
  /\ UNCHANGED private

GreetWithSemaphore ==
  \E t \in Threads : WaitSemaphore(t) \/ Greet(t, "signal") \/ SignalNext(t)

MyTurn(t) == pc[t] = "wait" /\ shared.next_thread >= t

TakeTurn(t) ==
  /\ MyTurn(t)
  /\ pc' = [pc EXCEPT ![t] = "greet"]
  /\ UNCHANGED <<shared, private>>

\* ++next_thread loads and stores; no atomic type or mutex makes it one step.
LoadTurn(t) ==
  /\ pc[t] = "load"
  /\ private' = [private EXCEPT !.turn[t] = shared.next_thread]
  /\ pc' = [pc EXCEPT ![t] = "store"]
  /\ UNCHANGED shared

StoreTurn(t) ==
  /\ pc[t] = "store"
  /\ shared' = [shared EXCEPT !.next_thread = private.turn[t] + 1]
  /\ pc' = [pc EXCEPT ![t] = "done"]
  /\ UNCHANGED private

GreetWithTurns ==
  \E t \in Threads : TakeTurn(t) \/ Greet(t, "load") \/ LoadTurn(t) \/ StoreTurn(t)

\* rand_r() % max_delayed_time, with the default of zero.
DivideByZero(t) ==
  /\ pc[t] = "wait" /\ ~MyTurn(t)
  /\ shared.max_delayed_time = 0
  /\ private' = [private EXCEPT !.at = "crashed"]
  /\ UNCHANGED <<pc, shared>>

WriteGreeting(t) ==
  /\ pc[t] = "greet"
  /\ shared' = [shared EXCEPT !.greets[t] = TRUE]
  /\ pc' = [pc EXCEPT ![t] = "done"]
  /\ UNCHANGED private

\* The text of a thread that did not exist is empty or a null pointer.
PrintGreetings ==
  /\ private.at = "join" /\ private.index = ThreadCount
  /\ shared' = [shared EXCEPT
       !.output = @ \o SetToSortSeq({t \in Threads : shared.greets[t]},
                                    LAMBDA s, t : s < t)]
  /\ private' = [private EXCEPT !.at = "done"]
  /\ UNCHANGED pc

SemaphorNext ==
  program = "hello_order_semaphor"
    /\ (CreateThreads("wait") \/ Finish \/ GreetWithSemaphore)
Semaphor2Next ==
  program = "hello_order_semaphor2"
    /\ (CreateThreads("wait") \/ Finish \/ GreetWithSemaphore)
NamedNext ==
  program = "hello_order_semaphor_named"
    /\ (CreateThreads("wait") \/ Finish \/ GreetWithSemaphore)
BusyWaitNext ==
  program = "hello_order_busywait"
    /\ (CreateThreads("wait") \/ Finish \/ GreetWithTurns)
DelayedNext ==
  /\ program = "delayed_busy_wait"
  /\ \/ CreateThreads("wait") \/ Finish \/ GreetWithTurns
     \/ \E t \in Threads : DivideByZero(t)
CondSafeNext ==
  /\ program = "hello_order_cond_safe"
  /\ CreateThreads("greet") \/ PrintGreetings \/ \E t \in Threads : WriteGreeting(t)
GreetAtWill == \E t \in Threads : Greet(t, "done")
SharedNext ==
  program = "hello_iw_shr" /\ (CreateThreads("greet") \/ Finish \/ GreetAtWill)
PrivateNext ==
  program = "hello_iw_pri" /\ (CreateThreads("greet") \/ Finish \/ GreetAtWill)
PlainNext ==
  program = "hello_w" /\ (CreateThreads("greet") \/ Finish \/ GreetAtWill)
StandardNext ==
  program = "std_thread_c" /\ (CreateThreads("greet") \/ Finish \/ GreetAtWill)

Next ==
  /\ private.at \notin {"done", "crashed"}
  /\ \/ SemaphorNext \/ Semaphor2Next \/ NamedNext \/ BusyWaitNext \/ DelayedNext
     \/ CondSafeNext \/ SharedNext \/ PrivateNext \/ PlainNext \/ StandardNext

-----------------------------------------------------------------------------

Greetings == SelectSeq(shared.output, LAMBDA t : t # Main)
InOrder == Greetings = [i \in 1..Len(Greetings) |-> i - 1]
Once == \A i, j \in 1..Len(shared.output) : shared.output[i] = shared.output[j] => i = j

\* Everybody greets at most once, main included, and with an array of
\* semaphores, a turn taken without a lock or texts that main prints the order
\* is that of the threads.  Nothing is stated of the order of the two programs
\* that promise one and break it: in semaphor2 nobody is allowed to greet
\* (hello_order_semaphor2.c:28 promises "a greet of every thread in order"),
\* and the named semaphore is the same for all (hello_order_semaphor_named.c:30).
GreetsAsPromised ==
  /\ Once
  /\ program \in {"hello_order_semaphor", "hello_order_busywait",
                  "delayed_busy_wait", "hello_order_cond_safe"} => InOrder

\* main ends after every greeting of a thread it created.
OutlivesThreads ==
  private.at = "done" => Len(Greetings) = private.created

=============================================================================
