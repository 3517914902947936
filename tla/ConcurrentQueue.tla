-------------------------- MODULE ConcurrentQueue --------------------------
(***************************************************************************)
(* The thread-safe queue of prodcons/Queue.hpp, every other component's    *)
(* only means of communication: a std::queue, a mutex around each access   *)
(* and a semaphore that counts what may be consumed.  One action per step  *)
(* that another thread can observe: enqueue() is lock, push, unlock,       *)
(* signal and dequeue() is wait, lock, front/pop, unlock.                  *)
(***************************************************************************)
EXTENDS Naturals, Sequences, FiniteSets

CONSTANTS Producers,    \* the threads that call enqueue()
          Consumers,    \* the threads that call dequeue()
          Items,        \* the values of DataType that are passed
          NoItem,       \* what front() of an empty std::queue yields
          NoThread,     \* "nobody holds the mutex"
          MaxEnqueues   \* bound: calls of enqueue() in a behaviour

ASSUME ThreadsAssumption ==
  /\ IsFiniteSet(Producers)
  /\ IsFiniteSet(Consumers)
  /\ Producers \cap Consumers = {}
  /\ NoThread \notin Producers \cup Consumers
  /\ NoItem \notin Items
  /\ MaxEnqueues \in Nat

VARIABLES queue,        \* Queue::queue
          canConsume,   \* the value of Queue::canConsume
          mutex,        \* the thread that holds Queue::mutex
          pc,           \* where each thread is in enqueue() or dequeue()
          arg,          \* arg[p]: the data of p's call of enqueue()
          sent,         \* history: everything pushed, in order
          received      \* history: received[c], what dequeue() returned to c

vars == <<queue, canConsume, mutex, pc, arg, sent, received>>

Threads == Producers \cup Consumers

Locations == {"idle", "lock", "push", "pop", "unlock", "signal"}

TypeOK ==
  /\ queue \in Seq(Items)
  /\ canConsume \in Nat
  /\ mutex \in Threads \cup {NoThread}
  /\ pc \in [Threads -> Locations]
  /\ arg \in [Producers -> Items \cup {NoItem}]
  /\ sent \in Seq(Items)
  /\ received \in [Consumers -> Seq(Items \cup {NoItem})]

\* Mutant: the semaphore starts at one.
InitSignalled ==
  /\ queue = <<>>
  /\ canConsume = 1
  /\ mutex = NoThread
  /\ pc = [t \in Threads |-> "idle"]
  /\ arg = [p \in Producers |-> NoItem]
  /\ sent = <<>>
  /\ received = [c \in Consumers |-> <<>>]

Init ==
  /\ queue = <<>>
  /\ canConsume = 0
  /\ mutex = NoThread
  /\ pc = [t \in Threads |-> "idle"]
  /\ arg = [p \in Producers |-> NoItem]
  /\ sent = <<>>
  /\ received = [c \in Consumers |-> <<>>]

-----------------------------------------------------------------------------
(* The mutex.  Which of the threads that wait for it gets it is open.      *)

Goto(t, from, to) ==
  /\ pc[t] = from
  /\ pc' = [pc EXCEPT ![t] = to]

\* Mutant: the mutex is not waited for.
LockAtOnce(t, next) ==
  /\ mutex' = t
  /\ Goto(t, "lock", next)

Lock(t, next) ==
  /\ mutex = NoThread
  /\ mutex' = t
  /\ Goto(t, "lock", next)

Unlock(t, next) ==
  /\ mutex' = NoThread
  /\ Goto(t, "unlock", next)

-----------------------------------------------------------------------------
(* enqueue(data)                                                           *)

\* calls that have been made and have not pushed yet
Pushing == {p \in Producers : pc[p] \in {"lock", "push"}}

EnqueueCall(p, item) ==
  /\ Len(sent) + Cardinality(Pushing) < MaxEnqueues
  /\ Goto(p, "idle", "lock")
  /\ arg' = [arg EXCEPT ![p] = item]
  /\ UNCHANGED <<queue, canConsume, mutex, sent, received>>

EnqueueLock(p) ==
  /\ Lock(p, "push")
  /\ UNCHANGED <<queue, canConsume, arg, sent, received>>

EnqueuePush(p) ==
  /\ Goto(p, "push", "unlock")
  /\ queue' = Append(queue, arg[p])
  /\ sent' = Append(sent, arg[p])
  /\ UNCHANGED <<canConsume, mutex, arg, received>>

EnqueueUnlock(p) ==
  /\ Unlock(p, "signal")
  /\ UNCHANGED <<queue, canConsume, arg, sent, received>>

\* Mutant: signals twice per element.
EnqueueSignalTwice(p) ==
  /\ Goto(p, "signal", "idle")
  /\ canConsume' = canConsume + 2
  /\ UNCHANGED <<queue, mutex, arg, sent, received>>

\* Mutant: signals only when it finds no other unit in the semaphore, as a
\* binary semaphore would.
EnqueueSignalOnce(p) ==
  /\ Goto(p, "signal", "idle")
  /\ canConsume' = 1
  /\ UNCHANGED <<queue, mutex, arg, sent, received>>

\* Semaphore::signal()
EnqueueSignal(p) ==
  /\ Goto(p, "signal", "idle")
  /\ canConsume' = canConsume + 1
  /\ UNCHANGED <<queue, mutex, arg, sent, received>>

-----------------------------------------------------------------------------
(* dequeue().  front() and pop() of an empty std::queue are undefined; the *)
(* model lets front() return NoItem so that the invariants can tell.       *)

\* Mutant: does not wait for the semaphore to be positive.
DequeueTryWait(c) ==
  /\ canConsume' = canConsume - 1
  /\ Goto(c, "idle", "lock")
  /\ UNCHANGED <<queue, mutex, arg, sent, received>>

\* Semaphore::wait()
DequeueWait(c) ==
  /\ canConsume > 0
  /\ canConsume' = canConsume - 1
  /\ Goto(c, "idle", "lock")
  /\ UNCHANGED <<queue, mutex, arg, sent, received>>

DequeueLock(c) ==
  /\ Lock(c, "pop")
  /\ UNCHANGED <<queue, canConsume, arg, sent, received>>

DequeuePop(c) ==
  /\ Goto(c, "pop", "unlock")
  /\ IF queue = <<>>
     THEN /\ received' = [received EXCEPT ![c] = Append(@, NoItem)]
          /\ UNCHANGED queue
     ELSE /\ received' = [received EXCEPT ![c] = Append(@, Head(queue))]
          /\ queue' = Tail(queue)
  /\ UNCHANGED <<canConsume, mutex, arg, sent>>

DequeueUnlock(c) ==
  /\ Unlock(c, "idle")
  /\ UNCHANGED <<queue, canConsume, arg, sent, received>>

-----------------------------------------------------------------------------

Produce(p) ==
  \/ EnqueueLock(p)
  \/ EnqueuePush(p)
  \/ EnqueueUnlock(p)
  \/ EnqueueSignal(p)

Consume(c) ==
  \/ DequeueWait(c)
  \/ DequeueLock(c)
  \/ DequeuePop(c)
  \/ DequeueUnlock(c)

Next ==
  \/ \E p \in Producers : \E item \in Items : EnqueueCall(p, item)
  \/ \E p \in Producers : Produce(p)
  \/ \E c \in Consumers : Consume(c)

SafeSpec == Init /\ [][Next]_vars

\* A call that was made is carried on by its thread; a thread is free not to
\* call.  Some waiting consumer is woken when the semaphore allows it, and the
\* mutex is given to everyone who waits for it long enough (the bound on calls
\* makes weak fairness enough for that).
Fairness ==
  /\ \A p \in Producers : WF_vars(Produce(p))
  /\ \A c \in Consumers : WF_vars(Consume(c))

Spec == SafeSpec /\ Fairness

-----------------------------------------------------------------------------
(* Safety                                                                  *)

\* Producers whose element is in the queue and not yet signalled.
Unsignalled == {p \in Producers : pc[p] \in {"unlock", "signal"}}

\* Consumers that were granted an element and have not popped it yet.
Granted == {c \in Consumers : pc[c] \in {"lock", "pop"}}

\* Queue.hpp locks the mutex around push and front/pop: at most one thread is
\* between lock() and unlock(), and it is the one the mutex names.
MutualExclusion ==
  \A t \in Threads : pc[t] \in {"push", "pop", "unlock"} <=> mutex = t

\* Queue.hpp signals after it has unlocked and takes after it has waited, both
\* outside the mutex: still, every element of the queue is accounted for once,
\* as a unit of the semaphore, a grant that was not used or a signal to come.
SemaphoreAccounting ==
  Len(queue) = canConsume + Cardinality(Granted) + Cardinality(Unsignalled)

\* dequeue() calls front() and pop() with no test (Queue.hpp:58): a thread that
\* passed the semaphore never meets an empty queue.
NeverPopsEmpty ==
  \A c \in Consumers : pc[c] = "pop" => queue # <<>>

-----------------------------------------------------------------------------
(* Refinement: with its lock and semaphore the queue is a FifoQueue.       *)

Fifo == INSTANCE FifoQueue WITH
          cursor <- Len(sent) - Len(queue)

\* Every element enqueued is returned by exactly one dequeue(), in order, and
\* while there are elements and consumers somebody gets the next one: no wake-up
\* is lost between the push and the signal.
ImplementsFifo == Fifo!Spec

=============================================================================
