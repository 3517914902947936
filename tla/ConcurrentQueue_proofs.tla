----------------------- MODULE ConcurrentQueue_proofs -----------------------
(***************************************************************************)
(* The safety of ConcurrentQueue for any finite number of producers and    *)
(* consumers, any data and any bound on the calls: its type invariant, the *)
(* accounting of the semaphore, that dequeue() never pops an empty queue,  *)
(* and that every step is a step of FifoQueue.                             *)
(***************************************************************************)
EXTENDS ConcurrentQueue, CommonLemmas, TLAPS

(***************************************************************************)
(* The inductive invariant.  TypeOK is not inductive alone: that what is   *)
(* pushed is an item needs the argument of the call (PcInv).               *)
(* SemaphoreAccounting is inductive with PcInv, which says that a producer *)
(* never stands at a consumer's location nor the converse.                 *)
(***************************************************************************)
PcInv ==
  /\ \A p \in Producers :
       /\ pc[p] # "pop"
       /\ pc[p] \in {"lock", "push"} => arg[p] \in Items
  /\ \A c \in Consumers : pc[c] \notin {"push", "signal"}

IInv == TypeOK /\ PcInv /\ SemaphoreAccounting

\* MoveCounts for the two sets of SemaphoreAccounting: a producer's move changes
\* Unsignalled and leaves Granted alone.
LEMMA ProducerMove ==
  ASSUME TypeOK, NEW p \in Producers, NEW from, NEW to, Goto(p, from, to)
  PROVE  /\ Cardinality(Granted) \in Nat /\ Cardinality(Unsignalled) \in Nat
         /\ Granted' = Granted
         /\ Cardinality(Unsignalled') = Cardinality(Unsignalled)
              + One(to, {"unlock", "signal"}) - One(from, {"unlock", "signal"})
<1>1. Producers \subseteq DOMAIN pc /\ Consumers \subseteq DOMAIN pc
  BY DEF TypeOK, Threads
<1>2. pc[p] = from /\ pc' = [pc EXCEPT ![p] = to]
  BY DEF Goto
<1>3. Granted' = Granted
  BY <1>1, <1>2, ThreadsAssumption DEF Granted
<1>4. Cardinality(Granted) \in Nat
  <2>1. Granted \in SUBSET Consumers  BY DEF Granted
  <2> QED  BY <2>1, ThreadsAssumption, FS_Subset, FS_CardinalityType
<1>5. /\ Unsignalled = At(Producers, pc, {"unlock", "signal"})
      /\ Unsignalled' = At(Producers, pc', {"unlock", "signal"})
  BY <1>2 DEF Unsignalled, At
<1>6. /\ Cardinality(At(Producers, pc, {"unlock", "signal"})) \in Nat
      /\ Cardinality(At(Producers, pc', {"unlock", "signal"}))
           = Cardinality(At(Producers, pc, {"unlock", "signal"}))
              + One(pc'[p], {"unlock", "signal"}) - One(pc[p], {"unlock", "signal"})
  <2>1. \A s \in Producers \ {p} : pc'[s] = pc[s]
    BY <1>1, <1>2
  <2> QED
    BY <2>1, ThreadsAssumption, MoveCounts
<1>7. pc'[p] = to
  BY <1>1, <1>2
<1> QED
  BY <1>2, <1>3, <1>4, <1>5, <1>6, <1>7

\* The same for a consumer: its move changes Granted and leaves Unsignalled
\* alone.
LEMMA ConsumerMove ==
  ASSUME TypeOK, NEW c \in Consumers, NEW from, NEW to, Goto(c, from, to)
  PROVE  /\ Cardinality(Granted) \in Nat /\ Cardinality(Unsignalled) \in Nat
         /\ Unsignalled' = Unsignalled
         /\ Cardinality(Granted') = Cardinality(Granted)
              + One(to, {"lock", "pop"}) - One(from, {"lock", "pop"})
<1>1. Producers \subseteq DOMAIN pc /\ Consumers \subseteq DOMAIN pc
  BY DEF TypeOK, Threads
<1>2. pc[c] = from /\ pc' = [pc EXCEPT ![c] = to]
  BY DEF Goto
<1>3. Unsignalled' = Unsignalled
  BY <1>1, <1>2, ThreadsAssumption DEF Unsignalled
<1>4. Cardinality(Unsignalled) \in Nat
  <2>1. Unsignalled \in SUBSET Producers  BY DEF Unsignalled
  <2> QED  BY <2>1, ThreadsAssumption, FS_Subset, FS_CardinalityType
<1>5. /\ Granted = At(Consumers, pc, {"lock", "pop"})
      /\ Granted' = At(Consumers, pc', {"lock", "pop"})
  BY <1>2 DEF Granted, At
<1>6. /\ Cardinality(At(Consumers, pc, {"lock", "pop"})) \in Nat
      /\ Cardinality(At(Consumers, pc', {"lock", "pop"}))
           = Cardinality(At(Consumers, pc, {"lock", "pop"}))
              + One(pc'[c], {"lock", "pop"}) - One(pc[c], {"lock", "pop"})
  <2>1. \A s \in Consumers \ {c} : pc'[s] = pc[s]
    BY <1>1, <1>2
  <2> QED
    BY <2>1, ThreadsAssumption, MoveCounts
<1>7. pc'[c] = to
  BY <1>1, <1>2
<1> QED
  BY <1>2, <1>3, <1>4, <1>5, <1>6, <1>7


-----------------------------------------------------------------------------

\* The accounts leave a consumer that was granted an element one to pop.
LEMMA PopHasElement ==
  ASSUME TypeOK, SemaphoreAccounting, NEW c \in Consumers, pc[c] = "pop"
  PROVE  queue # <<>>
<1>1. IsFiniteSet(Granted)
  <2>1. Granted \in SUBSET Consumers  BY DEF Granted
  <2> QED  BY <2>1, ThreadsAssumption, FS_Subset
<1>2. Granted # {}
  BY DEF Granted
<1>3. Cardinality(Granted) \in Nat \ {0}
  BY <1>1, <1>2, FS_EmptySet, FS_CardinalityType
<1>4. Cardinality(Unsignalled) \in Nat
  <2>1. Unsignalled \in SUBSET Producers  BY DEF Unsignalled
  <2> QED  BY <2>1, ThreadsAssumption, FS_Subset, FS_CardinalityType
<1>5. Len(queue) > 0
  BY <1>3, <1>4 DEF SemaphoreAccounting, TypeOK
<1> QED
  BY <1>5

\* A new queue has no thread inside and no element.
LEMMA InitIInv == Init => IInv
<1> SUFFICES ASSUME Init  PROVE IInv
  OBVIOUS
<1>1. TypeOK /\ PcInv
  BY ThreadsAssumption DEF Init, TypeOK, PcInv, Locations, Threads
<1>2. Granted = {} /\ Unsignalled = {}
  BY ThreadsAssumption DEF Init, Granted, Unsignalled, Threads
<1>3. SemaphoreAccounting
  BY <1>2, FS_EmptySet DEF SemaphoreAccounting, Init
<1> QED
  BY <1>1, <1>3 DEF IInv

\* TypeOK and PcInv are preserved by every step.
LEMMA TypeStep == TypeOK /\ PcInv /\ [Next]_vars => TypeOK' /\ PcInv'
<1> SUFFICES ASSUME TypeOK, PcInv, [Next]_vars  PROVE TypeOK' /\ PcInv'
  OBVIOUS
<1> USE ThreadsAssumption DEF TypeOK, PcInv, Threads, Locations, Goto
<1>1. ASSUME NEW p \in Producers, NEW item \in Items, EnqueueCall(p, item)
      PROVE  TypeOK' /\ PcInv'
  BY <1>1 DEF EnqueueCall
<1>2. ASSUME NEW p \in Producers, EnqueueLock(p)  PROVE TypeOK' /\ PcInv'
  BY <1>2 DEF EnqueueLock, Lock
<1>3. ASSUME NEW p \in Producers, EnqueuePush(p)  PROVE TypeOK' /\ PcInv'
  <2>1. arg[p] \in Items
    BY <1>3 DEF EnqueuePush
  <2> QED
    BY <1>3, <2>1 DEF EnqueuePush
<1>4. ASSUME NEW p \in Producers, EnqueueUnlock(p)  PROVE TypeOK' /\ PcInv'
  BY <1>4 DEF EnqueueUnlock, Unlock
<1>5. ASSUME NEW p \in Producers, EnqueueSignal(p)  PROVE TypeOK' /\ PcInv'
  BY <1>5 DEF EnqueueSignal
<1>6. ASSUME NEW c \in Consumers, DequeueWait(c)  PROVE TypeOK' /\ PcInv'
  BY <1>6 DEF DequeueWait
<1>7. ASSUME NEW c \in Consumers, DequeueLock(c)  PROVE TypeOK' /\ PcInv'
  BY <1>7 DEF DequeueLock, Lock
<1>8. ASSUME NEW c \in Consumers, DequeuePop(c)  PROVE TypeOK' /\ PcInv'
  <2> DEFINE item == IF queue = <<>> THEN NoItem ELSE Head(queue)
             result == Append(received[c], item)
  <2>1. item \in Items \cup {NoItem} /\ queue' \in Seq(Items)
    <3>1. CASE queue = <<>>
      BY <1>8, <3>1 DEF DequeuePop
    <3>2. CASE queue # <<>>
      <4>1. Head(queue) \in Items /\ Tail(queue) \in Seq(Items)
        BY <3>2
      <4> QED
        BY <1>8, <3>2, <4>1 DEF DequeuePop
    <3> QED
      BY <3>1, <3>2
  <2>2. result \in Seq(Items \cup {NoItem})
    BY <2>1
  <2>3. received' = [received EXCEPT ![c] = result]
    BY <1>8 DEF DequeuePop
  <2>4. received' \in [Consumers -> Seq(Items \cup {NoItem})]
    <3> HIDE DEF result
    <3> QED  BY <2>2, <2>3
  <2>5. pc' \in [Threads -> Locations] /\ pc' = [pc EXCEPT ![c] = "unlock"]
    BY <1>8 DEF DequeuePop
  <2>6. PcInv'
    BY <1>8, <2>5 DEF DequeuePop
  <2> QED
    BY <1>8, <2>1, <2>4, <2>5, <2>6 DEF DequeuePop
<1>9. ASSUME NEW c \in Consumers, DequeueUnlock(c)  PROVE TypeOK' /\ PcInv'
  BY <1>9 DEF DequeueUnlock, Unlock
<1>10. CASE UNCHANGED vars
  BY <1>10 DEF vars
<1> QED
  BY <1>1, <1>2, <1>3, <1>4, <1>5, <1>6, <1>7, <1>8, <1>9, <1>10
  DEF Next, Produce, Consume

\* Every step keeps the semaphore's accounts.
LEMMA AccountingStep == IInv /\ [Next]_vars => SemaphoreAccounting'
<1> SUFFICES ASSUME TypeOK, PcInv, SemaphoreAccounting, [Next]_vars
             PROVE  SemaphoreAccounting'
  BY DEF IInv
<1> DEFINE L == Len(queue)
           G == Cardinality(Granted)
           U == Cardinality(Unsignalled)
<1>0. L \in Nat /\ canConsume \in Nat /\ L = canConsume + G + U
  BY DEF TypeOK, SemaphoreAccounting
<1>1. ASSUME NEW p \in Producers, NEW item \in Items, EnqueueCall(p, item)
      PROVE  SemaphoreAccounting'
  <2>1. G \in Nat /\ U \in Nat /\ Granted' = Granted
        /\ Cardinality(Unsignalled') = U
    BY <1>1, ProducerMove DEF EnqueueCall, One
  <2>2. queue' = queue /\ canConsume' = canConsume
    BY <1>1 DEF EnqueueCall
  <2> QED
    BY <1>0, <2>1, <2>2 DEF SemaphoreAccounting
<1>2. ASSUME NEW p \in Producers, EnqueueLock(p)  PROVE SemaphoreAccounting'
  <2>1. G \in Nat /\ U \in Nat /\ Granted' = Granted
        /\ Cardinality(Unsignalled') = U
    BY <1>2, ProducerMove DEF EnqueueLock, Lock, One
  <2>2. queue' = queue /\ canConsume' = canConsume
    BY <1>2 DEF EnqueueLock, Lock
  <2> QED
    BY <1>0, <2>1, <2>2 DEF SemaphoreAccounting
<1>3. ASSUME NEW p \in Producers, EnqueuePush(p)  PROVE SemaphoreAccounting'
  <2>1. Len(queue') = L + 1
    BY <1>3 DEF EnqueuePush, TypeOK, PcInv
  <2>2. G \in Nat /\ U \in Nat /\ Granted' = Granted
        /\ Cardinality(Unsignalled') = U + 1
    BY <1>3, ProducerMove DEF EnqueuePush, One
  <2> QED
    BY <1>0, <1>3, <2>1, <2>2 DEF EnqueuePush, SemaphoreAccounting
<1>4. ASSUME NEW p \in Producers, EnqueueUnlock(p)  PROVE SemaphoreAccounting'
  <2>1. G \in Nat /\ U \in Nat /\ Granted' = Granted
        /\ Cardinality(Unsignalled') = U
    BY <1>4, ProducerMove DEF EnqueueUnlock, Unlock, One
  <2>2. queue' = queue /\ canConsume' = canConsume
    BY <1>4 DEF EnqueueUnlock, Unlock
  <2> QED
    BY <1>0, <2>1, <2>2 DEF SemaphoreAccounting
<1>5. ASSUME NEW p \in Producers, EnqueueSignal(p)  PROVE SemaphoreAccounting'
  <2>1. G \in Nat /\ U \in Nat /\ Granted' = Granted
        /\ Cardinality(Unsignalled') = U - 1
    BY <1>5, ProducerMove DEF EnqueueSignal, One
  <2>2. queue' = queue /\ canConsume' = canConsume + 1
    BY <1>5 DEF EnqueueSignal
  <2> QED
    BY <1>0, <2>1, <2>2 DEF SemaphoreAccounting
<1>6. ASSUME NEW c \in Consumers, DequeueWait(c)  PROVE SemaphoreAccounting'
  <2>1. G \in Nat /\ U \in Nat /\ Unsignalled' = Unsignalled
        /\ Cardinality(Granted') = G + 1
    BY <1>6, ConsumerMove DEF DequeueWait, One
  <2>2. queue' = queue /\ canConsume' = canConsume - 1
    BY <1>6 DEF DequeueWait
  <2> QED
    BY <1>0, <2>1, <2>2 DEF SemaphoreAccounting
<1>7. ASSUME NEW c \in Consumers, DequeueLock(c)  PROVE SemaphoreAccounting'
  <2>1. G \in Nat /\ U \in Nat /\ Unsignalled' = Unsignalled
        /\ Cardinality(Granted') = G
    BY <1>7, ConsumerMove DEF DequeueLock, Lock, One
  <2>2. queue' = queue /\ canConsume' = canConsume
    BY <1>7 DEF DequeueLock, Lock
  <2> QED
    BY <1>0, <2>1, <2>2 DEF SemaphoreAccounting
<1>8. ASSUME NEW c \in Consumers, DequeuePop(c)  PROVE SemaphoreAccounting'
  <2>1. /\ G \in Nat /\ U \in Nat /\ Unsignalled' = Unsignalled
        /\ Cardinality(Granted') = G - 1
    BY <1>8, ConsumerMove DEF DequeuePop, One
  <2>2. queue # <<>>
    BY <1>8, PopHasElement DEF DequeuePop, Goto
  <2>3. Len(queue') = L - 1
    BY <1>8, <2>2 DEF DequeuePop, TypeOK
  <2> QED
    BY <1>0, <1>8, <2>1, <2>3 DEF DequeuePop, SemaphoreAccounting
<1>9. ASSUME NEW c \in Consumers, DequeueUnlock(c)  PROVE SemaphoreAccounting'
  <2>1. G \in Nat /\ U \in Nat /\ Unsignalled' = Unsignalled
        /\ Cardinality(Granted') = G
    BY <1>9, ConsumerMove DEF DequeueUnlock, Unlock, One
  <2>2. queue' = queue /\ canConsume' = canConsume
    BY <1>9 DEF DequeueUnlock, Unlock
  <2> QED
    BY <1>0, <2>1, <2>2 DEF SemaphoreAccounting
<1>10. CASE UNCHANGED vars
  BY <1>10 DEF vars, SemaphoreAccounting, Granted, Unsignalled
<1> QED
  BY <1>1, <1>2, <1>3, <1>4, <1>5, <1>6, <1>7, <1>8, <1>9, <1>10
  DEF Next, Produce, Consume

\* Type correctness: every variable of the queue keeps its type.
THEOREM TypeCorrect == Spec => []TypeOK
<1>1. Init => TypeOK /\ PcInv
  BY InitIInv DEF IInv
<1>2. TypeOK /\ PcInv /\ [Next]_vars => (TypeOK /\ PcInv)'
  BY TypeStep
<1> QED
  BY <1>1, <1>2, PTL DEF Spec, SafeSpec

\* Every reachable state satisfies the inductive invariant.
LEMMA Inductive == Spec => []IInv
<1>1. Init => IInv
  BY InitIInv
<1>2. IInv /\ [Next]_vars => IInv'
  BY TypeStep, AccountingStep DEF IInv
<1> QED
  BY <1>1, <1>2, PTL DEF Spec, SafeSpec

\* Queue.hpp signals outside the mutex: the semaphore still counts the elements
\* of the queue, less the grants in use and the signals to come.
THEOREM SemaphoreCounts == Spec => []SemaphoreAccounting
<1>1. IInv => SemaphoreAccounting
  BY DEF IInv
<1> QED
  BY Inductive, <1>1, PTL

\* No dequeue() ever calls front() and pop() on an empty std::queue.
THEOREM DequeueIsDefined == Spec => []NeverPopsEmpty
<1>1. IInv => NeverPopsEmpty
  BY PopHasElement DEF IInv, NeverPopsEmpty
<1> QED
  BY Inductive, <1>1, PTL

-----------------------------------------------------------------------------
(* Mutual exclusion                                                        *)

\* A step keeps the mutex with the one thread that is between lock() and
\* unlock().
LEMMA MutexStep ==
  TypeOK /\ PcInv /\ MutualExclusion /\ [Next]_vars => MutualExclusion'
<1> SUFFICES ASSUME TypeOK, PcInv, MutualExclusion, [Next]_vars
             PROVE  MutualExclusion'
  OBVIOUS
<1> USE ThreadsAssumption DEF TypeOK, PcInv, MutualExclusion, Threads, Goto
<1>1. ASSUME NEW p \in Producers, NEW item \in Items, EnqueueCall(p, item)
      PROVE  MutualExclusion'
  BY <1>1 DEF EnqueueCall
<1>2. ASSUME NEW p \in Producers, Produce(p)  PROVE MutualExclusion'
  <2>1. CASE EnqueueLock(p)
    BY <2>1 DEF EnqueueLock, Lock
  <2>2. CASE EnqueuePush(p)
    BY <2>2 DEF EnqueuePush
  <2>3. CASE EnqueueUnlock(p)
    BY <2>3 DEF EnqueueUnlock, Unlock
  <2>4. CASE EnqueueSignal(p)
    BY <2>4 DEF EnqueueSignal
  <2> QED
    BY <1>2, <2>1, <2>2, <2>3, <2>4 DEF Produce
<1>3. ASSUME NEW c \in Consumers, Consume(c)  PROVE MutualExclusion'
  <2>1. CASE DequeueWait(c)
    BY <2>1 DEF DequeueWait
  <2>2. CASE DequeueLock(c)
    BY <2>2 DEF DequeueLock, Lock
  <2>3. CASE DequeuePop(c)
    BY <2>3 DEF DequeuePop
  <2>4. CASE DequeueUnlock(c)
    BY <2>4 DEF DequeueUnlock, Unlock
  <2> QED
    BY <1>3, <2>1, <2>2, <2>3, <2>4 DEF Consume
<1>4. CASE UNCHANGED vars
  BY <1>4 DEF vars
<1> QED
  BY <1>1, <1>2, <1>3, <1>4 DEF Next

\* At most one thread is between the lock() and the unlock() of the mutex.
THEOREM MutexExcludes == Spec => []MutualExclusion
<1>1. Init => MutualExclusion
  BY ThreadsAssumption DEF Init, MutualExclusion, Threads
<1>2. IInv /\ MutualExclusion /\ [Next]_vars => MutualExclusion'
  BY MutexStep DEF IInv
<1> QED
  BY <1>1, <1>2, Inductive, PTL DEF Spec, SafeSpec

-----------------------------------------------------------------------------
(* Refinement                                                              *)

(***************************************************************************)
(* What is still in the queue is the end of what was sent; with IInv it is *)
(* what makes each pop the abstract queue's next Dequeue.                  *)
(***************************************************************************)
QueueIsTail ==
  LET taken == Len(sent) - Len(queue)
  IN  /\ taken \in Nat
      /\ \A i \in 1..Len(queue) : queue[i] = sent[taken + i]

\* A step keeps the queue what is left of the elements pushed once those
\* popped are taken off.
LEMMA QueueIsTailStep ==
  IInv /\ QueueIsTail /\ [Next]_vars
    => /\ QueueIsTail'
       /\ [Fifo!Next]_(Fifo!fifoVars)
<1> SUFFICES ASSUME IInv, QueueIsTail, [Next]_vars
             PROVE  QueueIsTail' /\ [Fifo!Next]_(Fifo!fifoVars)
  OBVIOUS
<1> USE DEF IInv, QueueIsTail
<1>1. ASSUME UNCHANGED <<queue, sent, received>>
      PROVE  QueueIsTail' /\ [Fifo!Next]_(Fifo!fifoVars)
  BY <1>1 DEF Fifo!fifoVars
<1>2. ASSUME NEW p \in Producers, EnqueuePush(p)
      PROVE  QueueIsTail' /\ [Fifo!Next]_(Fifo!fifoVars)
  <2>1. arg[p] \in Items
    BY <1>2 DEF EnqueuePush, Goto, PcInv
  <2>2. queue' = Append(queue, arg[p]) /\ sent' = Append(sent, arg[p])
        /\ received' = received
    BY <1>2 DEF EnqueuePush
  <2>3. /\ Len(queue') = Len(queue) + 1 /\ Len(sent') = Len(sent) + 1
        /\ Len(queue) \in Nat /\ Len(sent) \in Nat
        /\ \A i \in 1..Len(queue) : queue'[i] = queue[i]
        /\ \A i \in 1..Len(sent) : sent'[i] = sent[i]
        /\ queue'[Len(queue) + 1] = arg[p] /\ sent'[Len(sent) + 1] = arg[p]
    BY <2>1, <2>2 DEF TypeOK
  <2>4. QueueIsTail'
    <3> DEFINE taken == Len(sent) - Len(queue)
    <3>1. taken \in Nat /\ Len(sent') - Len(queue') = taken
      BY <2>3
    <3>2. ASSUME NEW i \in 1..Len(queue')  PROVE queue'[i] = sent'[taken + i]
      <4>1. CASE i = Len(queue) + 1
        BY <2>3, <4>1
      <4>2. CASE i \in 1..Len(queue)
        <5>1. taken + i \in 1..Len(sent)
          BY <2>3, <3>1, <4>2
        <5> QED
          BY <2>3, <4>2, <5>1
      <4> QED
        BY <2>3, <4>1, <4>2
    <3> QED
      BY <3>1, <3>2
  <2>5. Fifo!Enqueue(arg[p])
    BY <2>2, <2>3 DEF Fifo!Enqueue
  <2> QED
    BY <2>1, <2>4, <2>5 DEF Fifo!Next
<1>3. ASSUME NEW c \in Consumers, DequeuePop(c)
      PROVE  QueueIsTail' /\ [Fifo!Next]_(Fifo!fifoVars)
  <2>1. queue # <<>>
    BY <1>3, PopHasElement DEF DequeuePop, Goto
  <2>2. queue' = Tail(queue) /\ sent' = sent
        /\ received' = [received EXCEPT ![c] = Append(@, Head(queue))]
    BY <1>3, <2>1 DEF DequeuePop
  <2>3. /\ Len(queue) \in Nat \ {0} /\ Len(sent) \in Nat
        /\ Len(queue') = Len(queue) - 1
        /\ \A i \in 1..Len(queue') : queue'[i] = queue[i + 1]
        /\ Head(queue) = queue[1]
    BY <2>1, <2>2 DEF TypeOK
  <2>4. QueueIsTail'
    BY <2>2, <2>3
  <2>5. Head(queue) = sent[Len(sent) - Len(queue) + 1]
    BY <2>3
  <2>6. Fifo!Dequeue(c)
    <3>1. /\ Len(sent) - Len(queue) < Len(sent)
          /\ (Len(sent) - Len(queue))' = Len(sent) - Len(queue) + 1
      BY <2>2, <2>3
    <3>2. received' = [received EXCEPT
                         ![c] = Append(@, sent[Len(sent) - Len(queue) + 1])]
      BY <2>2, <2>5
    <3> QED
      BY <2>2, <3>1, <3>2 DEF Fifo!Dequeue
  <2> QED
    BY <2>4, <2>6 DEF Fifo!Next
<1> QED
  BY <1>1, <1>2, <1>3 DEF Next, Produce, Consume, vars, EnqueueCall,
     EnqueueLock, EnqueueUnlock, EnqueueSignal, DequeueWait, DequeueLock,
     DequeueUnlock

\* With its mutex and its semaphore the queue does only what a FIFO queue does:
\* each element is returned once, in the order of the pushes.
THEOREM QueueRefinesFifo == Spec => Fifo!SafeSpec
<1>1. Init => Fifo!Init /\ QueueIsTail
  BY DEF Init, Fifo!Init, QueueIsTail
<1>2. IInv /\ QueueIsTail /\ [Next]_vars
        => QueueIsTail' /\ [Fifo!Next]_(Fifo!fifoVars)
  BY QueueIsTailStep
<1> QED
  BY <1>1, <1>2, Inductive, PTL DEF Spec, SafeSpec, Fifo!SafeSpec

=============================================================================
