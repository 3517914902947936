----------------------------- MODULE FifoQueue -----------------------------
(***************************************************************************)
(* What a queue shared by threads promises, with no semaphore and no lock: *)
(* everything enqueued is received once, by one consumer, in the order it  *)
(* was enqueued, and a waiting consumer is served as long as there is      *)
(* something to receive.  ConcurrentQueue is shown to implement it.        *)
(***************************************************************************)
EXTENDS Naturals, Sequences

CONSTANTS Producers,  \* the threads that enqueue
          Consumers,  \* the threads that dequeue
          Items       \* the data that is passed

VARIABLES sent,       \* everything enqueued so far, in order
          cursor,     \* how many elements of sent were taken
          received    \* received[c]: what consumer c took, in order

fifoVars == <<sent, cursor, received>>

Init ==
  /\ sent = <<>>
  /\ cursor = 0
  /\ received = [c \in Consumers |-> <<>>]

Enqueue(item) ==
  /\ sent' = Append(sent, item)
  /\ UNCHANGED <<cursor, received>>

Dequeue(c) ==
  /\ cursor < Len(sent)
  /\ cursor' = cursor + 1
  /\ received' = [received EXCEPT ![c] = Append(@, sent[cursor + 1])]
  /\ UNCHANGED sent

Next ==
  \/ \E item \in Items : Enqueue(item)
  \/ \E c \in Consumers : Dequeue(c)

SafeSpec == Init /\ [][Next]_fifoVars

Spec == SafeSpec /\ WF_fifoVars(\E c \in Consumers : Dequeue(c))

=============================================================================
