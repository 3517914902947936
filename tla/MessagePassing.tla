--------------------------- MODULE MessagePassing ---------------------------
(***************************************************************************)
(* The messages of MPI as the programs use them: between two processes     *)
(* they are taken in the order they were sent, and MPI_Send() either       *)
(* leaves the message in a buffer and returns at once (eager), or returns  *)
(* when the message was taken; the standard lets the library choose.       *)
(***************************************************************************)
EXTENDS Naturals, Sequences

CONSTANTS MaxProcesses

Ranks == 0..(MaxProcesses - 1)

NoMessages == [from \in Ranks |-> [to \in Ranks |-> <<>>]]

Sent(channels, from, to, message) ==
  [channels EXCEPT ![from][to] = Append(@, message)]

Waiting(channels, from, to) == channels[from][to] # <<>>

Received(channels, from, to) == Head(channels[from][to])

Taken(channels, from, to) == [channels EXCEPT ![from][to] = Tail(@)]

\* What the process sent before has left it: it may go on.
Returned(channels, eager, from) ==
  eager \/ \A to \in Ranks : channels[from][to] = <<>>

=============================================================================
