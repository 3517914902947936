----------------------------- MODULE AppService -----------------------------
(***************************************************************************)
(* What the web server may expect of a web application and the application *)
(* of the server.  The server puts requests in the application's queue and *)
(* at last one stop, after which it puts nothing.  The application answers *)
(* every request exactly once, in any order, and after the stop finishes   *)
(* when it owes nothing.  HttpServer relies on this service, WebApp is     *)
(* shown to provide it.                                                    *)
(***************************************************************************)
EXTENDS Naturals, Sequences

CONSTANTS Requests,   \* the requests that can be made
          Stop        \* the stop condition, reqRes()

VARIABLES inbox,      \* the queue between the server and the application
          phase,      \* "open", "closed", "draining" or "finished"
          held,       \* requests taken and not yet answered
          replies     \* replies[r]: responses sent for r

serviceVars == <<inbox, phase, held, replies>>

Init ==
  /\ inbox = <<>>
  /\ phase = "open"
  /\ held = {}
  /\ replies = [r \in Requests |-> 0]

(* The server's steps *)

Submit(r) ==
  /\ phase = "open"
  /\ inbox' = Append(inbox, r)
  /\ UNCHANGED <<phase, held, replies>>

Close ==
  /\ phase = "open"
  /\ phase' = "closed"
  /\ inbox' = Append(inbox, Stop)
  /\ UNCHANGED <<held, replies>>

(* The application's steps *)

Take ==
  /\ inbox # <<>>
  /\ Head(inbox) # Stop
  /\ inbox' = Tail(inbox)
  /\ held' = held \cup {Head(inbox)}
  /\ UNCHANGED <<phase, replies>>

Answer(r) ==
  /\ r \in held
  /\ replies[r] = 0
  /\ held' = held \ {r}
  /\ replies' = [replies EXCEPT ![r] = 1]
  /\ UNCHANGED <<inbox, phase>>

Drain ==
  /\ inbox # <<>>
  /\ Head(inbox) = Stop
  /\ phase' = "draining"
  /\ inbox' = Tail(inbox)
  /\ UNCHANGED <<held, replies>>

Finish ==
  /\ phase = "draining"
  /\ held = {}
  /\ phase' = "finished"
  /\ UNCHANGED <<inbox, held, replies>>

Work == Take \/ (\E r \in Requests : Answer(r)) \/ Drain \/ Finish

Next == (\E r \in Requests : Submit(r)) \/ Close \/ Work

SafeSpec == Init /\ [][Next]_serviceVars

\* The application goes on with what it has taken and with what is waiting.
Fairness ==
  /\ WF_serviceVars(Take \/ Drain \/ Finish)
  /\ \A r \in Requests : WF_serviceVars(Answer(r))

Spec == SafeSpec /\ Fairness

=============================================================================
