------------------------------ MODULE MCWebApp ------------------------------
(* Instances of WebApp for TLC: three requests with three, two and no numbers. *)
EXTENDS WebApp

CONSTANTS r1, r2, r3

MCRequests == {r1, r2, r3}

MCCount == (r1 :> 3) @@ (r2 :> 2) @@ (r3 :> 0)

=============================================================================
