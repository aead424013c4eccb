----------------------------- MODULE SendTicket -----------------------------
(***************************************************************************)
(* What the jobs table promises for a follow-up (jobs/runner.ts header,    *)
(* "at most once"): every row owns one ticket.  It is free until the row   *)
(* is moved to `sending', then it is either in the hands of the one        *)
(* executor whose commit moved it, used by that executor's push, or void.  *)
(* A ticket that left a state never comes back to it.                      *)
(***************************************************************************)
CONSTANT Rows

VARIABLE ticket

States == {"free", "granted", "used", "void"}

Init == ticket = [j \in Rows |-> "free"]

Grant(j) == ticket[j] = "free" /\ ticket' = [ticket EXCEPT ![j] = "granted"]
Use(j)   == ticket[j] = "granted" /\ ticket' = [ticket EXCEPT ![j] = "used"]

\* One process exit, restart or cancellation may void the tickets of several rows.
Void(S) ==
    /\ \A j \in S : ticket[j] \in {"free", "granted"}
    /\ ticket' = [j \in Rows |-> IF j \in S THEN "void" ELSE ticket[j]]

Next ==
    \/ \E j \in Rows : Grant(j) \/ Use(j)
    \/ \E S \in SUBSET Rows : Void(S)

Spec == Init /\ [][Next]_ticket
=============================================================================
