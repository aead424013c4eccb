------------------------------- MODULE MCJobs -------------------------------
(* Jobs on small instances. *)
EXTENDS Jobs, TLC

CONSTANTS p1, p2, f1, f2, n1

MCProcs == {p1, p2}
OneProc == {p1}

\* Follow-ups share the key of their session and stage, a notification has its own.
RowKind == [j \in Rows |-> IF j = n1 THEN "handoff_notify" ELSE "followup"]
RowKey == [j \in Rows |-> IF j = n1 THEN "notice" ELSE "stage"]

\* Bound: a behaviour has a follow-up and two starts, or a notification and
\* three; a lane without a row of its own stays idle.
OneRow ==
    /\ row[f1].st = "absent" \/ row[n1].st = "absent"
    /\ row[f1].st # "absent" => boots <= 2
    /\ \A p \in Procs, k \in Lanes :
        (\A j \in OfLane(k) : row[j].st = "absent") => lane[p][k] = "idle"

Symmetry == Permutations(MCProcs)
=============================================================================
