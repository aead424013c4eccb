----------------------------- MODULE DurableLog -----------------------------
(***************************************************************************)
(* What the session store promises for one conversation (store.ts and the  *)
(* header of store/pg-backend.ts): its messages are one log that only      *)
(* grows, so are its side rows, nothing is written twice, and what a       *)
(* process was told is committed stays written.                            *)
(***************************************************************************)
EXTENDS Sequences, SequencesExt, Functions

VARIABLES log,   \* messages, by seq
          side,  \* audits, jobs, consents
          told   \* what afterCommit was run for

Rows(l, s) == Range(l) \cup Range(s)

Init == log = <<>> /\ side = <<>> /\ told = {}

Next ==
    /\ IsPrefix(log, log') /\ IsPrefix(side, side')
    /\ IsInjective(log' \o side')
    /\ told \subseteq told' /\ told' \subseteq Rows(log', side')

Spec == Init /\ [][Next]_<<log, side, told>>
=============================================================================
