----------------------------- MODULE Turnstile -----------------------------
(***************************************************************************)
(* What llm-gate.ts promises of one pool of slots: a first-come,           *)
(* first-served turnstile.  A slot that comes free goes to the first in    *)
(* line; whoever gives up leaves the line and takes no slot with him.      *)
(***************************************************************************)
EXTENDS Naturals, Lines

CONSTANTS People, Slots

VARIABLES inside, line

Init == inside = {} /\ line = <<>>

Arrive(c) ==
    /\ c \notin inside \cup Standing(line)
    /\ IF Cardinality(inside) < Slots
       THEN inside' = inside \cup {c} /\ UNCHANGED line
       ELSE line' = Append(line, c) /\ UNCHANGED inside

\* Some go out and are relieved by the first in line; then some of those
\* who still stand there give up.
Depart(out, lost) ==
    LET k == IF Cardinality(out) < Len(line) THEN Cardinality(out) ELSE Len(line)
    IN  /\ out \subseteq inside /\ lost \subseteq Standing(line)
        /\ inside' = (inside \ out) \cup {line[i] : i \in 1..k}
        /\ line' = Without(SubSeq(line, k + 1, Len(line)), lost)

Next ==
    \/ \E c \in People : Arrive(c)
    \/ \E out \in SUBSET inside, lost \in SUBSET Standing(line) : Depart(out, lost)

Spec == Init /\ [][Next]_<<inside, line>>
=============================================================================
