------------------------------ MODULE MCStore ------------------------------
(* SessionStore on small instances. *)
EXTENDS SessionStore

NoFaults == [f \in FaultKinds |-> 0]
With(f, n) == [NoFaults EXCEPT ![f] = n]
With2(f, n, g, k) == [NoFaults EXCEPT ![f] = n, ![g] = k]

Plan(changes, kinds, overlap, faults) ==
    [changes |-> changes, kinds |-> kinds, overlap |-> overlap, faults |-> faults]

\* One process after another with every fault, and two at once.
CrashOrOverlap ==
    {Plan(<<2, 1, 0>>, {"talk", "note", "step"}, FALSE, [f \in FaultKinds |-> 1]),
     Plan(<<2, 1, 1>>, {"talk"}, TRUE, [With2("cut", 1, "break", 1) EXCEPT !["crash"] = 1])}
TwoCuts == {Plan(<<2, 2, 1>>, {"talk", "note", "step"}, FALSE, With("cut", 2))}
CutAndReplay == {Plan(<<2, 1, 1>>, {"talk"}, FALSE, With2("cut", 1, "replay", 1))}
=============================================================================
