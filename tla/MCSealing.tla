----------------------------- MODULE MCSealing -----------------------------
(* Small instances of Sealing for TLC.                                      *)
EXTENDS Sealing, TLC

\* A poor and a rich block.
MCValue == [t \in {"poor", "rich"} |-> IF t = "poor" THEN 1 ELSE 2]

\* Algorithms, and relay sets, differ in name only.
MCSymmetry == Permutations(Algorithms) \cup Permutations(RelaySets)

\* A slot that lasts: a worker that has ended changes nothing that the
\* invariants are about.  The run of FairSpec ends slots at any moment.
LastingSpec == Init /\ [][Next /\ ~cancelled']_vars
============================================================================
