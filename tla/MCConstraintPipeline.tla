-------------------------- MODULE MCConstraintPipeline --------------------------
EXTENDS ConstraintPipeline

\* Constraint c1 is submitted twice; c2, of the next block, cannot be decoded.
MCBlockOf == [c \in ConstraintIds |-> IF c = "c1" THEN 1 ELSE 2]
MCCallOf == [k \in Calls |-> IF k = "k2" THEN "c2" ELSE "c1"]
MCTxsOf == [c \in ConstraintIds |-> 1]

\* Bound: one block, either of them, is removed by a command.
OneRemoval == \A i \in DOMAIN commands' : commands'[i].op = "remove" => removed' = {}

MCSpec == Init /\ [][Next /\ OneRemoval]_vars /\ Fairness
================================================================================
