----------------------------- MODULE MCOpening ------------------------------
(* The small instance of Opening that TLC checks.                          *)
EXTENDS Opening, TLC

MCOf == [m \in Tasks |-> CHOOSE u \in Users : TRUE]
MCKeys == [c \in Chains |-> IF c = "TRC20" THEN 1 ELSE 0]

OpeningSymmetry == Permutations(Tasks) \cup Permutations(Rows)
=============================================================================
