--------------------------- MODULE MCNodeLifecycle ---------------------------
EXTENDS NodeLifecycle, TLC
CONSTANTS n1, n2, n3
\* n1 and n2 have the same key.
TwoKeys == [n \in Nodes |-> IF n \in {n1, n2} THEN "a" ELSE "b"]
\* ... and are alike in everything else.
TaskSymmetry == Permutations(Tasks) \cup Permutations(Lists) \cup Permutations({n1, n2})
=============================================================================
