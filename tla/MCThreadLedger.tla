--------------------------- MODULE MCThreadLedger ---------------------------
(* Model values and symmetry for the runs of ThreadLedger.                 *)
EXTENDS ThreadLedger, TLC

CONSTANTS a, b, t1, t2, k1, k2, op1, op2, op3, cp1, cp2, u1, u2, m1, m2

\* Processes, and the ids they draw, are interchangeable.
Symmetry == Permutations({a, b}) \cup Permutations({t1, t2}) \cup Permutations({k1, k2})
            \cup Permutations({op1, op2, op3}) \cup Permutations({cp1, cp2})
            \cup Permutations({u1, u2}) \cup Permutations({m1, m2})
=============================================================================
