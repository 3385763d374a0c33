--------------------------- MODULE MCJournalFile ---------------------------
(* An instance of JournalFile: two goroutines of one process and one of    *)
(* another.                                                                *)
EXTENDS JournalFile, TLC

CONSTANTS p1, p2, p3, s1, s2

TwoStores == (p1 :> s1) @@ (p2 :> s1) @@ (p3 :> s2)
(* Bound: two goroutines append, whichever they are; the third one loads,  *)
(* reads or deletes.                                                       *)
TwoAppend == Cardinality({p \in Procs : attempts[p] > 0}) <= 2
Symmetry == Permutations({p1, p2})
=============================================================================
