-------------------------- MODULE MCSessionContext --------------------------
(* Model values and symmetry for the runs of SessionContext.               *)
EXTENDS SessionContext, TLC

CONSTANTS a, b, t1, t2, t3, t4

\* A thread on which two turns were committed, or one that was compacted.
TwoTurns == <<Event("started", t1), Event("committed", t1),
              Event("started", t2), Event("committed", t2)>>
OneCompacted == <<Event("started", t1), Event("committed", t1),
                  Event("compacting", None), Compacted(3, {t1}, 0)>>
Begun == {TwoTurns, OneCompacted}

\* Processes run the same program.
Symmetry == Permutations({a, b})
=============================================================================
