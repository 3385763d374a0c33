\* Two processes that open a thread on which two turns were committed, or one that
\* was compacted since; twice a process may end or an append report an error;
\* room for three more events, and for those that end something.
SPECIFICATION FairSpec
CONSTANTS
  a = a  b = b  t1 = t1  t2 = t2  t3 = t3  t4 = t4
  None = None
  Sessions = {a, b}
  Turns = {t1, t2, t3, t4}
  KeepRecent = 1
  Earlier <- Begun
  MaxEvents = 7
  MaxFailures = 2
INVARIANTS CheckpointsAreSound ContextIsWhole ReturnedTurnsAreEnded
PROPERTY OperationsReturn
