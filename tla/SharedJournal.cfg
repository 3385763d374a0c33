\* Two processes on one file and a third beside them, with a crash or a power failure.
SPECIFICATION Spec
CONSTANTS
  p1 = p1  p2 = p2  p3 = p3  s1 = s1  s2 = s2
  None = None
  Procs = {p1, p2, p3}
  Stores = {s1, s2}
  StoreOf <- TwoStores
  MaxAttempts = 1
  MaxFiles = 2
  MaxFailures = 1
CONSTRAINT TwoAppend
SYMMETRY Symmetry
INVARIANT JournalIsSound
PROPERTY ImplementsLog
