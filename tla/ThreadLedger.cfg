\* Two processes, with every mutation of turns, metadata and compactions.
SPECIFICATION Spec
CONSTANTS
  a = a  b = b  t1 = t1  t2 = t2  k1 = k1  k2 = k2  op1 = op1  op2 = op2  op3 = op3
  cp1 = cp1  cp2 = cp2  u1 = u1  u2 = u2  m1 = m1  m2 = m2
  None = None
  Clients = {a, b}
  Turns = {t1, t2}
  Tools = {k1}
  Operations = {op1, op2, op3}
  Checkpoints = {cp1, cp2}
  Calls = {u1}
  Models = {m1, m2}
  MaxLowGainAttempts = 2
  MaxRevision = 7
SYMMETRY Symmetry
INVARIANTS JournalReplays AntiThrash LineageIsWellFounded
PROPERTIES EndedTurnsAreFrozen RecoverySparesNewerTurns
