SPECIFICATION Spec
CONSTANTS
  p1 = p1
  p2 = p2
  s1 = s1
  s2 = s2
  f1 = f1
  Procs = {p1, p2}
  Slots = {s1, s2}
  Foreign = {f1}
  NoHandle = NoHandle
  Modes <- MCModes
  MaxLoans = 3
SYMMETRY Symmetry
CHECK_DEADLOCK FALSE
INVARIANT TypeOK
INVARIANT PooledOnce
INVARIANT PlainPooledOnce
INVARIANT NoSharing
INVARIANT NoPanic
INVARIANT PooledClean
INVARIANT RedeemsOwnLoan
INVARIANT LeakReportExact
PROPERTY ImplementsLoans
