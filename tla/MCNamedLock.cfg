\* Three requests compete for two query and two lock connections; no symmetry,
\* because a liveness property is checked.
SPECIFICATION Spec
CONSTANTS
  Proc = {p1, p2, p3}
  NoProc = NoProc
  staff = staff
  Staff = Staff
  guest = guest
  Name <- MCName
  Fold <- MCFold
  KeyMax = 2
  LockPool = 2
  QueryPool = 2
INVARIANTS TypeOK FreshCheck NoWaitCycle NoLeakedLock
PROPERTY EveryBlockEnds
