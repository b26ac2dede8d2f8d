SPECIFICATION Spec
CONSTANTS
  Proc = {p1, p2}
  None = None
  Ops <- MCPassword
  TotpSettings = {FALSE}
  Threshold = 2
  MaxClock = 5
  MaxPw = 1
  MaxSecret = 1
  MaxCounter = 2
  MaxEpoch = 1
  MaxSessions = 2
SYMMETRY Symmetry
INVARIANTS TypeOK DirectLoginsRestOnPassword MissesLock CodeUsedOnce
\* The clock stops at its bound.
CHECK_DEADLOCK FALSE
