SPECIFICATION Spec
CONSTANTS
  Proc = {p1, p2}
  None = None
  Ops <- MCFactor
  TotpSettings = {TRUE, FALSE}
  Threshold = 1
  MaxClock = 5
  MaxPw = 0
  MaxSecret = 3
  MaxCounter = 2
  MaxEpoch = 0
  MaxSessions = 1
SYMMETRY Symmetry
INVARIANT ActiveFactorShown
\* The clock stops at its bound.
CHECK_DEADLOCK FALSE
