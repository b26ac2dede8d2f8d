SPECIFICATION Spec
CONSTANTS
  Proc = {p1, p2}
  Account = {a1, a2}
  Subject = {s1}
  Ops <- MCUpdates
  MaxEpoch = 2
  None = None
SYMMETRY Symmetry
INVARIANT AdministratorRemains
PROPERTY NoRevival
\* All accounts may be inactive or at the bound of session_epoch.
CHECK_DEADLOCK FALSE
