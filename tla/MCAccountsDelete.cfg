SPECIFICATION Spec
CONSTANTS
  Proc = {p1, p2}
  Account = {a1, a2}
  Subject = {s1}
  Ops <- MCDeletes
  MaxEpoch = 1
  None = None
SYMMETRY Symmetry
INVARIANT AdministratorRemains
\* The accounts left may be inactive or at the bound of session_epoch.
CHECK_DEADLOCK FALSE
