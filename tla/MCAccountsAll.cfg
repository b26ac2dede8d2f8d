SPECIFICATION Spec
CONSTANTS
  Proc = {p1, p2}
  Account = {a1, a2}
  Subject = {s1}
  Ops <- MCEveryOp
  MaxEpoch = 1
  None = None
SYMMETRY Symmetry
INVARIANTS TypeOK CountStillTrue EveryAccountReachable
\* With delete() the table may end up empty, and then nothing can happen any more.
CHECK_DEADLOCK FALSE
