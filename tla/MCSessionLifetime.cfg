SPECIFICATION Spec
CONSTANTS
  Sid = {s1}
  Req = {r1, r2, r3}
  Idle = 2
  Absolute = 3
  MaxTime = 6
  None = None
INVARIANT TokensAge
PROPERTIES LoggedOutStaysOut RevocationsForgotten
\* Sessions and the clock come to an end.
CHECK_DEADLOCK FALSE
