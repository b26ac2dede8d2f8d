SPECIFICATION OidcSpec
CONSTANTS
  Callback = {c1, c2, c3}
  Key = {k1, k2, k3}
  FirstKey = k1
  Ttl = 2
  MaxMonotonic = 5
  Unset = Unset
SYMMETRY Symmetry
INVARIANTS RotationRefusesNobody WithdrawnKeyExpires
\* The clock stops at its bound, and each callback happens once.
CHECK_DEADLOCK FALSE
