SPECIFICATION Spec
CONSTANTS
  Key = {k1, k2}
  Limit = 2
  Window = 2
  MaxTime = 7
INVARIANTS WindowBound KeysForgotten
PROPERTY DecidesAsPromised
