SPECIFICATION Spec
CONSTANTS
  Proc = {p1, p2}
  User = {u1, u2}
  Group = {g1, g2}
  Edits <- MCEdits
  None = None
SYMMETRY Symmetry
INVARIANT TypeOK
PROPERTIES GroupsComeAndGoLogged UsersComeAndGoLogged NoNewDuplicates UntouchedCollectionsKept
