SPECIFICATION Spec
CONSTANTS
  Name = {n1, n2}
  Group = {g1}
  Method = {pap}
  n1 = n1
  n2 = n2
  g1 = g1
  pap = pap
  Default = "both"
  Files <- MCFiles
  InitialDbs <- MCInitialDbs
  PreviewLimit = 2
  MaxImports = 2
  MaxOthers = 1
INVARIANTS OnePassword ErrorsShown PreviewKept
PROPERTIES TypeStaysTrue MethodsKept RowsStandAlone
\* Uploads and other requests are bounded.
CHECK_DEADLOCK FALSE
