SPECIFICATION Spec
CONSTANTS
  Id = {i1, i2}
  a = a
  w = w
  Name = {a, w}
  Legacy = {i1}
  Proc = {p1, p2}
  Req = {r1}
  Session = {s1}
  HostOf <- MCHostOf
  NetsOf <- MCNetsOf
  Prefix <- MCPrefix
  Attempts = 2
  None = None
INVARIANTS NasTypeOK NamesUnique SettingsFollow SuccessMeansDone HiddenOnlyByLoss
PROPERTY EveryAttemptLogged
\* Every packet is sent a bounded number of times; requests come to an end.
CHECK_DEADLOCK FALSE
