SPECIFICATION FairSpec
CONSTANTS
  a = a
  b = b
  c = c
  d1 = d1
  d2 = d2
  None = None
  Lead = lead
  Tasks = {a, b, c}
  Human = {c}
  Devs = {d1, d2}
  MaxFailedSessionRetries = 1
  Starts <- FailingStart
PROPERTY FollowUpYields
