SPECIFICATION Spec
CONSTANTS
  a1 = a1  a2 = a2  i1 = i1  i2 = i2  bad = bad
  None = None
  Attempts = {a1, a2}
  Images = {i1, i2, bad}
  ViewsOf <- ViewsRetry
  HasEdge = {a1, a2}
  RunInference = {a1, a2}
  Undecodable = {bad}
  Malformed = {}
  MaxViews = {1}
  MaxFaults = 1
INVARIANTS AckedInferred
