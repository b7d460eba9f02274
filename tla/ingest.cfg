SPECIFICATION BoardsFairSpec
CONSTANTS
  a1 = a1  a2 = a2  a3 = a3  i1 = i1  i2 = i2  bad = bad  r1 = r1  r2 = r2
  None = None
  Attempts = {a1, a2, a3}
  Images = {i1, i2, bad}
  ViewsOf <- ViewsMixed
  HasEdge = {a1, a2, a3}
  RunInference = {a1, a2, a3}
  Undecodable = {bad}
  Malformed = {a3}
  MaxViews = {1, 2}
  Readers = {r1}
  Waits = {r1}
  MaxFaults = 1
INVARIANTS RowsHaveObjects AckedViewsStored InsertNeverConflicts OneEdge OwnEdgeCompared InferredWithoutFaults ReadCoherent WaitBringsPrediction
PROPERTIES Settles WaitEnds
