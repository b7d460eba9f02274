SPECIFICATION Spec
CONSTANTS
  op = op  x = x  y = y  z = z  w = w
  Nobody = Nobody  Absent = Absent  Torn = Torn
  Submissions = {x}
  Ids = {x}
  Clients = {op, x}
  Tasks = {"classification"}
  TaskOf <- MCTaskOf
  NameOf <- MCNameOf
  FileOf <- MCFileOf
  ContentOf <- MCContentOf
  Valid = {x}
  Malformed = {w}
  WantsActive = {x}
  MaxSends <- MCMaxSends
  MaxCrashes = 0
  MaxLost = 0
INVARIANTS ArchiveIntact
CHECK_DEADLOCK FALSE
