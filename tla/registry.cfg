SPECIFICATION Spec
CONSTANTS
  op = op  x = x  y = y  z = z  w = w
  Nobody = Nobody  Absent = Absent  Torn = Torn
  Submissions = {x, y, z, w}
  Ids = {x, y, z, w}
  Clients = {op, x, y, z, w}
  Tasks = {"classification"}
  TaskOf <- MCTaskOf
  NameOf <- MCNameOf
  FileOf <- MCFileOf
  ContentOf <- MCContentOf
  Valid = {x, y}
  Malformed = {w}
  WantsActive = {x, y}
  MaxSends <- MCMaxSends
  MaxCrashes = 1
  MaxLost = 1
INVARIANTS ArchiveKept RowDescribesUpload RegisteredActive NoOrphanFile
PROPERTIES ImplementsActivation
CHECK_DEADLOCK FALSE
