SPECIFICATION FairSpec
CONSTANTS
  t1 = t1  t2 = t2  t3 = t3  ts = ts  ox = ox  None = None
  Threads = {t1, t2, t3}
  Models <- MCModels
  OnnxModels <- MCOnnxModels
  Compatible <- MCCompatible
  Kinds <- KindsAll
  Names <- NamesAll
  ActiveAtStart = {None, ox}
INVARIANTS RunnerConsistent OneResident ForwardCoherent IdPublishedLast UndisturbedSound 
PROPERTIES UndisturbedUnload ImplementsRunner ImplementsSlot RequestsEnd
