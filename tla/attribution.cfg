SPECIFICATION Spec
CONSTANTS
  t1 = t1  t2 = t2  t3 = t3  ts = ts  ox = ox  None = None
  Threads = {t1, t2, t3}
  Models <- MCModels
  OnnxModels <- MCOnnxModels
  Compatible <- MCCompatible
  Kinds <- KindsSwap
  Names <- NamesSwap
  ActiveAtStart = {None, ox}
INVARIANTS AttributionSound
