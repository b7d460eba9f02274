SPECIFICATION FairSpec
CONSTANTS
  k1 = k1  k2 = k2  k3 = k3  l1 = l1
  b1 = b1  b2 = b2  r1 = r1  r2 = r2  r3 = r3
  None = None
  Installed <- MCInstalled
  Releases <- MCReleases
  MaxFaults = 1
  Keys = {k1, k2, k3}
  Bootstrap = {k1, k2}
  Device = "rig"
  Links = {l1}
  Browsers = {b1, b2}
  Sessions <- MCSessions
  Requests = {r1, r2, r3}
  Ops <- MCOps
  TTL = 1
  MaxTime = 2
INVARIANTS SchemaFollowsRecord LinkOnce RevokedActsNoMore AdminStays
PROPERTIES Boots
CHECK_DEADLOCK FALSE
