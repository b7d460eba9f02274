SPECIFICATION Spec
CONSTANTS
  Nothing = Nothing
  Views <- MCViews
  Manifests <- MCManifests
  MaxUpload = 2
  Pixels = {1, 2, 3}
  Winners = {0, 1, 2, 256}
INVARIANTS InstancesInside AttentionIsOwn
CHECK_DEADLOCK FALSE
