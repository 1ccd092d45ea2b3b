SPECIFICATION Spec
CONSTANTS
  Users = {u1, u2}
  DummyFiles = {"accel_calibscale", "activity_running"}
  DummyArgs <- MCDummyArgs
  KdemoFiles = {"bar"}
  KdemoArgs <- MCKdemoArgs
  MaxTries = 2
  Samples = {30, 1200}
INVARIANT TypeOK
PROPERTIES
  ImplementsAtomicFiles
  DistanceHonest
  CallsEnd
