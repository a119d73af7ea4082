SPECIFICATION Spec
CONSTANTS
  Threads = {"t1", "t2"}
  Models = {"m1", "m2", "m3"}
  Limits = {1, 2, 3}
  MaxQueue = 2
  MaxInferences = 4
  Env <- AllEnv
INVARIANTS
  CountMatchesQueue
PROPERTIES
  KeepsQueues
