SPECIFICATION Spec
CONSTANTS
  m1 = m1
  m2 = m2
  t1 = t1
  t2 = t2
  t3 = t3
  Ids <- AllModels
  NoId = NoId
  Crops <- AllCrops
  Full = "full"
  Dummy = "dummy"
  NoBox = "nobox"
  Stamps <- AllStamps
  NoStamp = NoStamp
  NoFrame = NoFrame
  RetryMax = 4
  MaxLag = 3
SYMMETRY Names
INVARIANTS
  ClassifiesDetection
  ModeIsRestored
  ImageHasFrame
CHECK_DEADLOCK FALSE
