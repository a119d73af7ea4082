SPECIFICATION FairSpec
CONSTANTS
  Workers = {worker}
  Main = main_thread
  MaxCalls = 3
  Env <- AllEnv
INVARIANTS
  ExportsExcludePumps
  FlagsAreReleased
  SuccessIsOwn
  WaitersAreAlone
PROPERTIES
  
  MainProceeds
CHECK_DEADLOCK FALSE
