SPECIFICATION FairSpec
CONSTANTS
  Threads <- OneThread
  Configs <- AllConfigs
  MaxIters = 2
  Env <- JoinableEnv
INVARIANTS
  ConfigureIsQuiescent
  IdleIsSettled
PROPERTIES
  KeepsLifecycle
  StopEndsWorker
  LimitedRunLeavesRunning
