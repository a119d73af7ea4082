SPECIFICATION FairSpec
CONSTANTS
  Threads <- OneThread
  Configs <- EndlessConfigs
  MaxIters = 0
  Env <- QuietEnv
INVARIANT IdleIsReported
PROPERTY ConfigurationIsApplied
