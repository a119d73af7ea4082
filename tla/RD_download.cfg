SPECIFICATION FairSpec
CONSTANTS
  Addresses <- TwoAddresses
  MaxFutures = 2
  MaxRetry = 2
  MaxCalls = 3
  Env <- AllEnv
INVARIANTS
  FutureOutlivesDownload
  RetriesAreBounded
PROPERTIES
  DrainEnds
  KeepsContract
