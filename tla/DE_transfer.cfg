SPECIFICATION Spec
CONSTANTS
  Futures <- ThreeFutures
  MaxFutures = 2
  Callers <- OneCaller
  Env <- AllEnv
INVARIANTS
  FutureOutlivesTransfer
  DataOutlivesTransfer
  DrainedMeansDone
  PendingIsReal
PROPERTY KeepsContract
