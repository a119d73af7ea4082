SPECIFICATION FairSpec
CONSTANTS
  Futures <- TwoFutures
  MaxFutures = 1
  Callers <- TwoCallers
  Env = {"disabled", "encode", "reject"}
INVARIANT SentDataReleased
PROPERTIES
  AwaitReturns
  AbandonedIsFreed
