SPECIFICATION HangSpec
CONSTANTS
  Threads <- OneThread
  Configs <- HangConfigs
  MaxIters = 1
  Env = {"joinTimeout", "appExit", "onIterate"}
INVARIANT ApplyingHasConfiguration
PROPERTY ExitIsHonoured
