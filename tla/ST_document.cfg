SPECIFICATION Spec
CONSTANTS
  Keys <- Others
  MaxValue = 1
  Docs <- OtherDocs
  AppValues <- OwnValues
  InitialSensor <- StartValues
  Registers = {"r", "s"}
  MaxRegisters = 2
  MaxModels = 8
  MaxGamma = 2
  Env = {"refuse", "mainSets", "refuseRegister", "downloadFails", "onConfigureFails", "workerSets", "setsRegister", "sendFails"}
INVARIANTS
  OkMeansApplied
  StoppedIsReported
