SPECIFICATION Spec
CONSTANTS
  Keys <- Groups
  MaxValue = 1
  Docs <- GroupDocs
  AppValues <- OwnValues
  InitialSensor <- StartValues
  Registers = {"r", "s"}
  MaxRegisters = 2
  MaxModels = 8
  MaxGamma = 2
  Env = {"refuse", "mainSets", "workerSets"}
INVARIANTS
  Mirrored
PROPERTIES
  AbsentIsKept
  SetsOrdered
