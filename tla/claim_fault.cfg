SPECIFICATION Spec
CONSTANTS
  Proc = {p1}
  NoProc = NoProc
  NoSave = NoSave
  Baseline <- DriverContents
  Command = {"drive"}
  MaxBusOps = 1
  MaxSignals = 0
  MaxFaults = 1
  MaxKills = 0
INVARIANT RestoredOnEveryExit
