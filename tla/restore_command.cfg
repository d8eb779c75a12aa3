SPECIFICATION Spec
CONSTANTS
  Proc = {p1}
  NoProc = NoProc
  NoSave = NoSave
  Baseline <- DriverContents
  Command = {"drive", "restore"}
  MaxBusOps = 1
  MaxSignals = 0
  MaxFaults = 0
  MaxKills = 1
PROPERTY RestoreCommandRestores
