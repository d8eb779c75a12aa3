SPECIFICATION Spec
CONSTANTS
  Proc = {p1}
  NoProc = NoProc
  NoSave = NoSave
  Baseline <- DriverContents
  Command = {"drive"}
  MaxBusOps = 1
  MaxSignals = 1
  MaxFaults = 0
  MaxKills = 0
INVARIANT CleanupIsIdempotent
