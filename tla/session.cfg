SPECIFICATION Spec
CONSTANTS
  Proc = {p1, p2}
  NoProc = NoProc
  NoSave = NoSave
  Baseline <- DriverContents
  Command = {"drive"}
  MaxBusOps = 1
  MaxSignals = 1
  MaxFaults = 0
  MaxKills = 1
SYMMETRY ProcSymmetry
INVARIANT TypeOK
INVARIANT RestoredWhenFree
PROPERTY OnlyHolderWrites
PROPERTY RefinesCustody
