SPECIFICATION Spec
CONSTANTS
  Proc = {p1}
  NoProc = NoProc
  NoSave = NoSave
  Baseline <- MidTransferContents
  Command = {"drive"}
  MaxBusOps = 3
  MaxSignals = 3
  MaxFaults = 2
  MaxKills = 1
INVARIANT IInv
INVARIANT DrivenWhileClaimed
INVARIANT OpenDrain
PROPERTY HonestExit
