SPECIFICATION CliSpec
CONSTANTS
  Register <- Registers
  Value <- Values
  NoCall = NoCall
  NoValue = NoValue
  Level = {"full"}
  Mode = {"custom", "off"}
  Absent = Absent
  Bad = Bad
  Job <- Jobs
  NoJob = NoJob
  Main = main
  NoProc = NoProc
  NoSave = NoSave
  Baseline <- DriverContents
  MaxBusOps = 1
  MaxSignals = 2
  MaxFaults = 1
  Card <- Cards
PROPERTY RefinesCommands
PROPERTY VerdictMeansRestored
PROPERTY ForeignCardUntouched
PROPERTY CommandReturns
