SPECIFICATION CommandSpec
CONSTANTS
  Register <- Registers
  Value <- Values
  NoCall = NoCall
  NoValue = NoValue
  Level = {"dim", "full"}
  Mode = {"custom", "off"}
  Absent = Absent
  Bad = Bad
  Job <- Jobs
  NoJob = NoJob
INVARIANT TypeOK
INVARIANT PrefixApplied
PROPERTY AppliedOnSuccess
PROPERTY SnapshotOnSuccess
PROPERTY ModeComesLast
