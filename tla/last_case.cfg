SPECIFICATION AnalysisSpec
CONSTANTS
  Byte = {0, 1, 2, 3}
  Exor <- BitXor
  MZ <- Header
  MaxLen = 6
  Names <- Blobs
  Wide = 8
  XOR_K = 5
  MOD = 3
  Limit = 6
  Absent = Absent
  Model = 2
  Scenario <- FollowedScenarios
INVARIANT VerdictIsTheMethods
CHECK_DEADLOCK FALSE
