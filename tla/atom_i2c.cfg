SPECIFICATION FairSpec
CONSTANTS
  Image <- Images
  Absent = Absent
  BIOS_MAX_NUM_RECORD = 2
  Longest = 6
INVARIANT TypeOK
INVARIANT EveryConsumerAccounted
INVARIANT ObjectsFollow
PROPERTY ScriptEnds
CHECK_DEADLOCK FALSE
