CONSTANTS
  MAX_PROCESSES = 4
  Codes <- MCCodes
  UINT32_SPAN = 16
  MaxRip = 2
SPECIFICATION FairSpec
INVARIANTS
  OneRunning
  WaitersAreWoken
  HaltsOnlyWhenAllExited
  SavedWhereItLeft
PROPERTIES ExitIsFinal ReadyRuns
CHECK_DEADLOCK FALSE
