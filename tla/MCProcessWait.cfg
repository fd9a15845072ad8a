CONSTANTS
  MAX_PROCESSES = 4
  Codes <- MCCodes
  UINT32_SPAN = 16
  MaxRip = 3
SPECIFICATION Spec
PROPERTY WaitReturnsThatChild
CHECK_DEADLOCK FALSE
