SPECIFICATION FairSpec
CONSTANTS
  Settings <- LostSettings
  MaxSessions = 2
  MaxCalls = 1
PROPERTIES
  ComesBack
CHECK_DEADLOCK FALSE
