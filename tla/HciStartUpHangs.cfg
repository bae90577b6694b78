SPECIFICATION FairSpec
CONSTANTS
  MaxSessions = 1
  MaxPackets = 1
  AllocationFails = FALSE
PROPERTIES
  StartUpIsBounded
