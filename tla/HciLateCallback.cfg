SPECIFICATION Spec
CONSTANTS
  MaxSessions = 2
  MaxPackets = 2
  AllocationFails = FALSE
INVARIANTS
  NoCallbackAfterLoop
