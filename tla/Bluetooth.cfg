SPECIFICATION BluetoothSpec
CONSTANTS
  f = f
  g = g
  h = h
  NONE = NONE
  Commands = {f, g}
  NoCommand = NONE
  Opcode <- TwoOpcodes
  Kind <- TwoKinds
  VendorOpcodes <- VscOpcodes
  NopOpcode = "none"
  Slots = 1
  MaxNops = 0
  ImproperVsc = TRUE
  Timeout = 1
  MaxSessions = 1
  MayShutDown = FALSE
  StartUps = 2
  MaxPackets = 2
  AllocationFails = TRUE
  Chips <- SixChips
  Reliable = {"resolvingList", "dataLength", "advLength", "advSets"}
  MaxStarts = 2
  MaxChanges = 3
  MaxInFlight = 2
  UrandomWorks = TRUE
INVARIANTS
  NoOverrun
  SendsOnlyToOpenHal
  ReadyMatchesChip
  AskedInOrder
  SettledAgreement
PROPERTIES
  FutureAnswered
  UnansweredCommandAborts
  WaitersAnswered
