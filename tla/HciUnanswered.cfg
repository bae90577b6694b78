SPECIFICATION HostFairSpec
CONSTANTS
  f = f
  g = g
  h = h
  NONE = NONE
  Commands = {f, g}
  NoCommand = NONE
  Opcode <- TwoOpcodes
  Kind <- TwoKinds
  VendorOpcodes <- VscOpcodes
  NopOpcode = "none"
  Slots = 3
  MaxNops = 0
  ImproperVsc = FALSE
  Timeout = 2
  MaxSessions = 1
  MayShutDown = FALSE
PROPERTIES
  UnansweredCommandAborts
