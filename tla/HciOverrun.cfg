SPECIFICATION Spec
CONSTANTS
  f = f
  g = g
  h = h
  NONE = NONE
  Commands = {f, g, h}
  NoCommand = NONE
  Opcode <- ThreeOpcodes
  Kind <- ThreeKinds
  VendorOpcodes <- VscOpcodes
  NopOpcode = "none"
  Slots = 2
  MaxNops = 0
  ImproperVsc = FALSE
  Timeout = 1
  MaxSessions = 1
  MayShutDown = FALSE
INVARIANTS
  NoOverrun
