SPECIFICATION Spec
CONSTANTS
  f = f
  g = g
  h = h
  NONE = NONE
  Commands = {f, g, h}
  NoCommand = NONE
  Opcode <- ThreeOpcodes
  Kind <- ThreeKinds
  VendorOpcodes <- VscOpcodes
  NopOpcode = "none"
  Slots = 2
  MaxNops = 0
  ImproperVsc = TRUE
  Timeout = 1
  MaxSessions = 2
  MayShutDown = TRUE
INVARIANTS
  NoOvertaking
  TimerTracksPending
PROPERTIES
  ServesCommands
