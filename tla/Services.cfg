SPECIFICATION ServicesSpec
CONSTANTS
  c1 = c1
  Callers = {c1}
  LatePrepare = FALSE
  MaxWriters = 2
  MaxCommands = 3
  Capacity = 2
  BufferSize = 3
  Boundary = 6
  Thresholds = {1, 3}
  AvailMin = 2
  MaxWrite = 4
  Ahead = 2
  Settings <- SoundSettings
  MaxSessions = 2
  MaxCalls = 2
  MaxFailures = 1
  Top = 5
  MaxFaults = 2
INVARIANTS
  WriterWithinStream
  QueuesOutliveWriter
  ReportedIsAccepted
  NeverCallsNull
  AnsweredAsAsked
  SuccessIsBacked
  SuccessMeansWritten
  KernelFollows
  CountsEachInterval
PROPERTIES
  WaitsEnd
  LiveClientKept
  ComesBack
  RoomIsReal
  BoostsEnd
  RestoresWhatItSaw
