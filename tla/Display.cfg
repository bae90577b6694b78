SPECIFICATION DisplaySpec
CONSTANTS
  None = None
  Bufs = {b1, b2, b3}
  FbSlots = 3
  MaxFrames = 4
  SlowLimit = 2
  Modes <- SoundModes
  Needed = 2
  MaxResyncs = 1
  MaxErrors = 1
  c1 = c1
  c2 = c2
  v1 = v1
  v2 = v2
  e1 = e1
  Clients = {c1, c2}
  Virtual = {v1, v2}
  External = {e1}
  Surfaces = {"s1", "s2"}
  Ids = {"id"}
  MaxTimeouts = 1
  Casts <- ThreeCasts
  a = a
  b = b
  Layers = {a, b}
  ZOrder <- BackToFront
  Plots <- TenPlots
  NoLayer = NoLayer
  GpuOnly = {a}
  Buffers <- BuffersOf
INVARIANTS
  NeverTorn
  ArmedIsNewest
  SilentInTheDark
  DevicesFollowDisplays
  ShadowHasWhatIsAcquired
  PictureIsWhole
  SwitchesTakeEffect
PROPERTIES
  FramesAdvance
  VsyncSettles
  SyncTakesEffect
  ScreenIsKept
  FramesWaitForChanges
  ChangesWaitForFrames
  NothingIsStuck
