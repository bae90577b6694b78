SPECIFICATION Spec
CONSTANTS
  wallpaper = wallpaper
  window = window
  Layers = {wallpaper, window}
  ZOrder <- WallpaperBehind
  GpuOnly = {wallpaper}
  Buffers <- WindowOrVideo
INVARIANTS
  VideoIsDrawn
