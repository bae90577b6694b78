----------------------------- MODULE MCHwcFrame ------------------------------
(* One window in front of a wallpaper, whose buffers may become a video's.  *)
EXTENDS HwcFrame

CONSTANTS wallpaper, window

WallpaperBehind == <<wallpaper, window>>
WindowOrVideo ==
  [l \in Layers |-> IF l = window THEN {"rgba", "rgbx", "yuv"} ELSE {"rgbx"}]
==============================================================================
