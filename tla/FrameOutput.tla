---------------------------- MODULE FrameOutput -----------------------------
(***************************************************************************)
(* The way of a GLES-composed frame from the GPU to the panel:             *)
(*   FramebufferSurface::nextBuffer and onFrameAvailable,                  *)
(*   a1000_overlay_post, a1000_wait_vsync and a1000_sync_gpu of            *)
(*     libsprdshim_fbpost.cpp, with handle_osd of libsprdshim_ioctl.c,     *)
(*   postFramebuffer and a1000_panFramebuffer of SurfaceFlinger_hwc1.cpp.  *)
(*                                                                         *)
(* SurfaceFlinger's main thread renders, queues, posts and pans; the GPU   *)
(* and the display controller run beside it.  Memory is a map from         *)
(* locations (buffers of the framebuffer target and the slots of           *)
(* /dev/graphics/fb0) to the number of the frame they hold.                *)
(***************************************************************************)
EXTENDS Integers, FiniteSets, Dispc

CONSTANTS
  Bufs,       \* buffers of the framebuffer target (three on the device)
  FbSlots,    \* buffers = yres_virtual / yres of fb0 (three on the device)
  MaxFrames,  \* bound: frames rendered
  SlowLimit,  \* slow waits in a row that turn the wait off (5 in the code)
  Modes       \* settings of the device, see Settings

Slots == 0..FbSlots - 1
Locations == Bufs \cup Slots

(* zeroCopy, pan, dblBuf, flipBuf and panVsync are the properties           *)
(* debug.sf.a1000_zerocopy (on buffers with a physical address), _pan,      *)
(* _dblbuf, _flip and _pan_vsync; noPin says that /data/gsp_nopin exists.   *)
Settings == [zeroCopy : BOOLEAN, noPin : BOOLEAN, pan : BOOLEAN,
             dblBuf : BOOLEAN, flipBuf : BOOLEAN, panVsync : BOOLEAN]

ASSUME FrameOutputConstants ==
  /\ FbSlots \in Nat \ {0} /\ MaxFrames \in Nat /\ SlowLimit \in Nat \ {0}
  /\ Bufs \cap Slots = {} /\ None \notin Locations
  /\ Modes \subseteq Settings

VARIABLES
  mode,     \* the settings, read once
  pc,       \* where SurfaceFlinger's main thread is
  frame,    \* the number of the frame being made or last made
  back,     \* the buffer that was dequeued to render it
  gpu,      \* the buffer the GPU writes
  current,  \* mCurrentBuffer, the framebuffer target
  free,     \* buffers that may be dequeued
  mem,      \* the last frame completely written at each location
  copyTo,   \* where a memcpy of the main thread writes
  zcOff, zcFlip, zcNoFlip, zcSync, \* g_zc_off, g_zc_flip, ...
  slow,     \* slow_in_row
  pin,      \* the address handle_osd pinned
  osd,      \* the address SET_OVERLAY left for DISPLAY_OVERLAY
  nextBuf   \* nextBuf of a1000_panFramebuffer

frameVars == <<mode, frame, back, current, free>>
memVars   == <<gpu, mem, copyTo>>
zcVars    == <<zcOff, zcFlip, zcNoFlip, zcSync, slow, pin, osd>>
vars      == <<pc, frameVars, memVars, zcVars, nextBuf, dispcVars>>

Init ==
  /\ mode \in Modes /\ DispcInit
  /\ pc = "idle" /\ frame = 0 /\ back = None
  /\ gpu = None /\ copyTo = None /\ mem = [l \in Locations |-> 0]
  /\ current = None /\ free = Bufs
  /\ zcOff = FALSE /\ zcFlip = FALSE /\ zcNoFlip = FALSE /\ zcSync = TRUE
  /\ slow = 0 /\ pin = None /\ osd = None /\ nextBuf = 0

Written == {gpu, copyTo} \ {None}

Goes(from, to) == pc = from /\ pc' = to

-----------------------------------------------------------------------------
(* Rendering and the framebuffer target.                                    *)

Render ==
  /\ Goes("idle", "drawing") /\ gpu = None
  /\ frame < MaxFrames /\ frame' = frame + 1
  /\ \E b \in free : back' = b /\ gpu' = b /\ free' = free \ {b}
  /\ UNCHANGED <<mode, current, mem, copyTo, zcVars, nextBuf, dispcVars>>

GpuFinishes ==
  /\ gpu # None
  /\ mem' = [mem EXCEPT ![gpu] = frame] /\ gpu' = None
  /\ UNCHANGED <<pc, frameVars, copyTo, zcVars, nextBuf, dispcVars>>

(* onFrameAvailable: nextBuffer acquires the queued buffer and releases the *)
(* previous one at once, fbPost makes it HWC's framebuffer target.          *)
QueueBuffer ==
  /\ Goes("drawing", "post")
  /\ current' = back /\ free' = free \cup ({current} \ {None})
  /\ UNCHANGED <<mode, frame, back, memVars, zcVars, nextBuf, dispcVars>>

-----------------------------------------------------------------------------
(* a1000_overlay_post.                                                      *)

AfterPost == IF mode.pan THEN "pan" ELSE "idle"

(* Without zero copy, or once it was switched off.                          *)
PostByCopy ==
  /\ ~mode.zeroCopy \/ zcOff
  /\ Goes("post", "copy")
  /\ UNCHANGED <<frameVars, memVars, zcVars, nextBuf, dispcVars>>

(* a1000_sync_gpu: lock and unlock of the buffer wait for the GPU.          *)
GpuDone == gpu = None

PostDirectly ==
  /\ mode.zeroCopy /\ ~zcOff /\ GpuDone
  /\ Goes("post", IF zcFlip /\ ~zcNoFlip THEN "flip" ELSE "long")
  /\ UNCHANGED <<frameVars, memVars, zcVars, nextBuf, dispcVars>>

(* SPRD_FB_PAGEFLIP: the kernel changes the address and awaits the pulse.   *)
PageFlip ==
  /\ Goes("flip", "flipwait")
  /\ "pageflip" \in ioctls /\ Answers /\ armed # None
  /\ Arm(current)
  /\ UNCHANGED <<frameVars, memVars, zcVars, nextBuf>>

FlipLatched ==
  /\ Goes("flipwait", AfterPost) /\ pulsed
  /\ UNCHANGED <<frameVars, memVars, zcVars, nextBuf, dispcVars>>

(* ENOTTY, a panel that is off or lost the layer, or no pulse: long way.    *)
FlipFails ==
  /\ \/ pc = "flip" /\ ("pageflip" \notin ioctls \/ ~Answers \/ armed = None)
     \/ pc = "flipwait" /\ power # "on" /\ ~pulsed
  /\ pc' = "long" /\ zcFlip' = FALSE
  /\ zcNoFlip' = (zcNoFlip \/ "pageflip" \notin ioctls)
  /\ UNCHANGED <<frameVars, memVars, zcOff, zcSync, slow, pin, osd>>
  /\ UNCHANGED <<nextBuf, dispcVars>>

(* handle_osd: the first address ever presented is pinned, and presented    *)
(* instead of any other, unless /data/gsp_nopin exists.                     *)
Pinned == IF pin = None /\ ~mode.noPin THEN current ELSE pin
(* Broken variant: a buffer behind, the one that was presented before.      *)
BufferBehind == IF osd = None THEN current ELSE osd
Presented == IF mode.noPin THEN current ELSE Pinned

SetOverlay ==
  /\ Goes("long", "display") /\ Answers
  /\ pin' = Pinned /\ osd' = Presented
  /\ UNCHANGED <<frameVars, memVars, zcOff, zcFlip, zcNoFlip, zcSync>>
  /\ UNCHANGED <<slow, nextBuf, dispcVars>>

(* Either ioctl answers -EPERM; handle_osd ran before it.                   *)
OverlayRefused ==
  /\ pc \in {"long", "display"} /\ ~Answers
  /\ pc' = "copy" /\ pin' = Pinned
  /\ UNCHANGED <<frameVars, memVars, zcOff, zcFlip, zcNoFlip, zcSync>>
  /\ UNCHANGED <<slow, osd, nextBuf, dispcVars>>

DisplayOverlay ==
  /\ Goes("display", "vsync") /\ Answers
  /\ Arm(osd)
  /\ UNCHANGED <<frameVars, memVars, zcVars, nextBuf>>

(* a1000_wait_vsync: no wait once it was switched off.                      *)
WaitIsOff == ~zcSync

SkipWait ==
  /\ Goes("vsync", AfterPost) /\ WaitIsOff
  /\ zcFlip' = TRUE
  /\ UNCHANGED <<frameVars, memVars, zcOff, zcNoFlip, zcSync, slow>>
  /\ UNCHANGED <<pin, osd, nextBuf, dispcVars>>

PulseSeen ==
  /\ Goes("vsync", AfterPost) /\ zcSync /\ "waitforvsync" \in ioctls /\ pulsed
  /\ slow' = 0 /\ zcFlip' = TRUE
  /\ UNCHANGED <<frameVars, memVars, zcOff, zcNoFlip, zcSync, pin, osd>>
  /\ UNCHANGED <<nextBuf, dispcVars>>

TooSlow == slow + 1 >= SlowLimit

(* The kernel's wait times out after 100 ms; five in a row switch it off.   *)
PulseMissed ==
  /\ Goes("vsync", AfterPost) /\ zcSync /\ "waitforvsync" \in ioctls
  /\ power # "on" /\ ~pulsed
  /\ slow' = slow + 1 /\ zcSync' = ~TooSlow /\ zcFlip' = TRUE
  /\ UNCHANGED <<frameVars, memVars, zcOff, zcNoFlip, pin, osd>>
  /\ UNCHANGED <<nextBuf, dispcVars>>

WaitUnsupported ==
  /\ Goes("vsync", AfterPost) /\ zcSync /\ "waitforvsync" \notin ioctls
  /\ zcSync' = FALSE /\ zcFlip' = TRUE
  /\ UNCHANGED <<frameVars, memVars, zcOff, zcNoFlip, slow, pin, osd>>
  /\ UNCHANGED <<nextBuf, dispcVars>>

-----------------------------------------------------------------------------
(* gralloc's own post (external): lock of the frame, memcpy into fb0.       *)

StartPostCopy ==
  /\ Goes("copy", "copying") /\ gpu = None
  /\ copyTo' = 0
  /\ UNCHANGED <<frameVars, gpu, mem, zcVars, nextBuf, dispcVars>>

EndPostCopy ==
  /\ Goes("copying", AfterPost)
  /\ mem' = [mem EXCEPT ![copyTo] = mem[current]] /\ copyTo' = None
  /\ UNCHANGED <<frameVars, gpu, zcVars, nextBuf, dispcVars>>

-----------------------------------------------------------------------------
(* a1000_panFramebuffer.                                                    *)

(* With FB_ACTIVATE_VBL the ioctl returns at the frame pulse.               *)
AfterPan(vbl) == IF vbl THEN "panwait" ELSE "idle"

(* flipBuf: the window moves to the next slot.                              *)
PanFlip ==
  /\ mode.flipBuf /\ FbSlots > 1
  /\ Goes("pan", AfterPan(TRUE))
  /\ nextBuf' = (nextBuf + 1) % FbSlots
  /\ Arm(nextBuf')
  /\ UNCHANGED <<frameVars, memVars, zcVars>>

(* Broken variant: slot 0, where gralloc writes, takes its turn.            *)
AnySlot(n) == (n + 1) % FbSlots
CopySlot(n) == 1 + (n % (FbSlots - 1))

Copies == ~mode.flipBuf /\ mode.dblBuf /\ FbSlots > 1

(* dblbuf: the frame in slot 0 is copied to the next of the other slots.    *)
PanCopy ==
  /\ Copies /\ Goes("pan", "panning")
  /\ nextBuf' = CopySlot(nextBuf) /\ copyTo' = nextBuf'
  /\ UNCHANGED <<frameVars, gpu, mem, zcVars, dispcVars>>

PanCopied ==
  /\ Goes("panning", AfterPan(mode.panVsync))
  /\ mem' = [mem EXCEPT ![copyTo] = mem[0]] /\ copyTo' = None
  /\ Arm(nextBuf)
  /\ UNCHANGED <<frameVars, gpu, zcVars, nextBuf>>

(* Broken variant: the window shows another slot than gralloc wrote.        *)
LastSlot == FbSlots - 1
FirstSlot == 0

(* yoffset 0: the controller is pointed at the slot gralloc wrote.          *)
PanSingle ==
  /\ ~Copies /\ ~(mode.flipBuf /\ FbSlots > 1)
  /\ Goes("pan", AfterPan(mode.panVsync))
  /\ Arm(FirstSlot)
  /\ UNCHANGED <<frameVars, memVars, zcVars, nextBuf>>

PanLatched ==
  /\ Goes("panwait", "idle") /\ (pulsed \/ power # "on")
  /\ UNCHANGED <<frameVars, memVars, zcVars, nextBuf, dispcVars>>

-----------------------------------------------------------------------------
OverlayPost ==
  \/ PostByCopy \/ PostDirectly \/ PageFlip \/ FlipLatched \/ FlipFails
  \/ SetOverlay \/ OverlayRefused \/ DisplayOverlay
  \/ SkipWait \/ PulseSeen \/ PulseMissed \/ WaitUnsupported
PanFramebuffer == PanFlip \/ PanCopy \/ PanCopied \/ PanSingle \/ PanLatched

SurfaceFlinger ==
  \/ Render \/ QueueBuffer \/ OverlayPost
  \/ StartPostCopy \/ EndPostCopy \/ PanFramebuffer

Controller ==
  /\ Pulse \/ PanelOff \/ PanelStarts \/ PanelRuns
  /\ UNCHANGED <<pc, frameVars, memVars, zcVars, nextBuf>>

Next == SurfaceFlinger \/ GpuFinishes \/ Controller

Spec == Init /\ [][Next]_vars

-----------------------------------------------------------------------------
(* Properties.                                                              *)

TypeOK ==
  /\ pc \in {"idle", "drawing", "post", "flip", "flipwait", "long", "display",
             "vsync", "copy", "copying", "pan", "panning", "panwait"}
  /\ frame \in 0..MaxFrames
  /\ {back, gpu, current} \subseteq Bufs \cup {None} /\ free \subseteq Bufs
  /\ mem \in [Locations -> 0..MaxFrames]
  /\ {copyTo, pin, osd, armed, scanned} \subseteq Locations \cup {None}
  /\ {zcOff, zcFlip, zcNoFlip, zcSync, pulsed} \subseteq BOOLEAN
  /\ slow \in 0..SlowLimit /\ (slow = SlowLimit => ~zcSync)
  /\ nextBuf \in Slots
  /\ mode \in Modes /\ power \in {"off", "starting", "on"}
  /\ ioctls \subseteq {"pageflip", "waitforvsync"}

(* The picture never tears: neither the GPU nor a memcpy writes the memory  *)
(* that goes to the panel ("the GPU draws over what is being scanned").     *)
(* Zero copy and the dblbuf mode promise it, zero copy until the fuse of    *)
(* a1000_wait_vsync blows; a frame posted and panned in slot 0 may tear.    *)
NeverTorn ==
  zcSync /\ (mode.zeroCopy \/ Copies) => scanned \notin Written

(* "The worst case is the former speed, not a black screen": when a frame   *)
(* was posted and panned, the controller is pointed at that very frame.     *)
(* The flip mode is known to show old frames when gralloc ignores yoffset.  *)
ArmedIsNewest ==
  pc = "idle" /\ armed # None /\ ~mode.flipBuf => mem[armed] = frame

(* A later picture never shows an older frame than an earlier one.          *)
FramesAdvance ==
  [][zcSync /\ ~mode.flipBuf /\ scanned # None /\ scanned' # None
       => mem'[scanned'] >= mem[scanned]]_vars
=============================================================================
