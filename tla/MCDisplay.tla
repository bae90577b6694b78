----------------------------- MODULE MCDisplay ------------------------------
(***************************************************************************)
(* Five parts of SurfaceFlinger in one instance: a behavior exercises the  *)
(* output of frames (FrameOutput), the hardware vsync (VsyncControl), the  *)
(* changes of the screen (Transactions), the frames of layers (LayerLatch) *)
(* or who composes them (HwcFrame), and leaves the others where they began.*)
(***************************************************************************)
EXTENDS MCFrameOutput

CONSTANTS
  Needed, MaxResyncs, MaxErrors,   \* of VsyncControl
  Clients, Virtual, External, Surfaces, Ids, MaxTimeouts, Casts,
                                   \* of Transactions
  c1, c2, v1, v2, e1,              \* clients and tokens
  Layers, ZOrder,                  \* of LayerLatch and HwcFrame
  Plots, NoLayer,                  \* of LayerLatch
  GpuOnly, Buffers,                \* of HwcFrame
  a, b                             \* layers

(* Two clients with their layers; one client with two virtual displays, and *)
(* with a virtual and the external one.                                     *)
ThreeCasts ==
  {[clients |-> {c1, c2}, tokens |-> {}, surfaces |-> {},
    kinds |-> {"layer"}],
   [clients |-> {c1}, tokens |-> {v1, v2}, surfaces |-> {"s1"},
    kinds |-> {"none", "display"}],
   [clients |-> {c1}, tokens |-> {v1, e1}, surfaces |-> {"s1", "s2"},
    kinds |-> {"order", "display"}]}

(* Frames and transactions of a layer b behind a: b defers on frames of a,  *)
(* a on its own, or each on the other.                                      *)
Plot(framesA, framesB, changesA, changesB, defer, ahead, odd) ==
  [frames  |-> [l \in Layers |-> IF l = a THEN framesA ELSE framesB],
   changes |-> [l \in Layers |-> IF l = a THEN changesA ELSE changesB],
   defer |-> defer, ahead |-> ahead, odd |-> odd]

BackToFront == <<a, b>>
BonA == {<<b, a>>}
EachOnOther == {<<a, b>>, <<b, a>>}

(* A wallpaper behind a window that may become transparent, or a video.     *)
BuffersOf == [l \in Layers |-> IF l = a THEN {"rgbx"} ELSE {"rgba", "rgbx", "yuv"}]

TenPlots ==
  { Plot(3, 0, 0, 2, BonA, {-1, 0, 1}, {}),
    Plot(2, 0, 1, 1, BonA, {0}, {"hides"}),
    Plot(3, 0, 0, 1, BonA, {0}, {"timed"}),
    Plot(2, 0, 0, 1, BonA, {0}, {"removes"}),
    Plot(3, 0, 1, 0, {<<a, a>>}, {0}, {"async"}),
    Plot(1, 1, 2, 1, EachOnOther, {0}, {}),
    Plot(3, 0, 0, 1, BonA, {-1, 0}, {"rejects"}),
    Plot(3, 0, 0, 1, BonA, {0}, {"fails"}),
    Plot(3, 0, 0, 0, {}, {}, {"rejects", "timed"}),
    Plot(3, 0, 0, 0, {}, {}, {"rejects", "async"}) }

VARIABLES
  part,   \* "frames", "vsync", "changes", "layers" or "pictures"
  hasSync, powerMode, hwcMode, todo, available, enabled, applied, events,
  needs, callback, repaint, resyncs, errors,
  cast, caller, request, woken, timeouts, flags, message, main, pendingSync,
  pendingAnim, changed, layerDirty, frames, layers, drawn, removed, displays,
  drawing, devices, allocated, builtin,
  plot, bq, next, calls, items, last, currentFrame, failed, latched, now, pending,
  layerDrawn, remote, points, pointsAvailable, pointsApplied, needed,
  layerFlags, layerMessage, present, shown, dead, layerMain, layerTodo, refresh,
  commit, updated, seen,
  lit, onScreen, format, colours, regionsDirty, listDirty, fullRepaint, asked,
  stack, list, fbComp, ovComp, setter, pictureMain, swapped, picture, listed,
  steady, broken

Sync == INSTANCE VsyncControl
Trans == INSTANCE Transactions
Latch == INSTANCE LayerLatch
           WITH current <- currentFrame, drawn <- layerDrawn, available <- pointsAvailable,
                applied <- pointsApplied, flags <- layerFlags,
                message <- layerMessage, main <- layerMain, todo <- layerTodo
Hwc == INSTANCE HwcFrame
         WITH present <- onScreen, repaint <- fullRepaint, main <- pictureMain,
              drawn <- swapped

(* What the changes of the screen amount to: a client is ahead of what is   *)
(* shown by changes of its layer's state, of a display, or a layer removed. *)
Show == INSTANCE Screen
          WITH Tokens <- Trans!Tokens, Absent <- Trans!Absent,
               Contents <- {Trans!Absent, Trans!Dormant, "hw"} \cup Surfaces,
               Requests <- Trans!Requests, NoRequest <- Trans!NoRequest,
               shownLayers <- drawn, shownDisplays <- drawing,
               open <- changed \cup layerDirty \cup removed,
               animating <- frames # 0, at <- caller, late <- timeouts # 0

(* The constants are as the three modules need them.                        *)
ASSUME DisplayConstants ==
  /\ Trans!TransactionsConstants /\ Latch!LatchConstants /\ Hwc!HwcConstants

syncPart == <<hasSync, powerMode, hwcMode, todo, available, enabled, applied,
              events, needs, callback, repaint, resyncs, errors>>
transPart == <<cast, caller, request, woken, timeouts, flags, message, main,
               pendingSync, pendingAnim, changed, layerDirty, frames, layers,
               drawn, removed, displays, drawing, devices, allocated, builtin>>
layerPart == <<plot, bq, next, calls, items, last, currentFrame, failed, latched, now,
               pending, layerDrawn, remote, points, pointsAvailable,
               pointsApplied, needed, layerFlags, layerMessage, present, shown,
               dead, layerMain, layerTodo, refresh, commit, updated, seen>>
picturePart == <<lit, onScreen, format, colours, regionsDirty, listDirty,
                 fullRepaint, asked, stack, list, fbComp, ovComp, setter,
                 pictureMain, swapped, picture, listed, steady, broken>>
displayVars == <<part, vars, syncPart, transPart, layerPart, picturePart>>

(* The parts that do not run begin in one fixed state.                      *)
DisplayInit ==
  /\ part \in {"frames", "vsync", "changes", "layers", "pictures"}
  /\ Init /\ Sync!Init /\ Trans!Init /\ Latch!Init /\ Hwc!Init
  /\ part # "frames" => mode = Shipped /\ ioctls = {}
  /\ part # "vsync" => hasSync = TRUE
  /\ part # "changes" => cast = CHOOSE c \in Casts : TRUE
  /\ part # "layers" => plot = CHOOSE p \in Plots : TRUE
  /\ part # "pictures" => format = [l \in Layers |-> "rgbx"]

InFrames   == /\ part = "frames"
              /\ UNCHANGED <<part, syncPart, transPart, layerPart, picturePart>>
InVsync    == /\ part = "vsync"
              /\ UNCHANGED <<part, vars, transPart, layerPart, picturePart>>
InChanges  == /\ part = "changes"
              /\ UNCHANGED <<part, vars, syncPart, layerPart, picturePart>>
InLayers   == /\ part = "layers"
              /\ UNCHANGED <<part, vars, syncPart, transPart, picturePart>>
InPictures == /\ part = "pictures"
              /\ UNCHANGED <<part, vars, syncPart, transPart, layerPart>>

DisplayNext ==
  \/ InFrames /\ Next
  \/ InVsync /\ Sync!Next
  \/ InChanges /\ Trans!Next
  \/ InLayers /\ Latch!Next
  \/ InLayers /\ Latch!Waits /\ UNCHANGED layerPart
  \/ InPictures /\ Hwc!Next

(* The threads of SurfaceFlinger and of the HWC run, and a panel whose      *)
(* vsync is on delivers it; callbacks of buffer queues that may proceed do; *)
(* clients, the GPU and the power button need not.  A behavior has the      *)
(* steps of one part only, so parts share a fairness condition.             *)
MainThread == \/ InVsync /\ Sync!MainThread
              \/ InChanges /\ Trans!MainThread
              \/ InLayers /\ Latch!MainThread
EventControl == \/ InVsync /\ Sync!EventControl
                \/ InLayers /\ Latch!Callbacks(a)
Panel == \/ InVsync /\ Sync!Vsync
         \/ InLayers /\ Latch!Callbacks(b)
HwcThread == \/ InVsync /\ Sync!HwcThread
             \/ InLayers /\ Latch!Destroy(a)

DisplaySpec ==
  /\ DisplayInit /\ [][DisplayNext]_displayVars
  /\ WF_displayVars(MainThread)
  /\ WF_displayVars(EventControl)
  /\ WF_displayVars(Panel)
  /\ WF_displayVars(HwcThread)
  /\ WF_displayVars(InLayers /\ Latch!Destroy(b))

(* The vsync of a dark panel is not asked for.                              *)
SilentInTheDark == Sync!SilentInTheDark

(* The vsync is on only as long as DispSync's model needs it.               *)
VsyncSettles == Sync!VsyncSettles

(* No commit has the changes of two animation frames.                       *)
OneAnimationPerCommit == Trans!OneAnimationPerCommit

(* A synchronous caller returns after all it changed is drawn.              *)
SyncTakesEffect == Trans!SyncTakesEffect

(* Changes are made and drawn together, and callers return as Screen says.  *)
ScreenIsKept == Show!Spec

(* Displays, devices and HWC ids correspond.                                *)
DevicesFollowDisplays == Trans!DevicesFollowDisplays

(* latchBuffer finds the frame it acquired in the shadow queue.             *)
ShadowHasWhatIsAcquired == Latch!ShadowHasWhatIsAcquired

(* A frame comes with the changes deferred on it.                           *)
FramesWaitForChanges == Latch!FramesWaitForChanges

(* A change comes with the frame it was deferred on, and in its turn.       *)
ChangesWaitForFrames == Latch!ChangesWaitForFrames

(* The panel is given every layer that shows, overlaid or drawn.            *)
PictureIsWhole == Hwc!PictureIsWhole

(* A switch of the colours is in the next frame, whole.                     *)
SwitchesTakeEffect == Hwc!SwitchesTakeEffect

(* Every change of a layer, of the Z order or of a display is committed,    *)
(* although only the first to set a flag wakes the main thread; and no      *)
(* frame, no change whose frame has come and no callback of a buffer queue  *)
(* waits for ever, although frames and changes wait for each other.         *)
Outstanding == Trans!Outstanding \/ Latch!Outstanding
NothingIsStuck == Outstanding ~> ~Outstanding
=============================================================================
