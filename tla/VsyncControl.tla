---------------------------- MODULE VsyncControl ----------------------------
(***************************************************************************)
(* When SurfaceFlinger listens to the hardware vsync of the panel:         *)
(*   enableHardwareVsync, resyncToHardwareVsync, disableHardwareVsync,     *)
(*   onVSyncReceived, postComposition and setPowerModeInternal of          *)
(*   SurfaceFlinger_hwc1.cpp, eventControl of HWComposer_hwc1.cpp.         *)
(*                                                                         *)
(* The main thread switches the screen and composes, the HWC's thread      *)
(* delivers vsync events, EventControlThread asks the HWC for them, and    *)
(* binder threads ask for a resync.  DispSync, which predicts the vsync    *)
(* from samples of it, is reduced to the samples it still needs.           *)
(***************************************************************************)
EXTENDS Integers, Sequences

CONSTANTS
  Needed,      \* samples that lock DispSync's model (6 on the device)
  MaxResyncs,  \* bound: resyncs that binder threads ask for
  MaxErrors    \* bound: calls of eventControl that the HWC refuses

PowerModes == {"off", "normal", "doze", "suspend"}
Dark == {"off", "suspend"}

VARIABLES
  hasSync,    \* hasSyncFramework, a setting
  powerMode,  \* the power mode of the primary DisplayDevice
  hwcMode,    \* the power mode the HWC was told
  todo,       \* what is left of setPowerModeInternal or postComposition
  available,  \* mHWVsyncAvailable
  enabled,    \* mPrimaryHWVsyncEnabled, and the flag of EventControlThread,
              \* which the same critical sections set to the same value
  applied,    \* the flag EventControlThread handed to the HWC last
  events,     \* DisplayData::events: the HWC delivers vsync events
  needs,      \* samples DispSync still needs, 0 when its model is locked
  callback,   \* where the HWC's thread is in onVSyncReceived
  repaint,    \* mRepaintEverything
  resyncs, errors

mainVars == <<powerMode, hwcMode, todo, repaint>>
syncVars == <<available, enabled, needs>>
hwcVars  == <<applied, events, errors>>
vars == <<hasSync, mainVars, syncVars, hwcVars, callback, resyncs>>

-----------------------------------------------------------------------------
(* The critical sections of mHWVsyncLock.                                   *)

(* beginResync, setVsyncEnabled(true) and the flag itself.                  *)
Begin == enabled' = TRUE /\ needs' = Needed

(* Broken variant: the switch is not asked whether the screen is on.        *)
AlwaysCan == ~enabled
CanEnable == ~enabled /\ available

EnableHardwareVsync ==
  /\ \/ CanEnable /\ Begin
     \/ ~CanEnable /\ UNCHANGED <<enabled, needs>>
  /\ UNCHANGED available

ResyncToHardwareVsync(makeAvailable) ==
  \/ /\ makeAvailable \/ available
     /\ available' = TRUE /\ Begin
  \/ /\ ~makeAvailable /\ ~available
     /\ UNCHANGED syncVars

DisableHardwareVsync(makeUnavailable) ==
  /\ enabled' = FALSE
  /\ available' = (available /\ ~makeUnavailable)
  /\ UNCHANGED needs

-----------------------------------------------------------------------------
(* The main thread: a message is handled step by step, and the other        *)
(* threads run between the steps.                                           *)

(* setPowerModeInternal for the primary display.  "hwc" tells the HWC,      *)
(* "resync" makes the vsync available, "release" makes it unavailable.      *)
PowerSteps(from, to) ==
  IF to = "off" THEN <<"release", "hwc">>
  ELSE IF from = "off" /\ to = "suspend" THEN <<"hwc", "repaint">>
  ELSE IF from = "off" THEN <<"hwc", "resync", "repaint">>
  ELSE IF to = "suspend" THEN <<"release", "hwc">>
  ELSE <<"hwc", "resync">>

(* onInitializeDisplays is the first message that switches the screen.      *)
Init ==
  /\ hasSync \in BOOLEAN
  /\ powerMode = "normal" /\ hwcMode = "off"
  /\ todo = PowerSteps("off", "normal")
  /\ available = FALSE /\ enabled = FALSE /\ needs = Needed
  /\ applied = FALSE /\ events = FALSE /\ errors = 0
  /\ callback = "idle" /\ repaint = FALSE /\ resyncs = 0

Idle == todo = <<>>

SetPowerMode ==
  /\ Idle
  /\ \E m \in PowerModes \ {powerMode} :
       powerMode' = m /\ todo' = PowerSteps(powerMode, m)
  /\ UNCHANGED <<hasSync, hwcMode, repaint, syncVars, hwcVars>>
  /\ UNCHANGED <<callback, resyncs>>

(* handleMessageRefresh up to postComposition: for a repaint or a client's  *)
(* buffer.  The HWC may return no retire fence; without a sync framework    *)
(* there is none.                                                           *)
Compose ==
  /\ Idle /\ repaint' = FALSE
  /\ \/ hasSync /\ todo' \in {<<"fence">>, <<>>}
     \/ ~hasSync /\ todo' = <<"unfenced">>
  /\ UNCHANGED <<hasSync, powerMode, hwcMode, syncVars, hwcVars>>
  /\ UNCHANGED <<callback, resyncs>>

(* Broken variant: the two branches after addPresentFence are swapped.      *)
Inverted == IF needs > 0 THEN "disable" ELSE "enable"
(* addPresentFence says whether the model needs samples.                    *)
AfterFence == IF needs > 0 THEN "enable" ELSE "disable"

Does(step) == ~Idle /\ Head(todo) = step /\ todo' = Tail(todo)

TellHwc ==
  /\ Does("hwc") /\ hwcMode' = powerMode
  /\ UNCHANGED <<powerMode, repaint, syncVars>>

RepaintEverything ==
  /\ Does("repaint") /\ repaint' = TRUE
  /\ UNCHANGED <<powerMode, hwcMode, syncVars>>

AddPresentFence ==
  /\ ~Idle /\ Head(todo) = "fence" /\ todo' = <<AfterFence>>
  /\ UNCHANGED <<powerMode, hwcMode, repaint, syncVars>>

Switch ==
  /\ \/ Does("resync") /\ ResyncToHardwareVsync(TRUE)
     \/ Does("release") /\ DisableHardwareVsync(TRUE)
     \/ Does("enable") /\ EnableHardwareVsync
     \/ Does("disable") /\ DisableHardwareVsync(FALSE)
     \/ Does("unfenced") /\ powerMode # "off" /\ EnableHardwareVsync
     \/ Does("unfenced") /\ powerMode = "off" /\ UNCHANGED syncVars
  /\ UNCHANGED <<powerMode, hwcMode, repaint>>

MainThread ==
  /\ TellHwc \/ RepaintEverything \/ AddPresentFence \/ Switch
  /\ UNCHANGED <<hasSync, hwcVars, callback, resyncs>>

-----------------------------------------------------------------------------
(* The other threads.                                                       *)

(* resyncWithRateLimit, when nothing was composed for half a second.        *)
ResyncWithRateLimit ==
  /\ resyncs < MaxResyncs /\ resyncs' = resyncs + 1
  /\ ResyncToHardwareVsync(FALSE)
  /\ UNCHANGED <<hasSync, mainVars, hwcVars, callback>>

(* EventControlThread (external) calls eventControl when its flag changed;  *)
(* a refusal of the HWC leaves the events bit as it was.                    *)
EventControl ==
  /\ applied # enabled /\ applied' = enabled
  /\ \/ events' = enabled /\ UNCHANGED errors
     \/ /\ events # enabled /\ UNCHANGED events
        /\ errors < MaxErrors /\ errors' = errors + 1
  /\ UNCHANGED <<hasSync, mainVars, syncVars, callback, resyncs>>

(* The HWC (external) calls back, HWComposer::vsync passes it on.           *)
Vsync ==
  /\ events /\ hwcMode \notin Dark
  /\ callback = "idle" /\ callback' = "sample"
  /\ UNCHANGED <<hasSync, mainVars, syncVars, hwcVars, resyncs>>

LessOne == IF needs > 0 THEN needs - 1 ELSE 0

(* onVSyncReceived decides under the lock and acts after it has let go.     *)
AddResyncSample ==
  /\ callback = "sample"
  /\ \/ /\ enabled /\ needs' = LessOne
        /\ callback' = IF LessOne > 0 THEN "enable" ELSE "disable"
     \/ ~enabled /\ callback' = "disable" /\ UNCHANGED needs
  /\ UNCHANGED <<available, enabled>>

AfterSample ==
  /\ \/ callback = "enable" /\ EnableHardwareVsync
     \/ callback = "disable" /\ DisableHardwareVsync(FALSE)
  /\ callback' = "idle"

HwcThread ==
  /\ AddResyncSample \/ AfterSample
  /\ UNCHANGED <<hasSync, mainVars, hwcVars, resyncs>>

(* DispSync (external) sees by the fences that its model went wrong.        *)
Drift ==
  /\ hasSync /\ needs = 0 /\ needs' = Needed
  /\ UNCHANGED <<hasSync, mainVars, available, enabled, hwcVars>>
  /\ UNCHANGED <<callback, resyncs>>

Next ==
  \/ SetPowerMode \/ Compose \/ MainThread \/ ResyncWithRateLimit
  \/ EventControl \/ Vsync \/ HwcThread \/ Drift

Spec == Init /\ [][Next]_vars

-----------------------------------------------------------------------------
(* Properties.                                                              *)

TypeOK ==
  /\ {hasSync, available, enabled, applied, events, repaint} \subseteq BOOLEAN
  /\ {powerMode, hwcMode} \subseteq PowerModes
  /\ needs \in 0..Needed
  /\ callback \in {"idle", "sample", "enable", "disable"}
  /\ resyncs \in 0..MaxResyncs /\ errors \in 0..MaxErrors

(* The vsync of a dark panel is not asked for: whoever decided before the   *)
(* screen went off finds it unavailable, and it is available only between   *)
(* the HWC's switching on and its switching off.                            *)
SilentInTheDark == available \/ enabled => hwcMode \notin Dark

(* While the screen stays on and the HWC obeys, the vsync is on only as     *)
(* long as it is needed, and while frames are composed the model locks: a   *)
(* decision that came too late and cancelled a resync is made good, unless  *)
(* every vsync falls between a decision and its execution.                  *)
Composing == ~Idle /\ Head(todo) \in {"fence", "unfenced"}
TooLate == callback = "disable" /\ enabled /\ needs > 0

VsyncSettles ==
  <>[](powerMode = "normal" /\ errors = 0) =>
    /\ []<>~enabled
    /\ []<>Composing /\ <>[]~TooLate => []<>(needs = 0)
=============================================================================
