------------------------------- MODULE Dispc --------------------------------
(***************************************************************************)
(* The display controller (DISPC) as the code of the display path uses it: *)
(* external/libui_shim/libsprdshim_fbpost.cpp and a1000_panFramebuffer of  *)
(* SurfaceFlinger_hwc1.cpp.  The controller and its kernel driver are not  *)
(* in the repository.  An ioctl arms the base address of the OSD layer; at *)
(* the next frame pulse the controller latches it and scans that memory.   *)
(***************************************************************************)
CONSTANT None  \* no address of a frame

VARIABLES
  power,    \* the panel: "off", "starting" (it answers, no pulses yet), "on"
  armed,    \* the address written to DISPC_OSD_BASE_ADDR
  scanned,  \* the address latched, whose memory goes to the panel
  pulsed,   \* a frame pulse came since somebody began to wait for one
  ioctls    \* what the kernel supports of "pageflip" and "waitforvsync"

dispcVars == <<power, armed, scanned, pulsed, ioctls>>

(* The panel runs and shows the splash screen, which no code here writes.   *)
DispcInit ==
  /\ power = "on" /\ armed = None /\ scanned = None /\ pulsed = FALSE
  /\ ioctls \in SUBSET {"pageflip", "waitforvsync"}

(* "While the panel is off the kernel answers -EPERM."                      *)
Answers == power # "off"

(* Arming and beginning to wait for the pulse that latches it.              *)
Arm(address) ==
  /\ armed' = IF Answers THEN address ELSE armed
  /\ pulsed' = FALSE
  /\ UNCHANGED <<power, scanned, ioctls>>

Pulse ==
  /\ power = "on"
  /\ scanned' = armed /\ pulsed' = TRUE
  /\ UNCHANGED <<power, armed, ioctls>>

(* With the panel the layer loses its configuration.                        *)
PanelOff ==
  /\ power # "off"
  /\ power' = "off" /\ armed' = None /\ scanned' = None
  /\ UNCHANGED <<pulsed, ioctls>>

PanelStarts ==
  /\ power = "off"
  /\ power' = "starting"
  /\ UNCHANGED <<armed, scanned, pulsed, ioctls>>

PanelRuns ==
  /\ power = "starting"
  /\ power' = "on"
  /\ UNCHANGED <<armed, scanned, pulsed, ioctls>>
=============================================================================
