---------------------------- MODULE Transactions ----------------------------
(***************************************************************************)
(* How changes of the screen reach the drawing state: setTransactionState, *)
(* removeLayer, addClientLayer, createDisplay, destroyDisplay and          *)
(* onHotplugReceived on binder threads and the HWC's thread;               *)
(* handleMessageTransaction, handleTransaction and commitTransaction on    *)
(* the main thread of SurfaceFlinger_hwc1.cpp; the display ids of          *)
(* HWComposer_hwc1.cpp.                                                    *)
(*                                                                         *)
(* Whatever is done under mStateLock is one step.  A layer is named after  *)
(* the client that owns it, a display by its token.                        *)
(***************************************************************************)
EXTENDS Integers, FiniteSets

CONSTANTS
  Clients,      \* callers of ISurfaceComposer, with one layer each
  Virtual,      \* tokens of virtual displays
  External,     \* tokens that a hotplug gives the external display
  Surfaces,     \* surfaces a virtual display may be given
  Ids,          \* HWC ids for virtual displays, none without enable_hwc_vds
  MaxTimeouts,  \* bound: waits that last five seconds
  Casts,        \* bound: who acts in a behavior, and on what, see cast
  None

Tokens == Virtual \cup External

VARIABLES
  cast,       \* its clients, displays and surfaces, the kinds of its changes
  caller,     \* where each client is in setTransactionState
  request,    \* the transaction it gave
  woken,      \* callers that the broadcast of mTransactionCV woke
  timeouts,
  flags,      \* mTransactionFlags
  message,    \* an INVALIDATE is on its way
  main,       \* what the main thread does
  pendingSync, pendingAnim, \* mTransactionPending, mAnimTransactionPending
  changed,    \* clients with changes that only mCurrentState has
  layerDirty, \* clients whose layer has changes to do in doTransaction
  frames,     \* animation transactions since the last commit
  layers, drawn, removed, \* layers of the current state, of the drawing
                          \* state, and mLayersPendingRemoval
  displays, drawing, \* the displays of mCurrentState and mDrawingState
  devices,    \* mDisplays: the surface and HWC id of each DisplayDevice
  allocated,  \* mAllocatedDisplayIDs beyond the reserved ones
  builtin     \* mBuiltinDisplays[DISPLAY_EXTERNAL]

callVars    == <<cast, caller, request, woken, timeouts>>
pendingVars == <<pendingSync, pendingAnim, frames>>
layerVars   == <<changed, layerDirty, layers, drawn, removed>>
displayVars == <<displays, drawing, devices, allocated, builtin>>
vars == <<callVars, flags, message, pendingVars, main, layerVars,
          displayVars>>

(* What the client asks to change: nothing, its layer's state, its place in *)
(* the Z order too, or the surface of a virtual display.                    *)
Plain(kind) == [kind |-> kind, token |-> None, surface |-> None]
Changes == {Plain("none"), Plain("layer"), Plain("order")}
             \cup [kind : {"display"}, token : Virtual, surface : Surfaces]
Requests == [anim : BOOLEAN, sync : BOOLEAN, change : Changes]
NoRequest == [anim |-> FALSE, sync |-> FALSE, change |-> Plain("none")]

(* A display is absent, dormant (virtual without a surface), shown on the   *)
(* surface it was given, or on the panel "hw" of the hotplugged display.    *)
Absent == "absent"
Dormant == "dormant"
NoDevice == [surface |-> None, id |-> None]

(* Who acts in a behavior is among the clients; a surface has a name of its *)
(* own, and is told apart from none, as an id is.                           *)
TransactionsConstants ==
  /\ \A c \in Casts : c.clients \subseteq Clients
  /\ {Absent, Dormant, "hw", None} \cap Surfaces = {}
  /\ None \notin Ids \cup {Absent, Dormant, "hw"}

Init ==
  /\ cast \in Casts
  /\ caller = [c \in Clients |-> "idle"]
  /\ request = [c \in Clients |-> NoRequest]
  /\ woken = {} /\ timeouts = 0
  /\ flags = {} /\ message = FALSE /\ main = "idle"
  /\ pendingSync = FALSE /\ pendingAnim = FALSE /\ frames = 0
  /\ changed = {} /\ layerDirty = {}
  /\ layers = Clients /\ drawn = Clients /\ removed = {}
  /\ displays = [t \in Tokens |-> Absent] /\ drawing = displays
  /\ devices = [t \in Tokens |-> NoDevice] /\ allocated = {}
  /\ builtin = None

(* setTransactionFlags wakes the main thread if none of them was set.       *)
SetTransactionFlags(new) ==
  /\ flags' = flags \cup new
  /\ message' = (message \/ flags \cap new = {})

-----------------------------------------------------------------------------
(* setTransactionState.                                                     *)

(* What setClientStateLocked and setDisplayStateLocked return.              *)
FlagsOf(change) ==
  CASE change.kind = "none" -> {}
    [] change.kind = "layer" -> {"traversal"}
    [] change.kind = "order" -> {"transaction", "traversal"}
    [] change.kind = "display" ->
         IF displays[change.token] \in {Absent, change.surface} THEN {}
         ELSE {"display"}

(* "A synchronous transaction without any changes ... a flush mechanism".   *)
Effect(r) ==
  IF FlagsOf(r.change) = {} /\ r.sync THEN {"transaction"}
  ELSE FlagsOf(r.change)

(* Broken variant: only the caller that wakes the main thread waits.        *)
FirstWaits(r) == r.sync /\ flags = {}
Waits(r) == r.sync

Returns(c) ==
  /\ caller' = [caller EXCEPT ![c] = "idle"]
  /\ request' = [request EXCEPT ![c] = NoRequest]
Blocks(c, where, r) ==
  /\ caller' = [caller EXCEPT ![c] = where]
  /\ request' = [request EXCEPT ![c] = r]

(* What is left to do once no earlier animation frame is in the way; anim   *)
(* says whether one still is.                                               *)
Apply(c, r, anim) ==
  LET new == Effect(r) IN
  \/ /\ new = {}
     /\ pendingAnim' = anim
     /\ Returns(c)
     /\ UNCHANGED <<flags, message, pendingSync, frames, layerVars>>
     /\ UNCHANGED displayVars
  \/ /\ new # {}
     /\ SetTransactionFlags(new)
     /\ pendingSync' = (pendingSync \/ Waits(r))
     /\ pendingAnim' = (anim \/ r.anim)
     /\ frames' = IF r.anim THEN frames + 1 ELSE frames
     /\ changed' = changed \cup {c}
     /\ layerDirty' = IF r.change.kind \in {"layer", "order"}
                      THEN layerDirty \cup {c} ELSE layerDirty
     /\ displays' = IF new = {"display"}
                    THEN [displays EXCEPT ![r.change.token] = r.change.surface]
                    ELSE displays
     /\ IF pendingSync' THEN Blocks(c, "waits", r) ELSE Returns(c)
     /\ UNCHANGED <<layers, drawn, removed, drawing, devices, allocated>>
     /\ UNCHANGED builtin

(* "For window updates that are part of an animation we must wait for       *)
(* previous animation frames to be handled."                                *)
SetTransactionState(c) ==
  /\ caller[c] = "idle"
  /\ \E r \in Requests :
       /\ r.change.kind \in {"layer", "order"} => c \in layers
       /\ r.change.kind \in cast.kinds
       /\ r.change.token \in cast.tokens \cup {None}
       /\ r.change.surface \in cast.surfaces \cup {None}
       /\ \/ /\ r.anim /\ pendingAnim
             /\ Blocks(c, "anim", r)
             /\ UNCHANGED <<flags, message, pendingVars, layerVars>>
             /\ UNCHANGED displayVars
          \/ (r.anim => ~pendingAnim) /\ Apply(c, r, pendingAnim)
  /\ UNCHANGED <<cast, woken, timeouts, main>>

(* Broken variant: a woken caller does not look again.                      *)
NeverAgain == FALSE
AnimWaitsOn == pendingAnim

(* A caller woken by the commit takes the lock and looks again.             *)
AnimWakes(c) ==
  /\ caller[c] = "anim" /\ c \in woken /\ woken' = woken \ {c}
  /\ \/ /\ AnimWaitsOn
        /\ UNCHANGED <<caller, request, flags, message, pendingVars>>
        /\ UNCHANGED <<layerVars, displayVars>>
     \/ ~AnimWaitsOn /\ Apply(c, request[c], pendingAnim)
  /\ UNCHANGED <<cast, timeouts, main>>

SyncWakes(c) ==
  /\ caller[c] = "waits" /\ c \in woken /\ woken' = woken \ {c}
  /\ IF pendingSync THEN UNCHANGED <<caller, request>> ELSE Returns(c)
  /\ UNCHANGED <<cast, timeouts, flags, message, pendingVars, main>>
  /\ UNCHANGED <<layerVars, displayVars>>

(* "Just in case something goes wrong in SF": the caller clears the flag    *)
(* the others wait for as well.                                             *)
TimesOut(c) ==
  /\ c \notin woken /\ timeouts < MaxTimeouts /\ timeouts' = timeouts + 1
  /\ \/ /\ caller[c] = "waits" /\ pendingSync' = FALSE
        /\ Returns(c)
        /\ UNCHANGED <<flags, message, pendingAnim, frames, layerVars>>
        /\ UNCHANGED displayVars
     \/ caller[c] = "anim" /\ Apply(c, request[c], FALSE)
  /\ UNCHANGED <<cast, woken, main>>

-----------------------------------------------------------------------------
(* Layers and displays outside a transaction.                               *)

(* addClientLayer wakes nobody: the layer is drawn after the next commit.   *)
AddClientLayer(c) ==
  /\ "layer" \in cast.kinds
  /\ caller[c] = "idle" /\ c \notin layers \cup drawn \cup removed
  /\ layers' = layers \cup {c}
  /\ UNCHANGED <<callVars, flags, message, pendingVars, main>>
  /\ UNCHANGED <<changed, layerDirty, drawn, removed, displayVars>>

(* removeLayer; the LayerCleaner's second call finds nothing to remove.     *)
RemoveLayer(c) ==
  /\ "layer" \in cast.kinds
  /\ caller[c] = "idle" /\ c \in layers
  /\ layers' = layers \ {c} /\ removed' = removed \cup {c}
  /\ layerDirty' = layerDirty \ {c}
  /\ SetTransactionFlags({"transaction"})
  /\ UNCHANGED <<callVars, pendingVars, main, changed, drawn, displayVars>>

Fresh(t) == Absent = displays[t] /\ Absent = drawing[t] /\ devices[t] = NoDevice

CreateDisplay ==
  /\ \E t \in Virtual \cap cast.tokens :
       Fresh(t) /\ displays' = [displays EXCEPT ![t] = Dormant]
  /\ UNCHANGED <<callVars, flags, message, pendingVars, main, layerVars>>
  /\ UNCHANGED <<drawing, devices, allocated, builtin>>

Withdraw(t) ==
  /\ displays' = [displays EXCEPT ![t] = Absent]
  /\ SetTransactionFlags({"display"})

(* destroyDisplay, and the end of a display's token.                        *)
DestroyDisplay ==
  /\ \E t \in Virtual \cap cast.tokens : displays[t] # Absent /\ Withdraw(t)
  /\ UNCHANGED <<callVars, pendingVars, main, layerVars, drawing, devices>>
  /\ UNCHANGED <<allocated, builtin>>

(* onHotplugReceived, for an HWC that reports changes only.                 *)
HotplugReceived ==
  /\ \/ /\ builtin = None
        /\ \E t \in External \cap cast.tokens :
             /\ Fresh(t) /\ builtin' = t
             /\ displays' = [displays EXCEPT ![t] = "hw"]
        /\ SetTransactionFlags({"display"})
     \/ /\ builtin # None /\ Withdraw(builtin)
        /\ builtin' = None
  /\ UNCHANGED <<callVars, pendingVars, main, layerVars, drawing, devices>>
  /\ UNCHANGED allocated

-----------------------------------------------------------------------------
(* The main thread.                                                         *)

(* Broken variant: the main thread peeks for changes of layers only.        *)
PeekTraversal == "traversal" \in flags
PeekTransactionFlags == flags # {}

(* INVALIDATE: peekTransactionFlags says whether there is a transaction.    *)
Invalidate ==
  /\ main = "idle" /\ message /\ message' = FALSE
  /\ main' = IF PeekTransactionFlags THEN "transaction" ELSE "idle"
  /\ UNCHANGED <<callVars, flags, pendingVars, layerVars, displayVars>>

(* repaintEverything, and a client's buffer: nothing but the message.       *)
SignalTransaction ==
  /\ ~message /\ message' = TRUE
  /\ UNCHANGED <<callVars, flags, pendingVars, main, layerVars>>
  /\ UNCHANGED displayVars

(* getTransactionFlags(eTransactionMask), "with mStateLock held".           *)
Taken == flags

Shown(t) == displays[t] \notin {Absent, Dormant}

(* The displays whose device goes: removed, or on another surface.          *)
Leaving == {t \in Tokens : drawing[t] # Absent /\ drawing[t] # displays[t]}
Coming  == {t \in Tokens : Shown(t) /\ drawing[t] # displays[t]}

(* Broken variant: a device whose surface changed goes without disconnect.  *)
OnlyRemoved == {devices[t].id : t \in {u \in Leaving : displays[u] = Absent}}
Freed == {devices[t].id : t \in Leaving}

(* allocateHwcDisplayId for the new virtual devices, in the order of their  *)
(* tokens, which is the order of addresses: any.                            *)
Allocations ==
  LET spare == Ids \ (allocated \ Freed)
      asking == Coming \cap Virtual
  IN {f \in [asking -> spare \cup {None}] :
        /\ \A t, u \in asking : f[t] = f[u] /\ f[t] # None => t = u
        /\ (\E t \in asking : f[t] = None) => spare \subseteq {f[t] : t \in asking}}

(* handleTransactionLocked for displays.                                    *)
UpdateDevices ==
  \E f \in Allocations :
    /\ devices' = [t \in Tokens |->
         IF t \in Coming
         THEN [surface |-> displays[t],
               id |-> IF t \in Virtual THEN f[t] ELSE None]
         ELSE IF t \in Leaving THEN NoDevice ELSE devices[t]]
    /\ allocated' = (allocated \ Freed) \cup ({f[t] : t \in DOMAIN f} \ {None})

(* handleTransaction and commitTransaction.                                 *)
HandleTransaction ==
  /\ main = "transaction" /\ main' = "idle"
  /\ flags' = flags \ Taken
  /\ layerDirty' = IF "traversal" \in Taken THEN {} ELSE layerDirty
  /\ \/ "display" \in Taken /\ UpdateDevices
     \/ "display" \notin Taken /\ UNCHANGED <<devices, allocated>>
  /\ changed' = {} /\ drawn' = layers /\ removed' = {} /\ drawing' = displays
  /\ pendingSync' = FALSE /\ pendingAnim' = FALSE /\ frames' = 0
  /\ woken' = {c \in Clients : caller[c] # "idle"}
  /\ UNCHANGED <<cast, caller, request, timeouts, message, layers, displays, builtin>>

MainThread == Invalidate \/ HandleTransaction

Next ==
  \/ \E c \in cast.clients :
       \/ SetTransactionState(c) \/ AnimWakes(c) \/ SyncWakes(c) \/ TimesOut(c)
       \/ AddClientLayer(c) \/ RemoveLayer(c)
  \/ CreateDisplay \/ DestroyDisplay \/ HotplugReceived
  \/ SignalTransaction \/ MainThread

Spec == Init /\ [][Next]_vars

(* The main thread runs; nobody need call, and no wait need time out.       *)
FairSpec == Spec /\ WF_vars(MainThread)

-----------------------------------------------------------------------------
(* Properties.                                                              *)

TypeOK ==
  /\ cast \in Casts
  /\ caller \in [Clients -> {"idle", "anim", "waits"}]
  /\ request \in [Clients -> Requests]
  /\ woken \subseteq Clients /\ timeouts \in 0..MaxTimeouts
  /\ flags \subseteq {"transaction", "traversal", "display"}
  /\ {message, pendingSync, pendingAnim} \subseteq BOOLEAN
  /\ main \in {"idle", "transaction"} /\ frames \in Nat
  /\ changed \cup layerDirty \cup layers \cup drawn \cup removed \subseteq Clients
  /\ {displays, drawing} \subseteq
       [Tokens -> {Absent, Dormant, "hw"} \cup Surfaces]
  /\ devices \in [Tokens -> [surface : Surfaces \cup {"hw", None},
                             id : Ids \cup {None}]]
  /\ allocated \subseteq Ids /\ builtin \in External \cup {None}

(* "We must wait for previous animation frames to be handled": no commit    *)
(* has the changes of two animation frames, whoever sent them, unless a     *)
(* wait for the main thread timed out.                                      *)
OneAnimationPerCommit == timeouts = 0 => frames <= 1

(* "Wait for it to take effect before returning": when a synchronous caller *)
(* returns, what it changed and what it had changed before is drawn, the    *)
(* layers it made and removed included, unless a wait timed out.            *)
Settled(c) ==
  /\ c \notin changed \cup layerDirty \cup removed
  /\ c \in layers <=> c \in drawn

SyncTakesEffect ==
  [][\A c \in Clients :
       caller[c] # "idle" /\ caller'[c] = "idle" /\ request[c].sync
         /\ timeouts' = 0 => Settled(c)']_vars

(* Changes of a layer, of the Z order or of a display still to be committed *)
(* (never for ever: MCDisplay).  A layer or a virtual display that was only *)
(* created waits for the next change.                                       *)
Outstanding ==
  \/ changed \cup layerDirty \cup removed # {}
  \/ \E t \in Tokens : displays[t] # drawing[t] /\ displays[t] # Dormant

(* Each display of the drawing state has the device for its surface, others *)
(* have none, and the HWC's ids are those of the devices, each of one.      *)
DevicesFollowDisplays ==
  /\ \A t \in Tokens :
       devices[t].surface = IF drawing[t] \in {Absent, Dormant} THEN None
                            ELSE drawing[t]
  /\ allocated = {devices[t].id : t \in Tokens} \ {None}
  /\ \A t, u \in Tokens : devices[t].id = devices[u].id /\ t # u
                           => devices[t].id = None
=============================================================================
