--------------------------- MODULE DisplayProofs ----------------------------
(***************************************************************************)
(* Proofs about three parts of SurfaceFlinger: the hardware vsync, for any *)
(* number of samples, resyncs and refusals of the HWC; the changes of the  *)
(* screen, for any clients, displays and surfaces; and the frame of the    *)
(* panel, for any layers and formats.  The layers are in LayerProofs.      *)
(***************************************************************************)
EXTENDS MCDisplay, SequenceTheorems, FiniteSetTheorems, TLAPS

(***************************************************************************)
(* The hardware vsync.                                                     *)
(***************************************************************************)
Lit == Sync!PowerModes \ Sync!Dark

(* What the main thread has yet to do: nothing that tells the HWC or makes  *)
(* the vsync available; to light the screen; to make the vsync of a lit     *)
(* screen available; to darken it, after the release or before.             *)
Composition == {<<>>, <<"repaint">>, <<"fence">>, <<"unfenced">>,
                <<"enable">>, <<"disable">>}
Lighting    == {<<"hwc", "resync", "repaint">>, <<"hwc", "resync">>}
Resyncing   == {<<"resync", "repaint">>, <<"resync">>}
Darkening   == {<<"hwc", "repaint">>, <<"hwc">>}
Releasing   == {<<"release", "hwc">>}

(* Each group is told by the first step, and what is left after it.         *)
LEMMA CompositionSteps ==
  ASSUME NEW s \in Composition, s # <<>>
  PROVE  /\ Tail(s) = <<>>
         /\ Head(s) \in {"repaint", "fence", "unfenced", "enable", "disable"}
<1>1. CASE s = <<"repaint">>
  <2>1. Tail(s) = <<>> /\ Head(s) = "repaint"
    BY <1>1
  <2>2. QED
    BY <2>1
<1>2. CASE s = <<"fence">>
  <2>1. Tail(s) = <<>> /\ Head(s) = "fence"
    BY <1>2
  <2>2. QED
    BY <2>1
<1>3. CASE s = <<"unfenced">>
  <2>1. Tail(s) = <<>> /\ Head(s) = "unfenced"
    BY <1>3
  <2>2. QED
    BY <2>1
<1>4. CASE s = <<"enable">>
  <2>1. Tail(s) = <<>> /\ Head(s) = "enable"
    BY <1>4
  <2>2. QED
    BY <2>1
<1>5. CASE s = <<"disable">>
  <2>1. Tail(s) = <<>> /\ Head(s) = "disable"
    BY <1>5
  <2>2. QED
    BY <2>1
<1>6. QED
  BY <1>1, <1>2, <1>3, <1>4, <1>5 DEF Composition

LEMMA LightingSteps ==
  ASSUME NEW s \in Lighting
  PROVE  s # <<>> /\ Head(s) = "hwc" /\ Tail(s) \in Resyncing
<1>1. CASE s = <<"hwc", "resync", "repaint">>
  BY <1>1 DEF Resyncing
<1>2. CASE s = <<"hwc", "resync">>
  BY <1>2 DEF Resyncing
<1>3. QED
  BY <1>1, <1>2 DEF Lighting

LEMMA ResyncingSteps ==
  ASSUME NEW s \in Resyncing
  PROVE  s # <<>> /\ Head(s) = "resync" /\ Tail(s) \in Composition
<1>1. CASE s = <<"resync", "repaint">>
  BY <1>1 DEF Composition
<1>2. CASE s = <<"resync">>
  BY <1>2 DEF Composition
<1>3. QED
  BY <1>1, <1>2 DEF Resyncing

LEMMA DarkeningSteps ==
  ASSUME NEW s \in Darkening
  PROVE  s # <<>> /\ Head(s) = "hwc" /\ Tail(s) \in Composition
<1>1. CASE s = <<"hwc", "repaint">>
  BY <1>1 DEF Composition
<1>2. CASE s = <<"hwc">>
  BY <1>2 DEF Composition
<1>3. QED
  BY <1>1, <1>2 DEF Darkening

LEMMA ReleasingSteps ==
  ASSUME NEW s \in Releasing
  PROVE  s # <<>> /\ Head(s) = "release" /\ Tail(s) \in Darkening
<1>1. s = <<"release", "hwc">>
  BY DEF Releasing
<1>2. QED
  BY <1>1 DEF Darkening

-----------------------------------------------------------------------------
(* The vsync is on only if it is available; it is available only if the HWC *)
(* was told of a lit screen; and where the main thread is, says what it has *)
(* told the HWC: a step that tells it of a dark screen comes after the      *)
(* release, a step that makes the vsync available after the HWC was told of *)
(* a lit one.                                                               *)
AtRest    == todo \in Composition /\ hwcMode = powerMode
Lights    == todo \in Lighting /\ powerMode \in Lit
Resyncs   == todo \in Resyncing /\ powerMode \in Lit /\ hwcMode = powerMode
Darkens   == todo \in Darkening /\ powerMode \in Sync!Dark /\ ~available
Releases  == todo \in Releasing /\ powerMode \in Sync!Dark

DarkInv ==
  /\ powerMode \in Sync!PowerModes /\ hwcMode \in Sync!PowerModes
  /\ enabled => available
  /\ available => hwcMode \in Lit
  /\ AtRest \/ Lights \/ Resyncs \/ Darkens \/ Releases

(* What each critical section of mHWVsyncLock may do.                       *)
LEMMA Enables ==
  ASSUME DarkInv, Sync!EnableHardwareVsync
  PROVE  (available => available') /\ (available' => available)
         /\ (enabled' => available')
<1>1. CASE Sync!CanEnable
  BY <1>1 DEF Sync!EnableHardwareVsync, Sync!CanEnable
<1>2. CASE ~Sync!CanEnable
  BY <1>2 DEF Sync!EnableHardwareVsync, DarkInv
<1>3. QED
  BY <1>1, <1>2

LEMMA Disables ==
  ASSUME DarkInv, Sync!DisableHardwareVsync(FALSE)
  PROVE  (available' <=> available) /\ ~enabled'
BY DEF Sync!DisableHardwareVsync

LEMMA MakesUnavailable ==
  ASSUME Sync!DisableHardwareVsync(TRUE)
  PROVE  ~available' /\ ~enabled'
BY DEF Sync!DisableHardwareVsync

LEMMA Retries ==
  ASSUME DarkInv, Sync!ResyncToHardwareVsync(FALSE)
  PROVE  (available' <=> available) /\ (enabled' => available')
<1>1. CASE available
  BY <1>1 DEF Sync!ResyncToHardwareVsync, Sync!syncVars
<1>2. CASE ~available
  BY <1>2 DEF Sync!ResyncToHardwareVsync, Sync!syncVars, DarkInv
<1>3. QED
  BY <1>1, <1>2

LEMMA MakesAvailable ==
  ASSUME Sync!ResyncToHardwareVsync(TRUE)
  PROVE  available'
BY DEF Sync!ResyncToHardwareVsync

-----------------------------------------------------------------------------
(* A step that leaves the screen and the main thread's work alone, and does *)
(* not make the vsync available, keeps the invariant.                       *)
LEMMA OthersKeep ==
  ASSUME DarkInv, UNCHANGED <<powerMode, hwcMode, todo>>,
         available' => available, enabled' => available'
  PROVE  DarkInv'
BY DEF DarkInv, AtRest, Lights, Resyncs, Darkens, Releases

LEMMA PlaceByHead ==
  ASSUME DarkInv
  PROVE  /\ todo = <<>> => AtRest
         /\ todo # <<>> /\ Head(todo) = "hwc" => Lights \/ Darkens
         /\ todo # <<>> /\ Head(todo) = "resync" => Resyncs
         /\ todo # <<>> /\ Head(todo) = "release" => Releases
         /\ todo # <<>> /\ Head(todo) \notin {"hwc", "resync", "release"} =>
              AtRest
<1>1. CASE AtRest
  BY <1>1, CompositionSteps DEF AtRest
<1>2. CASE Lights
  BY <1>2, LightingSteps DEF Lights
<1>3. CASE Resyncs
  BY <1>3, ResyncingSteps DEF Resyncs
<1>4. CASE Darkens
  BY <1>4, DarkeningSteps DEF Darkens
<1>5. CASE Releases
  BY <1>5, ReleasingSteps DEF Releases
<1>6. QED
  BY <1>1, <1>2, <1>3, <1>4, <1>5 DEF DarkInv

LEMMA SetPowerModeKeeps ==
  ASSUME DarkInv, Sync!SetPowerMode
  PROVE  DarkInv'
<1>1. /\ AtRest
      /\ available' = available
      /\ enabled' = enabled
      /\ hwcMode' = hwcMode
  BY PlaceByHead DEF Sync!SetPowerMode, Sync!Idle, Sync!syncVars
<1>2. /\ powerMode' \in Sync!PowerModes \ {powerMode}
      /\ todo' = Sync!PowerSteps(powerMode, powerMode')
  BY DEF Sync!SetPowerMode
<1>3. CASE powerMode' = "off"
  <2>1. todo' \in Releasing
    BY <1>2, <1>3 DEF Sync!PowerSteps, Releasing
  <2>2. QED
    BY <1>1, <1>2, <1>3, <2>1
      DEF DarkInv, Releases, Sync!Dark, Sync!PowerModes
<1>4. CASE powerMode = "off" /\ powerMode' = "suspend"
  <2>1. todo' \in Darkening
    BY <1>2, <1>4 DEF Sync!PowerSteps, Darkening
  <2>2. ~available
    BY <1>1, <1>4 DEF DarkInv, AtRest, Lit, Sync!Dark
  <2>3. QED
    BY <1>1, <1>2, <1>4, <2>1, <2>2 DEF DarkInv, Darkens, Sync!Dark
<1>5. CASE powerMode # "off" /\ powerMode' = "suspend"
  <2>1. todo' \in Releasing
    BY <1>2, <1>5 DEF Sync!PowerSteps, Releasing
  <2>2. QED
    BY <1>1, <1>2, <1>5, <2>1 DEF DarkInv, Releases, Sync!Dark
<1>6. CASE powerMode' \notin {"off", "suspend"}
  <2>1. todo' \in Lighting
    BY <1>2, <1>6 DEF Sync!PowerSteps, Lighting
  <2>2. QED
    BY <1>1, <1>2, <1>6, <2>1 DEF DarkInv, Lights, Lit, Sync!Dark
<1>7. QED
  BY <1>3, <1>4, <1>5, <1>6

LEMMA TellHwcKeeps ==
  ASSUME DarkInv, Sync!TellHwc
  PROVE  DarkInv'
<1>1. /\ todo # <<>> /\ Head(todo) = "hwc" /\ todo' = Tail(todo)
      /\ hwcMode' = powerMode /\ powerMode' = powerMode
      /\ available' = available /\ enabled' = enabled
  BY DEF Sync!TellHwc, Sync!Does, Sync!Idle, Sync!syncVars
<1>2. CASE Lights
  <2>1. todo' \in Resyncing
    BY <1>1, <1>2, LightingSteps DEF Lights
  <2>2. QED
    BY <1>1, <1>2, <2>1 DEF DarkInv, Lights, Resyncs
<1>3. CASE Darkens
  <2>1. todo' \in Composition
    BY <1>1, <1>3, DarkeningSteps DEF Darkens
  <2>2. QED
    BY <1>1, <1>3, <2>1 DEF DarkInv, Darkens, AtRest
<1>4. QED
  BY <1>1, <1>2, <1>3, PlaceByHead

LEMMA SwitchKeeps ==
  ASSUME DarkInv, Sync!Switch
  PROVE  DarkInv'
<1>1. powerMode' = powerMode /\ hwcMode' = hwcMode
  BY DEF Sync!Switch
<1>2. CASE Sync!Does("resync") /\ Sync!ResyncToHardwareVsync(TRUE)
  <2>1. Resyncs
    BY <1>2, PlaceByHead DEF Sync!Does, Sync!Idle
  <2>2. todo' \in Composition
    BY <1>2, <2>1, ResyncingSteps DEF Sync!Does, Resyncs
  <2>3. available'
    BY <1>2, MakesAvailable
  <2>4. QED
    BY <1>1, <2>1, <2>2, <2>3 DEF DarkInv, Resyncs, AtRest
<1>3. CASE Sync!Does("release") /\ Sync!DisableHardwareVsync(TRUE)
  <2>1. Releases
    BY <1>3, PlaceByHead DEF Sync!Does, Sync!Idle
  <2>2. todo' \in Darkening
    BY <1>3, <2>1, ReleasingSteps DEF Sync!Does, Releases
  <2>3. ~available' /\ ~enabled'
    BY <1>3, MakesUnavailable
  <2>4. QED
    BY <1>1, <2>1, <2>2, <2>3 DEF DarkInv, Releases, Darkens
<1>4. ASSUME NEW step \in {"enable", "disable", "unfenced"}, Sync!Does(step),
             available' => available, enabled' => available'
      PROVE  DarkInv'
  <2>1. AtRest
    BY <1>4, PlaceByHead DEF Sync!Does, Sync!Idle
  <2>2. todo' = <<>>
    BY <1>4, <2>1, CompositionSteps DEF Sync!Does, Sync!Idle, AtRest
  <2>3. todo' \in Composition
    BY <2>2 DEF Composition
  <2>4. QED
    BY <1>1, <1>4, <2>1, <2>3 DEF DarkInv, AtRest
<1>5. CASE /\ Sync!Does("enable") \/ Sync!Does("unfenced")
           /\ Sync!EnableHardwareVsync
  <2>1. (available' => available) /\ (enabled' => available')
    BY <1>5, Enables
  <2>2. CASE Sync!Does("enable")
    BY <1>4, <2>1, <2>2
  <2>3. CASE Sync!Does("unfenced")
    BY <1>4, <2>1, <2>3
  <2>4. QED
    BY <1>5, <2>2, <2>3
<1>6. CASE Sync!Does("disable") /\ Sync!DisableHardwareVsync(FALSE)
  BY <1>4, <1>6, Disables
<1>7. CASE Sync!Does("unfenced") /\ UNCHANGED Sync!syncVars
  BY <1>4, <1>7 DEF Sync!syncVars, DarkInv
<1>8. QED
  BY <1>2, <1>3, <1>5, <1>6, <1>7 DEF Sync!Switch

LEMMA DarkStep ==
  ASSUME DarkInv, [Sync!Next]_Sync!vars
  PROVE  DarkInv'
<1>1. CASE Sync!SetPowerMode
  BY <1>1, SetPowerModeKeeps
<1>2. CASE Sync!Compose
  <2>1. AtRest
    BY <1>2, PlaceByHead DEF Sync!Compose, Sync!Idle
  <2>2. todo' \in Composition
    BY <1>2 DEF Sync!Compose, Composition
  <2>3. UNCHANGED <<powerMode, hwcMode, available, enabled>>
    BY <1>2 DEF Sync!Compose, Sync!syncVars
  <2>4. QED
    BY <2>1, <2>2, <2>3 DEF DarkInv, AtRest
<1>3. CASE Sync!TellHwc
  BY <1>3, TellHwcKeeps
<1>4. CASE Sync!RepaintEverything \/ Sync!AddPresentFence
  <2>1. todo # <<>> /\ Head(todo) \in {"repaint", "fence"}
    BY <1>4
      DEF Sync!RepaintEverything, Sync!AddPresentFence, Sync!Does, Sync!Idle
  <2>2. AtRest
    BY <2>1, PlaceByHead
  <2>3. todo' \in Composition
    BY <1>4, <2>1, <2>2, CompositionSteps
      DEF Sync!RepaintEverything, Sync!AddPresentFence, Sync!Does,
          Composition, Sync!AfterFence, AtRest
  <2>4. UNCHANGED <<powerMode, hwcMode, available, enabled>>
    BY <1>4 DEF Sync!RepaintEverything, Sync!AddPresentFence, Sync!syncVars
  <2>5. QED
    BY <2>2, <2>3, <2>4 DEF DarkInv, AtRest
<1>5. CASE Sync!Switch
  BY <1>5, SwitchKeeps
<1>6. CASE Sync!ResyncWithRateLimit
  BY <1>6, Retries, OthersKeep DEF Sync!ResyncWithRateLimit, Sync!mainVars
<1>7. CASE Sync!EventControl \/ Sync!Vsync \/ UNCHANGED Sync!vars
  BY <1>7, OthersKeep
    DEF Sync!EventControl, Sync!Vsync, Sync!vars, Sync!mainVars,
        Sync!syncVars, DarkInv
<1>8. CASE Sync!HwcThread
  <2>1. (available' => available) /\ (enabled' => available')
    <3>1. CASE UNCHANGED <<available, enabled>>
      BY <3>1 DEF DarkInv
    <3>2. CASE Sync!EnableHardwareVsync
      BY <3>2, Enables
    <3>3. CASE Sync!DisableHardwareVsync(FALSE)
      BY <3>3, Disables
    <3>4. QED
      BY <1>8, <3>1, <3>2, <3>3
        DEF Sync!HwcThread, Sync!AddResyncSample, Sync!AfterSample
  <2>2. QED
    BY <1>8, <2>1, OthersKeep DEF Sync!HwcThread, Sync!mainVars
<1>9. CASE Sync!Drift
  BY <1>9, OthersKeep DEF Sync!Drift, Sync!mainVars, DarkInv
<1>10. QED
  BY <1>1, <1>2, <1>3, <1>4, <1>5, <1>6, <1>7, <1>8, <1>9
    DEF Sync!Next, Sync!MainThread

-----------------------------------------------------------------------------
(***************************************************************************)
(* The changes of the screen.                                              *)
(***************************************************************************)
Places == {Trans!Absent, Trans!Dormant, "hw"} \cup Surfaces

CallTypes ==
  /\ cast \in Casts
  /\ caller \in [Clients -> {"idle", "anim", "waits"}]
  /\ request \in [Clients -> Trans!Requests]
  /\ timeouts \in Nat /\ frames \in Nat
  /\ pendingAnim \in BOOLEAN /\ pendingSync \in BOOLEAN

DeviceTypes ==
  /\ displays \in [Trans!Tokens -> Places]
  /\ drawing \in [Trans!Tokens -> Places]
  /\ devices \in [Trans!Tokens -> [surface : Surfaces \cup {"hw", None},
                             id : Ids \cup {None}]]
  /\ allocated \subseteq Ids

(* A second animation frame would find the first still pending.             *)
FramesPend ==
  timeouts = 0 => frames = 0 \/ (frames = 1 /\ pendingAnim)

(* A layer's changes to do are announced.                                   *)
DirtyIsTold == layerDirty # {} => "traversal" \in flags

(* A caller that still waits although no commit is awaited has what it      *)
(* waited for.                                                              *)
WaiterIsServed ==
  timeouts = 0 =>
    \A c \in Clients : caller[c] = "waits" => pendingSync \/ Trans!Settled(c)

(* A display that is not drawn as it is, is announced, but for one that was *)
(* only created.                                                            *)
ChangeIsTold ==
  \A t \in Trans!Tokens :
    displays[t] # drawing[t] =>
      \/ "display" \in flags
      \/ displays[t] = Trans!Dormant /\ drawing[t] = Trans!Absent

(* Each drawn display has its device, and a device without surface no id.   *)
DeviceShows ==
  \A t \in Trans!Tokens :
    /\ devices[t].surface =
         IF drawing[t] \in {Trans!Absent, Trans!Dormant} THEN None
         ELSE drawing[t]
    /\ devices[t].surface = None => devices[t].id = None

IdsAreUsed == allocated = {devices[t].id : t \in Trans!Tokens} \ {None}

IdsDiffer ==
  \A t, u \in Trans!Tokens :
    devices[t].id = devices[u].id /\ t # u => devices[t].id = None

TransInv ==
  /\ CallTypes /\ FramesPend /\ DirtyIsTold /\ WaiterIsServed /\ DeviceTypes
  /\ ChangeIsTold /\ DeviceShows /\ IdsAreUsed /\ IdsDiffer

(* What a transaction asks for, and the flags it sets.                      *)
LEMMA Effects ==
  ASSUME NEW r \in Trans!Requests
  PROVE  /\ r.anim \in BOOLEAN /\ r.sync \in BOOLEAN
         /\ r.change.kind \in {"layer", "order"} =>
              "traversal" \in Trans!Effect(r)
         /\ Trans!Effect(r) = {"display"} =>
              r.change.token \in Virtual /\ r.change.surface \in Surfaces
         /\ r.sync => Trans!Effect(r) # {}
<1>1. /\ r.anim \in BOOLEAN /\ r.sync \in BOOLEAN
      /\ r.change \in Trans!Changes
  BY DEF Trans!Requests
<1>2. CASE r.change = Trans!Plain("none")
  <2>1. r.change.kind = "none"
    BY <1>2 DEF Trans!Plain
  <2> QED
    BY <1>1, <2>1 DEF Trans!Effect, Trans!FlagsOf
<1>3. CASE r.change = Trans!Plain("layer")
  <2>1. r.change.kind = "layer"
    BY <1>3 DEF Trans!Plain
  <2> QED
    BY <1>1, <2>1 DEF Trans!Effect, Trans!FlagsOf
<1>4. CASE r.change = Trans!Plain("order")
  <2>1. r.change.kind = "order"
    BY <1>4 DEF Trans!Plain
  <2> QED
    BY <1>1, <2>1 DEF Trans!Effect, Trans!FlagsOf
<1>5. CASE r.change \in [kind : {"display"}, token : Virtual,
                         surface : Surfaces]
  <2>1. /\ r.change.kind = "display"
        /\ r.change.token \in Virtual /\ r.change.surface \in Surfaces
    BY <1>5
  <2> QED
    BY <1>1, <2>1 DEF Trans!Effect, Trans!FlagsOf
<1> QED
  BY <1>1, <1>2, <1>3, <1>4, <1>5 DEF Trans!Changes

(* What Apply leaves of the call and of the state it changes.               *)
LEMMA Applied ==
  ASSUME TransInv, NEW c \in Clients, NEW r \in Trans!Requests,
         NEW anim \in BOOLEAN,
         Trans!Apply(c, r, anim)
  PROVE  /\ \E where \in {"idle", "waits"} :
              caller' = [caller EXCEPT ![c] = where]
         /\ \E asks \in Trans!Requests :
              request' = [request EXCEPT ![c] = asks]
         /\ caller'[c] = "waits" => pendingSync'
         /\ caller'[c] = "idle" => ~r.sync
         /\ pendingSync' \in BOOLEAN /\ (pendingSync => pendingSync')
         /\ pendingAnim' \in BOOLEAN
         /\ \/ frames' = frames /\ (pendingAnim' <=> anim)
            \/ frames' = frames + 1 /\ r.anim /\ pendingAnim'
         /\ flags \subseteq flags'
         /\ layerDirty' # layerDirty => "traversal" \in flags'
         /\ layerDirty' \subseteq layerDirty \cup {c}
         /\ changed' \subseteq changed \cup {c}
         /\ \/ displays' = displays
            \/ /\ "display" \in flags'
               /\ \E t \in Virtual, s \in Surfaces :
                    displays' = [displays EXCEPT ![t] = s]
         /\ UNCHANGED <<layers, drawn, removed, drawing, devices, allocated>>
<1>1. /\ r.anim \in BOOLEAN /\ r.sync \in BOOLEAN
      /\ r.change.kind \in {"layer", "order"} =>
           "traversal" \in Trans!Effect(r)
      /\ Trans!Effect(r) = {"display"} =>
           r.change.token \in Virtual /\ r.change.surface \in Surfaces
      /\ r.sync => Trans!Effect(r) # {}
  BY Effects
<1>2. /\ Trans!NoRequest \in Trans!Requests
      /\ caller \in [Clients -> {"idle", "anim", "waits"}]
      /\ request \in [Clients -> Trans!Requests]
      /\ frames \in Nat
      /\ pendingAnim \in BOOLEAN /\ pendingSync \in BOOLEAN
  BY DEF TransInv, CallTypes, Trans!Requests, Trans!NoRequest, Trans!Changes
<1>3. CASE /\ Trans!Effect(r) = {}
           /\ pendingAnim' = anim
           /\ Trans!Returns(c)
           /\ UNCHANGED <<flags, message, pendingSync, frames>>
           /\ UNCHANGED <<Trans!layerVars, Trans!displayVars>>
  <2>1. UNCHANGED <<changed, layerDirty, layers, drawn, removed>>
    BY <1>3 DEF Trans!layerVars
  <2>2. UNCHANGED <<displays, drawing, devices, allocated>>
    BY <1>3 DEF Trans!displayVars
  <2>3. /\ caller' = [caller EXCEPT ![c] = "idle"]
        /\ request' = [request EXCEPT ![c] = Trans!NoRequest]
    BY <1>3 DEF Trans!Returns
  <2> QED
    BY <1>1, <1>2, <1>3, <2>1, <2>2, <2>3
<1>4. CASE /\ Trans!Effect(r) # {}
           /\ Trans!SetTransactionFlags(Trans!Effect(r))
           /\ pendingSync' = (pendingSync \/ r.sync)
           /\ pendingAnim' = (anim \/ r.anim)
           /\ frames' = IF r.anim THEN frames + 1 ELSE frames
           /\ changed' = changed \cup {c}
           /\ layerDirty' = IF r.change.kind \in {"layer", "order"}
                            THEN layerDirty \cup {c} ELSE layerDirty
           /\ displays' = IF Trans!Effect(r) = {"display"}
                THEN [displays EXCEPT ![r.change.token] = r.change.surface]
                ELSE displays
           /\ IF pendingSync' THEN Trans!Blocks(c, "waits", r)
              ELSE Trans!Returns(c)
           /\ UNCHANGED <<layers, drawn, removed, drawing, devices, allocated>>
  <2>1. /\ pendingSync' \in BOOLEAN /\ (pendingSync => pendingSync')
        /\ r.sync => pendingSync'
    BY <1>1, <1>2, <1>4, Zenon
  <2>2. /\ pendingAnim' \in BOOLEAN
        /\ \/ frames' = frames /\ (pendingAnim' <=> anim)
           \/ frames' = frames + 1 /\ r.anim /\ pendingAnim'
    BY <1>1, <1>2, <1>4, Zenon
  <2>3. flags' = flags \cup Trans!Effect(r)
    BY <1>4 DEF Trans!SetTransactionFlags
  <2>4. \/ displays' = displays
        \/ /\ "display" \in flags'
           /\ \E t \in Virtual, s \in Surfaces :
                displays' = [displays EXCEPT ![t] = s]
    <3>1. CASE Trans!Effect(r) = {"display"}
      BY <1>1, <1>4, <2>3, <3>1
    <3>2. CASE Trans!Effect(r) # {"display"}
      BY <1>4, <3>2
    <3> QED
      BY <3>1, <3>2
  <2>5. /\ \/ /\ pendingSync' /\ caller' = [caller EXCEPT ![c] = "waits"]
              /\ request' = [request EXCEPT ![c] = r]
           \/ /\ ~pendingSync' /\ caller' = [caller EXCEPT ![c] = "idle"]
              /\ request' = [request EXCEPT ![c] = Trans!NoRequest]
    BY <1>4 DEF Trans!Blocks, Trans!Returns
  <2>6. /\ layerDirty' # layerDirty => "traversal" \in flags'
        /\ layerDirty' \subseteq layerDirty \cup {c}
    BY <1>1, <1>4, <2>3
  <2> QED
    BY <1>2, <1>4, <2>1, <2>2, <2>3, <2>4, <2>5, <2>6
<1> QED
  BY <1>3, <1>4, Zenon DEF Trans!Apply, Trans!Waits

LEMMA TransApplyKeeps ==
  ASSUME TransInv, NEW c \in Clients, NEW r \in Trans!Requests,
         NEW anim \in BOOLEAN,
         Trans!Apply(c, r, anim), caller[c] # "waits", timeouts' \in Nat,
         timeouts' = 0 =>
           timeouts = 0 /\ (anim <=> pendingAnim) /\ (r.anim => ~anim),
         cast' = cast
  PROVE  TransInv'
<1>1. /\ \E where \in {"idle", "waits"} :
           caller' = [caller EXCEPT ![c] = where]
      /\ \E asks \in Trans!Requests : request' = [request EXCEPT ![c] = asks]
      /\ caller'[c] = "waits" => pendingSync'
      /\ pendingSync' \in BOOLEAN /\ (pendingSync => pendingSync')
      /\ pendingAnim' \in BOOLEAN
      /\ \/ frames' = frames /\ (pendingAnim' <=> anim)
         \/ frames' = frames + 1 /\ r.anim /\ pendingAnim'
      /\ flags \subseteq flags'
      /\ layerDirty' # layerDirty => "traversal" \in flags'
      /\ layerDirty' \subseteq layerDirty \cup {c}
      /\ changed' \subseteq changed \cup {c}
      /\ UNCHANGED <<layers, drawn, removed, drawing, devices, allocated>>
  BY Applied
<1>2. \/ displays' = displays
      \/ /\ "display" \in flags'
         /\ \E t \in Virtual, s \in Surfaces :
              displays' = [displays EXCEPT ![t] = s]
  BY Applied
<1>3. CallTypes'
  BY <1>1 DEF TransInv, CallTypes
<1>4. FramesPend' /\ DirtyIsTold'
  BY <1>1, SMT DEF TransInv, CallTypes, FramesPend, DirtyIsTold
<1>5. WaiterIsServed'
  <2> SUFFICES ASSUME timeouts' = 0, NEW d \in Clients, caller'[d] = "waits",
                      ~pendingSync'
               PROVE  Trans!Settled(d)'
    BY DEF WaiterIsServed
  <2>1. d # c /\ caller[d] = "waits" /\ ~pendingSync /\ timeouts = 0
    BY <1>1 DEF TransInv, CallTypes
  <2>2. Trans!Settled(d)
    BY <2>1 DEF TransInv, WaiterIsServed
  <2> QED
    BY <1>1, <2>1, <2>2 DEF Trans!Settled
<1>6. DeviceTypes'
  BY <1>1, <1>2 DEF TransInv, DeviceTypes, Places, Trans!Tokens
<1>7. ChangeIsTold' /\ DeviceShows'
  BY <1>1, <1>2 DEF TransInv, ChangeIsTold, DeviceShows
<1>8. IdsAreUsed' /\ IdsDiffer'
  BY <1>1 DEF TransInv, IdsAreUsed, IdsDiffer
<1> QED
  BY <1>3, <1>4, <1>5, <1>6, <1>7, <1>8 DEF TransInv

(* A caller that goes to wait, or on waiting, changes nothing else.         *)
LEMMA TransBlocksKeeps ==
  ASSUME TransInv, NEW c \in Clients, NEW where \in {"idle", "anim"},
         NEW r \in Trans!Requests,
         caller' = [caller EXCEPT ![c] = where],
         request' = [request EXCEPT ![c] = r],
         UNCHANGED <<cast, timeouts, flags, Trans!pendingVars>>,
         UNCHANGED <<Trans!layerVars, Trans!displayVars>>
  PROVE  TransInv'
<1>1. /\ UNCHANGED <<pendingSync, pendingAnim, frames>>
      /\ UNCHANGED <<changed, layerDirty, layers, drawn, removed>>
      /\ UNCHANGED <<displays, drawing, devices, allocated>>
  BY DEF Trans!pendingVars, Trans!layerVars, Trans!displayVars
<1>2. CallTypes' /\ FramesPend' /\ DirtyIsTold'
  BY <1>1 DEF TransInv, CallTypes, FramesPend, DirtyIsTold
<1>3. WaiterIsServed'
  BY <1>1 DEF TransInv, CallTypes, WaiterIsServed, Trans!Settled
<1>4. DeviceTypes' /\ ChangeIsTold' /\ DeviceShows'
  BY <1>1 DEF TransInv, DeviceTypes, ChangeIsTold, DeviceShows
<1>5. IdsAreUsed' /\ IdsDiffer'
  BY <1>1 DEF TransInv, IdsAreUsed, IdsDiffer
<1> QED
  BY <1>2, <1>3, <1>4, <1>5 DEF TransInv


LEMMA TransSetTransactionStateKeeps ==
  ASSUME TransInv, NEW c \in Clients, Trans!SetTransactionState(c)
  PROVE  TransInv'
<1>1. PICK r \in Trans!Requests :
        \/ /\ r.anim /\ pendingAnim
           /\ Trans!Blocks(c, "anim", r)
           /\ UNCHANGED <<flags, message, Trans!pendingVars, Trans!layerVars>>
           /\ UNCHANGED Trans!displayVars
        \/ (r.anim => ~pendingAnim) /\ Trans!Apply(c, r, pendingAnim)
  BY DEF Trans!SetTransactionState
<1>2. /\ caller[c] = "idle" /\ UNCHANGED <<cast, timeouts>>
      /\ timeouts \in Nat /\ pendingAnim \in BOOLEAN
  BY DEF Trans!SetTransactionState, TransInv, CallTypes
<1>3. CASE (r.anim => ~pendingAnim) /\ Trans!Apply(c, r, pendingAnim)
  BY <1>2, <1>3, TransApplyKeeps
<1>4. CASE /\ Trans!Blocks(c, "anim", r)
           /\ UNCHANGED <<flags, message, Trans!pendingVars, Trans!layerVars>>
           /\ UNCHANGED Trans!displayVars
  BY <1>2, <1>4, TransBlocksKeeps DEF Trans!Blocks
<1> QED
  BY <1>1, <1>3, <1>4


LEMMA TransAnimWakesKeeps ==
  ASSUME TransInv, NEW c \in Clients, Trans!AnimWakes(c)
  PROVE  TransInv'
<1>1. /\ caller[c] = "anim" /\ UNCHANGED <<cast, timeouts>>
      /\ timeouts \in Nat /\ pendingAnim \in BOOLEAN
      /\ request[c] \in Trans!Requests
  BY DEF Trans!AnimWakes, TransInv, CallTypes
<1>2. CASE ~pendingAnim /\ Trans!Apply(c, request[c], pendingAnim)
  BY <1>1, <1>2, TransApplyKeeps
<1>3. CASE /\ UNCHANGED <<caller, request, flags, message, Trans!pendingVars>>
           /\ UNCHANGED <<Trans!layerVars, Trans!displayVars>>
  <2>1. /\ caller' = [caller EXCEPT ![c] = "anim"]
        /\ request' = [request EXCEPT ![c] = request[c]]
    BY <1>1, <1>3 DEF TransInv, CallTypes
  <2> QED
    BY <1>1, <1>3, <2>1, TransBlocksKeeps
<1> QED
  BY <1>2, <1>3 DEF Trans!AnimWakes, Trans!AnimWaitsOn


LEMMA TransSyncWakesKeeps ==
  ASSUME TransInv, NEW c \in Clients, Trans!SyncWakes(c)
  PROVE  TransInv'
<1>1. /\ UNCHANGED <<cast, timeouts, flags, pendingSync, pendingAnim, frames>>
      /\ UNCHANGED <<changed, layerDirty, layers, drawn, removed>>
      /\ UNCHANGED <<displays, drawing, devices, allocated>>
      /\ Trans!NoRequest \in Trans!Requests
  BY DEF Trans!SyncWakes, Trans!pendingVars, Trans!layerVars,
       Trans!displayVars, Trans!Requests, Trans!NoRequest, Trans!Changes
<1>2. \/ UNCHANGED <<caller, request>>
      \/ /\ caller' = [caller EXCEPT ![c] = "idle"]
         /\ request' = [request EXCEPT ![c] = Trans!NoRequest]
  BY DEF Trans!SyncWakes, Trans!Returns
<1>3. CallTypes' /\ FramesPend' /\ DirtyIsTold'
  BY <1>1, <1>2 DEF TransInv, CallTypes, FramesPend, DirtyIsTold
<1>4. WaiterIsServed'
  BY <1>1, <1>2 DEF TransInv, CallTypes, WaiterIsServed, Trans!Settled
<1>5. DeviceTypes' /\ ChangeIsTold' /\ DeviceShows'
  BY <1>1 DEF TransInv, DeviceTypes, ChangeIsTold, DeviceShows
<1>6. IdsAreUsed' /\ IdsDiffer'
  BY <1>1 DEF TransInv, IdsAreUsed, IdsDiffer
<1> QED
  BY <1>3, <1>4, <1>5, <1>6 DEF TransInv


LEMMA TransTimesOutKeeps ==
  ASSUME TransInv, NEW c \in Clients, Trans!TimesOut(c)
  PROVE  TransInv'
<1>1. /\ cast' = cast /\ timeouts' = timeouts + 1
      /\ timeouts' \in Nat /\ timeouts' # 0
      /\ request[c] \in Trans!Requests
  BY DEF Trans!TimesOut, TransInv, CallTypes
<1>2. CASE caller[c] = "anim" /\ Trans!Apply(c, request[c], FALSE)
  BY <1>1, <1>2, TransApplyKeeps
<1>3. CASE /\ pendingSync' = FALSE
           /\ Trans!Returns(c)
           /\ UNCHANGED <<flags, message, pendingAnim, frames>>
           /\ UNCHANGED <<Trans!layerVars, Trans!displayVars>>
  <2>1. /\ UNCHANGED <<changed, layerDirty, layers, drawn, removed>>
        /\ UNCHANGED <<displays, drawing, devices, allocated>>
    BY <1>3 DEF Trans!layerVars, Trans!displayVars
  <2>2. Trans!NoRequest \in Trans!Requests
    BY DEF Trans!Requests, Trans!NoRequest, Trans!Changes
  <2>3. CallTypes' /\ FramesPend' /\ DirtyIsTold'
    BY <1>1, <1>3, <2>1, <2>2
      DEF TransInv, CallTypes, FramesPend, DirtyIsTold, Trans!Returns
  <2>4. WaiterIsServed'
    BY <1>1 DEF WaiterIsServed
  <2>5. DeviceTypes' /\ ChangeIsTold' /\ DeviceShows'
    BY <1>3, <2>1 DEF TransInv, DeviceTypes, ChangeIsTold, DeviceShows
  <2>6. IdsAreUsed' /\ IdsDiffer'
    BY <2>1 DEF TransInv, IdsAreUsed, IdsDiffer
  <2> QED
    BY <2>3, <2>4, <2>5, <2>6 DEF TransInv
<1> QED
  BY <1>2, <1>3 DEF Trans!TimesOut


LEMMA TransAddClientLayerKeeps ==
  ASSUME TransInv, Trans!TransactionsConstants, NEW c \in Clients,
         Trans!AddClientLayer(c)
  PROVE  TransInv'
<1>1. /\ CallTypes'
      /\ FramesPend'
      /\ DirtyIsTold'
      /\ WaiterIsServed'
      /\ DeviceTypes'
      /\ ChangeIsTold' /\ DeviceShows' /\ IdsAreUsed' /\ IdsDiffer'
  BY SMT
    DEF TransInv, Trans!AddClientLayer, CallTypes, FramesPend, DirtyIsTold,
        WaiterIsServed, DeviceTypes, ChangeIsTold, DeviceShows, IdsAreUsed,
        IdsDiffer, Trans!callVars, Trans!pendingVars, Trans!displayVars,
        Trans!Settled, Trans!Tokens, Places, Trans!Dormant, Trans!Absent
<1> QED
  BY <1>1 DEF TransInv

LEMMA TransRemoveLayerKeeps ==
  ASSUME TransInv, Trans!TransactionsConstants, NEW c \in Clients,
         Trans!RemoveLayer(c)
  PROVE  TransInv'
<1>1. /\ CallTypes'
      /\ FramesPend'
      /\ DirtyIsTold'
      /\ WaiterIsServed'
      /\ DeviceTypes'
      /\ ChangeIsTold' /\ DeviceShows' /\ IdsAreUsed' /\ IdsDiffer'
  BY SMT
    DEF TransInv, Trans!RemoveLayer, CallTypes, FramesPend, DirtyIsTold,
        WaiterIsServed, DeviceTypes, ChangeIsTold, DeviceShows, IdsAreUsed,
        IdsDiffer, Trans!SetTransactionFlags, Trans!callVars,
        Trans!pendingVars, Trans!displayVars, Trans!Settled, Trans!Tokens,
        Places, Trans!Dormant, Trans!Absent
<1> QED
  BY <1>1 DEF TransInv

LEMMA TransCreateDisplayKeeps ==
  ASSUME TransInv, Trans!TransactionsConstants, Trans!CreateDisplay
  PROVE  TransInv'
<1>1. /\ CallTypes'
      /\ FramesPend'
      /\ DirtyIsTold'
      /\ WaiterIsServed'
      /\ DeviceTypes'
      /\ ChangeIsTold' /\ DeviceShows' /\ IdsAreUsed' /\ IdsDiffer'
  BY SMT
    DEF TransInv, Trans!CreateDisplay, CallTypes, FramesPend, DirtyIsTold,
        WaiterIsServed, DeviceTypes, ChangeIsTold, DeviceShows, IdsAreUsed,
        IdsDiffer, Trans!Fresh, Trans!Dormant, Trans!callVars,
        Trans!pendingVars, Trans!layerVars, Trans!Settled, Trans!Tokens,
        Places, Trans!Absent, Trans!NoDevice
<1> QED
  BY <1>1 DEF TransInv

LEMMA TransDestroyDisplayKeeps ==
  ASSUME TransInv, Trans!TransactionsConstants, Trans!DestroyDisplay
  PROVE  TransInv'
<1>1. /\ CallTypes'
      /\ FramesPend'
      /\ DirtyIsTold'
      /\ WaiterIsServed'
      /\ DeviceTypes'
      /\ ChangeIsTold' /\ DeviceShows' /\ IdsAreUsed' /\ IdsDiffer'
  BY SMT
    DEF TransInv, Trans!DestroyDisplay, CallTypes, FramesPend, DirtyIsTold,
        WaiterIsServed, DeviceTypes, ChangeIsTold, DeviceShows, IdsAreUsed,
        IdsDiffer, Trans!Absent, Trans!Withdraw, Trans!callVars,
        Trans!pendingVars, Trans!layerVars, Trans!Settled, Trans!Tokens,
        Places, Trans!Dormant, Trans!SetTransactionFlags
<1> QED
  BY <1>1 DEF TransInv

LEMMA TransHotplugReceivedKeeps ==
  ASSUME TransInv, Trans!TransactionsConstants, Trans!HotplugReceived
  PROVE  TransInv'
<1>1. /\ CallTypes'
      /\ FramesPend'
      /\ DirtyIsTold'
      /\ WaiterIsServed'
      /\ DeviceTypes'
      /\ ChangeIsTold' /\ DeviceShows' /\ IdsAreUsed' /\ IdsDiffer'
  BY SMT
    DEF TransInv, Trans!HotplugReceived, CallTypes, FramesPend, DirtyIsTold,
        WaiterIsServed, DeviceTypes, ChangeIsTold, DeviceShows, IdsAreUsed,
        IdsDiffer, Trans!Fresh, Trans!SetTransactionFlags, Trans!Withdraw,
        Trans!callVars, Trans!pendingVars, Trans!layerVars, Trans!Settled,
        Trans!Tokens, Places, Trans!Dormant, Trans!Absent, Trans!NoDevice
<1> QED
  BY <1>1 DEF TransInv

LEMMA TransSignalTransactionKeeps ==
  ASSUME TransInv, Trans!TransactionsConstants, Trans!SignalTransaction
  PROVE  TransInv'
<1>1. /\ CallTypes'
      /\ FramesPend'
      /\ DirtyIsTold'
      /\ WaiterIsServed'
      /\ DeviceTypes'
      /\ ChangeIsTold' /\ DeviceShows' /\ IdsAreUsed' /\ IdsDiffer'
  BY SMT
    DEF TransInv, Trans!SignalTransaction, CallTypes, FramesPend, DirtyIsTold,
        WaiterIsServed, DeviceTypes, ChangeIsTold, DeviceShows, IdsAreUsed,
        IdsDiffer, Trans!callVars, Trans!pendingVars, Trans!layerVars,
        Trans!displayVars, Trans!Settled, Trans!Tokens, Places, Trans!Dormant,
        Trans!Absent
<1> QED
  BY <1>1 DEF TransInv

LEMMA TransInvalidateKeeps ==
  ASSUME TransInv, Trans!TransactionsConstants, Trans!Invalidate
  PROVE  TransInv'
<1>1. /\ CallTypes'
      /\ FramesPend'
      /\ DirtyIsTold'
      /\ WaiterIsServed'
      /\ DeviceTypes'
      /\ ChangeIsTold' /\ DeviceShows' /\ IdsAreUsed' /\ IdsDiffer'
  BY SMT
    DEF TransInv, Trans!Invalidate, CallTypes, FramesPend, DirtyIsTold,
        WaiterIsServed, DeviceTypes, ChangeIsTold, DeviceShows, IdsAreUsed,
        IdsDiffer, Trans!PeekTransactionFlags, Trans!callVars,
        Trans!pendingVars, Trans!layerVars, Trans!displayVars, Trans!Settled,
        Trans!Tokens, Places, Trans!Dormant, Trans!Absent
<1> QED
  BY <1>1 DEF TransInv

(* What the new devices have.                                               *)
Stays(t) == t \notin Trans!Coming \cup Trans!Leaving

LEMMA DevicesAfter ==
  ASSUME Trans!TransactionsConstants, TransInv,
         NEW f \in [Trans!Coming \cap Virtual -> Ids \cup {None}],
         devices' = [t \in Trans!Tokens |->
           IF t \in Trans!Coming
           THEN [surface |-> displays[t],
                 id |-> IF t \in Virtual THEN f[t] ELSE None]
           ELSE IF t \in Trans!Leaving THEN Trans!NoDevice ELSE devices[t]],
         NEW t \in Trans!Tokens
  PROVE  /\ t \in Trans!Coming =>
              /\ devices'[t].surface = displays[t]
              /\ displays[t] \in Surfaces \cup {"hw"}
              /\ devices'[t].id = IF t \in Virtual THEN f[t] ELSE None
              /\ t \in Virtual => devices'[t].id \in Ids \cup {None}
         /\ t \notin Trans!Coming /\ t \in Trans!Leaving =>
              /\ devices'[t].surface = None /\ devices'[t].id = None
              /\ displays[t] \in {Trans!Absent, Trans!Dormant}
         /\ Stays(t) =>
              /\ devices'[t] = devices[t]
              /\ \/ displays[t] = drawing[t]
                 \/ displays[t] = Trans!Dormant /\ drawing[t] = Trans!Absent
         /\ t \in Trans!Coming /\ t \notin Trans!Leaving =>
              devices[t].id = None
         /\ devices'[t] \in [surface : Surfaces \cup {"hw", None},
                             id : Ids \cup {None}]
<1>1. /\ displays[t] \in Places /\ drawing[t] \in Places
      /\ devices[t] \in [surface : Surfaces \cup {"hw", None},
                         id : Ids \cup {None}]
  BY DEF TransInv, DeviceTypes
<1>2. CASE t \in Trans!Coming
  <2>1. devices'[t] = [surface |-> displays[t],
                       id |-> IF t \in Virtual THEN f[t] ELSE None]
    BY <1>2
  <2>2. displays[t] \in Surfaces \cup {"hw"}
    BY <1>1, <1>2 DEF Trans!Coming, Trans!Shown, Places
  <2>3. t \in Virtual => f[t] \in Ids \cup {None}
    BY <1>2
  <2>4. t \notin Trans!Leaving => devices[t].id = None
    BY <1>2 DEF TransInv, DeviceShows, Trans!Leaving, Trans!Coming
  <2> QED
    BY <1>2, <2>1, <2>2, <2>3, <2>4 DEF Stays
<1>3. CASE t \notin Trans!Coming /\ t \in Trans!Leaving
  <2>1. devices'[t] = Trans!NoDevice
    BY <1>3
  <2> QED
    BY <1>3, <2>1
      DEF Trans!NoDevice, Trans!Leaving, Trans!Coming, Trans!Shown, Stays
<1>4. CASE Stays(t)
  <2>1. /\ devices'[t] = devices[t]
        /\ t \notin Trans!Coming
        /\ t \notin Trans!Leaving
    BY <1>4 DEF Stays
  <2> QED
    BY <1>1, <2>1
      DEF Trans!Leaving, Trans!Coming, Trans!Shown, Trans!Absent,
          Trans!Dormant, Places
<1> QED
  BY <1>2, <1>3, <1>4 DEF Stays

LEMMA DevicesStayWithDisplays ==
  ASSUME Trans!TransactionsConstants, TransInv, Trans!UpdateDevices,
         drawing' = displays
  PROVE  DeviceShows' /\ IdsAreUsed' /\ IdsDiffer'
         /\ allocated' \subseteq Ids
         /\ devices' \in [Trans!Tokens ->
                            [surface : Surfaces \cup {"hw", None},
                             id : Ids \cup {None}]]
<1> DEFINE held == allocated \ Trans!Freed
<1>1. PICK f \in Trans!Allocations :
        /\ devices' = [t \in Trans!Tokens |->
             IF t \in Trans!Coming
             THEN [surface |-> displays[t],
                   id |-> IF t \in Virtual THEN f[t] ELSE None]
             ELSE IF t \in Trans!Leaving THEN Trans!NoDevice ELSE devices[t]]
        /\ allocated' = held \cup ({f[t] : t \in DOMAIN f} \ {None})
  BY DEF Trans!UpdateDevices
<1>2. /\ f \in [Trans!Coming \cap Virtual -> (Ids \ held) \cup {None}]
      /\ \A t, u \in Trans!Coming \cap Virtual :
           f[t] = f[u] /\ f[t] # None => t = u
  BY DEF Trans!Allocations
<1>3. f \in [Trans!Coming \cap Virtual -> Ids \cup {None}]
  BY <1>2
<1>4. ASSUME NEW t \in Trans!Tokens
      PROVE  /\ t \in Trans!Coming =>
                  /\ devices'[t].surface = displays[t]
                  /\ displays[t] \in Surfaces \cup {"hw"}
                  /\ devices'[t].id = IF t \in Virtual THEN f[t] ELSE None
             /\ t \notin Trans!Coming /\ t \in Trans!Leaving =>
                  /\ devices'[t].surface = None /\ devices'[t].id = None
                  /\ displays[t] \in {Trans!Absent, Trans!Dormant}
             /\ Stays(t) =>
                  /\ devices'[t] = devices[t]
                  /\ \/ displays[t] = drawing[t]
                     \/ /\ displays[t] = Trans!Dormant
                        /\ drawing[t] = Trans!Absent
             /\ t \in Trans!Coming /\ t \notin Trans!Leaving =>
                  devices[t].id = None
             /\ devices'[t] \in [surface : Surfaces \cup {"hw", None},
                                 id : Ids \cup {None}]
  BY <1>1, <1>3, DevicesAfter
<1>5. \A t \in Trans!Tokens :
        t \in Trans!Coming \/ t \in Trans!Leaving \/ Stays(t)
  BY DEF Stays
<1>6. DeviceShows'
  <2> SUFFICES ASSUME NEW t \in Trans!Tokens
               PROVE  /\ devices'[t].surface =
                           IF displays[t] \in {Trans!Absent, Trans!Dormant}
                           THEN None ELSE displays[t]
                      /\ devices'[t].surface = None => devices'[t].id = None
    BY DEF DeviceShows
  <2>1. CASE t \in Trans!Coming
    BY <1>4, <2>1 DEF Trans!TransactionsConstants, Trans!Absent, Trans!Dormant
  <2>2. CASE t \notin Trans!Coming /\ t \in Trans!Leaving
    BY <1>4, <2>2
  <2>3. CASE Stays(t)
    BY <1>4, <2>3 DEF TransInv, DeviceShows
  <2> QED
    BY <1>5, <2>1, <2>2, <2>3
<1>7. \A t \in Trans!Tokens : Stays(t) /\ devices[t].id # None =>
        devices'[t].id \in held /\ devices'[t].id = devices[t].id
  <2> SUFFICES ASSUME NEW t \in Trans!Tokens, Stays(t), devices[t].id # None
               PROVE  devices[t].id \in held
    BY <1>4
  <2>1. devices[t].id \in allocated
    BY DEF TransInv, IdsAreUsed
  <2>2. ASSUME NEW u \in Trans!Leaving PROVE devices[u].id # devices[t].id
    BY <2>2 DEF TransInv, IdsDiffer, Stays, Trans!Leaving
  <2> QED
    BY <2>1, <2>2 DEF Trans!Freed
<1>8. ASSUME NEW x \in held
      PROVE  \E t \in Trans!Tokens : Stays(t) /\ devices[t].id = x /\ x # None
  <2>1. PICK t \in Trans!Tokens : devices[t].id = x /\ x # None
    BY DEF TransInv, IdsAreUsed
  <2>2. t \notin Trans!Leaving
    BY <2>1 DEF Trans!Freed
  <2>3. t \notin Trans!Coming
    BY <1>4, <2>1, <2>2
  <2> QED
    BY <2>1, <2>2, <2>3 DEF Stays
<1>9. IdsAreUsed'
  <2> SUFFICES allocated' = {devices'[t].id : t \in Trans!Tokens} \ {None}
    BY DEF IdsAreUsed
  <2>1. ASSUME NEW x \in allocated'
        PROVE  x # None /\ \E t \in Trans!Tokens : devices'[t].id = x
    <3>1. CASE x \in held
      BY <1>4, <1>8, <3>1
    <3>2. CASE x \in {f[t] : t \in DOMAIN f} \ {None}
      <4>1. PICK t \in Trans!Coming \cap Virtual : x = f[t] /\ x # None
        BY <1>2, <3>2
      <4> QED
        BY <1>4, <4>1 DEF Trans!Coming
    <3> QED
      BY <1>1, <2>1, <3>1, <3>2
  <2>2. ASSUME NEW t \in Trans!Tokens, devices'[t].id # None
        PROVE  devices'[t].id \in allocated'
    <3>1. CASE t \in Trans!Coming
      <4>1. t \in Virtual /\ devices'[t].id = f[t]
        BY <1>4, <2>2, <3>1
      <4> QED
        BY <1>1, <1>2, <2>2, <3>1, <4>1
    <3>2. CASE t \notin Trans!Coming /\ t \in Trans!Leaving
      BY <1>4, <2>2, <3>2
    <3>3. CASE Stays(t)
      BY <1>1, <1>4, <1>7, <2>2, <3>3
    <3> QED
      BY <1>5, <3>1, <3>2, <3>3
  <2> QED
    BY <2>1, <2>2
<1>10. IdsDiffer'
  <2> SUFFICES ASSUME NEW t \in Trans!Tokens, NEW u \in Trans!Tokens, t # u,
                      devices'[t].id = devices'[u].id
               PROVE  devices'[t].id = None
    BY DEF IdsDiffer
  <2>1. \A v \in Trans!Tokens : devices'[v].id # None /\ v \in Trans!Coming =>
          v \in Virtual /\ devices'[v].id = f[v] /\ f[v] \in Ids \ held
    BY <1>2, <1>4
  <2>2. \A v \in Trans!Tokens :
          devices'[v].id # None /\ v \notin Trans!Coming =>
          Stays(v) /\ devices'[v].id \in held /\ devices'[v].id = devices[v].id
    BY <1>4, <1>5, <1>7
  <2>3. CASE t \in Trans!Coming /\ u \in Trans!Coming
    BY <1>2, <2>1, <2>3
  <2>4. CASE t \notin Trans!Coming /\ u \notin Trans!Coming
    BY <2>2, <2>4 DEF TransInv, IdsDiffer
  <2>5. CASE t \in Trans!Coming /\ u \notin Trans!Coming
    BY <2>1, <2>2, <2>5
  <2>6. CASE t \notin Trans!Coming /\ u \in Trans!Coming
    BY <2>1, <2>2, <2>6
  <2> QED
    BY <2>3, <2>4, <2>5, <2>6
<1>11. allocated' \subseteq Ids
  BY <1>1, <1>2 DEF TransInv, DeviceTypes
<1>12. devices' \in [Trans!Tokens -> [surface : Surfaces \cup {"hw", None},
                                id : Ids \cup {None}]]
  BY <1>1, <1>4
<1> QED
  BY <1>6, <1>9, <1>10, <1>11, <1>12

LEMMA TransHandleTransactionKeeps ==
  ASSUME Trans!TransactionsConstants, TransInv, Trans!HandleTransaction
  PROVE  TransInv'
<1>1. /\ UNCHANGED <<cast, caller, request, timeouts, layers, displays>>
      /\ changed' = {} /\ drawn' = layers /\ removed' = {}
      /\ drawing' = displays
      /\ pendingSync' = FALSE /\ pendingAnim' = FALSE /\ frames' = 0
  BY DEF Trans!HandleTransaction
<1>2. layerDirty' = {}
  BY DEF Trans!HandleTransaction, Trans!Taken, TransInv, DirtyIsTold
<1>3. CallTypes' /\ FramesPend' /\ DirtyIsTold' /\ ChangeIsTold'
  BY <1>1, <1>2 DEF TransInv, CallTypes, FramesPend, DirtyIsTold, ChangeIsTold
<1>4. WaiterIsServed'
  BY <1>1, <1>2 DEF WaiterIsServed, Trans!Settled
<1>5. CASE UNCHANGED <<devices, allocated>> /\ "display" \notin flags
  <2>1. \A t \in Trans!Tokens :
          \/ displays[t] = drawing[t]
          \/ displays[t] = Trans!Dormant /\ drawing[t] = Trans!Absent
    BY <1>5 DEF TransInv, ChangeIsTold
  <2>2. DeviceShows'
    BY <1>1, <1>5, <2>1 DEF TransInv, DeviceShows
  <2>3. DeviceTypes' /\ IdsAreUsed' /\ IdsDiffer'
    BY <1>1, <1>5 DEF TransInv, DeviceTypes, IdsAreUsed, IdsDiffer
  <2> QED
    BY <1>3, <1>4, <2>2, <2>3 DEF TransInv
<1>6. CASE Trans!UpdateDevices
  <2>1. /\ DeviceShows' /\ IdsAreUsed' /\ IdsDiffer'
        /\ allocated' \subseteq Ids
        /\ devices' \in [Trans!Tokens -> [surface : Surfaces \cup {"hw", None},
                                    id : Ids \cup {None}]]
    BY <1>1, <1>6, DevicesStayWithDisplays
  <2>2. DeviceTypes'
    BY <1>1, <2>1 DEF TransInv, DeviceTypes
  <2> QED
    BY <1>3, <1>4, <2>1, <2>2 DEF TransInv
<1> QED
  BY <1>5, <1>6 DEF Trans!HandleTransaction, Trans!Taken


LEMMA TransStutterKeeps ==
  ASSUME TransInv, Trans!TransactionsConstants, UNCHANGED Trans!vars
  PROVE  TransInv'
<1>1. /\ CallTypes'
      /\ FramesPend'
      /\ DirtyIsTold'
      /\ WaiterIsServed'
      /\ DeviceTypes'
      /\ ChangeIsTold' /\ DeviceShows' /\ IdsAreUsed' /\ IdsDiffer'
  BY SMT
    DEF TransInv, Trans!vars, CallTypes, FramesPend, DirtyIsTold,
        WaiterIsServed, DeviceTypes, ChangeIsTold, DeviceShows, IdsAreUsed,
        IdsDiffer, Trans!callVars, Trans!pendingVars, Trans!layerVars,
        Trans!displayVars, Trans!Settled, Trans!Tokens, Places, Trans!Dormant,
        Trans!Absent
<1> QED
  BY <1>1 DEF TransInv

LEMMA TransStep ==
  ASSUME Trans!TransactionsConstants, TransInv, [Trans!Next]_Trans!vars
  PROVE  TransInv'
<1>1. \A c \in cast.clients : c \in Clients
  BY DEF TransInv, CallTypes, Trans!TransactionsConstants
<1>2. CASE \E c \in cast.clients :
             \/ Trans!SetTransactionState(c) \/ Trans!AnimWakes(c)
             \/ Trans!SyncWakes(c) \/ Trans!TimesOut(c)
             \/ Trans!AddClientLayer(c) \/ Trans!RemoveLayer(c)
  BY <1>1, <1>2, TransSetTransactionStateKeeps, TransAnimWakesKeeps,
     TransSyncWakesKeeps, TransTimesOutKeeps, TransAddClientLayerKeeps,
     TransRemoveLayerKeeps
<1>3. QED
  BY <1>2, TransCreateDisplayKeeps, TransDestroyDisplayKeeps,
     TransHotplugReceivedKeeps, TransSignalTransactionKeeps,
     TransInvalidateKeeps, TransHandleTransactionKeeps, TransStutterKeeps
    DEF Trans!Next, Trans!MainThread

LEMMA TransInitially ==
  ASSUME Trans!TransactionsConstants, Trans!Init
  PROVE  TransInv
<1>1. CallTypes
  BY DEF Trans!Init, CallTypes, Trans!NoRequest, Trans!Requests,
       Trans!Changes, Trans!Plain
<1>2. DeviceTypes /\ ChangeIsTold /\ DeviceShows /\ IdsAreUsed /\ IdsDiffer
  BY DEF Trans!Init, DeviceTypes, Places, Trans!NoDevice, ChangeIsTold,
       DeviceShows, IdsAreUsed, IdsDiffer, Trans!Tokens
<1>3. FramesPend /\ DirtyIsTold /\ WaiterIsServed
  BY DEF Trans!Init, FramesPend, DirtyIsTold, WaiterIsServed
<1> QED
  BY <1>1, <1>2, <1>3 DEF TransInv

LEMMA TransTells ==
  ASSUME TransInv
  PROVE  Trans!OneAnimationPerCommit /\ Trans!DevicesFollowDisplays
<1>1. Trans!OneAnimationPerCommit
  BY DEF TransInv, CallTypes, FramesPend, Trans!OneAnimationPerCommit
<1>2. Trans!DevicesFollowDisplays
  BY DEF TransInv, DeviceShows, IdsAreUsed, IdsDiffer,
       Trans!DevicesFollowDisplays
<1> QED
  BY <1>1, <1>2

(* A synchronous caller goes idle in SyncWakes only: a transaction that     *)
(* returns at once was not synchronous.                                     *)
LEMMA ServedThenReturns ==
  ASSUME Trans!TransactionsConstants, TransInv, [Trans!Next]_Trans!vars,
         NEW c \in Clients,
         caller[c] # "idle", caller'[c] = "idle", request[c].sync,
         timeouts' = 0
  PROVE  Trans!Settled(c)'
<1>1. \A d \in cast.clients : d \in Clients
  BY DEF TransInv, CallTypes, Trans!TransactionsConstants
<1>2. /\ caller \in [Clients -> {"idle", "anim", "waits"}]
      /\ request \in [Clients -> Trans!Requests] /\ timeouts \in Nat
  BY DEF TransInv, CallTypes
<1>3. ASSUME NEW d \in Clients, NEW r \in Trans!Requests,
             Trans!Apply(d, r, pendingAnim),
             d = c => r = request[c]
      PROVE  FALSE
  <2>1. pendingAnim \in BOOLEAN
    BY DEF TransInv, CallTypes
  <2>2. /\ \E where \in {"idle", "waits"} :
             caller' = [caller EXCEPT ![d] = where]
        /\ caller'[d] = "idle" => ~r.sync
    BY <1>3, <2>1, Applied
  <2> QED
    BY <1>2, <1>3, <2>2
<1>4. CASE \E d \in cast.clients : Trans!SetTransactionState(d)
  <2>1. PICK d \in Clients : Trans!SetTransactionState(d)
    BY <1>1, <1>4
  <2>2. PICK r \in Trans!Requests :
          Trans!Blocks(d, "anim", r) \/ Trans!Apply(d, r, pendingAnim)
    BY <2>1 DEF Trans!SetTransactionState
  <2>3. caller[d] = "idle"
    BY <2>1 DEF Trans!SetTransactionState
  <2>4. CASE Trans!Blocks(d, "anim", r)
    BY <1>2, <2>4 DEF Trans!Blocks
  <2>5. CASE Trans!Apply(d, r, pendingAnim)
    BY <1>3, <2>3, <2>5
  <2> QED
    BY <2>2, <2>4, <2>5
<1>5. CASE \E d \in cast.clients : Trans!AnimWakes(d)
  <2>1. PICK d \in Clients : Trans!AnimWakes(d)
    BY <1>1, <1>5
  <2>2. Trans!Apply(d, request[d], pendingAnim)
    BY <2>1 DEF Trans!AnimWakes
  <2> QED
    BY <1>2, <1>3, <2>2
<1>6. CASE \E d \in cast.clients : Trans!SyncWakes(d)
  <2>1. PICK d \in Clients : Trans!SyncWakes(d)
    BY <1>1, <1>6
  <2>2. d = c /\ ~pendingSync /\ caller[c] = "waits"
    BY <1>2, <2>1 DEF Trans!SyncWakes, Trans!Returns
  <2>3. UNCHANGED <<changed, layerDirty, removed, layers, drawn, timeouts>>
    BY <2>1 DEF Trans!SyncWakes, Trans!layerVars
  <2>4. Trans!Settled(c)
    BY <2>2, <2>3 DEF TransInv, WaiterIsServed
  <2> QED
    BY <2>3, <2>4 DEF Trans!Settled
<1>7. CASE \E d \in cast.clients : Trans!TimesOut(d)
  BY <1>2, <1>7 DEF Trans!TimesOut
<1>8. caller' # caller
  OBVIOUS
<1>9. \/ \E d \in cast.clients :
           \/ Trans!SetTransactionState(d) \/ Trans!AnimWakes(d)
           \/ Trans!SyncWakes(d) \/ Trans!TimesOut(d)
      \/ caller' = caller
  BY DEF Trans!Next, Trans!vars, Trans!callVars, Trans!AddClientLayer,
       Trans!RemoveLayer, Trans!CreateDisplay, Trans!DestroyDisplay,
       Trans!HotplugReceived, Trans!SignalTransaction, Trans!MainThread,
       Trans!Invalidate, Trans!HandleTransaction
<1> QED
  BY <1>4, <1>5, <1>6, <1>7, <1>8, <1>9
-----------------------------------------------------------------------------
(* What the clients of the screen are promised: Transactions implements     *)
(* Screen.                                                                  *)

(* An animation frame that is waited for is among the changes to come.      *)
PendingShows == pendingAnim => frames # 0

(* The external display has the token of its hotplug.                       *)
PluggedIn == builtin \in External \cup {None}

LEMMA PendingKept ==
  ASSUME Trans!TransactionsConstants, TransInv, PendingShows,
         [Trans!Next]_Trans!vars
  PROVE  PendingShows'
<1>1. /\ \A d \in cast.clients : d \in Clients
      /\ request \in [Clients -> Trans!Requests]
      /\ pendingAnim \in BOOLEAN /\ frames \in Nat
  BY DEF TransInv, CallTypes, Trans!TransactionsConstants
<1>2. ASSUME NEW c \in Clients, NEW r \in Trans!Requests,
             NEW anim \in BOOLEAN, anim => pendingAnim,
             Trans!Apply(c, r, anim)
      PROVE  PendingShows'
  <2>1. \/ frames' = frames /\ (pendingAnim' <=> anim)
        \/ frames' = frames + 1
    BY <1>2, Applied
  <2>2. QED
    BY <1>1, <1>2, <2>1 DEF PendingShows
<1>3. CASE UNCHANGED Trans!pendingVars
  BY <1>3 DEF PendingShows, Trans!pendingVars
<1>4. ASSUME NEW c \in Clients,
             \/ Trans!SetTransactionState(c) \/ Trans!AnimWakes(c)
             \/ Trans!SyncWakes(c) \/ Trans!TimesOut(c)
      PROVE  PendingShows'
  <2>1. request[c] \in Trans!Requests
    BY <1>1
  <2>2. CASE \E r \in Trans!Requests : Trans!Apply(c, r, pendingAnim)
    BY <1>1, <1>2, <2>2
  <2>3. CASE Trans!Apply(c, request[c], FALSE)
    BY <1>2, <2>1, <2>3
  <2>4. CASE UNCHANGED <<pendingAnim, frames>>
    BY <2>4 DEF PendingShows
  <2>5. QED
    BY <1>4, <2>1, <2>2, <2>3, <2>4
      DEF Trans!SetTransactionState, Trans!AnimWakes, Trans!SyncWakes,
          Trans!TimesOut, Trans!pendingVars
<1>5. CASE Trans!HandleTransaction
  BY <1>5 DEF PendingShows, Trans!HandleTransaction
<1>6. CASE \/ \E c \in cast.clients :
                Trans!AddClientLayer(c) \/ Trans!RemoveLayer(c)
           \/ Trans!CreateDisplay \/ Trans!DestroyDisplay
           \/ Trans!HotplugReceived \/ Trans!SignalTransaction
           \/ Trans!Invalidate \/ UNCHANGED Trans!vars
  BY <1>3, <1>6
    DEF Trans!AddClientLayer, Trans!RemoveLayer, Trans!CreateDisplay,
        Trans!DestroyDisplay, Trans!HotplugReceived,
        Trans!SignalTransaction, Trans!Invalidate, Trans!vars
<1>7. QED
  BY <1>1, <1>4, <1>5, <1>6 DEF Trans!Next, Trans!MainThread

(* What nothing is done for, in both modules.                               *)
LEMMA SameVoid ==
  ASSUME NEW r \in Trans!Requests
  PROVE  /\ Trans!Effect(r) = {} <=> Show!Void(r)
         /\ Trans!Effect(r) = {"display"} <=>
              /\ r.change.kind = "display"
              /\ displays[r.change.token] \notin
                   {Trans!Absent, r.change.surface}
<1>1. r.change \in Trans!Changes /\ r.sync \in BOOLEAN
  BY DEF Trans!Requests
<1>2. CASE r.change.kind = "none"
  <2>1. Trans!FlagsOf(r.change) = {}
    BY <1>2 DEF Trans!FlagsOf
  <2>2. QED
    BY <1>1, <1>2, <2>1 DEF Trans!Effect, Show!Void
<1>3. CASE r.change.kind = "layer"
  <2>1. Trans!FlagsOf(r.change) = {"traversal"}
    BY <1>3 DEF Trans!FlagsOf
  <2>2. QED
    BY <1>1, <1>3, <2>1 DEF Trans!Effect, Show!Void
<1>4. CASE r.change.kind = "order"
  <2>1. Trans!FlagsOf(r.change) = {"transaction", "traversal"}
    BY <1>4 DEF Trans!FlagsOf
  <2>2. QED
    BY <1>1, <1>4, <2>1 DEF Trans!Effect, Show!Void
<1>5. CASE r.change.kind = "display"
  <2>1. Trans!FlagsOf(r.change) =
          IF displays[r.change.token] \in {Trans!Absent, r.change.surface}
          THEN {} ELSE {"display"}
    BY <1>5 DEF Trans!FlagsOf
  <2>2. QED
    BY <1>1, <1>5, <2>1 DEF Trans!Effect, Show!Void
<1>6. r.change.kind \in {"none", "layer", "order", "display"}
  BY <1>1 DEF Trans!Changes, Trans!Plain
<1>7. QED
  BY <1>2, <1>3, <1>4, <1>5, <1>6

(* A request that is applied is followed as Screen says.                    *)
LEMMA ApplyFollows ==
  ASSUME TransInv, NEW c \in Clients, NEW r \in Trans!Requests,
         NEW anim \in BOOLEAN, Trans!Apply(c, r, anim),
         r.anim => frames = 0 \/ timeouts' # 0
  PROVE  Show!Follow(c, r)
<1>1. /\ frames \in Nat /\ displays \in [Trans!Tokens -> Places]
      /\ r.anim \in BOOLEAN /\ r.sync \in BOOLEAN
      /\ pendingSync \in BOOLEAN
  BY DEF TransInv, CallTypes, DeviceTypes, Trans!Requests
<1>2. CASE /\ Trans!Effect(r) = {}
           /\ Trans!Returns(c)
           /\ UNCHANGED <<flags, message, pendingSync, frames>>
           /\ UNCHANGED <<Trans!layerVars, Trans!displayVars>>
  <2>1. Show!Void(r)
    BY <1>2, SameVoid
  <2>2. /\ UNCHANGED <<displays, changed, layerDirty, removed, frames>>
        /\ UNCHANGED <<layers, drawn, drawing>>
    BY <1>2 DEF Trans!layerVars, Trans!displayVars
  <2>3. Show!Make(c, r)
    BY <2>1, <2>2 DEF Show!Make, Show!shownVars
  <2>4. Show!Stands(c, "idle", Trans!NoRequest) /\ ~r.sync
    BY <1>2, <2>1 DEF Trans!Returns, Show!Stands, Show!Void
  <2>5. QED
    BY <2>3, <2>4 DEF Show!Follow
<1>3. CASE /\ Trans!Effect(r) # {}
           /\ pendingSync' = (pendingSync \/ r.sync)
           /\ frames' = IF r.anim THEN frames + 1 ELSE frames
           /\ changed' = changed \cup {c}
           /\ layerDirty' = IF r.change.kind \in {"layer", "order"}
                            THEN layerDirty \cup {c} ELSE layerDirty
           /\ displays' = IF Trans!Effect(r) = {"display"}
                          THEN [displays EXCEPT ![r.change.token] =
                                                  r.change.surface]
                          ELSE displays
           /\ IF pendingSync' THEN Trans!Blocks(c, "waits", r)
              ELSE Trans!Returns(c)
           /\ UNCHANGED <<layers, drawn, removed, drawing>>
  <2>1. ~Show!Void(r)
    BY <1>3, SameVoid
  <2>2. (changed \cup layerDirty \cup removed)' =
          changed \cup layerDirty \cup removed \cup {c}
    BY <1>3
  <2>3. (frames # 0)' = (frames # 0 \/ r.anim)
    BY <1>1, <1>3
  <2>4. displays' =
          IF /\ r.change.kind = "display"
             /\ displays[r.change.token] # Trans!Absent
          THEN [displays EXCEPT ![r.change.token] = r.change.surface]
          ELSE displays
    BY <1>1, <1>3, SameVoid
  <2>5. Show!Make(c, r)
    BY <1>3, <2>1, <2>2, <2>3, <2>4 DEF Show!Make, Show!shownVars
  <2>6. \/ Show!Stands(c, "waits", r)
        \/ ~r.sync /\ Show!Stands(c, "idle", Trans!NoRequest)
    BY <1>1, <1>3 DEF Trans!Blocks, Trans!Returns, Show!Stands
  <2>7. QED
    BY <2>5, <2>6 DEF Show!Follow
<1>4. QED
  BY <1>2, <1>3, Zenon DEF Trans!Apply, Trans!Waits

(* Each step of Transactions is one of Screen, or changes nothing there.    *)
LEMMA ShowCallStep ==
  ASSUME TransInv, PendingShows, NEW c \in Clients,
         \/ Trans!SetTransactionState(c) \/ Trans!AnimWakes(c)
         \/ Trans!SyncWakes(c) \/ Trans!TimesOut(c)
  PROVE  [Show!Next]_Show!screenVars
<1>1. /\ request[c] \in Trans!Requests /\ pendingAnim \in BOOLEAN
      /\ timeouts \in Nat /\ frames \in Nat
  BY DEF TransInv, CallTypes
<1>2. ~pendingAnim => frames = 0 \/ timeouts # 0
  BY DEF TransInv, FramesPend
<1>3. ASSUME UNCHANGED <<frames, changed, layerDirty, removed>>,
             UNCHANGED <<layers, drawn, displays, drawing>>
      PROVE  UNCHANGED Show!stateVars
  BY <1>3 DEF Show!stateVars, Show!shownVars
<1>4. CASE Trans!SetTransactionState(c)
  <2>1. timeouts' = timeouts /\ caller[c] = "idle"
    BY <1>4 DEF Trans!SetTransactionState
  <2>2. CASE \E r \in Trans!Requests :
               /\ r.anim => ~pendingAnim
               /\ Trans!Apply(c, r, pendingAnim)
    <3>1. PICK r \in Trans!Requests :
            (r.anim => ~pendingAnim) /\ Trans!Apply(c, r, pendingAnim)
      BY <2>2
    <3>2. Show!Follow(c, r)
      BY <1>1, <1>2, <2>1, <3>1, ApplyFollows
    <3>3. Show!Ask(c)
      BY <2>1, <3>2 DEF Show!Ask
    <3>4. QED
      BY <3>3 DEF Show!Next
  <2>3. CASE \E r \in Trans!Requests :
               /\ r.anim /\ pendingAnim /\ Trans!Blocks(c, "anim", r)
               /\ UNCHANGED <<Trans!pendingVars, Trans!layerVars>>
               /\ UNCHANGED Trans!displayVars
    <3>1. UNCHANGED Show!stateVars
      BY <1>3, <2>3
        DEF Trans!pendingVars, Trans!layerVars, Trans!displayVars
    <3>2. frames # 0 /\ timeouts' = timeouts
      BY <2>1, <2>3 DEF PendingShows
    <3>3. Show!PutOff(c)
      BY <2>1, <2>3, <3>1, <3>2
        DEF Show!PutOff, Show!Stands, Trans!Blocks
    <3>4. QED
      BY <3>3 DEF Show!Next
  <2>4. QED
    BY <1>4, <2>2, <2>3 DEF Trans!SetTransactionState
<1>5. CASE Trans!AnimWakes(c)
  <2>1. timeouts' = timeouts /\ caller[c] = "anim"
    BY <1>5 DEF Trans!AnimWakes
  <2>2. CASE ~pendingAnim /\ Trans!Apply(c, request[c], pendingAnim)
    <3>1. Show!Follow(c, request[c])
      BY <1>1, <1>2, <2>1, <2>2, ApplyFollows
    <3>2. Show!GoOn(c)
      BY <2>1, <3>1 DEF Show!GoOn
    <3>3. QED
      BY <3>2 DEF Show!Next
  <2>3. CASE /\ UNCHANGED <<caller, request, Trans!pendingVars>>
             /\ UNCHANGED <<Trans!layerVars, Trans!displayVars>>
    <3>1. UNCHANGED Show!stateVars
      BY <1>3, <2>3
        DEF Trans!pendingVars, Trans!layerVars, Trans!displayVars
    <3>2. QED
      BY <2>1, <2>3, <3>1
        DEF Show!screenVars, Show!stateVars, Show!shownVars
  <2>4. QED
    BY <1>5, <2>2, <2>3 DEF Trans!AnimWakes, Trans!AnimWaitsOn
<1>6. CASE Trans!SyncWakes(c)
  <2>1. /\ timeouts' = timeouts /\ caller[c] = "waits"
        /\ UNCHANGED Show!stateVars
    BY <1>3, <1>6
      DEF Trans!SyncWakes, Trans!pendingVars, Trans!layerVars,
          Trans!displayVars
  <2>2. CASE pendingSync
    <3>1. UNCHANGED <<caller, request>>
      BY <1>6, <2>2 DEF Trans!SyncWakes
    <3>2. QED
      BY <2>1, <3>1 DEF Show!screenVars, Show!stateVars, Show!shownVars
  <2>3. CASE ~pendingSync
    <3>1. timeouts # 0 \/ Trans!Settled(c)
      BY <2>1, <2>3 DEF TransInv, WaiterIsServed
    <3>2. (timeouts # 0)' \/ Show!Settled(c)
      BY <2>1, <3>1 DEF Trans!Settled, Show!Settled
    <3>3. Show!Stands(c, "idle", Trans!NoRequest)
      BY <1>6, <2>3 DEF Trans!SyncWakes, Trans!Returns, Show!Stands
    <3>4. Show!Return(c)
      BY <2>1, <3>2, <3>3 DEF Show!Return
    <3>5. QED
      BY <3>4 DEF Show!Next
  <2>4. QED
    BY <2>2, <2>3
<1>7. CASE Trans!TimesOut(c)
  <2>1. timeouts' # 0
    BY <1>1, <1>7 DEF Trans!TimesOut
  <2>2. CASE /\ caller[c] = "waits" /\ Trans!Returns(c)
             /\ UNCHANGED <<frames, Trans!layerVars, Trans!displayVars>>
    <3>1. UNCHANGED Show!stateVars
      BY <1>3, <2>2 DEF Trans!layerVars, Trans!displayVars
    <3>2. Show!Return(c)
      BY <2>1, <2>2, <3>1 DEF Show!Return, Show!Stands, Trans!Returns
    <3>3. QED
      BY <3>2 DEF Show!Next
  <2>3. CASE caller[c] = "anim" /\ Trans!Apply(c, request[c], FALSE)
    <3>1. Show!Follow(c, request[c])
      BY <1>1, <2>1, <2>3, ApplyFollows
    <3>2. Show!GoOn(c)
      BY <2>1, <2>3, <3>1 DEF Show!GoOn
    <3>3. QED
      BY <3>2 DEF Show!Next
  <2>4. QED
    BY <1>7, <2>2, <2>3 DEF Trans!TimesOut
<1>8. QED
  BY <1>4, <1>5, <1>6, <1>7

LEMMA ShowLayerStep ==
  ASSUME NEW c \in Clients,
         Trans!AddClientLayer(c) \/ Trans!RemoveLayer(c)
  PROVE  Show!Next
<1>1. CASE Trans!AddClientLayer(c)
  <2>1. Show!AddLayer(c)
    BY <1>1
      DEF Show!AddLayer, Show!shownVars, Trans!AddClientLayer,
          Trans!callVars, Trans!pendingVars, Trans!displayVars
  <2>2. QED
    BY <2>1 DEF Show!Next
<1>2. CASE Trans!RemoveLayer(c)
  <2>1. (changed \cup layerDirty \cup removed)' =
          changed \cup layerDirty \cup removed \cup {c}
    BY <1>2 DEF Trans!RemoveLayer
  <2>2. Show!RemoveLayer(c)
    BY <1>2, <2>1
      DEF Show!RemoveLayer, Show!shownVars, Trans!RemoveLayer,
          Trans!callVars, Trans!pendingVars, Trans!displayVars
  <2>3. QED
    BY <2>2 DEF Show!Next
<1>3. QED
  BY <1>1, <1>2

LEMMA ShowDisplayStep ==
  ASSUME Trans!CreateDisplay \/ Trans!DestroyDisplay
           \/ Trans!HotplugReceived,
         PluggedIn
  PROVE  Show!Next
<1>1. \E t \in Trans!Tokens, x \in Places :
        /\ displays[t] = Trans!Absent \/ x = Trans!Absent
        /\ displays' = [displays EXCEPT ![t] = x]
  BY DEF Trans!CreateDisplay, Trans!DestroyDisplay, Trans!HotplugReceived,
         Trans!Withdraw, Trans!Fresh, Trans!Tokens, Places, PluggedIn
<1>2. UNCHANGED <<layers, drawn, drawing, changed, layerDirty, removed,
                  frames, caller, request, timeouts>>
  BY DEF Trans!CreateDisplay, Trans!DestroyDisplay, Trans!HotplugReceived,
         Trans!callVars, Trans!pendingVars, Trans!layerVars
<1>3. Show!Plug
  BY <1>1, <1>2 DEF Show!Plug, Show!shownVars, Places
<1>4. QED
  BY <1>3 DEF Show!Next

LEMMA ShowDraws ==
  ASSUME TransInv, Trans!HandleTransaction PROVE Show!Draw
<1>1. layerDirty' = {}
  BY DEF Trans!HandleTransaction, Trans!Taken, TransInv, DirtyIsTold
<1>2. (changed \cup layerDirty \cup removed)' = {}
  BY <1>1 DEF Trans!HandleTransaction
<1>3. QED
  BY <1>2 DEF Trans!HandleTransaction, Show!Draw

LEMMA PluggedKept ==
  ASSUME PluggedIn, [Trans!Next]_Trans!vars
  PROVE  PluggedIn'
<1>1. CASE Trans!HotplugReceived
  BY <1>1 DEF Trans!HotplugReceived, PluggedIn
<1>2. CASE builtin' = builtin
  BY <1>2 DEF PluggedIn
<1>3. ASSUME NEW c, NEW r, NEW anim, Trans!Apply(c, r, anim)
      PROVE  builtin' = builtin
  BY <1>3 DEF Trans!Apply, Trans!displayVars
<1>4. ASSUME NEW c,
             \/ Trans!SetTransactionState(c) \/ Trans!AnimWakes(c)
             \/ Trans!SyncWakes(c) \/ Trans!TimesOut(c)
             \/ Trans!AddClientLayer(c) \/ Trans!RemoveLayer(c)
      PROVE  builtin' = builtin
  BY <1>3, <1>4
    DEF Trans!SetTransactionState, Trans!AnimWakes, Trans!SyncWakes,
        Trans!TimesOut, Trans!AddClientLayer, Trans!RemoveLayer,
        Trans!displayVars
<1>5. \/ Trans!HotplugReceived
      \/ builtin' = builtin
  BY <1>4
    DEF Trans!Next, Trans!MainThread, Trans!CreateDisplay,
        Trans!DestroyDisplay, Trans!SignalTransaction, Trans!Invalidate,
        Trans!HandleTransaction, Trans!vars, Trans!displayVars
<1>6. QED
  BY <1>1, <1>2, <1>5

ShowInv == TransInv /\ PendingShows /\ PluggedIn

LEMMA ShowInitially ==
  ASSUME Trans!TransactionsConstants, Trans!Init
  PROVE  ShowInv /\ Show!Init
<1>1. TransInv
  BY TransInitially
<1>2. PendingShows /\ PluggedIn
  BY DEF Trans!Init, PendingShows, PluggedIn
<1>3. Show!Init
  BY DEF Trans!Init, Show!Init
<1>4. QED
  BY <1>1, <1>2, <1>3 DEF ShowInv

LEMMA ShowStep ==
  ASSUME Trans!TransactionsConstants, ShowInv, [Trans!Next]_Trans!vars
  PROVE  ShowInv' /\ [Show!Next]_Show!screenVars
<1>1. ShowInv'
  BY TransStep, PendingKept, PluggedKept DEF ShowInv
<1> SUFFICES [Show!Next]_Show!screenVars
  BY <1>1
<1>2. CASE \E c \in cast.clients :
             \/ Trans!SetTransactionState(c) \/ Trans!AnimWakes(c)
             \/ Trans!SyncWakes(c) \/ Trans!TimesOut(c)
             \/ Trans!AddClientLayer(c) \/ Trans!RemoveLayer(c)
  <2>1. PICK c \in Clients :
          \/ Trans!SetTransactionState(c) \/ Trans!AnimWakes(c)
          \/ Trans!SyncWakes(c) \/ Trans!TimesOut(c)
          \/ Trans!AddClientLayer(c) \/ Trans!RemoveLayer(c)
    BY <1>2 DEF ShowInv, TransInv, CallTypes, Trans!TransactionsConstants
  <2>2. QED
    BY <2>1, ShowCallStep, ShowLayerStep DEF ShowInv
<1>3. CASE \/ Trans!CreateDisplay \/ Trans!DestroyDisplay
           \/ Trans!HotplugReceived
  BY <1>3, ShowDisplayStep DEF ShowInv
<1>4. CASE Trans!HandleTransaction
  BY <1>4, ShowDraws DEF ShowInv, Show!Next
<1>5. CASE \/ Trans!SignalTransaction \/ Trans!Invalidate
           \/ UNCHANGED Trans!vars
  <2>1. UNCHANGED <<layers, drawn, displays, drawing, changed, layerDirty,
                    removed, frames, caller, request, timeouts>>
    BY <1>5
      DEF Trans!SignalTransaction, Trans!Invalidate, Trans!vars,
          Trans!callVars, Trans!pendingVars, Trans!layerVars,
          Trans!displayVars
  <2>2. QED
    BY <2>1 DEF Show!screenVars, Show!shownVars
<1>6. QED
  BY <1>2, <1>3, <1>4, <1>5 DEF Trans!Next, Trans!MainThread

-----------------------------------------------------------------------------
(***************************************************************************)
(* The frame of the panel.                                                 *)
(***************************************************************************)
(* HwcFrame counts as this module does.                                     *)
LEMMA SameCardinality ==
  ASSUME NEW S PROVE Hwc!Cardinality(S) = Cardinality(S)
BY DEF Cardinality, Hwc!Cardinality

LEMMA SameFinite ==
  ASSUME NEW S PROVE Hwc!IsFiniteSet(S) <=> IsFiniteSet(S)
BY DEF IsFiniteSet, Hwc!IsFiniteSet

Buffer == [layers : SUBSET Layers, colours : BOOLEAN]

FrameTypes ==
  /\ lit \in BOOLEAN /\ colours \in BOOLEAN /\ regionsDirty \in BOOLEAN
  /\ listDirty \in BOOLEAN /\ fbComp \in BOOLEAN /\ ovComp \in BOOLEAN
  /\ steady \in BOOLEAN /\ broken \in BOOLEAN
  /\ onScreen \subseteq Layers /\ format \in [Layers -> Hwc!Formats]
  /\ stack \in Seq(Layers) /\ list \in Seq(Hwc!Entries)
  /\ setter \in {"idle", "invalidate", "repaint"}
  /\ pictureMain \in {"idle", "stacks", "list", "clear", "geometry", "prepare",
               "repaint", "compose", "post"}
  /\ swapped \in Buffer
  /\ picture \in [over : SUBSET Layers, drawn : Buffer, steady : BOOLEAN,
                  broken : BOOLEAN]

(* The stack has what shows, but where the regions are dirty, which they    *)
(* are not during a frame.                                                  *)
StackShows ==
  /\ pictureMain \notin {"idle", "stacks"} => ~regionsDirty
  /\ ~regionsDirty => Hwc!Range(stack) = Hwc!Showing

(* The list is that of the stack, but where a frame is about to make it     *)
(* anew; while it does, of the layers at the back.                          *)
Listed ==
  \/ pictureMain \in
       {"idle", "stacks", "prepare", "repaint", "compose", "post"}
  \/ pictureMain = "list" /\ ~listDirty
ListFits ==
  /\ Listed => Len(list) = Len(stack)
  /\ pictureMain = "geometry" => Len(list) <= Len(stack)
  /\ Listed \/ pictureMain = "geometry" =>
       \A i \in 1 .. Len(list) : stack[i] \in GpuOnly => list[i].skip

(* An entry that is skipped, one of several and a new one are drawn.        *)
ListTypes ==
  \A i \in 1 .. Len(list) :
    list[i].skip \/ Len(list) >= 2 \/ pictureMain = "geometry" =>
      list[i].type = "framebuffer"

(* prepare has counted the list.                                            *)
Prepared ==
  pictureMain \in {"repaint", "compose", "post"} /\ ~broken =>
    /\ fbComp <=> \/ list = <<>>
                  \/ \E i \in 1 .. Len(list) : list[i].type = "framebuffer"
    /\ ovComp <=> \E i \in 1 .. Len(list) : list[i].type = "overlay"

Composed ==
  /\ pictureMain \in
       {"list", "clear", "geometry", "prepare", "repaint", "compose"} =>
       swapped = Hwc!Nothing
  /\ pictureMain = "post" /\ ~broken =>
       swapped.layers = IF lit /\ fbComp THEN Hwc!Drawn ELSE {}

(* A list that nothing will make anew has the colours in all its entries.   *)
ColoursListed ==
  setter # "invalidate" /\ ~listDirty /\ colours =>
    \A i \in 1 .. Len(list) : list[i].skip

SteadyFrame ==
  /\ steady => setter = "idle"
  /\ steady /\ pictureMain \in
                 {"geometry", "prepare", "repaint", "compose", "post"} =>
       ~listDirty
  /\ steady /\ pictureMain = "post" /\ ~broken /\ swapped.layers # {} =>
       swapped.colours = colours

(* PictureIsWhole, but for the videos.                                      *)
PictureHasAll ==
  picture # Hwc!NoPicture /\ lit /\ ~picture.broken =>
    \/ picture.over = {} /\ picture.drawn.layers = Hwc!Showing
    \/ /\ picture.over = Hwc!Showing /\ picture.drawn.layers = {}
       /\ Hwc!Cardinality(picture.over) = 1 /\ picture.over \cap GpuOnly = {}

HwcInv ==
  /\ FrameTypes /\ StackShows /\ ListFits /\ ListTypes /\ Prepared /\ Composed
  /\ PictureHasAll
  /\ ColoursListed
  /\ SteadyFrame
  /\ Hwc!SwitchesTakeEffect

-----------------------------------------------------------------------------
(* What the HWC answers, as the model writes it.                            *)
Answer(types) ==
  [i \in DOMAIN list |->
     [skip |-> Hwc!Forced(list)[i].skip, type |-> types[i]]]

LEMMA EntriesHave ==
  ASSUME NEW s \in Seq(Hwc!Entries)
  PROVE  /\ Len(s) \in Nat /\ DOMAIN s = 1 .. Len(s)
         /\ \A i \in 1 .. Len(s) :
              /\ s[i].skip \in BOOLEAN
              /\ s[i].type \in {"framebuffer", "overlay"}
              /\ s[i] = [skip |-> s[i].skip, type |-> s[i].type]
<1>1. \A i \in 1 .. Len(s) : s[i] \in Hwc!Entries
  OBVIOUS
<1> QED
  BY <1>1 DEF Hwc!Entries

(* The flags of the list are kept, and what is skipped, or one of several,  *)
(* is drawn.                                                                *)
LEMMA SettledKeeps ==
  ASSUME HwcInv, pictureMain = "prepare",
         NEW types \in [DOMAIN list -> {"framebuffer", "overlay"}],
         Hwc!Chosen(Hwc!Forced(list), Answer(types)),
         list' = Hwc!Settled(list, Answer(types))
  PROVE  /\ list' \in Seq(Hwc!Entries) /\ Len(list') = Len(list)
         /\ \A i \in 1 .. Len(list) :
              /\ list'[i].skip = list[i].skip
              /\ list[i].skip \/ Len(list) >= 2 =>
                   list'[i].type = "framebuffer"
<1>1. /\ list \in Seq(Hwc!Entries)
      /\ \A i \in 1 .. Len(list) :
           list[i].skip \/ Len(list) >= 2 => list[i].type = "framebuffer"
  BY DEF HwcInv, FrameTypes, ListTypes
<1>2. /\ Len(list) \in Nat /\ DOMAIN list = 1 .. Len(list)
      /\ \A i \in 1 .. Len(list) :
           /\ list[i].skip \in BOOLEAN
           /\ list[i].type \in {"framebuffer", "overlay"}
           /\ list[i] = [skip |-> list[i].skip, type |-> list[i].type]
  BY <1>1, EntriesHave
<1>3. \A i \in 1 .. Len(list) :
        /\ types[i] \in {"framebuffer", "overlay"}
        /\ Answer(types)[i].type = types[i]
        /\ list'[i] = [skip |-> list[i].skip,
                       type |-> IF list[i].skip THEN "framebuffer"
                                ELSE types[i]]
  BY <1>2 DEF Answer, Hwc!Settled
<1>4. \A i \in 1 .. Len(list) :
        /\ list'[i].skip = list[i].skip
        /\ list'[i].type = IF list[i].skip THEN "framebuffer" ELSE types[i]
        /\ list'[i] \in Hwc!Entries
  <2> SUFFICES ASSUME NEW i \in 1 .. Len(list)
               PROVE  /\ list'[i].skip = list[i].skip
                      /\ list'[i].type = IF list[i].skip THEN "framebuffer"
                                         ELSE types[i]
                      /\ list'[i] \in Hwc!Entries
    OBVIOUS
  <2> DEFINE type == IF list[i].skip THEN "framebuffer" ELSE types[i]
  <2>1. list'[i] = [skip |-> list[i].skip, type |-> type]
    BY <1>3
  <2>2. type \in {"framebuffer", "overlay"} /\ list[i].skip \in BOOLEAN
    BY <1>2, <1>3
  <2> HIDE DEF type
  <2>3. /\ list'[i].skip = list[i].skip /\ list'[i].type = type
        /\ list'[i] \in Hwc!Entries
    BY <2>1, <2>2 DEF Hwc!Entries
  <2> QED
    BY <2>3 DEF type
<1>5. list' \in Seq(Hwc!Entries) /\ Len(list') = Len(list)
  <2>1. list' = [i \in 1 .. Len(list) |-> list'[i]]
    BY <1>2 DEF Hwc!Settled
  <2> QED
    BY <1>2, <1>4, <2>1
<1>6. ASSUME NEW i \in 1 .. Len(list), Len(list) >= 2
      PROVE  types[i] = "framebuffer"
  <2>1. /\ Hwc!Forced(list) =
             [j \in DOMAIN list |-> [list[j] EXCEPT !.skip = TRUE]]
    BY <1>2, <1>6 DEF Hwc!Forced
  <2>2. i \in DOMAIN Hwc!Forced(list)
    BY <1>2, <2>1
  <2>3. Hwc!Forced(list)[i] = [list[i] EXCEPT !.skip = TRUE]
    BY <1>2, <2>1
  <2>4. Hwc!Forced(list)[i].skip /\ Hwc!Forced(list)[i].type = list[i].type
    BY <1>2, <2>3
  <2>5. Answer(types)[i] = Hwc!Forced(list)[i]
    BY <2>2, <2>4 DEF Hwc!Chosen
  <2>6. Answer(types)[i].type = "framebuffer"
    BY <1>1, <1>6, <2>4, <2>5
  <2> QED
    BY <1>3, <2>6
<1>7. \A i \in 1 .. Len(list) :
        list[i].skip \/ Len(list) >= 2 => list'[i].type = "framebuffer"
  BY <1>4, <1>6
<1> QED
  BY <1>4, <1>5, <1>7

LEMMA HwcSwitchKeeps ==
  ASSUME HwcInv, Hwc!HwcConstants, Hwc!Switch
  PROVE  HwcInv'
<1>1. /\ StackShows' /\ ListFits' /\ ListTypes' /\ Prepared' /\ Composed'
      /\ PictureHasAll'
      /\ ColoursListed'
      /\ SteadyFrame'
      /\ Hwc!SwitchesTakeEffect'
  BY SMT
    DEF HwcInv, Hwc!Switch, FrameTypes, StackShows, ListFits, ListTypes,
        Prepared, Composed, PictureHasAll, ColoursListed, SteadyFrame,
        Hwc!SwitchesTakeEffect, Hwc!screen, Hwc!work, Hwc!Formats,
        Hwc!Entries, Buffer, Hwc!Showing, Listed, Hwc!Nothing, Hwc!Drawn,
        Hwc!NoPicture, Hwc!Covered, Hwc!Of, Hwc!Opaque, Hwc!Behind
<1>2. FrameTypes'
  <2>1. /\ lit' \in BOOLEAN
        /\ colours' \in BOOLEAN
        /\ regionsDirty' \in BOOLEAN
        /\ listDirty' \in BOOLEAN /\ fbComp' \in BOOLEAN /\ ovComp' \in BOOLEAN
        /\ steady' \in BOOLEAN /\ broken' \in BOOLEAN
    BY Zenon
      DEF HwcInv, Hwc!Switch, FrameTypes, Hwc!screen, Hwc!work, Hwc!Formats,
          Hwc!Entries, Buffer
  <2> QED
    BY <2>1, SMT
      DEF HwcInv, Hwc!Switch, FrameTypes, Hwc!screen, Hwc!work, Hwc!Formats,
          Hwc!Entries, Buffer
<1> QED
  BY <1>1, <1>2 DEF HwcInv

LEMMA HwcInvalidateHwcGeometryKeeps ==
  ASSUME HwcInv, Hwc!HwcConstants, Hwc!InvalidateHwcGeometry
  PROVE  HwcInv'
<1>1. /\ FrameTypes' /\ StackShows' /\ ListFits' /\ ListTypes' /\ Prepared'
      /\ Composed'
      /\ PictureHasAll'
      /\ ColoursListed'
      /\ SteadyFrame'
      /\ Hwc!SwitchesTakeEffect'
  BY SMT
    DEF HwcInv, Hwc!InvalidateHwcGeometry, FrameTypes, StackShows, ListFits,
        ListTypes, Prepared, Composed, PictureHasAll, ColoursListed,
        SteadyFrame, Hwc!SwitchesTakeEffect, Hwc!screen, Hwc!work,
        Hwc!Formats, Hwc!Entries, Buffer, Hwc!Showing, Listed, Hwc!Nothing,
        Hwc!Drawn, Hwc!NoPicture, Hwc!Covered, Hwc!Of, Hwc!Opaque, Hwc!Behind
<1> QED
  BY <1>1 DEF HwcInv

LEMMA HwcRepaintEverythingKeeps ==
  ASSUME HwcInv, Hwc!HwcConstants, Hwc!RepaintEverything
  PROVE  HwcInv'
<1>1. /\ FrameTypes' /\ StackShows' /\ ListFits' /\ ListTypes' /\ Prepared'
      /\ Composed'
      /\ PictureHasAll'
      /\ ColoursListed'
      /\ SteadyFrame'
      /\ Hwc!SwitchesTakeEffect'
  BY SMT
    DEF HwcInv, Hwc!RepaintEverything, FrameTypes, StackShows, ListFits,
        ListTypes, Prepared, Composed, PictureHasAll, ColoursListed,
        SteadyFrame, Hwc!SwitchesTakeEffect, Hwc!screen, Hwc!work,
        Hwc!Formats, Hwc!Entries, Buffer, Hwc!Showing, Listed, Hwc!Nothing,
        Hwc!Drawn, Hwc!NoPicture, Hwc!Covered, Hwc!Of, Hwc!Opaque, Hwc!Behind
<1> QED
  BY <1>1 DEF HwcInv

LEMMA HwcSetPowerModeKeeps ==
  ASSUME HwcInv, Hwc!HwcConstants, Hwc!SetPowerMode
  PROVE  HwcInv'
<1>1. /\ FrameTypes' /\ StackShows' /\ ListFits' /\ ListTypes' /\ Prepared'
      /\ Composed'
      /\ PictureHasAll'
      /\ ColoursListed'
      /\ SteadyFrame'
      /\ Hwc!SwitchesTakeEffect'
  BY SMT
    DEF HwcInv, Hwc!SetPowerMode, FrameTypes, StackShows, ListFits, ListTypes,
        Prepared, Composed, PictureHasAll, ColoursListed, SteadyFrame,
        Hwc!SwitchesTakeEffect, Hwc!BetweenMessages, Hwc!NoPicture,
        Hwc!Formats, Hwc!Entries, Buffer, Hwc!Showing, Listed, Hwc!Nothing,
        Hwc!Drawn, Hwc!Covered, Hwc!Of, Hwc!Opaque, Hwc!Behind
<1> QED
  BY <1>1 DEF HwcInv

LEMMA HwcInvalidateKeeps ==
  ASSUME HwcInv, Hwc!HwcConstants, Hwc!Invalidate
  PROVE  HwcInv'
<1>1. /\ StackShows' /\ ListFits' /\ ListTypes' /\ Prepared' /\ Composed'
      /\ PictureHasAll'
      /\ ColoursListed'
      /\ SteadyFrame'
      /\ Hwc!SwitchesTakeEffect'
  BY SMT
    DEF HwcInv, Hwc!Invalidate, FrameTypes, StackShows, ListFits, ListTypes,
        Prepared, Composed, PictureHasAll, ColoursListed, SteadyFrame,
        Hwc!SwitchesTakeEffect, Hwc!BetweenMessages, Hwc!Transact,
        Hwc!PageFlip, Hwc!NoPicture, Hwc!Formats, Hwc!Entries, Buffer,
        Hwc!Showing, Listed, Hwc!Nothing, Hwc!Drawn, Hwc!Opaque, Hwc!Covered,
        Hwc!Of, Hwc!Behind
<1>2. FrameTypes'
  <2>1. /\ format' \in [Layers -> Hwc!Formats] /\ onScreen' \subseteq Layers
        /\ pictureMain' \in {"idle", "stacks"}
        /\ listDirty' \in BOOLEAN /\ regionsDirty' \in BOOLEAN
    <3>1. /\ format \in [Layers -> Hwc!Formats] /\ onScreen \subseteq Layers
          /\ listDirty \in BOOLEAN /\ regionsDirty \in BOOLEAN
          /\ pictureMain \in {"idle", "stacks"}
      BY DEF HwcInv, FrameTypes, Hwc!Invalidate, Hwc!BetweenMessages
    <3>2. CASE /\ pictureMain' = "stacks"
               /\ \E l \in Layers :
                    \E kept \in {onScreen, onScreen \cup {l}, onScreen \ {l}} :
                      Hwc!Transact(kept)
      <4>1. onScreen' \subseteq Layers /\ format' = format /\ listDirty' = TRUE
        BY <3>1, <3>2 DEF Hwc!Transact
      <4>2. regionsDirty' \in BOOLEAN
        BY <3>1, <3>2, Zenon DEF Hwc!Transact
      <4> QED
        BY <3>1, <3>2, <4>1, <4>2
    <3>3. CASE /\ pictureMain' = "stacks"
               /\ \E l \in onScreen : \E f \in Buffers[l] : Hwc!PageFlip(l, f)
      <4>1. PICK l \in onScreen : \E f \in Buffers[l] : Hwc!PageFlip(l, f)
        BY <3>3
      <4>2. PICK f \in Hwc!Formats : Hwc!PageFlip(l, f)
        BY <3>1, <4>1 DEF Hwc!HwcConstants
      <4>3. onScreen' = onScreen /\ listDirty' = listDirty
        BY <4>2 DEF Hwc!PageFlip
      <4>4. format' \in [Layers -> Hwc!Formats]
        BY <3>1, <4>2 DEF Hwc!PageFlip
      <4>5. regionsDirty' \in BOOLEAN
        BY <3>1, <4>2, Zenon DEF Hwc!PageFlip
      <4> QED
        BY <3>1, <3>3, <4>3, <4>4, <4>5
    <3>4. CASE /\ asked
               /\ pictureMain' = IF fullRepaint THEN "stacks" ELSE pictureMain
               /\ UNCHANGED <<onScreen, format, listDirty, regionsDirty>>
      BY <3>1, <3>4
    <3> QED
      BY <3>2, <3>3, <3>4 DEF Hwc!Invalidate
  <2>2. /\ UNCHANGED <<lit, colours, fbComp, ovComp, steady, broken>>
        /\ UNCHANGED <<stack, list, setter, swapped>>
        /\ picture' \in [over : SUBSET Layers, drawn : Buffer,
                         steady : BOOLEAN, broken : BOOLEAN]
    BY DEF Hwc!Invalidate, Hwc!NoPicture, Buffer, Hwc!Nothing
  <2> QED
    BY <2>1, <2>2 DEF HwcInv, FrameTypes
<1> QED
  BY <1>1, <1>2 DEF HwcInv

LEMMA HwcRebuildLayerStacksKeeps ==
  ASSUME HwcInv, Hwc!HwcConstants, Hwc!RebuildLayerStacks
  PROVE  HwcInv'
<1>1. /\ StackShows' /\ ListFits' /\ ListTypes' /\ Prepared' /\ Composed'
      /\ PictureHasAll'
      /\ ColoursListed'
      /\ SteadyFrame'
      /\ Hwc!SwitchesTakeEffect'
  BY SMT
    DEF HwcInv, Hwc!RebuildLayerStacks, FrameTypes, StackShows, ListFits,
        ListTypes, Prepared, Composed, PictureHasAll, ColoursListed,
        SteadyFrame, Hwc!SwitchesTakeEffect, Hwc!Sorted, Hwc!Showing,
        Hwc!Nothing, Hwc!NoPicture, Hwc!Formats, Hwc!Entries, Buffer, Listed,
        Hwc!Drawn, Hwc!Behind, Hwc!Covered, Hwc!Of, Hwc!Opaque
<1>2. FrameTypes'
  <2>1. stack' \in Seq(Layers)
    <3>1. CASE regionsDirty
      <4>1. stack' \in Hwc!Sorted(Hwc!Showing)
        BY <3>1 DEF Hwc!RebuildLayerStacks
      <4>2. stack' \in [1 .. Hwc!Cardinality(Hwc!Showing) -> Hwc!Showing]
        BY <4>1 DEF Hwc!Sorted
      <4>3. IsFiniteSet(Layers) /\ Hwc!Showing \subseteq Layers
        BY SameFinite DEF Hwc!HwcConstants, HwcInv, FrameTypes, Hwc!Showing
      <4>4. Hwc!Cardinality(Hwc!Showing) \in Nat
        BY <4>3, SameCardinality, FS_Subset, FS_CardinalityType
      <4> QED
        BY <4>2, <4>3, <4>4
    <3>2. CASE ~regionsDirty
      BY <3>2 DEF Hwc!RebuildLayerStacks, HwcInv, FrameTypes
    <3> QED
      BY <3>1, <3>2
  <2>2. /\ UNCHANGED <<lit, onScreen, format, colours, fbComp, ovComp>>
        /\ UNCHANGED <<list, setter>>
        /\ pictureMain' = "list" /\ regionsDirty' = FALSE
        /\ swapped' = Hwc!Nothing
        /\ picture' = Hwc!NoPicture
        /\ broken' = FALSE
    BY DEF Hwc!RebuildLayerStacks
  <2>3. listDirty' \in BOOLEAN /\ steady' \in BOOLEAN
    BY Zenon DEF Hwc!RebuildLayerStacks, HwcInv, FrameTypes
  <2>4. /\ Hwc!Nothing \in Buffer
        /\ Hwc!NoPicture \in [over : SUBSET Layers, drawn : Buffer,
                          steady : BOOLEAN, broken : BOOLEAN]
    BY DEF Buffer, Hwc!Nothing, Hwc!NoPicture
  <2> QED
    BY <2>1, <2>2, <2>3, <2>4 DEF HwcInv, FrameTypes
<1> QED
  BY <1>1, <1>2 DEF HwcInv

LEMMA HwcFindWorkKeeps ==
  ASSUME HwcInv, Hwc!HwcConstants, Hwc!FindWork
  PROVE  HwcInv'
<1>1. /\ FrameTypes' /\ StackShows' /\ ListFits' /\ ListTypes' /\ Prepared'
      /\ Composed'
      /\ PictureHasAll'
      /\ ColoursListed'
      /\ SteadyFrame'
      /\ Hwc!SwitchesTakeEffect'
  BY SMT
    DEF HwcInv, Hwc!FindWork, FrameTypes, StackShows, ListFits, ListTypes,
        Prepared, Composed, PictureHasAll, ColoursListed, SteadyFrame,
        Hwc!SwitchesTakeEffect, Hwc!screen, Hwc!work, Hwc!Formats,
        Hwc!Entries, Buffer, Hwc!Showing, Listed, Hwc!Nothing, Hwc!Drawn,
        Hwc!NoPicture, Hwc!Covered, Hwc!Of, Hwc!Opaque, Hwc!Behind
<1> QED
  BY <1>1 DEF HwcInv

LEMMA HwcCreateWorkListKeeps ==
  ASSUME HwcInv, Hwc!HwcConstants, Hwc!CreateWorkList
  PROVE  HwcInv'
<1>1. /\ StackShows' /\ ListFits' /\ ListTypes' /\ Prepared' /\ Composed'
      /\ PictureHasAll'
      /\ ColoursListed'
      /\ SteadyFrame'
      /\ Hwc!SwitchesTakeEffect'
  BY SMT
    DEF HwcInv, Hwc!CreateWorkList, FrameTypes, StackShows, ListFits,
        ListTypes, Prepared, Composed, PictureHasAll, ColoursListed,
        SteadyFrame, Hwc!SwitchesTakeEffect, Hwc!screen, Hwc!Formats,
        Hwc!Entries, Buffer, Hwc!Showing, Listed, Hwc!Nothing, Hwc!Drawn,
        Hwc!NoPicture, Hwc!Covered, Hwc!Of, Hwc!Opaque, Hwc!Behind
<1>2. FrameTypes'
  <2>1. /\ lit' \in BOOLEAN
        /\ colours' \in BOOLEAN
        /\ regionsDirty' \in BOOLEAN
        /\ listDirty' \in BOOLEAN /\ fbComp' \in BOOLEAN /\ ovComp' \in BOOLEAN
        /\ steady' \in BOOLEAN /\ broken' \in BOOLEAN
    BY Zenon
      DEF HwcInv, Hwc!CreateWorkList, FrameTypes, Hwc!screen, Hwc!Formats,
          Hwc!Entries, Buffer
  <2> QED
    BY <2>1, SMT
      DEF HwcInv, Hwc!CreateWorkList, FrameTypes, Hwc!screen, Hwc!Formats,
          Hwc!Entries, Buffer
<1> QED
  BY <1>1, <1>2 DEF HwcInv

LEMMA HwcSetGeometryKeeps ==
  ASSUME HwcInv, Hwc!SetGeometry
  PROVE  HwcInv'
<1>1. /\ pictureMain = "geometry"
      /\ UNCHANGED <<lit, onScreen, format, regionsDirty, stack>>
      /\ UNCHANGED <<fbComp, ovComp, swapped, picture, colours, listDirty>>
      /\ UNCHANGED <<setter, steady, broken>>
  BY DEF Hwc!SetGeometry, Hwc!screen
<1>2. /\ list \in Seq(Hwc!Entries) /\ stack \in Seq(Layers)
      /\ Len(list) \in Nat /\ Len(stack) \in Nat /\ Len(list) <= Len(stack)
      /\ \A i \in 1 .. Len(list) : stack[i] \in GpuOnly => list[i].skip
      /\ \A i \in 1 .. Len(list) : list[i].type = "framebuffer"
  BY <1>1 DEF HwcInv, FrameTypes, ListFits, ListTypes
<1>3. CASE Len(list) < Len(stack)
  <2> DEFINE skips == Hwc!Skips(stack[Len(list) + 1])
             entry == [skip |-> skips, type |-> "framebuffer"]
  <2>1. pictureMain' = pictureMain /\ list' = Append(list, entry)
    BY <1>3 DEF Hwc!SetGeometry
  <2>2. /\ skips \in BOOLEAN /\ (colours => skips)
        /\ stack[Len(list) + 1] \in GpuOnly => skips
    BY Zenon DEF Hwc!Skips
  <2>3. /\ entry \in Hwc!Entries
        /\ entry.skip = skips
        /\ entry.type = "framebuffer"
    BY <2>2 DEF Hwc!Entries
  <2> HIDE DEF skips, entry
  <2>4. /\ list' \in Seq(Hwc!Entries) /\ Len(list') = Len(list) + 1
        /\ \A i \in 1 .. Len(list) : list'[i] = list[i]
        /\ list'[Len(list) + 1] = entry
    BY <1>2, <2>1, <2>3
  <2>5. FrameTypes'
    BY <1>1, <2>1, <2>4 DEF HwcInv, FrameTypes
  <2>6. ListFits'
    BY <1>1, <1>2, <1>3, <2>1, <2>2, <2>3, <2>4 DEF ListFits, Listed
  <2>7. ListTypes'
    BY <1>1, <1>2, <2>1, <2>3, <2>4 DEF ListTypes
  <2>8. ColoursListed'
    <3> SUFFICES ASSUME setter # "invalidate", ~listDirty, colours,
                        NEW i \in 1 .. Len(list) + 1
                 PROVE  list'[i].skip
      BY <1>1, <2>4 DEF ColoursListed
    <3>1. \A j \in 1 .. Len(list) : list[j].skip
      BY DEF HwcInv, ColoursListed
    <3>2. CASE i = Len(list) + 1
      BY <2>2, <2>3, <2>4, <3>2
    <3>3. CASE i \in 1 .. Len(list)
      BY <2>4, <3>1, <3>3
    <3> QED
      BY <1>2, <3>2, <3>3
  <2>9. /\ StackShows' /\ Prepared' /\ Composed' /\ PictureHasAll'
        /\ SteadyFrame' /\ Hwc!SwitchesTakeEffect'
    BY <1>1, <2>1
      DEF HwcInv, StackShows, Prepared, Composed, PictureHasAll,
          SteadyFrame, Hwc!SwitchesTakeEffect, Hwc!Showing, Hwc!Covered
  <2> QED
    BY <2>5, <2>6, <2>7, <2>8, <2>9 DEF HwcInv
<1>4. CASE ~(Len(list) < Len(stack))
  <2>1. pictureMain' = "prepare" /\ list' = list
    BY <1>4 DEF Hwc!SetGeometry
  <2>2. FrameTypes' /\ ColoursListed' /\ Prepared'
    BY <1>1, <2>1 DEF HwcInv, FrameTypes, ColoursListed, Prepared
  <2>3. ListFits' /\ ListTypes'
    BY <1>1, <1>2, <1>4, <2>1 DEF ListFits, ListTypes, Listed
  <2>4. /\ StackShows' /\ Composed' /\ PictureHasAll'
        /\ SteadyFrame' /\ Hwc!SwitchesTakeEffect'
    BY <1>1, <2>1
      DEF HwcInv, StackShows, Composed, PictureHasAll, SteadyFrame,
          Hwc!SwitchesTakeEffect, Hwc!Showing, Hwc!Covered
  <2> QED
    BY <2>2, <2>3, <2>4 DEF HwcInv
<1> QED
  BY <1>3, <1>4


LEMMA HwcPrepareKeeps ==
  ASSUME HwcInv, Hwc!Prepare
  PROVE  HwcInv'
<1>1. /\ pictureMain = "prepare" /\ pictureMain' = "repaint"
      /\ UNCHANGED <<lit, onScreen, format, regionsDirty, stack, swapped>>
      /\ UNCHANGED <<picture, colours, listDirty, fullRepaint>>
      /\ UNCHANGED <<asked, setter, steady>>
  BY DEF Hwc!Prepare, Hwc!screen
<1>2. /\ list' \in Seq(Hwc!Entries) /\ Len(list') = Len(list)
      /\ \A i \in 1 .. Len(list) :
           /\ list'[i].skip = list[i].skip
           /\ list[i].skip \/ Len(list) >= 2 => list'[i].type = "framebuffer"
      /\ ~broken' => Hwc!Count(list')
      /\ broken' \in BOOLEAN /\ fbComp' \in BOOLEAN /\ ovComp' \in BOOLEAN
  <2>1. CASE broken' = TRUE /\ UNCHANGED <<list, fbComp, ovComp>>
    BY <2>1 DEF HwcInv, FrameTypes, ListTypes
  <2>2. ASSUME NEW types \in [DOMAIN list -> {"framebuffer", "overlay"}],
               Hwc!Chosen(Hwc!Forced(list), Answer(types)),
               list' = Hwc!Settled(list, Answer(types)), Hwc!Count(list'),
               broken' = broken
        PROVE  /\ list' \in Seq(Hwc!Entries) /\ Len(list') = Len(list)
               /\ \A i \in 1 .. Len(list) :
                    /\ list'[i].skip = list[i].skip
                    /\ list[i].skip \/ Len(list) >= 2 =>
                         list'[i].type = "framebuffer"
    BY <1>1, <2>2, SettledKeeps
  <2>3. Hwc!Count(list') => fbComp' \in BOOLEAN /\ ovComp' \in BOOLEAN
    BY Zenon DEF Hwc!Count
  <2>4. broken \in BOOLEAN
    BY DEF HwcInv, FrameTypes
  <2> QED
    BY <2>1, <2>2, <2>3, <2>4 DEF Hwc!Prepare, Answer
<1>3. FrameTypes'
  BY <1>1, <1>2 DEF HwcInv, FrameTypes
<1>4. StackShows' /\ ListFits' /\ ListTypes'
  BY <1>1, <1>2
    DEF HwcInv, FrameTypes, StackShows, ListFits, ListTypes, Listed,
        Hwc!Showing, Hwc!Covered
<1>5. Prepared'
  <2>1. DOMAIN list' = 1 .. Len(list')
    BY <1>2
  <2> QED
    BY <1>2, <2>1, Zenon DEF Prepared, Hwc!Count
<1>6. Composed' /\ ColoursListed' /\ SteadyFrame'
  BY <1>1, <1>2 DEF HwcInv, Composed, ColoursListed, SteadyFrame
<1>7. PictureHasAll'
  BY <1>1 DEF HwcInv, PictureHasAll, Hwc!Showing, Hwc!Covered
<1>8. Hwc!SwitchesTakeEffect'
  BY <1>1, <1>2 DEF HwcInv, Hwc!SwitchesTakeEffect, SteadyFrame
<1> QED
  BY <1>3, <1>4, <1>5, <1>6, <1>7, <1>8 DEF HwcInv


LEMMA HwcTakeRepaintKeeps ==
  ASSUME HwcInv, Hwc!HwcConstants, Hwc!TakeRepaint
  PROVE  HwcInv'
<1>1. /\ FrameTypes' /\ StackShows' /\ ListFits' /\ ListTypes' /\ Prepared'
      /\ Composed'
      /\ PictureHasAll'
      /\ ColoursListed'
      /\ SteadyFrame'
      /\ Hwc!SwitchesTakeEffect'
  BY SMT
    DEF HwcInv, Hwc!TakeRepaint, FrameTypes, StackShows, ListFits, ListTypes,
        Prepared, Composed, PictureHasAll, ColoursListed, SteadyFrame,
        Hwc!SwitchesTakeEffect, Hwc!screen, Hwc!work, Hwc!Formats,
        Hwc!Entries, Buffer, Hwc!Showing, Listed, Hwc!Nothing, Hwc!Drawn,
        Hwc!NoPicture, Hwc!Covered, Hwc!Of, Hwc!Opaque, Hwc!Behind
<1> QED
  BY <1>1 DEF HwcInv

LEMMA HwcDoCompositionKeeps ==
  ASSUME HwcInv, Hwc!DoComposition
  PROVE  HwcInv'
<1>1. /\ pictureMain = "compose" /\ pictureMain' = "post"
      /\ UNCHANGED <<lit, onScreen, format, regionsDirty, stack>>
      /\ UNCHANGED <<list, fbComp, ovComp, picture, colours, listDirty>>
      /\ UNCHANGED <<setter, steady>>
  BY DEF Hwc!DoComposition, Hwc!screen
<1>2. Hwc!Drawn \in SUBSET Layers /\ Hwc!Drawn' = Hwc!Drawn
  BY <1>1 DEF HwcInv, FrameTypes, Hwc!Drawn, Hwc!Of, Hwc!Range
<1>3. /\ colours \in BOOLEAN /\ swapped = Hwc!Nothing /\ broken \in BOOLEAN
      /\ lit \in BOOLEAN /\ fbComp \in BOOLEAN
  BY <1>1 DEF HwcInv, FrameTypes, Composed
<1>4. /\ swapped' \in Buffer /\ broken' \in BOOLEAN
      /\ broken => broken'
      /\ ~broken' => swapped'.layers = IF lit /\ fbComp THEN Hwc!Drawn ELSE {}
      /\ ~broken' /\ swapped'.layers # {} => swapped'.colours = colours
  <2>1. CASE /\ lit
             /\ fbComp
             /\ swapped' = [layers |-> Hwc!Drawn, colours |-> colours]
             /\ UNCHANGED broken
    BY <1>2, <1>3, <2>1 DEF Buffer
  <2>2. CASE /\ lit /\ fbComp /\ broken' = TRUE
             /\ swapped' = IF colours THEN [layers |-> {}, colours |-> TRUE]
                         ELSE swapped
    BY <1>3, <2>2 DEF Buffer, Hwc!Nothing
  <2>3. CASE ~(lit /\ fbComp) /\ UNCHANGED <<swapped, broken>>
    <3>1. swapped' = [layers |-> {}, colours |-> FALSE] /\ broken' = broken
      BY <1>3, <2>3 DEF Hwc!Nothing
    <3> QED
      BY <1>3, <2>3, <3>1 DEF Buffer
  <2> QED
    BY <2>1, <2>2, <2>3 DEF Hwc!DoComposition
<1>5. FrameTypes'
  BY <1>1, <1>4 DEF HwcInv, FrameTypes
<1>6. StackShows' /\ ListFits' /\ ListTypes' /\ ColoursListed'
  BY <1>1
    DEF HwcInv, StackShows, ListFits, Listed, ListTypes, ColoursListed,
        Hwc!Showing, Hwc!Covered
<1>7. Prepared' /\ Composed' /\ SteadyFrame'
  BY <1>1, <1>2, <1>4 DEF HwcInv, Prepared, Composed, SteadyFrame
<1>8. PictureHasAll' /\ Hwc!SwitchesTakeEffect'
  BY <1>1
    DEF HwcInv, PictureHasAll, Hwc!SwitchesTakeEffect, Hwc!Showing,
        Hwc!Covered
<1> QED
  BY <1>5, <1>6, <1>7, <1>8 DEF HwcInv


LEMMA HwcPostFramebufferKeeps ==
  ASSUME HwcInv, Hwc!PostFramebuffer
  PROVE  HwcInv'
<1>1. /\ pictureMain = "post" /\ pictureMain' = "idle"
      /\ UNCHANGED <<lit, onScreen, format, regionsDirty, stack>>
      /\ UNCHANGED <<list, fbComp, ovComp, swapped, colours, listDirty>>
      /\ UNCHANGED <<setter, steady, broken>>
  BY DEF Hwc!PostFramebuffer, Hwc!screen
<1> DEFINE over == Hwc!Of("overlay")
           given == IF Hwc!Panned \/ ovComp THEN swapped ELSE Hwc!Nothing
<1>2. picture' = [over |-> over, drawn |-> given, steady |-> steady,
                  broken |-> broken]
  BY DEF Hwc!PostFramebuffer
<1>3. /\ over \in SUBSET Layers /\ given \in Buffer
      /\ swapped \in Buffer /\ Hwc!Nothing.layers = {}
      /\ given = swapped \/ given.layers = {}
  BY DEF HwcInv, FrameTypes, Hwc!Of, Hwc!Nothing, Buffer
<1>4. /\ stack \in Seq(Layers) /\ list \in Seq(Hwc!Entries)
      /\ Len(list) = Len(stack) /\ Len(list) \in Nat
      /\ DOMAIN stack = 1 .. Len(list) /\ DOMAIN list = 1 .. Len(list)
      /\ Hwc!Range(stack) = Hwc!Showing
      /\ \A i \in 1 .. Len(list) : stack[i] \in GpuOnly => list[i].skip
      /\ \A i \in 1 .. Len(list) :
           list[i].type \in {"framebuffer", "overlay"}
      /\ \A i \in 1 .. Len(list) :
           list[i].skip \/ Len(list) >= 2 => list[i].type = "framebuffer"
  <2>1. stack \in Seq(Layers) /\ list \in Seq(Hwc!Entries)
    BY DEF HwcInv, FrameTypes
  <2>2. /\ Len(list) = Len(stack) /\ Hwc!Range(stack) = Hwc!Showing
        /\ \A i \in 1 .. Len(list) : stack[i] \in GpuOnly => list[i].skip
        /\ \A i \in 1 .. Len(list) :
             list[i].skip \/ Len(list) >= 2 => list[i].type = "framebuffer"
    BY <1>1 DEF HwcInv, StackShows, ListFits, Listed, ListTypes
  <2>3. /\ Len(list) \in Nat /\ DOMAIN list = 1 .. Len(list)
        /\ \A i \in 1 .. Len(list) :
             list[i].type \in {"framebuffer", "overlay"}
    BY <2>1, EntriesHave
  <2> QED
    BY <2>1, <2>2, <2>3
<1>5. ~broken =>
        /\ fbComp <=> \/ list = <<>>
                      \/ \E i \in 1 .. Len(list) : list[i].type = "framebuffer"
        /\ ovComp <=> \E i \in 1 .. Len(list) : list[i].type = "overlay"
        /\ swapped.layers = IF lit /\ fbComp THEN Hwc!Drawn ELSE {}
  BY <1>1 DEF HwcInv, Prepared, Composed
<1>6. /\ over = {stack[i] : i \in {j \in 1 .. Len(list) :
                                     list[j].type = "overlay"}}
      /\ Hwc!Of("framebuffer") = {stack[i] : i \in {j \in 1 .. Len(list) :
                                     list[j].type = "framebuffer"}}
      /\ Hwc!Range(stack) = {stack[i] : i \in 1 .. Len(list)}
  BY <1>4 DEF Hwc!Of, Hwc!Range
<1> HIDE DEF over, given
<1>7. ASSUME lit, ~broken
      PROVE  \/ over = {} /\ given.layers = Hwc!Showing
             \/ /\ over = Hwc!Showing /\ given.layers = {}
                /\ Hwc!Cardinality(over) = 1 /\ over \cap GpuOnly = {}
  <2>1. CASE list = <<>>
    <3>1. Len(list) = 0 /\ fbComp /\ ~ovComp
      BY <1>4, <1>5, <1>7, <2>1
    <3>2. over = {} /\ Hwc!Drawn = Hwc!Showing /\ given = swapped
      BY <1>4, <1>6, <2>1, <3>1 DEF Hwc!Drawn, given, Hwc!Panned
    <3> QED
      BY <1>5, <1>7, <3>1, <3>2
  <2>2. CASE list # <<>> /\ \A i \in 1 .. Len(list) :
                               list[i].type = "framebuffer"
    <3>1. fbComp /\ ~ovComp
      BY <1>4, <1>5, <1>7, <2>2
    <3>2. over = {} /\ Hwc!Drawn = Hwc!Showing /\ given = swapped
      BY <1>4, <1>6, <2>2, <3>1 DEF Hwc!Drawn, given, Hwc!Panned
    <3> QED
      BY <1>5, <1>7, <3>1, <3>2
  <2>3. CASE \E i \in 1 .. Len(list) : list[i].type # "framebuffer"
    <3>1. Len(list) = 1 /\ list[1].type = "overlay" /\ ~list[1].skip
      BY <1>4, <2>3
    <3>2. ~fbComp /\ list # <<>>
      BY <1>5, <1>7, <3>1
    <3>3. /\ over = {stack[1]}
          /\ Hwc!Showing = {stack[1]}
          /\ stack[1] \notin GpuOnly
      BY <1>4, <1>6, <3>1
    <3>4. given.layers = {}
      BY <1>3, <1>5, <1>7, <3>2 DEF given, Hwc!Panned
    <3>5. Hwc!Cardinality(over) = 1
      BY <3>3, FS_Singleton, SameCardinality
    <3> QED
      BY <3>3, <3>4, <3>5
  <2> QED
    BY <2>1, <2>2, <2>3
<1>8. /\ picture'.over = over /\ picture'.drawn = given
      /\ picture'.steady = steady /\ picture'.broken = broken
  BY <1>2
<1>9. PictureHasAll'
  <2>1. Hwc!Showing' = Hwc!Showing
    BY <1>1 DEF Hwc!Showing, Hwc!Covered
  <2> QED
    BY <1>1, <1>7, <1>8, <2>1 DEF PictureHasAll
<1>10. Hwc!SwitchesTakeEffect'
  <2> SUFFICES ASSUME steady, ~broken
               PROVE  /\ colours => over = {}
                      /\ given.layers # {} => given.colours = colours
    BY <1>1, <1>8 DEF Hwc!SwitchesTakeEffect
  <2>1. /\ ~listDirty /\ setter = "idle"
        /\ swapped.layers # {} => swapped.colours = colours
    BY <1>1 DEF HwcInv, SteadyFrame
  <2>2. colours => \A i \in 1 .. Len(list) : list[i].skip
    BY <2>1 DEF HwcInv, ColoursListed
  <2> QED
    BY <1>3, <1>4, <1>6, <2>1, <2>2
<1>11. FrameTypes'
  <2>1. steady \in BOOLEAN /\ broken \in BOOLEAN
    BY DEF HwcInv, FrameTypes
  <2>2. picture' \in [over : SUBSET Layers, drawn : Buffer, steady : BOOLEAN,
                      broken : BOOLEAN]
    BY <1>2, <1>3, <2>1
  <2> QED
    BY <1>1, <2>2 DEF HwcInv, FrameTypes
<1>12. StackShows' /\ ListFits' /\ ListTypes' /\ ColoursListed'
  BY <1>1
    DEF HwcInv, StackShows, ListFits, Listed, ListTypes, ColoursListed,
        Hwc!Showing, Hwc!Covered
<1>13. Prepared' /\ Composed' /\ SteadyFrame'
  BY <1>1 DEF HwcInv, Prepared, Composed, SteadyFrame
<1> QED
  BY <1>9, <1>10, <1>11, <1>12, <1>13 DEF HwcInv


LEMMA HwcStutterKeeps ==
  ASSUME HwcInv, Hwc!HwcConstants, UNCHANGED Hwc!frameVars
  PROVE  HwcInv'
<1>1. /\ FrameTypes' /\ StackShows' /\ ListFits' /\ ListTypes' /\ Prepared'
      /\ Composed'
      /\ PictureHasAll'
      /\ ColoursListed'
      /\ SteadyFrame'
      /\ Hwc!SwitchesTakeEffect'
  BY SMT
    DEF HwcInv, Hwc!frameVars, FrameTypes, StackShows, ListFits, ListTypes,
        Prepared, Composed, PictureHasAll, ColoursListed, SteadyFrame,
        Hwc!SwitchesTakeEffect, Hwc!Formats, Hwc!Entries, Buffer, Hwc!Showing,
        Listed, Hwc!Nothing, Hwc!Drawn, Hwc!NoPicture, Hwc!Covered, Hwc!Of,
        Hwc!Opaque, Hwc!Behind
<1> QED
  BY <1>1 DEF HwcInv

LEMMA HwcStep ==
  ASSUME Hwc!HwcConstants, HwcInv, [Hwc!Next]_Hwc!frameVars
  PROVE  HwcInv'
BY HwcSwitchKeeps, HwcInvalidateHwcGeometryKeeps, HwcRepaintEverythingKeeps,
   HwcSetPowerModeKeeps, HwcInvalidateKeeps, HwcRebuildLayerStacksKeeps,
   HwcFindWorkKeeps, HwcCreateWorkListKeeps, HwcSetGeometryKeeps,
   HwcPrepareKeeps, HwcTakeRepaintKeeps, HwcDoCompositionKeeps,
   HwcPostFramebufferKeeps, HwcStutterKeeps
  DEF Hwc!Next

LEMMA HwcInitially ==
  ASSUME Hwc!HwcConstants, Hwc!Init
  PROVE  HwcInv
<1>1. FrameTypes
  <2>1. /\ Hwc!Nothing \in Buffer
        /\ Hwc!NoPicture \in [over : SUBSET Layers, drawn : Buffer,
                          steady : BOOLEAN, broken : BOOLEAN]
    BY DEF Buffer, Hwc!Nothing, Hwc!NoPicture
  <2>2. stack \in Seq(Layers) /\ list \in Seq(Hwc!Entries)
    BY DEF Hwc!Init
  <2>3. format \in [Layers -> Hwc!Formats]
    BY DEF Hwc!Init
  <2>4. /\ lit \in BOOLEAN /\ colours \in BOOLEAN /\ regionsDirty \in BOOLEAN
        /\ listDirty \in BOOLEAN /\ fbComp \in BOOLEAN /\ ovComp \in BOOLEAN
        /\ steady \in BOOLEAN /\ broken \in BOOLEAN
        /\ onScreen \subseteq Layers /\ setter = "idle" /\ pictureMain = "idle"
        /\ swapped = Hwc!Nothing /\ picture = Hwc!NoPicture
    BY DEF Hwc!Init
  <2> QED
    BY <2>1, <2>2, <2>3, <2>4, Zenon DEF FrameTypes
<1>2. StackShows
  BY DEF Hwc!Init, StackShows, Hwc!Showing, Hwc!Range
<1>3. ListFits /\ ListTypes /\ Prepared /\ ColoursListed /\ SteadyFrame
  BY DEF Hwc!Init, ListFits, Listed, ListTypes, Prepared, ColoursListed,
       SteadyFrame, Hwc!Nothing
<1>4. Composed /\ PictureHasAll /\ Hwc!SwitchesTakeEffect
  BY DEF Hwc!Init, Composed, PictureHasAll, Hwc!SwitchesTakeEffect,
       Hwc!NoPicture
<1> QED
  BY <1>1, <1>2, <1>3, <1>4 DEF HwcInv

-----------------------------------------------------------------------------
(* Videos.  The list has a flag for every layer whose buffer was YUV when   *)
(* it was made, and unless regions or list are dirty no layer has got or    *)
(* lost its alpha since.                                                    *)
Kept ==
  /\ ~regionsDirty
  /\ \/ ~listDirty
     \/ pictureMain \in {"geometry", "prepare", "repaint", "compose", "post"}

VideoInv ==
  /\ listed \in [Layers -> Hwc!Formats]
  /\ Listed \/ pictureMain = "geometry" =>
       \A i \in 1 .. Len(list) : listed[stack[i]] = "yuv" => list[i].skip
  /\ pictureMain = "geometry" => listed = format
  /\ Kept => \A l \in Layers : Hwc!Opaque(listed[l]) = Hwc!Opaque(format[l])
  /\ pictureMain \notin {"idle", "stacks"} => picture.over = {}
  /\ \A l \in picture.over : format[l] = "yuv" => listed[l] = "rgbx"

LEMMA VideoIdle ==
  ASSUME HwcInv, VideoInv,
         UNCHANGED <<format, listed, stack, list, picture>>,
         Listed' \/ pictureMain' = "geometry" =>
           Listed \/ pictureMain = "geometry",
         pictureMain' = "geometry" => pictureMain = "geometry",
         pictureMain \in {"idle", "stacks"} =>
           pictureMain' \in {"idle", "stacks"},
         Kept' => Kept
  PROVE  VideoInv'
BY DEF VideoInv, Hwc!Opaque

LEMMA VideoStep ==
  ASSUME Hwc!HwcConstants, HwcInv, VideoInv, [Hwc!Next]_Hwc!frameVars
  PROVE  VideoInv'
<1>1. CASE Hwc!Switch \/ Hwc!InvalidateHwcGeometry \/ Hwc!RepaintEverything
  BY <1>1, VideoIdle
    DEF HwcInv, FrameTypes, Hwc!Switch, Hwc!InvalidateHwcGeometry,
        Hwc!RepaintEverything, Hwc!screen, Hwc!work, Listed, Kept
<1>2. CASE Hwc!SetPowerMode
  BY <1>2
    DEF Hwc!SetPowerMode, Hwc!NoPicture, Hwc!BetweenMessages, VideoInv, Listed,
        Kept
<1>3. CASE Hwc!Invalidate
  <2>1. /\ pictureMain \in {"idle", "stacks"} /\ pictureMain' \in {"idle", "stacks"}
        /\ UNCHANGED <<stack, list, listed>> /\ picture'.over = {}
    BY <1>3 DEF Hwc!Invalidate, Hwc!BetweenMessages, Hwc!NoPicture
  <2>2. Kept' => Kept /\ \A l \in Layers :
                           Hwc!Opaque(format'[l]) = Hwc!Opaque(format[l])
    <3>1. format \in [Layers -> Hwc!Formats] /\ onScreen \subseteq Layers
      BY DEF HwcInv, FrameTypes
    <3>2. CASE \E l \in Layers :
                 \E kept \in {onScreen, onScreen \cup {l}, onScreen \ {l}} :
                   Hwc!Transact(kept)
      BY <2>1, <3>2 DEF Hwc!Transact, Kept
    <3>3. CASE \E l \in onScreen : \E f \in Buffers[l] : Hwc!PageFlip(l, f)
      <4>1. PICK l \in onScreen, f \in Hwc!Formats : Hwc!PageFlip(l, f)
        BY <3>1, <3>3 DEF Hwc!HwcConstants
      <4>2. ~regionsDirty' =>
              ~regionsDirty /\ Hwc!Opaque(f) = Hwc!Opaque(format[l])
        <5> DEFINE before == Hwc!Opaque(format[l])
                   after == Hwc!Opaque(f)
        <5>1. regionsDirty' = (regionsDirty \/ after # before)
          BY <4>1 DEF Hwc!PageFlip
        <5> HIDE DEF before, after
        <5>2. ~regionsDirty' => ~regionsDirty /\ after = before
          BY <5>1
        <5> QED
          BY <5>2 DEF before, after
      <4>3. format' = [format EXCEPT ![l] = f] /\ UNCHANGED listDirty
        BY <4>1 DEF Hwc!PageFlip
      <4>4. Kept' => Kept /\ Hwc!Opaque(f) = Hwc!Opaque(format[l])
        BY <2>1, <4>2, <4>3 DEF Kept
      <4>5. \A k \in Layers : format'[k] = IF k = l THEN f ELSE format[k]
        BY <3>1, <4>3
      <4> QED
        BY <4>4, <4>5 DEF Hwc!Opaque
    <3>4. CASE UNCHANGED <<onScreen, format, listDirty, regionsDirty>>
      BY <2>1, <3>4 DEF Kept
    <3> QED
      BY <1>3, <3>2, <3>3, <3>4 DEF Hwc!Invalidate
  <2> QED
    BY <2>1, <2>2 DEF VideoInv, Listed, Hwc!Opaque
<1>4. CASE Hwc!RebuildLayerStacks
  <2>1. /\ pictureMain = "stacks" /\ pictureMain' = "list"
        /\ UNCHANGED <<format, list, listed>> /\ picture'.over = {}
        /\ ~listDirty' => ~listDirty /\ ~regionsDirty /\ UNCHANGED stack
    BY <1>4 DEF Hwc!RebuildLayerStacks, Hwc!NoPicture
  <2> QED
    BY <2>1 DEF VideoInv, Listed, Kept, Hwc!Opaque
<1>5. CASE Hwc!FindWork
  BY <1>5, VideoIdle
    DEF HwcInv, FrameTypes, Hwc!FindWork, Hwc!screen, Hwc!work, Listed, Kept
<1>6. CASE Hwc!CreateWorkList
  <2>1. /\ UNCHANGED <<format, picture>> /\ listed' = format /\ list' = <<>>
        /\ pictureMain = "clear"
    BY <1>6 DEF Hwc!CreateWorkList, Hwc!screen
  <2>2. picture'.over = {}
    BY <2>1 DEF VideoInv
  <2> QED
    BY <2>1, <2>2 DEF VideoInv, HwcInv, FrameTypes, Hwc!Opaque
<1>7. CASE Hwc!SetGeometry
  <2>1. /\ pictureMain = "geometry" /\ pictureMain' \in {"geometry", "prepare"}
        /\ UNCHANGED <<format, listed, stack, picture, regionsDirty, listDirty>>
    BY <1>7 DEF Hwc!SetGeometry, Hwc!screen
  <2>2. list \in Seq(Hwc!Entries) /\ Len(list) \in Nat
    BY DEF HwcInv, FrameTypes
  <2>3. \A i \in 1 .. Len(list') : listed[stack[i]] = "yuv" => list'[i].skip
    <3>1. CASE list' = list
      BY <2>1, <3>1 DEF VideoInv
    <3>2. CASE list' = Append(list, [skip |-> Hwc!Skips(stack[Len(list) + 1]),
                                     type |-> "framebuffer"])
      <4> DEFINE skips == Hwc!Skips(stack[Len(list) + 1])
                 entry == [skip |-> skips, type |-> "framebuffer"]
      <4>1. listed[stack[Len(list) + 1]] = "yuv" => skips
        BY <2>1, Zenon DEF VideoInv, Hwc!Skips
      <4>2. entry.skip = skips
        OBVIOUS
      <4> HIDE DEF skips, entry
      <4>3. /\ Len(list') = Len(list) + 1 /\ list'[Len(list) + 1] = entry
            /\ \A i \in 1 .. Len(list) : list'[i] = list[i]
        BY <2>2, <3>2 DEF entry, skips
      <4> QED
        BY <2>1, <2>2, <4>1, <4>2, <4>3 DEF VideoInv
    <3> QED
      BY <1>7, <3>1, <3>2 DEF Hwc!SetGeometry
  <2> QED
    BY <2>1, <2>3 DEF VideoInv, Kept, Hwc!Opaque
<1>8. CASE Hwc!Prepare
  <2>1. /\ pictureMain = "prepare" /\ pictureMain' = "repaint"
        /\ UNCHANGED <<format, listed, stack, picture, regionsDirty, listDirty>>
    BY <1>8 DEF Hwc!Prepare, Hwc!screen
  <2>2. Len(list') = Len(list) /\ \A i \in 1 .. Len(list) : list'[i].skip = list[i].skip
    BY <1>8, <2>1, SettledKeeps DEF Hwc!Prepare, Answer
  <2> QED
    BY <2>1, <2>2 DEF VideoInv, Listed, Kept, Hwc!Opaque
<1>9. CASE Hwc!TakeRepaint \/ Hwc!DoComposition
  BY <1>9, VideoIdle
    DEF HwcInv, FrameTypes, Hwc!TakeRepaint, Hwc!DoComposition, Hwc!screen,
        Hwc!work, Listed, Kept
<1>10. CASE Hwc!PostFramebuffer
  <2>1. /\ pictureMain = "post" /\ pictureMain' = "idle"
        /\ UNCHANGED <<format, listed, stack, list, regionsDirty, listDirty>>
        /\ picture'.over = Hwc!Of("overlay")
    BY <1>10 DEF Hwc!PostFramebuffer, Hwc!screen
  <2>2. /\ \A i \in 1 .. Len(list) : list[i].skip => list[i].type = "framebuffer"
        /\ list \in Seq(Hwc!Entries) /\ stack \in Seq(Layers)
        /\ format \in [Layers -> Hwc!Formats] /\ ~regionsDirty
    BY <2>1 DEF HwcInv, FrameTypes, ListTypes, StackShows
  <2>3. ASSUME NEW l \in Hwc!Of("overlay"), format[l] = "yuv"
        PROVE  listed[l] = "rgbx"
    <3>1. PICK i \in 1 .. Len(list) : i \in 1 .. Len(stack) /\ stack[i] = l
                                      /\ list[i].type = "overlay"
      BY <2>2, <2>3 DEF Hwc!Of
    <3>2. l \in Layers /\ listed[l] # "yuv" /\ listed[l] \in Hwc!Formats
      BY <2>1, <2>2, <3>1 DEF VideoInv, Listed
    <3>3. Hwc!Opaque(listed[l]) = Hwc!Opaque(format[l])
      BY <2>1, <2>2, <3>2 DEF VideoInv, Kept
    <3> QED
      BY <2>3, <3>2, <3>3 DEF Hwc!Opaque, Hwc!Formats
  <2> QED
    BY <2>1, <2>3 DEF VideoInv, Listed, Kept, Hwc!Opaque
<1>11. CASE UNCHANGED Hwc!frameVars
  BY <1>11, VideoIdle DEF Hwc!frameVars, Listed, Kept
<1> QED
  BY <1>1, <1>2, <1>3, <1>4, <1>5, <1>6, <1>7, <1>8, <1>9, <1>10, <1>11
    DEF Hwc!Next

LEMMA VideoInitially ==
  ASSUME Hwc!HwcConstants, Hwc!Init
  PROVE  VideoInv
BY DEF Hwc!Init, VideoInv, Hwc!NoPicture, Hwc!Opaque

LEMMA WholeOfBoth == HwcInv /\ VideoInv => PictureIsWhole
BY DEF HwcInv, VideoInv, PictureHasAll, PictureIsWhole, Hwc!PictureIsWhole

-----------------------------------------------------------------------------
(***************************************************************************)
(* The theorems, for a part on its own and in the instance of five parts.  *)
(***************************************************************************)

(* A step of the instance is a step of each part, or leaves it as it is.    *)
LEMMA SyncAlone ==
  /\ DisplayInit => Sync!Init
  /\ [DisplayNext]_displayVars => [Sync!Next]_Sync!vars
<1>1. UNCHANGED syncPart => UNCHANGED Sync!vars
  BY DEF syncPart, Sync!vars, Sync!mainVars, Sync!syncVars, Sync!hwcVars
<1> QED
  BY <1>1, Zenon
    DEF DisplayInit, DisplayNext, displayVars, InFrames, InVsync, InChanges,
        InLayers, InPictures

LEMMA TransAlone ==
  /\ DisplayInit => Trans!Init
  /\ [DisplayNext]_displayVars => [Trans!Next]_Trans!vars
<1>1. UNCHANGED transPart => UNCHANGED Trans!vars
  BY DEF transPart, Trans!vars, Trans!callVars, Trans!pendingVars,
       Trans!layerVars, Trans!displayVars
<1> QED
  BY <1>1, Zenon
    DEF DisplayInit, DisplayNext, displayVars, InFrames, InVsync, InChanges,
        InLayers, InPictures

LEMMA HwcAlone ==
  /\ DisplayInit => Hwc!Init
  /\ [DisplayNext]_displayVars => [Hwc!Next]_Hwc!frameVars
<1>1. UNCHANGED picturePart => UNCHANGED Hwc!frameVars
  BY DEF picturePart, Hwc!frameVars
<1> QED
  BY <1>1, Zenon
    DEF DisplayInit, DisplayNext, displayVars, InFrames, InVsync, InChanges,
        InLayers, InPictures

(* The vsync of a dark panel is not asked for, whichever thread decides     *)
(* while the screen goes off (setPowerModeInternal makes the vsync          *)
(* unavailable before it tells the HWC, and available after).               *)
THEOREM DarkPanelsAreSilent ==
  /\ Sync!Spec => []SilentInTheDark
  /\ DisplaySpec => []SilentInTheDark
<1>1. Sync!Init => DarkInv
  <2>1. Sync!Init => todo = <<"hwc", "resync", "repaint">>
    BY DEF Sync!Init, Sync!PowerSteps
  <2>2. Sync!Init => todo \in Lighting
    BY <2>1 DEF Lighting
  <2>3. QED
    BY <2>2 DEF Sync!Init, DarkInv, Lights, Sync!PowerModes, Lit, Sync!Dark
<1>2. DarkInv => SilentInTheDark
  BY DEF DarkInv, SilentInTheDark, Sync!SilentInTheDark, Lit
<1>3. Sync!Spec => []SilentInTheDark
  BY <1>1, <1>2, DarkStep, PTL DEF Sync!Spec
<1>4. DisplaySpec => []SilentInTheDark
  BY <1>1, <1>2, DarkStep, SyncAlone, PTL DEF DisplaySpec
<1> QED
  BY <1>3, <1>4

(* No commit has the changes of two animation frames, whoever sent them: a  *)
(* second one waits for mTransactionCV until the first is committed.        *)
THEOREM AnimationsCommitApart ==
  /\ Trans!Spec => []OneAnimationPerCommit
  /\ DisplaySpec => []OneAnimationPerCommit
<1>1. Trans!Init => TransInv
  BY TransInitially, DisplayConstants
<1>2. TransInv /\ [Trans!Next]_Trans!vars => TransInv'
  BY TransStep, DisplayConstants
<1>3. TransInv => OneAnimationPerCommit
  BY TransTells DEF OneAnimationPerCommit
<1>4. Trans!Spec => []OneAnimationPerCommit
  BY <1>1, <1>2, <1>3, PTL DEF Trans!Spec
<1>5. DisplaySpec => []OneAnimationPerCommit
  BY <1>1, <1>2, <1>3, TransAlone, PTL DEF DisplaySpec
<1> QED
  BY <1>4, <1>5

(* Displays of the drawing state, their devices and the ids of the HWC      *)
(* correspond after every handleTransaction, whatever was created,          *)
(* destroyed, plugged or given another surface since the last.              *)
THEOREM DevicesAreThoseDrawn ==
  /\ Trans!Spec => []DevicesFollowDisplays
  /\ DisplaySpec => []DevicesFollowDisplays
<1>1. Trans!Init => TransInv
  BY TransInitially, DisplayConstants
<1>2. TransInv /\ [Trans!Next]_Trans!vars => TransInv'
  BY TransStep, DisplayConstants
<1>3. TransInv => DevicesFollowDisplays
  BY TransTells DEF DevicesFollowDisplays
<1>4. Trans!Spec => []DevicesFollowDisplays
  BY <1>1, <1>2, <1>3, PTL DEF Trans!Spec
<1>5. DisplaySpec => []DevicesFollowDisplays
  BY <1>1, <1>2, <1>3, TransAlone, PTL DEF DisplaySpec
<1> QED
  BY <1>4, <1>5

(* A synchronous caller returns after all it changed is drawn, what it had  *)
(* changed before included.                                                 *)
THEOREM SynchronousCallsAreDrawn ==
  /\ Trans!Spec => SyncTakesEffect
  /\ DisplaySpec => SyncTakesEffect
<1>1. Trans!Init => TransInv
  BY TransInitially, DisplayConstants
<1>2. TransInv /\ [Trans!Next]_Trans!vars => TransInv'
  BY TransStep, DisplayConstants
<1> DEFINE Served ==
      \A c \in Clients :
        caller[c] # "idle" /\ caller'[c] = "idle" /\ request[c].sync
          /\ timeouts' = 0 => Trans!Settled(c)'
<1>3. TransInv /\ [Trans!Next]_Trans!vars => Served
  BY ServedThenReturns, DisplayConstants
<1>4. Trans!Spec => SyncTakesEffect
  BY <1>1, <1>2, <1>3, PTL
    DEF Trans!Spec, SyncTakesEffect, Trans!SyncTakesEffect
<1>5. DisplaySpec => SyncTakesEffect
  BY <1>1, <1>2, <1>3, TransAlone, PTL
    DEF DisplaySpec, SyncTakesEffect, Trans!SyncTakesEffect
<1> QED
  BY <1>4, <1>5

(* Changes are made together and drawn together with all made before, a     *)
(* second animation frame not before the first is drawn, and no caller of   *)
(* setTransactionState returns before its request was followed, nor, if it  *)
(* waits, before what it changed is drawn: what Screen says.                *)
THEOREM ScreenIsKeptByTransactions ==
  /\ Trans!Spec => ScreenIsKept
  /\ DisplaySpec => ScreenIsKept
<1>1. Trans!Init => ShowInv /\ Show!Init
  BY ShowInitially, DisplayConstants
<1>2. ShowInv /\ [Trans!Next]_Trans!vars
        => ShowInv' /\ [Show!Next]_Show!screenVars
  BY ShowStep, DisplayConstants
<1>3. Trans!Spec => ScreenIsKept
  BY <1>1, <1>2, PTL DEF Trans!Spec, ScreenIsKept, Show!Spec
<1>4. DisplaySpec => ScreenIsKept
  BY <1>1, <1>2, TransAlone, PTL DEF DisplaySpec, ScreenIsKept, Show!Spec
<1> QED
  BY <1>3, <1>4

(* The panel is given every layer that shows, as the one overlay or drawn,  *)
(* though the work list and its flags are kept from frame to frame.  The    *)
(* overlay is YUV only if it became so after the list was made, without     *)
(* alpha before or after.                                                   *)
THEOREM PicturesAreWhole ==
  /\ Hwc!Spec => []PictureIsWhole
  /\ DisplaySpec => []PictureIsWhole
<1>1. Hwc!Init => HwcInv /\ VideoInv
  BY HwcInitially, VideoInitially, DisplayConstants
<1>2. HwcInv /\ VideoInv /\ [Hwc!Next]_Hwc!frameVars => HwcInv' /\ VideoInv'
  BY HwcStep, VideoStep, DisplayConstants
<1>3. HwcInv /\ VideoInv => PictureIsWhole
  BY WholeOfBoth
<1>4. Hwc!Spec => []PictureIsWhole
  BY <1>1, <1>2, <1>3, PTL DEF Hwc!Spec
<1>5. DisplaySpec => []PictureIsWhole
  BY <1>1, <1>2, <1>3, HwcAlone, PTL DEF DisplaySpec
<1> QED
  BY <1>4, <1>5

(* A frame that begins after a switch of the colours has them in all its    *)
(* layers: no list from before the switch gives one to the overlay.         *)
THEOREM SwitchesReachEveryLayer ==
  /\ Hwc!Spec => []SwitchesTakeEffect
  /\ DisplaySpec => []SwitchesTakeEffect
<1>1. Hwc!Init => HwcInv
  BY HwcInitially, DisplayConstants
<1>2. HwcInv /\ [Hwc!Next]_Hwc!frameVars => HwcInv'
  BY HwcStep, DisplayConstants
<1>3. HwcInv => SwitchesTakeEffect
  BY DEF HwcInv, SwitchesTakeEffect
<1>4. Hwc!Spec => []SwitchesTakeEffect
  BY <1>1, <1>2, <1>3, PTL DEF Hwc!Spec
<1>5. DisplaySpec => []SwitchesTakeEffect
  BY <1>1, <1>2, <1>3, HwcAlone, PTL DEF DisplaySpec
<1> QED
  BY <1>4, <1>5
=============================================================================
