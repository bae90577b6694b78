# TLA+ verification of the Lenovo A1000 LineageOS port

The repository is a LineageOS 15.1 device tree for the Lenovo A1000 (Spreadtrum
SC8830) together with the AOSP files it patches: the Bluetooth HCI stack, the
display path, audio, sensors, the radio interface, init, a few applications, and
the device's own HALs, shims and tools.  It has no tests; its comments (many in
Russian, marked "A1000") say what the changes are meant to do.  This directory
holds TLA+ models of the parts with the program's own control logic, the TLC
configurations that check them, and TLAPS proofs about those listed in section 4.

Paths below are relative to the repository (`src/` in PROJECT.json).

1. [The system](#1-the-system)
2. [The modules and the code](#2-the-modules-and-the-code)
3. [What TLC checks](#3-what-tlc-checks)
4. [What is proved](#4-what-is-proved)
5. [What was found](#5-what-was-found)
6. [What is not modelled](#6-what-is-not-modelled)
7. [Plan](#7-plan)

To run: `tlc -workers 2 -config Display.cfg MCDisplay`, and
`tlapm HciCommandFlowProofs.tla`.  PROJECT.json lists every run with its module
and configuration, and maps every definition to the lines it models.

## 1. The system

### Bluetooth

| Part | State | Operations | Hard behaviours |
|---|---|---|---|
| HCI layer, `system/bt/hci/src/hci_layer.cc` | `command_credits`, `command_queue`, `commands_pending_response`, `message_loop_`, `startup_future`, two alarms | start-up, shut-down, `transmit_command[_futured]`, `transmit_downward`, the event filter | four threads (clients, hci_thread, the HAL's callbacks, alarms) and two mutexes; packets owned by either side; restarts over surviving statics; start-up timer racing the HAL |
| Event parsing, `hci_packet_parser.cc` | none | one function per answer | refusals and Command Status where Command Complete is expected |
| Controller description, `system/bt/device/src/controller.cc` | features, versions, sizes, `readable` | start-up dialogue, getters | a controller that refuses what it claims; answers of an earlier start; feature pages that depend on what was written |
| Command interface, `system/bt/stack/btu/btu_hcif.cc`, `stack/hcic/hciblecmds.cc` | none of its own; closures under way | dispatch of events, completes and statuses to the stack; senders | answers that come after the link they are about is gone; callers whose callback is dropped |
| H4 transport, `hardware/interfaces/bluetooth/1.0/default/h4_protocol.cc` | packet type, packetizer | `Send`, `OnDataReady` | lost synchronization, short writes |

The layers call downwards (`transmit_command` over the message loop to the HAL)
and are called back upwards (HAL thread to the event filter, to a future or a
callback, from there to the stack's own message loop).  It is correct if: the
controller gets no more commands than it has room for; every command is answered
once, with its own event; buffers are freed once; whoever waits is woken, or the
process ends; packets go to an open HAL only; the stack asks a controller only
for what it can do and knows what it can do.

### Display

| Part | State | Operations | Hard behaviours |
|---|---|---|---|
| Framebuffer shim, `external/libui_shim/libsprdshim_{fbpost,ioctl}` | `g_zc_*` switches, pinned address, slow count | post of a frame, wait for the pulse, overlay ioctls | a panel that goes off between two ioctls; kernels without an ioctl; the GPU writing what is scanned |
| SurfaceFlinger, `frameworks/native/services/surfaceflinger/SurfaceFlinger_hwc1.cpp` | `mCurrentState`, `mDrawingState`, transaction flags, vsync switches, `nextBuf` | transactions, layers, displays, hotplug, refresh, power modes, pan | binder threads against the main thread; decisions taken under a lock and carried out after it; waits with a time limit |
| Framebuffer surface, `DisplayHardware/FramebufferSurface.cpp` | current buffer | `nextBuffer`, `onFrameCommitted` | a buffer released before the panel is done with it |
| HWC wrapper, `DisplayHardware/HWComposer_hwc1.cpp` | display ids, layer lists, events bits, vsync times | prepare, commit, eventControl, hotplug, software vsync | refusals of the blob; ids that run out; duplicates; a list that is kept while its flags are forced |
| Layers, `Layer.cpp` | shadow of the buffer queue, pending states, sync points | queueing, deferred transactions, latch, geometry | callbacks out of order; changes that wait for frames and frames that wait for changes; layers hidden or removed in between |
| `HWC2On1Adapter.cpp`, `ProgramCache.cpp`, `Gralloc2.cpp` | caches and handles | adapter, shader cache, allocation | the second prepare with overlays removed |
| Recovery, `bootable/recovery/minui/graphics_fbdev.cpp` | displayed slot | flip, with a fallback to a copy | fallback in the middle of a flip |

Clients give transactions and buffers to SurfaceFlinger; it composes, queues the
framebuffer target to FramebufferSurface, and posts through the HWC blob, whose
calls of the framebuffer HAL and of the kernel the shim intercepts; a vsync of
the HWC comes back over its callback thread.  It is correct if: the memory being
scanned is not written; what is shown is the newest frame and never goes back;
the panel's vsync is asked for when it is needed and never in the dark; every
change is committed, and synchronous callers return after their change took
effect; a frame and the changes deferred on it come together, and neither waits
for ever; every picture has all that shows, in the colours switched to; HWC ids
and devices follow the displays.

### Audio, radio, sensors

| Part | State | Operations | Hard behaviours |
|---|---|---|---|
| Audio stream, `hardware/interfaces/audio/2.0/default/StreamOut.cpp` | write thread, three message queues, stop flag, closed flag | prepareForWriting, write, queries, close, destructor | thread and queue life time, lost wake-ups, partial writes, a status queue of one |
| PCM, `external/tinyalsa/pcm.c` | prepared, running, the two positions | open, write through the mapped ring, recovery | positions that wrap at different times; underruns and starts in the middle of a transfer |
| Radio service, `hardware/ril/libril/ril_service.cpp`, `ril_commands.h` | client callbacks, counter, read-write lock, request list | 134 requests, their answers, 48 indications, registration | a client that dies at any moment; an old vendor library with short payloads; a lock released and retaken inside every answer |
| Radio daemon, `hardware/ril/rild/rild.c` | none | loads the vendor library | - |
| Sensors, `hardware/interfaces/sensors/1.0/default/Sensors.cpp` | device handle, poll lock | poll, activate, batch | a second poll ends the process |

### Init, user interface, device HALs

| Part | State | Operations | Hard behaviours |
|---|---|---|---|
| `system/core/init/init.cpp` | action queue, waiting property, shut-down request | main loop, property changes, restarts | a wait that an event before it has passed |
| `system/core/healthd/healthd_draw.cpp` | surfaces | drawing, blanking | - |
| Battery record, `rootdir/bin/a1000_batcap.sh` | two files, one property | restore the level, measure the capacity | killed, or the phone switched off, between any two lines; files empty for a moment |
| other boot scripts, `device/lenovo/a1000/rootdir` | none | labels, logs, zram | - |
| `PanelView.java` | expansion, animators, touch state | touch, fling, peek, expand, collapse | animators that outlive the gesture |
| `PackageInstallerActivity.java` | pending installation | permission and unknown-source dialogs | - |
| Wi-Fi, `sta_iface.cpp`, `netlink_utils.cpp` | none of their own | request and reply | missing attributes |
| Power HAL, `power/power_sc8830.c` | boost thread, last written limits | hints, boost, interactive, power saving | boosts merging, screen off during a boost, the order of two sysfs writes, refused writes |
| `memtrack`, `camera`, `gps`, probes and tools | none between calls | - | - |

PROJECT.json lists these parts again with what is modelled of each, and the
hazards, each at its line with the properties that would notice it.

## 2. The modules and the code

Module of a component, its variables after the code's, one action per operation
or per critical section; `MC*` modules hold the small instances, `*Proofs`
modules the theorems.

### HciCommandFlow - `hci_layer.cc`, commands and answers

Three host threads and the controller.  `queue`, `posted` and `pending` are
`command_queue`, the `event_command_ready` tasks in the message loop, and
`commands_pending_response`; `credits` is `command_credits`; `life` says whether
`message_loop_` runs, is being stopped or is NULL.  `stage`, `cmdBuf` and
`reply` follow each command's entry and its two buffers.  `timer` is what is
left of the response alarm; at 0 its callback has been dispatched and waits for
its turn, and `TimerHeld` is a hang like that of run hci_start_up_hangs: whoever sets,
cancels or frees the alarm then waits for that callback under the mutex the
callback wants, so nobody can take it any more (`MutexFree`).

| Action | Code |
|---|---|
| `Transmit` = `FreeUnsent`, `PostNow` or `QueueUp` | `enqueue_command`, under `message_loop_mutex` |
| `EventCommandReady` | `event_command_ready` to `transmit_fragment`, under `commands_pending_response_mutex` |
| `EventArrives`, `ProcessCommandCredits`, `RearmTimer`, `HandOff`, `Intercepted` | `filter_incoming_event` from lock to lock |
| `Tick`, `CommandTimedOut` | the response alarm and `command_timed_out` |
| `StartUp`, `ShutDown`, `LoopExits`, `CloseHal` | the module's life cycle |
| `ControllerAnswers`, `ControllerNop` | external: one event for each command, in any order among different opcodes, with the room it has or none |

A client sends each member of `Commands` again once it was answered, so the
bound is on commands outstanding at a time, not on their number.

### HciStartUp - `hci_layer.cc`, start-up, packets and shut-down

The stack's thread (`stack`), hci_thread (`thread`, `loop`, `tasks`), the alarm
thread (`timer`) and the HAL (`hal`).  `future` is `startup_future # NULL`.
`FinishStartup` and `StartupTimerExpired` both make it ready (`MakeReady`, with
the abort of `future_ready(NULL)`); `FreeTimers`, `PostQuit`, `JoinThread` and
`CloseHal` are the steps of `hci_module_shut_down` that other threads can come
between.  `FinishStartup` and `FreeTimers` cancel and free alarms under
`commands_pending_response_mutex`: with the callback of the start-up timer
dispatched and not yet past its lock they wait for it, and it for them (`timer`
is "held", run hci_start_up_hangs).

### CommandService - what the layer promises

The abstract specification of the HCI layer, seen by whoever sends a command:
`asked`, `held`, `answered` and `lost` are sets of commands, `given` and `freed`
sets of buffers.  `HciCommandFlow` maps its lists to them (`Service == INSTANCE
CommandService WITH ...`): a command is asked for while it is in `command_queue`
or posted, held from its sending until its answer is handed over, and lost when
its entry is freed or leaked.  `Reclaim` frees what the client was not given;
the one step says both that nothing is freed twice and that nothing is forgotten.

### BtController and BtuHcif - `controller.cc`, `hci_packet_parser.cc`, `btu_hcif.cc`, `hciblecmds.cc`

`start_up` sends one command at a time and waits, so `awaiting` is the place in
it.  `Wanted` holds the conditions under which each of the 23 steps is sent,
`Answers` what a chip may say (it performs what it knows; what it does not know
it refuses with an error or with Command Status, as the phone's chip does; what
it knows it may refuse unless it is in `Reliable`), `Outcome` and `Parsed` what
the parser makes of it, `After` the loop over the feature pages, which goes on
from the page number in the answer (`PagesTold`): a chip with `echoes` answers
with the page it was asked for, another with any.  The statics
survive `ShutDown`.  `BtuHcif` extends it with one connection handle: links that
come and go, encryption changes and key refreshes, the key size request with the
answer that may find the link gone, and LE Rand with its replacement by
`/dev/urandom`.  Events and answers keep their order; commands reach the chip
after the link they name may have changed.  `BtChips` are the controllers they are
checked with.  `MCBluetooth` is the stack in one instance: a behavior exercises
`HciCommandFlow`, `HciStartUp` or `BtuHcif`, and leaves the others where they
began, so that one run asks one question of all of them.

### Dispc and FrameOutput - the way of a frame to the panel

`Dispc` is the display controller as the code uses it (external): an address is
armed, latched at the next pulse, and scanned.  `FrameOutput` is the main thread
of SurfaceFlinger from `dequeueBuffer` to `a1000_panFramebuffer`, and the GPU.
Its `pc` places are the calls of `a1000_overlay_post` that other parties can
come between; `mem` maps each buffer and each slot of fb0 to the frame it holds;
`zcOff`, `zcFlip`, `zcNoFlip`, `zcSync`, `slow`, `pin` are the shim's statics.
`mode` is one setting of the `debug.sf.a1000_*` properties and of the file
`/data/gsp_nopin`; the shipped one is `Shipped` in `MCFrameOutput`.

### VsyncControl - hardware vsync on and off

The main thread's message handlers are lists of steps (`todo`), each one
critical section of `mHWVsyncLock` or one call to the HWC; the HWC's thread
decides in `AddResyncSample` and acts in `AfterSample`, after it let go of the
lock, as `onVSyncReceived` does; EventControlThread and DispSync are external,
DispSync reduced to the number of samples it still needs.  `available`,
`enabled` and `events` are `mHWVsyncAvailable`, `mPrimaryHWVsyncEnabled` and the
HWC wrapper's bit.

### Transactions - changes of the screen

Binder threads call `setTransactionState`, `createLayer`, `removeLayer`,
`createDisplay`, `destroyDisplay`; the HWC's thread reports hotplugs; the main
thread commits.  All that is done under `mStateLock` is one step; the waits on
`mTransactionCV` split `setTransactionState` into its own step and `AnimWakes`,
`SyncWakes` and `TimesOut`.  `flags` and `message` are `mTransactionFlags` and
the wake-up that only the first to set a flag sends.  `displays` and `drawing`
are the displays of the current and of the drawing state, `devices` is
`mDisplays` with the HWC id of each, `allocated` is `mAllocatedDisplayIDs`.

### Screen - what SurfaceFlinger promises its clients

The abstract specification of `Transactions`, without flags, wake-ups, devices or
condition variables.  The screen has a state it shall have and one that is shown;
a client's request is followed at once and as a whole (`Make`) or, if it animates
while a step of an animation is not drawn, put off; `Draw` shows everything that
was made, `Return` lets a synchronous caller go once what it changed is shown.
`Show` in `MCDisplay` maps the code's state to it: `open` are the clients in
`changed`, `layerDirty` or `removed`, `animating` is `frames # 0`, `at` is where
`setTransactionState` has each caller wait, `late` that a wait has timed out.

### LayerLatch - frames and deferred changes of layers, `Layer.cpp`

`bq` is the buffer queue (external), `calls` its callbacks, which come without its
lock and in any order; `items` is `mQueueItems` (and `mQueuedFrames`, its length),
`last` and `current` the frame numbers received and shown.  `now`, `pending` and
`drawn` are `mCurrentState`, `mPendingStates` and `mDrawingState`; `points` and
`remote` the two ends of a sync point, with `available` and `applied` its two
flags.

| Action | Code |
|---|---|
| `QueueBuffer`, `OnFrameAvailable`, `OnFrameReplaced` | a producer, and the two callbacks with their wait for the turn |
| `Transact` = `Push` and `DeferTransactionUntil` | `setTransactionState`, `pushPendingState`, `addSyncPoint` |
| `RemoveLayer`, `Destroy` | `onRemoved`, the destructor |
| `CommitLayer` = `PushPendingState`, `PopPendingState` ..., `CommitTransaction` | `doTransaction`, `applyPendingStates`, `commitTransaction` |
| `HandlePageFlip`, `Decide`, `Acquire...` | `handlePageFlip`, `shouldPresentNow`, `latchBuffer` with `BufferLayerConsumer`'s answers |
| `Refresh` | `preComposition`, `postComposition` |

What may happen in a behavior is its `plot`: how many frames and changes each
layer gets, who defers on whom and how far ahead, and what is odd about a buffer
or a layer (droppable, timed, rejected, of no use; hidden, removed).  `todo` are
the layers a pass has still to go through and `AtTurn` the one it is at, from back
to front.

### HwcFrame - from INVALIDATE to the picture

The main thread's places between which a binder thread may switch the colours:
`Invalidate`, `RebuildLayerStacks`, `CreateWorkList` and `SetGeometry` of
`setUpHWComposer`, `Prepare`, `DoComposition`, `PostFramebuffer`.  `list` is
`hwLayers` of the display with `HWC_SKIP_LAYER` and `compositionType`, kept from
frame to frame; `Forced` is what the port adds to `prepare` (all layers but one
overlay through OpenGL), `Settled` the vendor's answer under it; `Switch` the
three steps of `onTransact` 1014/1015/1022.  `listed`, `steady` and `broken`
belong to the properties: the formats of the buffers the list was made for, no
switch was under way since the frame began, and a call failed.

`MCDisplay` is the display in one instance: a behavior exercises `FrameOutput`,
`VsyncControl`, `Transactions`, `LayerLatch` or `HwcFrame`.

### StreamOut - `StreamOut.cpp`

`prepareForWriting` in three steps (`PrepareChecks`, `PrepareLaunches`,
`PrepareInstalls`): the test of `mDataMQ`, the start of the thread, the
assignment of the queues.  `writer[w]` is the place of each write thread in
`threadLoop`; `command`, `data`, `status` and `flag` are the queues and the
event flag; `accepted` counts what the vendor's stream took and `reported` what
the client was told.  The client may die at any place (`Destroy`).

### PcmPlayback - `pcm.c`, playback through the mapped ring

One writer in `pcm_mmap_transfer` (`Write`, `AvailUpdate`, `Start`, `Sleep`,
`WakeToWrite`, `WakeToFail`, `Interrupted`, `BeginCopy`, `Copy`), the hardware
(`Play`) and what becomes of it (`Suspend`, `Disconnect`).  A wait that fails
makes struct pcm forget the stream; if a signal interrupted it the stream plays
on, and `StartRefused` is the PREPARE that the kernel then refuses.
`applPtr` and `hwPtr` are struct pcm's copies of the positions, `kernelAppl` and
`kernelHw` the kernel's, all from 0 to `Boundary`; `unplayed` counts, for the
properties, the frames in the ring that were not given up.

### PowerHal - `power_sc8830.c`

Everything the HAL does is under one mutex, but each write to sysfs is a step,
because the kernel sees each and refuses a minimum above the maximum: `Apply`
leaves the writes in `todo` and `SysfsWrite` does one.  `thread` is the boost
thread, which waits for a signal or for a time it read before.

### BatteryRecord - `a1000_batcap.sh`

The script's places in `pc`; `store` and `saved` are its two files, each empty
between the truncation and the write of an `echo >`.  `Kill`, `SwitchOff` and
`Boot` come between any two lines; charge flows while the script sleeps
(`Interval`) and while the phone is off (`OffFor`).  For `RestoresWhatItSaw`,
`saw` is the levels read, the newest first, down to the one in STORE, and `stops`
how often the script ended since that was stored: a restart may give the driver
a level as many readings old as there were stops, and none older.

### RilService, RilRequests, RilAnswers - `ril_service.cpp`, `ril_commands.h`

`RilRequests` holds the code's tables as functions: the request of each of the
134 methods and the way it is dispatched, the response function of each request,
the kind of payload of each response and indication.  `RilAnswers` says what
each kind makes of a payload that is absent, cut, whole or longer.  `RilService`
is the service: the RPC thread (`SetResponseFunctions`, `Dispatch`, `Refuse`),
the vendor's thread (`Complete`, `Indicate`), and what both do inside a response
function (`Lock`, `Test`, `Tell`, `TellFails`, `Reset`, `Relock`, `Finish`),
with the read-write lock as the count of its readers, and a phone process that
dies and comes back.  `RilSettings` are the settings it is checked in.

`MCServices` is these services in one instance: a behavior exercises `StreamOut`,
`PcmPlayback`, `RilService`, `PowerHal` or `BatteryRecord`, which share nothing.

## 3. What TLC checks

| Run | Configuration | What it shows |
|---|---|---|
| hci_flow | `HciFlow.cfg` | Two command slots; a vendor, a callback and a legacy command, two of one opcode; improper vendor opcodes; shut-down at any moment; two sessions: `ServesCommands` (every step is one of `CommandService`), `NoOvertaking`, `TimerTracksPending` |
| bluetooth | `Bluetooth.cfg` | The layer with one command slot: `NoOverrun`; `FutureAnswered` if the controller answers, `UnansweredCommandAborts`. Start-up and shut-down with allocations that fail: `SendsOnlyToOpenHal`. The stack with six chips over two starts: `ReadyMatchesChip`, `AskedInOrder`, `SettledAgreement`. Both: `WaitersAnswered` |
| display | `Display.cfg` | Frames: `NeverTorn`, `ArmedIsNewest`, `FramesAdvance`. Vsync: `SilentInTheDark`, `VsyncSettles`. Changes: `ScreenIsKept` (every step is one of `Screen`), `SyncTakesEffect`, `DevicesFollowDisplays`. Layers: `ShadowHasWhatIsAcquired`, `FramesWaitForChanges`, `ChangesWaitForFrames`. Changes and layers: `NothingIsStuck`. Pictures: `PictureIsWhole`, `SwitchesTakeEffect` |
| services | `Services.cfg` | Audio, one caller at a time: `WriterWithinStream`, `QueuesOutliveWriter`, `ReportedIsAccepted`. PCM: `RoomIsReal`, `SuccessMeansWritten`. Radio, every method and indication alone with every payload and refusal, a client that dies, a client that lives while the service refuses: `NeverCallsNull`, `AnsweredAsAsked`, `SuccessIsBacked`, `LiveClientKept`, `ComesBack`. Audio, PCM and radio: `WaitsEnd`. Power: `KernelFollows`, `BoostsEnd`. Battery: `CountsEachInterval`, `RestoresWhatItSaw` |
| hci_overrun, hci_unanswered_forever, hci_start_up_hangs, hci_late_callback, video_overlaid, radio_client_lost, layer_producer_waits, pcm_overwrites | one each | the findings of section 5 |

The liveness properties of one instance are one property where they ask one
question (`WaitersAnswered`, `NothingIsStuck`, `WaitsEnd`): in a behavior only one
part moves, so whoever waits in it is who the property is about.

For every property of a passing run PROJECT.json names a variant of one modelled
operation ("Broken variant" in the modules) with which TLC finds it violated.

### Bounds, and why they are enough

- **HCI.** Three commands: two share an opcode (so that matching may go wrong),
  two differ, one is of the vendor group with two opcodes (so that the second
  look of `get_waiting_command` matters), and each kind of waiter occurs.  Two
  slots let two commands be pending and one queued.  Two sessions let a queue
  outlive one.  `Timeout = 1`: one tick may pass before the alarm goes off,
  which is all that distinguishes "rearmed" from "not rearmed";
  hci_unanswered_forever has 2, so that the timer is set again before it goes
  off and not only in the instant it does.
- **Frames.** Three buffers and three slots are the device's; four frames go
  once around the buffers and reuse one; `SlowLimit` is 2 instead of 5, which
  only shortens the way to the blown fuse.
- **Vsync.** Two samples instead of six leave one "not yet" and one "done";
  `MaxResyncs` and `MaxErrors` of one bound what may recur for ever.
- **Changes.** `ThreeCasts` gives two clients with layers and animations (both
  condition-variable waits, and the third caller adds nothing to a wake-all),
  two virtual displays that compete for one HWC id, and a virtual display beside
  the hotplugged one.  One wait may time out.
- **Audio.** A queue of two frames distinguishes none, a part and all; three
  commands let a late status meet the next command.
- **Controllers.** The six chips of `BtChips` cover each ability present and
  absent, last pages 0, 1, 2 and above the host's limit, and pages that were not
  asked for; two starts let a static outlive one; two links under a handle let an answer meet its successor.
- **Layers.** Two layers suffice for a cycle of waits, and one may defer on itself.
  The ten plots of `MCDisplay` are the combinations in which something of a frame
  (droppable, timed, rejected, of no use) or of a layer (hidden, removed) meets a
  deferral one frame behind, at or ahead of the next; three frames let one replace
  another and a third follow.
- **Pictures.** A wallpaper, which `setGeometry` knows by name, behind a window of
  three formats: no overlay, one, and the forced choice among two.  A third layer
  is forced as the second is.
- **PCM.** The boundary is two buffers (four in run pcm_overwrites) instead of as
  many as fit an int, so that positions wrap in a few writes; a write of four
  frames and a buffer of three make a write fill the ring and go on; the
  thresholds are the least and the whole buffer, `AvailMin` is 2.
- **Power.** The times are the code's in units of 400 ms and the frequencies the
  code's; one write fails.
- **Battery.** A battery of five units, with the code's conditions (a low start, a
  long charge, a plausible capacity) scaled to it; two faults (kill, switch off,
  unreadable sample) let the second fall into the recovery from the first.
- **Radio.** A method's way through the service does not depend on others but
  for the lock and the client, so methods are taken one at a time with all
  payloads, and the lock with two calls and two indications and two lives of the
  client.

### Fairness

Weak fairness of a thread says that a thread that can run does run.  It is
assumed of hci_thread, the HAL's callback thread, the alarms and the stack's
thread (HCI); of SurfaceFlinger's main thread, EventControlThread and the HWC's
thread, and of vsyncs of a lit panel that was asked for them (display); of the
write thread, the destructor, and a client that waits for a reply it asked for
(audio); of the PCM's writer and of hardware that plays; of both threads of rild,
and of the vendor answering what it was asked (radio); of callbacks of buffer
queues that may proceed and of the destruction of removed layers (layers); of the
sysfs writes and the time-out of the boost thread's wait, and strong fairness of
its taking the mutex and of time (power): both are interrupted by hints without
end; of the controller's answers and the stack's message loop (Bluetooth
start-up).  Nothing is assumed of the battery script, of clients' calls, of shut-downs, of the HAL's
initialization, of the GPU, of power keys or hotplugs.  The controller's answers
to commands are fair only where a property says so (`ControllerFairness =>` in
`FutureAnswered`, which like `WaitersAnswered` leaves out the hangs of section 5).  `VsyncSettles` takes two things as given that the code does
not guarantee: that the HWC's refusals of `eventControl` are over, and, for the
model to lock, that decisions taken before a resync and carried out after it do
not recur for ever.

## 4. What is proved

TLAPS checks the following for every value of the constants that satisfies the
module's assumption: any number of commands, opcodes, slots, sessions, frames,
layers, clients, displays, threads, controllers.  The assumptions are
`FlowConstants`, `StreamOutConstants` and `FrameOutputConstants`, and for the
instances of several parts `BluetoothConstants`, `DisplayConstants` and
`ServicesConstants`, each the conjunction of its parts' own.  They say what the
constants are (numbers, disjoint names, functions on them) and, where it matters,
what the code's tables look like.  TLC evaluates all of them in the runs.

Some theorems state what else they assume, because the code does not have the
property without it: `SingleSlotNeverOverrun`, `CommandsAreServed`, those of
`FrameOutputProofs` and `RadioProofs`, `NoErrorMeansWritten`, and those of
`StreamOutProofs` about calls
that do not overlap.

The theorems about a part of `MCBluetooth`, `MCDisplay` or `MCServices` have two
conclusions: the property holds of the part's own specification, and of the
instance that TLC runs, where the other parts stand still (lemmas such as
`LatchAlone`: a step of the instance is one of the part or leaves it alone).

**`HciCommandFlowProofs`**

- `TypeCorrect`: `Spec => []TypeOK`.
- `CommandsKeepTheirOrder`: `Spec => []NoOvertaking`.  `NoOvertaking` alone is
  not inductive, because the first start-up sets a credit: `OvertakingInv` adds
  that the queue is empty before it.  The step that matters is
  `ProcessCommandCredits`, which pays either the whole queue or all its credits.
- `TimerIsSetWhileWaiting`: `Spec => []TimerTracksPending`.  The property is
  only about a callback thread at rest; `TimerInv` extends it to events that
  matched nothing and therefore never rearm, and adds that the timer exists
  while the layer is up.
- `SingleSlotNeverOverrun`: with `Slots = 1` and `MaxNops = 0`,
  `Spec => []NoOverrun`.  `TokenInv` says that the right to send is one token:
  it is in `credits`, in a posted task, in a pending entry the controller holds,
  in an event on its way or in the callback thread's hands, or owed by the
  controller, and in one of them only; and that nothing is left of it after a
  shut-down.  With two slots the property is false (run hci_overrun).
- `CommandsAreServed`: `Spec => ServesCommands`, that is, `HciCommandFlow`
  implements `CommandService` under the mapping of `stage`, `cmdBuf` and `reply`.
  The initial states map to initial states, and every action to a step of the
  service (taking a command, transmitting, answering, failing, losing it at the
  shut-down) or to one that leaves its variables alone.  `ServiceInv` is what
  makes that true, in five parts.  `ListsInv`: a command is at most once in the
  queue, among the tasks and among the pending entries.  `PlaceInv`: it is in
  exactly one of four places, and a pending one is with the controller or on its
  way there.  `OrderInv`: of the pending commands of one opcode the older is
  answered first and its answer comes first, so that the first entry with the
  opcode, which `get_waiting_command` takes, is the right one.  `EventInv`: an
  event carries the opcode of the command it answers or, from a controller that
  confuses them, another vendor opcode (`OpcodeFits`).  `BufferInv`: who owns each
  buffer, also between the hand-over to the HAL and the label `intercepted:`,
  where the callback thread frees what the client must no longer touch.
  It assumes `ToldApart`: a controller that answers vendor commands under other
  vendor opcodes is used with one vendor opcode.  With two, the first vendor entry
  is a guess of the code and may be another's.  Commands may share opcodes, and
  the settings of run hci_flow are of this kind.

**`BluetoothProofs`** (start-up, controller and links; no bound on packets,
failures, starts, feature pages or changes of a link)

- `FutureIsReadiedOnce`: `[]ReadiedOnce`; the runs check it through
  `WaitersAnswered` only.  `FutureInv` adds that a future
  still to be made ready was not made ready before, which is what the two
  sections under NULL test (`event_finish_startup`, `startup_timer_expired`)
  rely on.
- `PacketsFindTheHalOpen`: `[]SendsOnlyToOpenHal`.  `SendInv` adds two
  things.  `ThreadLives`: while there is a loop there is a thread that will
  destroy it, so `CloseHal`, after the join, finds no task left.  `HalFollows`:
  the HAL is closed as long as the one initialization is to come, and open once
  anything else is queued, which nobody can do before the start-up succeeded.
- `GettersMatchTheChip`: `[]ReadyMatchesChip`, and `ControllersAreAskedInOrder`:
  `[]AskedInOrder`.  Both follow from `CtlInv`.  `At` is how far `start_up` has
  come; `Known` says what each answer has left in the statics once it is past,
  `Written` that the host's own support was written where the controller has it,
  and `Decides` that the page with the LE host is the one read in this start,
  not what an earlier start left, so that `ble_supported` and the LE commands
  follow what was written.
- `LinksSettleAlike`: `[]SettledAgreement`.  The stack learns of links late, so
  `LinkInv` speaks of their history: there is a sequence `past` of the links the
  controller had between the events on their way, each following from the one
  before by that event (`Follows`), that ends with its link now and begins with
  the link the stack sees; and as long as the stack is unsure of a key's length
  (`Unsure`) there is a question, an answer or a disconnection under way
  (`Asking`).

**`FrameOutputProofs`** (any number of frames, buffers and slots)

- `PictureNeverTears`: `Spec => []NeverTorn`; `NewestFrameIsArmed`:
  `Spec => []ArmedIsNewest`; `PictureAdvances`: `Spec => FramesAdvance`.  They
  assume `SoundSettings`, that the settings wait for the pulse where they must;
  dblbuf without pan_vsync does not (section 5).  `IInv` has six parts besides types.
  `PanelInv`: a panel that is off scans nothing.  `MainInv`: the place of the
  main thread tells who may write, the GPU or a memcpy, and where.  `DirectInv`
  (zero copy): the controller is at the target or, between post and pulse, at a
  buffer nobody draws; `CopiesInv` (dblbuf): it is at the last slot panned, never
  at gralloc's slot 0, and the slot being filled is a third one, which is the
  arithmetic of `CopySlot` for more than two slots.  `ContentInv`: the frame in
  the making is newer than all of memory, and is where each step has put it.
  `OrderInv`: what is armed is not older than what is scanned.

**`DisplayProofs`** (SurfaceFlinger)

- `DarkPanelsAreSilent`: `[]SilentInTheDark`.  `DarkInv` says that the
  vsync is on only when available, available only when the HWC was told of a lit
  screen, and which of five kinds of work is left to the main thread: composing,
  lighting, resyncing, darkening or releasing.  The kind fixes what was told to
  the HWC and, while darkening, that the vsync is unavailable, so that no other
  thread can switch it on between the release and the HWC's darkness.
- `AnimationsCommitApart`: `[]OneAnimationPerCommit` (the run checks it as part of
  `ScreenIsKept`); `DevicesAreThoseDrawn`:
  `[]DevicesFollowDisplays`; `SynchronousCallsAreDrawn`: `SyncTakesEffect`.  All
  three from `TransInv`.  `FramesPend`: an uncommitted animation frame is the only
  one and its flag stands, so that a second caller waits.  `WaiterIsServed`: who
  still waits although no commit is awaited has what it waited for.
  `ChangeIsTold`: a display that is not drawn as it is has its flag set.
  `DeviceShows`, `IdsAreUsed`, `IdsDiffer`: each drawn display has its device, and
  the HWC's ids in use are the devices', each once, also when they run out.
- `ScreenIsKeptByTransactions`: `ScreenIsKept`, that is, `Transactions`
  implements `Screen`.  Its initial states are initial states of the screen, and
  each of its actions is a step of it or unseen by it: a call of a client is one
  of `Ask`, `PutOff`, `AddLayer` and `RemoveLayer`, a wake-up `GoOn` or `Return`,
  a hotplug `Plug`, a commit `Draw`.  `ShowInv` is `TransInv` with two parts more.
  `PendingShows`: an animation frame that a caller waits for is among the changes
  to come, so that who is put off is put off for a reason.  `PluggedIn`: the
  external display has the token of its hotplug, so that an unplug takes that one.
- `PicturesAreWhole`: `[]PictureIsWhole`, from `HwcInv` and `VideoInv`, and
  `SwitchesReachEveryLayer`: `[]SwitchesTakeEffect`, from `HwcInv`.  Between frames the work list is kept,
  so its parts say where it may be trusted: `StackShows` and `ListFits` (it is of
  the layers that show, unless a flag says that it will be made anew; while it is
  made, of those at the back), `ListTypes` (one overlay at most, and alone),
  `Prepared` and `Composed` (what `prepare` counted and what was swapped),
  `ColoursListed` (a list nothing will make anew has the colours in every entry).
  `VideoInv` adds the formats the list was made for: a YUV layer of then is
  skipped, and a layer of a kept list has not changed its opacity.  So the one
  YUV overlay possible is a layer that was RGBX in the list; that it is possible
  is the finding of run video_overlaid.

**`LayerProofs`** (`Layer.cpp`)

- `FramesAreFound`: `[]ShadowHasWhatIsAcquired`, from `ShadowInv`.  Queue and
  shadow rise in frame numbers; a callback on its way knows a frame that was
  queued and, if it replaces one, that this one is gone; whatever the queue holds
  up to the last number received is in the shadow.  So the callbacks that wait
  for their turn and the drops of `latchBuffer` cannot lose what is acquired next.
- `FramesComeWithTheirChanges`: `FramesWaitForChanges`.  Its step is taken after
  the decision it relies on, so `FramesInv` carries `Met` from one to the other:
  while layers before it are latched, what a layer saw when it decided stays
  applied and its head stays its head.  The second needs `PlainInv`: without
  timed or replaced frames, everything queued is in the queue or its callback is
  on its way, and the shadow lists nothing else.
- `ChangesComeInTheirTurn`: `ChangesWaitForFrames`, from `ChangesInv`.
  `PendingRise` and `CommitFollows`: the states of a layer rise from the drawn one
  through the pending ones to the current one, with what `doTransaction` has in
  hand between drawn and pending.  `RemoteFollows`: the sync points a layer waits
  for are those of its deferred states, in the same order, so that disposing of
  the first disposes of the right one.  `PointsKnown`, `PointsAtBarrier`,
  `AvailableCame`: a point is of a change that was made, sits at the layer the
  change waits for, and is available only if its frame has come or that layer is
  hidden or gone.  `HiddenStays`: what is hidden in a drawn or pending state is so
  in the current one.
  `LatchConstants` says that the z-order lists each layer once; everything else
  about a behavior is its plot, and the proofs are for any.

**`StreamOutProofs`**

- `TypeCorrect`: `Spec => []TypeOK`.
- `QueuesOutliveTheirWriter`, `WriterStaysWithinStream` and `ReportedAreAccepted`
  hold under `OneCaller`: binder calls of the stream do not overlap.  `ThreadInv`
  ties the running write thread to the queues installed in the stream or to the
  `prepareForWriting` that launched it; `BooksInv` follows the frames of one
  command from the data queue to the client's count: not yet served, being
  served with the reply not written, or written to the status queue.  Without
  `OneCaller` they are false (section 5).

**`ServicesProofs`** (power, PCM and battery)

- `LimitsFollowTheHal`: `[]KernelFollows`.  `KernelFollows` speaks only
  of moments when the mutex is free; `PowerInv` adds what holds between the
  writes: `Believed`, the HAL's cached limits are those it wants, and
  `WritesLeft`, the writes left lead from the kernel's limits to the cached ones
  and each of them is one that the kernel accepts.  The one step with content is
  `ApplyStep`: both orders that `apply_locked` chooses between establish
  `WritesLeft`, because a wanted minimum is never above the wanted maximum.
- `NoErrorMeansWritten`: `[]SuccessMeansWritten`, for a client whose thresholds
  lie within the buffer (`ModestClient`), and `FramesKeepTheirRoom`: `RoomIsReal`,
  for every buffer, boundary, threshold and write.  `PcmInv` says what struct pcm
  believes of the stream (`StateInv`: only pcm_wait notices that it stopped, and
  an interrupted wait forgets one that plays), how a prepared ring fills before
  its start (`FillInv`), and, while a stream plays that struct pcm knows of, that
  the writer is ahead of the hardware by what is unplayed, around the boundary or
  not (`RingInv`, with the remainders of lemma `Modulo`).  The exception that `RoomIsReal` names is the
  finding of run pcm_overwrites.
- `IntervalsCountOnce`: `[]CountsEachInterval`, and `RestoredWasSeen`:
  `RestoresWhatItSaw`.  `RecordInv` covers the script's kill between any two
  lines: what each file holds at each line (`StoreInv`: the oldest of the levels in
  `saw`, each newer one having cost a stop, or empty; `SavedInv`: one interval
  behind, or empty), and `CountInv`, by how much what was counted may differ from
  what was charged.

**`RadioProofs`**

- `LivingClientsAreKept`: `LiveClientKept`.  `ClientInv` says that the
  registrations on their way come in the order of their sessions and are all
  later than the client's (`InboxInv`), and that a thread which noted the counter
  as it still is noted a client that is dead (`NotedDead`): sessions are not
  reused and each change of the client raises the counter.
- `NullIsNeverCalled`: `[]NeverCallsNull`, and `ReadersAreCounted`:
  `[]LockBalanced`.  `LockInv` ties the count of readers to the places of
  the two threads (`LockFollows`) and carries a tested callback to the call
  (`CallFollows`): whoever changes the callbacks holds the lock for writing, and
  then no thread stands between test and call but one that runs without the lock,
  whose client lives.

- `RequestsAreAnsweredAsAsked`: `[]AnsweredAsAsked`.  `AnswerInv` follows a
  serial: it is on its way, with the vendor, in one thread's hands or answered, in
  one of them only, and wherever it is the request under it is that of the method
  asked (`RequestsInv`, `CallsInv`, `ToldInv`).  What the client is told is then
  the response function of that request, which the tables of `RilRequests` name.
  They are joined from a dozen smaller ones (`Joined`) and looked up row by row:
  `RowOfJoined` finds a row in whichever table has it, and `RowsAreRight` says for
  the 134 rows that method, request and response function belong together.
- `SuccessHasItsData`: `[]SuccessIsBacked`, from the same invariant: an answer
  that says success was made of a payload that the response function could read,
  unless the function takes none.

They assume of the settings that no client sends a registration as a request
(`AsksOnly`), and `NullIsNeverCalled` and `ReadersAreCounted` also that the service
does not itself refuse what a client asked that may die (`NoRefusalToTheDead`).
The runs' settings are of this
kind (`SoundSettings` of `RilSettings`); where refusals and deaths meet, as they do
on this phone, both fail and the lock is lost (run radio_client_lost).

Not proved, only model-checked: the eight liveness properties `FutureAnswered`,
`UnansweredCommandAborts`, `WaitersAnswered`, `VsyncSettles`, `NothingIsStuck`,
`WaitsEnd`, `BoostsEnd` and `ComesBack` (fairness and ENABLED are outside the
prover).  The safety invariants, action properties and refinements of the runs are
all stated by a theorem.  No module uses a RECURSIVE operator, so all of them can
be proved about.

## 5. What was found

Each of these is a run that ends in a counterexample; PROJECT.json quotes the
comment it contradicts.

| Run | Where | What |
|---|---|---|
| hci_overrun | `hci_layer.cc:526` | Commands posted to hci_thread and not yet run are not subtracted from the reported credits: a chip with two slots is sent a third command |
| hci_unanswered_forever | `hci_layer.cc:707` | Any traffic rearms the one response timer, so an unanswered command need never abort the process |
| hci_start_up_hangs | `hci_layer.cc:363` | The start-up timer is cancelled under the mutex that its callback locks first: if it goes off as the HAL's answer comes, both threads wait for ever, and the future of the start-up is made ready by neither |
| hci_late_callback | `hci_layer.cc:139` | A HAL that initializes after the start-up timer uses a loop that is gone |
| video_overlaid | `Layer.cpp:2430` | A window that goes from RGBX to YUV keeps its work list, and so its overlay: the format is tested only when a list is made |
| radio_client_lost | `ril_service.cpp:497` | A refusal told to a dead client leaves the read lock held: no client can register again |
| layer_producer_waits | `Layer.cpp:281` | `latchBuffer` clears the shadow queue while the callback of a replaced frame is on its way: it returns without counting, and the next callback waits for its turn for ever |
| pcm_overwrites | `pcm.c:1106` | With the writer one lap ahead and exactly at the boundary the room comes out as the whole boundary: frames not yet played are overwritten |

Read in the code while modelling, and left without a run:

- **HCI.** The error path of start-up posts through a NULL loop
  (`hci_layer.cc:248`, 266).  The hang of hci_start_up_hangs waits at the response
  timer too: an answer that comes as it goes off cancels it under the mutex
  `command_timed_out` takes first (706, 451), and the process is not restarted;
  the shut-down frees both timers under the mutex (256-262).  A futured command given after the loop is gone
  is freed and its future is never completed (383).
- **Parsers.** Four LE parsers read through NULL when their command is refused
  (`hci_packet_parser.cc:188-222`), though the comment at 242 has every parser
  that needs an answer run into a CHECK of its own.  The response of the suggested default data length is never freed
  and read as one byte (`hci_packet_parser.cc:197`).
- **Controller.** `secure_connections_supported` and the codecs of an earlier
  start survive (`controller.cc:184`).  The page number in an answer replaces the
  one asked for (`hci_packet_parser.cc:133`): a controller that goes back to an
  earlier page keeps the loop over the pages going for ever (`controller.cc:167-176`),
  and one that answers page 0 with another ends the process in a CHECK (135).
  `get_acl_packet_size_ble` does not look at
  `ble_supported` (506).
- **btu_hcif.** A failed key size answer may disconnect the next link under the
  handle (`btu_hcif.cc:722`).  The comment at 766-770 says the callback is not
  called on Command Status; it is, with a one-byte status and the length of two.
  A refused QoS setup is labelled with the event's code instead of the command's
  and never told; refused reads of remote features and connection updates are
  not told either.
- **Display.** Zero copy with `debug.sf.a1000_pan=1`, the shipped value, pans
  each frame away (`SurfaceFlinger_hwc1.cpp:1704`).  dblbuf without pan_vsync
  copies into the slot on the panel when two frames fall between two pulses: nobody
  awaits the pulse any more (1655, against the comment at 1663).  The pinned address outlives
  its buffer (`libsprdshim_ioctl.c:320`).  With two slots in fb0 the next slot is
  always 1 (`SurfaceFlinger_hwc1.cpp:1655`), and the flip mode shows old frames
  if gralloc honours the offset (1644).  The vsync fuse never recovers
  (`libsprdshim_fbpost.cpp:187`).  The previous framebuffer is free while it is
  scanned (`FramebufferSurface.cpp:185`), which zero copy repairs by waiting.
- **SurfaceFlinger.** A second hotplug without an unplug overwrites the token
  ("Overwriting display token") and leaks its display; a fast unplug and replug
  drops the configurations just read.  A refused `eventControl` is never tried
  again (`HWComposer_hwc1.cpp:571`).  If every vsync falls between a decision and
  its execution the model of DispSync never locks.  The software vsync may
  deliver one event after it was switched off (1352-1380), and
  `debug.sf.no_hw_vsync` with a HWC leaves no vsync at all.
- **Pictures.** `mRepaintEverything`, set by a switch of the colours after
  `setUpHWComposer` and before `doComposition` clears it, is lost: an overlay keeps
  its old colours until the next frame (`SurfaceFlinger_hwc1.cpp:1501`, 1708, 1122).
  `doDisplayComposition` ignores a failure of `doComposeSurfaces` in the branch of
  the colour matrix, and swaps (2345).  A prepare that fails leaves `hasFbComp` and
  `hasOvComp` as they were.
- **Layers.** A change deferred on a layer that is already hidden waits for that
  layer's next transaction, which the comment at `Layer.cpp:1830` means to avoid.  A
  droppable frame replaced between the test of its changes and its acquisition is
  shown in the next one's place without its changes; so are timed frames that are
  dropped.  A frame that is rejected still releases what was deferred on it.
- **Power.** A touch during the boost of a launch keeps the launch's frequency for
  the touch's time (`power_sc8830.c:190-205`); the header gives a touch the lower
  minimum (13-14).
- **PCM.** `pcm_wait` compares `errno` with -EINTR after it has returned for every
  negative result: a signal ends the write with an error, and the stream it
  forgets plays on, so that the next start is refused until that has run dry.
  `pcm_mmap_transfer` uses the room it read before `pcm_start` put the hardware's
  position back (1264, 1312); larger than the ring, it makes the copy spin, for
  ever if the device is suspended then.  `WaitsEnd` leaves that out.
- **Battery.** A measurement may span two charges if the phone was off or the
  sample unreadable in between (`a1000_batcap.sh:103`).
- **Audio.** Two concurrent `prepareForWriting`, or one after `close`, leave a
  thread nobody stops, and the destructor joins for ever (`StreamOut.cpp:312`);
  `mCallback` is tested and used without a lock (425).
- **Radio.** `keepaliveStatusInd` calls through NULL for a client of the 1.0
  interface (`ril_service.cpp:8681`).  `hangupForegroundResumeBackground` is
  answered as another method (3395).  An empty payload resizes to -1 (6063), the
  card index is clamped on one side (3038), a scan result is cast without its
  size (8626), services are published before the vendor's functions are set
  (8740), the locks of slots 2 to 4 are off by one (8771), a refused request
  stays in the list (497), an SMS with bad hex is dropped silently (6975), and a
  new client starts its serials again (785).

## 6. What is not modelled

Binaries (vendor blobs, kernel), build files, tables and overlays have no
control logic here.  memtrack, the camera and library shims, rild, the drawing
of healthd, the probes and the tools run once or keep no state between calls.
Wi-Fi's two files wrap requests whose state lives elsewhere.

Within the modelled parts these are left out: formats and layouts of messages;
packet reassembly (its code is not in the repository); ACL and SCO data; the OEM
hook of the radio; and calls that forward without state.  In the pictures: layer
geometry, blending and OpenGL, so that a composition repaints the whole screen;
dim layers, secure and rotated content and the other reasons to skip an overlay
that depend on them; and the software vsync.  `HwcFrame` and `LayerLatch` read and
write the unlocked flags in program order.  `PcmPlayback` is the mapped ring
only: not capture, not the ioctls that copy, no wait with a time-out
(`PCM_NOIRQ`), and no `pcm_stop` before the close (`asoundlib.h` keeps it for
channels that transfer no data).

In `StreamOut` the runs and proofs are for calls that do not overlap.  The
phone's serials start again with a new client; the model keeps them apart.  Time
is ticks of the one alarm a property is about.

## 7. Plan

Modules still to write, in this order; each is to join an instance that exists
(as those of `MCBluetooth`, `MCDisplay` and `MCServices` do), so that one run
keeps asking one question.

1. `BtuEvents`: the dispatch of command completes and statuses in
   `btu_hcif.cc`, and which refusals the callers hear of.
2. The second prepare of `HWC2On1Adapter`, configurations over hotplugs and the
   software vsync, with `HwcFrame` and `VsyncControl`.
3. `H4`: packets, the resynchronization and the short write.
4. `InitLoop` (`init.cpp`), `Poll` (`Sensors.cpp`), `RecoveryFlip`
   (`graphics_fbdev.cpp`) beside `FrameOutput`, `Panel` (`PanelView.java`).

Theorems to come with them: for each module the inductive invariant of its
properties, as above; and a specification of what `LayerLatch` promises a client
(frames in order, each with its changes) in the manner of `Screen`.
