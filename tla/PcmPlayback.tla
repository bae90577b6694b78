----------------------------- MODULE PcmPlayback -----------------------------
(***************************************************************************)
(* pcm_mmap_write of tinyalsa: one thread fills the ring that the sound    *)
(* hardware plays, the two positions counting frames from 0 to the         *)
(* boundary and round again, and the stream is started, found dry,         *)
(* suspended or gone, and started again on the way.  The kernel keeps its  *)
(* own copy of the positions; SYNC_PTR exchanges them (an ARM kernel lets  *)
(* nobody map its page).  Only its part of the driver's work is stated     *)
(* here.  The PCM is opened without PCM_NOIRQ, so no wait times out, and   *)
(* is stopped only to be closed.                                           *)
(*                                                                         *)
(* The boundary is a few buffers long instead of as many as fit an int.    *)
(***************************************************************************)
EXTENDS Integers

CONSTANTS
  BufferSize,     \* period_count * period_size frames
  Boundary,       \* a power of two times BufferSize
  Thresholds,     \* start_threshold, the ones a client asks for
  AvailMin,       \* avail_min
  MaxWrite,       \* bound: frames of one pcm_mmap_write
  Ahead           \* bound: frames the hardware may play in one go

(* The boundary is at least twice the buffer, and the hardware does not     *)
(* play a whole round between two interrupts.                               *)
PcmConstants ==
  /\ BufferSize \in Nat \ {0} /\ Boundary \in Nat /\ 2 * BufferSize <= Boundary
  /\ Thresholds \subseteq Nat /\ AvailMin \in Nat
  /\ MaxWrite \in Nat /\ Ahead \in Nat /\ Ahead + BufferSize < Boundary

VARIABLES
  pc,             \* pcm_mmap_transfer: "idle", "look", "decide", "wait", "copy"
  running, prepared, waitForAvailMin, threshold,  \* struct pcm
  applPtr, hwPtr, \* struct pcm's sync_ptr: the writer's, and the hardware's as seen
  avail,          \* the local of that name
  count, size,    \* frames left to write, and of the copy under way
  result,         \* what the last call returned: "none", "ok", "error"
  state, kernelAppl, kernelHw, \* the kernel's side
  unplayed        \* frames put in the ring, not played and not given up, for
                  \* the properties: more than fit from an overwritten frame to
                  \* a new start

pcmVars == <<pc, running, prepared, waitForAvailMin, threshold, applPtr, hwPtr,
             avail, count, size, result, state, kernelAppl, kernelHw, unplayed>>
struct == <<running, prepared, waitForAvailMin, threshold, applPtr, hwPtr>>
kernel == <<state, kernelAppl, kernelHw, unplayed>>
call == <<avail, count, size, result>>

TypeOK ==
  /\ pc \in {"idle", "look", "decide", "wait", "copy"}
  /\ threshold \in Thresholds /\ result \in {"none", "ok", "error"}
  /\ running \in BOOLEAN /\ prepared \in BOOLEAN /\ waitForAvailMin \in BOOLEAN
  /\ applPtr \in 0 .. Boundary /\ hwPtr \in 0 .. Boundary - 1
  /\ count \in 0 .. MaxWrite /\ size \in 0 .. MaxWrite
  /\ state \in {"setup", "prepared", "running", "xrun", "suspended",
               "disconnected"}
  /\ kernelAppl \in 0 .. Boundary /\ kernelHw \in 0 .. Boundary - 1
  /\ avail \in Nat /\ unplayed \in Nat

(* pcm_open.                                                                *)
Init ==
  /\ pc = "idle" /\ threshold \in Thresholds
  /\ running = FALSE /\ prepared = FALSE /\ waitForAvailMin = FALSE
  /\ applPtr = 0 /\ hwPtr = 0
  /\ avail = 0 /\ count = 0 /\ size = 0 /\ result = "none"
  /\ state = "setup" /\ kernelAppl = 0 /\ kernelHw = 0 /\ unplayed = 0
-----------------------------------------------------------------------------
(* pcm_mmap_playback_avail: above the boundary it comes back, at the        *)
(* boundary it does not.                                                    *)
PlaybackAvail(hw, appl) ==
  LET room == hw + BufferSize - appl
  IN IF room < 0 THEN room + Boundary
     ELSE IF room > Boundary THEN room - Boundary ELSE room

(* The kernel's, which does.                                                *)
KernelAvail(hw, appl) == (hw + BufferSize - appl) % Boundary

(* snd_pcm_update_state: with nothing left to play the stream is stopped.   *)
Updated(hw, appl) ==
  IF state = "running" /\ KernelAvail(hw, appl) >= BufferSize THEN "xrun"
  ELSE state

(* pcm_mmap_appl_forward: a pointer at the boundary stays there.            *)
(* Broken variant: it goes back to 0.                                       *)
ForwardToZero(appl, frames) == (appl + frames) % Boundary
ApplForward(appl, frames) ==
  IF appl + frames > Boundary THEN appl + frames - Boundary ELSE appl + frames

Least(x, y) == IF x < y THEN x ELSE y
-----------------------------------------------------------------------------
(* pcm_mmap_write.                                                          *)
Write(frames) ==
  /\ pc = "idle"
  /\ pc' = "look" /\ count' = frames /\ result' = "none"
  /\ UNCHANGED <<struct, kernel, avail, size>>

Return(r) ==
  /\ pc' = "idle" /\ result' = r

(* pcm_avail_update: SYNC_PTR twice, the second time with HWSYNC.           *)
AvailUpdate ==
  /\ pc = "look" /\ count > 0
  /\ kernelAppl' = applPtr /\ state' = Updated(kernelHw, applPtr)
  /\ hwPtr' = kernelHw
  /\ avail' = PlaybackAvail(kernelHw, applPtr)
  /\ pc' = "decide"
  /\ UNCHANGED <<running, prepared, waitForAvailMin, threshold, applPtr, count,
                 size, result, kernelHw, unplayed>>

AllWritten ==
  /\ pc = "look" /\ count = 0
  /\ Return("ok")
  /\ UNCHANGED <<struct, kernel, avail, count, size>>

(* buffer_size is unsigned: with more room than buffer the difference is    *)
(* huge.                                                                    *)
(* Broken variant: the threshold must be passed.                            *)
PassesThreshold == avail > BufferSize \/ BufferSize - avail > threshold
ReachesThreshold == avail > BufferSize \/ BufferSize - avail >= threshold

MustStart == ~running /\ ReachesThreshold

(* PREPARE refuses a stream that plays and a device that is gone.           *)
CannotPrepare == ~prepared /\ state \in {"running", "disconnected"}

(* What of the writer's position the kernel counts as unplayed from 0.      *)
FromZero(appl) == IF appl = Boundary THEN 0 ELSE appl

(* pcm_start: PREPARE puts the kernel's positions to 0, SYNC_PTR brings the *)
(* writer's back, START refuses a stream without data.                      *)
Start ==
  /\ pc = "decide" /\ MustStart /\ ~CannotPrepare
  /\ prepared' = TRUE
  /\ LET hw == IF prepared THEN kernelHw ELSE 0 IN
     /\ kernelHw' = hw /\ hwPtr' = hw /\ kernelAppl' = applPtr
     /\ unplayed' = IF prepared THEN unplayed ELSE FromZero(applPtr)
     /\ IF state # "disconnected" /\ KernelAvail(hw, applPtr) < BufferSize
        THEN /\ state' = "running" /\ running' = TRUE
             /\ waitForAvailMin' = FALSE
             /\ UNCHANGED <<pc, result>>
        ELSE /\ state' = IF state = "disconnected" THEN state ELSE "prepared"
             /\ Return("error")
             /\ UNCHANGED <<running, waitForAvailMin>>
  /\ UNCHANGED <<threshold, applPtr, avail, count, size>>

StartRefused ==
  /\ pc = "decide" /\ MustStart /\ CannotPrepare
  /\ Return("error")
  /\ UNCHANGED <<struct, kernel, avail, count, size>>

WaitsForAvailMin == running /\ (waitForAvailMin \/ count > avail)
MustWait == WaitsForAvailMin /\ avail < AvailMin

Sleep ==
  /\ pc = "decide" /\ ~MustStart /\ MustWait
  /\ waitForAvailMin' = FALSE /\ pc' = "wait"
  /\ UNCHANGED <<running, prepared, threshold, applPtr, hwPtr, call, kernel>>

(* Without room, and no reason to wait, the rest is not written.            *)
BeginCopy ==
  /\ pc = "decide" /\ ~MustStart /\ ~MustWait
  /\ waitForAvailMin' = IF running THEN WaitsForAvailMin ELSE waitForAvailMin
  /\ IF avail > 0
     THEN pc' = "copy" /\ size' = Least(count, avail) /\ UNCHANGED result
     ELSE Return("ok") /\ UNCHANGED size
  /\ UNCHANGED <<running, prepared, threshold, applPtr, hwPtr, avail, count,
                 kernel>>

(* pcm_wait: POLLOUT; POLLERR of a stream that stopped, which pcm_state     *)
(* looks into; and poll failing, interrupted by a signal, while the stream  *)
(* goes on.                                                                 *)
WakeToWrite ==
  /\ pc = "wait" /\ state = "running"
  /\ KernelAvail(kernelHw, kernelAppl) >= AvailMin
  /\ pc' = "look"
  /\ UNCHANGED <<struct, call, kernel>>

GiveUp ==
  /\ pc = "wait"
  /\ Return("error")
  /\ prepared' = FALSE /\ running' = FALSE
  /\ applPtr' = 0 /\ unplayed' = 0
  /\ UNCHANGED <<waitForAvailMin, threshold, avail, count, size, state, kernelHw>>

(* Broken variant: what poll says of an error is not looked at.             *)
SleepThrough == pc = "wait" /\ state # "running" /\ UNCHANGED pcmVars
WakeToFail ==
  /\ state # "running" /\ GiveUp
  /\ hwPtr' = kernelHw /\ kernelAppl' = applPtr

Interrupted == GiveUp /\ UNCHANGED <<hwPtr, kernelAppl>>

(* One round of pcm_mmap_transfer_areas: pcm_mmap_begin looks again, and    *)
(* stops at the end of the ring; pcm_mmap_commit.                           *)
Copyable ==
  Least(Least(size, BufferSize - (applPtr % BufferSize)),
        Least(PlaybackAvail(kernelHw, applPtr), BufferSize))

Copy ==
  /\ pc = "copy"
  /\ hwPtr' = kernelHw /\ state' = Updated(kernelHw, applPtr)
  /\ applPtr' = ApplForward(applPtr, Copyable) /\ kernelAppl' = applPtr'
  /\ unplayed' = Least(unplayed + Copyable, BufferSize + 1)
  /\ size' = size - Copyable /\ count' = count - Copyable
  /\ pc' = IF size' = 0 THEN "look" ELSE "copy"
  /\ UNCHANGED <<running, prepared, waitForAvailMin, threshold, avail, result,
                 kernelHw>>

Overwritten == unplayed > BufferSize

(* The hardware plays, and its interrupt comes.                             *)
Play(frames) ==
  /\ state = "running"
  /\ kernelHw' = (kernelHw + frames) % Boundary
  /\ unplayed' = IF Overwritten THEN unplayed
                 ELSE unplayed - Least(frames, unplayed)
  /\ state' = Updated(kernelHw', kernelAppl)
  /\ UNCHANGED <<pc, struct, call, kernelAppl>>

(* The system is suspended, the device is taken away.                       *)
Stops(how) == state' = how /\ UNCHANGED <<pc, struct, call, kernelAppl, kernelHw,
                                         unplayed>>
Suspend == state = "running" /\ Stops("suspended")
Disconnect == state # "disconnected" /\ Stops("disconnected")

Transfer ==
  \/ AvailUpdate \/ AllWritten \/ Start \/ StartRefused \/ Sleep \/ BeginCopy
  \/ WakeToWrite \/ WakeToFail \/ Copy
Playing == \E frames \in 1 .. Ahead : Play(frames)

Next ==
  \/ \E frames \in 1 .. MaxWrite : Write(frames)
  \/ Transfer \/ Interrupted \/ Playing \/ Suspend \/ Disconnect

(* The writer's thread goes on, and so does the hardware.                   *)
Fairness == WF_pcmVars(Transfer) /\ WF_pcmVars(Playing)
Spec == Init /\ [][Next]_pcmVars /\ Fairness
-----------------------------------------------------------------------------
(* "we can only copy frames if the are availabale": frames go only where a  *)
(* running stream, known to run, has played.                                *)
NeverOverwrites == running /\ state = "running" => ~Overwritten

(* So it is for a writer that knows its stream plays (one interrupted in    *)
(* its wait forgets it, and starts again at 0 under the hardware), but for  *)
(* one place: a full ring of which the writer alone has passed the          *)
(* boundary, by less than the buffer.                                       *)
WriterAloneWrapped == unplayed = BufferSize /\ applPtr \in 1 .. BufferSize - 1
RoomIsReal == [][
  running /\ state = "running" /\ Overwritten' /\ ~Overwritten
    => WriterAloneWrapped]_pcmVars

(* A call that returns without an error has written all its frames.         *)
SuccessMeansWritten == pc = "idle" /\ result = "ok" => count = 0

(* A call under way, whatever the stream runs into while it waits: never    *)
(* for ever (MCServices), but for one that takes the ring for larger than   *)
(* it is (its room was the boundary, or was read before a start put the     *)
(* hardware's position back), which may copy nothing for ever.              *)
Awaits == pc # "idle" /\ avail <= BufferSize
=============================================================================
