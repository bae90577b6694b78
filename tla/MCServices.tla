----------------------------- MODULE MCServices ------------------------------
(***************************************************************************)
(* Five services of the phone that share nothing, in one instance: a       *)
(* behavior exercises an audio stream (StreamOut), the PCM device under it *)
(* (PcmPlayback), the radio service (RilService), the power HAL (PowerHal) *)
(* or the record of the battery (BatteryRecord), and leaves the others     *)
(* where they began.                                                       *)
(***************************************************************************)
EXTENDS StreamOut, Sequences

CONSTANTS
  c1,
  BufferSize, Boundary, Thresholds, AvailMin, MaxWrite, Ahead, \* of PcmPlayback
  Settings, MaxSessions, MaxCalls,                 \* of RilService
  MaxFailures,                                     \* of PowerHal
  Top, MaxFaults                                   \* of BatteryRecord

VARIABLES
  part,   \* "stream", "pcm", "radio", "power" or "battery"
  pcm, running, prepared, waitForAvailMin, threshold, applPtr, hwPtr, avail,
  count, size, result, pcmState, kernelAppl, kernelHw, unplayed,
  setting, phone, inbox, radioClient, counter, readers, thread, requests, asked,
  told, news, crash,
  screenOn, lowPower, boostFreq, left, curMin, curMax, todo, kernelMin,
  kernelMax, given, boostThread, wakeAt, failures,
  level, plugged, script, cap, charging, cur, startCap, acc, store, saved, real,
  restored, faults, saw, stops, whole, gained, lost

Pcm == INSTANCE PcmPlayback WITH pc <- pcm, state <- pcmState
Radio == INSTANCE RilService WITH client <- radioClient
Tested == INSTANCE RilSettings
Power == INSTANCE PowerHal WITH thread <- boostThread
Battery == INSTANCE BatteryRecord WITH pc <- script, status <- charging

SoundSettings == Tested!SoundSettings

ASSUME ServicesConstants == Pcm!PcmConstants /\ Battery!BatteryConstants

pcmPart == <<pcm, running, prepared, waitForAvailMin, threshold, applPtr, hwPtr,
             avail, count, size, result, pcmState, kernelAppl, kernelHw,
             unplayed>>
radioPart == <<setting, phone, inbox, radioClient, counter, readers, thread,
               requests, asked, told, news, crash>>
powerPart == <<screenOn, lowPower, boostFreq, left, curMin, curMax, todo,
               kernelMin, kernelMax, given, boostThread, wakeAt, failures>>
batteryPart == <<level, plugged, script, cap, charging, cur, startCap, acc,
                 store, saved, real, restored, faults, saw, stops,
                 whole, gained, lost>>
serviceVars == <<part, vars, pcmPart, radioPart, powerPart, batteryPart>>

(* The parts that do not run begin in one fixed state.                      *)
ServicesInit ==
  /\ part \in {"stream", "pcm", "radio", "power", "battery"}
  /\ Init /\ Pcm!Init /\ Radio!Init /\ Power!Init /\ Battery!Init
  /\ part # "pcm" => threshold = BufferSize
  /\ part # "radio" => setting = Tested!Dying
  /\ part # "battery" => level = Top

InStream  == /\ part = "stream"
             /\ UNCHANGED <<part, pcmPart, radioPart, powerPart, batteryPart>>
InPcm     == /\ part = "pcm"
             /\ UNCHANGED <<part, vars, radioPart, powerPart, batteryPart>>
InRadio   == /\ part = "radio"
             /\ UNCHANGED <<part, vars, pcmPart, powerPart, batteryPart>>
InPower   == /\ part = "power"
             /\ UNCHANGED <<part, vars, pcmPart, radioPart, batteryPart>>
InBattery == /\ part = "battery"
             /\ UNCHANGED <<part, vars, pcmPart, radioPart, powerPart>>

ServicesNext ==
  \/ InStream /\ Next
  \/ InPcm /\ Pcm!Next
  \/ InRadio /\ Radio!Next
  \/ InPower /\ Power!Next
  \/ InBattery /\ Battery!Next

(* The fairness of each part (BatteryRecord has none); a behavior has the   *)
(* steps of one part only, so parts share a condition.                      *)
ServicesSpec ==
  /\ ServicesInit /\ [][ServicesNext]_serviceVars
  /\ \A w \in Writers : WF_serviceVars(InStream /\ WriteThread(w))
  /\ WF_serviceVars(\/ InStream /\ Join
                    \/ InRadio /\ Radio!RpcThread
                    \/ InPower /\ Power!SysfsWrite
                    \/ InPcm /\ Pcm!Transfer)
  /\ WF_serviceVars(\/ InStream /\ WakeWriter
                    \/ InRadio /\ Radio!Works("modem")
                    \/ InPower /\ Power!TimedOut
                    \/ InPcm /\ Pcm!Playing)
  /\ WF_serviceVars(\/ InStream /\ ReadStatus
                    \/ InRadio /\ Radio!Complete)
  /\ SF_serviceVars(InPower /\ Power!BoostThread)
  /\ SF_serviceVars(InPower /\ Power!Tick)

(* Whoever waits, a client of the stream or of the radio, the destructor of *)
(* the stream or the writer of a PCM, does not wait for ever, whatever      *)
(* becomes of the thread, the hardware or the process it waits for.         *)
Awaits ==
  StreamAwaits \/ Pcm!Awaits \/ Radio!Awaits
WaitsEnd == Awaits ~> ~Awaits

(* No callback of the radio client is called through NULL.                  *)
NeverCallsNull == Radio!NeverCallsNull

(* Each request is answered once, by the callback that belongs to it.       *)
AnsweredAsAsked == Radio!AnsweredAsAsked

(* A broken payload is never passed off as a success.                       *)
SuccessIsBacked == Radio!SuccessIsBacked

(* The callbacks of a living client are not reset.                          *)
LiveClientKept == Radio!LiveClientKept

(* A phone process that stays gets its callbacks registered for good.       *)
ComesBack == Radio!ComesBack

(* Frames go only where the stream has played, but across the boundary.     *)
RoomIsReal == Pcm!RoomIsReal

(* A write without an error has written all its frames.                     *)
SuccessMeansWritten == Pcm!SuccessMeansWritten

(* The kernel's limits are those the HAL means to have set.                 *)
KernelFollows == Power!KernelFollows

(* Every boost ends if hints do.                                            *)
BoostsEnd == Power!BoostsEnd

(* A published capacity counts each interval of its charge once.            *)
CountsEachInterval == Battery!CountsEachInterval

(* The driver is given a level that the script read, and not long ago.      *)
RestoresWhatItSaw == Battery!RestoresWhatItSaw
=============================================================================
