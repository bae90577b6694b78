---------------------------- MODULE MCBluetooth ------------------------------
(***************************************************************************)
(* The Bluetooth stack from the HCI layer to its caller, in one instance:  *)
(* a behavior exercises the flow of commands (HciCommandFlow), start-up,   *)
(* packets and shut-down of the layer (HciStartUp), or what the stack does *)
(* over them with the controller it finds (BtController, BtuHcif), and     *)
(* leaves the others where they began.                                     *)
(***************************************************************************)
EXTENDS MCHciCommandFlow

CONSTANTS
  StartUps, MaxPackets, AllocationFails,  \* of HciStartUp
  Chips, Reliable, MaxStarts,             \* of BtController
  MaxChanges, MaxInFlight, UrandomWorks \* of BtuHcif

VARIABLES
  part,       \* "flow", "startup" or "host"
  startUps, startTimer,   \* session and timer of HciStartUp
  stack, thread, loop, tasks, future, result, readied, hal, sentTo, crash,
  host, readable, awaiting, starts, asked, chip, modes,
  check,      \* crash of BtController
  link, isLe, seen, events, toChip, changes, rand

Module == INSTANCE HciStartUp
            WITH MaxSessions <- StartUps, session <- startUps,
                 timer <- startTimer
Host == INSTANCE BtuHcif WITH crash <- check
Tested == INSTANCE BtChips

SixChips == Tested!SixChips

ASSUME BluetoothConstants ==
  Module!StartUpConstants /\ Host!ControllerConstants /\ Host!BtuConstants

startUpPart == <<startUps, startTimer, stack, thread, loop, tasks, future,
                 result, readied, hal, sentTo, crash>>
hostPart == <<host, readable, awaiting, starts, asked, chip, modes, check,
              link, isLe, seen, events, toChip, changes, rand>>
bluetoothVars == <<part, vars, startUpPart, hostPart>>

(* The parts that do not run begin in one fixed state.                      *)
BluetoothInit ==
  /\ part \in {"flow", "startup", "host"}
  /\ Init /\ Module!Init /\ Host!Init
  /\ part # "host" => ~isLe /\ chip = CHOOSE c \in Chips : TRUE

InFlow    == part = "flow" /\ UNCHANGED <<part, startUpPart, hostPart>>
InStartUp == part = "startup" /\ UNCHANGED <<part, vars, hostPart>>
InHost    == part = "host" /\ UNCHANGED <<part, vars, startUpPart>>

BluetoothNext ==
  \/ InFlow /\ Next
  \/ InStartUp /\ Module!Next
  \/ InHost /\ Host!Next

(* The fairness of each part; a behavior has the steps of one part only, so *)
(* parts share a condition.                                                 *)
BluetoothSpec ==
  /\ BluetoothInit /\ [][BluetoothNext]_bluetoothVars
  /\ WF_bluetoothVars(\/ InFlow /\ HciThread
                      \/ InStartUp /\ Module!HciThread
                      \/ InHost /\ Host!Learns)
  /\ WF_bluetoothVars(\/ InFlow /\ CallbackThread
                      \/ InStartUp /\ Module!StackThread
                      \/ InHost /\ Host!Executes)
  /\ WF_bluetoothVars(\/ InFlow /\ Tick
                      \/ InStartUp /\ Module!AlarmThread
                      \/ InHost /\ Host!Handles)
  /\ WF_bluetoothVars(InFlow /\ CommandTimedOut)

(* Packets reach the HAL only while it is open.                             *)
SendsOnlyToOpenHal == Module!SendsOnlyToOpenHal

(* Once readable, the getters say what this controller can do.              *)
ReadyMatchesChip == Host!ReadyMatchesChip

(* The controller is asked only for what it can answer as asked.            *)
AskedInOrder == Host!AskedInOrder

(* At rest, the stack and the controller agree on the link.                 *)
SettledAgreement == Host!SettledAgreement

(* Whoever waits for the start or the stop of the HCI module, the start of  *)
(* the controller, an encrypted link or random bytes gets an answer.        *)
Awaits == Module!StartUpAwaits \/ Host!BtuAwaits
WaitersAnswered == Awaits ~> ~Awaits
=============================================================================
