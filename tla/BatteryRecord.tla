---------------------------- MODULE BatteryRecord ----------------------------
(***************************************************************************)
(* a1000_batcap.sh: the level of the battery kept over restarts, and the   *)
(* measurement of its capacity over a charge.  The script may be killed    *)
(* and restarted, or the phone switched off, between any two of its steps; *)
(* a file written with echo is empty between its truncation and the write. *)
(*                                                                         *)
(* One unit of charge flows in or out per interval of the script; a level  *)
(* is a number of units, Top is the full battery and the design capacity.  *)
(***************************************************************************)
EXTENDS Integers, Sequences

CONSTANTS
  Top,          \* levels of charge are 1 .. Top
  MaxFaults     \* bound: times the script is killed, the phone is switched
                \* off or a sample has no number for the current

BatteryConstants == Top \in Nat \ {0} /\ MaxFaults \in Nat

None == -1      \* no file, no value
Empty == 0      \* a file just truncated
NoState == [start |-> None, acc |-> 0]  \* no STATE, or an empty one

VARIABLES
  level, plugged,  \* the battery and the charger
  pc,              \* where the script is, "off" when the phone is
  cap, status, cur, \* what it read; cur: whether the current was a number
  startCap, acc,   \* its variables, None if empty
  store,           \* STORE: a level, Empty or None
  saved,           \* STATE: [start, acc], or NoState
  real,            \* persist.baton4iks.batt.real_mah, and how far what was
                   \* counted is from the charge that flowed
  restored,        \* what save_capacity was given at the last start, or None
  faults,
  saw, stops,      \* for a property: the levels read, the newest first, down to
                   \* that in STORE; the times the script ended since it was
                   \* stored
  whole, gained, lost
     \* a measurement is under way and the charger was there and the phone on
     \* all the time; the charge that flowed, the intervals it may miss

batteryVars == <<level, plugged, pc, cap, status, cur, startCap, acc, store,
                 saved, real, restored, faults, saw, stops,
                 whole, gained, lost>>
world == <<level, plugged, whole, gained>>
files == <<store, saved, real, restored>>
sample == <<cap, status, cur>>
readings == <<saw, stops>>

Init ==
  /\ level \in 1 .. Top /\ plugged = TRUE
  /\ pc = "restore" /\ cap = None /\ status = "unread" /\ cur = TRUE
  /\ startCap = None /\ acc = 0
  /\ store = None /\ saved = NoState
  /\ real = [is |-> None, whole |-> FALSE, error |-> 0]
  /\ restored = None
  /\ faults = 0
  /\ saw = <<>> /\ stops = 0
  /\ whole = FALSE /\ gained = 0 /\ lost = 0

(* is_num, and between 1 and 100.                                           *)
(* Broken variant: any file will do.                                        *)
Exists(value) == value # None
Valid(value) == value \notin {None, Empty}

(* Lines 33 to 52.                                                          *)
Restore ==
  /\ pc = "restore" /\ pc' = "load"
  /\ restored' = IF Valid(store) THEN store ELSE None
  /\ UNCHANGED <<world, sample, startCap, acc, store, saved, real, faults,
                 readings, lost>>

(* Broken variant: the accumulator is not kept.                             *)
LoadStart ==
  /\ pc = "load" /\ pc' = "sample"
  /\ startCap' = saved.start /\ acc' = 0
  /\ UNCHANGED <<world, sample, files, faults, readings, lost>>
Load ==
  /\ pc = "load" /\ pc' = "sample"
  /\ startCap' = saved.start /\ acc' = saved.acc
  /\ UNCHANGED <<world, sample, files, faults, readings, lost>>

(* Lines 55 to 62.                                                          *)
Status == IF ~plugged THEN "Discharging"
          ELSE IF level < Top THEN "Charging" ELSE "Full"

Sample ==
  /\ pc = "sample" /\ pc' = "truncateStore"
  /\ cap' = level /\ status' = Status
  /\ \/ cur' = TRUE /\ UNCHANGED <<faults, lost>>
     \/ /\ faults < MaxFaults
        /\ cur' = FALSE /\ faults' = faults + 1
        /\ lost' = IF whole THEN lost + 1 ELSE lost
  /\ saw' = <<level>> \o saw
  /\ UNCHANGED <<world, startCap, acc, files, stops>>

TruncateStore ==
  /\ pc = "truncateStore" /\ pc' = "writeStore"
  /\ store' = Empty
  /\ UNCHANGED <<world, sample, startCap, acc, saved, real, restored,
                 faults, readings, lost>>

WriteStore ==
  /\ pc = "writeStore" /\ pc' = "measure"
  /\ store' = cap /\ saw' = <<cap>> /\ stops' = 0
  /\ UNCHANGED <<world, sample, startCap, acc, saved, real, restored,
                 faults, lost>>

(* Lines 65 to 110.                                                         *)
Low(l) == 5 * l <= Top               \* 20 %
Long(start) == 2 * (Top - start) >= Top
FullOf(start) == (acc * Top) \div (Top - start)
Plausible(full) == 4 * full >= Top /\ 2 * full <= 3 * Top  \* 500, 3000 of 2000

Begin ==
  /\ pc = "measure" /\ cur /\ status = "Charging"
  /\ startCap = None /\ Low(cap)
  /\ startCap' = cap /\ acc' = 0 /\ pc' = "truncateState"
  /\ whole' = TRUE /\ gained' = 0 /\ lost' = 0
  /\ UNCHANGED <<level, plugged, sample, files, faults, readings>>

Count ==
  /\ pc = "measure" /\ cur /\ status = "Charging"
  /\ startCap # None
  /\ acc' = acc + 1 /\ pc' = "truncateState"
  /\ UNCHANGED <<world, sample, startCap, files, faults, readings, lost>>

TruncateState ==
  /\ pc = "truncateState" /\ pc' = "writeState"
  /\ saved' = NoState
  /\ UNCHANGED <<world, sample, startCap, acc, store, real, restored,
                 faults, readings, lost>>

WriteState ==
  /\ pc = "writeState" /\ pc' = "sleep"
  /\ saved' = [start |-> startCap, acc |-> acc]
  /\ UNCHANGED <<world, sample, startCap, acc, store, real, restored,
                 faults, readings, lost>>

Distance(x, y) == IF x < y THEN y - x ELSE x - y
Greater(x, y) == IF x < y THEN y ELSE x

Publish ==
  /\ pc = "measure" /\ cur /\ status = "Full"
  /\ pc' = "forget"
  /\ real' = IF startCap # None /\ Long(startCap) /\ Plausible(FullOf(startCap))
             THEN [is |-> FullOf(startCap), whole |-> whole,
                   error |-> Greater(Distance(acc, gained) - lost, 0)]
             ELSE real
  /\ UNCHANGED <<world, sample, startCap, acc, store, saved, restored,
                 faults, readings, lost>>

(* "Charging was disconnected before it was full: the segment is not whole, *)
(* begin again".                                                            *)
Interrupt ==
  /\ pc = "measure" /\ cur /\ status = "Discharging" /\ startCap # None
  /\ pc' = "forget"
  /\ UNCHANGED <<world, sample, startCap, acc, files, faults, readings, lost>>

Forget ==
  /\ pc = "forget" /\ pc' = "sleep"
  /\ startCap' = None /\ acc' = 0 /\ saved' = NoState
  /\ whole' = FALSE /\ gained' = 0 /\ lost' = 0
  /\ UNCHANGED <<level, plugged, sample, store, real, restored,
                 faults, readings>>

NothingToMeasure ==
  /\ pc = "measure"
  /\ \/ ~cur
     \/ status = "Charging" /\ startCap = None /\ ~Low(cap)
     \/ status = "Discharging" /\ startCap = None
  /\ pc' = "sleep"
  /\ UNCHANGED <<world, sample, startCap, acc, files, faults, readings, lost>>

(* An interval, with the charger there or not; running or switched off.     *)
Interval(charger) ==
  /\ plugged' = charger
  /\ level' = IF charger THEN (IF level < Top THEN level + 1 ELSE level)
              ELSE (IF level > 1 THEN level - 1 ELSE level)
  /\ whole' = (whole /\ charger /\ pc # "off")
  /\ gained' = IF whole' THEN gained + (level' - level) ELSE 0
  /\ lost' = IF whole' THEN lost ELSE 0
  /\ UNCHANGED <<sample, startCap, acc, files, faults, readings>>

Sleep(charger) ==
  /\ pc = "sleep" /\ pc' = "sample"
  /\ Interval(charger)

OffFor(charger) ==
  /\ pc = "off" /\ pc' = "off"
  /\ Interval(charger)

(* Stopped before it saved what it counted, or before an interval was over, *)
(* the script misses an interval or has one too many.                       *)
Stopped ==
  /\ cap' = None /\ status' = "unread" /\ startCap' = None /\ acc' = 0
  /\ lost' = IF whole /\ pc \in {"truncateState", "sleep"} THEN lost + 1
             ELSE lost
  /\ stops' = stops + 1
  /\ UNCHANGED <<level, plugged, whole, gained, cur, files, saw>>

(* init restarts the service.                                               *)
Kill ==
  /\ pc # "off" /\ faults < MaxFaults
  /\ faults' = faults + 1 /\ pc' = "restore"
  /\ Stopped

SwitchOff ==
  /\ pc # "off" /\ faults < MaxFaults
  /\ faults' = faults + 1 /\ pc' = "off"
  /\ Stopped

Boot ==
  /\ pc = "off" /\ pc' = "restore"
  /\ UNCHANGED <<world, sample, startCap, acc, files, faults, readings, lost>>

Script ==
  \/ Restore \/ Load \/ Sample \/ TruncateStore \/ WriteStore
  \/ Begin \/ Count \/ TruncateState \/ WriteState \/ Publish \/ Interrupt
  \/ Forget \/ NothingToMeasure

Next ==
  \/ Script \/ Kill \/ SwitchOff \/ Boot
  \/ \E charger \in BOOLEAN : Sleep(charger) \/ OffFor(charger)

Spec == Init /\ [][Next]_batteryVars
-----------------------------------------------------------------------------
(* At each start the driver is given a level that the script read and no    *)
(* empty file, and for each time the script ended since it stored that      *)
(* level at most one later reading is lost.                                 *)
RestoresWhatItSaw == [][
  pc = "restore" /\ pc' = "load" /\ restored' # None =>
    \E i \in DOMAIN saw : i <= stops + 1 /\ restored' = saw[i]]_batteryVars

(* A published capacity counts each interval of its charge once, but for    *)
(* the last and those it may miss; unless the phone was off or the charger  *)
(* away meanwhile.                                                          *)
CountsEachInterval == real.whole => real.error <= 1
=============================================================================
