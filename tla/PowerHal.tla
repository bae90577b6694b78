------------------------------ MODULE PowerHal ------------------------------
(***************************************************************************)
(* The power HAL (power_sc8830.c): the limits of the cpufreq policy follow *)
(* the screen, power saving, and boosts that a thread of its own ends.     *)
(*                                                                         *)
(* All is done under one mutex; the writes to sysfs are steps of their own *)
(* because the kernel sees each.  Times are counted from now, in units of  *)
(* 400 ms: two for a touch, five for the launch of an application.         *)
(* Frequencies are the code's, in units of 100 MHz.                        *)
(***************************************************************************)
EXTENDS Integers, Sequences

CONSTANTS
  MaxFailures   \* bound: writes to sysfs that fail

FreqMin == 7          \* 768000, rounded
FreqInteractive == 10
FreqLaunch == 12
FreqMax == 13
FreqMaxDimmed == 10   \* with the screen off, or saving power

Freq == {FreqMin, FreqInteractive, FreqLaunch, FreqMax}
Hints == {[freq |-> FreqInteractive, lasts |-> 2],
          [freq |-> FreqLaunch, lasts |-> 5]}
NoHint == [freq |-> 0, lasts |-> 0]

VARIABLES
  screenOn, lowPower,
  boostFreq, left,    \* boost_freq, and boost_until_ms from now
  curMin, curMax,     \* what was written last, as the HAL believes
  todo,               \* the writes apply_locked has still to do: the mutex
                      \* is held while there are any
  kernelMin, kernelMax, \* the policy of the kernel
  given,              \* a hint between now_ms() and the mutex
  thread,             \* the boost thread: in "loop" under the mutex, waiting
                      \* for a signal ("asleep") or for a time too ("timed")
  wakeAt,             \* that time, from now
  failures

powerVars == <<screenOn, lowPower, boostFreq, left, curMin, curMax, todo,
               kernelMin, kernelMax, given, thread, wakeAt, failures>>

Write(what, value) == [what |-> what, value |-> value]

(* After a1000_power_init.                                                  *)
Init ==
  /\ screenOn = TRUE /\ lowPower = FALSE /\ boostFreq = 0 /\ left = 0
  /\ curMin = FreqMin /\ curMax = FreqMax /\ todo = <<>>
  /\ kernelMin = FreqMin /\ kernelMax = FreqMax
  /\ given = NoHint /\ thread = "loop" /\ wakeAt = 0 /\ failures = 0

Unlocked == todo = <<>>
Lesser(x, y) == IF x < y THEN x ELSE y
Greater(x, y) == IF x > y THEN x ELSE y

(* What apply_locked wants, for a screen, power saving and a boost.         *)
WantMax(on, low) == IF on /\ ~low THEN FreqMax ELSE FreqMaxDimmed
WantMin(on, low, boost) ==
  Lesser(WantMax(on, low), IF boost > 0 THEN boost ELSE FreqMin)

(* apply_locked writes what changed, the wider limit first.                 *)
Writes(max, min) ==
  (IF max > curMax THEN <<Write("max", max)>> ELSE <<>>)
    \o (IF min # curMin THEN <<Write("min", min)>> ELSE <<>>)
    \o (IF max < curMax THEN <<Write("max", max)>> ELSE <<>>)

(* Broken variant: the maximum first, whichever way it goes.                *)
MaxFirst(on, low, boost) ==
  /\ screenOn' = on /\ lowPower' = low /\ boostFreq' = boost
  /\ curMax' = WantMax(on, low) /\ curMin' = WantMin(on, low, boost)
  /\ todo' = (IF curMax' # curMax THEN <<Write("max", curMax')>> ELSE <<>>)
               \o (IF curMin' # curMin THEN <<Write("min", curMin')>> ELSE <<>>)
Apply(on, low, boost) ==
  /\ screenOn' = on /\ lowPower' = low /\ boostFreq' = boost
  /\ curMax' = WantMax(on, low) /\ curMin' = WantMin(on, low, boost)
  /\ todo' = Writes(curMax', curMin')

(* pthread_cond_signal.                                                     *)
(* Broken variant: nobody is signalled.                                     *)
NoSignal == thread' = thread
Signal == thread' = "loop"

(* A write of sysfs: the kernel refuses a minimum above the maximum, and a  *)
(* file that cannot be opened is only logged.                               *)
SysfsWrite ==
  /\ todo # <<>>
  /\ LET w == todo[1] IN
     \/ /\ IF w.what = "max"
           THEN /\ kernelMax' = IF w.value >= kernelMin THEN w.value ELSE kernelMax
                /\ UNCHANGED kernelMin
           ELSE /\ kernelMin' = IF w.value <= kernelMax THEN w.value ELSE kernelMin
                /\ UNCHANGED kernelMax
        /\ UNCHANGED failures
     \/ /\ failures < MaxFailures
        /\ failures' = failures + 1
        /\ UNCHANGED <<kernelMin, kernelMax>>
  /\ todo' = Tail(todo)
  /\ UNCHANGED <<screenOn, lowPower, boostFreq, left, curMin, curMax, given,
                 thread, wakeAt>>

(* boost() takes the time before the mutex; the hint ages meanwhile.        *)
PowerHint(hint) ==
  /\ given = NoHint /\ given' = hint
  /\ UNCHANGED <<screenOn, lowPower, boostFreq, left, curMin, curMax, todo,
                 kernelMin, kernelMax, thread, wakeAt, failures>>

Boost ==
  /\ given # NoHint /\ Unlocked
  /\ Apply(screenOn, lowPower, Greater(boostFreq, given.freq))
  /\ left' = Greater(left, given.lasts)
  /\ Signal /\ given' = NoHint
  /\ UNCHANGED <<kernelMin, kernelMax, wakeAt, failures>>

SetInteractive(on) ==
  /\ Unlocked
  /\ Apply(on, lowPower, IF on THEN boostFreq ELSE 0)
  /\ left' = IF on THEN left ELSE 0
  /\ Signal
  /\ UNCHANGED <<kernelMin, kernelMax, given, wakeAt, failures>>

HintLowPower(low) ==
  /\ Unlocked
  /\ Apply(screenOn, low, boostFreq)
  /\ UNCHANGED <<left, kernelMin, kernelMax, given, thread, wakeAt, failures>>

(* boost_thread_fn: without a boost it waits for a signal, with one for its *)
(* end, and ends it.                                                        *)
BoostThread ==
  /\ thread = "loop" /\ Unlocked
  /\ \/ /\ boostFreq = 0
        /\ thread' = "asleep"
        /\ UNCHANGED <<screenOn, lowPower, boostFreq, curMin, curMax, todo, wakeAt>>
     \/ /\ boostFreq > 0 /\ left > 0
        /\ thread' = "timed" /\ wakeAt' = left
        /\ UNCHANGED <<screenOn, lowPower, boostFreq, curMin, curMax, todo>>
     \/ /\ boostFreq > 0 /\ left = 0
        /\ Apply(screenOn, lowPower, 0)
        /\ UNCHANGED <<thread, wakeAt>>
  /\ UNCHANGED <<left, kernelMin, kernelMax, given, failures>>

TimedOut ==
  /\ thread = "timed" /\ wakeAt = 0 /\ thread' = "loop"
  /\ UNCHANGED <<screenOn, lowPower, boostFreq, left, curMin, curMax, todo,
                 kernelMin, kernelMax, given, wakeAt, failures>>

(* Time passes while nobody has anything to do.                             *)
Idle == Unlocked /\ thread # "loop" /\ (thread = "timed" => wakeAt > 0)
Tick ==
  /\ Idle
  /\ left' = Greater(left - 1, 0) /\ wakeAt' = Greater(wakeAt - 1, 0)
  /\ given' = IF given = NoHint THEN given
              ELSE [given EXCEPT !.lasts = Greater(@ - 1, 0)]
  /\ UNCHANGED <<screenOn, lowPower, boostFreq, curMin, curMax, todo, kernelMin,
                 kernelMax, thread, failures>>

Next ==
  \/ SysfsWrite \/ BoostThread \/ TimedOut \/ Boost \/ Tick
  \/ \E hint \in Hints : PowerHint(hint)
  \/ \E b \in BOOLEAN : SetInteractive(b) \/ HintLowPower(b)

(* Threads run, who waits for the mutex gets it in the end, and time passes *)
(* when nobody has anything to do.                                          *)
Spec == /\ Init /\ [][Next]_powerVars
        /\ WF_powerVars(SysfsWrite) /\ SF_powerVars(BoostThread)
        /\ WF_powerVars(TimedOut) /\ SF_powerVars(Tick)
-----------------------------------------------------------------------------
(* With no write that failed the kernel's limits are, whenever the mutex is *)
(* free, those that the screen, the power saving and the boost ask for: it  *)
(* had to refuse none on the way.                                           *)
KernelFollows ==
  Unlocked /\ failures = 0 =>
    /\ kernelMax = WantMax(screenOn, lowPower)
    /\ kernelMin = WantMin(screenOn, lowPower, boostFreq)

(* Every boost ends if hints do and no write fails, and with it the raised  *)
(* minimum, however often the screen and the power saving are switched.     *)
BoostsEnd ==
  <>[](given = NoHint /\ failures = 0) => <>[](kernelMin = FreqMin)
=============================================================================
