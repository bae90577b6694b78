--------------------------- MODULE ServicesProofs ---------------------------
(***************************************************************************)
(* Proofs about three services of the phone, for all their constants: the  *)
(* limits of the kernel follow the power HAL, frames go only where the PCM *)
(* has room and success means that all are written, and a published        *)
(* capacity of the battery counts each interval of its charge once.        *)
(***************************************************************************)
EXTENDS MCServices, SequenceTheorems, TLAPS

-----------------------------------------------------------------------------
(* The power HAL.                                                           *)

BoostFreq == {0, Power!FreqInteractive, Power!FreqLaunch}

(* The values the HAL keeps and those of the kernel.                        *)
LimitTypes ==
  /\ screenOn \in BOOLEAN /\ lowPower \in BOOLEAN /\ boostFreq \in BoostFreq
  /\ curMin \in Nat /\ curMax \in Nat
  /\ failures \in Nat /\ given.freq \in BoostFreq

(* What the HAL believes is what the settings ask for.                      *)
Believed ==
  /\ curMax = Power!WantMax(screenOn, lowPower)
  /\ curMin = Power!WantMin(screenOn, lowPower, boostFreq)

ToMin == Power!Write("min", curMin)
ToMax == Power!Write("max", curMax)

(* The writes left make the kernel's limits those the HAL believes, and the *)
(* kernel will refuse none of them.                                         *)
WritesLeft ==
  /\ kernelMin \in Nat /\ kernelMax \in Nat
  /\ \/ todo = <<>> /\ kernelMin = curMin /\ kernelMax = curMax
     \/ todo = <<ToMin>> /\ kernelMax = curMax
     \/ todo = <<ToMax>> /\ kernelMin = curMin
     \/ todo = <<ToMax, ToMin>> /\ kernelMin <= curMax
     \/ todo = <<ToMin, ToMax>> /\ curMin <= kernelMax

PowerInv == LimitTypes /\ Believed /\ (failures = 0 => WritesLeft)

(* The minimum asked for is never above the maximum.                        *)
LEMMA WantedInOrder ==
  ASSUME NEW on \in BOOLEAN, NEW low \in BOOLEAN, NEW boost \in BoostFreq
  PROVE  /\ Power!WantMax(on, low) \in Nat
         /\ Power!WantMin(on, low, boost) \in Nat
         /\ Power!WantMin(on, low, boost) <= Power!WantMax(on, low)
BY DEF Power!WantMax, Power!WantMin, Power!Lesser, BoostFreq,
     Power!FreqInteractive, Power!FreqLaunch, Power!FreqMax,
     Power!FreqMaxDimmed, Power!FreqMin

(* Two lists of one write.                                                  *)
LEMMA PairOfTwo ==
  ASSUME NEW S, NEW x \in S, NEW y \in S
  PROVE  <<x>> \o <<y>> = <<x, y>>
<1>1. <<x>> \in Seq(S) /\ <<y>> \in Seq(S) /\ <<x, y>> \in Seq(S)
  OBVIOUS
<1>2. Len(<<x>> \o <<y>>) = 2 /\ Len(<<x>>) = 1 /\ Len(<<y>>) = 1
  BY <1>1
<1>3. (<<x>> \o <<y>>)[1] = x /\ (<<x>> \o <<y>>)[2] = y
  BY <1>1
<1>4. <<x>> \o <<y>> \in Seq(S)
  BY <1>1
<1>5. Len(<<x>> \o <<y>>) = Len(<<x, y>>)
  BY <1>2
<1>6. \A i \in 1..Len(<<x>> \o <<y>>) : (<<x>> \o <<y>>)[i] = <<x, y>>[i]
  <2>1. \A i \in 1..2 : i = 1 \/ i = 2
    OBVIOUS
  <2>2. QED
    BY <1>2, <1>3, <2>1
<1>7. QED
  BY <1>1, <1>4, <1>5, <1>6, SeqEqual

(* apply_locked, called with the mutex free: with the wider limit first no  *)
(* write is refused.                                                        *)
LEMMA ApplyStep ==
  ASSUME PowerInv, todo = <<>>,
         NEW on \in BOOLEAN, NEW low \in BOOLEAN, NEW boost \in BoostFreq,
         Power!Apply(on, low, boost),
         UNCHANGED <<kernelMin, kernelMax, failures>>,
         given'.freq \in BoostFreq
  PROVE  PowerInv'
<1>1. /\ screenOn' = on /\ lowPower' = low /\ boostFreq' = boost
      /\ curMax' = Power!WantMax(on, low)
      /\ curMin' = Power!WantMin(on, low, boost)
      /\ todo' = Power!Writes(curMax', curMin')
  BY DEF Power!Apply
<1>2. curMax' \in Nat /\ curMin' \in Nat /\ curMin' <= curMax'
  BY <1>1, WantedInOrder
<1>3. curMin <= curMax
  BY WantedInOrder DEF PowerInv, LimitTypes, Believed
<1>4. LimitTypes' /\ Believed'
  BY <1>1, <1>2 DEF PowerInv, LimitTypes, Believed
<1>5. ASSUME failures' = 0 PROVE WritesLeft'
  <2>1. kernelMin' = curMin /\ kernelMax' = curMax
    BY <1>5 DEF PowerInv, WritesLeft, ToMin, ToMax
  <2>2. /\ curMin \in Nat /\ curMax \in Nat
        /\ kernelMin' \in Nat /\ kernelMax' \in Nat
    BY <2>1 DEF PowerInv, LimitTypes
  <2> DEFINE up == <<Power!Write("max", curMax')>>
             min == <<Power!Write("min", curMin')>>
  <2>3. /\ ToMin' = Power!Write("min", curMin')
        /\ ToMax' = Power!Write("max", curMax')
    BY DEF ToMin, ToMax, Power!Write
  <2>4. todo' = (IF curMax' > curMax THEN up ELSE <<>>)
                  \o (IF curMin' # curMin THEN min ELSE <<>>)
                  \o (IF curMax' < curMax THEN up ELSE <<>>)
    BY <1>1 DEF Power!Writes
  <2>5. /\ up = <<ToMax'>> /\ min = <<ToMin'>>
        /\ up \o min = <<ToMax', ToMin'>> /\ min \o up = <<ToMin', ToMax'>>
    <3>1. up = <<ToMax'>> /\ min = <<ToMin'>>
      BY <2>3
    <3>2. \A x, y \in {ToMax', ToMin'} : <<x>> \o <<y>> = <<x, y>>
      BY PairOfTwo
    <3>3. QED
      BY <3>1, <3>2
  <2>6. \A x, y : /\ (<<>> \o <<x>>) \o <<y>> = <<x>> \o <<y>>
                  /\ (<<x>> \o <<y>>) \o <<>> = <<x>> \o <<y>>
                  /\ (<<>> \o <<x>>) \o <<>> = <<x>>
                  /\ (<<x>> \o <<>>) \o <<>> = <<x>>
                  /\ (<<>> \o <<>>) \o <<x>> = <<x>>
                  /\ (<<>> \o <<>>) \o <<>> = <<>>
    OBVIOUS
  <2> HIDE DEF up, min
  <2>7. CASE curMax' > curMax
    <3>1. todo' = IF curMin' # curMin THEN up \o min ELSE up
      <4>1. ~(curMax' < curMax)
        BY <1>2, <2>2, <2>7
      <4>2. QED
        BY <2>4, <2>7, <2>5, <2>6, <4>1
    <3>2. kernelMin' <= curMax'
      BY <1>2, <1>3, <2>1, <2>2, <2>7
    <3>3. QED
      BY <2>1, <2>2, <2>5, <3>1, <3>2 DEF WritesLeft
  <2>8. CASE curMax' < curMax
    <3>1. todo' = IF curMin' # curMin THEN min \o up ELSE up
      <4>1. ~(curMax' > curMax)
        BY <1>2, <2>2, <2>8
      <4>2. QED
        BY <2>4, <2>8, <2>5, <2>6, <4>1
    <3>2. curMin' <= kernelMax'
      BY <1>2, <2>1, <2>2, <2>8
    <3>3. QED
      BY <2>1, <2>2, <2>5, <3>1, <3>2 DEF WritesLeft
  <2>9. CASE curMax' = curMax
    <3>1. todo' = IF curMin' # curMin THEN min ELSE <<>>
      <4>1. ~(curMax' < curMax) /\ ~(curMax' > curMax)
        BY <1>2, <2>2, <2>9
      <4>2. QED
        BY <2>4, <2>5, <2>6, <4>1
    <3>2. QED
      BY <2>1, <2>2, <2>9, <2>5, <3>1 DEF WritesLeft
  <2>10. QED
    BY <1>2, <2>2, <2>7, <2>8, <2>9
<1>6. QED
  BY <1>4, <1>5 DEF PowerInv

(* Each write of sysfs is accepted, or counted as a failure.                *)
LEMMA WriteStep ==
  ASSUME PowerInv, Power!SysfsWrite
  PROVE  PowerInv'
<1>1. /\ UNCHANGED <<screenOn, lowPower, boostFreq, curMin, curMax, given>>
      /\ todo' = Tail(todo) /\ todo # <<>>
      /\ failures' = failures \/ failures' = failures + 1
  BY DEF Power!SysfsWrite
<1>2. /\ curMin \in Nat /\ curMax \in Nat /\ failures \in Nat
      /\ curMin <= curMax
  BY WantedInOrder DEF PowerInv, LimitTypes, Believed
<1>3. failures' \in Nat /\ (failures' = 0 => failures = 0)
  BY <1>1, <1>2
<1>4. LimitTypes' /\ Believed'
  BY <1>1, <1>3 DEF PowerInv, LimitTypes, Believed
<1>5. ASSUME failures' = 0 PROVE WritesLeft'
  <2>1. WritesLeft /\ failures = 0
    BY <1>3, <1>5 DEF PowerInv
  <2>2. /\ ToMin' = ToMin /\ ToMax' = ToMax
        /\ ToMin.what = "min" /\ ToMin.value = curMin
        /\ ToMax.what = "max" /\ ToMax.value = curMax
    BY <1>1 DEF ToMin, ToMax, Power!Write
  <2>3. IF todo[1].what = "max"
        THEN /\ kernelMax' = IF todo[1].value >= kernelMin THEN todo[1].value
                                                         ELSE kernelMax
             /\ kernelMin' = kernelMin
        ELSE /\ kernelMin' = IF todo[1].value <= kernelMax THEN todo[1].value
                                                         ELSE kernelMin
             /\ kernelMax' = kernelMax
    BY <1>5, <2>1 DEF Power!SysfsWrite
  <2>4. kernelMin \in Nat /\ kernelMax \in Nat
    BY <2>1 DEF WritesLeft
  <2>5. CASE todo = <<ToMin>> /\ kernelMax = curMax
    <3>1. todo' = <<>> /\ todo[1] = ToMin
      BY <1>1, <2>5
    <3>2. kernelMin' = curMin /\ kernelMax' = curMax
      BY <1>2, <2>2, <2>3, <2>5, <3>1
    <3>3. QED
      BY <1>1, <1>2, <3>1, <3>2 DEF WritesLeft
  <2>6. CASE todo = <<ToMax>> /\ kernelMin = curMin
    <3>1. todo' = <<>> /\ todo[1] = ToMax
      BY <1>1, <2>6
    <3>2. kernelMin' = curMin /\ kernelMax' = curMax
      BY <1>2, <2>2, <2>3, <2>6, <3>1
    <3>3. QED
      BY <1>1, <1>2, <3>1, <3>2 DEF WritesLeft
  <2>7. CASE todo = <<ToMax, ToMin>> /\ kernelMin <= curMax
    <3>1. todo' = <<ToMin>> /\ todo[1] = ToMax
      BY <1>1, <2>7
    <3>2. kernelMin' = kernelMin /\ kernelMax' = curMax
      BY <1>2, <2>2, <2>3, <2>4, <2>7, <3>1
    <3>3. QED
      BY <1>1, <1>2, <2>2, <2>4, <3>1, <3>2 DEF WritesLeft
  <2>8. CASE todo = <<ToMin, ToMax>> /\ curMin <= kernelMax
    <3>1. todo' = <<ToMax>> /\ todo[1] = ToMin
      BY <1>1, <2>8
    <3>2. kernelMin' = curMin /\ kernelMax' = kernelMax
      BY <1>2, <2>2, <2>3, <2>4, <2>8, <3>1
    <3>3. QED
      BY <1>1, <1>2, <2>2, <2>4, <3>1, <3>2 DEF WritesLeft
  <2>9. QED
    BY <1>1, <2>1, <2>5, <2>6, <2>7, <2>8 DEF WritesLeft
<1>6. QED
  BY <1>4, <1>5 DEF PowerInv

(* Every step keeps the invariant.                                          *)
LEMMA PowerStep == PowerInv /\ [Power!Next]_Power!powerVars => PowerInv'
<1> SUFFICES ASSUME PowerInv, [Power!Next]_Power!powerVars PROVE PowerInv'
  OBVIOUS
<1> USE DEF Power!Unlocked
<1>1. /\ screenOn \in BOOLEAN
      /\ lowPower \in BOOLEAN
      /\ boostFreq \in BoostFreq
      /\ given.freq \in BoostFreq /\ 0 \in BoostFreq
  BY DEF PowerInv, LimitTypes, BoostFreq
<1>2. CASE Power!SysfsWrite
  BY <1>2, WriteStep
<1>3. CASE Power!BoostThread
  <2>1. UNCHANGED <<kernelMin, kernelMax, failures, given>> /\ todo = <<>>
    BY <1>3 DEF Power!BoostThread
  <2>2. CASE Power!Apply(screenOn, lowPower, 0)
    BY <1>1, <2>1, <2>2, ApplyStep
  <2>3. CASE UNCHANGED <<screenOn, lowPower, boostFreq, curMin, curMax, todo>>
    BY <2>1, <2>3 DEF PowerInv, LimitTypes, Believed, WritesLeft, ToMin, ToMax
  <2>4. QED
    BY <1>3, <2>2, <2>3 DEF Power!BoostThread
<1>4. CASE Power!Boost
  <2>1. Power!Greater(boostFreq, given.freq) \in BoostFreq
    BY <1>1
      DEF Power!Greater, BoostFreq, Power!FreqInteractive, Power!FreqLaunch
  <2>2. given' = Power!NoHint /\ Power!NoHint.freq = 0
    BY <1>4 DEF Power!Boost, Power!NoHint
  <2>3. UNCHANGED <<kernelMin, kernelMax, failures>> /\ todo = <<>>
    BY <1>4 DEF Power!Boost
  <2>4. QED
    BY <1>1, <1>4, <2>1, <2>2, <2>3, ApplyStep DEF Power!Boost
<1>5. ASSUME NEW on \in BOOLEAN, Power!SetInteractive(on) PROVE PowerInv'
  <2>1. (IF on THEN boostFreq ELSE 0) \in BoostFreq
    BY <1>1
  <2>2. UNCHANGED <<kernelMin, kernelMax, failures, given>> /\ todo = <<>>
    BY <1>5 DEF Power!SetInteractive
  <2>3. QED
    BY <1>1, <1>5, <2>1, <2>2, ApplyStep DEF Power!SetInteractive
<1>6. ASSUME NEW low \in BOOLEAN, Power!HintLowPower(low) PROVE PowerInv'
  <2>1. UNCHANGED <<kernelMin, kernelMax, failures, given>> /\ todo = <<>>
    BY <1>6 DEF Power!HintLowPower
  <2>2. QED
    BY <1>1, <1>6, <2>1, ApplyStep DEF Power!HintLowPower
<1>7. ASSUME UNCHANGED <<screenOn, lowPower, boostFreq, curMin, curMax, todo,
                         kernelMin, kernelMax, failures>>,
             given'.freq \in BoostFreq
      PROVE  PowerInv'
  BY <1>7 DEF PowerInv, LimitTypes, Believed, WritesLeft, ToMin, ToMax
<1>8. CASE Power!Tick
  <2>1. given'.freq = given.freq
    BY <1>8 DEF Power!Tick
  <2>2. QED
    BY <1>1, <1>7, <1>8, <2>1 DEF Power!Tick
<1>9. ASSUME NEW hint \in Power!Hints, Power!PowerHint(hint) PROVE PowerInv'
  <2>1. hint.freq \in BoostFreq
    BY DEF Power!Hints, BoostFreq
  <2>2. QED
    BY <1>7, <1>9, <2>1 DEF Power!PowerHint
<1>10. CASE Power!TimedOut \/ UNCHANGED Power!powerVars
  BY <1>1, <1>7, <1>10 DEF Power!TimedOut, Power!powerVars
<1>11. QED
  BY <1>2, <1>3, <1>4, <1>5, <1>6, <1>8, <1>9, <1>10 DEF Power!Next

LEMMA PowerInitially ==
  ASSUME Power!Init
  PROVE  PowerInv
<1>1. /\ Power!WantMax(TRUE, FALSE) = Power!FreqMax
      /\ Power!WantMin(TRUE, FALSE, 0) = Power!FreqMin
  BY DEF Power!WantMax, Power!WantMin, Power!Lesser, Power!FreqMin,
       Power!FreqMax
<1>2. LimitTypes
  BY DEF Power!Init, LimitTypes, BoostFreq, Power!NoHint, Power!FreqMin,
       Power!FreqMax
<1>3. Believed
  BY <1>1 DEF Power!Init, Believed
<1>4. WritesLeft
  BY DEF Power!Init, WritesLeft, Power!FreqMin, Power!FreqMax
<1>5. QED
  BY <1>2, <1>3, <1>4 DEF PowerInv

LEMMA FollowsInPowerInv ==
  ASSUME PowerInv
  PROVE  Power!KernelFollows
<1>1. todo = <<>> /\ failures = 0 =>
          kernelMin = curMin /\ kernelMax = curMax
  BY DEF PowerInv, WritesLeft
<1>2. QED
  BY <1>1 DEF PowerInv, Believed, Power!KernelFollows, Power!Unlocked

-----------------------------------------------------------------------------
(* The PCM device.                                                          *)

(* A client that asks to be woken for no less than a frame, and to be       *)
(* started no later than with a full buffer.                                *)
ModestClient == AvailMin >= 1 /\ Thresholds \subseteq 0 .. BufferSize

(* A call under way has frames left, and one that returned without an error *)
(* has none.                                                                *)
CallInv ==
  /\ pcm \in {"decide", "wait", "copy"} => count > 0
  /\ pcm = "copy" => size <= count
  /\ ModestClient => Pcm!SuccessMeansWritten

(* What the struct believes of the stream and what the kernel knows: that   *)
(* it stopped is found in pcm_wait only, and a wait that failed forgets a   *)
(* stream that still plays.                                                 *)
StateInv ==
  /\ running => prepared /\ pcmState \notin {"setup", "prepared"}
  /\ ~running /\ prepared => pcmState \in {"prepared", "disconnected"}
  /\ ~prepared => pcmState # "prepared"
  /\ pcm = "wait" => running
  /\ pcm = "decide" /\ ~running /\ prepared
       => avail = Pcm!PlaybackAvail(kernelHw, applPtr)

(* A prepared ring is filled from 0, and a pointer left at the boundary is  *)
(* 0 to the kernel; with the pointer anywhere else nothing is copied.       *)
FillInv ==
  ~running /\ prepared =>
    /\ kernelHw = 0
    /\ applPtr <= BufferSize => unplayed = applPtr
    /\ applPtr = Boundary => unplayed = 0
    /\ pcm = "copy" => applPtr <= BufferSize \/ applPtr = Boundary

(* While a stream plays that its writer knows of, the writer's position is  *)
(* the hardware's and what was not played yet, or that less the boundary    *)
(* and then not 0.                                                          *)
InRing ==
  \/ applPtr = kernelHw + unplayed
  \/ applPtr = kernelHw + unplayed - Boundary /\ applPtr >= 1
RingInv ==
  running /\ pcmState = "running" =>
    /\ kernelAppl = applPtr /\ unplayed <= BufferSize + 1
    /\ ~Pcm!Overwritten => unplayed >= 1 /\ InRing

PcmInv == Pcm!TypeOK /\ CallInv /\ StateInv /\ FillInv /\ RingInv

USE DEF Pcm!PcmConstants, ModestClient

(* Remainders near 0.                                                       *)
LEMMA Modulo ==
  ASSUME NEW n \in Nat \ {0}, NEW x \in Int, -n <= x, x < 2 * n
  PROVE  x % n = IF x < 0 THEN x + n ELSE IF x >= n THEN x - n ELSE x
<1>1. CASE x < 0
  <2>1. (x + n) % n = x + n
    BY <1>1
  <2>2. x % n = (x + n) % n
    BY <1>1
  <2> QED
    BY <1>1, <2>1, <2>2
<1>2. CASE x >= n
  BY <1>2
<1>3. CASE 0 <= x /\ x < n
  BY <1>3
<1> QED
  BY <1>1, <1>2, <1>3

(* The room the kernel sees, without a remainder.                           *)
LEMMA KernelRoom ==
  ASSUME Pcm!PcmConstants, NEW hw \in 0 .. Boundary - 1,
         NEW appl \in 0 .. Boundary
  PROVE  Pcm!KernelAvail(hw, appl) =
           IF hw + BufferSize < appl THEN hw + BufferSize - appl + Boundary
           ELSE IF hw + BufferSize - appl >= Boundary
                THEN hw + BufferSize - appl - Boundary
                ELSE hw + BufferSize - appl
<1>1. /\ hw + BufferSize - appl \in Int /\ -Boundary <= hw + BufferSize - appl
      /\ hw + BufferSize - appl < 2 * Boundary
  OBVIOUS
<1> DEFINE room == hw + BufferSize - appl
<1>2. room \in Int /\ -Boundary <= room /\ room < 2 * Boundary
  BY <1>1
<1>3. Boundary \in Nat \ {0}
  OBVIOUS
<1>4. room % Boundary = IF room < 0 THEN room + Boundary
                        ELSE IF room >= Boundary THEN room - Boundary ELSE room
  <2> HIDE DEF room
  <2> QED
    BY <1>2, <1>3, Modulo
<1> QED
  BY <1>4 DEF Pcm!KernelAvail

LEMMA Plays ==
  ASSUME Pcm!PcmConstants, NEW hw \in 0 .. Boundary - 1,
         NEW frames \in 1 .. Ahead
  PROVE  (hw + frames) % Boundary =
           IF hw + frames >= Boundary THEN hw + frames - Boundary
           ELSE hw + frames
<1>1. hw + frames \in Int /\ 0 <= hw + frames /\ hw + frames < 2 * Boundary
  OBVIOUS
<1> DEFINE x == hw + frames
<1>2. x \in Int /\ -Boundary <= x /\ x < 2 * Boundary /\ 0 <= x
  BY <1>1
<1>3. Boundary \in Nat \ {0}
  OBVIOUS
<1>4. x % Boundary = IF x < 0 THEN x + Boundary
                     ELSE IF x >= Boundary THEN x - Boundary ELSE x
  <2> HIDE DEF x
  <2> QED
    BY <1>2, <1>3, Modulo
<1> QED
  BY <1>2, <1>4

(* A round of the copy fits in what is asked and in the room.               *)
LEMMA RoundFits ==
  ASSUME Pcm!PcmConstants, Pcm!TypeOK
  PROVE  /\ Pcm!Copyable \in Nat
         /\ Pcm!Copyable <= size
         /\ Pcm!Copyable <= BufferSize
         /\ Pcm!Copyable <= Pcm!PlaybackAvail(kernelHw, applPtr)
<1>1. applPtr % BufferSize \in 0 .. BufferSize - 1
  BY DEF Pcm!TypeOK
<1>2. Pcm!PlaybackAvail(kernelHw, applPtr) \in Nat
  BY DEF Pcm!TypeOK, Pcm!PlaybackAvail
<1> QED
  BY <1>1, <1>2, SMT DEF Pcm!TypeOK, Pcm!Copyable, Pcm!Least

LEMMA PcmWriteKeeps ==
  ASSUME PcmInv, Pcm!PcmConstants, NEW frames \in 1 .. MaxWrite,
         Pcm!Write(frames)
  PROVE  PcmInv'
<1>1. Pcm!TypeOK' /\ CallInv' /\ StateInv' /\ FillInv' /\ RingInv'
  BY SMT
    DEF PcmInv, Pcm!Write, Pcm!TypeOK, CallInv, StateInv, FillInv, RingInv,
        Pcm!struct, Pcm!kernel, Pcm!SuccessMeansWritten, Pcm!PlaybackAvail, Pcm!Overwritten, InRing
<1> QED
  BY <1>1 DEF PcmInv

LEMMA PcmAvailUpdateKeeps ==
  ASSUME PcmInv, Pcm!PcmConstants, Pcm!AvailUpdate
  PROVE  PcmInv'
<1>1. Pcm!TypeOK' /\ CallInv' /\ StateInv' /\ FillInv' /\ RingInv'
  BY KernelRoom, SMT
    DEF PcmInv, Pcm!AvailUpdate, Pcm!TypeOK, CallInv, StateInv, FillInv,
        RingInv, Pcm!Updated, Pcm!PlaybackAvail, Pcm!SuccessMeansWritten, Pcm!Overwritten, InRing
<1> QED
  BY <1>1 DEF PcmInv

LEMMA PcmAllWrittenKeeps ==
  ASSUME PcmInv, Pcm!PcmConstants, Pcm!AllWritten
  PROVE  PcmInv'
<1>1. Pcm!TypeOK' /\ CallInv' /\ StateInv' /\ FillInv' /\ RingInv'
  BY SMT
    DEF PcmInv, Pcm!AllWritten, Pcm!TypeOK, CallInv, StateInv, FillInv,
        RingInv, Pcm!Return, Pcm!struct, Pcm!kernel, Pcm!SuccessMeansWritten,
        Pcm!PlaybackAvail, Pcm!Overwritten, InRing
<1> QED
  BY <1>1 DEF PcmInv

LEMMA PcmStartKeeps ==
  ASSUME PcmInv, Pcm!PcmConstants, Pcm!Start
  PROVE  PcmInv'
<1>1. CallInv' /\ StateInv' /\ FillInv'
  BY KernelRoom, SMT
    DEF PcmInv, Pcm!Start, Pcm!TypeOK, CallInv, StateInv, FillInv,
        Pcm!MustStart, Pcm!Return, Pcm!SuccessMeansWritten, Pcm!PlaybackAvail,
        Pcm!ReachesThreshold, Pcm!CannotPrepare, Pcm!FromZero
<1>2. Pcm!TypeOK'
  <2>1. {running, prepared, waitForAvailMin}' \subseteq BOOLEAN
    BY Zenon
      DEF PcmInv, Pcm!Start, Pcm!TypeOK, Pcm!MustStart, Pcm!Return,
          Pcm!ReachesThreshold
  <2> QED
    BY <2>1, KernelRoom, SMT
      DEF PcmInv, Pcm!Start, Pcm!TypeOK, Pcm!MustStart, Pcm!Return,
          Pcm!ReachesThreshold, Pcm!FromZero
<1>3. RingInv'
  <2> SUFFICES ASSUME running', pcmState' = "running" PROVE RingInv'
    BY DEF RingInv
  <2>1. ~running /\ (prepared => kernelHw = 0)
    BY DEF PcmInv, FillInv, Pcm!Start, Pcm!MustStart
  <2>2. /\ kernelHw' = 0 /\ kernelAppl' = applPtr /\ applPtr' = applPtr
        /\ Pcm!KernelAvail(0, applPtr) < BufferSize
        /\ unplayed' = IF prepared THEN unplayed ELSE Pcm!FromZero(applPtr)
    BY <2>1, Zenon DEF Pcm!Start
  <2>3. applPtr \in 1 .. BufferSize
    BY <2>2, KernelRoom, SMT DEF PcmInv, Pcm!TypeOK
  <2>4. unplayed' = applPtr
    BY <2>1, <2>2, <2>3, SMT DEF PcmInv, FillInv, Pcm!FromZero
  <2> QED
    BY <2>2, <2>3, <2>4, SMT DEF RingInv, InRing, Pcm!Overwritten
<1> QED
  BY <1>1, <1>2, <1>3 DEF PcmInv

LEMMA PcmStartRefusedKeeps ==
  ASSUME PcmInv, Pcm!PcmConstants, Pcm!StartRefused
  PROVE  PcmInv'
<1>1. Pcm!TypeOK' /\ CallInv' /\ StateInv' /\ FillInv' /\ RingInv'
  BY SMT
    DEF PcmInv, Pcm!StartRefused, Pcm!TypeOK, CallInv, StateInv, FillInv,
        RingInv, Pcm!Return, Pcm!struct, Pcm!kernel, Pcm!SuccessMeansWritten,
        Pcm!PlaybackAvail, Pcm!Overwritten, InRing
<1> QED
  BY <1>1 DEF PcmInv

LEMMA PcmSleepKeeps ==
  ASSUME PcmInv, Pcm!PcmConstants, Pcm!Sleep
  PROVE  PcmInv'
<1>1. CallInv' /\ StateInv' /\ FillInv' /\ RingInv'
  BY SMT
    DEF PcmInv, Pcm!Sleep, Pcm!TypeOK, CallInv, StateInv, FillInv, RingInv,
        Pcm!MustStart, Pcm!MustWait, Pcm!call, Pcm!kernel,
        Pcm!SuccessMeansWritten, Pcm!PlaybackAvail, Pcm!Overwritten,
        InRing, Pcm!ReachesThreshold, Pcm!WaitsForAvailMin
<1>2. Pcm!TypeOK'
  <2>1. {running, prepared, waitForAvailMin}' \subseteq BOOLEAN
    BY Zenon
      DEF PcmInv, Pcm!Sleep, Pcm!TypeOK, Pcm!MustStart, Pcm!MustWait,
          Pcm!call, Pcm!kernel, Pcm!ReachesThreshold, Pcm!WaitsForAvailMin
  <2> QED
    BY <2>1, SMT
      DEF PcmInv, Pcm!Sleep, Pcm!TypeOK, Pcm!MustStart, Pcm!MustWait,
          Pcm!call, Pcm!kernel, Pcm!ReachesThreshold, Pcm!WaitsForAvailMin
<1> QED
  BY <1>1, <1>2 DEF PcmInv

LEMMA PcmBeginCopyKeeps ==
  ASSUME PcmInv, Pcm!PcmConstants, Pcm!BeginCopy
  PROVE  PcmInv'
<1>1. Pcm!TypeOK' /\ CallInv' /\ StateInv' /\ RingInv'
  BY SMT
    DEF PcmInv, Pcm!BeginCopy, Pcm!TypeOK, CallInv, StateInv, RingInv,
        Pcm!MustStart, Pcm!MustWait, Pcm!WaitsForAvailMin, Pcm!Least,
        Pcm!Return, Pcm!kernel, Pcm!SuccessMeansWritten, Pcm!PlaybackAvail,
        Pcm!Overwritten, InRing, Pcm!ReachesThreshold
<1>2. FillInv'
  BY SMT
    DEF PcmInv, Pcm!BeginCopy, Pcm!TypeOK, FillInv, StateInv, Pcm!MustStart,
        Pcm!MustWait, Pcm!WaitsForAvailMin, Pcm!Least, Pcm!Return, Pcm!kernel, Pcm!PlaybackAvail, Pcm!ReachesThreshold
<1> QED
  BY <1>1, <1>2 DEF PcmInv

LEMMA PcmWakeToWriteKeeps ==
  ASSUME PcmInv, Pcm!PcmConstants, Pcm!WakeToWrite
  PROVE  PcmInv'
<1>1. Pcm!TypeOK' /\ CallInv' /\ StateInv' /\ FillInv' /\ RingInv'
  BY KernelRoom, SMT
    DEF PcmInv, Pcm!WakeToWrite, Pcm!TypeOK, CallInv, StateInv, FillInv,
        RingInv, Pcm!struct, Pcm!call, Pcm!kernel, Pcm!SuccessMeansWritten,
        Pcm!PlaybackAvail, Pcm!Overwritten, InRing
<1> QED
  BY <1>1 DEF PcmInv

LEMMA PcmGiveUpKeeps ==
  ASSUME PcmInv, Pcm!PcmConstants, Pcm!WakeToFail \/ Pcm!Interrupted
  PROVE  PcmInv'
<1>1. Pcm!GiveUp /\ {hwPtr, kernelHw}' \subseteq {hwPtr, kernelHw}
      /\ kernelAppl' \in {kernelAppl, applPtr}
  BY DEF Pcm!WakeToFail, Pcm!Interrupted, Pcm!GiveUp
<1>2. CallInv' /\ StateInv' /\ FillInv' /\ RingInv'
  BY <1>1, SMT
    DEF PcmInv, Pcm!GiveUp, Pcm!TypeOK, CallInv, StateInv, FillInv, RingInv,
        Pcm!Return, Pcm!SuccessMeansWritten
<1>3. Pcm!TypeOK'
  <2>1. {running, prepared, waitForAvailMin}' \subseteq BOOLEAN
    BY <1>1, Zenon DEF PcmInv, Pcm!GiveUp, Pcm!TypeOK
  <2> QED
    BY <1>1, <2>1, SMT DEF PcmInv, Pcm!GiveUp, Pcm!TypeOK, Pcm!Return
<1> QED
  BY <1>2, <1>3 DEF PcmInv

LEMMA PcmStopsKeeps ==
  ASSUME PcmInv, Pcm!PcmConstants, Pcm!Suspend \/ Pcm!Disconnect
  PROVE  PcmInv'
<1>1. Pcm!TypeOK' /\ CallInv' /\ StateInv' /\ FillInv' /\ RingInv'
  BY SMT
    DEF PcmInv, Pcm!Suspend, Pcm!Disconnect, Pcm!Stops, Pcm!TypeOK, CallInv,
        StateInv, FillInv, RingInv, Pcm!struct, Pcm!call,
        Pcm!SuccessMeansWritten, Pcm!PlaybackAvail
<1> QED
  BY <1>1 DEF PcmInv

LEMMA PcmCopyKeeps ==
  ASSUME PcmInv, Pcm!PcmConstants, Pcm!Copy
  PROVE  PcmInv'
<1>1. PICK c \in Nat :
             /\ c <= size /\ c <= BufferSize
             /\ c <= Pcm!PlaybackAvail(kernelHw, applPtr)
             /\ applPtr' = Pcm!ApplForward(applPtr, c)
             /\ unplayed' = Pcm!Least(unplayed + c, BufferSize + 1)
             /\ size' = size - c /\ count' = count - c
  BY RoundFits DEF Pcm!Copy, PcmInv
<1>2. Pcm!TypeOK'
  BY <1>1, KernelRoom, SMT
    DEF PcmInv, Pcm!Copy, Pcm!TypeOK, CallInv, Pcm!Updated, Pcm!ApplForward,
        Pcm!Least, Pcm!SuccessMeansWritten
<1>3. CallInv'
  <2>1. /\ pcm' = IF size' = 0 THEN "look" ELSE "copy"
        /\ size' <= count' /\ size' \in Nat
    BY <1>1, SMT DEF PcmInv, Pcm!Copy, Pcm!TypeOK, CallInv
  <2> QED
    BY <1>1, <2>1, SMT
      DEF PcmInv, Pcm!TypeOK, CallInv, Pcm!SuccessMeansWritten
<1>4. StateInv'
  BY <1>1, KernelRoom, SMT
    DEF PcmInv, Pcm!Copy, Pcm!TypeOK, StateInv, Pcm!Updated, Pcm!ApplForward,
        Pcm!Least, Pcm!PlaybackAvail
<1>5. FillInv'
  <2> SUFFICES ASSUME ~running', prepared' PROVE FillInv'
    BY DEF FillInv
  <2>1. /\ ~running /\ prepared /\ pcm = "copy"
        /\ kernelHw = 0 /\ kernelHw' = 0
    BY DEF Pcm!Copy, PcmInv, FillInv
  <2>2. \/ applPtr \in 0 .. BufferSize /\ unplayed = applPtr
        \/ applPtr = Boundary /\ unplayed = 0
    BY <2>1, SMT DEF PcmInv, FillInv, Pcm!TypeOK
  <2>3. c <= Pcm!PlaybackAvail(0, applPtr) /\ c <= BufferSize
    BY <1>1, <2>1
  <2>4. applPtr \in 0 .. BufferSize
          => Pcm!PlaybackAvail(0, applPtr) = BufferSize - applPtr
    BY SMT DEF Pcm!PlaybackAvail
  <2>5. applPtr = Boundary /\ c = 0 => applPtr' = Boundary /\ unplayed' = 0
    BY <1>1, <2>2, SMT DEF Pcm!ApplForward, Pcm!Least
  <2>6. ~(applPtr = Boundary /\ c = 0)
          => applPtr' \in 0 .. BufferSize /\ unplayed' = applPtr'
    BY <1>1, <2>2, <2>3, <2>4, SMT DEF Pcm!ApplForward, Pcm!Least
  <2> QED
    BY <2>1, <2>5, <2>6, SMT DEF FillInv
<1>6. RingInv'
  <2> SUFFICES ASSUME running', pcmState' = "running"
               PROVE  /\ kernelAppl' = applPtr' /\ unplayed' <= BufferSize + 1
                      /\ ~Pcm!Overwritten' => unplayed' >= 1 /\ InRing'
    BY DEF RingInv
  <2>1. /\ running /\ pcmState = "running"
        /\ kernelAppl' = applPtr' /\ kernelHw' = kernelHw
    BY SMT DEF Pcm!Copy, Pcm!Updated
  <2>2. unplayed' \in Nat /\ unplayed' <= BufferSize + 1
    BY <1>1, SMT DEF Pcm!Least, PcmInv, Pcm!TypeOK
  <2>3. ASSUME ~Pcm!Overwritten' PROVE unplayed' >= 1 /\ InRing'
    <3>1. unplayed \in 1 .. BufferSize /\ InRing
      BY <1>1, <2>1, <2>3, SMT
        DEF Pcm!Overwritten, Pcm!Least, PcmInv, Pcm!TypeOK, RingInv
    <3>2. unplayed' = unplayed + c /\ unplayed' <= BufferSize
      BY <1>1, <2>3, <3>1, SMT DEF Pcm!Overwritten, Pcm!Least
    <3> QED
      BY <1>1, <2>1, <3>1, <3>2, SMT
        DEF PcmInv, Pcm!TypeOK, InRing, Pcm!ApplForward
  <2> QED
    BY <2>1, <2>2, <2>3
<1> QED
  BY <1>2, <1>3, <1>4, <1>5, <1>6 DEF PcmInv

LEMMA PcmPlayKeeps ==
  ASSUME PcmInv, Pcm!PcmConstants, NEW frames \in 1 .. Ahead, Pcm!Play(frames)
  PROVE  PcmInv'
<1>1. /\ kernelHw' = IF kernelHw + frames >= Boundary
                      THEN kernelHw + frames - Boundary ELSE kernelHw + frames
      /\ kernelHw' \in 0 .. Boundary - 1
  <2>1. kernelHw \in 0 .. Boundary - 1
    BY DEF PcmInv, Pcm!TypeOK
  <2>2. kernelHw' = (kernelHw + frames) % Boundary
    BY DEF Pcm!Play
  <2>3. frames \in 1 .. Ahead
    OBVIOUS
  <2>4. (kernelHw + frames) % Boundary
          = IF kernelHw + frames >= Boundary THEN kernelHw + frames - Boundary
            ELSE kernelHw + frames
    BY <2>1, <2>3, Plays, Zenon
  <2> QED
    BY <2>1, <2>2, <2>3, <2>4, SMT
<1>2. Pcm!TypeOK' /\ CallInv' /\ StateInv'
  BY <1>1, KernelRoom, SMT
    DEF PcmInv, Pcm!Play, Pcm!TypeOK, CallInv, StateInv, Pcm!Overwritten,
        Pcm!Least, Pcm!Updated, Pcm!struct, Pcm!call, Pcm!SuccessMeansWritten,
        Pcm!PlaybackAvail
<1>3. FillInv'
  BY <1>1, KernelRoom, SMT
    DEF PcmInv, Pcm!Play, Pcm!TypeOK, FillInv, StateInv, Pcm!Overwritten,
        Pcm!Least, Pcm!Updated, Pcm!struct, Pcm!call,
        Pcm!PlaybackAvail
<1>4. RingInv'
  <2> SUFFICES ASSUME running', pcmState' = "running"
               PROVE  /\ kernelAppl' = applPtr' /\ unplayed' <= BufferSize + 1
                      /\ ~Pcm!Overwritten' => unplayed' >= 1 /\ InRing'
    BY DEF RingInv
  <2>1. /\ running /\ pcmState = "running" /\ kernelAppl = applPtr
        /\ UNCHANGED <<kernelAppl, applPtr>>
    BY SMT DEF Pcm!Play, PcmInv, RingInv, Pcm!struct
  <2>2. Pcm!KernelAvail(kernelHw', applPtr) < BufferSize
    BY <1>1, <2>1, KernelRoom, SMT
      DEF Pcm!Play, Pcm!Updated, PcmInv, Pcm!TypeOK
  <2>3. CASE Pcm!Overwritten
    BY <2>1, <2>3, SMT
      DEF Pcm!Play, Pcm!Overwritten, PcmInv, Pcm!TypeOK, RingInv
  <2>4. CASE ~Pcm!Overwritten
    <3>1. unplayed \in 1 .. BufferSize /\ InRing
      BY <2>1, <2>4, SMT DEF Pcm!Overwritten, PcmInv, Pcm!TypeOK, RingInv
    <3>2. frames < unplayed
      BY <1>1, <2>1, <2>2, <3>1, KernelRoom, SMT
        DEF PcmInv, Pcm!TypeOK, InRing
    <3>3. unplayed' = unplayed - frames
      BY <2>4, <3>1, <3>2, SMT DEF Pcm!Play, Pcm!Least
    <3> QED
      BY <1>1, <2>1, <3>1, <3>2, <3>3, SMT DEF PcmInv, Pcm!TypeOK, InRing
  <2> QED
    BY <2>3, <2>4
<1> QED
  BY <1>2, <1>3, <1>4 DEF PcmInv

LEMMA PcmStutterKeeps ==
  ASSUME PcmInv, Pcm!PcmConstants, UNCHANGED Pcm!pcmVars
  PROVE  PcmInv'
<1>1. Pcm!TypeOK' /\ CallInv' /\ StateInv' /\ FillInv' /\ RingInv'
  BY SMT
    DEF PcmInv, Pcm!pcmVars, Pcm!TypeOK, CallInv, StateInv, FillInv, RingInv,
        Pcm!SuccessMeansWritten, Pcm!PlaybackAvail, Pcm!Overwritten,
        InRing
<1> QED
  BY <1>1 DEF PcmInv

LEMMA PcmInitially ==
  ASSUME Pcm!PcmConstants, Pcm!Init
  PROVE  PcmInv
<1>1. Pcm!TypeOK
  <2>1. {running, prepared, waitForAvailMin} \subseteq BOOLEAN
    BY Zenon DEF Pcm!Init
  <2> QED
    BY <2>1, SMT DEF Pcm!Init, Pcm!TypeOK
<1>2. CallInv /\ StateInv /\ FillInv /\ RingInv
  BY SMT
    DEF Pcm!Init, CallInv, StateInv, FillInv, RingInv, Pcm!SuccessMeansWritten
<1> QED
  BY <1>1, <1>2 DEF PcmInv

LEMMA PcmStep ==
  ASSUME Pcm!PcmConstants, PcmInv, [Pcm!Next]_Pcm!pcmVars
  PROVE  PcmInv'
BY Zenon, PcmWriteKeeps, PcmAvailUpdateKeeps, PcmAllWrittenKeeps,
   PcmStartKeeps, PcmStartRefusedKeeps, PcmSleepKeeps, PcmBeginCopyKeeps,
   PcmWakeToWriteKeeps, PcmGiveUpKeeps, PcmCopyKeeps, PcmPlayKeeps,
   PcmStopsKeeps, PcmStutterKeeps
  DEF Pcm!Next, Pcm!Transfer, Pcm!Playing

(* The step that overwrites is a round of the copy, and its room was the    *)
(* boundary: with less than a full ring, or with both positions on one side *)
(* of the boundary, the room is what was played.                            *)
LEMMA RoomInRing ==
  ASSUME Pcm!PcmConstants, PcmInv, Pcm!Next, running, pcmState = "running",
         Pcm!Overwritten', ~Pcm!Overwritten
  PROVE  Pcm!WriterAloneWrapped
<1>1. Pcm!Copy
  <2>1. unplayed \in Nat /\ unplayed' \in Nat
    BY PcmStep DEF PcmInv, Pcm!TypeOK
  <2>2. unplayed < unplayed' /\ unplayed' # 0
    BY <2>1, SMT DEF Pcm!Overwritten
  <2>3. \/ \E frames \in 1 .. Ahead : Pcm!Play(frames)
        \/ Pcm!WakeToFail \/ Pcm!Interrupted \/ Pcm!Copy
    <3>1. ~Pcm!Start
      BY DEF Pcm!Start, Pcm!MustStart
    <3>2. \/ unplayed' = unplayed
          \/ \E frames \in 1 .. Ahead : Pcm!Play(frames)
          \/ Pcm!WakeToFail \/ Pcm!Interrupted \/ Pcm!Copy
      BY <3>1, Zenon
        DEF Pcm!Next, Pcm!Transfer, Pcm!Playing, Pcm!Write, Pcm!AvailUpdate,
            Pcm!AllWritten, Pcm!StartRefused, Pcm!Sleep, Pcm!BeginCopy,
            Pcm!WakeToWrite, Pcm!Suspend, Pcm!Disconnect, Pcm!Stops, Pcm!kernel
    <3> QED
      BY <2>1, <2>2, <3>2
  <2>4. ASSUME NEW frames \in 1 .. Ahead PROVE ~Pcm!Play(frames)
    BY <2>1, <2>2, SMT DEF Pcm!Play, Pcm!Least
  <2>5. ~Pcm!WakeToFail /\ ~Pcm!Interrupted
    BY <2>2, Zenon DEF Pcm!WakeToFail, Pcm!Interrupted, Pcm!GiveUp
  <2> QED
    BY <2>3, <2>4, <2>5
<1>2. /\ unplayed + Pcm!Copyable > BufferSize
      /\ Pcm!Copyable <= Pcm!PlaybackAvail(kernelHw, applPtr)
  BY <1>1, RoundFits, SMT
    DEF Pcm!Copy, Pcm!Overwritten, Pcm!Least, PcmInv, Pcm!TypeOK
<1>3. Pcm!Copyable \in Nat
  BY RoundFits DEF PcmInv
<1>4. unplayed \in 1 .. BufferSize /\ InRing
  BY SMT DEF PcmInv, Pcm!TypeOK, RingInv, Pcm!Overwritten
<1>5. CASE applPtr = kernelHw + unplayed
  <2>1. Pcm!PlaybackAvail(kernelHw, applPtr) = BufferSize - unplayed
    BY <1>4, <1>5, SMT DEF Pcm!PlaybackAvail, PcmInv, Pcm!TypeOK
  <2> QED
    BY <1>2, <1>3, <1>4, <2>1, SMT
<1>6. CASE applPtr = kernelHw + unplayed - Boundary /\ applPtr >= 1
  <2>1. unplayed < BufferSize
          => Pcm!PlaybackAvail(kernelHw, applPtr) = BufferSize - unplayed
    BY <1>4, <1>6, SMT DEF Pcm!PlaybackAvail, PcmInv, Pcm!TypeOK
  <2>2. unplayed = BufferSize
    BY <1>2, <1>3, <1>4, <2>1, SMT
  <2> QED
    BY <1>6, <2>2, SMT DEF Pcm!WriterAloneWrapped, PcmInv, Pcm!TypeOK
<1> QED
  BY <1>4, <1>5, <1>6 DEF InRing

HIDE DEF Pcm!PcmConstants, ModestClient

-----------------------------------------------------------------------------
(* The record of the battery.                                               *)

ScriptPlaces == {"restore", "load", "sample", "truncateStore", "writeStore",
                 "measure", "truncateState", "writeState", "forget", "sleep",
                 "off"}
Levels == 1 .. Top
Starts == Levels \cup {Battery!None}

RecordTypes ==
  /\ level \in Levels /\ plugged \in BOOLEAN /\ script \in ScriptPlaces
  /\ cap \in Starts /\ cur \in BOOLEAN
  /\ startCap \in Starts /\ acc \in Nat
  /\ saved = [start |-> saved.start, acc |-> saved.acc]
  /\ saved.start \in Starts /\ saved.acc \in Nat
  /\ faults \in Nat /\ whole \in BOOLEAN /\ gained \in Nat /\ lost \in Nat

(* The script has a sample of this interval; it has counted it; it does not *)
(* run.                                                                     *)
Sampled == {"truncateStore", "writeStore", "measure"}
Counted == {"truncateState", "writeState", "sleep"}
Resting == {"restore", "load", "off"}

SampleInv ==
  /\ script \in Sampled =>
       cap = level /\ charging = Battery!Status
  /\ whole => plugged

(* STORE holds the oldest of the levels read since it was written; each of  *)
(* the others but one that is about to be stored was lost to a stop.        *)
StoreInv ==
  /\ saw \in Seq(Levels) /\ stops \in Nat
  /\ Battery!Valid(store) => Len(saw) > 0 /\ store = saw[Len(saw)]
  /\ Len(saw) <=
       stops + IF script \in {"truncateStore", "writeStore"} THEN 2 ELSE 1

(* STATE is what the script counts, one interval behind, or lost.           *)
SavedInv ==
  /\ script \in Sampled \cup {"sample", "forget", "sleep"}
       => saved.start = startCap /\ saved.acc = acc
  /\ script = "truncateState" =>
       /\ startCap # Battery!None
       /\ saved.start # Battery!None =>
            saved.start = startCap /\ saved.acc + 1 = acc
  /\ script = "writeState" =>
       saved.start = Battery!None /\ startCap # Battery!None

(* With an interval still to count, what was counted is one behind the      *)
(* charge, give or take those lost; of a full battery it may be ahead by    *)
(* all those lost, since the charge no longer grows.                        *)
Due(counted) ==
  /\ gained - counted <= lost + 1
  /\ counted - gained <= IF level < Top THEN lost - 1 ELSE lost

CountInv ==
  whole =>
    /\ script \in Resting /\ saved.start # Battery!None => Due(saved.acc)
    /\ script \in Sampled \cup {"sample", "forget"} /\ startCap # Battery!None
         => Due(acc) /\ (script \in Sampled /\ ~cur => gained - acc <= lost)
    /\ script \in Counted /\ startCap # Battery!None =>
         gained - acc <= lost /\ acc - gained <= lost

RecordInv ==
  /\ RecordTypes /\ SampleInv /\ StoreInv /\ SavedInv /\ CountInv
  /\ Battery!CountsEachInterval

USE DEF Battery!BatteryConstants, Battery!None, Battery!Empty, Levels, Starts

LEMMA RecordRestoreKeeps ==
  ASSUME RecordInv, Battery!BatteryConstants, Battery!Restore
  PROVE  RecordInv'
<1>1. /\ RecordTypes' /\ SampleInv' /\ StoreInv'
      /\ SavedInv' /\ CountInv' /\ Battery!CountsEachInterval'
  BY SMT
    DEF RecordInv, Battery!Restore, RecordTypes, SampleInv, StoreInv,
        SavedInv, CountInv, Battery!CountsEachInterval, Battery!Valid,
        Battery!world, Battery!sample, Battery!readings, ScriptPlaces,
        Sampled, Battery!Status, Resting, Due, Counted
<1> QED
  BY <1>1 DEF RecordInv

LEMMA RecordLoadKeeps ==
  ASSUME RecordInv, Battery!BatteryConstants, Battery!Load
  PROVE  RecordInv'
<1>1. /\ RecordTypes' /\ SampleInv' /\ StoreInv'
      /\ SavedInv' /\ CountInv' /\ Battery!CountsEachInterval'
  BY SMT
    DEF RecordInv, Battery!Load, RecordTypes, SampleInv, StoreInv, SavedInv,
        CountInv, Battery!CountsEachInterval, Battery!sample, Battery!world,
        Battery!files, Battery!readings, ScriptPlaces, Sampled,
        Battery!Status, Battery!Valid, Resting, Due, Counted
<1> QED
  BY <1>1 DEF RecordInv

LEMMA RecordSampleKeeps ==
  ASSUME RecordInv, Battery!BatteryConstants, Battery!Sample
  PROVE  RecordInv'
<1>1. /\ SampleInv' /\ SavedInv'
      /\ CountInv' /\ Battery!CountsEachInterval'
  <2>1. /\ script = "sample" /\ script' = "truncateStore"
        /\ cap' = level /\ charging' = Battery!Status
        /\ \/ cur' = TRUE /\ UNCHANGED lost
           \/ cur' = FALSE /\ lost' = IF whole THEN lost + 1 ELSE lost
        /\ UNCHANGED <<level, plugged, whole, gained, startCap, acc>>
        /\ UNCHANGED <<saved, real>>
    BY DEF Battery!Sample, Battery!world, Battery!files
  <2> QED
    BY <2>1, SMT
      DEF RecordInv, RecordTypes, SampleInv, SavedInv, CountInv, Sampled,
          Battery!CountsEachInterval, Battery!Status, Resting, Due, Counted
<1>2. RecordTypes'
  <2>1. {cur, plugged, whole}' \subseteq BOOLEAN
    BY Zenon
      DEF RecordInv, Battery!Sample, RecordTypes, Battery!sample,
          Battery!Status, Battery!world, Battery!files, ScriptPlaces
  <2> QED
    BY <2>1, SMT
      DEF RecordInv, Battery!Sample, RecordTypes, Battery!sample,
          Battery!Status, Battery!world, Battery!files, ScriptPlaces
<1>3. StoreInv'
  <2>1. /\ UNCHANGED <<store, stops>> /\ saw' = <<level>> \o saw
        /\ script = "sample" /\ script' = "truncateStore"
    BY DEF Battery!Sample, Battery!files
  <2>2. saw \in Seq(Levels) /\ level \in Levels
    BY DEF RecordInv, StoreInv, RecordTypes
  <2>3. /\ saw' \in Seq(Levels) /\ Len(saw') = Len(saw) + 1
        /\ Len(saw) > 0 => saw'[Len(saw')] = saw[Len(saw)]
    BY <2>1, <2>2
  <2> QED
    BY <2>1, <2>2, <2>3 DEF RecordInv, StoreInv, Battery!Valid
<1> QED
  BY <1>1, <1>2, <1>3 DEF RecordInv

LEMMA RecordTruncateStoreKeeps ==
  ASSUME RecordInv, Battery!BatteryConstants, Battery!TruncateStore
  PROVE  RecordInv'
<1>1. /\ RecordTypes' /\ SampleInv' /\ StoreInv'
      /\ SavedInv' /\ CountInv' /\ Battery!CountsEachInterval'
  BY SMT
    DEF RecordInv, Battery!TruncateStore, RecordTypes, SampleInv, StoreInv,
        SavedInv, CountInv, Battery!CountsEachInterval, Battery!world,
        Battery!sample, Battery!readings, ScriptPlaces, Sampled,
        Battery!Status, Battery!Valid, Resting, Due, Counted
<1> QED
  BY <1>1 DEF RecordInv

LEMMA RecordWriteStoreKeeps ==
  ASSUME RecordInv, Battery!BatteryConstants, Battery!WriteStore
  PROVE  RecordInv'
<1>1. /\ RecordTypes' /\ SampleInv' /\ SavedInv'
      /\ CountInv' /\ Battery!CountsEachInterval'
  BY SMT
    DEF RecordInv, Battery!WriteStore, RecordTypes, SampleInv, SavedInv,
        CountInv, Battery!CountsEachInterval, Battery!world, Battery!sample,
        Battery!readings, ScriptPlaces, Sampled, Battery!Status, Resting, Due,
        Counted
<1>2. StoreInv'
  BY SMT
    DEF RecordInv, Battery!WriteStore, RecordTypes, StoreInv, SampleInv,
        Battery!world, Battery!sample, Battery!readings, ScriptPlaces,
        Battery!Valid, Sampled, Battery!Status
<1> QED
  BY <1>1, <1>2 DEF RecordInv

LEMMA RecordBeginKeeps ==
  ASSUME RecordInv, Battery!BatteryConstants, Battery!Begin
  PROVE  RecordInv'
<1>1. /\ RecordTypes' /\ SampleInv' /\ StoreInv'
      /\ CountInv' /\ Battery!CountsEachInterval'
  BY SMT
    DEF RecordInv, Battery!Begin, RecordTypes, SampleInv, StoreInv, CountInv,
        Battery!CountsEachInterval, Battery!Low, Battery!sample,
        Battery!files, Battery!readings, ScriptPlaces, Sampled,
        Battery!Status, Battery!Valid, Resting, Due, Counted
<1>2. SavedInv'
  BY SMT
    DEF RecordInv, Battery!Begin, RecordTypes, SavedInv, SampleInv,
        Battery!Low, Battery!sample, Battery!files, Battery!readings,
        ScriptPlaces, Sampled, Battery!Status
<1> QED
  BY <1>1, <1>2 DEF RecordInv

LEMMA RecordCountKeeps ==
  ASSUME RecordInv, Battery!BatteryConstants, Battery!Count
  PROVE  RecordInv'
<1>1. /\ RecordTypes' /\ SampleInv' /\ StoreInv'
      /\ SavedInv' /\ Battery!CountsEachInterval'
  BY SMT
    DEF RecordInv, Battery!Count, RecordTypes, SampleInv, StoreInv, SavedInv,
        Battery!CountsEachInterval, Battery!world, Battery!sample,
        Battery!files, Battery!readings, ScriptPlaces, Sampled,
        Battery!Status, Battery!Valid
<1>2. CountInv'
  BY SMT
    DEF RecordInv, Battery!Count, RecordTypes, CountInv, SampleInv,
        Battery!world, Battery!sample, Battery!files, Battery!readings,
        ScriptPlaces, Resting, Due, Sampled, Counted, Battery!Status
<1> QED
  BY <1>1, <1>2 DEF RecordInv

LEMMA RecordTruncateStateKeeps ==
  ASSUME RecordInv, Battery!BatteryConstants, Battery!TruncateState
  PROVE  RecordInv'
<1>1. /\ RecordTypes' /\ SampleInv' /\ StoreInv'
      /\ SavedInv' /\ CountInv' /\ Battery!CountsEachInterval'
  BY SMT
    DEF RecordInv, Battery!TruncateState, RecordTypes, SampleInv, StoreInv,
        SavedInv, CountInv, Battery!CountsEachInterval, Battery!NoState,
        Battery!world, Battery!sample, Battery!readings, ScriptPlaces,
        Sampled, Battery!Status, Battery!Valid, Resting, Due, Counted
<1> QED
  BY <1>1 DEF RecordInv

LEMMA RecordWriteStateKeeps ==
  ASSUME RecordInv, Battery!BatteryConstants, Battery!WriteState
  PROVE  RecordInv'
<1>1. /\ RecordTypes' /\ SampleInv' /\ StoreInv'
      /\ SavedInv' /\ CountInv' /\ Battery!CountsEachInterval'
  BY SMT
    DEF RecordInv, Battery!WriteState, RecordTypes, SampleInv, StoreInv,
        SavedInv, CountInv, Battery!CountsEachInterval, Battery!world,
        Battery!sample, Battery!readings, ScriptPlaces, Sampled,
        Battery!Status, Battery!Valid, Resting, Due, Counted
<1> QED
  BY <1>1 DEF RecordInv

LEMMA RecordPublishKeeps ==
  ASSUME RecordInv, Battery!BatteryConstants, Battery!Publish
  PROVE  RecordInv'
<1>1. RecordTypes' /\ SampleInv' /\ StoreInv' /\ SavedInv' /\ CountInv'
  BY SMT
    DEF RecordInv, Battery!Publish, RecordTypes, SampleInv, StoreInv,
        SavedInv, CountInv, Battery!Long, Battery!Plausible, Battery!FullOf,
        Battery!Greater, Battery!Distance, Battery!world, Battery!sample,
        Battery!readings, ScriptPlaces, Sampled, Battery!Status,
        Battery!Valid, Resting, Due, Counted
<1>2. Battery!CountsEachInterval'
  BY SMT
    DEF RecordInv, Battery!Publish, RecordTypes, Battery!CountsEachInterval,
        CountInv, Battery!Long, Battery!Plausible, Battery!FullOf,
        Battery!Greater, Battery!Distance, Battery!world, Battery!sample,
        Battery!readings, ScriptPlaces, Resting, Due, Sampled, Counted
<1> QED
  BY <1>1, <1>2 DEF RecordInv

LEMMA RecordInterruptKeeps ==
  ASSUME RecordInv, Battery!BatteryConstants, Battery!Interrupt
  PROVE  RecordInv'
<1>1. /\ RecordTypes' /\ SampleInv' /\ StoreInv'
      /\ SavedInv' /\ CountInv' /\ Battery!CountsEachInterval'
  BY SMT
    DEF RecordInv, Battery!Interrupt, RecordTypes, SampleInv, StoreInv,
        SavedInv, CountInv, Battery!CountsEachInterval, Battery!world,
        Battery!sample, Battery!files, Battery!readings, ScriptPlaces,
        Sampled, Battery!Status, Battery!Valid, Resting, Due, Counted
<1> QED
  BY <1>1 DEF RecordInv

LEMMA RecordForgetKeeps ==
  ASSUME RecordInv, Battery!BatteryConstants, Battery!Forget
  PROVE  RecordInv'
<1>1. /\ SampleInv' /\ StoreInv' /\ SavedInv'
      /\ CountInv' /\ Battery!CountsEachInterval'
  BY SMT
    DEF RecordInv, Battery!Forget, RecordTypes, SampleInv, StoreInv, SavedInv,
        CountInv, Battery!CountsEachInterval, Battery!NoState, Battery!sample,
        Battery!readings, ScriptPlaces, Sampled, Battery!Status,
        Battery!Valid, Resting, Due, Counted
<1>2. RecordTypes'
  <2>1. {cur, plugged, whole}' \subseteq BOOLEAN
    BY Zenon
      DEF RecordInv, Battery!Forget, RecordTypes, Battery!NoState,
          Battery!sample, Battery!readings, ScriptPlaces
  <2> QED
    BY <2>1, SMT
      DEF RecordInv, Battery!Forget, RecordTypes, Battery!NoState,
          Battery!sample, Battery!readings, ScriptPlaces
<1> QED
  BY <1>1, <1>2 DEF RecordInv

LEMMA RecordNothingToMeasureKeeps ==
  ASSUME RecordInv, Battery!BatteryConstants, Battery!NothingToMeasure
  PROVE  RecordInv'
<1>1. /\ RecordTypes' /\ SampleInv' /\ StoreInv'
      /\ SavedInv' /\ CountInv' /\ Battery!CountsEachInterval'
  BY SMT
    DEF RecordInv, Battery!NothingToMeasure, RecordTypes, SampleInv, StoreInv,
        SavedInv, CountInv, Battery!CountsEachInterval, Battery!Low,
        Battery!world, Battery!sample, Battery!files, Battery!readings,
        ScriptPlaces, Sampled, Battery!Status, Battery!Valid, Resting, Due,
        Counted
<1> QED
  BY <1>1 DEF RecordInv

LEMMA RecordKillKeeps ==
  ASSUME RecordInv, Battery!BatteryConstants, Battery!Kill
  PROVE  RecordInv'
<1>1. /\ RecordTypes' /\ SampleInv'
      /\ SavedInv' /\ Battery!CountsEachInterval'
  BY SMT
    DEF RecordInv, Battery!Kill, RecordTypes, SampleInv, SavedInv,
        Battery!CountsEachInterval, Battery!Stopped, ScriptPlaces, Sampled,
        Battery!Status, Battery!sample, Battery!files
<1>2. CountInv'
  BY SMT
    DEF RecordInv, Battery!Kill, RecordTypes, CountInv, SavedInv,
        Battery!Stopped, ScriptPlaces, Resting, Due, Sampled, Battery!sample,
        Counted, Battery!files
<1>3. StoreInv'
  <2>1. /\ UNCHANGED <<store, saw>> /\ stops' = stops + 1
        /\ script' \in {"restore", "off"}
    BY DEF Battery!Kill, Battery!Stopped, Battery!files
  <2> QED
    BY <2>1 DEF RecordInv, StoreInv, Battery!Valid
<1> QED
  BY <1>1, <1>2, <1>3 DEF RecordInv

LEMMA RecordSwitchOffKeeps ==
  ASSUME RecordInv, Battery!BatteryConstants, Battery!SwitchOff
  PROVE  RecordInv'
<1>1. /\ RecordTypes' /\ SampleInv'
      /\ SavedInv' /\ Battery!CountsEachInterval'
  BY SMT
    DEF RecordInv, Battery!SwitchOff, RecordTypes, SampleInv, SavedInv,
        Battery!CountsEachInterval, Battery!Stopped, ScriptPlaces, Sampled,
        Battery!Status, Battery!sample, Battery!files
<1>2. CountInv'
  BY SMT
    DEF RecordInv, Battery!SwitchOff, RecordTypes, CountInv, SavedInv,
        Battery!Stopped, ScriptPlaces, Resting, Due, Sampled, Battery!sample,
        Counted, Battery!files
<1>3. StoreInv'
  <2>1. /\ UNCHANGED <<store, saw>> /\ stops' = stops + 1
        /\ script' \in {"restore", "off"}
    BY DEF Battery!SwitchOff, Battery!Stopped, Battery!files
  <2> QED
    BY <2>1 DEF RecordInv, StoreInv, Battery!Valid
<1> QED
  BY <1>1, <1>2, <1>3 DEF RecordInv

LEMMA RecordBootKeeps ==
  ASSUME RecordInv, Battery!BatteryConstants, Battery!Boot
  PROVE  RecordInv'
<1>1. /\ RecordTypes' /\ SampleInv' /\ StoreInv'
      /\ SavedInv' /\ CountInv' /\ Battery!CountsEachInterval'
  BY SMT
    DEF RecordInv, Battery!Boot, RecordTypes, SampleInv, StoreInv, SavedInv,
        CountInv, Battery!CountsEachInterval, Battery!world, Battery!sample,
        Battery!files, Battery!readings, ScriptPlaces, Sampled,
        Battery!Status, Battery!Valid, Resting, Due, Counted
<1> QED
  BY <1>1 DEF RecordInv

LEMMA RecordSleepKeeps ==
  ASSUME RecordInv, Battery!BatteryConstants, NEW charger \in BOOLEAN,
         Battery!Sleep(charger)
  PROVE  RecordInv'
<1>1. /\ RecordTypes' /\ SampleInv'
      /\ SavedInv' /\ CountInv' /\ Battery!CountsEachInterval'
  BY SMT
    DEF RecordInv, Battery!Sleep, RecordTypes, SampleInv, SavedInv, CountInv,
        Battery!CountsEachInterval, Battery!sample, Battery!Interval,
        ScriptPlaces, Sampled, Battery!Status, Resting, Due, Counted,
        Battery!files
<1>2. StoreInv'
  <2>1. /\ UNCHANGED <<store, saw, stops>>
        /\ script = "sleep" /\ script' = "sample"
    BY DEF Battery!Sleep, Battery!Interval, Battery!files, Battery!readings
  <2> QED
    BY <2>1 DEF RecordInv, StoreInv, Battery!Valid
<1> QED
  BY <1>1, <1>2 DEF RecordInv

LEMMA RecordOffForKeeps ==
  ASSUME RecordInv, Battery!BatteryConstants, NEW charger \in BOOLEAN,
         Battery!OffFor(charger)
  PROVE  RecordInv'
<1>1. ~whole'
  BY Zenon DEF Battery!OffFor, Battery!Interval
<1>2. /\ RecordTypes' /\ SampleInv'
      /\ SavedInv' /\ CountInv' /\ Battery!CountsEachInterval'
  BY <1>1, SMT
    DEF RecordInv, Battery!OffFor, RecordTypes, SampleInv, SavedInv, CountInv,
        Battery!CountsEachInterval, Battery!Interval, ScriptPlaces, Sampled,
        Battery!Status, Battery!sample, Resting, Due, Counted, Battery!files
<1>3. StoreInv'
  <2>1. UNCHANGED <<store, saw, stops>> /\ script = "off" /\ script' = "off"
    BY DEF Battery!OffFor, Battery!Interval, Battery!files, Battery!readings
  <2> QED
    BY <2>1 DEF RecordInv, StoreInv, Battery!Valid
<1> QED
  BY <1>2, <1>3 DEF RecordInv

LEMMA RecordStutterKeeps ==
  ASSUME RecordInv, Battery!BatteryConstants, UNCHANGED Battery!batteryVars
  PROVE  RecordInv'
<1>1. /\ RecordTypes' /\ SampleInv' /\ StoreInv'
      /\ SavedInv' /\ CountInv' /\ Battery!CountsEachInterval'
  BY SMT
    DEF RecordInv, Battery!batteryVars, RecordTypes, SampleInv, StoreInv,
        SavedInv, CountInv, Battery!CountsEachInterval, Battery!readings,
        ScriptPlaces, Sampled, Battery!Status, Battery!Valid, Battery!sample,
        Resting, Due, Counted
<1> QED
  BY <1>1 DEF RecordInv

LEMMA RecordInitially ==
  ASSUME Battery!BatteryConstants, Battery!Init
  PROVE  RecordInv
<1>1. RecordTypes
  <2>1. {cur, plugged, whole} \subseteq BOOLEAN
    BY Zenon DEF Battery!Init
  <2> QED
    BY <2>1, SMT DEF Battery!Init, RecordTypes, Battery!NoState, ScriptPlaces
<1>2. SampleInv /\ StoreInv /\ SavedInv
  BY SMT
    DEF Battery!Init, SampleInv, StoreInv, SavedInv, Sampled, Battery!Valid
<1>3. CountInv /\ Battery!CountsEachInterval
  BY SMT DEF Battery!Init, CountInv, Battery!CountsEachInterval
<1> QED
  BY <1>1, <1>2, <1>3 DEF RecordInv

LEMMA RecordStep ==
  ASSUME Battery!BatteryConstants, RecordInv,
         [Battery!Next]_Battery!batteryVars
  PROVE  RecordInv'
BY RecordRestoreKeeps, RecordLoadKeeps, RecordSampleKeeps,
   RecordTruncateStoreKeeps, RecordWriteStoreKeeps, RecordBeginKeeps,
   RecordCountKeeps, RecordTruncateStateKeeps, RecordWriteStateKeeps,
   RecordPublishKeeps, RecordInterruptKeeps, RecordForgetKeeps,
   RecordNothingToMeasureKeeps, RecordKillKeeps, RecordSwitchOffKeeps,
   RecordBootKeeps, RecordSleepKeeps, RecordOffForKeeps, RecordStutterKeeps,
   Zenon
  DEF Battery!Next, Battery!Script

LEMMA RestoredFromStore ==
  ASSUME RecordInv, Battery!Next, script = "restore", script' = "load",
         restored' # Battery!None
  PROVE  \E i \in DOMAIN saw : i <= stops + 1 /\ restored' = saw[i]
<1>1. Battery!Restore
  BY DEF Battery!Next, Battery!Script, Battery!Load, Battery!Sample,
       Battery!TruncateStore, Battery!WriteStore, Battery!Begin,
       Battery!Count, Battery!TruncateState, Battery!WriteState,
       Battery!Publish, Battery!Interrupt, Battery!Forget,
       Battery!NothingToMeasure, Battery!Kill, Battery!SwitchOff,
       Battery!Boot, Battery!Sleep, Battery!OffFor
<1>2. Battery!Valid(store) /\ restored' = store
  BY <1>1 DEF Battery!Restore
<1>3. /\ Len(saw) \in DOMAIN saw /\ store = saw[Len(saw)]
      /\ Len(saw) <= stops + 1
  BY <1>2 DEF RecordInv, StoreInv
<1> QED
  BY <1>2, <1>3

HIDE DEF Battery!BatteryConstants, Battery!None, Battery!Empty, Levels, Starts

-----------------------------------------------------------------------------
(* Each service runs as if alone: a step of the phone is a step of that     *)
(* service or leaves it as it is.                                           *)
LEMMA PowerAlone ==
  /\ ServicesInit => Power!Init
  /\ [ServicesNext]_serviceVars => [Power!Next]_Power!powerVars
<1>1. UNCHANGED powerPart => UNCHANGED Power!powerVars
  BY DEF powerPart, Power!powerVars
<1> QED
  BY <1>1, Zenon
    DEF ServicesInit, ServicesNext, serviceVars, InStream, InPcm, InRadio,
        InPower, InBattery

LEMMA PcmAlone ==
  /\ ServicesInit => Pcm!Init
  /\ [ServicesNext]_serviceVars => [Pcm!Next]_Pcm!pcmVars
<1>1. UNCHANGED pcmPart => UNCHANGED Pcm!pcmVars
  BY DEF pcmPart, Pcm!pcmVars
<1> QED
  BY <1>1, Zenon
    DEF ServicesInit, ServicesNext, serviceVars, InStream, InPcm, InRadio,
        InPower, InBattery

LEMMA BatteryAlone ==
  /\ ServicesInit => Battery!Init
  /\ [ServicesNext]_serviceVars => [Battery!Next]_Battery!batteryVars
<1>1. UNCHANGED batteryPart => UNCHANGED Battery!batteryVars
  BY DEF batteryPart, Battery!batteryVars
<1> QED
  BY <1>1, Zenon
    DEF ServicesInit, ServicesNext, serviceVars, InStream, InPcm, InRadio,
        InPower, InBattery

(* As long as no write of sysfs has failed, the limits of the kernel are    *)
(* those that the screen, power saving and the boost ask for whenever the   *)
(* mutex of power_sc8830.c is free.                                         *)
THEOREM LimitsFollowTheHal ==
  /\ Power!Spec => []KernelFollows
  /\ ServicesSpec => []KernelFollows
<1>1. Power!Init => PowerInv
  BY PowerInitially
<1>2. PowerInv /\ [Power!Next]_Power!powerVars => PowerInv'
  BY PowerStep
<1>3. PowerInv => KernelFollows
  BY FollowsInPowerInv DEF KernelFollows
<1>4. Power!Spec => []KernelFollows
  BY <1>1, <1>2, <1>3, PTL DEF Power!Spec
<1>5. ServicesSpec => []KernelFollows
  BY <1>1, <1>2, <1>3, PowerAlone, PTL DEF ServicesSpec
<1> QED
  BY <1>4, <1>5

(* A pcm_mmap_write that returns without an error has written all its       *)
(* frames, whatever the stream ran into meanwhile.                          *)
THEOREM NoErrorMeansWritten ==
  ASSUME ModestClient
  PROVE  /\ Pcm!Spec => []SuccessMeansWritten
         /\ ServicesSpec => []SuccessMeansWritten
<1>1. Pcm!Init => PcmInv
  BY PcmInitially, ServicesConstants
<1>2. PcmInv /\ [Pcm!Next]_Pcm!pcmVars => PcmInv'
  BY PcmStep, ServicesConstants
<1>3. PcmInv => SuccessMeansWritten
  BY DEF PcmInv, CallInv, SuccessMeansWritten
<1>4. Pcm!Spec => []SuccessMeansWritten
  BY <1>1, <1>2, <1>3, PTL DEF Pcm!Spec
<1>5. ServicesSpec => []SuccessMeansWritten
  BY <1>1, <1>2, <1>3, PcmAlone, PTL DEF ServicesSpec
<1> QED
  BY <1>4, <1>5

(* pcm_mmap_transfer writes over frames that were not played yet in one     *)
(* place only: in a full ring of which the writer alone has passed the      *)
(* boundary.                                                                *)
THEOREM FramesKeepTheirRoom ==
  /\ Pcm!Spec => RoomIsReal
  /\ ServicesSpec => RoomIsReal
<1>1. Pcm!Init => PcmInv
  BY PcmInitially, ServicesConstants
<1>2. PcmInv /\ [Pcm!Next]_Pcm!pcmVars => PcmInv'
  BY PcmStep, ServicesConstants
<1>3. ASSUME PcmInv, Pcm!Next, running, pcmState = "running",
             Pcm!Overwritten', ~Pcm!Overwritten
      PROVE  Pcm!WriterAloneWrapped
  BY <1>3, RoomInRing, ServicesConstants
<1>4. ASSUME UNCHANGED Pcm!pcmVars PROVE Pcm!Overwritten' = Pcm!Overwritten
  BY <1>4 DEF Pcm!pcmVars, Pcm!Overwritten
<1>5. Pcm!Spec => RoomIsReal
  BY <1>1, <1>2, <1>3, <1>4, PTL DEF Pcm!Spec, RoomIsReal, Pcm!RoomIsReal
<1>6. ServicesSpec => RoomIsReal
  BY <1>1, <1>2, <1>3, <1>4, PcmAlone, PTL
    DEF ServicesSpec, RoomIsReal, Pcm!RoomIsReal
<1> QED
  BY <1>5, <1>6

(* A capacity that a1000_batcap.sh publishes counts each interval of its    *)
(* charge once, though the script may be killed between any two of its      *)
(* steps, and its files are empty while they are written.                   *)
THEOREM IntervalsCountOnce ==
  /\ Battery!Spec => []CountsEachInterval
  /\ ServicesSpec => []CountsEachInterval
<1>1. Battery!Init => RecordInv
  BY RecordInitially, ServicesConstants
<1>2. RecordInv /\ [Battery!Next]_Battery!batteryVars => RecordInv'
  BY RecordStep, ServicesConstants
<1>3. RecordInv => CountsEachInterval
  BY DEF RecordInv, CountsEachInterval
<1>4. Battery!Spec => []CountsEachInterval
  BY <1>1, <1>2, <1>3, PTL DEF Battery!Spec
<1>5. ServicesSpec => []CountsEachInterval
  BY <1>1, <1>2, <1>3, BatteryAlone, PTL DEF ServicesSpec
<1> QED
  BY <1>4, <1>5

(* The level given to the driver at a start is one that the script read,    *)
(* never a truncated file, and each time the script ended since that level  *)
(* was stored costs one later reading at most, for any number of stops.     *)
THEOREM RestoredWasSeen ==
  /\ Battery!Spec => RestoresWhatItSaw
  /\ ServicesSpec => RestoresWhatItSaw
<1>1. Battery!Init => RecordInv
  BY RecordInitially, ServicesConstants
<1>2. RecordInv /\ [Battery!Next]_Battery!batteryVars => RecordInv'
  BY RecordStep, ServicesConstants
<1> DEFINE Given ==
      script = "restore" /\ script' = "load" /\ restored' # Battery!None =>
        \E i \in DOMAIN saw : i <= stops + 1 /\ restored' = saw[i]
<1>3. RecordInv /\ Battery!Next => Given
  BY RestoredFromStore
<1>4. Battery!Spec => RestoresWhatItSaw
  BY <1>1, <1>2, <1>3, PTL
    DEF Battery!Spec, RestoresWhatItSaw, Battery!RestoresWhatItSaw
<1>5. ServicesSpec => RestoresWhatItSaw
  BY <1>1, <1>2, <1>3, BatteryAlone, PTL
    DEF ServicesSpec, RestoresWhatItSaw, Battery!RestoresWhatItSaw
<1> QED
  BY <1>4, <1>5
=============================================================================
