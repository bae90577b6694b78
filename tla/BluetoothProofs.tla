-------------------------- MODULE BluetoothProofs ---------------------------
(***************************************************************************)
(* Proofs about two parts of the Bluetooth stack: start-up, packets and    *)
(* shut-down of the HCI layer, for every number of start-ups and packets;  *)
(* and what the stack does with the controller it finds, for any set of    *)
(* controllers, events and commands.                                       *)
(***************************************************************************)
EXTENDS MCBluetooth, SequenceTheorems, TLAPS

(***************************************************************************)
(* The HCI layer.                                                          *)
(***************************************************************************)
LoopTasks == {"initialize", "finish", "packet", "quit"}

-----------------------------------------------------------------------------
(* The start-up future.                                                     *)

(* The future that is still to be made ready has not been made ready.       *)
FutureInv ==
  /\ future \in BOOLEAN /\ readied \in 0..1
  /\ future => readied = 0

LEMMA FutureStep == FutureInv /\ [Module!Next]_Module!vars => FutureInv'
<1> SUFFICES ASSUME FutureInv, [Module!Next]_Module!vars PROVE FutureInv'
  OBVIOUS
<1> USE DEF FutureInv
<1>1. CASE Module!StartUp
  BY <1>1 DEF Module!StartUp
<1>2. ASSUME NEW value, Module!MakeReady(value) PROVE FutureInv'
  <2>1. CASE future
    <3>1. future' = FALSE /\ readied' = readied + 1
      BY <1>2, <2>1 DEF Module!MakeReady, Module!FutureCleared
    <3>2. readied' \in 0..1
      BY <2>1, <3>1
    <3>3. QED
      BY <3>1, <3>2
  <2>2. CASE ~future
    BY <1>2, <2>2 DEF Module!MakeReady
  <2>3. QED
    BY <2>1, <2>2
<1>3. CASE Module!FinishStartup \/ Module!StartupTimerExpired
  BY <1>2, <1>3 DEF Module!FinishStartup, Module!StartupTimerExpired
<1>4. CASE Module!FreeTimers
  BY <1>4 DEF Module!FreeTimers
<1>5. CASE Module!TimerGoesOff \/ Module!HoldsMutexForCallback
  BY <1>5 DEF Module!TimerGoesOff, Module!HoldsMutexForCallback
<1>6. CASE UNCHANGED Module!waitVars
  BY <1>6 DEF Module!waitVars
<1>7. [Module!Next]_Module!vars =>
        \/ Module!StartUp \/ Module!FinishStartup
        \/ Module!StartupTimerExpired \/ Module!FreeTimers
        \/ Module!TimerGoesOff \/ Module!HoldsMutexForCallback
        \/ UNCHANGED Module!waitVars
  BY DEF Module!Next, Module!StackThread, Module!HciThread,
       Module!AlarmThread, Module!vars, Module!Ended, Module!StartUpError,
       Module!Stop, Module!Awaited, Module!PostQuit, Module!JoinThread,
       Module!CloseHal, Module!CreateLoop, Module!PostInitialize,
       Module!Initialize, Module!SendPacket, Module!QuitLoop,
       Module!EnqueuePacket, Module!InitializationComplete
<1>8. QED
  BY <1>1, <1>3, <1>4, <1>5, <1>6, <1>7

-----------------------------------------------------------------------------
(* Tasks of the message loop.                                               *)

Has(s, t) == \E i \in DOMAIN s : s[i] = t
OneInitialize(s) ==
  \A i, j \in DOMAIN s : s[i] = "initialize" /\ s[j] = "initialize" => i = j

LEMMA AppendHas ==
  ASSUME NEW s \in Seq(LoopTasks), NEW x \in LoopTasks, NEW t
  PROVE  /\ Append(s, x) \in Seq(LoopTasks)
         /\ Has(Append(s, x), t) <=> Has(s, t) \/ x = t
         /\ OneInitialize(s) /\ (x = "initialize" => ~Has(s, "initialize"))
              => OneInitialize(Append(s, x))
<1>1. /\ Append(s, x) \in Seq(LoopTasks) /\ Len(Append(s, x)) = Len(s) + 1
      /\ \A i \in 1..Len(s) : Append(s, x)[i] = s[i]
      /\ Append(s, x)[Len(s) + 1] = x
  OBVIOUS
<1>2. DOMAIN s = 1..Len(s) /\ DOMAIN Append(s, x) = 1..Len(s) + 1
  BY <1>1
<1>3. Has(Append(s, x), t) <=> Has(s, t) \/ x = t
  BY <1>1, <1>2 DEF Has
<1>4. OneInitialize(s) /\ (x = "initialize" => ~Has(s, "initialize"))
        => OneInitialize(Append(s, x))
  BY <1>1, <1>2 DEF Has, OneInitialize
<1>5. QED
  BY <1>1, <1>3, <1>4

LEMMA TailHas ==
  ASSUME NEW s \in Seq(LoopTasks), s # <<>>, NEW t
  PROVE  /\ Tail(s) \in Seq(LoopTasks) /\ Has(s, Head(s))
         /\ Has(Tail(s), t) => Has(s, t)
         /\ OneInitialize(s) => OneInitialize(Tail(s))
         /\ OneInitialize(s) /\ Head(s) = "initialize"
              => ~Has(Tail(s), "initialize")
<1>1. /\ Tail(s) \in Seq(LoopTasks) /\ Len(Tail(s)) = Len(s) - 1 /\ Len(s) > 0
      /\ \A i \in 1..Len(Tail(s)) : Tail(s)[i] = s[i + 1]
      /\ Head(s) = s[1] /\ Len(s) \in Nat
  OBVIOUS
<1>2. DOMAIN s = 1..Len(s) /\ DOMAIN Tail(s) = 1..Len(s) - 1
  BY <1>1
<1>3. Has(s, Head(s))
  BY <1>1, <1>2 DEF Has
<1>4. Has(Tail(s), t) => Has(s, t)
  BY <1>1, <1>2 DEF Has
<1>5. OneInitialize(s) => OneInitialize(Tail(s))
  BY <1>1, <1>2 DEF OneInitialize
<1>6. OneInitialize(s) /\ Head(s) = "initialize" => ~Has(Tail(s), "initialize")
  BY <1>1, <1>2 DEF OneInitialize, Has
<1>7. QED
  BY <1>1, <1>3, <1>4, <1>5, <1>6

LEMMA EmptyHas == /\ <<>> \in Seq(LoopTasks) /\ OneInitialize(<<>>)
                  /\ \A t : ~Has(<<>>, t)
BY DEF Has, OneInitialize

-----------------------------------------------------------------------------
(* Packets and the HAL.                                                     *)

(* The thread exists between the stack's start-up and its join, and with it *)
(* the loop, but for the thread's first and last steps.                     *)
ThreadLives ==
  /\ thread = "none" <=> stack \in {"down", "close"}
  /\ loop \in BOOLEAN /\ (loop <=> thread \in {"created", "running"})
  /\ tasks \in Seq(LoopTasks) /\ (~loop => tasks = <<>>)

(* The one request to initialize the HAL comes before whatever needs it     *)
(* open, and whatever needs it open is over before it is closed.            *)
HalFollows ==
  /\ stack = "down" \/ thread \in {"fresh", "created"} => hal = "closed"
  /\ thread = "created" => ~Has(tasks, "initialize")
  /\ Has(tasks, "initialize") => hal = "closed"
  /\ Has(tasks, "finish") \/ Has(tasks, "packet") => hal = "open"
  /\ result = "success" /\ stack # "down" => hal = "open"
  /\ OneInitialize(tasks)

SendInv == ThreadLives /\ HalFollows /\ Module!SendsOnlyToOpenHal

LEMMA SendStep ==
  ASSUME SendInv, [Module!Next]_Module!vars
  PROVE  SendInv'
<1> USE DEF SendInv, ThreadLives, HalFollows, LoopTasks,
            Module!SendsOnlyToOpenHal
<1>0. ASSUME NEW t, Module!RunsTask(t), tasks' = Tail(tasks)
      PROVE  /\ tasks' \in Seq(LoopTasks) /\ OneInitialize(tasks') /\ loop
             /\ Has(tasks, t) /\ thread = "running"
             /\ \A u : Has(tasks', u) => Has(tasks, u)
             /\ t = "initialize" => ~Has(tasks', "initialize")
  BY <1>0, TailHas DEF Module!RunsTask
<1>a. ASSUME NEW t \in LoopTasks, tasks' = Append(tasks, t), t # "initialize"
      PROVE  /\ tasks' \in Seq(LoopTasks) /\ OneInitialize(tasks')
             /\ \A u : Has(tasks', u) <=> Has(tasks, u) \/ u = t
  BY <1>a, AppendHas
<1>1. CASE Module!StartUp
  BY <1>1, EmptyHas DEF Module!StartUp, Module!halVars
<1>2. CASE Module!StartUpError
  BY <1>2
    DEF Module!StartUpError, Module!loopVars, Module!waitVars, Module!halVars
<1>3. CASE Module!Stop
  BY <1>3 DEF Module!Stop, Module!loopVars, Module!waitVars, Module!halVars
<1>4. CASE Module!Awaited
  BY <1>4 DEF Module!Awaited, Module!loopVars, Module!waitVars, Module!halVars
<1>5. CASE Module!FreeTimers
  BY <1>5 DEF Module!FreeTimers, Module!loopVars, Module!halVars
<1>6. CASE Module!PostQuit
  <2>1. CASE loop
    BY <1>6, <2>1, <1>a
      DEF Module!PostQuit, Module!QuitPosted, Module!waitVars, Module!halVars
  <2>2. CASE ~loop
    BY <1>6, <2>2 DEF Module!PostQuit, Module!waitVars, Module!halVars
  <2>3. QED
    BY <2>1, <2>2
<1>7. CASE Module!JoinThread
  BY <1>7
    DEF Module!JoinThread, Module!Joined, Module!waitVars, Module!halVars
<1>8. CASE Module!CloseHal
  BY <1>8, EmptyHas DEF Module!CloseHal, Module!loopVars, Module!waitVars
<1>9. CASE Module!CreateLoop
  BY <1>9, EmptyHas
    DEF Module!CreateLoop, Module!stackVars, Module!waitVars, Module!halVars
<1>10. CASE Module!PostInitialize
  <2>1. /\ tasks' \in Seq(LoopTasks) /\ OneInitialize(tasks')
        /\ \A u : Has(tasks', u) <=> Has(tasks, u) \/ u = "initialize"
    BY <1>10, AppendHas DEF Module!PostInitialize
  <2>2. QED
    BY <1>10, <2>1
      DEF Module!PostInitialize, Module!stackVars, Module!waitVars,
          Module!halVars
<1>11. CASE Module!Initialize
  BY <1>11, <1>0
    DEF Module!Initialize, Module!RunsTask, Module!stackVars, Module!waitVars
<1>12. CASE Module!FinishStartup
  BY <1>12, <1>0
    DEF Module!FinishStartup, Module!RunsTask, Module!stackVars,
        Module!halVars
<1>13. CASE Module!SendPacket
  BY <1>13, <1>0
    DEF Module!SendPacket, Module!RunsTask, Module!stackVars, Module!waitVars
<1>14. CASE Module!QuitLoop
  BY <1>14, EmptyHas
    DEF Module!QuitLoop, Module!LoopAfterRun, Module!RunsTask,
        Module!stackVars, Module!waitVars, Module!halVars
<1>15. CASE Module!InitializationComplete
  <2>1. CASE loop
    BY <1>15, <2>1, <1>a
      DEF Module!InitializationComplete, Module!stackVars, Module!waitVars
  <2>2. CASE ~loop
    BY <1>15, <2>2
      DEF Module!InitializationComplete, Module!stackVars, Module!waitVars
  <2>3. QED
    BY <2>1, <2>2
<1>16. CASE Module!EnqueuePacket
  BY <1>16, <1>a
    DEF Module!EnqueuePacket, Module!stackVars, Module!waitVars,
        Module!halVars
<1>17. CASE Module!TimerGoesOff
  BY <1>17
    DEF Module!TimerGoesOff, Module!stackVars, Module!loopVars, Module!halVars
<1>18. CASE Module!StartupTimerExpired
  <2>1. result' \in {result, "fail"}
    BY <1>18 DEF Module!StartupTimerExpired, Module!MakeReady
  <2>2. QED
    BY <1>18, <2>1
      DEF Module!StartupTimerExpired, Module!stackVars, Module!loopVars,
          Module!halVars
<1>19. CASE Module!HoldsMutexForCallback
  BY <1>19
    DEF Module!HoldsMutexForCallback, Module!stackVars, Module!loopVars,
        Module!halVars
<1>20. CASE UNCHANGED Module!vars
  BY <1>20
    DEF Module!vars, Module!stackVars, Module!loopVars, Module!waitVars,
        Module!halVars
<1>21. QED
  BY <1>1, <1>2, <1>3, <1>4, <1>5, <1>6, <1>7, <1>8, <1>9, <1>10, <1>11,
     <1>12, <1>13, <1>14, <1>15, <1>16, <1>17, <1>18, <1>19, <1>20
    DEF Module!Next, Module!StackThread, Module!HciThread, Module!AlarmThread,
        Module!Ended

-----------------------------------------------------------------------------
(***************************************************************************)
(* The controller's start.                                                 *)
(***************************************************************************)
(* How far the start has come: 0 before it and after a shut-down, 24 after  *)
(* its last answer.                                                         *)
At ==
  IF awaiting # "none" THEN Host!Place[awaiting]
  ELSE IF readable THEN 24 ELSE 0
Past(c) == At > Host!Place[c]

CtlTypes ==
  /\ host \in Host!HostStatics /\ readable \in BOOLEAN
  /\ awaiting \in Host!StartUpCommands \cup {"none"}
  /\ chip \in [can : SUBSET Host!Abilities, pages : Nat, echoes : BOOLEAN]
  /\ modes \subseteq {"ssp", "leHost", "sc"}
  /\ readable => awaiting = "none"
  /\ awaiting # "none" => awaiting \in asked

(* What the answers have left in the statics.                               *)
Known ==
  /\ Past("commands") => host.commands = chip.can \cap {"codecs", "keySize"}
  /\ Past("page0") => /\ host.ssp <=> "ssp" \in chip.can
                      /\ host.classic[0] = chip.can \cap {"ssp", "le"}
                      /\ host.page >= 1
  /\ Past("bleBufferSize") /\ host.ble => host.aclBle # "unset"
  /\ Past("bleFeatures") /\ host.ble =>
       host.bleFeatures = chip.can \cap Host!LeAbilities
  /\ readable => (host.keySize <=> "keySize" \in host.commands)

(* The host's own support is asked for where the controller has it.         *)
Written ==
  awaiting # "none" =>
    /\ Past("writeSsp") /\ "ssp" \in chip.can => "writeSsp" \in asked
    /\ Past("writeLeHost") /\ "le" \in chip.can => "writeLeHost" \in asked

(* The page with the LE host is that of this start, and decides, if the     *)
(* controller gives the pages it is asked for.                              *)
Decides ==
  /\ "leHost" \in modes => "le" \in chip.can
  /\ Past("page0") /\ At < Host!Place["pages"] => host.page = 1
  /\ Past("writeLeHost") /\ "leHost" \in modes => host.last >= 1
  /\ awaiting = "pages" =>
       /\ Host!MorePages(host)
       /\ chip.echoes /\ host.page > 1 =>
            host.classic[1] = modes \cap {"leHost"}
  /\ chip.echoes /\ Past("pages") =>
       (Host!LeHostSeen(host) <=> "leHost" \in modes)
  /\ chip.echoes /\ Past("offload") => (host.ble <=> "leHost" \in modes)
  /\ awaiting \in Host!LeCommands => host.ble

CtlInv == CtlTypes /\ Known /\ Written /\ Decides

(***************************************************************************)
(* The link.                                                               *)
(***************************************************************************)
View(l) == IF l \in Host!Encrypted THEN "encrypted" ELSE l
Queries == {"change", "refresh"}

(* A link that was l is k once the controller has sent e.                   *)
Follows(l, e, k) ==
  \/ e = <<"connected", "event">> /\ l = "none" /\ k = "plain"
  \/ e = <<"disconnected", "event">> /\ l # "none" /\ k = "none"
  \/ e = <<"on", "event">> /\ l = "plain" /\ k \in Host!Encrypted
  \/ e = <<"off", "event">> /\ l \in Host!Encrypted /\ k = "plain"
  \/ e = <<"failed", "event">> /\ l = "plain" /\ k = "plain"
  \/ /\ e = <<"refreshed", "event">>
     /\ l \in Host!Encrypted /\ k \in Host!Encrypted
  \/ e = <<"refreshFailed", "event">> /\ l \in Host!Encrypted /\ k = "plain"
  \/ /\ Host!AsksKeySize /\ e[2] \in Queries /\ k = l
     /\ e[1] = CASE l = "none" -> "failed" [] l = "plain" -> "insufficient"
                 [] OTHER -> l
  \/ e \in {<<"bytes", "rand">>, <<"refused", "rand">>} /\ k = l

(* past: the links of the controller between the events on their way.       *)
Went(past) ==
  /\ past \in [1 .. (Len(events) + 1) -> Host!Links]
  /\ past[Len(events) + 1] = link
  /\ \A i \in 1 .. Len(events) : Follows(past[i], events[i], past[i + 1])

(* What the stack has been told, and what it has yet to ask.                *)
Sees(l) ==
  IF Host!AsksKeySize
  THEN /\ seen = "none" <=> l = "none"
       /\ l = "plain" => seen = "plain"
  ELSE seen = View(l)
Unsure(l) ==
  /\ Host!AsksKeySize /\ l \in Host!Encrypted
  /\ ~(seen = "encrypted" /\ l = "good")
Asking ==
  \/ link = "none"
  \/ \E i \in 1 .. Len(toChip) : toChip[i] # "rand"
  \/ \E i \in 1 .. Len(events) : \/ events[i] = <<"connected", "event">>
                                 \/ events[i][2] \in Queries

LinkTypes ==
  /\ link \in Host!Links /\ seen \in {"none", "plain", "encrypted"}
  /\ isLe \in BOOLEAN /\ events \in Seq(Host!Events)
  /\ toChip \in Seq(Queries \cup {"disconnect", "rand"})
  /\ ~Host!AsksKeySize => \A i \in 1 .. Len(toChip) : toChip[i] = "rand"
  /\ ~readable => /\ link = "none" /\ seen = "none"
                  /\ events = <<>> /\ toChip = <<>>

LinkInv ==
  /\ LinkTypes
  /\ \E past \in [1 .. (Len(events) + 1) -> Host!Links] :
       Went(past) /\ Sees(past[1]) /\ (Unsure(past[1]) => Asking)

HostInv == CtlInv /\ LinkInv

-----------------------------------------------------------------------------
LEMMA StepsAre ==
  /\ DOMAIN Host!Steps = 1 .. 23 /\ Len(Host!Steps) = 23
  /\ Host!StartUpCommands = {Host!Steps[i] : i \in 1 .. 23}
BY DEF Host!Steps, Host!StartUpCommands

LEMMA Names ==
  /\ Host!Steps[1] = "reset" /\ Host!Steps[2] = "bufferSize"
  /\ Host!Steps[3] = "hostBufferSize" /\ Host!Steps[4] = "version"
  /\ Host!Steps[5] = "bdAddr" /\ Host!Steps[6] = "commands"
  /\ Host!Steps[7] = "page0"
  /\ Host!Steps[8] = "writeSsp" /\ Host!Steps[9] = "writeLeHost"
  /\ Host!Steps[10] = "pages"
  /\ Host!Steps[11] = "offload" /\ Host!Steps[12] = "writeSc"
  /\ Host!Steps[13] = "whiteList" /\ Host!Steps[14] = "bleBufferSize"
  /\ Host!Steps[15] = "bleStates" /\ Host!Steps[16] = "bleFeatures"
  /\ Host!Steps[17] = "resolvingList" /\ Host!Steps[18] = "dataLength"
  /\ Host!Steps[19] = "advLength" /\ Host!Steps[20] = "advSets"
  /\ Host!Steps[21] = "bleEventMask" /\ Host!Steps[22] = "eventMask"
  /\ Host!Steps[23] = "codecs"
BY DEF Host!Steps

(* The commands of start_up are 23, each in its place.                      *)
LEMMA Places ==
  /\ \A c \in Host!StartUpCommands :
       Host!Place[c] \in 1 .. 23 /\ Host!Steps[Host!Place[c]] = c
  /\ \A i \in 1 .. 23 :
       Host!Steps[i] \in Host!StartUpCommands /\ Host!Place[Host!Steps[i]] = i
<1>1. \A c \in Host!StartUpCommands : \E i \in 1 .. 23 : Host!Steps[i] = c
  BY StepsAre
<1>2. \A c \in Host!StartUpCommands :
        Host!Place[c] = CHOOSE i \in 1 .. 23 : Host!Steps[i] = c
  BY StepsAre DEF Host!Place
<1>3. \A c \in Host!StartUpCommands :
        Host!Place[c] \in 1 .. 23 /\ Host!Steps[Host!Place[c]] = c
  BY <1>1, <1>2
<1>4. \A i, j \in 1 .. 23 : Host!Steps[i] = Host!Steps[j] => i = j
  BY Names
<1> QED
  BY <1>3, <1>4, StepsAre

LEMMA NamedPlaces ==
  /\ Host!Place["reset"] = 1 /\ Host!Place["bufferSize"] = 2
  /\ Host!Place["hostBufferSize"] = 3 /\ Host!Place["version"] = 4
  /\ Host!Place["bdAddr"] = 5 /\ Host!Place["commands"] = 6
  /\ Host!Place["page0"] = 7
  /\ Host!Place["writeSsp"] = 8 /\ Host!Place["writeLeHost"] = 9
  /\ Host!Place["pages"] = 10
  /\ Host!Place["offload"] = 11 /\ Host!Place["writeSc"] = 12
  /\ Host!Place["whiteList"] = 13 /\ Host!Place["bleBufferSize"] = 14
  /\ Host!Place["bleStates"] = 15 /\ Host!Place["bleFeatures"] = 16
  /\ Host!Place["resolvingList"] = 17 /\ Host!Place["dataLength"] = 18
  /\ Host!Place["advLength"] = 19 /\ Host!Place["advSets"] = 20
  /\ Host!Place["bleEventMask"] = 21 /\ Host!Place["eventMask"] = 22
  /\ Host!Place["codecs"] = 23
BY Places, Names

(* A set of places has a least: else none is in it, from the first up.      *)
LEMMA Least ==
  ASSUME NEW S, S \subseteq 1 .. 23, S # {}
  PROVE  Host!Min(S) \in S /\ \A i \in S : Host!Min(S) <= i
<1>1. \E i \in S : \A j \in S : i <= j
  <2> SUFFICES ASSUME \A i \in S : \E j \in S : j < i PROVE FALSE
    OBVIOUS
  <2>1. \A i \in 1 .. 4 : i \notin S
    OBVIOUS
  <2>2. \A i \in 1 .. 8 : i \notin S
    BY <2>1
  <2>3. \A i \in 1 .. 12 : i \notin S
    BY <2>2
  <2>4. \A i \in 1 .. 16 : i \notin S
    BY <2>3
  <2>5. \A i \in 1 .. 20 : i \notin S
    BY <2>4
  <2>6. \A i \in 1 .. 23 : i \notin S
    BY <2>5
  <2> QED
    BY <2>6
<1> QED
  BY <1>1 DEF Host!Min

(* What is sent next is wanted, and nothing between is.                     *)
LEMMA NextIs ==
  ASSUME NEW c \in Host!StartUpCommands, NEW told,
         NEW n, n = Host!FirstLater(c, told)
  PROVE  \/ /\ n = "none"
            /\ \A d \in Host!StartUpCommands :
                Host!Place[d] > Host!Place[c] => ~Host!Wanted(d, told)
         \/ /\ n \in Host!StartUpCommands
            /\ Host!Place[n] > Host!Place[c] /\ Host!Wanted(n, told)
            /\ \A d \in Host!StartUpCommands :
                 Host!Place[c] < Host!Place[d]
                   /\ Host!Place[d] < Host!Place[n] => ~Host!Wanted(d, told)
<1>1. Host!Later(c, told) \subseteq 1 .. 23
  BY Places, StepsAre DEF Host!Later
<1>2. \A d \in Host!StartUpCommands :
        Host!Place[d] \in Host!Later(c, told)
          <=> Host!Place[d] > Host!Place[c] /\ Host!Wanted(d, told)
  BY Places, StepsAre DEF Host!Later
<1>3. CASE Host!Later(c, told) = {}
  BY <1>2, <1>3 DEF Host!FirstLater
<1>4. CASE Host!Later(c, told) # {}
  <2> DEFINE i == Host!Min(Host!Later(c, told))
  <2>1. i \in Host!Later(c, told) /\ \A j \in Host!Later(c, told) : i <= j
    BY <1>1, <1>4, Least
  <2>2. n = Host!Steps[i]
    BY <1>4 DEF Host!FirstLater
  <2> HIDE DEF i
  <2>3. n \in Host!StartUpCommands /\ Host!Place[n] = i
    BY <1>1, <2>1, <2>2, Places
  <2>4. \A d \in Host!StartUpCommands : Host!Place[d] \in 1 .. 23
    BY Places
  <2> QED
    BY <1>1, <1>2, <2>1, <2>3, <2>4
<1> QED
  BY <1>3, <1>4

(* What an answer changes in the statics.                                   *)
LEMMA PageTypes ==
  ASSUME CtlTypes, NEW p \in 0 .. 2
  PROVE  Host!PageOf(p) \in SUBSET Host!Bits /\ Host!PagesNow \in Nat
         /\ ("leHost" \in modes => Host!PagesNow >= 1)
<1>1. Host!PageOf(p) \in SUBSET Host!Bits
  BY DEF Host!PageOf, Host!Bits
<1>2. chip.pages \in Nat
  BY DEF CtlTypes
<1>3. Host!Max({chip.pages, 1}) \in Nat /\ Host!Max({chip.pages, 1}) >= 1
  <2>1. \E x \in {chip.pages, 1} : \A y \in {chip.pages, 1} : x >= y
    BY <1>2
  <2> QED
    BY <1>2, <2>1 DEF Host!Max
<1> QED
  BY <1>1, <1>2, <1>3 DEF Host!PagesNow

LEMMA FeaturePageIs ==
  ASSUME CtlTypes, NEW p \in 0 .. 2, NEW told, told = Host!FeaturePage(host, p)
  PROVE  /\ told \in Host!HostStatics
         /\ told.page = p + 1 /\ told.last = Host!PagesNow
         /\ told.classic = [host.classic EXCEPT ![p] = Host!PageOf(p)]
         /\ told.commands = host.commands /\ told.ssp = host.ssp
         /\ told.ble = host.ble /\ told.keySize = host.keySize
         /\ told.bleFeatures = host.bleFeatures /\ told.aclBle = host.aclBle
<1>1. Host!PageOf(p) \in SUBSET Host!Bits /\ Host!PagesNow \in Nat
  BY PageTypes
<1>2. told = [host EXCEPT !.page = p + 1, !.last = Host!PagesNow,
                       !.classic = [@ EXCEPT ![p] = Host!PageOf(p)]]
  BY DEF Host!FeaturePage
<1>3. host \in Host!HostStatics /\ Host!PageCount = 3
  BY DEF CtlTypes, Host!PageCount
<1> DEFINE classic == [host.classic EXCEPT ![p] = Host!PageOf(p)]
<1>4. classic \in [0 .. (Host!PageCount - 1) -> SUBSET Host!Bits]
  BY <1>1, <1>3 DEF Host!HostStatics
<1>5. told = [host EXCEPT !.page = p + 1, !.last = Host!PagesNow,
                          !.classic = classic]
  BY <1>2, <1>3 DEF Host!HostStatics
<1> HIDE DEF classic
<1>6. told \in Host!HostStatics
  <2>1. p + 1 \in 0 .. Host!PageCount
    BY <1>3
  <2> DEFINE next == p + 1
             last == Host!PagesNow
  <2>2. told = [host EXCEPT !.page = next, !.last = last, !.classic = classic]
    BY <1>5
  <2>3. next \in 0 .. Host!PageCount /\ last \in Nat
    BY <1>1, <2>1
  <2> HIDE DEF next, last
  <2> QED
    BY <1>3, <1>4, <2>2, <2>3 DEF Host!HostStatics
<1>7. /\ told.page = p + 1
      /\ told.last = Host!PagesNow
      /\ told.classic = classic
      /\ told.commands = host.commands /\ told.ssp = host.ssp
      /\ told.ble = host.ble /\ told.keySize = host.keySize
      /\ told.bleFeatures = host.bleFeatures /\ told.aclBle = host.aclBle
  BY <1>3, <1>5 DEF Host!HostStatics
<1> QED
  BY <1>6, <1>7 DEF classic

(* What an answer leaves as it was.                                         *)
Keeps(told) ==
  /\ awaiting \notin {"page0", "pages"} =>
       told.page = host.page /\ told.classic = host.classic
  /\ awaiting \notin {"page0", "pages", "writeLeHost"} => told.last = host.last
  /\ awaiting # "commands" => told.commands = host.commands
  /\ awaiting # "page0" => told.ssp = host.ssp
  /\ awaiting # "bleBufferSize" => told.aclBle = host.aclBle
  /\ awaiting # "bleFeatures" => told.bleFeatures = host.bleFeatures

(* What it is read for.                                                     *)
Reads(told) ==
  /\ awaiting = "commands" =>
       told.commands = chip.can \cap {"codecs", "keySize"}
  /\ awaiting = "page0" =>
       /\ told.page = 1 /\ told.last = Host!PagesNow
       /\ told.classic = [host.classic EXCEPT ![0] = Host!PageOf(0)]
       /\ told.ssp <=> "ssp" \in chip.can
  /\ awaiting = "pages" =>
       \E p \in 0 .. 2 :
         /\ chip.echoes => p = host.page
         /\ told.page = p + 1 /\ told.last = Host!PagesNow
         /\ told.classic = [host.classic EXCEPT ![p] = Host!PageOf(p)]
  /\ awaiting = "writeLeHost" => told.last >= 1
  /\ awaiting = "bleBufferSize" => told.aclBle # "unset"
  /\ awaiting = "bleFeatures" =>
       told.bleFeatures = chip.can \cap Host!LeAbilities

LEMMA ParsedLeaves ==
  ASSUME CtlTypes, awaiting # "none", NEW ok \in BOOLEAN,
         awaiting \in Host!Mandatory => ok,
         NEW p, awaiting = "page0" => p = 0,
         awaiting = "pages" => p \in 0 .. 2 /\ (chip.echoes => p = host.page),
         NEW told \in Host!Parsed(awaiting, host, ok, p)
  PROVE  /\ told \in Host!HostStatics
         /\ Keeps(told)
         /\ Reads(told)
         /\ told.ble = host.ble
<1>1. /\ host \in Host!HostStatics
      /\ chip.can \in SUBSET Host!Abilities
      /\ chip.pages \in Nat
  BY DEF CtlTypes
<1>2. /\ host.last \in Nat /\ host.classic \in [0 .. 2 -> SUBSET Host!Bits]
      /\ host.sc \in BOOLEAN /\ 0 \in 0 .. 2
  BY <1>1 DEF Host!HostStatics, Host!PageCount
<1>3. CASE awaiting = "offload"
  <2> DEFINE sc == IF ok THEN "sc" \in host.classic[2] ELSE host.sc
  <2>1. sc \in BOOLEAN
    <3>1. CASE ok
      BY <3>1
    <3>2. CASE ~ok
      BY <1>2, <3>2
    <3> QED
      BY <3>1, <3>2
  <2>2. told = [host EXCEPT !.offload = ok, !.sc = sc]
    BY <1>3 DEF Host!Parsed, Host!OffloadRead
  <2> HIDE DEF sc
  <2>3. told \in Host!HostStatics
    BY <1>1, <2>1, <2>2 DEF Host!HostStatics
  <2>4. Keeps(told) /\ Reads(told) /\ told.ble = host.ble
    BY <1>1, <1>3, <2>2 DEF Host!HostStatics, Keeps, Reads
  <2> QED
    BY <2>3, <2>4
<1>4. CASE awaiting = "writeLeHost"
  <2> DEFINE last == Host!Max({host.last, 1})
  <2>1. last \in Nat /\ last >= 1
    <3>1. \E x \in {host.last, 1} : \A y \in {host.last, 1} : x >= y
      BY <1>2
    <3> QED
      BY <1>2, <3>1 DEF Host!Max
  <2>2. told = [host EXCEPT !.last = last]
    BY <1>4 DEF Host!Parsed, Host!PageOneNeeded
  <2> HIDE DEF last
  <2>3. told \in Host!HostStatics
    BY <1>1, <2>1, <2>2 DEF Host!HostStatics
  <2>4. Keeps(told) /\ Reads(told) /\ told.ble = host.ble
    BY <1>1, <1>4, <2>1, <2>2 DEF Host!HostStatics, Keeps, Reads
  <2> QED
    BY <2>3, <2>4
<1>5. CASE awaiting \notin {"offload", "writeLeHost"} /\ ok
  <2>1. told \in Host!Stored(awaiting, host, p)
    BY <1>5 DEF Host!Parsed
  <2>2. CASE awaiting = "commands"
    <3>1. told = [host EXCEPT !.commands = chip.can \cap {"codecs", "keySize"}]
      BY <2>1, <2>2 DEF Host!Stored
    <3>2. told \in Host!HostStatics
      BY <1>1, <3>1 DEF Host!HostStatics
    <3>3. Keeps(told) /\ Reads(told) /\ told.ble = host.ble
      BY <1>1, <2>2, <3>1 DEF Host!HostStatics, Keeps, Reads
    <3> QED
      BY <3>2, <3>3
  <2>3. CASE awaiting = "page0"
    <3> DEFINE h1 == Host!FeaturePage(host, 0)
    <3>1. /\ h1 \in Host!HostStatics
          /\ h1.page = 1 /\ h1.last = Host!PagesNow
          /\ h1.classic = [host.classic EXCEPT ![0] = Host!PageOf(0)]
          /\ h1.commands = host.commands
          /\ h1.ble = host.ble /\ h1.keySize = host.keySize
          /\ h1.bleFeatures = host.bleFeatures /\ h1.aclBle = host.aclBle
      BY <1>2, FeaturePageIs
    <3>2. told = [h1 EXCEPT !.ssp = "ssp" \in h1.classic[0]]
      BY <2>1, <2>3 DEF Host!Stored
    <3> HIDE DEF h1
    <3>3. "ssp" \in h1.classic[0] <=> "ssp" \in chip.can
      BY <1>2, <3>1 DEF Host!PageOf
    <3>4. told \in Host!HostStatics
      <4> DEFINE ssp == "ssp" \in h1.classic[0]
      <4>1. ssp \in BOOLEAN /\ told = [h1 EXCEPT !.ssp = ssp]
        BY <3>2
      <4> HIDE DEF ssp
      <4> QED
        BY <3>1, <4>1 DEF Host!HostStatics
    <3>5. Keeps(told) /\ Reads(told) /\ told.ble = host.ble
      BY <2>3, <3>1, <3>2, <3>3 DEF Host!HostStatics, Keeps, Reads
    <3> QED
      BY <3>4, <3>5
  <2>4. CASE awaiting = "pages"
    <3>1. told = Host!FeaturePage(host, p) /\ p \in 0 .. 2
      BY <2>1, <2>4 DEF Host!Stored
    <3>2. /\ told \in Host!HostStatics
          /\ told.page = p + 1 /\ told.last = Host!PagesNow
          /\ told.classic = [host.classic EXCEPT ![p] = Host!PageOf(p)]
          /\ told.commands = host.commands /\ told.ssp = host.ssp
          /\ told.ble = host.ble /\ told.keySize = host.keySize
          /\ told.bleFeatures = host.bleFeatures /\ told.aclBle = host.aclBle
      BY <3>1, FeaturePageIs
    <3> QED
      BY <2>4, <3>2 DEF Keeps, Reads
  <2>5. CASE awaiting = "bleBufferSize"
    <3>1. PICK z \in BOOLEAN :
            told = [host EXCEPT !.aclBle = IF z THEN "classic" ELSE "own"]
      BY <2>1, <2>5 DEF Host!Stored, Host!BleBufferSize
    <3>2. told \in Host!HostStatics
      BY <1>1, <3>1 DEF Host!HostStatics
    <3>3. Keeps(told) /\ Reads(told) /\ told.ble = host.ble
      BY <1>1, <2>5, <3>1 DEF Host!HostStatics, Keeps, Reads
    <3> QED
      BY <3>2, <3>3
  <2>6. CASE awaiting = "bleFeatures"
    <3>1. told = [host EXCEPT !.bleFeatures = chip.can \cap Host!LeAbilities]
      BY <2>1, <2>6 DEF Host!Stored
    <3>2. told \in Host!HostStatics
      BY <1>1, <3>1 DEF Host!HostStatics
    <3>3. Keeps(told) /\ Reads(told) /\ told.ble = host.ble
      BY <1>1, <2>6, <3>1 DEF Host!HostStatics, Keeps, Reads
    <3> QED
      BY <3>2, <3>3
  <2>7. CASE awaiting = "codecs"
    <3>1. told = [host EXCEPT !.codecs = TRUE]
      BY <2>1, <2>7 DEF Host!Stored
    <3>2. told \in Host!HostStatics
      BY <1>1, <3>1 DEF Host!HostStatics
    <3>3. Keeps(told) /\ Reads(told) /\ told.ble = host.ble
      BY <1>1, <2>7, <3>1 DEF Host!HostStatics, Keeps, Reads
    <3> QED
      BY <3>2, <3>3
  <2>8. CASE awaiting \notin {"commands", "page0", "pages", "bleBufferSize",
                              "bleFeatures", "codecs"}
    <3>1. told = host
      BY <2>1, <2>8 DEF Host!Stored
    <3> QED
      BY <1>1, <1>5, <2>8, <3>1 DEF Keeps, Reads
  <2> QED
    BY <2>2, <2>3, <2>4, <2>5, <2>6, <2>7, <2>8
<1>6. CASE awaiting \notin {"offload", "writeLeHost"} /\ ~ok
  <2>1. told = host
    BY <1>6 DEF Host!Parsed
  <2>2. awaiting \notin {"commands", "page0", "pages", "bleBufferSize",
                         "bleFeatures"}
    BY <1>6, Names, StepsAre
      DEF Host!Mandatory, Host!Generic, Host!Optional, Host!Unchecked,
          CtlTypes
  <2> QED
    BY <1>1, <1>6, <2>1, <2>2 DEF Keeps, Reads
<1> QED
  BY <1>3, <1>4, <1>5, <1>6

LEMMA DecidedLeaves ==
  ASSUME NEW told \in Host!HostStatics, Keeps(told), Reads(told),
         told.ble = host.ble,
         awaiting \in Host!StartUpCommands,
         NEW kept, kept = Host!Decided(awaiting, told)
  PROVE  /\ kept \in Host!HostStatics /\ Keeps(kept) /\ Reads(kept)
         /\ kept.ble = IF awaiting \in {"offload", "writeSc"}
                    THEN Host!LeHostSeen(host) ELSE host.ble
<1>1. Host!Place[awaiting] \in 11 .. 12 <=> awaiting \in {"offload", "writeSc"}
  <2>1. /\ Host!Place[awaiting] \in 1 .. 23
        /\ Host!Steps[Host!Place[awaiting]] = awaiting
    BY Places
  <2>2. Host!Place[awaiting] \in 11 .. 12 =>
          Host!Place[awaiting] = 11 \/ Host!Place[awaiting] = 12
    BY <2>1
  <2> QED
    BY <2>1, <2>2, NamedPlaces, Names
<1>2. CASE awaiting \in {"offload", "writeSc"}
  <2> DEFINE ble == Host!LeHostSeen(told)
  <2>1. kept = [told EXCEPT !.ble = ble]
    BY <1>1, <1>2, NamedPlaces DEF Host!Decided
  <2>2. ble \in BOOLEAN
    BY Zenon DEF Host!LeHostSeen
  <2>3. ble = Host!LeHostSeen(host)
    BY <1>2 DEF Host!LeHostSeen, Keeps
  <2> HIDE DEF ble
  <2>4. kept \in Host!HostStatics
    BY <2>1, <2>2 DEF Host!HostStatics
  <2>5. Keeps(kept) /\ Reads(kept) /\ kept.ble = ble
    BY <1>2, <2>1 DEF Host!HostStatics, Keeps, Reads
  <2> QED
    BY <1>2, <2>3, <2>4, <2>5
<1>3. CASE awaiting \notin {"offload", "writeSc"}
  <2>1. kept = told
    BY <1>1, <1>3, NamedPlaces DEF Host!Decided
  <2> QED
    BY <1>3, <2>1
<1> QED
  BY <1>2, <1>3

LEMMA KeptKeySize ==
  ASSUME NEW kept \in Host!HostStatics, Keeps(kept), Reads(kept),
         NEW k, k = Host!KeepKeySize(kept)
  PROVE  /\ k \in Host!HostStatics /\ Keeps(k) /\ Reads(k) /\ k.ble = kept.ble
         /\ k.keySize <=> "keySize" \in k.commands
         /\ \A d \in Host!StartUpCommands :
              Host!Wanted(d, k) = Host!Wanted(d, kept)
<1> DEFINE size == "keySize" \in kept.commands
<1>1. size \in BOOLEAN
  OBVIOUS
<1>2. k = [kept EXCEPT !.keySize = size]
  BY DEF Host!KeepKeySize
<1> HIDE DEF size
<1>3. k \in Host!HostStatics
  BY <1>1, <1>2 DEF Host!HostStatics
<1>4. /\ k.page = kept.page /\ k.last = kept.last /\ k.classic = kept.classic
      /\ k.commands = kept.commands /\ k.ssp = kept.ssp /\ k.sc = kept.sc
      /\ k.offload = kept.offload /\ k.ble = kept.ble /\ k.keySize = size
      /\ k.bleFeatures = kept.bleFeatures /\ k.aclBle = kept.aclBle
  BY <1>2 DEF Host!HostStatics
<1>5. Keeps(k)
  BY <1>4 DEF Keeps
<1>6. Reads(k)
  BY <1>4 DEF Reads
<1>7. \A d \in Host!StartUpCommands : Host!Wanted(d, k) = Host!Wanted(d, kept)
  BY <1>4, Zenon DEF Host!Wanted, Host!MorePages
<1> QED
  BY <1>3, <1>4, <1>5, <1>6, <1>7 DEF size

(* Where the start goes from an answer.                                     *)
Skipped == \A d \in Host!StartUpCommands :
             At < Host!Place[d] /\ Host!Place[d] < At' =>
               ~Host!Wanted(d, host')
GoesOn ==
  \/ awaiting = "pages" /\ awaiting' = "pages" /\ Host!MorePages(host')
  \/ /\ awaiting' \in Host!StartUpCommands /\ At' > At
     /\ Host!Wanted(awaiting', host') /\ Skipped
  \/ awaiting' = "none" /\ At' = 24 /\ Skipped

LEMMA AnswerLeads ==
  ASSUME CtlInv, Host!Answered, check' = "no"
  PROVE  /\ awaiting \in Host!StartUpCommands /\ At = Host!Place[awaiting]
         /\ host' \in Host!HostStatics /\ Keeps(host') /\ Reads(host')
         /\ host'.ble = IF awaiting \in {"offload", "writeSc"}
                        THEN Host!LeHostSeen(host) ELSE host.ble
         /\ awaiting = "pages" => host.page \in 1 .. 2
         /\ GoesOn
         /\ awaiting' # "none" => asked' = asked \cup {awaiting'}
         /\ readable' = (awaiting' = "none")
         /\ readable' => (host'.keySize <=> "keySize" \in host'.commands)
<1>1. /\ awaiting \in Host!StartUpCommands
      /\ awaiting # "none"
      /\ host \in Host!HostStatics
  BY DEF Host!Answered, CtlInv, CtlTypes
<1>2. At = Host!Place[awaiting] /\ At \in 1 .. 23
  BY <1>1, Places DEF At
<1>3. awaiting = "pages" => host.page \in 1 .. 2
  <2> SUFFICES ASSUME awaiting = "pages" PROVE host.page \in 1 .. 2
    OBVIOUS
  <2>1. host.page >= 1
    BY <1>2, NamedPlaces DEF CtlInv, Known, Past
  <2>2. host.page < 3 /\ host.page \in 0 .. 3
    BY <1>1
      DEF CtlInv, Decides, Host!MorePages, Host!PageCount, Host!HostStatics
  <2> QED
    BY <2>1, <2>2
<1>4. PICK a \in Host!Answers(awaiting), p \in Host!PagesTold(awaiting) :
        /\ check' = Host!Outcome(awaiting, a, p)
        /\ \E told \in Host!Parsed(awaiting, host, a = "complete", p) :
             Host!Advance(awaiting, Host!Decided(awaiting, told))
  BY DEF Host!Answered
<1>5. PICK told \in Host!Parsed(awaiting, host, a = "complete", p) :
        Host!Advance(awaiting, Host!Decided(awaiting, told))
  BY <1>4
<1>6. awaiting \in Host!Mandatory => a = "complete"
  BY <1>4 DEF Host!Outcome
<1> DEFINE ok == a = "complete"
           kept == Host!Decided(awaiting, told)
           n == Host!After(awaiting, kept)
<1>7. /\ told \in Host!HostStatics
      /\ Keeps(told)
      /\ Reads(told)
      /\ told.ble = host.ble
  <2>1. ok \in BOOLEAN /\ (awaiting \in Host!Mandatory => ok)
    BY <1>6
  <2>2. told \in Host!Parsed(awaiting, host, ok, p)
    BY <1>5
  <2> HIDE DEF ok
  <2>3. CASE awaiting = "page0"
    <3>1. p = 0
      BY <1>4, <1>6, <2>3
        DEF Host!Outcome, Host!Mandatory, Host!Generic, Host!Optional,
            Host!Unchecked
    <3> QED
      BY <1>1, <2>1, <2>2, <2>3, <3>1, ParsedLeaves DEF CtlInv
  <2>4. CASE awaiting = "pages"
    <3>1. p \in 0 .. 3 /\ (chip.echoes => p = host.page)
      BY <1>3, <1>4, <2>4 DEF Host!PagesTold, Host!PageCount
    <3>2. p < 3
      BY <1>3, <1>4, <2>4, <3>1 DEF Host!Outcome, Host!PageCount
    <3> QED
      BY <1>1, <2>1, <2>2, <2>4, <3>1, <3>2, ParsedLeaves DEF CtlInv
  <2> QED
    BY <1>1, <2>1, <2>2, <2>3, <2>4, ParsedLeaves DEF CtlInv
<1>8. /\ kept \in Host!HostStatics /\ Keeps(kept) /\ Reads(kept)
      /\ kept.ble = IF awaiting \in {"offload", "writeSc"}
                 THEN Host!LeHostSeen(host) ELSE host.ble
  BY <1>1, <1>7, DecidedLeaves
<1>9. /\ awaiting' = n /\ (n # "none" => asked' = asked \cup {n})
      /\ readable' = (n = "none")
      /\ host' = IF n = "none" THEN Host!KeepKeySize(kept) ELSE kept
  BY <1>5 DEF Host!Advance, Host!Send
<1>10. n = IF awaiting = "pages" /\ Host!MorePages(kept) THEN "pages"
           ELSE Host!FirstLater(awaiting, kept)
  BY DEF Host!After
<1> HIDE DEF kept, n, ok
<1>11. /\ host' \in Host!HostStatics /\ Keeps(host') /\ Reads(host')
       /\ host'.ble = kept.ble
       /\ n = "none" => (host'.keySize <=> "keySize" \in host'.commands)
       /\ \A d \in Host!StartUpCommands :
            Host!Wanted(d, host') = Host!Wanted(d, kept)
  BY <1>8, <1>9, KeptKeySize
<1>12. n = "none" => At' = 24
  BY <1>9 DEF At
<1>13. n \in Host!StartUpCommands => n # "none" /\ At' = Host!Place[n]
  BY <1>9, StepsAre, Names DEF At
<1>14. GoesOn
  <2>1. CASE awaiting = "pages" /\ Host!MorePages(kept)
    <3>1. n = "pages" /\ host' = kept
      BY <1>9, <1>10, <2>1
    <3> QED
      BY <1>9, <2>1, <3>1 DEF GoesOn
  <2>2. CASE n = Host!FirstLater(awaiting, kept)
    <3>1. \/ /\ n = "none"
             /\ \A d \in Host!StartUpCommands :
                  Host!Place[d] > Host!Place[awaiting] => ~Host!Wanted(d, kept)
          \/ /\ n \in Host!StartUpCommands
             /\ Host!Place[n] > Host!Place[awaiting]
             /\ Host!Wanted(n, kept)
             /\ \A d \in Host!StartUpCommands :
                  Host!Place[awaiting] < Host!Place[d]
                    /\ Host!Place[d] < Host!Place[n]
                    => ~Host!Wanted(d, kept)
      BY <1>1, <2>2, NextIs
    <3>2. CASE n = "none"
      <4>1. \A d \in Host!StartUpCommands : Host!Place[d] > At =>
              ~Host!Wanted(d, host')
        BY <1>2, <1>11, <1>13, <3>1, <3>2
      <4>2. Skipped
        BY <1>2, <4>1, Places DEF Skipped
      <4> QED
        BY <1>9, <1>12, <3>2, <4>2 DEF GoesOn
    <3>3. CASE n \in Host!StartUpCommands
      <4>1. Host!Place[n] > Host!Place[awaiting] /\ Host!Wanted(n, kept)
        BY <1>13, <3>1, <3>3
      <4>2. \A d \in Host!StartUpCommands :
              Host!Place[awaiting] < Host!Place[d]
                /\ Host!Place[d] < Host!Place[n]
                => ~Host!Wanted(d, kept)
        BY <1>13, <3>1, <3>3
      <4>3. Skipped
        BY <1>2, <1>11, <1>13, <3>3, <4>2 DEF Skipped
      <4>4. Host!Wanted(n, host') /\ At' > At
        BY <1>2, <1>11, <1>13, <3>3, <4>1
      <4> QED
        BY <1>9, <3>3, <4>3, <4>4 DEF GoesOn
    <3> QED
      BY <3>1, <3>2, <3>3
  <2> QED
    BY <1>10, <2>1, <2>2
<1> QED
  BY <1>1, <1>2, <1>3, <1>8, <1>9, <1>11, <1>14

(* What an answer makes of the modes.                                       *)
LEMMA ModesGo ==
  ASSUME CtlInv, Host!Answered
  PROVE  /\ modes' \subseteq {"ssp", "leHost", "sc"}
         /\ awaiting \notin {"reset", "writeLeHost"} =>
              ("leHost" \in modes' <=> "leHost" \in modes)
         /\ awaiting = "reset" /\ "leHost" \in modes' => "leHost" \in modes
         /\ "leHost" \in modes' => "le" \in chip.can
         /\ chip' = chip
<1>1. modes \subseteq {"ssp", "leHost", "sc"}
  BY DEF CtlInv, CtlTypes
<1>2. /\ "leHost" \in modes => "le" \in chip.can
  BY DEF CtlInv, Decides
<1>3. PICK a \in Host!Answers(awaiting) :
        modes' = IF a = "complete" THEN Host!ModesAfter(awaiting) ELSE modes
  BY DEF Host!Answered
<1>4. chip' = chip
  BY DEF Host!Answered
<1>5. CASE modes' = modes
  BY <1>1, <1>2, <1>4, <1>5
<1>6. CASE a = "complete" /\ modes' = Host!ModesAfter(awaiting)
  <2>1. awaiting = "writeLeHost" => "le" \in chip.can
    BY <1>3, <1>6 DEF Host!Answers, Host!Knows, Host!LeCommands
  <2> QED
    BY <1>1, <1>2, <1>4, <1>6, <2>1 DEF Host!ModesAfter
<1> QED
  BY <1>3, <1>5, <1>6

LEMMA PastNames ==
  /\ Past("reset") <=> At > 1
  /\ Past("commands") <=> At > 6
  /\ Past("page0") <=> At > 7
  /\ Past("writeSsp") <=> At > 8
  /\ Past("writeLeHost") <=> At > 9
  /\ Past("pages") <=> At > 10
  /\ Past("offload") <=> At > 11
  /\ Past("bleBufferSize") <=> At > 14
  /\ Past("bleFeatures") <=> At > 16
BY NamedPlaces DEF Past

LEMMA AnsweredKeeps ==
  ASSUME CtlInv, Host!Answered
  PROVE  CtlInv'
<1>1. CASE check' # "no"
  <2>1. PICK a \in Host!Answers(awaiting), p \in Host!PagesTold(awaiting) :
          /\ modes' =
               IF a = "complete" THEN Host!ModesAfter(awaiting) ELSE modes
          /\ check' = Host!Outcome(awaiting, a, p)
    BY DEF Host!Answered
  <2>2. a # "complete" \/ awaiting \in {"page0", "pages"}
    BY <1>1, <2>1 DEF Host!Outcome
  <2>3. modes' = modes
    BY <2>1, <2>2 DEF Host!ModesAfter
  <2>4. UNCHANGED <<host, readable, awaiting, asked, chip, modes>>
    BY <1>1, <2>3 DEF Host!Answered
  <2> QED
    BY <2>4
      DEF CtlInv, CtlTypes, Known, Written, Decides, At, Past,
          Host!LeHostSeen, Host!MorePages
<1>2. CASE check' = "no"
  <2>1. /\ awaiting \in Host!StartUpCommands /\ At = Host!Place[awaiting]
        /\ host' \in Host!HostStatics /\ Keeps(host') /\ Reads(host')
        /\ host'.ble = IF awaiting \in {"offload", "writeSc"}
                       THEN Host!LeHostSeen(host) ELSE host.ble
        /\ awaiting = "pages" => host.page \in 1 .. 2
        /\ GoesOn
        /\ awaiting' # "none" => asked' = asked \cup {awaiting'}
        /\ readable' = (awaiting' = "none")
        /\ readable' => (host'.keySize <=> "keySize" \in host'.commands)
    BY <1>2, AnswerLeads
  <2>2. /\ modes' \subseteq {"ssp", "leHost", "sc"}
        /\ awaiting \notin {"reset", "writeLeHost"} =>
             ("leHost" \in modes' <=> "leHost" \in modes)
        /\ awaiting = "reset" /\ "leHost" \in modes' => "leHost" \in modes
        /\ "leHost" \in modes' => "le" \in chip.can
        /\ chip' = chip
    BY ModesGo
  <2>3. /\ At \in 1 .. 23 /\ Host!Steps[At] = awaiting
        /\ awaiting' \in Host!StartUpCommands \cup {"none"}
        /\ awaiting' = "none" => At' = 24
        /\ awaiting' # "none" =>
             /\ At' = Host!Place[awaiting'] /\ At' \in 1 .. 23
             /\ Host!Steps[At'] = awaiting'
    <3>1. awaiting' \in Host!StartUpCommands \cup {"none"}
      BY <2>1 DEF GoesOn
    <3>2. awaiting' = "none" => At' = 24
      BY <2>1 DEF At
    <3>3. awaiting' # "none" => At' = Host!Place[awaiting']
      BY <2>1 DEF At
    <3> QED
      BY <2>1, <3>1, <3>2, <3>3, Places
  <2>4. \/ awaiting = "pages" /\ awaiting' = "pages" /\ At = 10 /\ At' = 10
        \/ At' > At /\ Skipped
    BY <2>1, <2>3, NamedPlaces DEF GoesOn
  (* What would have been sent on the way, had it been wanted.              *)
  <2>5. /\ At < 6 => At' <= 6
        /\ At < 7 => At' <= 7
        /\ At < 8 /\ At' > 8 => ~host'.ssp
        /\ At < 9 /\ At' > 9 => "le" \notin host'.classic[0]
        /\ At < 10 /\ At' > 10 => ~Host!MorePages(host')
        /\ At < 11 => At' <= 11
        /\ At < 14 /\ At' > 14 => ~host'.ble
        /\ At < 16 /\ At' > 16 => ~host'.ble
    <3>1. ASSUME NEW d \in Host!StartUpCommands, At < Host!Place[d],
                 Host!Place[d] < At'
          PROVE  ~Host!Wanted(d, host')
      BY <2>3, <2>4, <3>1, Places DEF Skipped
    <3>2. {"commands", "page0", "writeSsp", "writeLeHost", "pages", "offload",
           "bleBufferSize", "bleFeatures"} \subseteq Host!StartUpCommands
      BY StepsAre, Names
    <3>3. /\ Host!Wanted("commands", host') /\ Host!Wanted("page0", host')
          /\ Host!Wanted("offload", host')
          /\ Host!Wanted("writeSsp", host') = host'.ssp
          /\ Host!Wanted("writeLeHost", host') = ("le" \in host'.classic[0])
          /\ Host!Wanted("pages", host') = Host!MorePages(host')
          /\ Host!Wanted("bleBufferSize", host') = host'.ble
          /\ Host!Wanted("bleFeatures", host') = host'.ble
      BY Zenon DEF Host!Wanted, Host!LeCommands
    <3>4. /\ At < 6 => At' <= 6
          /\ At < 7 => At' <= 7
          /\ At < 11 => At' <= 11
      BY <2>3, <3>1, <3>2, <3>3, NamedPlaces
    <3>5. /\ At < 8 /\ At' > 8 => ~Host!Wanted("writeSsp", host')
          /\ At < 9 /\ At' > 9 => ~Host!Wanted("writeLeHost", host')
          /\ At < 10 /\ At' > 10 => ~Host!Wanted("pages", host')
          /\ At < 14 /\ At' > 14 => ~Host!Wanted("bleBufferSize", host')
          /\ At < 16 /\ At' > 16 => ~Host!Wanted("bleFeatures", host')
      BY <3>1, <3>2, NamedPlaces
    <3> QED
      BY <3>3, <3>4, <3>5, Zenon
  <2>6. CtlTypes'
    BY <2>1, <2>2, <2>3, StepsAre, Names DEF CtlInv, CtlTypes
  <2>7. /\ Host!PageOf(0) = chip.can \cap {"ssp", "le"}
        /\ Host!PageOf(1) = modes \cap {"leHost"}
        /\ Host!PagesNow \in Nat /\ ("leHost" \in modes => Host!PagesNow >= 1)
    BY PageTypes DEF Host!PageOf, CtlInv
  <2>8. /\ host.classic \in [0 .. 2 -> SUBSET Host!Bits] /\ host.last \in Nat
        /\ host'.last \in Nat /\ host.page \in Nat /\ host'.page \in Nat
        /\ host.ble \in BOOLEAN /\ host'.ble \in BOOLEAN
    BY <2>1 DEF CtlInv, CtlTypes, Host!HostStatics, Host!PageCount
  <2>9. Known'
    <3>1. At' > 6 => host'.commands = chip.can \cap {"codecs", "keySize"}
      <4>1. CASE At = 6
        BY <2>1, <2>3, <4>1, Names DEF Reads
      <4>2. CASE At > 6
        BY <2>1, <2>3, <4>2, NamedPlaces, PastNames DEF CtlInv, Known, Keeps
      <4> QED
        BY <2>3, <2>5, <4>1, <4>2
    <3>2. At' > 7 =>
            /\ host'.ssp <=> "ssp" \in chip.can
            /\ host'.classic[0] = chip.can \cap {"ssp", "le"}
            /\ host'.page >= 1
      <4>1. CASE At = 7
        BY <2>1, <2>3, <2>7, <2>8, <4>1, Names DEF Reads
      <4>2. CASE At > 7 /\ awaiting = "pages"
        <5>1. /\ host.ssp <=> "ssp" \in chip.can
              /\ host.classic[0] = chip.can \cap {"ssp", "le"}
          BY <4>2, PastNames DEF CtlInv, Known
        <5>2. PICK p \in 0 .. 2 :
                /\ host'.page = p + 1
                /\ host'.classic = [host.classic EXCEPT ![p] = Host!PageOf(p)]
          BY <2>1, <4>2 DEF Reads
        <5>3. host'.classic[0] = chip.can \cap {"ssp", "le"}
          BY <2>7, <2>8, <5>1, <5>2
        <5> QED
          BY <2>1, <2>8, <4>2, <5>1, <5>2, <5>3 DEF Keeps
      <4>3. CASE At > 7 /\ awaiting # "pages"
        <5>1. /\ host.ssp <=> "ssp" \in chip.can
              /\ host.classic[0] = chip.can \cap {"ssp", "le"}
              /\ host.page >= 1
          BY <4>3, PastNames DEF CtlInv, Known
        <5>2. awaiting # "page0"
          BY <2>1, <4>3, NamedPlaces
        <5> QED
          BY <2>1, <4>3, <5>1, <5>2 DEF Keeps
      <4> QED
        BY <2>3, <2>5, <4>1, <4>2, <4>3
    <3>3. At' > 14 /\ host'.ble => host'.aclBle # "unset"
      <4>1. CASE At = 14
        BY <2>1, <2>3, <4>1, Names DEF Reads
      <4>2. CASE At > 14
        BY <2>1, <2>3, <4>2, NamedPlaces, PastNames DEF CtlInv, Known, Keeps
      <4> QED
        BY <2>3, <2>5, <4>1, <4>2
    <3>4. At' > 16 /\ host'.ble =>
            host'.bleFeatures = chip.can \cap Host!LeAbilities
      <4>1. CASE At = 16
        BY <2>1, <2>3, <4>1, Names DEF Reads
      <4>2. CASE At > 16
        BY <2>1, <2>3, <4>2, NamedPlaces, PastNames DEF CtlInv, Known, Keeps
      <4> QED
        BY <2>3, <2>5, <4>1, <4>2
    <3> QED
      BY <2>1, <2>2, <3>1, <3>2, <3>3, <3>4, NamedPlaces DEF Known, Past
  <2>10. Written'
    <3> SUFFICES ASSUME awaiting' # "none"
                 PROVE  /\ At' > 8 /\ "ssp" \in chip.can =>
                             "writeSsp" \in asked'
                        /\ At' > 9 /\ "le" \in chip.can =>
                             "writeLeHost" \in asked'
      BY <2>2, NamedPlaces DEF Written, Past
    <3>1. asked' = asked \cup {awaiting'} /\ awaiting \in asked
      BY <2>1, StepsAre, Names DEF CtlInv, CtlTypes
    <3>2. /\ At' > 7 => (host'.ssp <=> "ssp" \in chip.can)
          /\ At' > 7 => host'.classic[0] = chip.can \cap {"ssp", "le"}
      BY <2>2, <2>9, NamedPlaces DEF Known, Past
    <3>3. awaiting # "none"
      BY <2>1, StepsAre, Names
    <3>4. /\ At > 8 /\ "ssp" \in chip.can => "writeSsp" \in asked
          /\ At > 9 /\ "le" \in chip.can => "writeLeHost" \in asked
      BY <3>3, PastNames DEF CtlInv, Written
    <3>5. /\ At = 8 => awaiting = "writeSsp"
          /\ At = 9 => awaiting = "writeLeHost"
      BY <2>3, Names
    <3>6. At' > 8 /\ "ssp" \in chip.can => "writeSsp" \in asked'
      BY <2>3, <2>5, <3>1, <3>2, <3>4, <3>5
    <3>7. At' > 9 /\ "le" \in chip.can => "writeLeHost" \in asked'
      BY <2>3, <2>5, <3>1, <3>2, <3>4, <3>5
    <3> QED
      BY <3>6, <3>7
  <2>11. Decides'
    <3>1. At' > 7 /\ At' < 10 => host'.page = 1
      <4>1. CASE At = 7
        BY <2>1, <2>3, <4>1, Names DEF Reads
      <4>2. CASE At > 7 /\ At < 10
        <5>1. host.page = 1
          BY <4>2, NamedPlaces DEF CtlInv, Decides, Past
        <5>2. awaiting \notin {"page0", "pages"}
          BY <2>1, <4>2, NamedPlaces
        <5> QED
          BY <2>1, <5>1, <5>2 DEF Keeps
      <4> QED
        BY <2>3, <2>4, <2>5, <4>1, <4>2
    <3>2. At' > 9 /\ "leHost" \in modes' => host'.last >= 1
      <4>1. CASE At = 9
        BY <2>1, <2>3, <4>1, Names DEF Reads
      <4>2. CASE At = 10
        <5>1. awaiting = "pages"
          BY <2>3, <4>2, Names
        <5> QED
          BY <2>1, <2>2, <2>7, <5>1 DEF Reads
      <4>3. CASE At > 10
        <5>1. awaiting \notin {"page0", "pages", "writeLeHost", "reset"}
          BY <2>1, <4>3, NamedPlaces
        <5>2. "leHost" \in modes => host.last >= 1
          BY <2>3, <4>3, PastNames DEF CtlInv, Decides
        <5> QED
          BY <2>1, <2>2, <5>1, <5>2 DEF Keeps
      <4>4. CASE At < 9 /\ At' > 9
        <5>1. "le" \notin chip.can
          BY <2>2, <2>3, <2>5, <2>9, <4>4, NamedPlaces DEF Known, Past
        <5> QED
          BY <2>2, <5>1
      <4> QED
        BY <2>3, <4>1, <4>2, <4>3, <4>4
    <3>3. ASSUME awaiting' = "pages"
          PROVE  /\ Host!MorePages(host')
                 /\ chip.echoes /\ host'.page > 1 =>
                      host'.classic[1] = modes' \cap {"leHost"}
      <4>1. Host!MorePages(host') /\ At' = 10
        <5>1. Host!Wanted("pages", host') = Host!MorePages(host')
          BY Zenon DEF Host!Wanted, Host!LeCommands
        <5> QED
          BY <2>1, <2>3, <3>3, <5>1, NamedPlaces DEF GoesOn
      <4>2. CASE awaiting = "pages" /\ chip.echoes
        <5>1. /\ host.page \in 1 .. 2
              /\ host'.classic =
                   [host.classic EXCEPT ![host.page] = Host!PageOf(host.page)]
              /\ host'.page = host.page + 1
          BY <2>1, <4>2 DEF Reads
        <5>2. host'.page < 3
          BY <4>1 DEF Host!MorePages, Host!PageCount
        <5>3. host.page = 1
          BY <5>1, <5>2
        <5>4. host'.classic[1] = modes \cap {"leHost"}
          BY <2>7, <2>8, <5>1, <5>3
        <5> QED
          BY <2>2, <4>1, <4>2, <5>4
      <4>3. CASE awaiting # "pages"
        <5>1. At \in 7 .. 9
          <6>1. At < 10
            BY <2>3, <2>4, <4>1, <4>3
          <6>2. ~(At < 7)
            BY <2>3, <2>5, <4>1
          <6> QED
            BY <2>3, <6>1, <6>2
        <5>2. host'.page = 1
          <6>1. CASE At = 7
            BY <2>1, <2>3, <6>1, Names DEF Reads
          <6>2. CASE At > 7
            <7>1. host.page = 1
              BY <5>1, <6>2, NamedPlaces DEF CtlInv, Decides, Past
            <7>2. awaiting \notin {"page0", "pages"}
              BY <2>1, <4>3, <6>2, NamedPlaces
            <7> QED
              BY <2>1, <7>1, <7>2 DEF Keeps
          <6> QED
            BY <5>1, <6>1, <6>2
        <5> QED
          BY <4>1, <5>2
      <4> QED
        BY <4>1, <4>2, <4>3
    <3>4. chip.echoes /\ At' > 10 =>
            (Host!LeHostSeen(host') <=> "leHost" \in modes')
      <4> SUFFICES ASSUME chip.echoes, At' > 10
                   PROVE  Host!LeHostSeen(host') <=> "leHost" \in modes'
        OBVIOUS
      <4>1. CASE At > 10
        <5>1. awaiting \notin {"page0", "pages", "writeLeHost", "reset"}
          BY <2>1, <4>1, NamedPlaces
        <5>2. Host!LeHostSeen(host) <=> "leHost" \in modes
          BY <4>1, PastNames DEF CtlInv, Decides
        <5> QED
          BY <2>1, <2>2, <5>1, <5>2 DEF Keeps, Host!LeHostSeen
      <4>2. CASE At = 10
        <5>1. awaiting = "pages"
          BY <2>3, <4>2, Names
        <5>2. /\ host.page \in 1 .. 2 /\ host'.last = Host!PagesNow
              /\ host'.classic =
                   [host.classic EXCEPT ![host.page] = Host!PageOf(host.page)]
              /\ host.page > 1 => host.classic[1] = modes \cap {"leHost"}
          BY <2>1, <5>1 DEF Reads, CtlInv, Decides
        <5>3. host'.classic[1] = modes \cap {"leHost"}
          BY <2>7, <2>8, <5>2
        <5> QED
          BY <2>2, <2>7, <5>1, <5>2, <5>3 DEF Host!LeHostSeen
      <4>3. CASE At < 10 /\ At' > 10
        <5>1. ~Host!MorePages(host') /\ At \in 7 .. 9
          BY <2>3, <2>5, <4>3
        <5>2. host'.page = 1
          <6>1. CASE At = 7
            BY <2>1, <2>3, <6>1, Names DEF Reads
          <6>2. CASE At > 7
            <7>1. host.page = 1
              BY <5>1, <6>2, NamedPlaces DEF CtlInv, Decides, Past
            <7>2. awaiting \notin {"page0", "pages"}
              BY <2>1, <5>1, <6>2, NamedPlaces
            <7> QED
              BY <2>1, <7>1, <7>2 DEF Keeps
          <6> QED
            BY <5>1, <6>1, <6>2
        <5>3. ~(host'.last >= 1)
          BY <2>8, <5>1, <5>2 DEF Host!MorePages, Host!PageCount
        <5> QED
          BY <2>3, <3>2, <4>3, <5>3 DEF Host!LeHostSeen
      <4> QED
        BY <2>3, <4>1, <4>2, <4>3
    <3>5. chip.echoes /\ At' > 11 => (host'.ble <=> "leHost" \in modes')
      <4> SUFFICES ASSUME chip.echoes, At' > 11
                   PROVE  host'.ble <=> "leHost" \in modes'
        OBVIOUS
      <4>1. CASE At \in 11 .. 12
        <5>1. awaiting \in {"offload", "writeSc"}
          <6>1. At = 11 \/ At = 12
            BY <4>1
          <6> QED
            BY <2>3, <6>1, Names
        <5>2. Host!LeHostSeen(host) <=> "leHost" \in modes
          BY <4>1, PastNames DEF CtlInv, Decides
        <5> QED
          BY <2>1, <2>2, <5>1, <5>2
      <4>2. CASE At > 12
        <5>1. awaiting \notin {"offload", "writeSc", "writeLeHost", "reset"}
          BY <2>1, <4>2, NamedPlaces
        <5>2. host.ble <=> "leHost" \in modes
          BY <2>3, <4>2, PastNames DEF CtlInv, Decides
        <5> QED
          BY <2>1, <2>2, <5>1, <5>2
      <4> QED
        BY <2>3, <2>5, <4>1, <4>2
    <3>6. awaiting' \in Host!LeCommands => host'.ble
      <4> SUFFICES ASSUME awaiting' \in Host!LeCommands PROVE host'.ble
        OBVIOUS
      <4>1. awaiting' \notin {"pages", "none"}
        BY DEF Host!LeCommands
      <4>2. Host!Wanted(awaiting', host')
        BY <2>1, <4>1 DEF GoesOn
      <4> QED
        BY <4>2, Zenon DEF Host!Wanted, Host!LeCommands
    <3> QED
      BY <2>2, <3>1, <3>2, <3>3, <3>4, <3>5, <3>6, NamedPlaces
        DEF Decides, Past
  <2> QED
    BY <2>6, <2>9, <2>10, <2>11 DEF CtlInv
<1> QED
  BY <1>1, <1>2

LEMMA CtlInitially ==
  ASSUME Host!ControllerConstants, Host!CtlInit
  PROVE  CtlInv
<1>1. /\ host = Host!InitialStatics /\ readable = FALSE /\ awaiting = "none"
      /\ chip \in Chips /\ modes = {}
  BY DEF Host!CtlInit
<1>2. Host!InitialStatics \in Host!HostStatics
  <2>1. [p \in 0 .. (Host!PageCount - 1) |-> {}] \in
          [0 .. (Host!PageCount - 1) -> SUBSET Host!Bits]
    OBVIOUS
  <2>2. 0 \in 0 .. Host!PageCount
    BY DEF Host!PageCount
  <2> QED
    BY <2>1, <2>2 DEF Host!InitialStatics, Host!HostStatics
<1>3. At = 0
  BY <1>1 DEF At
<1>4. CtlTypes
  BY <1>1, <1>2 DEF Host!ControllerConstants, CtlTypes
<1>5. Known /\ Written
  BY <1>1, <1>3, PastNames DEF Known, Written
<1>6. Decides
  BY <1>1, <1>3, PastNames DEF Decides, Host!LeCommands
<1> QED
  BY <1>4, <1>5, <1>6 DEF CtlInv

LEMMA StartUpKeeps ==
  ASSUME CtlInv, Host!StartUp
  PROVE  CtlInv'
<1>1. /\ awaiting' = "reset" /\ asked' = {"reset"} /\ ~readable
      /\ UNCHANGED <<host, readable, chip, modes>>
  BY DEF Host!StartUp, Host!chipVars
<1>2. At' = 1
  BY <1>1, NamedPlaces DEF At
<1>3. CtlTypes'
  BY <1>1, StepsAre, Names DEF CtlInv, CtlTypes
<1>4. Known' /\ Written'
  BY <1>1, <1>2, NamedPlaces DEF Known, Written, Past
<1>5. Decides'
  BY <1>1, <1>2, NamedPlaces DEF CtlInv, Decides, Past, Host!LeCommands
<1> QED
  BY <1>3, <1>4, <1>5 DEF CtlInv

LEMMA ShutDownKeeps ==
  ASSUME CtlInv, Host!ShutDown
  PROVE  CtlInv'
<1>1. /\ awaiting' = "none" /\ ~readable'
      /\ UNCHANGED <<host, chip, modes>>
  BY DEF Host!ShutDown, Host!chipVars, CtlInv, CtlTypes
<1>2. At' = 0
  BY <1>1 DEF At
<1>3. CtlTypes'
  BY <1>1 DEF Host!ShutDown, CtlInv, CtlTypes
<1>4. Known' /\ Written'
  BY <1>1, <1>2, NamedPlaces DEF Known, Written, Past
<1>5. Decides'
  BY <1>1, <1>2, NamedPlaces DEF CtlInv, Decides, Past, Host!LeCommands
<1> QED
  BY <1>3, <1>4, <1>5 DEF CtlInv

LEMMA CtlStays ==
  ASSUME CtlInv, UNCHANGED <<Host!ctlVars, Host!chipVars>>
  PROVE  CtlInv'
<1>1. UNCHANGED <<host, readable, awaiting, asked, chip, modes>>
  BY DEF Host!ctlVars, Host!chipVars
<1> QED
  BY <1>1
    DEF CtlInv, CtlTypes, Known, Written, Decides, At, Past, Host!LeHostSeen,
        Host!MorePages

LEMMA CtlTells ==
  ASSUME CtlInv
  PROVE  Host!ReadyMatchesChip /\ Host!AskedInOrder
<1>1. Host!ReadyMatchesChip
  <2> SUFFICES ASSUME readable PROVE Host!ReadyMatchesChip
    BY DEF Host!ReadyMatchesChip
  <2>1. At = 24
    BY DEF At, CtlInv, CtlTypes
  <2>2. /\ chip.echoes => (host.ble <=> "leHost" \in modes)
        /\ host.ble => /\ host.bleFeatures = chip.can \cap Host!LeAbilities
                       /\ host.aclBle # "unset"
        /\ host.ssp <=> "ssp" \in chip.can
    BY <2>1, PastNames DEF CtlInv, Known, Decides
  <2>3. /\ host.keySize <=> "keySize" \in host.commands
        /\ host.commands = chip.can \cap {"codecs", "keySize"}
    BY <2>1, PastNames DEF CtlInv, Known
  <2> QED
    BY <2>2, <2>3 DEF Host!ReadyMatchesChip
<1>2. Host!LeOnlyToLe
  <2> SUFFICES ASSUME chip.echoes, awaiting \in Host!LeCommands
               PROVE  "leHost" \in modes
    BY DEF Host!LeOnlyToLe
  <2>1. At > 11
    BY NamedPlaces DEF At, Host!LeCommands
  <2> QED
    BY <2>1, PastNames DEF CtlInv, Decides
<1>3. Host!PagesAfterHostBits
  <2> SUFFICES ASSUME awaiting = "pages" PROVE Host!PagesAfterHostBits
    BY DEF Host!PagesAfterHostBits
  <2>1. At = 10
    BY NamedPlaces DEF At
  <2> QED
    BY <2>1, PastNames DEF CtlInv, Written, Host!PagesAfterHostBits
<1> QED
  BY <1>1, <1>2, <1>3 DEF Host!AskedInOrder

-----------------------------------------------------------------------------
(* Without a link and anything on the way.                                  *)
LEMMA LinkInitially ==
  ASSUME Host!Init
  PROVE  LinkInv
<1>1. /\ link = "none" /\ seen = "none" /\ events = <<>> /\ toChip = <<>>
      /\ isLe \in BOOLEAN
  BY DEF Host!Init
<1>2. LinkTypes
  BY <1>1 DEF LinkTypes, Host!Links
<1> DEFINE past == [i \in 1 .. 1 |-> "none"]
<1>3. past \in [1 .. (Len(events) + 1) -> Host!Links] /\ past[1] = "none"
  BY <1>1 DEF Host!Links
<1>4. Went(past)
  BY <1>1, <1>3 DEF Went
<1>5. Sees(past[1]) /\ ~Unsure(past[1])
  BY <1>1, <1>3 DEF Sees, Unsure, View, Host!Encrypted
<1> QED
  BY <1>2, <1>3, <1>4, <1>5 DEF LinkInv

LEMMA NoLink ==
  ASSUME link' = "none", seen' = "none", events' = <<>>, toChip' = <<>>,
         isLe' \in BOOLEAN
  PROVE  LinkInv'
<1>1. LinkTypes'
  BY DEF LinkTypes, Host!Links
<1> DEFINE past == [i \in 1 .. 1 |-> "none"]
<1>2. past \in [1 .. (Len(events') + 1) -> Host!Links] /\ past[1] = "none"
  BY DEF Host!Links
<1>3. Went(past)'
  BY <1>2 DEF Went
<1>4. Sees(past[1])' /\ ~Unsure(past[1])'
  BY <1>2 DEF Sees, Unsure, View, Host!Encrypted
<1> QED
  BY <1>1, <1>2, <1>3, <1>4 DEF LinkInv

(* What is known of a history of the link, and of one longer by an event or *)
(* shorter by the one handled.                                              *)
LEMMA HistoryGrows ==
  ASSUME LinkTypes, NEW past, Went(past),
         NEW e \in Host!Events, NEW k \in Host!Links,
         Follows(link, e, k), link' = k, events' = Append(events, e),
         Host!AsksKeySize' = Host!AsksKeySize
  PROVE  \E new \in [1 .. (Len(events') + 1) -> Host!Links] :
           Went(new)' /\ new[1] = past[1]
<1>1. PICK n \in Nat : n = Len(events)
  BY DEF LinkTypes
<1>2. /\ Len(events') = n + 1 /\ events'[n + 1] = e
      /\ \A i \in 1 .. n : events'[i] = events[i]
  BY <1>1 DEF LinkTypes
<1>3. /\ past \in [1 .. (n + 1) -> Host!Links] /\ past[n + 1] = link
      /\ \A i \in 1 .. n : Follows(past[i], events[i], past[i + 1])
  BY <1>1 DEF Went
<1>4. PICK new \in [1 .. (n + 2) -> Host!Links] :
        /\ \A i \in 1 .. (n + 1) : new[i] = past[i]
        /\ new[n + 2] = k
  <2> DEFINE longer ==
        [i \in 1 .. (n + 2) |-> IF i <= n + 1 THEN past[i] ELSE k]
  <2>1. longer \in [1 .. (n + 2) -> Host!Links]
    BY <1>3
  <2>2. \A i \in 1 .. (n + 1) : longer[i] = past[i]
    OBVIOUS
  <2>3. longer[n + 2] = k
    OBVIOUS
  <2> HIDE DEF longer
  <2> QED
    BY <2>1, <2>2, <2>3
<1>5. \A i \in 1 .. (n + 1) : Follows(new[i], events'[i], new[i + 1])
  BY <1>2, <1>3, <1>4
<1>6. \A i \in 1 .. (n + 1) : Follows(new[i], events[i], new[i + 1])'
  BY <1>5 DEF Follows
<1>7. Went(new)'
  BY <1>2, <1>4, <1>6 DEF Went
<1> QED
  BY <1>2, <1>4, <1>7

LEMMA HistoryShifts ==
  ASSUME LinkTypes, NEW past, Went(past), events # <<>>,
         link' = link, events' = Tail(events),
         Host!AsksKeySize' = Host!AsksKeySize
  PROVE  /\ Follows(past[1], Head(events), past[2])
         /\ past[1] \in Host!Links /\ past[2] \in Host!Links
         /\ \E new \in [1 .. (Len(events') + 1) -> Host!Links] :
              Went(new)' /\ new[1] = past[2]
<1>1. PICK n \in Nat \ {0} : n = Len(events)
  BY DEF LinkTypes
<1>2. /\ Len(events') = n - 1 /\ events[1] = Head(events)
      /\ \A i \in 1 .. (n - 1) : events'[i] = events[i + 1]
  BY <1>1 DEF LinkTypes
<1>3. /\ past \in [1 .. (n + 1) -> Host!Links] /\ past[n + 1] = link
      /\ \A i \in 1 .. n : Follows(past[i], events[i], past[i + 1])
  BY <1>1 DEF Went
<1>4. PICK new \in [1 .. n -> Host!Links] :
        \A i \in 1 .. n : new[i] = past[i + 1]
  <2> DEFINE shorter == [i \in 1 .. n |-> past[i + 1]]
  <2>1. shorter \in [1 .. n -> Host!Links]
    BY <1>3
  <2> QED
    BY <2>1
<1>5. \A i \in 1 .. (n - 1) : Follows(new[i], events'[i], new[i + 1])
  BY <1>2, <1>3, <1>4
<1>6. \A i \in 1 .. (n - 1) : Follows(new[i], events[i], new[i + 1])'
  BY <1>5 DEF Follows
<1>7. Went(new)'
  BY <1>2, <1>3, <1>4, <1>6 DEF Went
<1>8. new[1] = past[2] /\ Follows(past[1], Head(events), past[2])
  BY <1>2, <1>3, <1>4
<1>9. past[1] \in Host!Links /\ past[2] \in Host!Links
  BY <1>3
<1> QED
  BY <1>2, <1>4, <1>7, <1>8, <1>9

LEMMA SameLink ==
  ASSUME LinkInv, UNCHANGED <<link, seen, isLe, events, toChip, readable>>,
         Host!AsksKeySize' = Host!AsksKeySize
  PROVE  LinkInv'
<1>1. LinkTypes'
  BY DEF LinkInv, LinkTypes
<1>2. PICK past \in [1 .. (Len(events) + 1) -> Host!Links] :
        Went(past) /\ Sees(past[1]) /\ (Unsure(past[1]) => Asking)
  BY DEF LinkInv
<1>3. Went(past)'
  BY <1>2 DEF Went, Follows
<1>4. Sees(past[1])' /\ (Unsure(past[1])' => Unsure(past[1]))
  BY <1>2 DEF Sees, Unsure
<1>5. Asking => Asking'
  BY DEF Asking
<1> QED
  BY <1>1, <1>2, <1>3, <1>4, <1>5 DEF LinkInv

(* The controller sends an event.                                           *)
LEMMA EventComes ==
  ASSUME LinkInv, NEW e, <<e, "event">> \in Host!Events, NEW k \in Host!Links,
         Follows(link, <<e, "event">>, k), link' = k,
         events' = Append(events, <<e, "event">>),
         UNCHANGED <<seen, isLe, toChip>>, readable, readable',
         Host!AsksKeySize' = Host!AsksKeySize,
         e = "connected" \/ link # "none" \/ k = "none"
  PROVE  LinkInv'
<1>1. PICK past : Went(past) /\ Sees(past[1]) /\ (Unsure(past[1]) => Asking)
  BY DEF LinkInv
<1>2. LinkTypes
  BY DEF LinkInv
<1>3. PICK new \in [1 .. (Len(events') + 1) -> Host!Links] :
        Went(new)' /\ new[1] = past[1]
  BY <1>1, <1>2, HistoryGrows
<1>4. LinkTypes'
  BY <1>2 DEF LinkTypes
<1>5. Sees(new[1])'
  BY <1>1, <1>3 DEF Sees
<1>6. Unsure(new[1])' => Unsure(past[1])
  BY <1>3 DEF Unsure
<1>7. Asking => Asking'
  <2>1. /\ events \in Seq(Host!Events) /\ Len(events') = Len(events) + 1
        /\ events'[Len(events) + 1] = <<e, "event">>
        /\ \A i \in 1 .. Len(events) : events'[i] = events[i]
    BY <1>2 DEF LinkTypes
  <2>2. CASE link = "none"
    BY <2>1, <2>2 DEF Asking
  <2>3. CASE \E i \in 1 .. Len(toChip) : toChip[i] # "rand"
    BY <2>3 DEF Asking
  <2>4. CASE \E i \in 1 .. Len(events) :
               \/ events[i] = <<"connected", "event">>
               \/ events[i][2] \in Queries
    BY <2>1, <2>4 DEF Asking
  <2> QED
    BY <2>2, <2>3, <2>4 DEF Asking
<1> QED
  BY <1>1, <1>3, <1>4, <1>5, <1>6, <1>7 DEF LinkInv

(* The controller and its peer change the link and say so.                  *)
LEMMA PeerKeeps ==
  ASSUME LinkInv,
         \/ Host!Connects \/ Host!Encrypts \/ Host!Refreshes
         \/ Host!StopsEncryption \/ Host!PeerLeaves
  PROVE  LinkInv'
<1>1. /\ readable /\ UNCHANGED <<readable, host, isLe, seen, toChip>>
      /\ Host!AsksKeySize' = Host!AsksKeySize /\ link \in Host!Links
  BY DEF Host!Connects, Host!Encrypts, Host!Refreshes, Host!StopsEncryption,
       Host!PeerLeaves, Host!Running, Host!ctlVars, Host!AsksKeySize, LinkInv,
       LinkTypes
<1>2. CASE Host!Connects
  <2>1. /\ link = "none" /\ link' = "plain"
        /\ events' = Append(events, <<"connected", "event">>)
    BY <1>2 DEF Host!Connects, Host!Event
  <2>2. Follows(link, <<"connected", "event">>, "plain")
    BY <2>1 DEF Follows
  <2> QED
    BY <1>1, <2>1, <2>2, EventComes DEF Host!Events, Host!Links
<1>3. CASE Host!Encrypts
  <2>1. PICK k \in Host!Encrypted \cup {"plain"} :
          /\ link = "plain" /\ link' = k
          /\ events' = Append(events,
               <<IF k = "plain" THEN "failed" ELSE "on", "event">>)
    BY <1>3 DEF Host!Encrypts, Host!Event
  <2>2. CASE k = "plain"
    <3>1. Follows(link, <<"failed", "event">>, "plain")
      BY <2>1 DEF Follows
    <3>2. events' = Append(events, <<"failed", "event">>)
      BY <2>1, <2>2
    <3> QED
      BY <1>1, <2>1, <2>2, <3>1, <3>2, EventComes DEF Host!Events, Host!Links
  <2>3. CASE k \in Host!Encrypted
    <3>1. Follows(link, <<"on", "event">>, k)
      BY <2>1, <2>3 DEF Follows
    <3>2. events' = Append(events, <<"on", "event">>) /\ k \in Host!Links
      BY <2>1, <2>3 DEF Host!Encrypted, Host!Links
    <3> QED
      BY <1>1, <2>1, <3>1, <3>2, EventComes DEF Host!Events
  <2> QED
    BY <2>2, <2>3
<1>4. CASE Host!Refreshes
  <2>1. PICK k \in Host!Encrypted \cup {"plain"} :
          /\ link \in Host!Encrypted /\ link' = k
          /\ events' = Append(events,
               <<IF k = "plain" THEN "refreshFailed" ELSE "refreshed",
                 "event">>)
    BY <1>4 DEF Host!Refreshes, Host!Event
  <2>2. link # "none"
    BY <2>1 DEF Host!Encrypted
  <2>3. CASE k = "plain"
    <3>1. Follows(link, <<"refreshFailed", "event">>, "plain")
      BY <2>1 DEF Follows
    <3>2. events' = Append(events, <<"refreshFailed", "event">>)
      BY <2>1, <2>3
    <3> QED
      BY <1>1, <2>1, <2>2, <2>3, <3>1, <3>2, EventComes
        DEF Host!Events, Host!Links
  <2>4. CASE k \in Host!Encrypted
    <3>1. Follows(link, <<"refreshed", "event">>, k)
      BY <2>1, <2>4 DEF Follows
    <3>2. /\ events' = Append(events, <<"refreshed", "event">>)
          /\ k \in Host!Links
      BY <2>1, <2>4 DEF Host!Encrypted, Host!Links
    <3> QED
      BY <1>1, <2>1, <2>2, <3>1, <3>2, EventComes DEF Host!Events
  <2> QED
    BY <2>3, <2>4
<1>5. CASE Host!StopsEncryption
  <2>1. /\ link \in Host!Encrypted /\ link' = "plain" /\ link # "none"
        /\ events' = Append(events, <<"off", "event">>)
    BY <1>5 DEF Host!StopsEncryption, Host!Event, Host!Encrypted
  <2>2. Follows(link, <<"off", "event">>, "plain")
    BY <2>1 DEF Follows
  <2> QED
    BY <1>1, <2>1, <2>2, EventComes DEF Host!Events, Host!Links
<1>6. CASE Host!PeerLeaves
  <2>1. /\ link # "none" /\ link' = "none"
        /\ events' = Append(events, <<"disconnected", "event">>)
    BY <1>6 DEF Host!PeerLeaves, Host!Event
  <2>2. Follows(link, <<"disconnected", "event">>, "none")
    BY <2>1 DEF Follows
  <2> QED
    BY <1>1, <2>1, <2>2, EventComes DEF Host!Events, Host!Links
<1> QED
  BY <1>2, <1>3, <1>4, <1>5, <1>6

(* The controller executes a command: it answers, or the link is gone.      *)
LEMMA ExecutesKeeps ==
  ASSUME LinkInv, Host!AsksKeySize => "keySize" \in chip.can, Host!Executes
  PROVE  LinkInv'
<1>1. /\ readable /\ UNCHANGED <<readable, host, isLe, seen>>
      /\ Host!AsksKeySize' = Host!AsksKeySize
      /\ toChip # <<>> /\ toChip' = Tail(toChip)
  BY DEF Host!Executes, Host!Running, Host!ctlVars, Host!AsksKeySize
<1>2. LinkTypes
  BY DEF LinkInv
<1>3. PICK past : Went(past) /\ Sees(past[1]) /\ (Unsure(past[1]) => Asking)
  BY DEF LinkInv
<1> DEFINE c == Head(toChip)
<1>4. /\ toChip' \in Seq(Queries \cup {"disconnect", "rand"})
      /\ Len(toChip') = Len(toChip) - 1 /\ Len(toChip) \in Nat \ {0}
      /\ \A i \in 1 .. (Len(toChip) - 1) : toChip'[i] = toChip[i + 1]
      /\ c = toChip[1] /\ c \in Queries \cup {"disconnect", "rand"}
      /\ ~Host!AsksKeySize => c = "rand"
  BY <1>1, <1>2 DEF LinkTypes
<1>5. ~Host!AsksKeySize' => \A i \in 1 .. Len(toChip') : toChip'[i] = "rand"
  BY <1>1, <1>2, <1>4 DEF LinkTypes
<1>6. /\ link \in Host!Links /\ seen \in {"none", "plain", "encrypted"}
      /\ isLe \in BOOLEAN /\ events \in Seq(Host!Events)
  BY <1>2 DEF LinkTypes
<1> HIDE DEF c
<1>7. ASSUME NEW e \in Host!Events, NEW k \in Host!Links, Follows(link, e, k),
             link' = k, events' = Append(events, e),
             Asking => Asking'
      PROVE  LinkInv'
  <2>1. PICK new \in [1 .. (Len(events') + 1) -> Host!Links] :
          Went(new)' /\ new[1] = past[1]
    BY <1>1, <1>2, <1>3, <1>7, HistoryGrows
  <2>2. LinkTypes'
    BY <1>1, <1>4, <1>5, <1>6, <1>7 DEF LinkTypes
  <2>3. Sees(new[1])' /\ (Unsure(new[1])' => Unsure(past[1]))
    BY <1>1, <1>3, <2>1 DEF Sees, Unsure
  <2> QED
    BY <1>3, <1>7, <2>1, <2>2, <2>3 DEF LinkInv
<1>8. CASE c = "disconnect" /\ link = "none"
  <2>1. link' = link /\ events' = events
    BY <1>8 DEF Host!Executes, c, Queries
  <2>2. LinkTypes'
    BY <1>1, <1>4, <1>5, <1>6, <2>1 DEF LinkTypes
  <2>3. Went(past)' /\ Sees(past[1])'
    BY <1>1, <1>3, <2>1 DEF Went, Follows, Sees
  <2>4. past \in [1 .. (Len(events') + 1) -> Host!Links] /\ Asking'
    BY <1>3, <1>8, <2>1 DEF Went, Asking
  <2> QED
    BY <2>2, <2>3, <2>4 DEF LinkInv
<1>9. CASE c = "disconnect" /\ link # "none"
  <2>1. /\ link' = "none"
        /\ events' = Append(events, <<"disconnected", "event">>)
    BY <1>9 DEF Host!Executes, c, Queries, Host!Event
  <2>2. Follows(link, <<"disconnected", "event">>, "none")
    BY <1>9 DEF Follows
  <2>3. /\ Asking'
        /\ <<"disconnected", "event">> \in Host!Events
        /\ "none" \in Host!Links
    BY <2>1 DEF Asking, Host!Events, Host!Links
  <2> QED
    BY <1>7, <2>1, <2>2, <2>3
<1>10. CASE c \in Queries
  <2> DEFINE m == Host!MeasuredKey
  <2>1. link' = link /\ events' = Append(events, <<m, c>>)
    BY <1>10 DEF Host!Executes, c, Queries
  <2>2. Host!AsksKeySize /\ "keySize" \in chip.can
    BY <1>4, <1>10 DEF Queries
  <2>3. m = CASE link = "none" -> "failed" [] link = "plain" -> "insufficient"
              [] OTHER -> link
    BY <2>2 DEF Host!MeasuredKey
  <2>4. m \in Host!KeySizeAnswers
    BY <1>6, <2>3 DEF Host!KeySizeAnswers, Host!Links
  <2> HIDE DEF m
  <2>5. <<m, c>> \in Host!Events
    BY <1>10, <2>4 DEF Host!Events, Queries
  <2>6. Follows(link, <<m, c>>, link)
    BY <1>10, <2>2, <2>3 DEF Follows
  <2>7. Asking'
    <3>1. /\ events'[Len(events) + 1] = <<m, c>>
          /\ Len(events') = Len(events) + 1 /\ Len(events) \in Nat
      BY <1>6, <2>1, <2>5
    <3>2. events'[Len(events) + 1][2] \in Queries
      BY <1>10, <3>1
    <3> QED
      BY <3>1, <3>2 DEF Asking
  <2> QED
    BY <1>6, <1>7, <2>1, <2>5, <2>6, <2>7
<1>11. CASE c = "rand"
  <2>1. PICK a \in {"bytes", "refused"} :
          link' = link /\ events' = Append(events, <<a, "rand">>)
    BY <1>11 DEF Host!Executes, c
  <2>2. <<a, "rand">> \in Host!Events /\ Follows(link, <<a, "rand">>, link)
    BY DEF Host!Events, Follows
  <2>3. Asking => Asking'
    <3>1. /\ \A i \in 1 .. Len(events) : events'[i] = events[i]
          /\ Len(events') = Len(events) + 1 /\ Len(events) \in Nat
      BY <1>6, <2>1, <2>2
    <3>2. CASE link = "none"
      BY <2>1, <3>2 DEF Asking
    <3>3. CASE \E i \in 1 .. Len(toChip) : toChip[i] # "rand"
      <4>1. PICK i \in 1 .. Len(toChip) : toChip[i] # "rand"
        BY <3>3
      <4>2. i # 1
        BY <1>4, <1>11, <4>1
      <4>3. i - 1 \in 1 .. (Len(toChip) - 1)
        BY <1>4, <4>1, <4>2
      <4>4. toChip'[i - 1] = toChip[(i - 1) + 1]
        BY <1>4, <4>3
      <4>5. toChip'[i - 1] # "rand"
        BY <4>1, <4>4
      <4> QED
        BY <1>4, <4>3, <4>5 DEF Asking
    <3>4. CASE \E i \in 1 .. Len(events) :
                 \/ events[i] = <<"connected", "event">>
                 \/ events[i][2] \in Queries
      BY <3>1, <3>4 DEF Asking
    <3> QED
      BY <3>2, <3>3, <3>4 DEF Asking
  <2> QED
    BY <1>6, <1>7, <2>1, <2>2, <2>3
<1> QED
  BY <1>4, <1>8, <1>9, <1>10, <1>11

(* The stack handles an event or an answer.                                 *)
LEMMA HandlesKeeps ==
  ASSUME LinkInv, Host!Handles
  PROVE  LinkInv'
<1>1. /\ readable /\ UNCHANGED <<readable, host, isLe, link>>
      /\ Host!AsksKeySize' = Host!AsksKeySize
      /\ events # <<>> /\ events' = Tail(events)
  BY DEF Host!Handles, Host!Running, Host!ctlVars, Host!AsksKeySize
<1>2. LinkTypes
  BY DEF LinkInv
<1>3. PICK past \in [1 .. (Len(events) + 1) -> Host!Links] :
        Went(past) /\ Sees(past[1]) /\ (Unsure(past[1]) => Asking)
  BY DEF LinkInv
<1>4. PICK e \in Host!Events, n \in Nat \ {0} :
        /\ n = Len(events) /\ e = Head(events) /\ e = events[1]
        /\ Len(events') = n - 1 /\ events' \in Seq(Host!Events)
        /\ \A i \in 1 .. (n - 1) : events'[i] = events[i + 1]
  BY <1>1, <1>2 DEF LinkTypes
<1>5. PICK l \in Host!Links, k \in Host!Links,
           new \in [1 .. (Len(events') + 1) -> Host!Links] :
        /\ l = past[1] /\ Follows(l, e, k)
        /\ Went(new)' /\ new[1] = k
  BY <1>1, <1>2, <1>3, <1>4, HistoryShifts
<1>6. Sees(l) /\ (Unsure(l) => Asking)
  BY <1>3, <1>5
<1>7. /\ link \in Host!Links /\ seen \in {"none", "plain", "encrypted"}
      /\ isLe \in BOOLEAN
      /\ toChip \in Seq(Queries \cup {"disconnect", "rand"})
      /\ ~Host!AsksKeySize => \A i \in 1 .. Len(toChip) : toChip[i] = "rand"
  BY <1>2 DEF LinkTypes
<1>8. ASSUME seen' \in {"none", "plain", "encrypted"}, toChip' = toChip,
             Sees(k)', Unsure(k)' => Asking'
      PROVE  LinkInv'
  <2>1. LinkTypes'
    BY <1>1, <1>4, <1>7, <1>8 DEF LinkTypes
  <2>2. Sees(new[1])' /\ (Unsure(new[1])' => Asking')
    BY <1>5, <1>8
  <2> QED
    BY <1>5, <2>1, <2>2 DEF LinkInv
<1>9. ASSUME NEW c \in Queries \cup {"disconnect"}, Host!AsksKeySize,
             toChip' = Append(toChip, c), seen' = seen, Sees(k)'
      PROVE  LinkInv'
  <2>1. /\ toChip' \in Seq(Queries \cup {"disconnect", "rand"})
        /\ Len(toChip') = Len(toChip) + 1 /\ Len(toChip) \in Nat
        /\ toChip'[Len(toChip) + 1] = c
    BY <1>7, <1>9
  <2>2. LinkTypes'
    BY <1>1, <1>4, <1>7, <1>9, <2>1 DEF LinkTypes
  <2>3. c # "rand"
    BY <1>9 DEF Queries
  <2>4. Asking'
    BY <2>1, <2>3 DEF Asking
  <2>5. Sees(new[1])'
    BY <1>5, <1>9
  <2> QED
    BY <1>5, <2>2, <2>4, <2>5 DEF LinkInv
<1>10. CASE e[2] = "event" /\ e[1] \in {"connected", "disconnected"}
  <2>1. /\ seen' = IF e[1] = "connected" THEN "plain" ELSE "none"
        /\ toChip' = toChip
    BY <1>4, <1>10
      DEF Host!Handles, Host!HandleLinkEvent, Host!EncryptionChange,
          Host!KeyRefresh
  <2>2. k = IF e[1] = "connected" THEN "plain" ELSE "none"
    BY <1>4, <1>5, <1>10 DEF Follows, Queries
  <2>3. Sees(k)' /\ ~Unsure(k)'
    BY <2>1, <2>2 DEF Sees, Unsure, View, Host!Encrypted
  <2> QED
    BY <1>8, <2>1, <2>3
<1>11. CASE e = <<"failed", "event">>
  <2>1. e[1] = "failed" /\ e[2] = "event"
    BY <1>11
  <2>2. Host!EncryptionChange("failed")
    BY <1>4, <2>1 DEF Host!Handles, Host!HandleLinkEvent
  <2>3. seen' = seen /\ toChip' = toChip
    BY <2>2 DEF Host!EncryptionChange, Host!Skip
  <2>4. k = l /\ l = "plain"
    BY <1>5, <1>11 DEF Follows, Queries
  <2>5. Sees(k)' /\ ~Unsure(k)'
    BY <1>1, <1>6, <2>3, <2>4 DEF Sees, Unsure, View, Host!Encrypted
  <2> QED
    BY <1>7, <1>8, <2>3, <2>5
<1>12. CASE e[2] = "event" /\ e[1] \in {"off", "refreshFailed"}
  <2>1. l \in Host!Encrypted /\ k = "plain"
    BY <1>4, <1>5, <1>12 DEF Follows, Queries
  <2>2. seen # "none"
    BY <1>6, <2>1 DEF Sees, View, Host!Encrypted
  <2>3. seen' = "plain" /\ toChip' = toChip
    BY <1>4, <1>12, <2>2
      DEF Host!Handles, Host!HandleLinkEvent, Host!EncryptionChange,
          Host!KeyRefresh, Host!Tell, Host!Told
  <2>4. Sees(k)' /\ ~Unsure(k)'
    BY <2>1, <2>3 DEF Sees, Unsure, View, Host!Encrypted
  <2> QED
    BY <1>8, <2>3, <2>4
<1>13. CASE e[2] = "event" /\ e[1] \in {"on", "refreshed"}
  <2>1. l # "none" /\ k \in Host!Encrypted
    BY <1>4, <1>5, <1>13 DEF Follows, Queries, Host!Encrypted
  <2>2. seen # "none"
    BY <1>6, <1>5, <2>1 DEF Sees, View, Host!Encrypted, Host!Links
  <2>3. CASE Host!AsksKeySize
    <3>1. /\ \E c \in Queries : toChip' = Append(toChip, c)
          /\ seen' = seen
      BY <1>4, <1>13, <2>3
        DEF Host!Handles, Host!HandleLinkEvent, Host!EncryptionChange,
            Host!KeyRefresh, Host!Command, Queries
    <3>2. Sees(k)'
      BY <1>1, <2>1, <2>2, <2>3, <3>1 DEF Sees, Host!Encrypted
    <3> QED
      BY <1>9, <2>3, <3>1, <3>2
  <2>4. CASE ~Host!AsksKeySize
    <3>1. seen' = "encrypted" /\ toChip' = toChip
      BY <1>4, <1>13, <2>2, <2>4
        DEF Host!Handles, Host!HandleLinkEvent, Host!EncryptionChange,
            Host!KeyRefresh, Host!Tell, Host!Told
    <3>2. Sees(k)' /\ ~Unsure(k)'
      BY <1>1, <2>1, <2>4, <3>1 DEF Sees, Unsure, View
    <3> QED
      BY <1>8, <3>1, <3>2
  <2> QED
    BY <2>3, <2>4
<1>14. CASE e[2] \in Queries
  <2>1. /\ Host!AsksKeySize /\ k = l
        /\ e[1] = CASE l = "none" -> "failed" [] l = "plain" -> "insufficient"
                    [] OTHER -> l
    BY <1>5, <1>14 DEF Follows, Queries
  <2>2. Host!KeySizeComplete(e[1])
    BY <1>4, <1>14 DEF Host!Handles, Queries
  <2>3. CASE l = "plain"
    <3>1. seen' = seen /\ toChip' = toChip
      BY <2>1, <2>2, <2>3 DEF Host!KeySizeComplete, Host!Skip
    <3>2. Sees(k)' /\ ~Unsure(k)'
      BY <1>1, <1>6, <2>1, <2>3, <3>1 DEF Sees, Unsure, Host!Encrypted
    <3> QED
      BY <1>7, <1>8, <3>1, <3>2
  <2>4. CASE l = "good"
    <3>1. seen # "none"
      BY <1>6, <2>1, <2>4 DEF Sees
    <3>2. seen' = "encrypted" /\ toChip' = toChip
      BY <2>1, <2>2, <2>4, <3>1 DEF Host!KeySizeComplete, Host!Tell, Host!Told
    <3>3. Sees(k)' /\ ~Unsure(k)'
      BY <1>1, <2>1, <2>4, <3>2 DEF Sees, Unsure
    <3> QED
      BY <1>8, <3>2, <3>3
  <2>5. CASE l \in {"none", "weak"}
    <3>1. seen' = seen /\ toChip' = Append(toChip, "disconnect")
      BY <2>1, <2>2, <2>5 DEF Host!KeySizeComplete, Host!Command
    <3>2. Sees(k)'
      BY <1>1, <1>6, <2>1, <3>1 DEF Sees
    <3> QED
      BY <1>9, <2>1, <3>1, <3>2
  <2> QED
    BY <1>5, <2>3, <2>4, <2>5 DEF Host!Links
<1>15. CASE e[2] = "rand"
  <2>1. seen' = seen /\ toChip' = toChip
    BY <1>4, <1>15 DEF Host!Handles, Host!Skip
  <2>2. k = l
    BY <1>5, <1>15 DEF Follows, Queries
  <2>3. Sees(k)' /\ (Unsure(k)' => Unsure(l))
    BY <1>1, <1>6, <2>1, <2>2 DEF Sees, Unsure
  <2>4. Asking => Asking'
    <3>1. CASE \E i \in 1 .. Len(events) :
                 \/ events[i] = <<"connected", "event">>
                 \/ events[i][2] \in Queries
      <4>1. PICK i \in 1 .. n : \/ events[i] = <<"connected", "event">>
                                \/ events[i][2] \in Queries
        BY <1>4, <3>1
      <4>2. i # 1
        BY <1>4, <1>15, <4>1 DEF Queries
      <4>3. i - 1 \in 1 .. (n - 1)
        BY <4>1, <4>2
      <4>4. events'[i - 1] = events[(i - 1) + 1]
        BY <1>4, <4>3
      <4>5. \/ events'[i - 1] = <<"connected", "event">>
            \/ events'[i - 1][2] \in Queries
        BY <4>1, <4>4
      <4> QED
        BY <1>4, <4>3, <4>5 DEF Asking
    <3>2. CASE link = "none" \/ \E i \in 1 .. Len(toChip) : toChip[i] # "rand"
      BY <1>1, <2>1, <3>2 DEF Asking
    <3> QED
      BY <3>1, <3>2 DEF Asking
  <2> QED
    BY <1>6, <1>7, <1>8, <2>1, <2>3, <2>4
<1>16. \/ e[2] = "event" /\ e[1] \in {"connected", "disconnected"}
       \/ e = <<"failed", "event">>
       \/ e[2] = "event" /\ e[1] \in {"off", "refreshFailed"}
       \/ e[2] = "event" /\ e[1] \in {"on", "refreshed"}
       \/ e[2] \in Queries \/ e[2] = "rand"
  BY <1>4 DEF Host!Events, Queries
<1> QED
  BY <1>10, <1>11, <1>12, <1>13, <1>14, <1>15, <1>16

(* Random bytes are asked for.                                              *)
LEMMA BleRandKeeps ==
  ASSUME LinkInv, Host!BleRand
  PROVE  LinkInv'
<1>1. /\ readable /\ UNCHANGED <<readable, host, isLe, link, seen, events>>
      /\ Host!AsksKeySize' = Host!AsksKeySize
      /\ toChip' = toChip \/ toChip' = Append(toChip, "rand")
  BY DEF Host!BleRand, Host!Running, Host!ctlVars, Host!AsksKeySize,
       Host!Command, Host!Skip
<1>2. LinkTypes
  BY DEF LinkInv
<1>3. CASE toChip' = toChip
  BY <1>1, <1>3, SameLink
<1>4. CASE toChip' = Append(toChip, "rand")
  <2>1. /\ toChip' \in Seq(Queries \cup {"disconnect", "rand"})
        /\ Len(toChip') = Len(toChip) + 1 /\ Len(toChip) \in Nat
        /\ toChip'[Len(toChip) + 1] = "rand"
        /\ \A i \in 1 .. Len(toChip) : toChip'[i] = toChip[i]
    BY <1>2, <1>4 DEF LinkTypes
  <2>2. LinkTypes'
    BY <1>1, <1>2, <2>1 DEF LinkTypes
  <2>3. Asking => Asking'
    BY <1>1, <2>1 DEF Asking
  <2>4. PICK past \in [1 .. (Len(events) + 1) -> Host!Links] :
          Went(past) /\ Sees(past[1]) /\ (Unsure(past[1]) => Asking)
    BY DEF LinkInv
  <2>5. Went(past)' /\ Sees(past[1])' /\ (Unsure(past[1])' => Unsure(past[1]))
    BY <1>1, <2>4 DEF Went, Follows, Sees, Unsure
  <2> QED
    BY <1>1, <2>2, <2>3, <2>4, <2>5 DEF LinkInv
<1> QED
  BY <1>1, <1>3, <1>4

-----------------------------------------------------------------------------
(* The whole.                                                               *)
LEMMA HostInitially ==
  ASSUME Host!ControllerConstants, Host!Init
  PROVE  HostInv
BY CtlInitially, LinkInitially DEF Host!Init, HostInv

LEMMA HostStep ==
  ASSUME HostInv, [Host!Next]_Host!vars
  PROVE  HostInv'
<1>1. CtlInv /\ LinkInv /\ LinkTypes
  BY DEF HostInv, LinkInv
<1>2. CASE Host!Starts
  <2>1. Host!StartUp /\ UNCHANGED Host!btuVars
    BY <1>2 DEF Host!Starts
  <2>2. ~readable
    BY <2>1 DEF Host!StartUp
  <2>3. CtlInv'
    BY <1>1, <2>1, StartUpKeeps
  <2>4. LinkInv'
    BY <1>1, <2>1, <2>2, NoLink DEF Host!btuVars, LinkTypes
  <2> QED
    BY <2>3, <2>4 DEF HostInv
<1>3. CASE Host!Learns
  <2>1. Host!Answered /\ UNCHANGED Host!btuVars
    BY <1>3 DEF Host!Learns
  <2>2. ~readable
    BY <1>1, <2>1 DEF Host!Answered, CtlInv, CtlTypes
  <2>3. CtlInv'
    BY <1>1, <2>1, AnsweredKeeps
  <2>4. LinkInv'
    BY <1>1, <2>1, <2>2, NoLink DEF Host!btuVars, LinkTypes
  <2> QED
    BY <2>3, <2>4 DEF HostInv
<1>4. CASE Host!Stops
  <2>1. CtlInv'
    BY <1>1, <1>4, ShutDownKeeps DEF Host!Stops
  <2>2. LinkInv'
    BY <1>1, <1>4, NoLink DEF Host!Stops, LinkTypes
  <2> QED
    BY <2>1, <2>2 DEF HostInv
<1>5. CASE UNCHANGED <<Host!ctlVars, Host!chipVars>> /\ LinkInv'
  BY <1>1, <1>5, CtlStays DEF HostInv
<1>6. CASE Host!Ended \/ UNCHANGED Host!vars
  <2>1. UNCHANGED <<Host!ctlVars, Host!chipVars, Host!btuVars>>
    BY <1>6 DEF Host!Ended, Host!vars
  <2>2. /\ UNCHANGED <<link, seen, isLe, events, toChip, readable>>
        /\ Host!AsksKeySize' = Host!AsksKeySize
    BY <2>1 DEF Host!ctlVars, Host!btuVars, Host!AsksKeySize
  <2> QED
    BY <1>1, <1>5, <2>1, <2>2, SameLink
<1>7. CASE \/ Host!Connects \/ Host!Encrypts \/ Host!Refreshes
           \/ Host!StopsEncryption \/ Host!PeerLeaves
  <2>1. UNCHANGED <<Host!ctlVars, Host!chipVars>>
    BY <1>7
      DEF Host!Connects, Host!Encrypts, Host!Refreshes, Host!StopsEncryption,
          Host!PeerLeaves
  <2> QED
    BY <1>1, <1>5, <1>7, <2>1, PeerKeeps
<1>8. CASE Host!Executes
  <2>1. Host!AsksKeySize => "keySize" \in chip.can
    BY <1>1, <1>8, CtlTells
      DEF Host!Executes, Host!Running, Host!AsksKeySize, Host!ReadyMatchesChip
  <2>2. LinkInv'
    BY <1>1, <1>8, <2>1, ExecutesKeeps
  <2> QED
    BY <1>5, <1>8, <2>2 DEF Host!Executes
<1>9. CASE Host!Handles
  BY <1>1, <1>5, <1>9, HandlesKeeps DEF Host!Handles
<1>10. CASE Host!BleRand
  BY <1>1, <1>5, <1>10, BleRandKeeps DEF Host!BleRand
<1> QED
  BY <1>2, <1>3, <1>4, <1>6, <1>7, <1>8, <1>9, <1>10 DEF Host!Next

LEMMA HostTells ==
  ASSUME HostInv
  PROVE  Host!ReadyMatchesChip /\ Host!AskedInOrder /\ Host!SettledAgreement
<1>1. Host!ReadyMatchesChip /\ Host!AskedInOrder
  BY CtlTells DEF HostInv
<1>2. ASSUME Host!Running, events = <<>>, toChip = <<>>
      PROVE  /\ seen = "none" <=> link = "none"
             /\ seen = "encrypted" <=> link \in Host!Encrypted
             /\ link = "weak" => isLe \/ "keySize" \notin chip.can
  <2>1. PICK past \in [1 .. (Len(events) + 1) -> Host!Links] :
          Went(past) /\ Sees(past[1]) /\ (Unsure(past[1]) => Asking)
    BY DEF HostInv, LinkInv
  <2>2. past[1] = link /\ link \in Host!Links
    BY <1>2, <2>1 DEF Went
  <2>3. Asking => link = "none"
    BY <1>2 DEF Asking
  <2>4. Sees(link) /\ ~Unsure(link)
    BY <2>1, <2>2, <2>3 DEF Unsure, Host!Encrypted
  <2>5. host.keySize <=> "keySize" \in chip.can
    BY <1>1, <1>2 DEF Host!ReadyMatchesChip, Host!Running
  <2>6. CASE Host!AsksKeySize
    BY <2>2, <2>4, <2>6 DEF Sees, Unsure, Host!Encrypted, Host!Links
  <2>7. CASE ~Host!AsksKeySize
    <3>1. isLe \/ "keySize" \notin chip.can
      BY <2>5, <2>7 DEF Host!AsksKeySize
    <3> QED
      BY <2>2, <2>4, <2>7, <3>1 DEF Sees, View, Host!Encrypted, Host!Links
  <2> QED
    BY <2>6, <2>7
<1> QED
  BY <1>1, <1>2 DEF Host!SettledAgreement

-----------------------------------------------------------------------------
(***************************************************************************)
(* The theorems, for a part on its own and in the instance of three parts. *)
(***************************************************************************)

(* A step of the instance is a step of each part, or leaves it as it is.    *)
LEMMA ModuleAlone ==
  /\ BluetoothInit => Module!Init
  /\ [BluetoothNext]_bluetoothVars => [Module!Next]_Module!vars
<1>1. UNCHANGED startUpPart => UNCHANGED Module!vars
  BY DEF startUpPart, Module!vars, Module!stackVars, Module!loopVars,
       Module!waitVars, Module!halVars
<1> QED
  BY <1>1, Zenon
    DEF BluetoothInit, BluetoothNext, bluetoothVars, InFlow, InStartUp, InHost

LEMMA HostAlone ==
  /\ BluetoothInit => Host!Init
  /\ [BluetoothNext]_bluetoothVars => [Host!Next]_Host!vars
<1>1. UNCHANGED hostPart => UNCHANGED Host!vars
  BY DEF hostPart, Host!vars, Host!ctlVars, Host!chipVars, Host!btuVars
<1> QED
  BY <1>1, Zenon
    DEF BluetoothInit, BluetoothNext, bluetoothVars, InFlow, InStartUp, InHost

(* The HAL's answer and the start-up timer, which race for the future, make *)
(* it ready once at most (event_finish_startup, startup_timer_expired).     *)
THEOREM FutureIsReadiedOnce ==
  /\ Module!Spec => []Module!ReadiedOnce
  /\ BluetoothSpec => []Module!ReadiedOnce
<1>1. Module!Init => FutureInv
  <2>1. Module!Init => future = FALSE /\ readied = 0
    BY DEF Module!Init
  <2>2. readied = 0 => readied \in 0..1
    OBVIOUS
  <2>3. QED
    BY <2>1, <2>2 DEF FutureInv
<1>2. FutureInv => Module!ReadiedOnce
  BY DEF FutureInv, Module!ReadiedOnce
<1>3. Module!Spec => []Module!ReadiedOnce
  BY <1>1, <1>2, FutureStep, PTL DEF Module!Spec
<1>4. BluetoothSpec => []Module!ReadiedOnce
  BY <1>1, <1>2, FutureStep, ModuleAlone, PTL DEF BluetoothSpec
<1> QED
  BY <1>3, <1>4

(* Packets reach the HAL only while it is open, although clients send them  *)
(* until the loop is gone and the HAL is closed after that                  *)
(* (hci_module_shut_down: "Stop the thread to prevent Send() calls").       *)
THEOREM PacketsFindTheHalOpen ==
  /\ Module!Spec => []SendsOnlyToOpenHal
  /\ BluetoothSpec => []SendsOnlyToOpenHal
<1>1. Module!Init => SendInv
  BY EmptyHas
    DEF Module!Init, SendInv, ThreadLives, HalFollows,
        Module!SendsOnlyToOpenHal
<1>2. SendInv => SendsOnlyToOpenHal
  BY DEF SendInv, SendsOnlyToOpenHal
<1>3. Module!Spec => []SendsOnlyToOpenHal
  BY <1>1, <1>2, SendStep, PTL DEF Module!Spec
<1>4. BluetoothSpec => []SendsOnlyToOpenHal
  BY <1>1, <1>2, SendStep, ModuleAlone, PTL DEF BluetoothSpec
<1> QED
  BY <1>3, <1>4

LEMMA HostAlways ==
  /\ Host!Spec => []HostInv
  /\ BluetoothSpec => []HostInv
<1>1. Host!Init => HostInv
  BY HostInitially, BluetoothConstants
<1>2. Host!Spec => []HostInv
  BY <1>1, HostStep, PTL DEF Host!Spec
<1>3. BluetoothSpec => []HostInv
  BY <1>1, HostStep, HostAlone, PTL DEF BluetoothSpec
<1> QED
  BY <1>2, <1>3

(* Once start_up is over the getters say what this controller can do,       *)
(* whatever it refused and whatever the statics still held from the last    *)
(* start, with the LE host it was told of (controller.cc).                  *)
THEOREM GettersMatchTheChip ==
  /\ Host!Spec => []ReadyMatchesChip
  /\ BluetoothSpec => []ReadyMatchesChip
<1>1. HostInv => ReadyMatchesChip
  BY HostTells DEF ReadyMatchesChip
<1> QED
  BY <1>1, HostAlways, PTL

(* No LE command goes to a controller that was not told of an LE host, and  *)
(* no page after the first is asked for before the host's own support is    *)
(* written, in any start (controller.cc start_up).                          *)
THEOREM ControllersAreAskedInOrder ==
  /\ Host!Spec => []AskedInOrder
  /\ BluetoothSpec => []AskedInOrder
<1>1. HostInv => AskedInOrder
  BY HostTells DEF AskedInOrder
<1> QED
  BY <1>1, HostAlways, PTL

(* With nothing on its way the stack's record of the link is the link, and  *)
(* a BR/EDR link whose key is too short is gone where its length could be   *)
(* told, though events, answers and commands cross (btu_hcif.cc).           *)
THEOREM LinksSettleAlike ==
  /\ Host!Spec => []SettledAgreement
  /\ BluetoothSpec => []SettledAgreement
<1>1. HostInv => SettledAgreement
  BY HostTells DEF SettledAgreement
<1> QED
  BY <1>1, HostAlways, PTL
=============================================================================
