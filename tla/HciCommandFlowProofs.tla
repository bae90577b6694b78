------------------------ MODULE HciCommandFlowProofs ------------------------
(* Proofs about HciCommandFlow, for every value of its constants.           *)
EXTENDS HciCommandFlow, SequenceTheorems, TLAPS

(* Removing an element of a sequence gives a sequence over the same set.    *)
LEMMA RemoveAtType ==
  ASSUME NEW S, NEW s \in Seq(S), NEW i \in DOMAIN s
  PROVE  RemoveAt(s, i) \in Seq(S) /\ Len(RemoveAt(s, i)) = Len(s) - 1
BY DEF RemoveAt

(* What is left of a sequence, and the rest of it, are over the same set.   *)
LEMMA SplitType ==
  ASSUME NEW S, NEW s \in Seq(S), NEW n \in 0..Len(s)
  PROVE  /\ SubSeq(s, 1, n) \in Seq(S) /\ Len(SubSeq(s, 1, n)) = n
         /\ SubSeq(s, n + 1, Len(s)) \in Seq(S)
         /\ Len(SubSeq(s, n + 1, Len(s))) = Len(s) - n
OBVIOUS

(* Types of the operators the actions are built from.                       *)
LEMMA TimerForType ==
  ASSUME timer \in Timers, NEW p
  PROVE  TimerFor(p) \in Timers
BY FlowConstants DEF TimerFor, Timers, TimerHeld, TimerNull, TimerOff

LEMMA IdleEventType == IdleEvent \in EventStates
BY FlowConstants DEF IdleEvent, EventStates, EventPcs, EventCodes

LEMMA InitTypeOK == Init => TypeOK
<1>1. Init => evt \in EventStates /\ evt.pc = "idle"
  BY IdleEventType DEF Init, IdleEvent
<1>2. Init => life \in {"up", "stopping", "stopped", "down"}
  BY DEF Init
<1>3. Init => /\ stage \in [Commands -> Stages]
              /\ cmdBuf \in [Commands -> Owners]
              /\ reply \in [Commands -> Owners]
  BY DEF Init, Stages, Owners
<1>4. Init => aborted \in BOOLEAN /\ owed \in BOOLEAN
  BY DEF Init
<1>5. Init => /\ timer \in Timers
              /\ session \in 0..MaxSessions /\ nops \in 0..MaxNops
  BY FlowConstants DEF Init, Timers, TimerHeld, TimerNull
<1>6. Init => /\ queue \in Seq(Commands) /\ posted \in Seq(Commands)
              /\ pending \in Seq(Commands) /\ ctl \in Seq(Commands)
              /\ chan \in Seq(Reports) /\ credits \in Int
  BY DEF Init
<1>7. QED
  BY <1>1, <1>2, <1>3, <1>4, <1>5, <1>6 DEF TypeOK

-----------------------------------------------------------------------------
LEMMA NextTypeOK == TypeOK /\ [Next]_vars => TypeOK'
<1> SUFFICES ASSUME TypeOK, [Next]_vars PROVE TypeOK'
  OBVIOUS
<1> USE FlowConstants DEF TypeOK
<1>1. CASE StartUp
  BY <1>1 DEF StartUp, bufVars, ctlVars, Timers, TimerHeld, TimerNull, TimerOff
<1>2. CASE ShutDown
  BY <1>2 DEF ShutDown, bufVars, ctlVars, Timers, TimerHeld, TimerNull, TimerOff
<1>3. CASE CloseHal
  <2>1. stage' \in [Commands -> Stages]
    BY <1>3 DEF CloseHal, Stages
  <2>2. owed' \in BOOLEAN
    BY <1>3 DEF CloseHal
  <2>3. QED
    BY <1>3, <2>1, <2>2 DEF CloseHal
<1>4. CASE LoopExits
  BY <1>4 DEF LoopExits, bufVars, ctlVars
<1>5. CASE EventCommandReady
  BY <1>5, TimerForType DEF EventCommandReady, bufVars
<1>6. CASE EventArrives
  <2>1. Head(chan) \in Reports /\ Tail(chan) \in Seq(Reports)
    BY <1>6 DEF EventArrives
  <2>2. pending' \in Seq(Commands)
    BY <1>6, RemoveAtType DEF EventArrives
  <2>3. evt' \in EventStates
    BY <1>6, <2>1 DEF EventArrives, Reports, EventStates, EventPcs
  <2>4. evt'.entry = NoCommand => evt'.pc \in {"idle", "matched"}
    BY <1>6 DEF EventArrives
  <2>5. QED
    BY <1>6, <2>1, <2>2, <2>3, <2>4 DEF EventArrives, bufVars
<1>7. CASE ProcessCommandCredits
  <2>1. evt' \in EventStates
    BY <1>7, IdleEventType
    DEF ProcessCommandCredits, AfterCredits, EventStates, EventPcs
  <2>2. evt'.entry = NoCommand => evt'.pc \in {"idle", "matched"}
    BY <1>7 DEF ProcessCommandCredits, AfterCredits, IdleEvent, EventStates
  <2>3. NetCredits \in Int /\ Payable \in 0..Len(queue)
    BY DEF NetCredits, Payable, EventStates
  <2>4. /\ SubSeq(queue, 1, Payable) \in Seq(Commands)
        /\ SubSeq(queue, Payable + 1, Len(queue)) \in Seq(Commands)
    BY <2>3, SplitType
  <2>5. credits' \in Int
    <3>1. NetCredits - Payable \in Int
      BY <2>3
    <3>2. QED
      BY <1>7, <3>1 DEF ProcessCommandCredits
  <2>6. queue' \in Seq(Commands) /\ posted' \in Seq(Commands)
    <3>1. posted \o SubSeq(queue, 1, Payable) \in Seq(Commands)
      BY <2>4
    <3>2. QED
      BY <1>7, <2>4, <3>1 DEF ProcessCommandCredits, QueueRest
  <2>7. stage' \in [Commands -> Stages]
    BY <1>7 DEF ProcessCommandCredits, Stages
  <2>8. QED
    BY <1>7, <2>1, <2>2, <2>5, <2>6, <2>7
    DEF ProcessCommandCredits, ctlVars
<1>8. CASE RearmTimer
  BY <1>8, TimerForType DEF RearmTimer, bufVars, ctlVars, EventStates, EventPcs
<1>9. CASE HandOff
  BY <1>9 DEF HandOff, ctlVars, EventStates, EventPcs, Stages, Owners
<1>10. CASE Intercepted
  BY <1>10, IdleEventType
  DEF Intercepted, ctlVars, FreeBuffer, Owners, IdleEvent
<1>11. ASSUME NEW c \in Commands, Transmit(c) PROVE TypeOK'
  <2>1. stage' \in [Commands -> Stages]
    BY <1>11 DEF Transmit, FreeUnsent, PostNow, TakeCredit, QueueUp, Stages
  <2>2. cmdBuf' \in [Commands -> Owners] /\ reply' \in [Commands -> Owners]
    BY <1>11 DEF Transmit, FreeUnsent, PostNow, TakeCredit, QueueUp, Owners
  <2>3. /\ Append(posted, c) \in Seq(Commands)
        /\ Append(queue, c) \in Seq(Commands)
        /\ credits - 1 \in Int
    BY <1>11
  <2>4. /\ posted' \in Seq(Commands) /\ queue' \in Seq(Commands)
        /\ credits' \in Int
    BY <1>11, <2>3 DEF Transmit, FreeUnsent, PostNow, TakeCredit, QueueUp
  <2>5. QED
    BY <1>11, <2>1, <2>2, <2>4 
    DEF Transmit, FreeUnsent, PostNow, TakeCredit, QueueUp, ctlVars
<1>12. ASSUME NEW c \in Commands, ClientDone(c) PROVE TypeOK'
  BY <1>12 DEF ClientDone, hostVars, ctlVars, Stages, Owners
<1>13. ASSUME NEW c \in Commands, ControllerAnswers(c) PROVE TypeOK'
  <2>1. ctl' \in Seq(Commands)
    BY <1>13, RemoveAtType DEF ControllerAnswers
  <2>2. Room \in 0..Slots
    BY <2>1 DEF Room
  <2>3. PICK n \in {0, Room}, code \in EventCodes,
             op \in {Opcode[c]} \cup VendorOpcodes :
          /\ chan' = Append(chan, [code |-> code, opcode |-> op,
                                   credits |-> n, cmd |-> c])
          /\ owed' = (n < Room)
    BY <1>13 DEF ControllerAnswers
  <2>4. [code |-> code, opcode |-> op, credits |-> n, cmd |-> c] \in Reports
    BY <2>2, <2>3 DEF Reports, Opcodes
  <2>5. chan' \in Seq(Reports) /\ owed' \in BOOLEAN
    BY <1>13, <2>2, <2>3, <2>4
  <2>6. QED
    BY <1>13, <2>1, <2>5 DEF ControllerAnswers, hostVars, bufVars
<1>14. CASE ControllerNop
  <2>1. Room \in 0..Slots
    BY <1>14 DEF ControllerNop, Room
  <2>2. chan' \in Seq(Reports)
    BY <1>14, <2>1 DEF ControllerNop, Reports, EventCodes
  <2>3. nops' \in 0..MaxNops
    BY <1>14 DEF ControllerNop
  <2>4. QED
    BY <1>14, <2>2, <2>3 DEF ControllerNop, hostVars, bufVars
<1>15. CASE Tick
  BY <1>15 DEF Tick, bufVars, ctlVars, Timers, TimerHeld, TimerNull, TimerOff
<1>16. CASE CommandTimedOut
  BY <1>16 DEF CommandTimedOut, hostVars, bufVars, ctlVars
<1>17. CASE HoldsMutexForCallback
  BY <1>17 DEF HoldsMutexForCallback, bufVars, ctlVars, Timers
<1>18. CASE UNCHANGED vars
  BY <1>18 DEF vars, hostVars, bufVars, ctlVars
<1>19. QED
  BY <1>1, <1>2, <1>3, <1>4, <1>5, <1>6, <1>7, <1>8, <1>9, <1>10, <1>11, <1>12,
     <1>13, <1>14, <1>15, <1>16, <1>17, <1>18
  DEF Next, HciThread, CallbackThread, Exited

(* Type correctness: in every reachable state every global of hci_layer.cc  *)
(* and every bookkeeping variable has its type.                             *)
THEOREM TypeCorrect == Spec => []TypeOK
BY InitTypeOK, NextTypeOK, PTL DEF Spec

-----------------------------------------------------------------------------
(* No overtaking.  Before the first start-up nothing is queued, so the one  *)
(* credit of start_up is handed out over an empty queue.                    *)
OvertakingInv ==
  /\ session = 0 => queue = <<>>
  /\ NoOvertaking

LEMMA OvertakingStep ==
  ASSUME TypeOK, OvertakingInv, [Next]_vars
  PROVE  OvertakingInv'
<1> USE DEF TypeOK, OvertakingInv, NoOvertaking
<1>1. CASE StartUp
  BY <1>1 DEF StartUp
<1>2. CASE ProcessCommandCredits
  <2>1. CASE LoopExists
    <3>1. NetCredits \in Int
      BY DEF NetCredits, EventStates
    <3>2. /\ Payable \in 0..Len(queue)
          /\ Payable = Len(queue) \/ NetCredits - Payable <= 0
      BY <3>1 DEF Payable
    <3>3. Len(queue') = Len(queue) - Payable /\ queue' \in Seq(Commands)
      <4>1. queue' = SubSeq(queue, Payable + 1, Len(queue))
        BY <1>2, <2>1 DEF ProcessCommandCredits, QueueRest
      <4>2. QED
        BY <3>2, <4>1, SplitType
    <3>4. queue' # <<>> => credits' <= 0
      <4>1. queue' # <<>> => Len(queue') # 0
        BY <3>3
      <4>2. credits' = NetCredits - Payable
        BY <1>2, <2>1 DEF ProcessCommandCredits
      <4>3. QED
        BY <3>2, <3>3, <4>1, <4>2
    <3>5. queue = <<>> => queue' = <<>>
      <4>1. Len(queue') = 0 => queue' = <<>>
        BY <3>3
      <4>2. QED
        BY <3>2, <3>3, <4>1
    <3>6. QED
      BY <1>2, <3>4, <3>5 DEF ProcessCommandCredits
  <2>2. CASE ~LoopExists
    BY <1>2, <2>2 DEF ProcessCommandCredits
  <2>3. QED
    BY <2>1, <2>2
<1>3. ASSUME NEW c \in Commands, Transmit(c) PROVE OvertakingInv'
  BY <1>3 DEF Transmit, FreeUnsent, PostNow, TakeCredit, QueueUp
<1>4. UNCHANGED <<session, queue, credits>> => OvertakingInv'
  OBVIOUS
<1>5. QED
  BY <1>1, <1>2, <1>3, <1>4
  DEF Next, HciThread, CallbackThread, Exited, vars, hostVars, ShutDown,
      CloseHal, LoopExits, EventCommandReady, EventArrives, RearmTimer, HandOff,
      Intercepted, ClientDone, ControllerAnswers, ControllerNop, Tick,
      CommandTimedOut, HoldsMutexForCallback

(* Commands reach the message loop in the order the clients gave them, for  *)
(* any number of commands and any credit reports of the controller: within  *)
(* the first session a queued command leaves no credit for a later one.     *)
THEOREM CommandsKeepTheirOrder == Spec => []NoOvertaking
<1>1. Init => OvertakingInv
  BY DEF Init, OvertakingInv, NoOvertaking
<1>2. TypeOK /\ OvertakingInv /\ [Next]_vars => OvertakingInv'
  BY OvertakingStep
<1>3. OvertakingInv => NoOvertaking
  BY DEF OvertakingInv
<1>4. QED
  BY <1>1, <1>2, <1>3, TypeCorrect, PTL DEF Spec

-----------------------------------------------------------------------------
(* The response timer.  While the layer is up the timer exists, and an      *)
(* event that matched no entry leaves it as right as it was.                *)
TimerInv ==
  life = "up" =>
    /\ timer # TimerNull
    /\ evt.pc \notin {"matched", "credited"} \/ evt.entry = NoCommand =>
         ((timer = TimerOff) <=> (pending = <<>>))

LEMMA TimerForSet ==
  ASSUME timer # TimerNull, NEW p, timer # 0 \/ p # <<>>
  PROVE  TimerFor(p) # TimerNull /\ ((TimerFor(p) = TimerOff) <=> (p = <<>>))
BY FlowConstants DEF TimerFor, TimerNull, TimerOff

LEMMA TimerStep ==
  ASSUME TypeOK, TimerInv, [Next]_vars
  PROVE  TimerInv'
<1> USE DEF TypeOK, TimerInv
<1>1. CASE StartUp
  BY <1>1 DEF StartUp, TimerOff, TimerNull
<1>2. CASE EventCommandReady
  <2>1. pending' = Append(pending, Head(posted)) /\ Head(posted) \in Commands
    BY <1>2 DEF EventCommandReady
  <2>2. Len(pending') = Len(pending) + 1 /\ Len(pending) \in Nat
    BY <2>1
  <2>3. pending' # <<>>
    BY <2>2
  <2>4. QED
    BY <1>2, <2>3, TimerForSet DEF EventCommandReady, LoopExists
<1>3. CASE EventArrives
  <2>1. CASE UNCHANGED pending
    BY <1>3, <2>1 DEF EventArrives
  <2>2. CASE evt'.entry # NoCommand /\ evt'.pc = "matched"
    BY <1>3, <2>2 DEF EventArrives
  <2>3. evt'.pc = "matched"
    BY <1>3 DEF EventArrives
  <2>4. UNCHANGED pending \/ evt'.entry # NoCommand
    BY <1>3, FlowConstants DEF EventArrives
  <2>5. QED
    BY <2>1, <2>2, <2>3, <2>4
<1>4. CASE ProcessCommandCredits
  BY <1>4 DEF ProcessCommandCredits, AfterCredits, IdleEvent, EventStates
<1>5. CASE RearmTimer
  BY <1>5, TimerForSet DEF RearmTimer
<1>6. CASE HandOff
  BY <1>6 DEF HandOff, EventStates
<1>7. CASE Intercepted
  BY <1>7 DEF Intercepted, IdleEvent
<1>8. CASE Tick
  BY <1>8 DEF Tick, Timers, TimerNull, TimerOff
<1>9. CASE HoldsMutexForCallback
  BY <1>9 DEF HoldsMutexForCallback, TimerHeld, TimerNull, TimerOff
<1>10. life' # "up" => TimerInv'
  OBVIOUS
<1>11. UNCHANGED <<life, timer, evt, pending>> => TimerInv'
  OBVIOUS
<1>12. QED
  BY <1>1, <1>2, <1>3, <1>4, <1>5, <1>6, <1>7, <1>8, <1>9, <1>10, <1>11
  DEF Next, HciThread, CallbackThread, Exited, vars, hostVars, ShutDown,
      CloseHal, LoopExits, Transmit, ClientDone, ControllerAnswers,
      ControllerNop, CommandTimedOut

(* No command waits without the watch of command_response_timer, and the    *)
(* timer never runs for a list that has become empty, once the callback     *)
(* thread has left its two sections between removal and rearming.           *)
THEOREM TimerIsSetWhileWaiting == Spec => []TimerTracksPending
<1>1. Init => TimerInv
  BY DEF Init, TimerInv
<1>2. TypeOK /\ TimerInv /\ [Next]_vars => TimerInv'
  BY TimerStep
<1>3. TypeOK /\ TimerInv => TimerTracksPending
  BY DEF TimerInv, TimerTracksPending
<1>4. QED
  BY <1>1, <1>2, <1>3, TypeCorrect, PTL DEF Spec

-----------------------------------------------------------------------------
(* One command slot.  The permission to send is then a single token that is *)
(* in one place: the host's credit, a posted command, the controller, an    *)
(* event on its way, the callback thread, or owed by the controller.        *)
OneGrant ==
  \A i, j \in DOMAIN chan : chan[i].credits > 0 /\ chan[j].credits > 0 => i = j
SlotsTaken ==
  /\ credits <= 1 /\ Len(posted) <= 1 /\ Len(ctl) <= 1
  /\ OneGrant

Granting == \E i \in DOMAIN chan : chan[i].credits > 0
Granted  == evt.pc = "matched" /\ evt.credits > 0

TokenInOnePlace ==
  /\ credits > 0 =>
       posted = <<>> /\ ctl = <<>> /\ ~Granting /\ ~Granted /\ ~owed
  /\ posted # <<>> => ctl = <<>> /\ ~Granting /\ ~Granted /\ ~owed
  /\ ctl # <<>>    => ~Granting /\ ~Granted /\ ~owed
  /\ Granting      => ~Granted /\ ~owed
  /\ Granted       => ~owed

(* A layer that is down holds nothing, so that start_up may create a token. *)
DownIsEmpty ==
  /\ life \in {"stopped", "down"} => posted = <<>>
  /\ life = "down" => ctl = <<>> /\ chan = <<>> /\ ~owed /\ evt.pc = "idle"

TokenInv == SlotsTaken /\ TokenInOnePlace /\ DownIsEmpty

LEMMA TokenStep ==
  ASSUME Slots = 1, MaxNops = 0, TypeOK, TokenInv, [Next]_vars
  PROVE  TokenInv'
<1> USE DEF TypeOK, TokenInv, SlotsTaken, OneGrant, TokenInOnePlace,
            DownIsEmpty, Granting, Granted
<1>1. CASE StartUp
  BY <1>1 DEF StartUp, ctlVars
<1>2. CASE ShutDown
  BY <1>2 DEF ShutDown, ctlVars
<1>3. CASE CloseHal
  BY <1>3 DEF CloseHal
<1>4. CASE LoopExits
  BY <1>4 DEF LoopExits, ctlVars
<1>5. CASE EventCommandReady
  <2>1. posted # <<>> /\ ctl = <<>> /\ life # "down" /\ life # "stopped"
    BY <1>5 DEF EventCommandReady, LoopExists
  <2>2. posted' = <<>> /\ ctl' # <<>> /\ Len(ctl') = 1
    BY <1>5, <2>1 DEF EventCommandReady
  <2>3. QED
    BY <1>5, <2>1, <2>2 DEF EventCommandReady
<1>6. CASE EventArrives
  <2>1. /\ Len(chan) > 0 /\ Len(chan') = Len(chan) - 1 /\ chan' \in Seq(Reports)
        /\ \A i \in DOMAIN chan' :
             i + 1 \in DOMAIN chan /\ chan'[i] = chan[i + 1]
    BY <1>6 DEF EventArrives
  <2>2. /\ Granting' => Granting
        /\ Granted' => Granting /\ ~Granting'
    <3>1. evt'.credits = chan[1].credits /\ 1 \in DOMAIN chan
      BY <1>6, <2>1 DEF EventArrives
    <3>2. Granting' => Granting
      BY <2>1
    <3>3. chan[1].credits > 0 => Granting /\ ~Granting'
      <4>1. \A i \in DOMAIN chan' : i + 1 # 1
        BY <2>1
      <4>2. QED
        BY <2>1, <3>1, <4>1
    <3>4. QED
      BY <3>1, <3>2, <3>3
  <2>3. OneGrant'
    BY <2>1
  <2>4. QED
    BY <1>6, <2>2, <2>3 DEF EventArrives
<1>7. CASE ProcessCommandCredits
  <2>1. evt.credits \in 0..1 /\ evt'.pc # "matched"
    BY <1>7 DEF ProcessCommandCredits, AfterCredits, EventStates, IdleEvent
  <2>2. CASE LoopExists
    <3>1. /\ NetCredits \in Int /\ NetCredits <= 1
          /\ NetCredits = 1 => evt.credits = 1
      BY <2>1 DEF NetCredits
    <3>2. /\ Payable \in 0..Len(queue) /\ Payable <= 1
          /\ Payable = 1 => NetCredits = 1
      BY <3>1 DEF Payable
    <3>3. credits' = NetCredits - Payable
      BY <1>7, <2>2 DEF ProcessCommandCredits
    <3>4. Granted => posted = <<>> /\ ctl = <<>> /\ ~Granting /\ ~owed
      OBVIOUS
    <3>5. CASE NetCredits = 1
      <4>1. Granted
        BY <1>7, <3>1, <3>5 DEF ProcessCommandCredits
      <4>2. Len(SubSeq(queue, 1, Payable)) = Payable
            /\ SubSeq(queue, 1, Payable) \in Seq(Commands)
        BY <3>2, SplitType
      <4>3. Len(posted') <= Payable /\ posted' \in Seq(Commands)
        <5>1. posted = <<>>
          BY <3>4, <4>1
        <5>2. posted \o SubSeq(queue, 1, Payable) = SubSeq(queue, 1, Payable)
          BY <4>2, <5>1, ConcatEmptySeq
        <5>3. posted' \in {SubSeq(queue, 1, Payable), <<>>}
          BY <1>7, <2>2, <5>1, <5>2 DEF ProcessCommandCredits
        <5>4. QED
          BY <3>2, <4>2, <5>3
      <4>4. (Payable = 0 => posted' = <<>>) /\ (Payable = 1 => credits' = 0)
        BY <3>2, <3>3, <3>5, <4>3
      <4>5. QED
        BY <1>7, <2>1, <2>2, <3>2, <3>3, <3>4, <3>5, <4>1, <4>3, <4>4
        DEF ProcessCommandCredits, ctlVars, LoopExists
    <3>6. CASE NetCredits # 1
      <4>1. Payable = 0 /\ credits' <= 0
        BY <3>1, <3>2, <3>3, <3>6
      <4>2. SubSeq(queue, 1, Payable) = <<>>
        BY <4>1
      <4>3. posted' = posted
        <5>1. posted \o <<>> = posted
          BY ConcatEmptySeq
        <5>2. QED
          BY <1>7, <2>2, <4>2, <5>1 DEF ProcessCommandCredits
      <4>4. QED
        <5>1. credits' <= 1 /\ ~(credits' > 0) /\ credits' \in Int
          BY <3>1, <3>2, <3>3, <4>1
        <5>2. ~Granted'
          BY <2>1
        <5>3. UNCHANGED <<life, posted, ctl, chan, owed>>
          BY <1>7, <4>3 DEF ProcessCommandCredits, ctlVars
        <5>4. life # "down"
          BY <2>2 DEF LoopExists
        <5>5. QED
          BY <5>1, <5>2, <5>3, <5>4
    <3>7. QED
      BY <3>5, <3>6
  <2>3. CASE ~LoopExists
    BY <1>7, <2>1, <2>3 DEF ProcessCommandCredits, ctlVars
  <2>4. QED
    BY <2>2, <2>3
<1>8. CASE RearmTimer
  BY <1>8 DEF RearmTimer, ctlVars, EventStates
<1>9. CASE HandOff
  BY <1>9 DEF HandOff, ctlVars, EventStates
<1>10. CASE Intercepted
  BY <1>10 DEF Intercepted, ctlVars, IdleEvent
<1>11. ASSUME NEW c \in Commands, Transmit(c) PROVE TokenInv'
  <2>1. Len(Append(posted, c)) = Len(posted) + 1
    BY <1>11
  <2>2. QED
    BY <1>11, <2>1 
    DEF Transmit, FreeUnsent, PostNow, TakeCredit, QueueUp, ctlVars, LoopExists
<1>12. ASSUME NEW c \in Commands, ControllerAnswers(c) PROVE TokenInv'
  <2>1. ctl # <<>> /\ Len(ctl') = 0 /\ ctl' = <<>>
    BY <1>12, RemoveAtType DEF ControllerAnswers
  <2>2. Room = 1
    BY <2>1 DEF Room
  <2>3. PICK e \in Reports :
          /\ chan' = Append(chan, e)
          /\ e.credits \in {0, 1}
          /\ owed' = (e.credits < 1)
    <3>1. PICK n \in {0, 1}, code \in EventCodes,
               op \in {Opcode[c]} \cup VendorOpcodes :
            /\ chan' = Append(chan, [code |-> code, opcode |-> op,
                                     credits |-> n, cmd |-> c])
            /\ owed' = (n < 1)
      BY <1>12, <2>2 DEF ControllerAnswers
    <3>2. [code |-> code, opcode |-> op, credits |-> n, cmd |-> c] \in Reports
      BY <3>1 DEF Reports, Opcodes
    <3>3. QED
      BY <3>1, <3>2
  <2>4. /\ Len(chan') = Len(chan) + 1
        /\ \A i \in DOMAIN chan : chan'[i] = chan[i]
        /\ chan'[Len(chan) + 1] = e
        /\ DOMAIN chan' = DOMAIN chan \cup {Len(chan) + 1}
    BY <2>3
  <2>5. ~Granting /\ ~Granted /\ ~owed /\ life # "down"
    BY <2>1
  <2>6. (Granting' => e.credits = 1) /\ (e.credits = 1 => ~owed')
    BY <2>3, <2>4, <2>5
  <2>7. OneGrant'
    BY <2>4, <2>5
  <2>8. QED
    <3>1. UNCHANGED <<life, credits, posted, evt>>
      BY <1>12 DEF ControllerAnswers, hostVars
    <3>2. posted = <<>> /\ credits <= 0
      BY <2>1
    <3>3. QED
      BY <2>1, <2>5, <2>6, <2>7, <3>1, <3>2
<1>13. CASE ControllerNop
  <2>1. owed /\ ctl = <<>> /\ ctl' = <<>> /\ ~owed' /\ life # "down"
    BY <1>13 DEF ControllerNop, LoopExists
  <2>2. Room = 1
    BY <2>1 DEF Room
  <2>3. PICK e \in Reports : chan' = Append(chan, e) /\ e.credits = 1
    BY <1>13, <2>2 DEF ControllerNop, Reports, EventCodes
  <2>4. /\ Len(chan') = Len(chan) + 1
        /\ \A i \in DOMAIN chan : chan'[i] = chan[i]
        /\ chan'[Len(chan) + 1] = e
        /\ DOMAIN chan' = DOMAIN chan \cup {Len(chan) + 1}
    BY <2>3
  <2>5. ~Granting /\ ~Granted /\ posted = <<>> /\ credits <= 0
    BY <2>1
  <2>6. OneGrant'
    BY <2>4, <2>5
  <2>7. UNCHANGED <<life, credits, posted, evt>>
    BY <1>13 DEF ControllerNop, hostVars
  <2>8. QED
    BY <2>1, <2>5, <2>6, <2>7
<1>14. UNCHANGED <<life, credits, posted, evt, ctl, chan, owed>> => TokenInv'
  OBVIOUS
<1>15. QED
  BY <1>1, <1>2, <1>3, <1>4, <1>5, <1>6, <1>7, <1>8, <1>9, <1>10, <1>11, <1>12,
     <1>13, <1>14
  DEF Next, HciThread, CallbackThread, Exited, vars, hostVars, ctlVars,
      ClientDone, Tick, CommandTimedOut, HoldsMutexForCallback

(* With a controller of one command slot that reports its room only with an *)
(* answer or to pay for an answer that reported none, the host never sends  *)
(* it a second command, for any set of commands, clients and sessions.      *)
THEOREM SingleSlotNeverOverrun ==
  ASSUME Slots = 1, MaxNops = 0
  PROVE  Spec => []NoOverrun
<1>1. Init => TokenInv
  BY DEF Init, TokenInv, SlotsTaken, OneGrant, TokenInOnePlace, DownIsEmpty, Granting,
         Granted, IdleEvent
<1>2. TypeOK /\ TokenInv /\ [Next]_vars => TokenInv'
  BY TokenStep
<1>3. TokenInv => NoOverrun
  BY DEF TokenInv, SlotsTaken, OneGrant, NoOverrun
<1>4. QED
  BY <1>1, <1>2, <1>3, TypeCorrect, PTL DEF Spec

-----------------------------------------------------------------------------
(***************************************************************************)
(* HciCommandFlow implements CommandService, also for commands that share  *)
(* an opcode; a controller that answers vendor commands with other vendor  *)
(* opcodes can do so while the clients use one vendor opcode.              *)
(***************************************************************************)

Once(s) == \A i, j \in DOMAIN s : s[i] = s[j] => i = j

(* What the steps of a list do to its members.                              *)
LEMMA AppendMembers ==
  ASSUME NEW S, NEW s \in Seq(S), NEW x \in S
  PROVE  /\ \A c : In(Append(s, x), c) <=> In(s, c) \/ c = x
         /\ Once(s) /\ ~In(s, x) => Once(Append(s, x))
<1>1. /\ Len(Append(s, x)) = Len(s) + 1
      /\ DOMAIN Append(s, x) = DOMAIN s \cup {Len(s) + 1}
      /\ \A i \in DOMAIN s : Append(s, x)[i] = s[i]
      /\ Append(s, x)[Len(s) + 1] = x
  OBVIOUS
<1>2. QED
  BY <1>1 DEF In, Once

(* The first entry is taken off.                                            *)
LEMMA TailMembers ==
  ASSUME NEW S, NEW s \in Seq(S), s # <<>>, Once(s)
  PROVE  /\ \A c : In(Tail(s), c) <=> In(s, c) /\ c # Head(s)
         /\ Once(Tail(s)) /\ In(s, Head(s)) /\ Head(s) \in S
<1>1. /\ DOMAIN Tail(s) = 1..(Len(s) - 1) /\ DOMAIN s = 1..Len(s)
      /\ \A i \in DOMAIN Tail(s) : Tail(s)[i] = s[i + 1]
      /\ Head(s) = s[1] /\ Len(s) \in Nat \ {0}
  OBVIOUS
<1>2. \A i \in DOMAIN s : i = 1 \/ (i - 1) \in DOMAIN Tail(s)
  BY <1>1
<1>3. \A i \in DOMAIN Tail(s) : i + 1 \in DOMAIN s /\ i + 1 # 1
  BY <1>1
<1>4. ASSUME NEW c, In(s, c), c # Head(s) PROVE In(Tail(s), c)
  <2>1. PICK i \in DOMAIN s : s[i] = c
    BY <1>4 DEF In
  <2>2. i # 1 /\ i - 1 \in DOMAIN Tail(s) /\ Tail(s)[i - 1] = s[(i - 1) + 1]
    BY <1>1, <1>2, <1>4, <2>1
  <2>3. (i - 1) + 1 = i
    BY <1>1, <2>1
  <2>4. QED
    BY <2>1, <2>2, <2>3 DEF In
<1>5. ASSUME NEW c, In(Tail(s), c) PROVE In(s, c) /\ c # Head(s)
  BY <1>1, <1>3, <1>5 DEF In, Once
<1>6. Once(Tail(s)) /\ In(s, Head(s))
  BY <1>1, <1>3 DEF In, Once
<1>7. QED
  BY <1>4, <1>5, <1>6

(* An entry is taken out; the others keep their order.                      *)
LEMMA RemovedEntries ==
  ASSUME NEW S, NEW s \in Seq(S), NEW k \in DOMAIN s
  PROVE  LET r == RemoveAt(s, k)
         IN  /\ DOMAIN r = 1..(Len(s) - 1) /\ DOMAIN s = 1..Len(s) /\ Len(s) \in Nat
             /\ \A i \in DOMAIN r : r[i] = s[IF i < k THEN i ELSE i + 1]
<1> DEFINE r == RemoveAt(s, k)
           f == SubSeq(s, 1, k - 1)
           b == SubSeq(s, k + 1, Len(s))
<1>1. /\ f \in Seq(S) /\ Len(f) = k - 1 /\ \A i \in 1..(k - 1) : f[i] = s[i]
  OBVIOUS
<1>2. /\ b \in Seq(S) /\ Len(b) = Len(s) - k
      /\ \A i \in 1..(Len(s) - k) : b[i] = s[i + k]
  OBVIOUS
<1>3. r = f \o b
  BY DEF RemoveAt
<1> HIDE DEF f, b, r
<1>4. /\ Len(r) = Len(s) - 1 /\ DOMAIN r = 1..(Len(s) - 1)
      /\ \A i \in 1..(Len(s) - 1) :
           r[i] = IF i <= k - 1 THEN f[i] ELSE b[i - (k - 1)]
  BY <1>1, <1>2, <1>3
<1>5. \A i \in 1..(Len(s) - 1) : i < k => r[i] = s[i]
  BY <1>1, <1>4
<1>6. \A i \in 1..(Len(s) - 1) : ~(i < k) => r[i] = s[i + 1]
  <2>1. ASSUME NEW i \in 1..(Len(s) - 1), ~(i < k)
        PROVE  /\ i - (k - 1) \in 1..(Len(s) - k)
               /\ (i - (k - 1)) + k = i + 1 /\ ~(i <= k - 1)
    BY <2>1
  <2>2. QED
    BY <1>2, <1>4, <2>1
<1>7. QED
  BY <1>4, <1>5, <1>6 DEF r

(* Its members are those of the list but one.                               *)
LEMMA RemoveMembers ==
  ASSUME NEW S, NEW s \in Seq(S), NEW k \in DOMAIN s, Once(s)
  PROVE  /\ \A c : In(RemoveAt(s, k), c) <=> In(s, c) /\ c # s[k]
         /\ Once(RemoveAt(s, k))
<1> DEFINE r == RemoveAt(s, k)
           at(i) == IF i < k THEN i ELSE i + 1
<1>1. /\ DOMAIN r = 1..(Len(s) - 1) /\ DOMAIN s = 1..Len(s) /\ Len(s) \in Nat
      /\ \A i \in DOMAIN r : r[i] = s[at(i)]
  BY RemovedEntries
<1>2. \A i \in DOMAIN r : at(i) \in DOMAIN s /\ at(i) # k
  BY <1>1
<1>3. \A i, j \in DOMAIN r : at(i) = at(j) => i = j
  BY <1>1
<1>4. \A i \in DOMAIN s : i = k \/ \E j \in DOMAIN r : at(j) = i
  <2>1. \A i \in DOMAIN s : i < k => i \in DOMAIN r /\ at(i) = i
    BY <1>1
  <2>2. \A i \in DOMAIN s : i > k => i - 1 \in DOMAIN r /\ at(i - 1) = i
    BY <1>1
  <2>3. QED
    BY <1>1, <2>1, <2>2
<1> HIDE DEF r, at
<1>5. \A c : In(r, c) <=> In(s, c) /\ c # s[k]
  BY <1>1, <1>2, <1>4 DEF In, Once
<1>6. Once(r)
  BY <1>1, <1>2, <1>3 DEF Once
<1>7. QED
  BY <1>5, <1>6 DEF r

(* A list is cut in two.                                                    *)
LEMMA SplitMembers ==
  ASSUME NEW S, NEW s \in Seq(S), NEW n \in 0..Len(s), Once(s)
  PROVE  LET front == SubSeq(s, 1, n)  back == SubSeq(s, n + 1, Len(s))
         IN  /\ \A c : In(s, c) <=> In(front, c) \/ In(back, c)
             /\ \A c : ~(In(front, c) /\ In(back, c))
             /\ Once(front) /\ Once(back)
<1> DEFINE f == SubSeq(s, 1, n)
           b == SubSeq(s, n + 1, Len(s))
<1>1. /\ DOMAIN s = 1..Len(s) /\ Len(s) \in Nat
      /\ DOMAIN f = 1..n /\ \A i \in DOMAIN f : f[i] = s[i]
      /\ DOMAIN b = 1..(Len(s) - n) /\ \A i \in DOMAIN b : b[i] = s[i + n]
  OBVIOUS
<1>2. \A i \in DOMAIN f : i \in DOMAIN s
  BY <1>1
<1>3. \A i \in DOMAIN b : i + n \in DOMAIN s /\ i + n \notin DOMAIN f
  BY <1>1
<1>4. \A i \in DOMAIN s : i \in DOMAIN f \/ (i - n \in DOMAIN b /\ (i - n) + n = i)
  BY <1>1
<1>5. \A i, j \in DOMAIN b : i + n = j + n => i = j
  BY <1>1
<1> HIDE DEF f, b
<1>6. \A c : In(s, c) <=> In(f, c) \/ In(b, c)
  BY <1>1, <1>2, <1>3, <1>4 DEF In
<1>7. \A c : ~(In(f, c) /\ In(b, c))
  BY <1>1, <1>2, <1>3 DEF In, Once
<1>8. Once(f) /\ Once(b)
  BY <1>1, <1>2, <1>3, <1>5 DEF Once
<1>9. QED
  BY <1>6, <1>7, <1>8 DEF f, b

(* One list is put behind another.                                          *)
LEMMA ConcatMembers ==
  ASSUME NEW S, NEW s \in Seq(S), NEW t \in Seq(S), Once(s), Once(t),
         \A c : ~(In(s, c) /\ In(t, c))
  PROVE  /\ \A c : In(s \o t, c) <=> In(s, c) \/ In(t, c)
         /\ Once(s \o t)
<1> DEFINE u == s \o t
<1>1. /\ DOMAIN s = 1..Len(s) /\ DOMAIN t = 1..Len(t)
      /\ Len(s) \in Nat /\ Len(t) \in Nat
      /\ DOMAIN u = 1..(Len(s) + Len(t))
      /\ \A i \in DOMAIN s : u[i] = s[i]
      /\ \A i \in DOMAIN t : u[i + Len(s)] = t[i]
  OBVIOUS
<1>2. \A i \in DOMAIN s : i \in DOMAIN u
  BY <1>1
<1>3. \A i \in DOMAIN t : i + Len(s) \in DOMAIN u
  BY <1>1
<1>4. \A i \in DOMAIN u : \/ i \in DOMAIN s
                          \/ i - Len(s) \in DOMAIN t /\ (i - Len(s)) + Len(s) = i
  BY <1>1
<1> HIDE DEF u
<1>5. \A c : In(u, c) <=> In(s, c) \/ In(t, c)
  BY <1>1, <1>2, <1>3, <1>4 DEF In
<1>6. Once(u)
  <2> SUFFICES ASSUME NEW i \in DOMAIN u, NEW j \in DOMAIN u, u[i] = u[j]
               PROVE  i = j
    BY DEF Once
  <2>1. CASE i \in DOMAIN s /\ j \in DOMAIN s
    BY <1>1, <2>1 DEF Once
  <2>2. \A k \in DOMAIN s : In(s, u[k])
    BY <1>1 DEF In
  <2>3. \A k \in DOMAIN u : k \notin DOMAIN s => In(t, u[k])
    BY <1>1, <1>4 DEF In
  <2>4. CASE i \notin DOMAIN s /\ j \notin DOMAIN s
    <3>1. /\ i - Len(s) \in DOMAIN t /\ j - Len(s) \in DOMAIN t
          /\ (i - Len(s)) + Len(s) = i /\ (j - Len(s)) + Len(s) = j
      BY <1>4, <2>4
    <3>2. t[i - Len(s)] = u[i] /\ t[j - Len(s)] = u[j]
      BY <1>1, <3>1
    <3>3. i - Len(s) = j - Len(s)
      BY <3>1, <3>2 DEF Once
    <3>4. QED
      BY <1>1, <3>1, <3>3
  <2>5. ~(In(s, u[i]) /\ In(t, u[i]))
    OBVIOUS
  <2>6. QED
    BY <2>1, <2>2, <2>3, <2>4, <2>5
<1>7. QED
  BY <1>5, <1>6 DEF u

-----------------------------------------------------------------------------
(* Where a command and its two buffers are.                                 *)

(* A controller that answers with another vendor opcode can be understood   *)
(* while there is one vendor opcode to confuse.                             *)
ToldApart ==
  ImproperVsc =>
    \A c, d \in Commands : Opcode[c] \in VendorOpcodes /\ Opcode[d] \in VendorOpcodes =>
                           Opcode[c] = Opcode[d]

(* The opcodes that may stand in a report.                                  *)
OpcodeFits(e) ==
  IF e.cmd = NoCommand THEN e.opcode = NopOpcode
  ELSE \/ e.opcode = Opcode[e.cmd]
       \/ /\ ImproperVsc /\ Opcode[e.cmd] \in VendorOpcodes
          /\ e.opcode \in VendorOpcodes

Before(s, c, d) == \E i, j \in DOMAIN s : i < j /\ s[i] = c /\ s[j] = d
ChanBefore(c, d) ==
  \E i, j \in DOMAIN chan : i < j /\ chan[i].cmd = c /\ chan[j].cmd = d

OnWay(c)   == \E i \in DOMAIN chan : chan[i].cmd = c
InHands(c) == evt.cmd = c /\ evt.pc \in {"matched", "credited", "rearmed"}

ListsInv ==
  /\ Once(queue) /\ Once(posted) /\ Once(pending) /\ Once(ctl)
  /\ \A i, j \in DOMAIN chan :
       chan[i].cmd = chan[j].cmd /\ chan[i].cmd # NoCommand => i = j

(* An entry is in one of the layer's four places, and the controller has,   *)
(* or has answered, just those in the pending list.                         *)
PlaceInv ==
  \A c \in Commands :
    /\ In(queue, c)   => /\ stage[c] = "inside" /\ ~In(posted, c)
                         /\ ~In(pending, c) /\ ~InHands(c)
    /\ In(posted, c)  => /\ stage[c] = "inside"
                         /\ ~In(pending, c) /\ ~InHands(c)
    /\ In(pending, c) => stage[c] = "inside" /\ ~InHands(c)
    /\ InHands(c)     => stage[c] = "inside"
    /\ In(pending, c) <=> In(ctl, c) \/ OnWay(c)
    /\ ~(In(ctl, c) /\ OnWay(c))

(* Of the commands of one opcode the one sent first is answered first, and  *)
(* the answers come in that order: the first entry is the right one.        *)
OrderInv ==
  \A c, d \in Commands : Opcode[c] = Opcode[d] /\ Before(pending, c, d) =>
    /\ OnWay(d) => ChanBefore(c, d)
    /\ ~Before(ctl, d, c)

EventInv ==
  /\ evt.entry = evt.cmd
  /\ evt.pc = "idle" => evt.cmd = NoCommand
  /\ \A i \in DOMAIN chan : OpcodeFits(chan[i])
  /\ life = "down" => /\ pending = <<>> /\ ctl = <<>> /\ chan = <<>>
                      /\ evt.pc = "idle"

(* Who owns the buffers; between the hand-over and the intercepted: label   *)
(* the layer still has what the client did not get.                         *)
BufferInv ==
  /\ \A c \in Commands :
       /\ stage[c] = "inside" => cmdBuf[c] = "layer" /\ reply[c] = "none"
       /\ stage[c] = "idle"   => cmdBuf[c] = "none" /\ reply[c] = "none"
       /\ stage[c] = "answered" /\ ~(evt.pc = "handed" /\ evt.entry = c) =>
            cmdBuf[c] \in {"client", "freed"} /\ reply[c] \in {"client", "freed"}
  /\ evt.pc = "handed" =>
       /\ stage[evt.entry] = "answered"
       /\ cmdBuf[evt.entry] = IF CommandHandedOver THEN "client" ELSE "layer"
       /\ reply[evt.entry] = IF PacketHandedOver THEN "client" ELSE "none"

ServiceInv == ListsInv /\ PlaceInv /\ OrderInv /\ EventInv /\ BufferInv

(* The entry of an answer's command is the first with its opcode.           *)
LEMMA FirstOfItsOpcode ==
  ASSUME TypeOK, ServiceInv, chan # <<>>, Head(chan).cmd # NoCommand
  PROVE  LET c == Head(chan).cmd
         IN  /\ c \in Commands
             /\ \E j \in DOMAIN pending :
                  /\ pending[j] = c
                  /\ \A k \in 1..(j - 1) : Opcode[pending[k]] # Opcode[c]
<1> DEFINE c == Head(chan).cmd
<1>1. /\ 1 \in DOMAIN chan /\ Head(chan) = chan[1] /\ chan[1] \in Reports
      /\ DOMAIN chan = 1..Len(chan) /\ Len(chan) \in Nat
      /\ DOMAIN pending = 1..Len(pending) /\ Len(pending) \in Nat
      /\ \A k \in DOMAIN pending : pending[k] \in Commands
  BY DEF TypeOK
<1>2. c \in Commands /\ OnWay(c) /\ chan[1].cmd = c
  BY <1>1 DEF Reports, OnWay
<1> HIDE DEF c
<1>3. PICK j \in DOMAIN pending : pending[j] = c
  BY <1>2 DEF ServiceInv, PlaceInv, In
<1>4. ASSUME NEW k \in 1..(j - 1), Opcode[pending[k]] = Opcode[c] PROVE FALSE
  <2>1. k \in DOMAIN pending /\ k < j /\ pending[k] \in Commands
    BY <1>1, <1>3
  <2>2. ChanBefore(pending[k], c)
    BY <1>2, <1>3, <1>4, <2>1 DEF ServiceInv, OrderInv, Before
  <2>3. PICK l, m \in DOMAIN chan : l < m /\ chan[m].cmd = c
    BY <2>2 DEF ChanBefore
  <2>4. m = 1
    BY <1>1, <1>2, <2>3, FlowConstants DEF ServiceInv, ListsInv
  <2>5. QED
    BY <1>1, <2>3, <2>4
<1>5. QED
  BY <1>2, <1>3, <1>4 DEF c

(* get_waiting_command finds that entry, and no other.                      *)
LEMMA MatchesOwn ==
  ASSUME ToldApart, TypeOK, ServiceInv, chan # <<>>
  PROVE  LET e == Head(chan)
         IN  /\ e.cmd = NoCommand => \A i \in DOMAIN pending : ~IsWaitingFor(i, e.opcode)
             /\ e.cmd # NoCommand =>
                  /\ \E i \in DOMAIN pending : IsWaitingFor(i, e.opcode)
                  /\ \A i \in DOMAIN pending : IsWaitingFor(i, e.opcode) => pending[i] = e.cmd
<1> DEFINE e == Head(chan)
           c == e.cmd
<1>1. /\ 1 \in DOMAIN chan /\ e = chan[1] /\ OpcodeFits(e)
      /\ DOMAIN pending = 1..Len(pending) /\ Len(pending) \in Nat
      /\ \A k \in DOMAIN pending : /\ pending[k] \in Commands
                                   /\ Opcode[pending[k]] \in Opcodes
  BY DEF TypeOK, ServiceInv, EventInv, Opcodes
<1>2. CASE c = NoCommand
  <2>1. e.opcode \notin Opcodes \cup VendorOpcodes
    BY <1>1, <1>2, FlowConstants DEF OpcodeFits
  <2>2. QED
    BY <1>1, <1>2, <2>1 DEF IsWaitingFor
<1>3. CASE c # NoCommand
  <2>1. PICK j \in DOMAIN pending :
          /\ c \in Commands /\ pending[j] = c
          /\ \A k \in 1..(j - 1) : Opcode[pending[k]] # Opcode[c]
    BY <1>3, FirstOfItsOpcode
  <2>2. \A i \in DOMAIN pending :
          Opcode[pending[i]] = Opcode[c] /\ (\A k \in 1..(i - 1) : Opcode[pending[k]] # Opcode[c])
            => i = j
    BY <1>1, <2>1
  <2>3. CASE e.opcode = Opcode[c]
    <3>1. IsWaitingFor(j, e.opcode)
      BY <2>1, <2>3 DEF IsWaitingFor
    <3>2. ASSUME NEW i \in DOMAIN pending, IsWaitingFor(i, e.opcode) PROVE pending[i] = c
      BY <2>1, <2>2, <2>3, <3>2 DEF IsWaitingFor
    <3>3. QED
      BY <1>3, <3>1, <3>2
  <2>4. CASE e.opcode # Opcode[c]
    <3>1. /\ ImproperVsc /\ Opcode[c] \in VendorOpcodes /\ e.opcode \in VendorOpcodes
      BY <1>1, <1>3, <2>4 DEF OpcodeFits
    <3>2. \A k \in DOMAIN pending : Opcode[pending[k]] \in VendorOpcodes <=>
                                    Opcode[pending[k]] = Opcode[c]
      BY <1>1, <2>1, <3>1 DEF ToldApart
    <3>3. \A k \in DOMAIN pending : Opcode[pending[k]] # e.opcode
      BY <2>4, <3>1, <3>2
    <3>4. \A k \in 1..(j - 1) : k \in DOMAIN pending
      BY <1>1
    <3>5. IsWaitingFor(j, e.opcode)
      BY <2>1, <3>1, <3>2, <3>3, <3>4 DEF IsWaitingFor
    <3>6. ASSUME NEW i \in DOMAIN pending, IsWaitingFor(i, e.opcode) PROVE pending[i] = c
      <4>1. Opcode[pending[i]] = Opcode[c]
        BY <3>2, <3>3, <3>6 DEF IsWaitingFor
      <4>2. \A k \in 1..(i - 1) : k \in DOMAIN pending /\ Opcode[pending[k]] # Opcode[c]
        BY <1>1, <3>1, <3>2, <3>3, <3>6 DEF IsWaitingFor
      <4>3. QED
        BY <2>1, <2>2, <4>1, <4>2
    <3>7. QED
      BY <1>3, <3>5, <3>6
  <2>5. QED
    BY <2>3, <2>4
<1>4. QED
  BY <1>2, <1>3

(* get_waiting_command finds the entry of each answer, and none for a NOP.  *)
LEMMA AnswersFindTheirEntry ==
  ASSUME ToldApart, TypeOK, ServiceInv, EventArrives
  PROVE  LET e == Head(chan)
         IN  \/ /\ e.cmd = NoCommand /\ UNCHANGED pending
                /\ evt' = [pc |-> "matched", code |-> e.code, credits |-> e.credits,
                           cmd |-> NoCommand, entry |-> NoCommand]
             \/ /\ e.cmd \in Commands
                /\ \E i \in DOMAIN pending :
                     pending[i] = e.cmd /\ pending' = RemoveAt(pending, i)
                /\ evt' = [pc |-> "matched", code |-> e.code, credits |-> e.credits,
                           cmd |-> e.cmd, entry |-> e.cmd]
<1> DEFINE e == Head(chan)
<1>1. chan # <<>> /\ e \in Reports /\ e = chan[1] /\ 1 \in DOMAIN chan
  BY DEF EventArrives, TypeOK
<1>2. CASE \E i \in DOMAIN pending : IsWaitingFor(i, e.opcode)
  <2>1. PICK i \in DOMAIN pending :
          /\ IsWaitingFor(i, e.opcode) /\ pending' = RemoveAt(pending, i)
          /\ evt' = [pc |-> "matched", code |-> e.code, credits |-> e.credits,
                     cmd |-> e.cmd, entry |-> pending[i]]
    BY <1>2 DEF EventArrives
  <2>2. e.cmd = pending[i] /\ pending[i] \in Commands
    BY <1>1, <2>1, MatchesOwn DEF TypeOK
  <2>3. QED
    BY <2>1, <2>2
<1>3. CASE ~\E i \in DOMAIN pending : IsWaitingFor(i, e.opcode)
  <2>1. /\ UNCHANGED pending
        /\ evt' = [pc |-> "matched", code |-> e.code, credits |-> e.credits,
                   cmd |-> e.cmd, entry |-> NoCommand]
    BY <1>3 DEF EventArrives
  <2>2. e.cmd = NoCommand
    BY <1>1, <1>3, MatchesOwn
  <2>3. QED
    BY <2>1, <2>2
<1>4. QED
  BY <1>2, <1>3

-----------------------------------------------------------------------------
(* What each step does to the places of commands.                           *)
Places == ListsInv /\ PlaceInv

(* An event is put on its way.                                              *)
LEMMA OnWayAppended ==
  ASSUME chan \in Seq(Reports), NEW e \in Reports, chan' = Append(chan, e)
  PROVE  /\ \A c \in Commands : OnWay(c)' <=> OnWay(c) \/ c = e.cmd
         /\ \A i \in DOMAIN chan' :
              \/ i \in DOMAIN chan /\ chan'[i] = chan[i]
              \/ i = Len(chan) + 1 /\ chan'[i] = e
<1>1. /\ DOMAIN chan' = DOMAIN chan \cup {Len(chan) + 1}
      /\ \A i \in DOMAIN chan : chan'[i] = chan[i]
      /\ chan'[Len(chan) + 1] = e
  OBVIOUS
<1>2. QED
  BY <1>1 DEF OnWay

(* An event is taken by the callback thread.                                *)
LEMMA OnWayTaken ==
  ASSUME chan \in Seq(Reports), chan # <<>>, chan' = Tail(chan), ListsInv
  PROVE  /\ \A c \in Commands : OnWay(c)' <=> OnWay(c) /\ c # Head(chan).cmd
         /\ \A i \in DOMAIN chan' :
              i + 1 \in DOMAIN chan /\ chan'[i] = chan[i + 1]
         /\ Head(chan).cmd \in Commands => OnWay(Head(chan).cmd)
<1>1. /\ DOMAIN chan = 1..Len(chan) /\ Len(chan) \in Nat \ {0}
      /\ DOMAIN chan' = 1..(Len(chan) - 1)
      /\ \A i \in DOMAIN chan' : chan'[i] = chan[i + 1]
      /\ Head(chan) = chan[1]
  OBVIOUS
<1>2. \A i \in DOMAIN chan : i = 1 \/ (i - 1 \in DOMAIN chan' /\ (i - 1) + 1 = i)
  BY <1>1
<1>3. \A i \in DOMAIN chan' : i + 1 \in DOMAIN chan /\ i + 1 # 1
  BY <1>1
<1>4. ASSUME NEW c \in Commands, OnWay(c), c # Head(chan).cmd PROVE OnWay(c)'
  <2>1. PICK i \in DOMAIN chan : chan[i].cmd = c
    BY <1>4 DEF OnWay
  <2>2. i - 1 \in DOMAIN chan' /\ chan'[i - 1] = chan[i]
    BY <1>1, <1>2, <1>4, <2>1
  <2>3. QED
    BY <2>1, <2>2 DEF OnWay
<1>5. ASSUME NEW c \in Commands, OnWay(c)' PROVE OnWay(c) /\ c # Head(chan).cmd
  <2>1. PICK i \in DOMAIN chan' : chan'[i].cmd = c
    BY <1>5 DEF OnWay
  <2>2. i + 1 \in DOMAIN chan /\ chan[i + 1].cmd = c /\ i + 1 # 1
    BY <1>1, <1>3, <2>1
  <2>3. 1 \in DOMAIN chan /\ c # NoCommand
    BY <1>1, FlowConstants
  <2>4. c # Head(chan).cmd
    BY <1>1, <2>2, <2>3 DEF ListsInv
  <2>5. QED
    BY <2>2, <2>4 DEF OnWay
<1>6. 1 \in DOMAIN chan
  BY <1>1
<1>7. QED
  BY <1>1, <1>3, <1>4, <1>5, <1>6 DEF OnWay

(* event_command_ready moves its entry to the pending list.                 *)
LEMMA PlacesAtSending ==
  ASSUME TypeOK, ServiceInv, EventCommandReady
  PROVE  Places'
<1> DEFINE x == Head(posted)
<1>1. /\ posted \in Seq(Commands) /\ pending \in Seq(Commands)
      /\ ctl \in Seq(Commands) /\ posted # <<>> /\ Once(posted)
  BY DEF TypeOK, EventCommandReady, ServiceInv, ListsInv
<1>2. /\ x \in Commands /\ In(posted, x)
      /\ \A c : In(posted', c) <=> In(posted, c) /\ c # x
      /\ Once(posted')
  BY <1>1, TailMembers DEF EventCommandReady
<1>3. ~In(pending, x) /\ ~In(ctl, x) /\ ~OnWay(x) /\ ~In(queue, x) /\ ~InHands(x)
  BY <1>2 DEF ServiceInv, PlaceInv
<1>4. /\ \A c : In(pending', c) <=> In(pending, c) \/ c = x
      /\ \A c : In(ctl', c) <=> In(ctl, c) \/ c = x
      /\ Once(pending') /\ Once(ctl')
  BY <1>1, <1>2, <1>3, AppendMembers DEF EventCommandReady, ServiceInv, ListsInv
<1>5. UNCHANGED <<queue, stage, evt, chan>>
  BY DEF EventCommandReady, bufVars
<1>6. ListsInv'
  BY <1>2, <1>4, <1>5 DEF ServiceInv, ListsInv
<1>7. \A c \in Commands : /\ OnWay(c)' <=> OnWay(c)
                          /\ InHands(c)' <=> InHands(c)
                          /\ In(queue, c)' <=> In(queue, c)
  BY <1>5 DEF OnWay, InHands, In
<1> HIDE DEF x
<1>8. PlaceInv'
  BY <1>2, <1>3, <1>4, <1>5, <1>7 DEF ServiceInv, PlaceInv
<1>9. QED
  BY <1>6, <1>8 DEF Places

(* An event's entry goes into the callback thread's hands.                  *)
LEMMA PlacesAtArrival ==
  ASSUME ToldApart, TypeOK, ServiceInv, EventArrives
  PROVE  Places'
<1> DEFINE e == Head(chan)
<1>1. /\ chan \in Seq(Reports) /\ chan # <<>> /\ chan' = Tail(chan)
      /\ ListsInv /\ PlaceInv /\ pending \in Seq(Commands) /\ e \in Reports
      /\ evt.pc = "idle"
      /\ UNCHANGED <<queue, posted, ctl, stage>>
  BY DEF EventArrives, TypeOK, ServiceInv, bufVars
<1>2. /\ \A c \in Commands : OnWay(c)' <=> OnWay(c) /\ c # e.cmd
      /\ \A i \in DOMAIN chan' : i + 1 \in DOMAIN chan /\ chan'[i] = chan[i + 1]
      /\ e.cmd \in Commands => OnWay(e.cmd)
  BY <1>1, OnWayTaken
<1>3. \A c \in Commands : /\ ~InHands(c)
                          /\ InHands(c)' <=> c = e.cmd
                          /\ In(queue, c)' <=> In(queue, c)
                          /\ In(posted, c)' <=> In(posted, c)
                          /\ In(ctl, c)' <=> In(ctl, c)
  <2>1. evt'.cmd = e.cmd /\ evt'.pc = "matched"
    BY DEF EventArrives
  <2>2. QED
    BY <1>1, <2>1 DEF InHands, In
<1>4. /\ \A c \in Commands : In(pending', c) <=> In(pending, c) /\ c # e.cmd
      /\ Once(pending')
  <2>1. CASE e.cmd = NoCommand /\ UNCHANGED pending
    BY <1>1, <2>1, FlowConstants DEF ListsInv, In, Once
  <2>2. CASE \E i \in DOMAIN pending :
               pending[i] = e.cmd /\ pending' = RemoveAt(pending, i)
    BY <1>1, <2>2, RemoveMembers DEF ListsInv
  <2>3. QED
    BY <2>1, <2>2, AnswersFindTheirEntry
<1>5. ListsInv'
  <2>1. ASSUME NEW i \in DOMAIN chan', NEW j \in DOMAIN chan',
               chan'[i].cmd = chan'[j].cmd, chan'[i].cmd # NoCommand
        PROVE  i = j
    <3>1. i + 1 = j + 1
      BY <1>1, <1>2, <2>1 DEF ListsInv
    <3>2. i \in Int /\ j \in Int
      BY <1>1
    <3>3. QED
      BY <3>1, <3>2
  <2>2. QED
    BY <1>1, <1>4, <2>1 DEF ListsInv, Once
<1> HIDE DEF e
<1>6. PlaceInv'
  <2> SUFFICES ASSUME NEW c \in Commands
               PROVE  /\ In(queue, c)'   => /\ stage'[c] = "inside" /\ ~In(posted, c)'
                                             /\ ~In(pending, c)' /\ ~InHands(c)'
                      /\ In(posted, c)'  => /\ stage'[c] = "inside"
                                             /\ ~In(pending, c)' /\ ~InHands(c)'
                      /\ In(pending, c)' => stage'[c] = "inside" /\ ~InHands(c)'
                      /\ InHands(c)'     => stage'[c] = "inside"
                      /\ In(pending, c)' <=> In(ctl, c)' \/ OnWay(c)'
                      /\ ~(In(ctl, c)' /\ OnWay(c)')
    BY DEF PlaceInv
  <2>1. c = e.cmd => OnWay(c) /\ In(pending, c) /\ ~In(ctl, c)
    BY <1>1, <1>2 DEF PlaceInv
  <2>2. QED
    BY <1>1, <1>2, <1>3, <1>4, <2>1 DEF PlaceInv
<1>7. QED
  BY <1>5, <1>6 DEF Places

(* process_command_credits moves entries from the queue.                    *)
LEMMA PlacesAtCredits ==
  ASSUME TypeOK, ServiceInv, ProcessCommandCredits
  PROVE  Places'
<1> DEFINE n == Payable
           sent == SubSeq(queue, 1, n)
           rest == SubSeq(queue, n + 1, Len(queue))
<1>1. /\ queue \in Seq(Commands) /\ posted \in Seq(Commands)
      /\ evt.pc = "matched" /\ ListsInv /\ PlaceInv
      /\ UNCHANGED <<pending, ctl, chan>>
  BY DEF ProcessCommandCredits, TypeOK, ServiceInv, ctlVars
<1>2. \A c \in Commands : /\ OnWay(c)' <=> OnWay(c)
                          /\ In(ctl, c)' <=> In(ctl, c)
                          /\ In(pending, c)' <=> In(pending, c)
                          /\ InHands(c)' <=> InHands(c)
  <2>1. ASSUME NEW c \in Commands PROVE InHands(c)' <=> InHands(c)
    <3>1. CASE evt.entry = NoCommand
      <4>1. evt.cmd = NoCommand /\ evt'.cmd = NoCommand
        BY <3>1 DEF ProcessCommandCredits, AfterCredits, IdleEvent, ServiceInv, EventInv
      <4>2. QED
        BY <4>1, FlowConstants DEF InHands
    <3>2. CASE evt.entry # NoCommand
      <4>1. evt'.cmd = evt.cmd /\ evt'.pc = "credited"
        BY <3>2 DEF ProcessCommandCredits, AfterCredits, TypeOK, EventStates
      <4>2. QED
        BY <1>1, <4>1 DEF InHands
    <3>3. QED
      BY <3>1, <3>2
  <2>2. QED
    BY <1>1, <2>1 DEF OnWay, In
<1>3. n \in 0..Len(queue)
  <2>1. NetCredits \in Int
    BY DEF NetCredits, TypeOK, EventStates
  <2>2. QED
    BY <1>1, <2>1 DEF Payable
<1>4. /\ \A c : In(queue, c) <=> In(sent, c) \/ In(rest, c)
      /\ \A c : ~(In(sent, c) /\ In(rest, c))
      /\ Once(sent) /\ Once(rest)
  BY <1>1, <1>3, SplitMembers DEF ListsInv
<1>5. sent \in Seq(Commands) /\ rest \in Seq(Commands)
  BY <1>1, <1>3, SplitType
<1>6. \A c : In(posted, c) => ~In(sent, c)
  <2>1. \A c : In(posted, c) => c \in Commands
    BY <1>1 DEF In
  <2>2. QED
    BY <1>1, <1>4, <2>1 DEF PlaceInv
<1>7. /\ \A c : In(posted \o sent, c) <=> In(posted, c) \/ In(sent, c)
      /\ Once(posted \o sent)
  BY <1>1, <1>4, <1>5, <1>6, ConcatMembers DEF ListsInv
<1>8. \/ /\ queue' = rest /\ posted' = posted \o sent /\ stage' = stage
      \/ /\ queue' = rest /\ posted' = posted
         /\ stage' = [c \in Commands |-> IF In(sent, c) THEN "leaked" ELSE stage[c]]
      \/ UNCHANGED <<queue, posted, stage>>
  BY DEF ProcessCommandCredits, QueueRest
<1> HIDE DEF n, sent, rest
<1>9. CASE queue' = rest /\ posted' = posted \o sent /\ stage' = stage
  <2>1. ListsInv'
    BY <1>1, <1>4, <1>7, <1>9 DEF ListsInv, Once
  <2>2. \A c \in Commands : /\ In(queue, c)' => In(queue, c) /\ ~In(sent, c)
                            /\ In(posted, c)' => In(posted, c) \/ In(queue, c)
                            /\ In(posted, c)' /\ ~In(posted, c) => In(sent, c)
    BY <1>4, <1>7, <1>9
  <2>3. PlaceInv'
    BY <1>1, <1>2, <1>9, <2>2 DEF PlaceInv
  <2>4. QED
    BY <2>1, <2>3 DEF Places
<1>10. CASE /\ queue' = rest /\ posted' = posted
            /\ stage' = [c \in Commands |->
                           IF In(sent, c) THEN "leaked" ELSE stage[c]]
  <2>1. ListsInv'
    BY <1>1, <1>4, <1>10 DEF ListsInv, Once
  <2>2. \A c \in Commands : /\ In(queue, c)' => In(queue, c) /\ ~In(sent, c)
                            /\ In(posted, c)' <=> In(posted, c)
                            /\ ~In(sent, c) => stage'[c] = stage[c]
                            /\ In(sent, c) => In(queue, c)
    BY <1>4, <1>10
  <2>3. PlaceInv'
    BY <1>1, <1>2, <1>10, <2>2 DEF PlaceInv
  <2>4. QED
    BY <2>1, <2>3 DEF Places
<1>11. CASE UNCHANGED <<queue, posted, stage>>
  <2>1. ListsInv'
    BY <1>1, <1>11 DEF ListsInv, Once
  <2>2. \A c \in Commands : /\ In(queue, c)' <=> In(queue, c)
                            /\ In(posted, c)' <=> In(posted, c)
    BY <1>11 DEF In
  <2>3. PlaceInv'
    BY <1>1, <1>2, <1>11, <2>2 DEF PlaceInv
  <2>4. QED
    BY <2>1, <2>3 DEF Places
<1>12. QED
  BY <1>8, <1>9, <1>10, <1>11

(* A new command enters the layer, or is freed.                             *)
LEMMA PlacesAtTransmit ==
  ASSUME TypeOK, ServiceInv, NEW x \in Commands, Transmit(x)
  PROVE  Places'
<1>1. /\ queue \in Seq(Commands) /\ posted \in Seq(Commands)
      /\ ListsInv /\ PlaceInv /\ stage[x] = "idle"
      /\ stage \in [Commands -> Stages]
      /\ UNCHANGED <<pending, ctl, chan, evt>>
  BY DEF Transmit, TypeOK, ServiceInv, ctlVars
<1>2. \A c \in Commands : /\ OnWay(c)' <=> OnWay(c)
                          /\ In(ctl, c)' <=> In(ctl, c)
                          /\ In(pending, c)' <=> In(pending, c)
                          /\ InHands(c)' <=> InHands(c)
  BY <1>1 DEF OnWay, In, InHands
<1>3. ~In(queue, x) /\ ~In(posted, x) /\ ~In(pending, x) /\ ~InHands(x)
  BY <1>1 DEF PlaceInv
<1>4. \/ /\ UNCHANGED <<queue, posted>>
         /\ \E w \in {"dropped", "leaked"} : stage' = [stage EXCEPT ![x] = w]
      \/ /\ queue' = queue /\ posted' = Append(posted, x)
         /\ stage' = [stage EXCEPT ![x] = "inside"]
      \/ /\ queue' = Append(queue, x) /\ posted' = posted
         /\ stage' = [stage EXCEPT ![x] = "inside"]
  BY DEF Transmit, FreeUnsent, PostNow, QueueUp
<1>5. CASE /\ UNCHANGED <<queue, posted>>
           /\ \E w \in {"dropped", "leaked"} : stage' = [stage EXCEPT ![x] = w]
  <2>1. ListsInv'
    BY <1>1, <1>5 DEF ListsInv, Once
  <2>2. \A c \in Commands : /\ In(queue, c)' <=> In(queue, c)
                            /\ In(posted, c)' <=> In(posted, c)
                            /\ c # x => stage'[c] = stage[c]
    BY <1>1, <1>5 DEF In
  <2>3. PlaceInv'
    BY <1>1, <1>2, <1>3, <2>2 DEF PlaceInv
  <2>4. QED
    BY <2>1, <2>3 DEF Places
<1>6. CASE /\ queue' = queue /\ posted' = Append(posted, x)
           /\ stage' = [stage EXCEPT ![x] = "inside"]
  <2>1. /\ \A c : In(posted', c) <=> In(posted, c) \/ c = x
        /\ Once(posted')
    BY <1>1, <1>3, <1>6, AppendMembers DEF ListsInv
  <2>2. ListsInv'
    BY <1>1, <1>6, <2>1 DEF ListsInv, Once
  <2>3. \A c \in Commands : /\ In(queue, c)' <=> In(queue, c)
                            /\ stage'[c] = IF c = x THEN "inside" ELSE stage[c]
    BY <1>1, <1>6 DEF In
  <2>4. PlaceInv'
    BY <1>1, <1>2, <1>3, <2>1, <2>3 DEF PlaceInv
  <2>5. QED
    BY <2>2, <2>4 DEF Places
<1>7. CASE /\ queue' = Append(queue, x) /\ posted' = posted
           /\ stage' = [stage EXCEPT ![x] = "inside"]
  <2>1. /\ \A c : In(queue', c) <=> In(queue, c) \/ c = x
        /\ Once(queue')
    BY <1>1, <1>3, <1>7, AppendMembers DEF ListsInv
  <2>2. ListsInv'
    BY <1>1, <1>7, <2>1 DEF ListsInv, Once
  <2>3. \A c \in Commands : /\ In(posted, c)' <=> In(posted, c)
                            /\ stage'[c] = IF c = x THEN "inside" ELSE stage[c]
    BY <1>1, <1>7 DEF In
  <2>4. PlaceInv'
    BY <1>1, <1>2, <1>3, <2>1, <2>3 DEF PlaceInv
  <2>5. QED
    BY <2>2, <2>4 DEF Places
<1>8. QED
  BY <1>4, <1>5, <1>6, <1>7

(* The controller answers a command it has.                                 *)
LEMMA PlacesAtAnswer ==
  ASSUME TypeOK, ServiceInv, NEW x \in Commands, ControllerAnswers(x)
  PROVE  /\ Places' 
         /\ \E e \in Reports : /\ e.cmd = x /\ OpcodeFits(e)
                               /\ chan' = Append(chan, e)
         /\ \A c : In(ctl', c) <=> In(ctl, c) /\ c # x
         /\ In(ctl, x)
<1>1. /\ ctl \in Seq(Commands) /\ chan \in Seq(Reports) /\ ListsInv /\ PlaceInv
      /\ UNCHANGED <<queue, posted, pending, stage, evt>>
  BY DEF ControllerAnswers, TypeOK, ServiceInv, hostVars, bufVars
<1>2. PICK i \in DOMAIN ctl : ctl[i] = x /\ ctl' = RemoveAt(ctl, i)
  BY DEF ControllerAnswers
<1>3. PICK e \in Reports : /\ e.cmd = x /\ OpcodeFits(e)
                           /\ chan' = Append(chan, e)
  <2>1. ctl' \in Seq(Commands)
    BY <1>1, <1>2, RemoveAtType
  <2>2. Room \in 0..Slots
    BY <2>1, FlowConstants DEF Room
  <2> DEFINE ops == {Opcode[x]} \cup
                    {v \in VendorOpcodes : ImproperVsc /\ Opcode[x] \in VendorOpcodes}
  <2>3. PICK code \in EventCodes, op \in ops, n \in 0..Slots :
          chan' = Append(chan, [code |-> code, opcode |-> op,
                                credits |-> n, cmd |-> x])
    BY <2>2, FlowConstants DEF ControllerAnswers
  <2>4. op \in Opcodes \cup VendorOpcodes
    BY DEF Opcodes
  <2>5. [code |-> code, opcode |-> op, credits |-> n, cmd |-> x] \in Reports
    BY <2>4 DEF Reports
  <2>6. OpcodeFits([code |-> code, opcode |-> op, credits |-> n, cmd |-> x])
    BY FlowConstants DEF OpcodeFits
  <2>7. QED
    BY <2>3, <2>5, <2>6
<1>4. /\ \A c : In(ctl', c) <=> In(ctl, c) /\ c # x
      /\ Once(ctl')
  BY <1>1, <1>2, RemoveMembers DEF ListsInv
<1>5. /\ \A c \in Commands : OnWay(c)' <=> OnWay(c) \/ c = e.cmd
      /\ \A k \in DOMAIN chan' : \/ k \in DOMAIN chan /\ chan'[k] = chan[k]
                                 \/ k = Len(chan) + 1 /\ chan'[k] = e
  BY <1>1, <1>3, OnWayAppended
<1>6. In(ctl, x) /\ ~OnWay(x) /\ In(pending, x)
  BY <1>1, <1>2 DEF PlaceInv, In
<1>7. ListsInv'
  <2>1. ASSUME NEW k \in DOMAIN chan', NEW l \in DOMAIN chan',
               chan'[k].cmd = chan'[l].cmd, chan'[k].cmd # NoCommand
        PROVE  k = l
    <3>1. \A m \in DOMAIN chan : chan[m].cmd # x
      BY <1>6 DEF OnWay
    <3>2. CASE k \in DOMAIN chan /\ chan'[k] = chan[k]
      BY <1>1, <1>3, <1>5, <2>1, <3>1, <3>2 DEF ListsInv
    <3>3. CASE k = Len(chan) + 1 /\ chan'[k] = e
      BY <1>1, <1>3, <1>5, <2>1, <3>1, <3>3 DEF ListsInv
    <3>4. QED
      BY <1>5, <3>2, <3>3
  <2>2. QED
    BY <1>1, <1>4, <2>1 DEF ListsInv, Once
<1>8. \A c \in Commands : /\ In(queue, c)' <=> In(queue, c)
                          /\ In(posted, c)' <=> In(posted, c)
                          /\ In(pending, c)' <=> In(pending, c)
                          /\ InHands(c)' <=> InHands(c)
  BY <1>1 DEF In, InHands
<1>9. PlaceInv'
  BY <1>1, <1>3, <1>4, <1>5, <1>6, <1>8 DEF PlaceInv
<1>10. QED
  BY <1>3, <1>4, <1>6, <1>7, <1>9 DEF Places

(* The controller reports credits and answers nothing.                      *)
LEMMA PlacesAtNop ==
  ASSUME TypeOK, ServiceInv, ControllerNop
  PROVE  /\ Places'
         /\ \E e \in Reports : /\ e.cmd = NoCommand /\ e.opcode = NopOpcode
                               /\ chan' = Append(chan, e)
<1>1. /\ ctl \in Seq(Commands) /\ chan \in Seq(Reports) /\ ListsInv /\ PlaceInv
      /\ UNCHANGED <<queue, posted, pending, stage, evt, ctl>>
  BY DEF ControllerNop, TypeOK, ServiceInv, hostVars, bufVars
<1>2. PICK e \in Reports : /\ e.cmd = NoCommand /\ e.opcode = NopOpcode
                           /\ chan' = Append(chan, e)
  <2>1. Room \in 0..Slots
    BY <1>1, FlowConstants DEF Room
  <2>2. [code |-> "complete", opcode |-> NopOpcode, credits |-> Room,
         cmd |-> NoCommand] \in Reports
    BY <2>1 DEF Reports, EventCodes
  <2>3. QED
    BY <2>2 DEF ControllerNop
<1>3. /\ \A c \in Commands : OnWay(c)' <=> OnWay(c) \/ c = e.cmd
      /\ \A k \in DOMAIN chan' : \/ k \in DOMAIN chan /\ chan'[k] = chan[k]
                                 \/ k = Len(chan) + 1 /\ chan'[k] = e
  BY <1>1, <1>2, OnWayAppended
<1>4. ListsInv'
  BY <1>1, <1>2, <1>3 DEF ListsInv, Once
<1>5. \A c \in Commands : /\ OnWay(c)' <=> OnWay(c)
                          /\ In(queue, c)' <=> In(queue, c)
                          /\ In(posted, c)' <=> In(posted, c)
                          /\ In(pending, c)' <=> In(pending, c)
                          /\ In(ctl, c)' <=> In(ctl, c)
                          /\ InHands(c)' <=> InHands(c)
  BY <1>1, <1>2, <1>3, FlowConstants DEF In, InHands
<1>6. PlaceInv'
  BY <1>1, <1>5 DEF PlaceInv
<1>7. QED
  BY <1>2, <1>4, <1>6 DEF Places

(* The other steps.                                                         *)
LEMMA PlacesAtRest ==
  ASSUME TypeOK, ServiceInv,
         StartUp \/ CloseHal \/ RearmTimer \/ HandOff \/ Intercepted
           \/ (\E c \in Commands : ClientDone(c))
           \/ UNCHANGED <<queue, posted, pending, ctl, chan, evt, stage>>
  PROVE  Places'
<1>1. ListsInv /\ PlaceInv /\ stage \in [Commands -> Stages]
  BY DEF ServiceInv, TypeOK
<1>2. CASE StartUp
  <2>1. pending' = pending
    BY <1>2 DEF StartUp, ServiceInv, EventInv
  <2>2. UNCHANGED <<queue, posted, pending, ctl, chan, evt, stage>>
    BY <1>2, <2>1 DEF StartUp, bufVars, ctlVars
  <2>3. QED
    BY <1>1, <2>2 DEF Places, ListsInv, PlaceInv, Once, In, OnWay, InHands
<1>3. CASE CloseHal
  <2>1. /\ pending' = <<>> /\ ctl' = <<>> /\ chan' = <<>>
        /\ UNCHANGED <<queue, posted, evt>> /\ evt.pc = "idle"
        /\ \A c \in Commands : stage'[c] = IF In(pending, c) THEN "leaked" ELSE stage[c]
    BY <1>3 DEF CloseHal
  <2>2. ListsInv'
    BY <1>1, <2>1 DEF ListsInv, Once
  <2>3. \A c \in Commands : /\ In(queue, c)' <=> In(queue, c)
                            /\ In(posted, c)' <=> In(posted, c)
                            /\ ~In(pending, c)' /\ ~In(ctl, c)' /\ ~OnWay(c)'
                            /\ ~InHands(c)'
    BY <2>1 DEF In, OnWay, InHands
  <2>4. PlaceInv'
    BY <1>1, <2>1, <2>3 DEF PlaceInv
  <2>5. QED
    BY <2>2, <2>4 DEF Places
<1>4. ASSUME UNCHANGED <<queue, posted, pending, ctl, chan>>,
             \A c \in Commands : InHands(c)' => InHands(c),
             \A c \in Commands : stage[c] = "inside" /\ stage'[c] # "inside" =>
                 InHands(c) /\ ~InHands(c)'
      PROVE  Places'
  <2>1. ListsInv'
    BY <1>1, <1>4 DEF ListsInv, Once
  <2>2. \A c \in Commands : /\ OnWay(c)' <=> OnWay(c)
                            /\ In(queue, c)' <=> In(queue, c)
                            /\ In(posted, c)' <=> In(posted, c)
                            /\ In(pending, c)' <=> In(pending, c)
                            /\ In(ctl, c)' <=> In(ctl, c)
    BY <1>4 DEF In, OnWay
  <2>3. PlaceInv'
    BY <1>1, <1>4, <2>2 DEF PlaceInv
  <2>4. QED
    BY <2>1, <2>3 DEF Places
<1>5. CASE RearmTimer
  <2>1. UNCHANGED <<queue, posted, pending, ctl, chan, stage>>
    BY <1>5 DEF RearmTimer, bufVars, ctlVars
  <2>2. \A c \in Commands : InHands(c)' <=> InHands(c)
    BY <1>5 DEF RearmTimer, InHands, TypeOK, EventStates
  <2>3. QED
    BY <1>4, <2>1, <2>2
<1>6. CASE HandOff
  <2>1. UNCHANGED <<queue, posted, pending, ctl, chan>>
    BY <1>6 DEF HandOff, ctlVars
  <2>2. \A c \in Commands : ~InHands(c)'
    BY <1>6 DEF HandOff, InHands, TypeOK, EventStates
  <2>3. evt.entry \in Commands /\ InHands(evt.entry)
    BY <1>6 DEF HandOff, InHands, ServiceInv, EventInv, TypeOK, EventStates
  <2>4. \A c \in Commands : c # evt.entry => stage'[c] = stage[c]
    BY <1>1, <1>6, <2>3 DEF HandOff
  <2>5. QED
    BY <1>4, <2>1, <2>2, <2>3, <2>4
<1>7. CASE Intercepted
  <2>1. UNCHANGED <<queue, posted, pending, ctl, chan, stage>>
    BY <1>7 DEF Intercepted, ctlVars
  <2>2. \A c \in Commands : ~InHands(c)'
    BY <1>7 DEF Intercepted, InHands, IdleEvent
  <2>3. QED
    BY <1>4, <2>1, <2>2
<1>8. ASSUME NEW d \in Commands, ClientDone(d) PROVE Places'
  <2>1. UNCHANGED <<queue, posted, pending, ctl, chan, evt>> /\ stage[d] = "answered"
    BY <1>8 DEF ClientDone, hostVars, ctlVars
  <2>2. \A c \in Commands : InHands(c)' <=> InHands(c)
    BY <2>1 DEF InHands
  <2>3. \A c \in Commands : c # d => stage'[c] = stage[c]
    BY <1>1, <1>8 DEF ClientDone
  <2>4. QED
    BY <1>4, <2>1, <2>2, <2>3
<1>9. CASE UNCHANGED <<queue, posted, pending, ctl, chan, evt, stage>>
  BY <1>4, <1>9 DEF InHands
<1>10. QED
  BY <1>2, <1>3, <1>5, <1>6, <1>7, <1>8, <1>9

(* Each entry stays in one place.                                           *)
LEMMA PlacesStep ==
  ASSUME ToldApart, TypeOK, ServiceInv, [Next]_vars
  PROVE  Places'
<1>1. CASE EventCommandReady
  BY <1>1, PlacesAtSending
<1>2. CASE EventArrives
  BY <1>2, PlacesAtArrival
<1>3. CASE ProcessCommandCredits
  BY <1>3, PlacesAtCredits
<1>4. ASSUME NEW c \in Commands, Transmit(c) PROVE Places'
  BY <1>4, PlacesAtTransmit
<1>5. ASSUME NEW c \in Commands, ControllerAnswers(c) PROVE Places'
  BY <1>5, PlacesAtAnswer
<1>6. CASE ControllerNop
  BY <1>6, PlacesAtNop
<1>7. CASE StartUp \/ CloseHal \/ RearmTimer \/ HandOff \/ Intercepted
             \/ (\E c \in Commands : ClientDone(c))
  BY <1>7, PlacesAtRest
<1>8. CASE UNCHANGED <<queue, posted, pending, ctl, chan, evt, stage>>
  BY <1>8, PlacesAtRest
<1>9. QED
  BY <1>1, <1>2, <1>3, <1>4, <1>5, <1>6, <1>7, <1>8
  DEF Next, HciThread, CallbackThread, Exited, vars, hostVars, bufVars, ctlVars,
      ShutDown, LoopExits, Tick, CommandTimedOut, HoldsMutexForCallback

-----------------------------------------------------------------------------
(* Commands of one opcode are answered in the order they were sent.         *)

(* What the steps of a list do to the order of its members.                 *)
LEMMA BeforeAppended ==
  ASSUME NEW S, NEW s \in Seq(S), NEW x \in S, NEW c, NEW d, Before(Append(s, x), c, d)
  PROVE  Before(s, c, d) \/ (In(s, c) /\ d = x)
<1>1. /\ DOMAIN Append(s, x) = 1..(Len(s) + 1) /\ DOMAIN s = 1..Len(s)
      /\ Len(s) \in Nat /\ \A i \in DOMAIN s : Append(s, x)[i] = s[i]
      /\ Append(s, x)[Len(s) + 1] = x
  OBVIOUS
<1>2. PICK i, j \in DOMAIN Append(s, x) :
        i < j /\ Append(s, x)[i] = c /\ Append(s, x)[j] = d
  BY DEF Before
<1>3. i \in DOMAIN s /\ (j \in DOMAIN s \/ j = Len(s) + 1)
  BY <1>1, <1>2
<1>4. QED
  BY <1>1, <1>2, <1>3 DEF Before, In

LEMMA BeforeRemoved ==
  ASSUME NEW S, NEW s \in Seq(S), NEW k \in DOMAIN s, NEW c, NEW d,
         Before(RemoveAt(s, k), c, d)
  PROVE  Before(s, c, d)
<1> DEFINE r == RemoveAt(s, k)
           at(i) == IF i < k THEN i ELSE i + 1
<1>1. /\ DOMAIN r = 1..(Len(s) - 1) /\ DOMAIN s = 1..Len(s) /\ Len(s) \in Nat
      /\ \A i \in DOMAIN r : r[i] = s[at(i)]
  BY RemovedEntries
<1>2. PICK i, j \in DOMAIN r : i < j /\ r[i] = c /\ r[j] = d
  BY DEF Before
<1>3. at(i) \in DOMAIN s /\ at(j) \in DOMAIN s /\ at(i) < at(j)
  BY <1>1, <1>2
<1>4. s[at(i)] = c /\ s[at(j)] = d
  BY <1>1, <1>2
<1> HIDE DEF at, r
<1>5. QED
  BY <1>3, <1>4 DEF Before

(* The order in which answers are on their way is that of their events.     *)
LEMMA ChanAppended ==
  ASSUME chan \in Seq(Reports), NEW e \in Reports, chan' = Append(chan, e),
         NEW c \in Commands, NEW d \in Commands
  PROVE  /\ ChanBefore(c, d) => ChanBefore(c, d)'
         /\ OnWay(c) /\ d = e.cmd => ChanBefore(c, d)'
<1>1. /\ DOMAIN chan' = 1..(Len(chan) + 1) /\ DOMAIN chan = 1..Len(chan)
      /\ Len(chan) \in Nat /\ \A i \in DOMAIN chan : chan'[i] = chan[i]
      /\ chan'[Len(chan) + 1] = e
  OBVIOUS
<1>2. \A i \in DOMAIN chan : i \in DOMAIN chan' /\ i < Len(chan) + 1
  BY <1>1
<1>3. Len(chan) + 1 \in DOMAIN chan'
  BY <1>1
<1>4. QED
  BY <1>1, <1>2, <1>3 DEF ChanBefore, OnWay

LEMMA ChanTaken ==
  ASSUME chan \in Seq(Reports), chan # <<>>, chan' = Tail(chan),
         NEW c \in Commands, NEW d \in Commands, c # Head(chan).cmd, ChanBefore(c, d)
  PROVE  ChanBefore(c, d)'
<1>1. /\ DOMAIN chan = 1..Len(chan) /\ Len(chan) \in Nat \ {0}
      /\ DOMAIN chan' = 1..(Len(chan) - 1)
      /\ \A i \in DOMAIN chan' : chan'[i] = chan[i + 1]
      /\ Head(chan) = chan[1]
  OBVIOUS
<1>2. PICK i, j \in DOMAIN chan : i < j /\ chan[i].cmd = c /\ chan[j].cmd = d
  BY DEF ChanBefore
<1>3. i # 1
  BY <1>1, <1>2
<1>4. /\ i - 1 \in DOMAIN chan' /\ j - 1 \in DOMAIN chan' /\ i - 1 < j - 1
      /\ (i - 1) + 1 = i /\ (j - 1) + 1 = j
  BY <1>1, <1>2, <1>3
<1>5. chan'[i - 1].cmd = c /\ chan'[j - 1].cmd = d
  BY <1>1, <1>2, <1>4
<1>6. QED
  BY <1>4, <1>5 DEF ChanBefore

(* A sent command comes behind all the others.                              *)
LEMMA OrderAtSending ==
  ASSUME TypeOK, ServiceInv, EventCommandReady
  PROVE  OrderInv'
<1> DEFINE x == Head(posted)
<1>1. /\ pending \in Seq(Commands) /\ ctl \in Seq(Commands) /\ x \in Commands
      /\ pending' = Append(pending, x) /\ ctl' = Append(ctl, x) /\ UNCHANGED chan
  BY DEF TypeOK, EventCommandReady
<1>2. In(posted, x)
  BY TailMembers DEF TypeOK, EventCommandReady, ServiceInv, ListsInv
<1> HIDE DEF x
<1>3. ~In(pending, x) /\ ~In(ctl, x) /\ ~OnWay(x)
  BY <1>1, <1>2 DEF ServiceInv, PlaceInv
<1> SUFFICES ASSUME NEW c \in Commands, NEW d \in Commands, Opcode[c] = Opcode[d],
                    Before(pending', c, d)
             PROVE  /\ OnWay(d)' => ChanBefore(c, d)'
                    /\ ~Before(ctl', d, c)
  BY DEF OrderInv
<1>4. Before(pending, c, d) \/ (In(pending, c) /\ d = x)
  BY <1>1, BeforeAppended
<1>5. In(pending, c) /\ c # x
  BY <1>3, <1>4 DEF Before, In
<1>6. Before(ctl', d, c) => Before(ctl, d, c)
  BY <1>1, <1>5, BeforeAppended
<1>7. Before(ctl, d, c) => d # x
  BY <1>3 DEF Before, In
<1>8. (OnWay(d)' <=> OnWay(d)) /\ (ChanBefore(c, d)' <=> ChanBefore(c, d))
  BY <1>1 DEF OnWay, ChanBefore
<1>9. QED
  BY <1>3, <1>4, <1>6, <1>7, <1>8 DEF ServiceInv, OrderInv

(* The answer that arrives is the first on its way.                         *)
LEMMA OrderAtArrival ==
  ASSUME ToldApart, TypeOK, ServiceInv, EventArrives
  PROVE  OrderInv'
<1> DEFINE h == Head(chan).cmd
<1>1. /\ chan \in Seq(Reports) /\ chan # <<>> /\ chan' = Tail(chan)
      /\ pending \in Seq(Commands) /\ UNCHANGED ctl /\ Once(pending) /\ ListsInv
  BY DEF EventArrives, TypeOK, ServiceInv, ListsInv
<1> SUFFICES ASSUME NEW c \in Commands, NEW d \in Commands, Opcode[c] = Opcode[d],
                    Before(pending', c, d)
             PROVE  /\ OnWay(d)' => ChanBefore(c, d)'
                    /\ ~Before(ctl', d, c)
  BY DEF OrderInv
<1>2. Before(pending, c, d) /\ c # h
  <2>1. CASE h = NoCommand /\ UNCHANGED pending
    BY <2>1, FlowConstants
  <2>2. CASE \E i \in DOMAIN pending :
               pending[i] = h /\ pending' = RemoveAt(pending, i)
    <3>1. PICK i \in DOMAIN pending : pending[i] = h /\ pending' = RemoveAt(pending, i)
      BY <2>2
    <3>2. In(pending', c)
      BY DEF Before, In
    <3>3. QED
      BY <1>1, <3>1, <3>2, BeforeRemoved, RemoveMembers
  <2>3. QED
    BY <2>1, <2>2, AnswersFindTheirEntry
<1>3. OnWay(d)' => OnWay(d)
  BY <1>1, OnWayTaken
<1>4. ChanBefore(c, d) => ChanBefore(c, d)'
  BY <1>1, <1>2, ChanTaken
<1>5. QED
  BY <1>1, <1>2, <1>3, <1>4 DEF ServiceInv, OrderInv

(* The controller answers none while it has an older one of that opcode.    *)
LEMMA OrderAtAnswer ==
  ASSUME TypeOK, ServiceInv, NEW x \in Commands, ControllerAnswers(x)
  PROVE  OrderInv'
<1>1. /\ ctl \in Seq(Commands) /\ chan \in Seq(Reports)
      /\ DOMAIN ctl = 1..Len(ctl) /\ Len(ctl) \in Nat /\ UNCHANGED pending
  BY DEF ControllerAnswers, TypeOK, hostVars
<1>2. PICK e \in Reports : e.cmd = x /\ chan' = Append(chan, e)
  BY PlacesAtAnswer
<1>3. PICK i \in DOMAIN ctl : /\ ctl[i] = x /\ ctl' = RemoveAt(ctl, i)
                              /\ \A j \in 1..(i - 1) : Opcode[ctl[j]] # Opcode[x]
  BY DEF ControllerAnswers
<1> SUFFICES ASSUME NEW c \in Commands, NEW d \in Commands, Opcode[c] = Opcode[d],
                    Before(pending, c, d)
             PROVE  /\ OnWay(d)' => ChanBefore(c, d)'
                    /\ ~Before(ctl', d, c)
  BY <1>1 DEF OrderInv
<1>4. /\ OnWay(d) => ChanBefore(c, d)
      /\ ~Before(ctl, d, c)
  BY DEF ServiceInv, OrderInv
<1>5. ~Before(ctl', d, c)
  BY <1>1, <1>3, <1>4, BeforeRemoved
<1>6. /\ OnWay(d)' <=> OnWay(d) \/ d = x
      /\ ChanBefore(c, d) => ChanBefore(c, d)'
      /\ OnWay(c) /\ d = x => ChanBefore(c, d)'
  BY <1>1, <1>2, OnWayAppended, ChanAppended
<1>7. d = x => OnWay(c)
  <2> SUFFICES ASSUME d = x, ~OnWay(c) PROVE FALSE
    OBVIOUS
  <2>1. In(pending, c) /\ c # x
    <3>1. PICK k, l \in DOMAIN pending : k < l /\ pending[k] = c /\ pending[l] = d
      BY DEF Before
    <3>2. k # l
      BY <3>1 DEF TypeOK
    <3>3. QED
      BY <3>1, <3>2 DEF In, ServiceInv, ListsInv, Once
  <2>2. PICK k \in DOMAIN ctl : ctl[k] = c
    BY <2>1 DEF ServiceInv, PlaceInv, In
  <2>3. i < k
    <3>1. k \notin 1..(i - 1) /\ k # i
      BY <1>3, <2>1, <2>2
    <3>2. QED
      BY <1>1, <3>1
  <2>4. QED
    BY <1>3, <1>4, <2>2, <2>3 DEF Before
<1>8. QED
  BY <1>4, <1>5, <1>6, <1>7

LEMMA OrderStep ==
  ASSUME ToldApart, TypeOK, ServiceInv, [Next]_vars
  PROVE  OrderInv'
<1>1. CASE EventCommandReady
  BY <1>1, OrderAtSending
<1>2. CASE EventArrives
  BY <1>2, OrderAtArrival
<1>3. ASSUME NEW x \in Commands, ControllerAnswers(x) PROVE OrderInv'
  BY <1>3, OrderAtAnswer
<1>4. CASE ControllerNop
  <2>1. PICK e \in Reports : e.cmd = NoCommand /\ chan' = Append(chan, e)
    BY <1>4, PlacesAtNop
  <2>2. UNCHANGED <<pending, ctl>> /\ chan \in Seq(Reports)
    BY <1>4 DEF ControllerNop, hostVars, TypeOK
  <2>3. \A c, d \in Commands : /\ OnWay(d)' <=> OnWay(d)
                               /\ ChanBefore(c, d) => ChanBefore(c, d)'
    BY <2>1, <2>2, OnWayAppended, ChanAppended, FlowConstants
  <2>4. QED
    BY <2>2, <2>3 DEF ServiceInv, OrderInv
<1>5. CASE StartUp \/ CloseHal
  BY <1>5 DEF StartUp, CloseHal, OrderInv, Before
<1>6. CASE UNCHANGED <<pending, ctl, chan>>
  BY <1>6 DEF ServiceInv, OrderInv, OnWay, ChanBefore
<1>7. QED
  BY <1>1, <1>2, <1>3, <1>4, <1>5, <1>6
  DEF Next, HciThread, CallbackThread, Exited, vars, hostVars, bufVars, ctlVars,
      ShutDown, LoopExits, Tick, CommandTimedOut, HoldsMutexForCallback,
      ProcessCommandCredits, RearmTimer, HandOff, Intercepted, Transmit, ClientDone

-----------------------------------------------------------------------------
(* Events carry the opcode of the command they answer.                      *)
LEMMA EventStep ==
  ASSUME ToldApart, TypeOK, ServiceInv, [Next]_vars
  PROVE  EventInv'
<1>1. EventInv /\ chan \in Seq(Reports)
  BY DEF ServiceInv, TypeOK
<1>2. CASE StartUp
  BY <1>1, <1>2 DEF StartUp, ctlVars, EventInv
<1>3. CASE ShutDown \/ LoopExits \/ Tick \/ CommandTimedOut
             \/ HoldsMutexForCallback \/ UNCHANGED vars
             \/ (\E c \in Commands : Transmit(c) \/ ClientDone(c))
  <2>1. UNCHANGED <<pending, ctl, chan, evt>> /\ (life' = "down" => life = "down")
    BY <1>3 DEF ShutDown, LoopExits, Tick, CommandTimedOut,
                HoldsMutexForCallback, Transmit, ClientDone, vars, hostVars, ctlVars
  <2>2. QED
    BY <1>1, <2>1 DEF EventInv
<1>4. CASE CloseHal
  BY <1>1, <1>4 DEF CloseHal, EventInv
<1>5. CASE EventCommandReady
  BY <1>1, <1>5 DEF EventCommandReady, LoopExists, EventInv
<1>6. CASE EventArrives
  <2>1. evt'.entry = evt'.cmd /\ evt'.pc = "matched"
    <3> DEFINE matched(c) == [pc |-> "matched", code |-> Head(chan).code,
                              credits |-> Head(chan).credits, cmd |-> c, entry |-> c]
    <3>1. evt' = matched(NoCommand) \/ evt' = matched(Head(chan).cmd)
      BY <1>6, AnswersFindTheirEntry
    <3>2. QED
      BY <3>1
  <2>2. \A i \in DOMAIN chan' : i + 1 \in DOMAIN chan /\ chan'[i] = chan[i + 1]
    BY <1>1, <1>6, OnWayTaken DEF EventArrives, ServiceInv
  <2>3. life' # "down"
    BY <1>6 DEF EventArrives
  <2>4. QED
    BY <1>1, <2>1, <2>2, <2>3 DEF EventInv
<1>7. CASE ProcessCommandCredits
  <2>1. /\ UNCHANGED <<pending, ctl, chan, life>> /\ evt.pc = "matched"
        /\ \/ evt' = IdleEvent
           \/ evt.entry # NoCommand /\ evt' = [evt EXCEPT !.pc = "credited"]
    BY <1>7 DEF ProcessCommandCredits, AfterCredits, ctlVars
  <2>2. evt'.entry = evt'.cmd /\ (evt'.pc = "idle" => evt'.cmd = NoCommand)
    BY <1>1, <2>1 DEF EventInv, IdleEvent, TypeOK, EventStates
  <2>3. QED
    BY <1>1, <2>1, <2>2 DEF EventInv
<1>8. CASE RearmTimer \/ HandOff \/ Intercepted
  <2>1. /\ UNCHANGED <<pending, ctl, chan, life>> /\ evt.pc # "idle"
        /\ \/ evt' = IdleEvent
           \/ evt' = [evt EXCEPT !.pc = "rearmed"]
           \/ evt' = [evt EXCEPT !.pc = "handed"]
    BY <1>8 DEF RearmTimer, HandOff, Intercepted, ctlVars
  <2>2. evt \in EventStates /\ evt.entry = evt.cmd
    BY <1>1 DEF EventInv, TypeOK
  <2>3. CASE evt' = IdleEvent
    BY <1>1, <2>1, <2>3 DEF EventInv, IdleEvent
  <2>4. CASE \E w \in {"rearmed", "handed"} : evt' = [evt EXCEPT !.pc = w]
    BY <1>1, <2>1, <2>2, <2>4 DEF EventInv, EventStates
  <2>5. QED
    BY <2>1, <2>3, <2>4
<1>9. ASSUME NEW e \in Reports, chan' = Append(chan, e), UNCHANGED <<evt, pending, life>>,
             life # "down", OpcodeFits(e)
      PROVE  EventInv'
  <2>1. \A k \in DOMAIN chan' : \/ k \in DOMAIN chan /\ chan'[k] = chan[k]
                                \/ k = Len(chan) + 1 /\ chan'[k] = e
    BY <1>1, <1>9, OnWayAppended
  <2>2. QED
    BY <1>1, <1>9, <2>1 DEF EventInv
<1>10. ASSUME NEW c \in Commands, ControllerAnswers(c) PROVE EventInv'
  <2>1. PICK e \in Reports : e.cmd = c /\ OpcodeFits(e) /\ chan' = Append(chan, e)
    BY <1>10, PlacesAtAnswer
  <2>2. UNCHANGED <<evt, pending, life>> /\ ctl # <<>>
    BY <1>10 DEF ControllerAnswers, hostVars
  <2>3. QED
    BY <1>1, <1>9, <2>1, <2>2, FlowConstants DEF EventInv
<1>11. CASE ControllerNop
  <2>1. PICK e \in Reports : /\ e.cmd = NoCommand /\ e.opcode = NopOpcode
                             /\ chan' = Append(chan, e)
    BY <1>11, PlacesAtNop
  <2>2. UNCHANGED <<evt, pending, life>> /\ life # "down"
    BY <1>11 DEF ControllerNop, LoopExists, hostVars
  <2>3. QED
    BY <1>9, <2>1, <2>2 DEF OpcodeFits
<1>12. QED
  BY <1>2, <1>3, <1>4, <1>5, <1>6, <1>7, <1>8, <1>10, <1>11
  DEF Next, HciThread, CallbackThread, Exited

(* Between the hand-over and the layer's clean-up each buffer is the        *)
(* client's or the layer's, and the layer frees exactly its own.            *)
LEMMA BufferStep ==
  ASSUME TypeOK, ServiceInv, [Next]_vars
  PROVE  BufferInv'
<1>1. /\ BufferInv /\ PlaceInv /\ EventInv
      /\ stage \in [Commands -> Stages] /\ cmdBuf \in [Commands -> Owners]
      /\ reply \in [Commands -> Owners] /\ evt \in EventStates
      /\ (evt.entry = NoCommand => evt.pc \in {"idle", "matched"})
      /\ Kind \in [Commands -> Kinds]
  BY FlowConstants DEF ServiceInv, TypeOK
<1>2. ASSUME UNCHANGED bufVars, evt'.pc # "handed", evt.pc # "handed"
      PROVE  BufferInv'
  BY <1>1, <1>2 DEF bufVars, BufferInv
<1>3. ASSUME UNCHANGED <<bufVars, evt>> PROVE BufferInv'
  BY <1>1, <1>3 DEF bufVars, BufferInv, CommandHandedOver, PacketHandedOver,
                    StatusGivenToFuture
<1>4. CASE CloseHal
  BY <1>1, <1>4 DEF CloseHal, BufferInv
<1>5. CASE EventArrives
  <2>1. evt'.pc # "handed" /\ evt.pc # "handed" /\ UNCHANGED bufVars
    BY <1>5 DEF EventArrives
  <2>2. QED
    BY <1>2, <2>1
<1>6. CASE ProcessCommandCredits
  <2>1. /\ evt'.pc # "handed" /\ evt.pc # "handed" /\ UNCHANGED <<cmdBuf, reply>>
        /\ \A c \in Commands : stage'[c] \in {stage[c], "leaked"}
    BY <1>1, <1>6 DEF ProcessCommandCredits, AfterCredits, IdleEvent, EventStates
  <2>2. QED
    BY <1>1, <2>1 DEF BufferInv
<1>7. CASE RearmTimer
  <2>1. evt'.pc # "handed" /\ evt.pc # "handed" /\ UNCHANGED bufVars
    BY <1>1, <1>7 DEF RearmTimer, EventStates
  <2>2. QED
    BY <1>2, <2>1
<1>8. CASE HandOff
  <2> DEFINE x == evt.entry
  <2>1. /\ x \in Commands /\ InHands(x) /\ stage[x] = "inside"
        /\ evt.code \in EventCodes /\ Kind[x] \in Kinds
    BY <1>1, <1>8 DEF HandOff, InHands, PlaceInv, EventInv, EventStates
  <2>2. PacketHandedOver \/ CommandHandedOver \/ NobodyWaits
    BY <2>1 DEF PacketHandedOver, CommandHandedOver, NobodyWaits, StatusGivenToFuture,
                EventCodes, Kinds
  <2>3. /\ stage' = [stage EXCEPT ![x] = "answered"]
        /\ reply' = IF PacketHandedOver THEN [reply EXCEPT ![x] = "client"] ELSE reply
        /\ cmdBuf' = IF CommandHandedOver THEN [cmdBuf EXCEPT ![x] = "client"]
                                          ELSE cmdBuf
        /\ evt' = [evt EXCEPT !.pc = "handed"] /\ evt.pc = "rearmed"
    BY <1>8, <2>2 DEF HandOff
  <2>4. evt'.pc = "handed" /\ evt'.entry = x /\ evt'.code = evt.code
    BY <1>1, <2>3 DEF EventStates
  <2>5. (PacketHandedOver' <=> PacketHandedOver) /\ (CommandHandedOver' <=> CommandHandedOver)
    BY <2>4 DEF PacketHandedOver, CommandHandedOver, StatusGivenToFuture
  <2>6. cmdBuf[x] = "layer" /\ reply[x] = "none"
    BY <1>1, <2>1 DEF BufferInv
  <2>7. /\ stage'[x] = "answered"
        /\ cmdBuf'[x] = IF CommandHandedOver THEN "client" ELSE "layer"
        /\ reply'[x] = IF PacketHandedOver THEN "client" ELSE "none"
    BY <1>1, <2>1, <2>3, <2>6
  <2>8. \A c \in Commands : c # x =>
          stage'[c] = stage[c] /\ cmdBuf'[c] = cmdBuf[c] /\ reply'[c] = reply[c]
    BY <1>1, <2>1, <2>3
  <2> HIDE DEF x
  <2>9. evt.pc # "handed"
    BY <2>3
  <2>10. QED
    BY <1>1, <2>4, <2>5, <2>7, <2>8, <2>9 DEF BufferInv
<1>9. CASE Intercepted
  <2> DEFINE x == evt.entry
  <2>1. /\ x \in Commands /\ evt.pc = "handed" /\ UNCHANGED stage
        /\ evt.code \in EventCodes /\ Kind[x] \in Kinds /\ evt' = IdleEvent
    BY <1>1, <1>9 DEF Intercepted, EventStates
  <2>2. (LayerFreesPacket <=> ~PacketHandedOver) /\ (LayerFreesCommand <=> ~CommandHandedOver)
    BY <2>1 DEF LayerFreesPacket, LayerFreesCommand, PacketHandedOver, CommandHandedOver,
                StatusGivenToFuture, EventCodes, Kinds
  <2>3. /\ reply' = IF LayerFreesPacket THEN [reply EXCEPT ![x] = FreeBuffer(@)] ELSE reply
        /\ cmdBuf' = IF LayerFreesCommand THEN [cmdBuf EXCEPT ![x] = FreeBuffer(@)]
                                          ELSE cmdBuf
    BY <1>9 DEF Intercepted
  <2>4. /\ stage[x] = "answered"
        /\ cmdBuf[x] = IF CommandHandedOver THEN "client" ELSE "layer"
        /\ reply[x] = IF PacketHandedOver THEN "client" ELSE "none"
    BY <1>1, <2>1 DEF BufferInv
  <2>5. FreeBuffer("layer") = "freed" /\ FreeBuffer("none") = "freed"
    BY DEF FreeBuffer
  <2>6. cmdBuf'[x] \in {"client", "freed"} /\ reply'[x] \in {"client", "freed"}
    BY <1>1, <2>1, <2>2, <2>3, <2>4, <2>5
  <2>7. \A c \in Commands : c # x => cmdBuf'[c] = cmdBuf[c] /\ reply'[c] = reply[c]
    BY <1>1, <2>1, <2>3
  <2>8. evt'.pc # "handed"
    BY <2>1 DEF IdleEvent
  <2> HIDE DEF x
  <2>9. QED
    BY <1>1, <2>1, <2>4, <2>6, <2>7, <2>8 DEF BufferInv, x
<1>10. ASSUME NEW x \in Commands, Transmit(x) PROVE BufferInv'
  <2>1. /\ stage[x] = "idle" /\ UNCHANGED evt /\ cmdBuf[x] = "none"
        /\ reply[x] = "none" /\ reply' = reply
    BY <1>1, <1>10 DEF Transmit, BufferInv
  <2>2. /\ \A c \in Commands : c # x => stage'[c] = stage[c] /\ cmdBuf'[c] = cmdBuf[c]
        /\ stage'[x] = "inside" => cmdBuf'[x] = "layer"
        /\ stage'[x] \in {"inside", "dropped", "leaked"}
    BY <1>1, <1>10 DEF Transmit, FreeUnsent, PostNow, QueueUp
  <2>3. evt.pc = "handed" => evt.entry # x /\ evt.entry \in Commands
    BY <1>1, <2>1 DEF BufferInv, EventStates
  <2>4. QED
    BY <1>1, <2>1, <2>2, <2>3
    DEF BufferInv, CommandHandedOver, PacketHandedOver, StatusGivenToFuture
<1>11. ASSUME NEW x \in Commands, ClientDone(x) PROVE BufferInv'
  <2>1. /\ UNCHANGED evt /\ evt.entry # x
        /\ \A c \in Commands : c # x => /\ stage'[c] = stage[c] /\ cmdBuf'[c] = cmdBuf[c]
                                      /\ reply'[c] = reply[c]
        /\ stage'[x] = "idle" /\ cmdBuf'[x] = "none" /\ reply'[x] = "none"
    BY <1>1, <1>11 DEF ClientDone, hostVars
  <2>2. evt.pc = "handed" => evt.entry \in Commands
    BY <1>1 DEF EventStates
  <2>3. QED
    BY <1>1, <2>1, <2>2
    DEF BufferInv, CommandHandedOver, PacketHandedOver, StatusGivenToFuture
<1>12. UNCHANGED <<bufVars, evt>> => BufferInv'
  BY <1>3
<1>13. QED
  BY <1>4, <1>5, <1>6, <1>7, <1>8, <1>9, <1>10, <1>11, <1>12
  DEF Next, HciThread, CallbackThread, Exited, vars, hostVars, StartUp, ShutDown,
      LoopExits, EventCommandReady, ControllerAnswers, ControllerNop, Tick,
      CommandTimedOut, HoldsMutexForCallback

(* The inductive invariant of the refinement.                               *)
LEMMA ServiceInvHolds ==
  ASSUME ToldApart
  PROVE  Spec => []ServiceInv
<1>1. Init => ServiceInv
  BY DEF Init, ServiceInv, ListsInv, PlaceInv, OrderInv, EventInv, BufferInv, Once,
         Before, In, OnWay,
         InHands, IdleEvent
<1>2. TypeOK /\ ServiceInv /\ [Next]_vars => ServiceInv'
  BY PlacesStep, OrderStep, EventStep, BufferStep DEF ServiceInv, Places
<1>3. QED
  BY <1>1, <1>2, TypeCorrect, PTL DEF Spec

-----------------------------------------------------------------------------
(* The variables of CommandService, and what changes them.                  *)
Asked    == {c \in Commands : In(posted, c) \/ In(queue, c)}
Held     == {c \in Commands : AtController(c)}
Answered == {c \in Commands : stage[c] = "answered"}
Lost     == {c \in Commands : stage[c] \in {"dropped", "leaked"}}
Given    == BuffersOf("client")
Freed    == BuffersOf("freed")

(* Held commands are pending, or in the callback thread's hands.            *)
LEMMA HeldIsPendingOrInHands ==
  ASSUME PlaceInv
  PROVE  Held = {c \in Commands : In(pending, c) \/ InHands(c)}
<1>1. \A c \in Commands : AtController(c) <=> In(pending, c) \/ InHands(c)
  BY DEF AtController, PlaceInv, OnWay, InHands
<1>2. QED
  BY <1>1 DEF Held

(* Who owns a buffer.                                                       *)
LEMMA BuffersMember ==
  ASSUME NEW w
  PROVE  /\ \A c \in Commands : /\ <<c, "command">> \in BuffersOf(w) <=> cmdBuf[c] = w
                                /\ <<c, "answer">> \in BuffersOf(w) <=> reply[c] = w
         /\ \A p \in BuffersOf(w) : \E c \in Commands :
              p = <<c, "command">> \/ p = <<c, "answer">>
BY DEF BuffersOf

(* A step that leaves what the service sees as it is.                       *)
LEMMA WorkUnseen ==
  ASSUME Asked' = Asked, Held' = Held, Answered' = Answered, Lost' = Lost,
         Given' = Given, Freed' = Freed, (life = "up")' = (life = "up")
  PROVE  Service!Work
BY DEF Service!Work, Service!serviceVars, Asked, Held, Answered, Lost, Given, Freed

(* No buffer changes its owner.                                             *)
LEMMA BuffersUnseen ==
  UNCHANGED <<cmdBuf, reply>> => Given' = Given /\ Freed' = Freed
BY DEF Given, Freed, BuffersOf

(* No command is answered or lost.                                          *)
LEMMA StagesUnseen ==
  UNCHANGED stage => Answered' = Answered /\ Lost' = Lost
BY DEF Answered, Lost

(* No command is given to the layer or leaves it.                           *)
LEMMA AskedUnseen ==
  UNCHANGED <<posted, queue>> => Asked' = Asked
BY DEF Asked, In

(* No command reaches or leaves the controller.                             *)
LEMMA HeldUnseen ==
  UNCHANGED <<ctl, chan, evt>> => Held' = Held
BY DEF Held, AtController, In

(* Sending a command, the controller takes it.                              *)
LEMMA SendingTakes ==
  ASSUME TypeOK, ServiceInv, Places', EventCommandReady
  PROVE  \E c \in Commands : Service!Take(c)
<1> DEFINE x == Head(posted)
<1>1. /\ x \in Commands /\ In(posted, x)
      /\ \A c : In(posted', c) <=> In(posted, c) /\ c # x
  BY TailMembers DEF TypeOK, EventCommandReady, ServiceInv, ListsInv
<1>2. ~In(queue, x) /\ ~In(pending, x) /\ ~InHands(x)
  BY <1>1 DEF ServiceInv, PlaceInv
<1>3. \A c : In(pending', c) <=> In(pending, c) \/ c = x
  BY <1>1, AppendMembers DEF TypeOK, EventCommandReady
<1>4. UNCHANGED <<queue, stage, cmdBuf, reply, life, evt, chan>>
  BY DEF EventCommandReady, bufVars
<1> HIDE DEF x
<1>5. Held = {c \in Commands : In(pending, c) \/ InHands(c)}
  BY HeldIsPendingOrInHands DEF ServiceInv
<1>6. Held' = {c \in Commands : In(pending', c) \/ InHands(c)'}
  <2>1. \A c \in Commands : AtController(c)' <=> In(pending', c) \/ InHands(c)'
    BY DEF Places, AtController, PlaceInv, OnWay, InHands
  <2>2. QED
    BY <2>1 DEF Held
<1>7. x \in Asked /\ x \notin Held
  BY <1>1, <1>2, <1>5 DEF Asked
<1>8. Held' = Held \cup {x}
  <2>1. \A c \in Commands : InHands(c)' <=> InHands(c)
    BY <1>4 DEF InHands
  <2>2. QED
    BY <1>1, <1>3, <1>5, <1>6, <2>1
<1>9. Asked' = Asked \ {x}
  <2>1. \A c \in Commands : In(queue, c)' <=> In(queue, c)
    BY <1>4 DEF In
  <2>2. QED
    BY <1>1, <1>2, <2>1 DEF Asked
<1>10. Answered' = Answered /\ Lost' = Lost /\ Given' = Given /\ Freed' = Freed
  BY <1>4, BuffersUnseen, StagesUnseen
<1>11. Service!Take(x)
  BY <1>4, <1>7, <1>8, <1>9, <1>10
  DEF Service!Take, Asked, Held, Answered, Lost, Given, Freed
<1>12. QED
  BY <1>1, <1>11

(* An answer on its way, and in the callback thread's hands.                *)
LEMMA HeldStays ==
  ASSUME PlaceInv, Places',
         \A c \in Commands : In(pending, c)' \/ InHands(c)' <=> In(pending, c) \/ InHands(c)
  PROVE  Held' = Held
<1>1. Held = {c \in Commands : In(pending, c) \/ InHands(c)}
  BY HeldIsPendingOrInHands
<1>2. Held' = {c \in Commands : In(pending, c)' \/ InHands(c)'}
  <2>1. \A c \in Commands : AtController(c)' <=> In(pending, c)' \/ InHands(c)'
    BY DEF Places, AtController, PlaceInv, OnWay, InHands
  <2>2. QED
    BY <2>1 DEF Held
<1>3. QED
  BY <1>1, <1>2

(* An arriving answer is still on its way to its client.                    *)
LEMMA ArrivalIsWork ==
  ASSUME ToldApart, TypeOK, ServiceInv, Places', EventArrives
  PROVE  Service!Work
<1> DEFINE e == Head(chan)
<1>1. UNCHANGED <<queue, posted, stage, cmdBuf, reply, life>> /\ evt.pc = "idle"
  BY DEF EventArrives, bufVars
<1>2. ASSUME NEW c \in Commands
      PROVE  In(pending, c)' \/ InHands(c)' <=> In(pending, c) \/ InHands(c)
  <2>1. ~InHands(c) /\ (InHands(c)' <=> c = e.cmd)
    BY <1>1 DEF EventArrives, InHands
  <2>2. CASE e.cmd = NoCommand /\ UNCHANGED pending
    BY <2>1, <2>2, FlowConstants DEF In
  <2>3. CASE \E i \in DOMAIN pending :
               pending[i] = e.cmd /\ pending' = RemoveAt(pending, i)
    <3>1. In(pending', c) <=> In(pending, c) /\ c # e.cmd
      BY <2>3, RemoveMembers DEF TypeOK, ServiceInv, ListsInv
    <3>2. In(pending, e.cmd)
      BY <2>3 DEF In
    <3>3. QED
      BY <2>1, <3>1, <3>2
  <2>4. QED
    BY <2>2, <2>3, AnswersFindTheirEntry
<1>3. Held' = Held
  BY <1>2, HeldStays DEF ServiceInv
<1>4. QED
  BY <1>1, <1>3, WorkUnseen, BuffersUnseen, StagesUnseen, AskedUnseen

(* The credits pay for queued commands, or those are lost with the loop.    *)
LEMMA CreditsServe ==
  ASSUME TypeOK, ServiceInv, Places', ProcessCommandCredits
  PROVE  Service!Work \/ \E cs \in SUBSET (Asked \cup Held) : Service!Lose(cs)
<1> DEFINE n == Payable
           sent == SubSeq(queue, 1, n)
           rest == SubSeq(queue, n + 1, Len(queue))
<1>1. /\ queue \in Seq(Commands) /\ posted \in Seq(Commands)
      /\ ListsInv /\ PlaceInv /\ evt.pc = "matched"
      /\ UNCHANGED <<pending, cmdBuf, reply, life>>
  BY DEF ProcessCommandCredits, TypeOK, ServiceInv
<1>2. \A c \in Commands : InHands(c)' <=> InHands(c)
  <2>1. CASE evt.entry = NoCommand
    <3>1. evt.cmd = NoCommand /\ evt'.cmd = NoCommand
      BY <2>1 DEF ProcessCommandCredits, AfterCredits, IdleEvent, ServiceInv, EventInv
    <3>2. QED
      BY <3>1, FlowConstants DEF InHands
  <2>2. CASE evt.entry # NoCommand
    <3>1. evt'.cmd = evt.cmd /\ evt'.pc = "credited"
      BY <2>2 DEF ProcessCommandCredits, AfterCredits, TypeOK, EventStates
    <3>2. QED
      BY <1>1, <3>1 DEF InHands
  <2>3. QED
    BY <2>1, <2>2
<1>3. Held' = Held
  <2>1. \A c \in Commands : In(pending, c)' <=> In(pending, c)
    BY <1>1 DEF In
  <2>2. QED
    BY <1>1, <1>2, <2>1, HeldStays
<1>4. n \in 0..Len(queue)
  <2>1. NetCredits \in Int
    BY DEF NetCredits, TypeOK, EventStates
  <2>2. QED
    BY <1>1, <2>1 DEF Payable
<1>5. /\ \A c : In(queue, c) <=> In(sent, c) \/ In(rest, c)
      /\ \A c : ~(In(sent, c) /\ In(rest, c))
      /\ Once(sent) /\ Once(rest)
      /\ sent \in Seq(Commands)
  BY <1>1, <1>4, SplitMembers, SplitType DEF ListsInv
<1>6. Given' = Given /\ Freed' = Freed
  BY <1>1, BuffersUnseen
<1>7. \/ /\ queue' = rest /\ posted' = posted \o sent /\ stage' = stage
      \/ /\ queue' = rest /\ posted' = posted /\ life # "up"
         /\ stage' = [c \in Commands |-> IF In(sent, c) THEN "leaked" ELSE stage[c]]
      \/ UNCHANGED <<queue, posted, stage>>
  BY DEF ProcessCommandCredits, QueueRest
<1> HIDE DEF n, sent, rest
<1>8. CASE queue' = rest /\ posted' = posted \o sent /\ stage' = stage
  <2>1. \A c : In(posted, c) => ~In(sent, c)
    <3>1. \A c : In(posted, c) => c \in Commands
      BY <1>1 DEF In
    <3>2. QED
      BY <1>1, <1>5, <3>1 DEF PlaceInv
  <2>2. \A c : In(posted \o sent, c) <=> In(posted, c) \/ In(sent, c)
    BY <1>1, <1>5, <2>1, ConcatMembers DEF ListsInv
  <2>3. Asked' = Asked
    BY <1>5, <1>8, <2>2 DEF Asked
  <2>4. QED
    BY <1>1, <1>3, <1>6, <1>8, <2>3, StagesUnseen, WorkUnseen
<1>9. CASE /\ queue' = rest /\ posted' = posted /\ life # "up"
           /\ stage' = [c \in Commands |->
                          IF In(sent, c) THEN "leaked" ELSE stage[c]]
  <2> PICK lost : lost = {c \in Commands : In(sent, c)}
    OBVIOUS
  <2>1. lost \in SUBSET (Asked \cup Held)
    BY <1>5 DEF Asked
  <2>2. Asked' = Asked \ lost
    <3>1. \A c \in Commands : In(sent, c) => ~In(posted, c)
      BY <1>1, <1>5 DEF PlaceInv
    <3>2. \A c \in Commands : /\ In(queue, c)' <=> In(rest, c)
                              /\ In(posted, c)' <=> In(posted, c)
      BY <1>9 DEF In
    <3>3. QED
      BY <1>5, <3>1, <3>2 DEF Asked
  <2>3. Held' = Held \ lost
    <3>1. \A c \in Commands : In(sent, c) => ~In(pending, c) /\ ~InHands(c)
      BY <1>1, <1>5 DEF PlaceInv
    <3>2. QED
      BY <1>1, <1>3, <3>1, HeldIsPendingOrInHands
  <2>4. Answered' = Answered /\ Lost' = Lost \cup lost
    <3>1. \A c \in Commands : In(sent, c) => stage[c] = "inside"
      BY <1>1, <1>5 DEF PlaceInv
    <3>2. QED
      BY <1>9, <3>1 DEF Answered, Lost
  <2>5. Service!Lose(lost)
    BY <1>1, <1>6, <1>9, <2>2, <2>3, <2>4
    DEF Service!Lose, Asked, Held, Answered, Lost, Given, Freed
  <2>6. \E cs \in SUBSET (Asked \cup Held) : Service!Lose(cs)
    BY <2>1, <2>5
  <2>7. QED
    BY <2>6
<1>10. CASE UNCHANGED <<queue, posted, stage>>
  BY <1>1, <1>3, <1>6, <1>10, StagesUnseen, AskedUnseen, WorkUnseen
<1>11. QED
  BY <1>7, <1>8, <1>9, <1>10

(* list_free without a destructor loses the entries in the list.            *)
LEMMA CloseLoses ==
  ASSUME TypeOK, ServiceInv, Places', CloseHal
  PROVE  \E cs \in SUBSET (Asked \cup Held) : Service!Lose(cs)
<1> PICK lost : lost = {c \in Commands : In(pending, c)}
  OBVIOUS
<1>1. /\ PlaceInv /\ life = "stopped" /\ life' = "down" /\ evt.pc = "idle"
      /\ UNCHANGED <<queue, posted, evt, cmdBuf, reply>> /\ pending' = <<>>
      /\ stage' = [c \in Commands |-> IF In(pending, c) THEN "leaked" ELSE stage[c]]
  BY DEF CloseHal, ServiceInv
<1>2. \A c \in Commands : ~InHands(c) /\ ~InHands(c)' /\ ~In(pending, c)'
  BY <1>1 DEF InHands, In
<1>3. Held = lost
  BY <1>1, <1>2, HeldIsPendingOrInHands
<1>4. Held' = {}
  <2>1. \A c \in Commands : AtController(c)' <=> In(pending, c)' \/ InHands(c)'
    BY DEF Places, AtController, PlaceInv, OnWay, InHands
  <2>2. QED
    BY <1>2, <2>1 DEF Held
<1>5. Asked' = Asked \ lost
  <2>1. Asked' = Asked
    BY <1>1, AskedUnseen
  <2>2. \A c \in Commands : In(pending, c) => ~In(queue, c) /\ ~In(posted, c)
    BY <1>1 DEF PlaceInv
  <2>3. QED
    BY <2>1, <2>2 DEF Asked
<1>6. Answered' = Answered /\ Lost' = Lost \cup lost
  <2>1. \A c \in Commands : In(pending, c) => stage[c] = "inside"
    BY <1>1 DEF PlaceInv
  <2>2. QED
    BY <1>1, <2>1 DEF Answered, Lost
<1>7. Given' = Given /\ Freed' = Freed
  BY <1>1, BuffersUnseen
<1>8. Service!Lose(lost)
  BY <1>1, <1>3, <1>4, <1>5, <1>6, <1>7
  DEF Service!Lose, Asked, Held, Answered, Lost, Given, Freed
<1>9. lost \in SUBSET (Asked \cup Held)
  BY <1>3
<1>10. QED
  BY <1>8, <1>9

(* A command sent is asked for, or lost at once.                            *)
LEMMA TransmitAsks ==
  ASSUME TypeOK, ServiceInv, NEW x \in Commands, Transmit(x)
  PROVE  Service!Ask(x) \/ Service!AskInVain(x)
<1>1. /\ PlaceInv /\ queue \in Seq(Commands) /\ posted \in Seq(Commands)
      /\ stage \in [Commands -> Stages] /\ cmdBuf \in [Commands -> Owners]
      /\ reply \in [Commands -> Owners]
      /\ stage[x] = "idle" /\ cmdBuf[x] = "none" /\ reply[x] = "none"
      /\ UNCHANGED <<ctl, chan, evt, life, pending>> /\ reply' = reply
  BY DEF Transmit, TypeOK, ServiceInv, BufferInv, ctlVars
<1>2. Held' = Held
  BY <1>1, HeldUnseen
<1>3. x \notin Asked \cup Held \cup Answered \cup Lost
  BY <1>1, HeldIsPendingOrInHands DEF PlaceInv, Asked, Answered, Lost
<1>4. \/ /\ UNCHANGED <<queue, posted>> /\ life # "up"
         /\ \/ /\ stage' = [stage EXCEPT ![x] = "dropped"]
               /\ cmdBuf' = [cmdBuf EXCEPT ![x] = "freed"]
            \/ /\ stage' = [stage EXCEPT ![x] = "leaked"]
               /\ cmdBuf' = [cmdBuf EXCEPT ![x] = "layer"]
      \/ /\ \/ queue' = queue /\ posted' = Append(posted, x)
            \/ queue' = Append(queue, x) /\ posted' = posted
         /\ stage' = [stage EXCEPT ![x] = "inside"]
         /\ cmdBuf' = [cmdBuf EXCEPT ![x] = "layer"]
  BY DEF Transmit, FreeUnsent, PostNow, QueueUp, LoopExists
<1>5. \A w : \A c \in Commands : c # x => cmdBuf'[c] = cmdBuf[c] /\ reply'[c] = reply[c]
  BY <1>1, <1>4
<1>6. Given' = Given
  <2>1. cmdBuf'[x] \in {"freed", "layer"}
    BY <1>1, <1>4
  <2>2. \A c \in Commands : (cmdBuf'[c] = "client") <=> (cmdBuf[c] = "client")
    BY <1>1, <1>5, <2>1
  <2>3. QED
    BY <1>1, <2>2 DEF Given, BuffersOf
<1>7. CASE /\ UNCHANGED <<queue, posted>> /\ life # "up"
           /\ stage' = [stage EXCEPT ![x] = "dropped"]
           /\ cmdBuf' = [cmdBuf EXCEPT ![x] = "freed"]
  <2>1. Freed' = Freed \cup {<<x, "command">>}
    <3>1. \A c \in Commands : (cmdBuf'[c] = "freed") <=> (cmdBuf[c] = "freed" \/ c = x)
      BY <1>1, <1>7
    <3>2. QED
      BY <1>1, <3>1 DEF Freed, BuffersOf
  <2>2. Answered' = Answered /\ Lost' = Lost \cup {x}
    BY <1>1, <1>7 DEF Answered, Lost
  <2>3. Asked' = Asked
    BY <1>7, AskedUnseen
  <2>4. Service!AskInVain(x)
    BY <1>1, <1>2, <1>3, <1>6, <1>7, <2>1, <2>2, <2>3
    DEF Service!AskInVain, Service!Idle, Asked, Held, Answered, Lost, Given, Freed
  <2>5. QED
    BY <2>4
<1>8. CASE /\ UNCHANGED <<queue, posted>> /\ life # "up"
           /\ stage' = [stage EXCEPT ![x] = "leaked"]
           /\ cmdBuf' = [cmdBuf EXCEPT ![x] = "layer"]
  <2>1. Freed' = Freed
    <3>1. \A c \in Commands : (cmdBuf'[c] = "freed") <=> (cmdBuf[c] = "freed")
      BY <1>1, <1>8
    <3>2. QED
      BY <1>1, <3>1 DEF Freed, BuffersOf
  <2>2. Answered' = Answered /\ Lost' = Lost \cup {x}
    BY <1>1, <1>8 DEF Answered, Lost
  <2>3. Asked' = Asked /\ Freed' = Freed \cup {}
    BY <1>8, <2>1, AskedUnseen
  <2>4. Service!AskInVain(x)
    BY <1>1, <1>2, <1>3, <1>6, <1>8, <2>2, <2>3
    DEF Service!AskInVain, Service!Idle, Asked, Held, Answered, Lost, Given, Freed
  <2>5. QED
    BY <2>4
<1>9. CASE /\ \/ queue' = queue /\ posted' = Append(posted, x)
              \/ queue' = Append(queue, x) /\ posted' = posted
           /\ stage' = [stage EXCEPT ![x] = "inside"]
           /\ cmdBuf' = [cmdBuf EXCEPT ![x] = "layer"]
  <2>1. Freed' = Freed
    <3>1. \A c \in Commands : (cmdBuf'[c] = "freed") <=> (cmdBuf[c] = "freed")
      BY <1>1, <1>9
    <3>2. QED
      BY <1>1, <3>1 DEF Freed, BuffersOf
  <2>2. Answered' = Answered /\ Lost' = Lost
    BY <1>1, <1>9 DEF Answered, Lost
  <2>3. Asked' = Asked \cup {x}
    <3>1. CASE queue' = queue /\ posted' = Append(posted, x)
      <4>1. \A c : In(posted', c) <=> In(posted, c) \/ c = x
        BY <1>1, <3>1, AppendMembers
      <4>2. QED
        BY <3>1, <4>1 DEF Asked
    <3>2. CASE queue' = Append(queue, x) /\ posted' = posted
      <4>1. \A c : In(queue', c) <=> In(queue, c) \/ c = x
        BY <1>1, <3>2, AppendMembers
      <4>2. QED
        BY <3>2, <4>1 DEF Asked
    <3>3. QED
      BY <1>9, <3>1, <3>2
  <2>4. Service!Ask(x)
    BY <1>1, <1>2, <1>3, <1>6, <2>1, <2>2, <2>3
    DEF Service!Ask, Service!Idle, Asked, Held, Answered, Lost, Given, Freed
  <2>5. QED
    BY <2>4
<1>10. QED
  BY <1>4, <1>7, <1>8, <1>9

(* One of the two buffers goes to whoever waits, or none.                   *)
LEMMA HandOffAnswers ==
  ASSUME TypeOK, ServiceInv, Places', HandOff
  PROVE  \E c \in Commands : Service!Answer(c)
<1>1. PICK x \in Commands : x = evt.entry
  BY DEF HandOff, TypeOK, EventStates
<1>2. /\ PlaceInv /\ stage \in [Commands -> Stages] /\ cmdBuf \in [Commands -> Owners]
      /\ reply \in [Commands -> Owners] /\ Kind[x] \in Kinds /\ evt.code \in EventCodes
      /\ evt.cmd = x /\ evt.pc = "rearmed" /\ evt'.pc = "handed"
      /\ UNCHANGED <<queue, posted, pending, life>>
  BY <1>1, FlowConstants
  DEF HandOff, TypeOK, EventStates, ServiceInv, EventInv
<1>3. InHands(x) /\ stage[x] = "inside" /\ ~In(queue, x) /\ ~In(posted, x) /\ ~In(pending, x)
  BY <1>2 DEF InHands, PlaceInv
<1>4. cmdBuf[x] = "layer" /\ reply[x] = "none"
  BY <1>3 DEF ServiceInv, BufferInv
<1>5. PacketHandedOver \/ CommandHandedOver \/ NobodyWaits
  BY <1>1, <1>2 DEF PacketHandedOver, CommandHandedOver, NobodyWaits,
                    StatusGivenToFuture, EventCodes, Kinds
<1>6. /\ stage' = [stage EXCEPT ![x] = "answered"]
      /\ reply' = IF PacketHandedOver THEN [reply EXCEPT ![x] = "client"] ELSE reply
      /\ cmdBuf' = IF CommandHandedOver THEN [cmdBuf EXCEPT ![x] = "client"] ELSE cmdBuf
  BY <1>1, <1>5 DEF HandOff
<1>7. ~(PacketHandedOver /\ CommandHandedOver)
  BY <1>1, <1>2 DEF PacketHandedOver, CommandHandedOver, StatusGivenToFuture
<1>8. Held' = Held \ {x} /\ x \in Held /\ x \notin Asked
  <2>1. \A c \in Commands : AtController(c)' <=> In(pending, c)' \/ InHands(c)'
    BY DEF Places, AtController, PlaceInv, OnWay, InHands
  <2>2. \A c \in Commands : /\ ~InHands(c)' /\ (In(pending, c)' <=> In(pending, c))
                            /\ InHands(c) <=> c = x
    BY <1>2 DEF InHands, In
  <2>3. QED
    BY <1>2, <1>3, <2>1, <2>2, HeldIsPendingOrInHands DEF Held, Asked
<1>9. Asked' = Asked /\ Lost' = Lost /\ Answered' = Answered \cup {x}
  <2>1. Asked' = Asked
    BY <1>2, AskedUnseen
  <2>2. QED
    BY <1>2, <1>3, <1>6, <2>1 DEF Answered, Lost
<1>10. Freed' = Freed
  <2>1. \A c \in Commands : /\ (cmdBuf'[c] = "freed") <=> (cmdBuf[c] = "freed")
                            /\ (reply'[c] = "freed") <=> (reply[c] = "freed")
    BY <1>2, <1>4, <1>6
  <2>2. QED
    BY <2>1 DEF Freed, BuffersOf
<1>11. Given' \in {Given, Given \cup {<<x, "command">>}, Given \cup {<<x, "answer">>}}
  <2>1. CASE PacketHandedOver
    <3>1. /\ cmdBuf' = cmdBuf
          /\ \A c \in Commands : (reply'[c] = "client") <=> (reply[c] = "client" \/ c = x)
      BY <1>2, <1>6, <1>7, <2>1
    <3>2. Given' = Given \cup {<<x, "answer">>}
      BY <3>1 DEF Given, BuffersOf
    <3>3. QED
      BY <3>2
  <2>2. CASE CommandHandedOver
    <3>1. /\ reply' = reply
          /\ \A c \in Commands : (cmdBuf'[c] = "client") <=> (cmdBuf[c] = "client" \/ c = x)
      BY <1>2, <1>6, <1>7, <2>2
    <3>2. Given' = Given \cup {<<x, "command">>}
      BY <3>1 DEF Given, BuffersOf
    <3>3. QED
      BY <3>2
  <2>3. CASE ~PacketHandedOver /\ ~CommandHandedOver
    BY <1>6, <2>3, BuffersUnseen
  <2>4. QED
    BY <2>1, <2>2, <2>3
<1>12. \E b \in {{}} \cup {{y} : y \in Service!Buffers(x)} : Given' = Given \cup b
  BY <1>11 DEF Service!Buffers
<1>13. Service!Answer(x)
  BY <1>2, <1>8, <1>9, <1>10, <1>12
  DEF Service!Answer, Asked, Held, Answered, Lost, Given, Freed
<1>14. QED
  BY <1>13

(* The layer frees the buffers the client was not given.                    *)
LEMMA InterceptedReclaims ==
  ASSUME TypeOK, ServiceInv, Intercepted
  PROVE  \E c \in Commands : Service!Reclaim(c)
<1>1. PICK x \in Commands : x = evt.entry
  BY DEF Intercepted, TypeOK, EventStates
<1>2. /\ cmdBuf \in [Commands -> Owners] /\ reply \in [Commands -> Owners]
      /\ Kind[x] \in Kinds /\ evt.code \in EventCodes
      /\ evt.cmd = x /\ evt.pc = "handed" /\ evt' = IdleEvent
      /\ UNCHANGED <<queue, posted, stage, life, ctl, chan>>
  BY <1>1, FlowConstants
  DEF Intercepted, TypeOK, EventStates, ServiceInv, EventInv, ctlVars
<1>3. /\ stage[x] = "answered"
      /\ cmdBuf[x] = IF CommandHandedOver THEN "client" ELSE "layer"
      /\ reply[x] = IF PacketHandedOver THEN "client" ELSE "none"
  BY <1>1, <1>2 DEF ServiceInv, BufferInv
<1>4. /\ LayerFreesPacket <=> ~PacketHandedOver
      /\ LayerFreesCommand <=> ~CommandHandedOver
  BY <1>1, <1>2
  DEF LayerFreesPacket, LayerFreesCommand, PacketHandedOver, CommandHandedOver,
      StatusGivenToFuture, EventCodes, Kinds
<1>5. /\ reply' = IF LayerFreesPacket THEN [reply EXCEPT ![x] = FreeBuffer(@)] ELSE reply
      /\ cmdBuf' = IF LayerFreesCommand THEN [cmdBuf EXCEPT ![x] = FreeBuffer(@)]
                                        ELSE cmdBuf
  BY <1>1 DEF Intercepted
<1>6. FreeBuffer("layer") = "freed" /\ FreeBuffer("none") = "freed"
  BY DEF FreeBuffer
<1>7. \A c \in Commands :
        /\ cmdBuf'[c] = IF c = x /\ ~CommandHandedOver THEN "freed" ELSE cmdBuf[c]
        /\ reply'[c] = IF c = x /\ ~PacketHandedOver THEN "freed" ELSE reply[c]
  BY <1>2, <1>3, <1>4, <1>5, <1>6
<1>8. Given' = Given
  <2>1. \A c \in Commands : /\ (cmdBuf'[c] = "client") <=> (cmdBuf[c] = "client")
                            /\ (reply'[c] = "client") <=> (reply[c] = "client")
    BY <1>3, <1>7
  <2>2. QED
    BY <2>1 DEF Given, BuffersOf
<1>9. Freed' = Freed \cup (Service!Buffers(x) \ Given)
  <2>1. \A c \in Commands :
          /\ (cmdBuf'[c] = "freed") <=>
               (cmdBuf[c] = "freed" \/ (c = x /\ cmdBuf[c] # "client"))
          /\ (reply'[c] = "freed") <=>
               (reply[c] = "freed" \/ (c = x /\ reply[c] # "client"))
    BY <1>3, <1>7
  <2>2. /\ <<x, "command">> \in Given <=> cmdBuf[x] = "client"
        /\ <<x, "answer">> \in Given <=> reply[x] = "client"
    BY BuffersMember DEF Given
  <2>3. QED
    BY <2>1, <2>2 DEF Freed, BuffersOf, Service!Buffers
<1>10. Held' = Held
  <2>1. \A c \in Commands : ~InHands(c) /\ ~InHands(c)'
    BY <1>2 DEF InHands, IdleEvent
  <2>2. QED
    BY <1>2, <2>1 DEF Held, AtController, InHands, In
<1>11. x \in Answered
  BY <1>3 DEF Answered
<1>12. Service!Reclaim(x)
  BY <1>2, <1>8, <1>9, <1>10, <1>11, StagesUnseen, AskedUnseen
  DEF Service!Reclaim, Asked, Held, Answered, Lost, Given, Freed
<1>13. QED
  BY <1>12

(* A client is done only when nobody still frees its buffers.               *)
LEMMA DoneIsSafe ==
  ASSUME TypeOK, ServiceInv, NEW x \in Commands, ClientDone(x)
  PROVE  Service!Done(x)
<1>1. /\ stage \in [Commands -> Stages] /\ cmdBuf \in [Commands -> Owners]
      /\ reply \in [Commands -> Owners]
      /\ stage[x] = "answered" /\ evt.entry # x
      /\ UNCHANGED <<queue, posted, evt, life, ctl, chan>>
  BY DEF ClientDone, TypeOK, hostVars, ctlVars
<1>2. /\ cmdBuf[x] \in {"client", "freed"} /\ reply[x] \in {"client", "freed"}
  BY <1>1 DEF ServiceInv, BufferInv
<1>3. /\ stage' = [stage EXCEPT ![x] = "idle"]
      /\ cmdBuf' = [cmdBuf EXCEPT ![x] = "none"]
      /\ reply' = [reply EXCEPT ![x] = "none"]
  BY DEF ClientDone
<1>4. x \in Answered /\ Service!Buffers(x) \subseteq Given \cup Freed
  <2>1. x \in Answered
    BY <1>1 DEF Answered
  <2>2. /\ <<x, "command">> \in Given \cup Freed
        /\ <<x, "answer">> \in Given \cup Freed
    BY <1>2, BuffersMember DEF Given, Freed
  <2>3. QED
    BY <2>1, <2>2 DEF Service!Buffers
<1>5. Answered' = Answered \ {x} /\ Lost' = Lost
  BY <1>1, <1>3 DEF Answered, Lost
<1>6. ASSUME NEW w \in {"client", "freed"}
      PROVE  BuffersOf(w)' = BuffersOf(w) \ Service!Buffers(x)
  <2>1. \A c \in Commands : /\ (cmdBuf'[c] = w) <=> (cmdBuf[c] = w /\ c # x)
                            /\ (reply'[c] = w) <=> (reply[c] = w /\ c # x)
    BY <1>1, <1>3, <1>6
  <2>2. QED
    BY <2>1 DEF BuffersOf, Service!Buffers
<1>7. /\ Given' = Given \ Service!Buffers(x)
      /\ Freed' = Freed \ Service!Buffers(x)
  BY <1>6 DEF Given, Freed
<1>8. Service!Done(x)
  BY <1>1, <1>4, <1>5, <1>7, AskedUnseen, HeldUnseen
  DEF Service!Done, Asked, Held, Answered, Lost, Given, Freed
<1>9. QED
  BY <1>8

(* The controller's answer to a command it has; a report with no command.   *)
LEMMA AnswerIsWork ==
  ASSUME TypeOK, ServiceInv, NEW x \in Commands,
         ControllerAnswers(x)
  PROVE  Service!Work
<1>1. UNCHANGED <<queue, posted, pending, stage, cmdBuf, reply, life, evt>>
  BY DEF ControllerAnswers, hostVars, bufVars
<1>2. Places'
  BY PlacesAtAnswer
<1>3. \A c \in Commands : In(pending, c)' \/ InHands(c)' <=> In(pending, c) \/ InHands(c)
  BY <1>1 DEF In, InHands
<1>4. Held' = Held
  BY <1>2, <1>3, HeldStays DEF ServiceInv
<1>5. QED
  BY <1>1, <1>4, WorkUnseen, BuffersUnseen, StagesUnseen, AskedUnseen

(* A report without a command.                                              *)
LEMMA NopIsWork ==
  ASSUME TypeOK, ServiceInv, ControllerNop
  PROVE  Service!Work
<1>1. UNCHANGED <<queue, posted, pending, stage, cmdBuf, reply, life, evt>>
  BY DEF ControllerNop, hostVars, bufVars
<1>2. Places'
  BY PlacesAtNop
<1>3. \A c \in Commands : In(pending, c)' \/ InHands(c)' <=> In(pending, c) \/ InHands(c)
  BY <1>1 DEF In, InHands
<1>4. Held' = Held
  BY <1>2, <1>3, HeldStays DEF ServiceInv
<1>5. QED
  BY <1>1, <1>4, WorkUnseen, BuffersUnseen, StagesUnseen, AskedUnseen

(* The timer is nothing the service sees.                                   *)
LEMMA RearmIsWork ==
  ASSUME TypeOK, ServiceInv, RearmTimer
  PROVE  Service!Work
<1>1. /\ UNCHANGED <<queue, posted, stage, cmdBuf, reply, life, ctl, chan>>
      /\ evt'.cmd = evt.cmd /\ evt.pc = "credited" /\ evt'.pc = "rearmed"
  BY DEF RearmTimer, bufVars, ctlVars, TypeOK, EventStates
<1>2. Held' = Held
  BY <1>1 DEF Held, AtController, In
<1>3. QED
  BY <1>1, <1>2, WorkUnseen, BuffersUnseen, StagesUnseen, AskedUnseen

(* The steps no command is part of.                                         *)
LEMMA ModuleSteps ==
  ASSUME UNCHANGED <<queue, posted, stage, cmdBuf, reply, ctl, chan, evt>>
  PROVE  /\ life' = life \/ (life # "up" /\ life' # "up") => Service!Work
         /\ life # "up" /\ life' = "up" => Service!Open
         /\ life = "up" /\ life' # "up" => Service!Close
<1>1. /\ Asked' = Asked /\ Held' = Held /\ Answered' = Answered /\ Lost' = Lost
      /\ Given' = Given /\ Freed' = Freed
  BY BuffersUnseen, StagesUnseen, AskedUnseen, HeldUnseen
<1>2. life' = life \/ (life # "up" /\ life' # "up") => (life = "up")' = (life = "up")
  OBVIOUS
<1>3. QED
  BY <1>1, <1>2, WorkUnseen
  DEF Service!Open, Service!Close, Asked, Held, Answered, Lost, Given, Freed

-----------------------------------------------------------------------------
(* Each step of the HCI layer is a step of the service, or unseen by it.    *)
LEMMA StepServes ==
  ASSUME ToldApart, TypeOK, ServiceInv, [Next]_vars
  PROVE  Service!Next
<1>1. Places'
  BY PlacesStep
<1>2. CASE EventCommandReady
  BY <1>1, <1>2, SendingTakes DEF Service!Next
<1>3. CASE EventArrives
  BY <1>1, <1>3, ArrivalIsWork DEF Service!Next
<1>4. CASE ProcessCommandCredits
  BY <1>1, <1>4, CreditsServe DEF Service!Next, Asked, Held
<1>5. CASE RearmTimer
  BY <1>5, RearmIsWork DEF Service!Next
<1>6. CASE HandOff
  BY <1>1, <1>6, HandOffAnswers DEF Service!Next
<1>7. CASE Intercepted
  BY <1>7, InterceptedReclaims DEF Service!Next
<1>8. CASE CloseHal
  BY <1>1, <1>8, CloseLoses DEF Service!Next, Asked, Held
<1>9. ASSUME NEW c \in Commands, Transmit(c) \/ ClientDone(c)
      PROVE  Service!Next
  BY <1>9, TransmitAsks, DoneIsSafe DEF Service!Next
<1>10. ASSUME NEW c \in Commands, ControllerAnswers(c) PROVE Service!Next
  BY <1>10, AnswerIsWork DEF Service!Next
<1>11. CASE ControllerNop
  BY <1>11, NopIsWork DEF Service!Next
<1>12. CASE StartUp \/ ShutDown \/ LoopExits \/ Tick \/ CommandTimedOut
              \/ HoldsMutexForCallback \/ UNCHANGED vars
  <2>1. UNCHANGED <<queue, posted, stage, cmdBuf, reply, ctl, chan, evt>>
    BY <1>12 DEF StartUp, ShutDown, LoopExits, Tick, CommandTimedOut,
                 HoldsMutexForCallback, vars, hostVars, bufVars, ctlVars
  <2>2. \/ life' = life \/ (life # "up" /\ life' # "up")
        \/ life # "up" /\ life' = "up"
        \/ life = "up" /\ life' # "up"
    OBVIOUS
  <2>3. QED
    BY <2>1, <2>2, ModuleSteps DEF Service!Next
<1>13. QED
  BY <1>2, <1>3, <1>4, <1>5, <1>6, <1>7, <1>8, <1>9, <1>10, <1>11, <1>12
  DEF Next, HciThread, CallbackThread, Exited

(* The HCI layer keeps the promise of CommandService: each command is taken *)
(* once and answered once, by its own answer, and no buffer is freed that a *)
(* client holds, however many commands, credits and sessions there are,     *)
(* also when many commands of one opcode are pending together; the improper *)
(* vendor answers get_waiting_command guesses at are ToldApart.             *)
THEOREM CommandsAreServed ==
  ASSUME ToldApart
  PROVE  Spec => ServesCommands
<1>1. Init => Service!Init
  BY DEF Init, Service!Init, AtController, BuffersOf, In, IdleEvent
<1>2. TypeOK /\ ServiceInv /\ [Next]_vars => [Service!Next]_(Service!serviceVars)
  BY StepServes
<1>3. QED
  BY <1>1, <1>2, ServiceInvHolds, TypeCorrect, PTL
  DEF Spec, ServesCommands, Service!Spec

=============================================================================
