--------------------------- MODULE HciCommandFlow ---------------------------
(***************************************************************************)
(* HCI command flow of the Bluetooth stack: system/bt/hci/src/hci_layer.cc.*)
(*                                                                         *)
(* Three threads of the host share one set of globals:                     *)
(*   - client threads send commands (transmit_command and its relatives),  *)
(*   - hci_thread runs the message loop whose tasks are event_command_ready*)
(*     and, at shut-down, the quit closure,                                *)
(*   - the HAL's callback thread delivers one controller event at a time   *)
(*     to hci_event_received / filter_incoming_event.                      *)
(* Each action is one critical section of one thread.  The controller is   *)
(* outside the repository; it answers every command with one event and     *)
(* reports in it how many more commands it will take.                      *)
(***************************************************************************)
EXTENDS Integers, Sequences, FiniteSets, SequencesExt

CONSTANTS
  Commands,       \* commands the clients send, each again and again
  NoCommand,      \* not a command: a NULL waiting_command_t*
  Opcode,         \* the opcode of each command
  VendorOpcodes,  \* the opcodes of the vendor specific group
  NopOpcode,      \* HCI_COMMAND_NONE
  Kind,           \* who waits for the answer of each command
  Slots,          \* commands the controller can hold unanswered
  MaxNops,        \* bound: unsolicited credit reports of the controller
  ImproperVsc,    \* controller may answer a vendor command with another
                  \* vendor opcode
  Timeout,        \* ticks of COMMAND_PENDING_TIMEOUT_MS
  MaxSessions,    \* bound: times hci_module_start_up is called
  MayShutDown     \* the module is shut down at some point

Kinds == {"future", "callback", "plain"}
Opcodes == {Opcode[c] : c \in Commands}

ASSUME FlowConstants ==
  /\ NoCommand \notin Commands
  /\ Opcode \in [Commands -> Opcodes]
  /\ NopOpcode \notin Opcodes \cup VendorOpcodes
  /\ Kind \in [Commands -> Kinds]
  /\ Slots \in Nat \ {0}
  /\ MaxNops \in Nat
  /\ ImproperVsc \in BOOLEAN
  /\ Timeout \in Nat \ {0}
  /\ MaxSessions \in Nat \ {0}
  /\ MayShutDown \in BOOLEAN

VARIABLES
  life,     \* "up": message_loop_ runs, "stopping": the quit task is posted,
            \* "stopped": message_loop_ is NULL, "down": shut_down has returned
  session,  \* number of the current start_up
  credits,  \* command_credits
  queue,    \* command_queue
  posted,   \* event_command_ready tasks in the message loop, quit not counted
  pending,  \* commands_pending_response
  timer,    \* command_response_timer: ticks left, none when its callback has
            \* been dispatched, or TimerOff, TimerNull, TimerHeld
  evt,      \* what the HAL callback thread is doing
  stage,    \* where each command's waiting_command_t is in its life
  cmdBuf,   \* owner of each command's BT_HDR
  reply,    \* owner of the event packet that answered each command
  aborted,  \* command_timed_out has called exit(0)
  ctl,      \* commands the controller holds unanswered
  chan,     \* events on their way to the host
  owed,     \* the controller reported less room than it had
  nops      \* unsolicited reports so far

hostVars == <<life, session, credits, queue, posted, pending, timer, evt>>
bufVars  == <<stage, cmdBuf, reply>>
ctlVars  == <<ctl, chan, owed, nops>>
vars     == <<hostVars, bufVars, aborted, ctlVars>>

TimerHeld == -3   \* its callback waits for commands_pending_response_mutex,
                  \* whose owner waits for the callback
TimerNull == -2   \* alarm_free'd
TimerOff  == -1   \* not set
Timers    == {TimerHeld, TimerNull, TimerOff} \cup 0..Timeout

(* commands_pending_response_mutex can be had, but for short moments.       *)
MutexFree == timer # TimerHeld

EventCodes == {"complete", "status"}
Reports == [code : EventCodes,
            opcode : Opcodes \cup VendorOpcodes \cup {NopOpcode},
            credits : 0..Slots, cmd : Commands \cup {NoCommand}]
EventPcs == {"idle", "matched", "credited", "rearmed", "handed"}
EventStates == [pc : EventPcs, code : EventCodes, credits : 0..Slots,
                cmd : Commands \cup {NoCommand},
                entry : Commands \cup {NoCommand}]
IdleEvent == [pc |-> "idle", code |-> "complete", credits |-> 0,
              cmd |-> NoCommand, entry |-> NoCommand]

In(s, c) == \E i \in DOMAIN s : s[i] = c

(* The message loop exists, as enqueue_command and process_command_credits  *)
(* test it under message_loop_mutex.                                        *)
LoopExists == life \in {"up", "stopping"}

Init ==
  /\ life = "down" /\ session = 0 /\ credits = 1
  /\ queue = <<>> /\ posted = <<>> /\ pending = <<>>
  /\ timer = TimerNull /\ evt = IdleEvent
  /\ stage  = [c \in Commands |-> "idle"]
  /\ cmdBuf = [c \in Commands |-> "none"]
  /\ reply  = [c \in Commands |-> "none"]
  /\ aborted = FALSE
  /\ ctl = <<>> /\ chan = <<>> /\ owed = FALSE /\ nops = 0

-----------------------------------------------------------------------------
(* Module life cycle (the start-up future and timer are in HciStartUp).     *)

(* hci_module_start_up: one credit, a new list and timer, the loop thread.  *)
(* command_queue is a static and is left as it was.                         *)
StartUp ==
  /\ ~aborted
  /\ life = "down" /\ session < MaxSessions
  /\ life' = "up" /\ session' = session + 1 /\ credits' = 1
  /\ pending' = <<>> /\ timer' = TimerOff
  /\ UNCHANGED <<aborted, queue, posted, evt, bufVars, ctlVars>>

(* hci_module_shut_down, first half: free the timers, post the quit task.   *)
(* alarm_free waits for a callback that has been dispatched.                *)
ShutDown ==
  /\ ~aborted /\ MutexFree /\ timer # 0
  /\ MayShutDown /\ life = "up"
  /\ life' = "stopping" /\ timer' = TimerNull
  /\ UNCHANGED <<aborted, session, credits, queue, posted, pending, evt>>
  /\ UNCHANGED <<bufVars, ctlVars>>

(* End of message_loop_run: the quit task has run and the loop is deleted.  *)
LoopExits ==
  /\ ~aborted
  /\ life = "stopping" /\ posted = <<>>
  /\ life' = "stopped"
  /\ UNCHANGED <<aborted, session, credits, queue, posted, pending, timer, evt>>
  /\ UNCHANGED <<bufVars, ctlVars>>

(* hci_module_shut_down, second half: thread joined, hci_close, list_free   *)
(* of a list made without a destructor: the entries in it are leaked.       *)
CloseHal ==
  /\ ~aborted
  /\ life = "stopped" /\ evt.pc = "idle"
  /\ life' = "down" /\ pending' = <<>>
  /\ ctl' = <<>> /\ chan' = <<>> /\ owed' = FALSE
  /\ stage' = [c \in Commands |->
                 IF In(pending, c) THEN "leaked" ELSE stage[c]]
  /\ UNCHANGED <<aborted, session, credits, queue, posted, timer, evt>>
  /\ UNCHANGED <<cmdBuf, reply, nops>>

-----------------------------------------------------------------------------
(* Sending.                                                                 *)

(* enqueue_command without a message loop: the command is freed, and the    *)
(* future already returned to the caller is left as it is.                  *)
FreeUnsent(c) ==
  /\ credits > 0 /\ ~LoopExists
  /\ stage' = [stage EXCEPT ![c] = "dropped"]
  /\ cmdBuf' = [cmdBuf EXCEPT ![c] = "freed"]
  /\ UNCHANGED <<credits, posted, queue>>

(* command_credits-- of enqueue_command.  Broken variant: forgotten.        *)
CreditKept == UNCHANGED credits
TakeCredit == credits' = credits - 1

(* enqueue_command with a credit.  A task posted behind the quit task is    *)
(* destroyed with the loop, and its entry is leaked.                        *)
PostNow(c) ==
  /\ credits > 0 /\ LoopExists
  /\ TakeCredit
  /\ cmdBuf' = [cmdBuf EXCEPT ![c] = "layer"]
  /\ \/ /\ life = "up"
        /\ posted' = Append(posted, c)
        /\ stage' = [stage EXCEPT ![c] = "inside"]
     \/ /\ life = "stopping"
        /\ UNCHANGED posted
        /\ stage' = [stage EXCEPT ![c] = "leaked"]
  /\ UNCHANGED queue

(* enqueue_command without a credit.                                        *)
QueueUp(c) ==
  /\ credits <= 0
  /\ queue' = Append(queue, c)
  /\ stage' = [stage EXCEPT ![c] = "inside"]
  /\ cmdBuf' = [cmdBuf EXCEPT ![c] = "layer"]
  /\ UNCHANGED <<credits, posted>>

(* transmit_command, transmit_command_futured and transmit_downward.        *)
Transmit(c) ==
  /\ ~aborted
  /\ stage[c] = "idle" /\ session > 0
  /\ reply' = [reply EXCEPT ![c] = "none"]
  /\ FreeUnsent(c) \/ PostNow(c) \/ QueueUp(c)
  /\ UNCHANGED <<aborted, life, session, pending, timer, evt, ctlVars>>

(* update_command_response_timer for the list p; to set the alarm again     *)
(* does not stop a callback that has been dispatched.  Broken variants: the *)
(* timer is not cancelled for an empty list; it is never set.               *)
TimerNeverCancelled(p) == IF timer \in {TimerNull, 0} THEN timer ELSE Timeout
TimerNeverSet(p) == IF timer \in {TimerNull, 0} THEN timer ELSE TimerOff
TimerFor(p) ==
  IF timer \in {TimerNull, 0} THEN timer
  ELSE IF p = <<>> THEN TimerOff ELSE Timeout

(* event_command_ready on hci_thread, with fragment_and_dispatch,           *)
(* transmit_fragment and the timer update, all under                        *)
(* commands_pending_response_mutex.                                         *)
EventCommandReady ==
  /\ ~aborted /\ MutexFree
  /\ LoopExists /\ posted # <<>>
  /\ posted' = Tail(posted)
  /\ pending' = Append(pending, Head(posted))
  /\ ctl' = Append(ctl, Head(posted))
  /\ timer' = TimerFor(pending')
  /\ UNCHANGED <<aborted, life, session, credits, queue, evt>>
  /\ UNCHANGED <<bufVars, chan, owed, nops>>

-----------------------------------------------------------------------------
(* Receiving: filter_incoming_event, section by section.                    *)

(* get_waiting_command: entry i of the pending list is the first with the   *)
(* opcode or, with none of that opcode and a vendor opcode, the first of    *)
(* the vendor group.  Broken variants: the last entry with the opcode; no   *)
(* second look for an improper vendor opcode.                               *)
IsLastWaitingFor(i, op) ==
  LET exact(k) == Opcode[pending[k]] = op
  IN exact(i) /\ \A j \in (i + 1)..Len(pending) : ~exact(j)
IsWaitingFor(i, op) ==
  LET exact(k)  == Opcode[pending[k]] = op
      vendor(k) == op \in VendorOpcodes /\ Opcode[pending[k]] \in VendorOpcodes
  IN \/ exact(i) /\ \A j \in 1..(i - 1) : ~exact(j)
     \/ /\ \A j \in DOMAIN pending : ~exact(j)
        /\ vendor(i) /\ \A j \in 1..(i - 1) : ~vendor(j)

(* hci_event_received and get_waiting_command, which takes the entry out.   *)
EventArrives ==
  /\ ~aborted /\ MutexFree
  /\ evt.pc = "idle" /\ chan # <<>> /\ life # "down"
  /\ chan' = Tail(chan)
  /\ LET e == Head(chan)
         matched(entry) == [pc |-> "matched", code |-> e.code,
                            credits |-> e.credits, cmd |-> e.cmd,
                            entry |-> entry]
     IN \/ \E i \in DOMAIN pending :
             /\ IsWaitingFor(i, e.opcode)
             /\ evt' = matched(pending[i])
             /\ pending' = RemoveAt(pending, i)
        \/ /\ \A i \in DOMAIN pending : ~IsWaitingFor(i, e.opcode)
           /\ evt' = matched(NoCommand)
           /\ UNCHANGED pending
  /\ UNCHANGED <<aborted, life, session, credits, queue, posted, timer>>
  /\ UNCHANGED <<bufVars, ctl, owed, nops>>

(* "Subtract commands in flight": the reported credits less the commands in *)
(* the pending list, and the number of queued commands they pay for.        *)
(* Broken variants: the loop stops one command early; the posted commands   *)
(* are not popped from command_queue.                                       *)
NetCredits == evt.credits - Len(pending)
PayableButOne == IF NetCredits <= 0 \/ Len(queue) <= 1 THEN 0
                 ELSE IF NetCredits < Len(queue) THEN NetCredits
                 ELSE Len(queue) - 1
Payable == IF NetCredits <= 0 THEN 0
           ELSE IF NetCredits < Len(queue) THEN NetCredits ELSE Len(queue)

QueueUnpopped == queue
QueueRest == SubSeq(queue, Payable + 1, Len(queue))

(* An event that matched no entry ends here, its packet freed.              *)
AfterCredits == IF evt.entry = NoCommand
                THEN IdleEvent ELSE [evt EXCEPT !.pc = "credited"]

(* process_command_credits: recompute the credits and post from the queue   *)
(* while they last.  With the quit task ahead of them the posted tasks are  *)
(* never run.                                                               *)
ProcessCommandCredits ==
  /\ ~aborted /\ MutexFree
  /\ evt.pc = "matched"
  /\ evt' = AfterCredits
  /\ \/ /\ LoopExists
        /\ credits' = NetCredits - Payable
        /\ queue' = QueueRest
        /\ LET sent == SubSeq(queue, 1, Payable)
           IN IF life = "up"
                THEN posted' = posted \o sent /\ UNCHANGED stage
                ELSE /\ UNCHANGED posted
                     /\ stage' = [c \in Commands |->
                          IF In(sent, c) THEN "leaked" ELSE stage[c]]
     \/ /\ ~LoopExists
        /\ UNCHANGED <<credits, queue, posted, stage>>
  /\ UNCHANGED <<aborted, life, session, pending, timer, cmdBuf, reply, ctlVars>>

(* update_command_response_timer on the callback thread.  alarm_cancel, for *)
(* an empty list, waits for a callback that has been dispatched.            *)
RearmTimer ==
  /\ ~aborted /\ MutexFree /\ (timer # 0 \/ pending # <<>>)
  /\ evt.pc = "credited"
  /\ evt' = [evt EXCEPT !.pc = "rearmed"]
  /\ timer' = TimerFor(pending)
  /\ UNCHANGED <<aborted, life, session, credits, queue, posted, pending>>
  /\ UNCHANGED <<bufVars, ctlVars>>

(* A Command Status for a futured command: the A1000 fix gives the packet   *)
(* to the future.  Broken variant: the code before that fix.                *)
StatusThrownAway == FALSE
StatusGivenToFuture == evt.code = "status" /\ Kind[evt.entry] = "future"

(* Someone gets the event: a complete callback or the future the packet, a  *)
(* status callback the status and the command.                              *)
PacketHandedOver ==
  StatusGivenToFuture \/ (evt.code = "complete" /\ Kind[evt.entry] # "plain")
CommandHandedOver == evt.code = "status" /\ Kind[evt.entry] = "callback"
NobodyWaits == Kind[evt.entry] = "plain"

(* The callback is called or the future made ready, outside every lock.     *)
HandOff ==
  /\ ~aborted
  /\ evt.pc = "rearmed"
  /\ evt' = [evt EXCEPT !.pc = "handed"]
  /\ LET c == evt.entry
         give(owner, given) ==
           IF given THEN [owner EXCEPT ![c] = "client"] ELSE owner
     IN /\ stage' = IF PacketHandedOver \/ CommandHandedOver \/ NobodyWaits
                    THEN [stage EXCEPT ![c] = "answered"] ELSE stage
        /\ reply' = give(reply, PacketHandedOver)
        /\ cmdBuf' = give(cmdBuf, CommandHandedOver)
  /\ UNCHANGED <<aborted, life, session, credits, queue, posted, pending, timer>>
  /\ UNCHANGED ctlVars

(* buffer_allocator->free by the layer of a buffer that someone else owns,  *)
(* or that was freed before, leaves it in use after its end.                *)
FreeBuffer(owner) ==
  IF owner \in {"client", "freed"} THEN "misused" ELSE "freed"

(* The two conditions under the intercepted: label.  Broken variants: every *)
(* status packet is freed, also the one a future owns; the command is freed *)
(* also when the status callback took it.                                   *)
LayerFreesEveryStatus == evt.code = "status" \/ Kind[evt.entry] = "plain"
LayerFreesEveryCommand == TRUE
LayerFreesPacket ==
  (evt.code = "status" /\ ~StatusGivenToFuture) \/ Kind[evt.entry] = "plain"
LayerFreesCommand == evt.code = "complete" \/ Kind[evt.entry] # "callback"

(* The intercepted: label, and osi_free of the entry.                       *)
Intercepted ==
  /\ ~aborted
  /\ evt.pc = "handed"
  /\ evt' = IdleEvent
  /\ LET c == evt.entry
         free(owner, mine) ==
           IF mine THEN [owner EXCEPT ![c] = FreeBuffer(@)] ELSE owner
     IN /\ reply' = free(reply, LayerFreesPacket)
        /\ cmdBuf' = free(cmdBuf, LayerFreesCommand)
  /\ UNCHANGED <<aborted, life, session, credits, queue, posted, pending, timer>>
  /\ UNCHANGED <<stage, ctlVars>>

(* The client has used the answer and may send the command again.           *)
ClientDone(c) ==
  /\ ~aborted
  /\ stage[c] = "answered" /\ evt.entry # c
  /\ stage' = [stage EXCEPT ![c] = "idle"]
  /\ cmdBuf' = [cmdBuf EXCEPT ![c] = "none"]
  /\ reply' = [reply EXCEPT ![c] = "none"]
  /\ UNCHANGED <<aborted, hostVars, ctlVars>>

-----------------------------------------------------------------------------
(* The command response timer.                                              *)

Tick ==
  /\ ~aborted
  /\ timer > 0
  /\ timer' = timer - 1
  /\ UNCHANGED <<aborted, life, session, credits, queue, posted, pending, evt>>
  /\ UNCHANGED <<bufVars, ctlVars>>

(* update_command_response_timer or hci_module_shut_down, whichever is to   *)
(* end the timer, takes commands_pending_response_mutex before the callback *)
(* that has been dispatched, and waits for the callback while it holds it.  *)
HoldsMutexForCallback ==
  /\ ~aborted /\ timer = 0
  /\ \/ evt.pc = "credited" /\ pending = <<>>
     \/ MayShutDown /\ life = "up"
  /\ timer' = TimerHeld
  /\ UNCHANGED <<aborted, life, session, credits, queue, posted, pending, evt>>
  /\ UNCHANGED <<bufVars, ctlVars>>

(* command_timed_out: log, ask for a firmware dump, exit(0).                *)
CommandTimedOut ==
  /\ ~aborted /\ timer = 0
  /\ aborted' = TRUE
  /\ UNCHANGED <<hostVars, bufVars, ctlVars>>

-----------------------------------------------------------------------------
(* The controller (outside the repository).                                 *)

Room == IF Len(ctl') < Slots THEN Slots - Len(ctl') ELSE 0

(* The controller answers a command, older ones of the same opcode first,   *)
(* and reports its room or, being busy, none.                               *)
ControllerAnswers(c) ==
  \E i \in DOMAIN ctl, code \in EventCodes :
    \E op \in {Opcode[c]} \cup
             {v \in VendorOpcodes :
                ImproperVsc /\ Opcode[c] \in VendorOpcodes} :
      /\ ~aborted
      /\ ctl[i] = c
      /\ \A j \in 1..(i - 1) : Opcode[ctl[j]] # Opcode[c]
      /\ ctl' = RemoveAt(ctl, i)
      /\ \E n \in {0, Room} :
           /\ chan' = Append(chan, [code |-> code, opcode |-> op,
                                    credits |-> n, cmd |-> c])
           /\ owed' = (n < Room)
      /\ UNCHANGED <<aborted, hostVars, bufVars, nops>>

(* A Command Complete with no opcode that reports the room: to make up for  *)
(* an answer that reported none, or (MaxNops times) unasked.                *)
ControllerNop ==
  /\ ~aborted
  /\ owed \/ nops < MaxNops
  /\ LoopExists
  /\ nops' = IF owed THEN nops ELSE nops + 1
  /\ owed' = FALSE
  /\ ctl' = ctl
  /\ chan' = Append(chan, [code |-> "complete", opcode |-> NopOpcode,
                           credits |-> Room, cmd |-> NoCommand])
  /\ UNCHANGED <<aborted, hostVars, bufVars>>

-----------------------------------------------------------------------------
HciThread == EventCommandReady \/ LoopExits
CallbackThread ==
  EventArrives \/ ProcessCommandCredits \/ RearmTimer \/ HandOff \/ Intercepted

(* The process has exited or hangs, or the last session is over.            *)
Exited ==
  /\ aborted \/ ~MutexFree \/ (life = "down" /\ session = MaxSessions)
  /\ UNCHANGED vars

Next ==
  \/ StartUp \/ ShutDown \/ CloseHal
  \/ HciThread \/ CallbackThread
  \/ \E c \in Commands : Transmit(c) \/ ClientDone(c) \/ ControllerAnswers(c)
  \/ ControllerNop
  \/ Tick \/ CommandTimedOut \/ HoldsMutexForCallback
  \/ Exited

Spec == Init /\ [][Next]_vars

(* Every host thread runs when it can; time passes; a set timer goes off.   *)
HostFairness ==
  /\ WF_vars(HciThread)
  /\ WF_vars(CallbackThread)
  /\ WF_vars(Tick)
  /\ WF_vars(CommandTimedOut)

(* The controller answers every command and pays the credits it owes.       *)
ControllerFairness ==
  /\ \A c \in Commands : WF_vars(ControllerAnswers(c))
  /\ WF_vars(owed /\ ControllerNop)

HostFairSpec == Spec /\ HostFairness

-----------------------------------------------------------------------------
(* Properties.                                                              *)

Stages == {"idle", "inside", "answered", "dropped", "leaked"}
Owners == {"none", "layer", "client", "freed", "misused"}

(* Every variable has its type.                                             *)
TypeOK ==
  /\ life \in {"up", "stopping", "stopped", "down"}
  /\ session \in 0..MaxSessions
  /\ credits \in Int
  /\ queue \in Seq(Commands) /\ posted \in Seq(Commands)
  /\ pending \in Seq(Commands)
  /\ timer \in Timers
  /\ evt \in EventStates
  /\ evt.entry = NoCommand => evt.pc \in {"idle", "matched"}
  /\ stage \in [Commands -> Stages]
  /\ cmdBuf \in [Commands -> Owners] /\ reply \in [Commands -> Owners]
  /\ aborted \in BOOLEAN
  /\ ctl \in Seq(Commands) /\ chan \in Seq(Reports)
  /\ owed \in BOOLEAN /\ nops \in 0..MaxNops

(* Command flow control: the controller never holds more commands than it   *)
(* has room for (hci_layer.cc, "Subtract commands in flight").              *)
NoOverrun == Len(ctl) <= Slots

(* The promise of CommandService, with the controller's view of who is      *)
(* answered: no command is sent or answered twice, takes another's answer,  *)
(* is forgotten while the layer is up, or has a buffer freed that a client  *)
(* holds, whichever thread moves it.                                        *)
AtController(c) ==
  \/ In(ctl, c) \/ \E i \in DOMAIN chan : chan[i].cmd = c
  \/ evt.cmd = c /\ evt.pc \in {"matched", "credited", "rearmed"}

BuffersOf(owner) ==
  {<<c, "command">> : c \in {d \in Commands : cmdBuf[d] = owner}}
    \cup {<<c, "answer">> : c \in {d \in Commands : reply[d] = owner}}

Service == INSTANCE CommandService WITH
  Clients  <- Commands,
  open     <- life = "up",
  asked    <- {c \in Commands : In(posted, c) \/ In(queue, c)},
  held     <- {c \in Commands : AtController(c)},
  answered <- {c \in Commands : stage[c] = "answered"},
  lost     <- {c \in Commands : stage[c] \in {"dropped", "leaked"}},
  given    <- BuffersOf("client"),
  freed    <- BuffersOf("freed")

ServesCommands == Service!Spec

(* Commands leave in the order they were given: while commands wait in the  *)
(* queue no credit is free for a later one to overtake them.  A second      *)
(* session inherits the queue of the first and starts with a credit.        *)
NoOvertaking == session <= 1 /\ queue # <<>> => credits <= 0

(* With the callback thread at rest the response timer is set exactly when  *)
(* a command is pending: no command goes unwatched, and the process is      *)
(* never ended for commands that have all been answered and handled.        *)
TimerTracksPending ==
  life = "up" /\ evt.pc \in {"idle", "rearmed", "handed"} =>
    ((timer = TimerOff) <=> (pending = <<>>))

(* A client that awaits a future is woken, by Command Complete or Command   *)
(* Status, or the process is restarted (the A1000 comment in                *)
(* filter_incoming_event: the upstream code left future_await hanging).     *)
(* Left out is the wait of two threads for each other when the answer comes *)
(* as the response timer goes off (TimerHeld).                              *)
FutureAnswered ==
  ControllerFairness =>
    \A c \in Commands :
      (Kind[c] = "future" /\ stage[c] = "inside")
        ~> (stage[c] = "answered" \/ aborted \/ ~MutexFree)

(* A command the controller does not answer ends the process: "Abort if     *)
(* there is no response to an HCI command."                                 *)
UnansweredCommandAborts ==
  \A c \in Commands :
    In(pending, c) ~> (~In(pending, c) \/ aborted \/ life # "up")
=============================================================================
