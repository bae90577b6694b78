----------------------------- MODULE HciStartUp -----------------------------
(***************************************************************************)
(* Start-up and shut-down of the HCI module:                               *)
(* system/bt/hci/src/hci_layer.cc, hci_module_start_up, message_loop_run,  *)
(* initialization_complete, event_finish_startup, startup_timer_expired,   *)
(* hci_module_shut_down and the path of data packets through them.         *)
(*                                                                         *)
(* Five threads take part: the stack thread that starts and stops the      *)
(* module and awaits startup_future, hci_thread with its message loop, the *)
(* HAL's callback thread, the alarm thread with startup_timer, and clients *)
(* that send packets.  The HAL and the alarms are outside the repository.  *)
(***************************************************************************)
EXTENDS Integers, Sequences

CONSTANTS
  MaxSessions,    \* bound: calls of hci_module_start_up
  MaxPackets,     \* bound: packets in the message loop at a time
  AllocationFails \* alarm_new, thread_new or list_new may return NULL

(* What is assumed of them.                                                 *)
StartUpConstants ==
  /\ MaxSessions \in Nat \ {0} /\ MaxPackets \in Nat
  /\ AllocationFails \in BOOLEAN

VARIABLES
  stack,    \* the stack thread: "down", "awaiting" the future, "up", and the
            \* places of hci_module_shut_down
  session,  \* calls of hci_module_start_up so far
  thread,   \* hci_thread: "none", "fresh", "created" the loop, "running", "ended"
  loop,     \* message_loop_ # NULL
  tasks,    \* tasks posted to the loop and not run
  timer,    \* startup_timer: "null", "set", "fired" (its callback has been
            \* dispatched and waits for commands_pending_response_mutex), "off",
            \* "held" (it waits for the mutex of a thread that waits for it)
  future,   \* startup_future # NULL
  result,   \* what the future handed to the stack thread was made ready with
  readied,  \* how often it was made ready
  hal,      \* the Bluetooth HAL: "closed", "initializing", "open"
  sentTo,   \* states the HAL was in when packets were sent to it
  crash     \* why the process crashed, "no" if it did not

stackVars == <<stack, session>>
loopVars  == <<thread, loop, tasks>>
waitVars  == <<timer, future, result, readied>>
halVars   == <<hal, sentTo>>
vars      == <<stackVars, loopVars, waitVars, halVars, crash>>

Packets == Len(SelectSeq(tasks, LAMBDA t : t = "packet"))

Init ==
  /\ stack = "down" /\ session = 0
  /\ thread = "none" /\ loop = FALSE /\ tasks = <<>>
  /\ timer = "null" /\ future = FALSE /\ result = "none" /\ readied = 0
  /\ hal = "closed" /\ sentTo = {} /\ crash = "no"

-----------------------------------------------------------------------------
(* The stack thread.                                                        *)

(* alarm_set(startup_timer, ...) in hci_module_start_up.                    *)
(* Broken variant: the timer is made and never set.                         *)
TimerUnset == timer' = "off"
SetStartupTimer == timer' = "set"

(* hci_module_start_up: timers, thread, list and future are made, the       *)
(* start-up timer set and message_loop_run posted to the new thread.        *)
StartUp ==
  /\ crash = "no" /\ stack = "down" /\ session < MaxSessions
  /\ stack' = "awaiting" /\ session' = session + 1
  /\ thread' = "fresh"
  /\ SetStartupTimer /\ future' = TRUE /\ result' = "none" /\ readied' = 0
  /\ UNCHANGED <<loop, tasks, halVars, crash>>

(* The error: label of hci_module_start_up: hci_module_shut_down is called  *)
(* and posts the quit closure through message_loop_, which is NULL.         *)
StartUpError ==
  /\ AllocationFails
  /\ crash = "no" /\ stack = "down" /\ session < MaxSessions
  /\ session' = session + 1
  /\ crash' = "start_up error"
  /\ UNCHANGED <<stack, loopVars, waitVars, halVars>>

(* future_await returns; without success the stack shuts the module down.   *)
Awaited ==
  /\ crash = "no" /\ stack = "awaiting" /\ result # "none"
  /\ stack' = IF result = "success" THEN "up" ELSE "stop"
  /\ UNCHANGED <<session, loopVars, waitVars, halVars, crash>>

Stop ==
  /\ crash = "no" /\ stack = "up"
  /\ stack' = "stop"
  /\ UNCHANGED <<session, loopVars, waitVars, halVars, crash>>

(* alarm_free(startup_timer) and startup_timer = NULL.                      *)
NoTimer == "null"

(* alarm_free and alarm_cancel wait for a callback that has been dispatched. *)
CallbackOver == timer \notin {"fired", "held"}

(* hci_module_shut_down: alarm_free of the timers.                          *)
FreeTimers ==
  /\ crash = "no" /\ stack = "stop" /\ CallbackOver
  /\ stack' = "quit" /\ timer' = NoTimer
  /\ UNCHANGED <<session, loopVars, future, result, readied, halVars, crash>>

QuitPosted == Append(tasks, "quit")

(* The quit closure is posted, under message_loop_mutex.                    *)
PostQuit ==
  /\ crash = "no" /\ stack = "quit"
  /\ stack' = "join"
  /\ IF loop THEN tasks' = QuitPosted /\ UNCHANGED crash
             ELSE crash' = "quit without loop" /\ UNCHANGED tasks
  /\ UNCHANGED <<session, thread, loop, waitVars, halVars>>

(* thread_stop and thread_join.                                             *)
(* Broken variant: the thread is stopped and not joined.                    *)
Unjoined == TRUE
Joined == thread = "ended"

JoinThread ==
  /\ crash = "no" /\ stack = "join" /\ Joined
  /\ stack' = "close" /\ thread' = IF thread = "ended" THEN "none" ELSE thread
  /\ UNCHANGED <<session, loop, tasks, waitVars, halVars, crash>>

(* hci_close, list_free, fragmenter clean-up, thread_free.                  *)
CloseHal ==
  /\ crash = "no" /\ stack = "close"
  /\ stack' = "down" /\ hal' = "closed"
  /\ UNCHANGED <<session, loopVars, waitVars, sentTo, crash>>

-----------------------------------------------------------------------------
(* hci_thread.                                                              *)

(* message_loop_run creates the loop under the mutex, then posts            *)
(* hci_initialize without it.                                               *)
CreateLoop ==
  /\ crash = "no" /\ thread = "fresh"
  /\ thread' = "created" /\ loop' = TRUE /\ tasks' = <<>>
  /\ UNCHANGED <<stackVars, waitVars, halVars, crash>>

PostInitialize ==
  /\ crash = "no" /\ thread = "created"
  /\ thread' = "running" /\ tasks' = Append(tasks, "initialize")
  /\ UNCHANGED <<stackVars, loop, waitVars, halVars, crash>>

RunsTask(t) ==
  /\ crash = "no" /\ thread = "running" /\ tasks # <<>> /\ Head(tasks) = t
  /\ UNCHANGED stackVars

(* hci_initialize (external) asks the HAL to initialize.                    *)
Initialize ==
  /\ RunsTask("initialize")
  /\ tasks' = Tail(tasks) /\ hal' = "initializing"
  /\ UNCHANGED <<thread, loop, waitVars, sentTo, crash>>

(* future_ready aborts on a NULL future; startup_future is a global that is *)
(* cleared, under commands_pending_response_mutex, once it was made ready.  *)
FutureCleared == FALSE
MakeReady(value) ==
  IF future
    THEN /\ future' = FutureCleared
         /\ result' = value /\ readied' = readied + 1
         /\ UNCHANGED crash
    ELSE /\ crash' = "future_ready(NULL)"
         /\ UNCHANGED <<future, result, readied>>

(* event_finish_startup: cancel the timer, make the future ready.           *)
FinishStartup ==
  /\ RunsTask("finish") /\ CallbackOver
  /\ tasks' = Tail(tasks)
  /\ timer' = IF timer = "set" THEN "off" ELSE timer
  /\ MakeReady("success")
  /\ UNCHANGED <<thread, loop, halVars>>

(* event_packet_ready, fragment_and_dispatch and transmit_fragment.         *)
SendPacket ==
  /\ RunsTask("packet")
  /\ tasks' = Tail(tasks)
  /\ sentTo' = sentTo \cup {hal}
  /\ UNCHANGED <<thread, loop, waitVars, hal, crash>>

(* delete message_loop_ and message_loop_ = nullptr.                        *)
LoopAfterRun == FALSE

(* The quit closure, and the deletion of the loop with what is left in it.  *)
QuitLoop ==
  /\ RunsTask("quit")
  /\ thread' = "ended" /\ loop' = LoopAfterRun /\ tasks' = <<>>
  /\ UNCHANGED <<waitVars, halVars, crash>>

-----------------------------------------------------------------------------
(* The other threads.                                                       *)

(* initialization_complete on the HAL's callback thread: no test of         *)
(* message_loop_ before it is used.                                         *)
InitializationComplete ==
  /\ crash = "no" /\ hal = "initializing"
  /\ hal' = "open"
  /\ IF loop THEN tasks' = Append(tasks, "finish") /\ UNCHANGED crash
             ELSE crash' = "initialized without loop" /\ UNCHANGED tasks
  /\ UNCHANGED <<stackVars, thread, loop, waitVars, sentTo>>

(* The start-up timer goes off; its callback takes the mutex later.         *)
TimerGoesOff ==
  /\ crash = "no" /\ timer = "set"
  /\ timer' = "fired"
  /\ UNCHANGED <<stackVars, loopVars, future, result, readied, halVars, crash>>

(* startup_timer_expired.                                                   *)
StartupTimerExpired ==
  /\ crash = "no" /\ timer = "fired"
  /\ timer' = "off"
  /\ MakeReady("fail")
  /\ UNCHANGED <<stackVars, loopVars, halVars>>

(* hci_module_shut_down or event_finish_startup, whichever is to end the     *)
(* timer, takes commands_pending_response_mutex before the callback that    *)
(* has been dispatched, and waits for the callback while it holds it.       *)
HoldsMutexForCallback ==
  /\ crash = "no" /\ timer = "fired"
  /\ \/ stack = "stop"
     \/ thread = "running" /\ tasks # <<>> /\ Head(tasks) = "finish"
  /\ timer' = "held"
  /\ UNCHANGED <<stackVars, loopVars, future, result, readied, halVars, crash>>

(* enqueue_packet of a client of the running stack: freed without a loop.   *)
EnqueuePacket ==
  /\ crash = "no" /\ stack \in {"up", "stop", "quit", "join", "close"}
  /\ result = "success" /\ loop /\ Packets < MaxPackets
  /\ tasks' = Append(tasks, "packet")
  /\ UNCHANGED <<stackVars, thread, loop, waitVars, halVars, crash>>

-----------------------------------------------------------------------------
StackThread == Awaited \/ FreeTimers \/ PostQuit \/ JoinThread \/ CloseHal
HciThread == \/ CreateLoop \/ PostInitialize \/ Initialize \/ FinishStartup
             \/ SendPacket \/ QuitLoop
AlarmThread == TimerGoesOff \/ StartupTimerExpired

(* The process has crashed or hangs, or the last session is over.           *)
Ended ==
  /\ \/ crash # "no" \/ timer = "held"
     \/ stack = "down" /\ session = MaxSessions
  /\ UNCHANGED vars

Next ==
  \/ StartUp \/ StartUpError \/ Stop
  \/ StackThread \/ HciThread \/ AlarmThread \/ HoldsMutexForCallback
  \/ InitializationComplete \/ EnqueuePacket
  \/ Ended

Spec == Init /\ [][Next]_vars

(* Threads run when they can; the HAL need not answer, nor the stack stop.  *)
FairSpec ==
  Spec /\ WF_vars(StackThread) /\ WF_vars(HciThread) /\ WF_vars(AlarmThread)

-----------------------------------------------------------------------------
(* Properties.                                                              *)

TypeOK ==
  /\ stack \in {"down", "awaiting", "up", "stop", "quit", "join", "close"}
  /\ session \in 0..MaxSessions
  /\ thread \in {"none", "fresh", "created", "running", "ended"}
  /\ loop \in BOOLEAN
  /\ tasks \in Seq({"initialize", "finish", "packet", "quit"})
  /\ timer \in {"null", "set", "fired", "held", "off"}
  /\ future \in BOOLEAN /\ result \in {"none", "success", "fail"}
  /\ readied \in Nat
  /\ hal \in {"closed", "initializing", "open"}
  /\ sentTo \subseteq {"closed", "initializing", "open"}
  /\ crash \in {"no", "start_up error", "quit without loop",
                "future_ready(NULL)", "initialized without loop"}

(* The future that start_up returned is made ready at most once, though the *)
(* HAL's answer and the start-up timer race for it.                         *)
ReadiedOnce == readied <= 1

(* "Stop the thread to prevent Send() calls": packets reach the HAL only    *)
(* while it is open, never after hci_close or before its initialization,    *)
(* although clients go on sending while the module is shut down.            *)
SendsOnlyToOpenHal == sentTo \subseteq {"open"}

(* Who waits, though not for ever (MCBluetooth): whoever awaits the         *)
(* start-up future, also of a HAL that never answers, and whoever shuts the *)
(* module down, whatever clients and the HAL do meanwhile.  Left out is the *)
(* wait of two threads for each other that StartUpIsBounded is about.       *)
StartUpAwaits ==
  /\ crash = "no" /\ timer # "held"
  /\ \/ stack = "awaiting" /\ result = "none"
     \/ stack \in {"stop", "quit", "join", "close"}

(* "Make sure we run in a bounded amount of time": who awaits the start-up  *)
(* future learns of the HAL's answer or, at the latest, of the timer.       *)
StartUpIsBounded == stack = "awaiting" ~> (stack # "awaiting" \/ crash # "no")

(* "Close HCI to prevent callbacks": no callback of the HAL uses the loop   *)
(* that a shut-down has taken away.                                         *)
NoCallbackAfterLoop == crash # "initialized without loop"
=============================================================================
