----------------------------- MODULE RilService -----------------------------
(***************************************************************************)
(* The radio service of one SIM slot: hardware/ril/libril/ril_service.cpp. *)
(*                                                                         *)
(* The phone process registers its callbacks (setResponseFunctions) and    *)
(* asks for things by oneway calls, which one RPC thread of rild takes in  *)
(* turn.  A request goes to the vendor's RIL or, when an allocation fails  *)
(* or the vendor is too old for it, is answered by the RPC thread itself   *)
(* (sendErrorResponse).  Answers and indications of the vendor are told by *)
(* a thread of its own.  radioServiceRwlock guards the callbacks: ril.cpp  *)
(* (outside the repository) takes it for reading around every answer and   *)
(* indication of the vendor, and a thread whose call of the client fails   *)
(* lets go of it to reset the callbacks (checkReturnStatus).               *)
(*                                                                         *)
(* The phone process may die and come back, with calls of its on their way *)
(* and requests of its with the vendor.  Serials are told apart over all   *)
(* sessions; a real client starts again from its first one.                *)
(***************************************************************************)
EXTENDS RilRequests, Sequences, FiniteSets

CONSTANTS
  Settings,    \* what a behavior exercises, see setting
  MaxSessions, \* bound: starts of the phone process
  MaxCalls     \* bound: its calls; a setting may have a lower one

VARIABLES
  setting,   \* [version: of the vendor's RIL, 10 on this phone; mortal: the
             \* phone process may die; refuses: the service may answer by
             \* itself; versions: of the client's interfaces (TRUE is 1.1);
             \* asks: methods it may call; calls, news: bounds of calls and
             \* indications; tells: indications; payloads]
  phone,     \* the phone process: [session, alive, v11]
  inbox,     \* its oneway calls that the RPC thread has not taken
  client,    \* mRadioResponse and mRadioIndication: the session they are of,
             \* 0 for NULL, and whether the 1.1 pointers are set
  counter,   \* mCounterRadio
  readers,   \* holds of radioServiceRwlock for reading
  thread,    \* the place and the work of each thread
  requests,  \* serials the vendor's RIL has and has not answered
  asked,     \* method and session of each serial
  told,      \* what clients were told for each serial, in order
  news,      \* indications so far
  crash      \* a NULL callback was called

serviceVars == <<client, counter, readers, thread, requests>>
phoneVars   == <<phone, inbox, asked>>
vars == <<setting, phoneVars, serviceVars, told, news, crash>>

Threads == {"rpc", "modem"}
NoClient == [session |-> 0, v11 |-> FALSE]
NoWork == [tells |-> "none", serial |-> 0, error |-> "none",
           payload |-> "absent"]
Resting == [at |-> "rest", work |-> NoWork, locked |-> FALSE, noted |-> 0]

Serials == 1..Len(asked)
Current == IF phone.alive THEN phone.session ELSE 0

Init ==
  /\ setting \in Settings
  /\ phone = [session |-> 0, alive |-> FALSE, v11 |-> FALSE]
  /\ inbox = <<>> /\ asked = <<>> /\ told = <<>>
  /\ client = NoClient /\ counter = 0 /\ readers = 0
  /\ thread = [t \in Threads |-> Resting]
  /\ requests = {} /\ news = 0 /\ crash = FALSE

-----------------------------------------------------------------------------
(* The phone process.                                                       *)

(* It starts and, before anything else, registers its callbacks.            *)
PhoneStarts ==
  /\ ~phone.alive /\ phone.session < MaxSessions
  /\ \E v11 \in setting.versions :
       phone' = [session |-> phone.session + 1, alive |-> TRUE, v11 |-> v11]
  /\ inbox' = Append(inbox, [method |-> "setResponseFunctions", serial |-> 0,
                             session |-> phone'.session, v11 |-> phone'.v11])
  /\ UNCHANGED <<setting, asked, serviceVars, told, news, crash>>

PhoneDies ==
  /\ setting.mortal /\ phone.alive
  /\ phone' = [phone EXCEPT !.alive = FALSE]
  /\ UNCHANGED <<setting, inbox, asked, serviceVars, told, news, crash>>

Ask(m) ==
  /\ phone.alive /\ Len(asked) < setting.calls
  /\ m \in Methods11 => phone.v11
  /\ asked' = Append(asked, [method |-> m, session |-> phone.session])
  /\ told' = Append(told, <<>>)
  /\ inbox' = Append(inbox, [method |-> m, serial |-> Len(asked'),
                             session |-> phone.session, v11 |-> phone.v11])
  /\ UNCHANGED <<setting, phone, serviceVars, news, crash>>

-----------------------------------------------------------------------------
(* The RPC thread takes a call.                                             *)

Goes(t, place) == thread' = [thread EXCEPT ![t].at = place]
Begins(t, place, locked, work) ==
  thread' = [thread EXCEPT ![t] =
               [at |-> place, work |-> work, locked |-> locked, noted |-> 0]]

TakesCall ==
  /\ ~crash /\ thread["rpc"].at = "rest" /\ inbox # <<>>
  /\ inbox' = Tail(inbox)
  /\ UNCHANGED <<setting, phone, asked, told, news, crash>>

(* A callback is of the 1.1 interface if it says so; a dead one is not.     *)
CastTo11(call) == call.v11 /\ Current = call.session

(* RadioImpl::setResponseFunctions, all under the write lock; then          *)
(* onNewCommandConnect (external) has rilConnected told, like an indication *)
(* of the vendor.                                                           *)
SetResponseFunctions ==
  /\ TakesCall /\ Head(inbox).method = "setResponseFunctions"
  /\ readers = 0
  /\ client' = [session |-> Head(inbox).session, v11 |-> CastTo11(Head(inbox))]
  /\ counter' = counter + 1
  /\ Begins("rpc", "lock", TRUE, [NoWork EXCEPT !.tells = "rilConnected"])
  /\ UNCHANGED <<readers, requests>>

(* The row of ril_commands.h.                                               *)
(* Broken variant: a row names the function of its neighbour.               *)
FunctionSlipped(m) ==
  IF m = "sendSMSExpectMore" THEN "sendSms"
                             ELSE Commands[RequestOf(m, setting.version)]
FunctionOf(m) == Commands[RequestOf(m, setting.version)]

(* The request is added to the list and given to the vendor's RIL.          *)
Dispatch ==
  /\ TakesCall /\ Head(inbox).method \in Methods
  /\ ~AlwaysRefused(Head(inbox).method, setting.version)
  /\ requests' = requests \cup {Head(inbox).serial}
  /\ UNCHANGED <<client, counter, readers, thread>>

(* Broken variants: the vendor is asked as well (no return after the        *)
(* answer); the refused request is dropped without an answer.               *)
RefusedAndAsked(serial) == requests \cup {serial}
RefusedOnly(serial) == requests
DroppedWith(m, serial, e) == UNCHANGED thread
AnswersItself(m, serial, e) ==
  Begins("rpc", "test", FALSE, [tells |-> FunctionOf(m), serial |-> serial,
                                error |-> e, payload |-> "absent"])

(* sendErrorResponse runs the response function on the RPC thread, without  *)
(* the lock.  (The entry stays in the request list for good.)               *)
Refuse ==
  /\ TakesCall /\ Head(inbox).method \in Methods
  /\ setting.refuses
  /\ \E e \in RefusesFor(Requests[Head(inbox).method][2], setting.version) :
       AnswersItself(Head(inbox).method, Head(inbox).serial, e)
  /\ requests' = RefusedOnly(Head(inbox).serial)
  /\ UNCHANGED <<client, counter, readers>>

-----------------------------------------------------------------------------
(* The vendor's RIL.                                                        *)

(* RIL_onRequestComplete: the entry leaves the list and its response        *)
(* function is run under the read lock.                                     *)
Complete ==
  /\ ~crash /\ thread["modem"].at = "rest"
  /\ \E s \in requests, e \in {"SUCCESS", "GENERIC_FAILURE"} :
       LET f == FunctionOf(asked[s].method)
       IN  /\ requests' = requests \ {s}
           /\ \E p \in PayloadsOf(Answers[f]) \cap setting.payloads :
                Begins("modem", "lock", TRUE, [tells |-> f, serial |-> s,
                                               error |-> e, payload |-> p])
  /\ UNCHANGED <<setting, phoneVars, client, counter, readers, told, news,
                 crash>>

(* RIL_onUnsolicitedResponse.                                               *)
Indicate ==
  /\ ~crash /\ thread["modem"].at = "rest" /\ news < setting.news
  /\ news' = news + 1
  /\ \E i \in setting.tells :
       \E p \in PayloadsOf(Indications[i]) \cap setting.payloads :
         Begins("modem", "lock", TRUE,
                [NoWork EXCEPT !.tells = i, !.payload = p])
  /\ UNCHANGED <<setting, phoneVars, client, counter, readers, requests,
                 told, crash>>

-----------------------------------------------------------------------------
(* The response and indication functions, on either thread.                 *)

IsAnswer(work) == work.serial # 0

(* The pointer a function tests, and the one it calls through.  That of     *)
(* keepaliveStatus is cast from the 1.0 one, which a dead client fails.     *)
(* Broken variant: the pointer is used untested.                            *)
Untested(work) == TRUE
Registered(work) ==
  /\ client.session # 0
  /\ work.tells \in (IF IsAnswer(work) THEN Only11 ELSE Tests11) => client.v11
  /\ work.tells = "keepaliveStatus" => client.session = Current
Callable(work) ==
  /\ client.session # 0
  /\ work.tells \in (IF IsAnswer(work) THEN Only11 ELSE Uses11) => client.v11

(* pthread_rwlock_unlock lowers the count whoever raised it; without a      *)
(* reader it fails, which only an assertion looks at.                       *)
LetGo == IF readers > 0 THEN readers - 1 ELSE 0

At(t, place) ==
  /\ ~crash /\ thread[t].at = place
  /\ UNCHANGED <<setting, phoneVars, news, requests>>

Lock(t) ==
  /\ At(t, "lock")
  /\ readers' = readers + 1 /\ Goes(t, "test")
  /\ UNCHANGED <<client, counter, told, crash>>

(* "if (radioService[slotId]->mRadioResponse != NULL)" and, for an          *)
(* indication, the test of its payload.                                     *)
Test(t) ==
  /\ At(t, "test")
  /\ IF /\ Registered(thread[t].work)
        /\ IsAnswer(thread[t].work) \/
           Usable(Indications[thread[t].work.tells], thread[t].work.payload)
       THEN Goes(t, "call") ELSE Goes(t, "finish")
  /\ UNCHANGED <<client, counter, readers, told, crash>>

(* What a client is told of a request.                                      *)
Message(work) ==
  LET kind == Answers[work.tells]
  IN  [by    |-> TellsBy(work.tells, client.v11),
       error |-> Said(kind, work.error, work.payload),
       given |-> Given(kind, work.payload)]

Tell(t) ==
  /\ At(t, "call")
  /\ Callable(thread[t].work) /\ client.session = Current
  /\ Goes(t, "finish")
  /\ told' = IF IsAnswer(thread[t].work)
               THEN [told EXCEPT ![thread[t].work.serial] =
                                   Append(@, Message(thread[t].work))]
               ELSE told
  /\ UNCHANGED <<client, counter, readers, crash>>

(* The client is dead: checkReturnStatus notes the counter and lets go of   *)
(* the read lock, which it takes for held.                                  *)
TellFails(t) ==
  /\ At(t, "call")
  /\ Callable(thread[t].work) /\ client.session # Current
  /\ thread' = [thread EXCEPT ![t].at = "reset", ![t].noted = counter]
  /\ readers' = LetGo
  /\ UNCHANGED <<client, counter, told, crash>>

TellCrashes(t) ==
  /\ At(t, "call") /\ ~Callable(thread[t].work)
  /\ crash' = TRUE
  /\ UNCHANGED <<client, counter, readers, thread, told>>

(* "make sure the counter value has not changed".                           *)
(* Broken variant: the callbacks are reset whoever registered meanwhile.    *)
Unguarded(t) == TRUE
Unchanged(t) == thread[t].noted = counter

(* Under the write lock.                                                    *)
Reset(t) ==
  /\ At(t, "reset") /\ readers = 0
  /\ IF Unchanged(t) THEN client' = NoClient /\ counter' = counter + 1
                     ELSE UNCHANGED <<client, counter>>
  /\ Goes(t, "relock")
  /\ UNCHANGED <<readers, told, crash>>

Retaken == readers + 1

Relock(t) ==
  /\ At(t, "relock")
  /\ readers' = Retaken /\ Goes(t, "finish")
  /\ UNCHANGED <<client, counter, told, crash>>

(* ril.cpp unlocks after the function; sendErrorResponse's callers do not.  *)
LockAfter(t) == IF thread[t].locked THEN LetGo ELSE readers

Finish(t) ==
  /\ At(t, "finish")
  /\ readers' = LockAfter(t)
  /\ thread' = [thread EXCEPT ![t] = Resting]
  /\ UNCHANGED <<client, counter, told, crash>>

-----------------------------------------------------------------------------
Works(t) == \/ Lock(t) \/ Test(t) \/ Tell(t) \/ TellFails(t) \/ TellCrashes(t)
            \/ Reset(t) \/ Relock(t) \/ Finish(t)
RpcThread == SetResponseFunctions \/ Dispatch \/ Refuse \/ Works("rpc")

(* rild has crashed, or it waits for calls with nothing left to do.         *)
Waiting ==
  /\ \/ crash
     \/ inbox = <<>> /\ requests = {} /\ \A t \in Threads : thread[t] = Resting
  /\ UNCHANGED vars

Next ==
  \/ PhoneStarts \/ PhoneDies \/ \E m \in setting.asks : Ask(m)
  \/ RpcThread
  \/ Complete \/ Indicate \/ Works("modem")
  \/ Waiting

Spec == Init /\ [][Next]_vars

(* Both threads run on and the vendor answers what it was asked.            *)
FairSpec ==
  Spec /\ WF_vars(RpcThread) /\ WF_vars(Works("modem")) /\ WF_vars(Complete)

-----------------------------------------------------------------------------
(* Properties.                                                              *)

Places == {"rest", "lock", "test", "call", "reset", "relock", "finish"}

TypeOK ==
  /\ setting \in Settings
  /\ phone.session \in 0..MaxSessions /\ client.session \in 0..phone.session
  /\ counter \in Nat /\ readers \in 0..Cardinality(Threads)
  /\ \A t \in Threads : thread[t].at \in Places
  /\ requests \subseteq Serials
  /\ Len(told) = Len(asked)

Holds(t) == thread[t].locked /\ thread[t].at \in {"test", "call", "finish"}

(* The read lock is held once for every thread inside a response or         *)
(* indication function called by ril.cpp, and by nobody else: no way        *)
(* through checkReturnStatus leaks a hold or takes another thread's.        *)
LockBalanced == readers = Cardinality({t \in Threads : Holds(t)})

(* No callback is called through NULL, although another thread may reset    *)
(* the callbacks at any time the lock lets it.  The one exception is        *)
(* keepaliveStatusInd, which tests the 1.0 callback and calls the 1.1 one:  *)
(* told to a client of the 1.0 interface it ends rild.                      *)
NeverCallsNull ==
  crash => \E t \in Threads :
             thread[t].work.tells = "keepaliveStatus" /\ ~client.v11

(* Each request is answered once, not by the service and the vendor both,   *)
(* and by the method of the client's callback that belongs to it, through   *)
(* the tables of ril_commands.h and of the response functions.              *)
(* hangupForegroundResumeBackground, answered as hangupWaitingOrBackground, *)
(* is the one exception; both methods of the SIM card's power are answered  *)
(* by the client's newer one.                                               *)
AnsweredAsAsked ==
  \A s \in Serials : Len(told[s]) <= 1 /\ \A i \in DOMAIN told[s] :
    LET asks == asked[s].method
        by   == told[s][i].by
    IN  \/ by = asks
        \/ <<asks, by>> \in {<<"getImsiForApp", "getIMSIForApp">>,
             <<"hangup", "hangupConnection">>,
             <<"hangupForegroundResumeBackground",
               "hangupWaitingOrBackground">>}
        \/ {asks, by} = {"setSimCardPower", "setSimCardPower_1_1"}

(* A request told to have succeeded comes with the vendor's data, unless    *)
(* its function takes no data for an answer: a broken payload is never      *)
(* passed off as a success with made-up values.                             *)
SuccessIsBacked ==
  \A s \in Serials : \A i \in DOMAIN told[s] :
    told[s][i].error = "SUCCESS" =>
      LET kind == Answers[FunctionOf(asked[s].method)]
      IN  told[s][i].given \/ kind = "plain" \/ kind \in MayBeAbsent

(* The callbacks of a living client are not reset: a thread that found its  *)
(* predecessor dead leaves them alone ("make sure the counter value has not *)
(* changed").                                                               *)
LiveClientKept ==
  [][client.session # 0 /\ client.session = Current =>
       client'.session = client.session]_vars

(* "When the client process is back up, it will call                        *)
(* setResponseFunctions()", the only recovery from a dead client: a phone   *)
(* process that stays gets its callbacks registered for good.               *)
ComesBack ==
  \A s \in 1..MaxSessions :
    Current = s ~> [](client.session = s \/ Current # s \/ crash)

Outstanding(s) ==
  s \in Serials /\ asked[s].session = Current /\ told[s] = <<>>

(* A client that lives awaits to be told about what it asked, by the vendor *)
(* or by the service, whichever interface it has: never for ever            *)
(* (MCServices).                                                            *)
Awaits == ~crash /\ \E s \in Serials : Outstanding(s)
=============================================================================
