----------------------------- MODULE StreamOut ------------------------------
(***************************************************************************)
(* The audio output stream of the audio HAL service:                       *)
(* hardware/interfaces/audio/2.0/default/StreamOut.cpp.                    *)
(* prepareForWriting, close and the destructor run on binder threads, the  *)
(* WriteThread serves the client's commands from three fast message queues *)
(* and an event flag.  The client, the queues and the vendor's stream are  *)
(* outside the repository.                                                 *)
(***************************************************************************)
EXTENDS Integers, FiniteSets

CONSTANTS
  Callers,     \* binder threads that call the stream at the same time
  LatePrepare, \* the client may call prepareForWriting on a closed stream
  MaxWriters,  \* bound: write threads launched
  MaxCommands, \* bound: commands sent
  Capacity     \* frames the data queue holds

ASSUME StreamOutConstants ==
  /\ LatePrepare \in BOOLEAN
  /\ MaxWriters \in Nat /\ MaxCommands \in Nat /\ Capacity \in Nat \ {0}

VARIABLES
  object,    \* the StreamOut: "alive", "joining" in its destructor, "gone"
  call,      \* [Callers -> place in prepareForWriting]
  launched,  \* [Callers -> write thread it launched and has not installed, or 0]
  closed,    \* mIsClosed
  stop,      \* mStopWriteThread
  installed, \* the write thread mWriteThread and the queues belong to, or 0
  writer,    \* [1..MaxWriters -> place in threadLoop]
  flag,      \* bits set in the event flag
  command,   \* the command queue, of one element, or Empty
  data,      \* frames in the data queue
  status,    \* the status queue, at most one element
  reply,     \* mStatus of the write thread that serves a command
  client,    \* the client: "idle", "put" a command, "waits", "dead"
  sent,      \* commands the client sent
  accepted,  \* frames the vendor's stream accepted
  reported   \* frames the client was told were written

streamVars == <<object, call, launched, closed, stop, installed>>
queueVars  == <<flag, command, data, status>>
clientVars == <<client, sent, reported>>
vars == <<streamVars, writer, queueVars, reply, clientVars, accepted>>

Writers == 1..MaxWriters
Empty == "empty"

Init ==
  /\ object = "alive" /\ call = [c \in Callers |-> "none"]
  /\ launched = [c \in Callers |-> 0]
  /\ closed = FALSE /\ stop = FALSE /\ installed = 0
  /\ writer = [w \in Writers |-> "none"]
  /\ flag = {} /\ command = Empty /\ data = 0 /\ status = <<>>
  /\ reply = 0 /\ client = "idle" /\ sent = 0 /\ accepted = 0 /\ reported = 0

-----------------------------------------------------------------------------
(* Binder threads.                                                          *)

(* Broken variant: prepareForWriting may be called twice.                   *)
PreparedTwice == FALSE
AlreadyPrepared == installed # 0

(* prepareForWriting: the test of mDataMQ; an error leaves all as it was.   *)
PrepareChecks(c) ==
  /\ object = "alive" /\ call[c] = "none" /\ ~AlreadyPrepared
  /\ closed => LatePrepare
  /\ call' = [call EXCEPT ![c] = "checked"]
  /\ UNCHANGED <<object, launched, closed, stop, installed>>
  /\ UNCHANGED <<writer, queueVars, reply, clientVars, accepted>>

(* A bad size, a queue, flag or thread that cannot be made.                 *)
PrepareFails(c) ==
  /\ call[c] = "checked"
  /\ call' = [call EXCEPT ![c] = "none"]
  /\ UNCHANGED <<object, launched, closed, stop, installed>>
  /\ UNCHANGED <<writer, queueVars, reply, clientVars, accepted>>

(* The thread runs over the new queues before the stream owns them.         *)
PrepareLaunches(c) ==
  /\ call[c] = "checked"
  /\ \E w \in Writers :
       /\ writer[w] = "none" /\ \A v \in 1..w - 1 : writer[v] # "none"
       /\ writer' = [writer EXCEPT ![w] = "tests"]
       /\ launched' = [launched EXCEPT ![c] = w]
       /\ call' = [call EXCEPT ![c] = "launched"]
  /\ UNCHANGED <<object, closed, stop, installed>>
  /\ UNCHANGED <<queueVars, reply, clientVars, accepted>>

(* The queues replace, and delete, the ones the stream had.                 *)
PrepareInstalls(c) ==
  /\ call[c] = "launched"
  /\ installed' = launched[c] /\ launched' = [launched EXCEPT ![c] = 0]
  /\ call' = [call EXCEPT ![c] = "none"]
  /\ flag' = {} /\ command' = Empty /\ data' = 0 /\ status' = <<>>
  /\ UNCHANGED <<object, closed, stop>>
  /\ UNCHANGED <<writer, reply, clientVars, accepted>>

Woken == flag \cup {"NOT_EMPTY"}

(* close(): a second call changes nothing.                                  *)
CloseEffect ==
  /\ closed' = TRUE
  /\ stop' = (stop \/ (~closed /\ installed # 0))
  /\ flag' = IF ~closed /\ installed # 0 THEN Woken ELSE flag

Close(c) ==
  /\ object = "alive" /\ call[c] = "none"
  /\ CloseEffect
  /\ UNCHANGED <<object, call, launched, installed, writer, command, data, status>>
  /\ UNCHANGED <<reply, clientVars, accepted>>

(* The client lets go of the stream, or dies at any place; then ~StreamOut  *)
(* calls close() and joins the write thread.                                *)
Destroy ==
  /\ object = "alive" /\ \A c \in Callers : call[c] = "none"
  /\ object' = "joining" /\ client' = "dead"
  /\ CloseEffect
  /\ UNCHANGED <<call, launched, installed, writer, command, data, status>>
  /\ UNCHANGED <<reply, sent, reported, accepted>>

(* Broken variant: the destructor does not wait.                            *)
NotJoined == TRUE
Joined == installed # 0 => writer[installed] = "exited"

Join ==
  /\ object = "joining" /\ Joined
  /\ object' = "gone"
  /\ UNCHANGED <<call, launched, closed, stop, installed>>
  /\ UNCHANGED <<writer, queueVars, reply, clientVars, accepted>>

-----------------------------------------------------------------------------
(* WriteThread::threadLoop.                                                 *)

At(w, place) == writer[w] = place
Moves(w, place) == writer' = [writer EXCEPT ![w] = place]

TestStop(w) ==
  /\ At(w, "tests")
  /\ Moves(w, IF stop THEN "exited" ELSE "sleeps")
  /\ UNCHANGED <<streamVars, queueVars, reply, clientVars, accepted>>

(* NOT_EMPTY is taken from the flag; without a command there is nothing to  *)
(* do.  Only the installed thread's queues are modelled.                    *)
Wakes(w) ==
  /\ At(w, "sleeps") /\ w = installed /\ "NOT_EMPTY" \in flag
  /\ flag' = flag \ {"NOT_EMPTY"}
  /\ Moves(w, IF command = Empty THEN "tests" ELSE command)
  /\ command' = Empty
  /\ UNCHANGED <<streamVars, data, status, reply, clientVars, accepted>>

Written(result) == IF result >= 0 THEN result ELSE 0
(* Broken variant: a short write is reported as a full one.                 *)
AllOf(taken, result) == taken
PartOf(taken, result) == Written(result)

(* doWrite: all the queue holds goes to the stream, which takes a part of   *)
(* it or fails.                                                             *)
DoWrite(w) ==
  /\ At(w, "write")
  /\ \E result \in -1..data :
       /\ reply' = PartOf(data, result)
       /\ accepted' = accepted + (IF result >= 0 THEN result ELSE 0)
  /\ data' = 0 /\ Moves(w, "replies")
  /\ UNCHANGED <<streamVars, flag, command, status, clientVars>>

(* doGetPresentationPosition, doGetLatency and an unknown command.          *)
DoQuery(w) ==
  /\ At(w, "query")
  /\ reply' = 0 /\ Moves(w, "replies")
  /\ UNCHANGED <<streamVars, queueVars, clientVars, accepted>>

(* A status queue that is full keeps its element.                           *)
Replies(w) ==
  /\ At(w, "replies")
  /\ status' = IF status = <<>> THEN <<reply>> ELSE status
  /\ Moves(w, "wakes")
  /\ UNCHANGED <<streamVars, flag, command, data, reply, clientVars, accepted>>

(* Broken variant: the client is left asleep.                               *)
ClientNotWoken == flag
ClientWoken == flag \cup {"NOT_FULL"}

WakesClient(w) ==
  /\ At(w, "wakes")
  /\ flag' = ClientWoken /\ Moves(w, "tests")
  /\ UNCHANGED <<streamVars, command, data, status, reply, clientVars>>
  /\ UNCHANGED accepted

-----------------------------------------------------------------------------
(* The client (external): one command at a time.                            *)

Put ==
  /\ client = "idle" /\ sent < MaxCommands
  /\ installed # 0 /\ ~closed /\ \A c \in Callers : call[c] = "none"
  /\ \/ command' = "query" /\ UNCHANGED data
     \/ command' = "write" /\ data' \in data + 1..Capacity
  /\ client' = "put" /\ sent' = sent + 1
  /\ UNCHANGED <<streamVars, writer, flag, status, reply, reported, accepted>>

WakeWriter ==
  /\ client = "put"
  /\ client' = "waits" /\ flag' = flag \cup {"NOT_EMPTY"}
  /\ UNCHANGED <<streamVars, writer, command, data, status, reply>>
  /\ UNCHANGED <<sent, reported, accepted>>

ReadStatus ==
  /\ client = "waits" /\ "NOT_FULL" \in flag
  /\ flag' = flag \ {"NOT_FULL"} /\ status' = <<>>
  /\ \/ status = <<>> /\ UNCHANGED <<client, reported>>
     \/ status # <<>> /\ client' = "idle" /\ reported' = reported + status[1]
  /\ UNCHANGED <<streamVars, writer, command, data, reply, sent, accepted>>

-----------------------------------------------------------------------------
Prepare(c) ==
  PrepareChecks(c) \/ PrepareFails(c) \/ PrepareLaunches(c)
    \/ PrepareInstalls(c)
WriteThread(w) ==
  \/ TestStop(w) \/ Wakes(w) \/ DoWrite(w) \/ DoQuery(w)
  \/ Replies(w) \/ WakesClient(w)
Client == Put \/ WakeWriter \/ ReadStatus

Gone == object = "gone" /\ UNCHANGED vars

Next ==
  \/ \E c \in Callers : Prepare(c) \/ Close(c)
  \/ Destroy \/ Join \/ Client \/ Gone
  \/ \E w \in Writers : WriteThread(w)

(* Threads run when they can; a client that put a command wakes the thread. *)
Fairness ==
  /\ \A w \in Writers : WF_vars(WriteThread(w))
  /\ WF_vars(Join) /\ WF_vars(WakeWriter) /\ WF_vars(ReadStatus)

Spec == Init /\ [][Next]_vars
FairSpec == Spec /\ Fairness

-----------------------------------------------------------------------------
(* Properties.                                                              *)

TypeOK ==
  /\ object \in {"alive", "joining", "gone"}
  /\ call \in [Callers -> {"none", "checked", "launched"}]
  /\ launched \in [Callers -> 0..MaxWriters]
  /\ closed \in BOOLEAN /\ stop \in BOOLEAN
  /\ installed \in {0} \cup Writers
  /\ writer \in [Writers -> {"none", "tests", "sleeps", "write", "query",
                             "replies", "wakes", "exited"}]
  /\ flag \subseteq {"NOT_EMPTY", "NOT_FULL"}
  /\ command \in {Empty, "write", "query"} /\ data \in 0..Capacity
  /\ (status = <<>> \/ \E n \in 0..Capacity : status = <<n>>) /\ reply \in 0..Capacity
  /\ client \in {"idle", "put", "waits", "dead"} /\ sent \in 0..MaxCommands
  /\ accepted \in Nat /\ reported \in Nat

Runs(w) == writer[w] \notin {"none", "exited"}

(* "WriteThread's lifespan never exceeds StreamOut's lifespan": it holds    *)
(* pointers to the stream's stop flag, queues and event flag.               *)
WriterWithinStream == object = "gone" => \A w \in Writers : ~Runs(w)

(* The queues a write thread runs over are the stream's, or those of the    *)
(* prepareForWriting that launched it: nobody deleted them.                 *)
QueuesOutliveWriter ==
  \A w \in Writers :
    Runs(w) => w = installed \/ \E c \in Callers : launched[c] = w

(* Between two commands the client's count of the frames written is the     *)
(* stream's: no frame is lost or played twice after a short or failed       *)
(* write.                                                                   *)
ReportedIsAccepted == client = "idle" => reported = accepted

(* A client that waits for its reply, unless the stream is closed or        *)
(* destroyed under it, and a destructor that waits for the write thread,    *)
(* wherever that is: never for ever (MCServices).                           *)
StreamAwaits == (client = "waits" /\ ~closed) \/ object = "joining"
=============================================================================
