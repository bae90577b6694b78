-------------------------- MODULE StreamOutProofs ---------------------------
(* Proofs about StreamOut, for every number of write threads, commands and  *)
(* frames.  The types hold for any callers; the rest needs calls that do    *)
(* not overlap, which is what OneCaller says.                               *)
EXTENDS StreamOut, TLAPS

(* No two calls of prepareForWriting and close overlap.                     *)
OneCaller == \A c, d \in Callers : c = d

-----------------------------------------------------------------------------
(* Types.                                                                   *)

LEMMA InitTypeOK == Init => TypeOK
<1> SUFFICES ASSUME Init PROVE TypeOK
  OBVIOUS
<1>1. closed \in BOOLEAN /\ stop \in BOOLEAN
  BY DEF Init
<1>2. /\ call \in [Callers -> {"none", "checked", "launched"}]
      /\ launched \in [Callers -> 0..MaxWriters]
  BY StreamOutConstants DEF Init
<1>3. writer \in [Writers -> {"none", "tests", "sleeps", "write", "query",
                             "replies", "wakes", "exited"}]
  BY DEF Init
<1>4. /\ data \in 0..Capacity /\ reply \in 0..Capacity
      /\ sent \in 0..MaxCommands /\ accepted \in Nat /\ reported \in Nat
  BY StreamOutConstants DEF Init
<1>5. QED
  BY <1>1, <1>2, <1>3, <1>4 DEF Init, TypeOK

LEMMA NextTypeOK == TypeOK /\ [Next]_vars => TypeOK'
<1> SUFFICES ASSUME TypeOK, [Next]_vars PROVE TypeOK'
  OBVIOUS
<1> USE StreamOutConstants DEF TypeOK, Writers, streamVars, queueVars, clientVars
<1>1. ASSUME NEW c \in Callers, Prepare(c) PROVE TypeOK'
  <2>1. CASE PrepareChecks(c)
    BY <2>1 DEF PrepareChecks
  <2>2. CASE PrepareFails(c)
    BY <2>2 DEF PrepareFails
  <2>3. CASE PrepareLaunches(c)
    BY <2>3 DEF PrepareLaunches
  <2>4. CASE PrepareInstalls(c)
    BY <2>4 DEF PrepareInstalls
  <2>5. QED
    BY <1>1, <2>1, <2>2, <2>3, <2>4 DEF Prepare
<1>2. ASSUME NEW c \in Callers, Close(c) PROVE TypeOK'
  BY <1>2 DEF Close, CloseEffect, Woken
<1>3. CASE Destroy
  BY <1>3 DEF Destroy, CloseEffect, Woken
<1>4. CASE Join
  BY <1>4 DEF Join
<1>5. CASE Client
  <2>1. CASE Put
    BY <2>1 DEF Put
  <2>2. CASE WakeWriter
    BY <2>2 DEF WakeWriter
  <2>3. CASE ReadStatus
    BY <2>3 DEF ReadStatus
  <2>4. QED
    BY <1>5, <2>1, <2>2, <2>3 DEF Client
<1>6. ASSUME NEW w \in Writers, WriteThread(w) PROVE TypeOK'
  <2>1. CASE TestStop(w)
    BY <1>6, <2>1 DEF TestStop, Moves
  <2>2. CASE Wakes(w)
    BY <1>6, <2>2 DEF Wakes, Moves, Empty
  <2>3. CASE DoWrite(w)
    BY <1>6, <2>3 DEF DoWrite, Moves, PartOf, Written
  <2>4. CASE DoQuery(w)
    BY <1>6, <2>4 DEF DoQuery, Moves
  <2>5. CASE Replies(w)
    BY <1>6, <2>5 DEF Replies, Moves
  <2>6. CASE WakesClient(w)
    BY <1>6, <2>6 DEF WakesClient, Moves, ClientWoken
  <2>7. QED
    BY <1>6, <2>1, <2>2, <2>3, <2>4, <2>5, <2>6 DEF WriteThread
<1>7. CASE UNCHANGED vars
  BY <1>7 DEF vars
<1>8. QED
  BY <1>1, <1>2, <1>3, <1>4, <1>5, <1>6, <1>7 DEF Next, Gone

(* The state of the stream, its write threads, queues and client stays      *)
(* within its types: a reply is never negative nor longer than the data     *)
(* queue, whatever the vendor's stream returns.                             *)
THEOREM TypeCorrect == Spec => []TypeOK
<1>1. Init => TypeOK
  BY InitTypeOK
<1>2. TypeOK /\ [Next]_vars => TypeOK'
  BY NextTypeOK
<1>3. QED
  BY <1>1, <1>2, PTL DEF Spec

-----------------------------------------------------------------------------
(* The write thread.                                                        *)

(* A call that is past the test of mDataMQ belongs to a stream that is      *)
(* alive and still has no queues.                                           *)
PreparesFirst ==
  \A c \in Callers : call[c] # "none" => installed = 0 /\ object = "alive"

(* The write thread a call launched is its own until it is installed.       *)
LaunchedInCall == \A c \in Callers : launched[c] # 0 <=> call[c] = "launched"

GoneIsJoined == object = "gone" => Joined

ThreadInv ==
  /\ TypeOK /\ PreparesFirst /\ LaunchedInCall /\ GoneIsJoined
  /\ QueuesOutliveWriter

LEMMA InitThreadInv == Init => ThreadInv
BY InitTypeOK
DEF Init, ThreadInv, PreparesFirst, LaunchedInCall, GoneIsJoined, Joined,
    QueuesOutliveWriter, Runs, Writers

(* A thread that runs on moves within its loop.                             *)
LEMMA LoopStep ==
  ASSUME NEW w \in Writers, WriteThread(w), TypeOK
  PROVE  /\ Runs(w) /\ \E place : writer' = [writer EXCEPT ![w] = place]
         /\ UNCHANGED streamVars
BY DEF WriteThread, TestStop, Wakes, DoWrite, DoQuery, Replies, WakesClient,
       At, Moves, Runs, streamVars

LEMMA NextThreadInv ==
  ASSUME OneCaller, ThreadInv, [Next]_vars
  PROVE  ThreadInv'
<1> USE DEF ThreadInv, PreparesFirst, LaunchedInCall, GoneIsJoined, Joined,
            QueuesOutliveWriter, Runs
<1>1. TypeOK'
  BY NextTypeOK
<1>2. ASSUME NEW c \in Callers, Prepare(c) PROVE ThreadInv'
  <2>1. CASE PrepareChecks(c)
    BY <1>1, <2>1 DEF PrepareChecks, AlreadyPrepared, TypeOK
  <2>2. CASE PrepareFails(c)
    BY <1>1, <2>2 DEF PrepareFails, TypeOK
  <2>3. CASE PrepareLaunches(c)
    <3>1. PICK w \in Writers :
            /\ writer[w] = "none"
            /\ writer' = [writer EXCEPT ![w] = "tests"]
            /\ launched' = [launched EXCEPT ![c] = w]
            /\ call' = [call EXCEPT ![c] = "launched"]
      BY <2>3 DEF PrepareLaunches
    <3>2. UNCHANGED <<object, installed>> /\ call[c] = "checked"
      BY <2>3 DEF PrepareLaunches
    <3>3. \A v \in Writers : ~Runs(v)
      BY <3>2, StreamOutConstants DEF OneCaller, TypeOK, Writers
    <3>4. QueuesOutliveWriter'
      BY <3>1, <3>3 DEF TypeOK
    <3>5. LaunchedInCall'
      BY <3>1, StreamOutConstants DEF TypeOK, Writers
    <3>6. PreparesFirst' /\ GoneIsJoined'
      BY <3>1, <3>2 DEF TypeOK
    <3>7. QED
      BY <1>1, <3>4, <3>5, <3>6
  <2>4. CASE PrepareInstalls(c)
    <3>1. /\ call[c] = "launched" /\ installed' = launched[c]
          /\ launched' = [launched EXCEPT ![c] = 0]
          /\ call' = [call EXCEPT ![c] = "none"]
          /\ UNCHANGED <<object, writer>>
      BY <2>4 DEF PrepareInstalls
    <3>2. \A v \in Writers : Runs(v) => v = launched[c]
      BY <3>1, StreamOutConstants DEF OneCaller, TypeOK, Writers
    <3>3. QueuesOutliveWriter'
      BY <3>1, <3>2
    <3>4. LaunchedInCall' /\ PreparesFirst' /\ GoneIsJoined'
      BY <3>1 DEF OneCaller, TypeOK
    <3>5. QED
      BY <1>1, <3>3, <3>4
  <2>5. QED
    BY <1>2, <2>1, <2>2, <2>3, <2>4 DEF Prepare
<1>3. ASSUME NEW c \in Callers, Close(c) PROVE ThreadInv'
  BY <1>1, <1>3 DEF Close
<1>4. CASE Destroy
  BY <1>1, <1>4 DEF Destroy, TypeOK
<1>5. CASE Join
  BY <1>1, <1>5 DEF Join
<1>6. CASE Client
  BY <1>1, <1>6 DEF Client, Put, WakeWriter, ReadStatus, streamVars
<1>7. ASSUME NEW w \in Writers, WriteThread(w) PROVE ThreadInv'
  <2>1. Runs(w) /\ UNCHANGED streamVars
    BY <1>7, LoopStep
  <2>2. PICK place : writer' = [writer EXCEPT ![w] = place]
    BY <1>7, LoopStep
  <2>3. QueuesOutliveWriter'
    BY <2>1, <2>2 DEF TypeOK, streamVars
  <2>4. GoneIsJoined'
    BY <2>1, <2>2 DEF TypeOK, streamVars
  <2>5. QED
    BY <1>1, <2>1, <2>3, <2>4 DEF streamVars
<1>8. CASE UNCHANGED vars
  BY <1>1, <1>8 DEF vars, streamVars
<1>9. QED
  BY <1>2, <1>3, <1>4, <1>5, <1>6, <1>7, <1>8 DEF Next, Gone

LEMMA ThreadsAlways == ASSUME OneCaller PROVE Spec => []ThreadInv
<1>1. Init => ThreadInv
  BY InitThreadInv
<1>2. ThreadInv /\ [Next]_vars => ThreadInv'
  BY NextThreadInv
<1>3. QED
  BY <1>1, <1>2, PTL DEF Spec

(* With one caller at a time no write thread outlives its queues: the       *)
(* queues it serves are the stream's, or those of the prepareForWriting     *)
(* that launched it.                                                        *)
THEOREM QueuesOutliveTheirWriter ==
  ASSUME OneCaller PROVE Spec => []QueuesOutliveWriter
<1>1. ThreadInv => QueuesOutliveWriter
  BY DEF ThreadInv
<1>2. QED
  BY <1>1, ThreadsAlways, PTL

(* With one caller at a time the lifespan of the write thread never exceeds *)
(* the stream's.                                                            *)
THEOREM WriterStaysWithinStream ==
  ASSUME OneCaller PROVE Spec => []WriterWithinStream
<1>1. ThreadInv => WriterWithinStream
  BY StreamOutConstants
  DEF ThreadInv, PreparesFirst, LaunchedInCall, GoneIsJoined, Joined,
      QueuesOutliveWriter, Runs, WriterWithinStream, Writers
<1>2. QED
  BY <1>1, ThreadsAlways, PTL

-----------------------------------------------------------------------------
(* The frames the client was told of.                                       *)

Serves(w) == writer[w] \in {"write", "query", "replies", "wakes"}
Nobody == \A w \in Writers : ~Serves(w)

(* Where the command the client sent is, and what the client is still to be *)
(* told of it.                                                              *)
NotYetServed ==
  Nobody /\ status = <<>> /\ "NOT_FULL" \notin flag /\ accepted = reported
BeingServed(w) ==
  /\ writer[w] \in {"write", "query"}
  /\ command = Empty /\ status = <<>> /\ "NOT_FULL" \notin flag
  /\ accepted = reported
BeingReplied(w) ==
  /\ writer[w] = "replies"
  /\ command = Empty /\ status = <<>> /\ "NOT_FULL" \notin flag
  /\ accepted = reported + reply
StatusWritten ==
  \E n \in Nat : status = <<n>> /\ accepted = reported + n
BeingWoken(w) ==
  /\ writer[w] = "wakes" /\ command = Empty /\ "NOT_FULL" \notin flag
  /\ StatusWritten
Served == Nobody /\ command = Empty /\ StatusWritten

(* The balance of the books at every place a command can be.                *)
Books ==
  /\ client = "idle" => command = Empty /\ NotYetServed
  /\ client \in {"put", "waits"} =>
       /\ installed # 0
       /\ \/ NotYetServed \/ Served
          \/ \E w \in Writers : BeingServed(w) \/ BeingReplied(w) \/ BeingWoken(w)

(* Only the installed thread serves.                                        *)
InstalledServes == \A w \in Writers : Serves(w) => w = installed

BooksInv == ThreadInv /\ InstalledServes /\ Books

LEMMA InitBooksInv == Init => BooksInv
BY InitThreadInv
DEF Init, BooksInv, InstalledServes, Books, NotYetServed, Nobody, Serves

LEMMA NextInstalledServes ==
  ASSUME InstalledServes, ThreadInv, [Next]_vars
  PROVE  InstalledServes'
<1> USE DEF InstalledServes, Serves
<1>1. ASSUME NEW c \in Callers, Prepare(c) PROVE InstalledServes'
  <2>1. CASE PrepareChecks(c)
    BY <2>1 DEF PrepareChecks
  <2>2. CASE PrepareFails(c)
    BY <2>2 DEF PrepareFails
  <2>3. CASE PrepareLaunches(c)
    BY <2>3 DEF PrepareLaunches, ThreadInv, TypeOK
  <2>4. CASE PrepareInstalls(c)
    BY <2>4, StreamOutConstants
    DEF PrepareInstalls, ThreadInv, PreparesFirst, Writers
  <2>5. QED
    BY <1>1, <2>1, <2>2, <2>3, <2>4 DEF Prepare
<1>2. ASSUME NEW c \in Callers, Close(c) PROVE InstalledServes'
  BY <1>2 DEF Close
<1>3. CASE Destroy \/ Join \/ Client \/ UNCHANGED vars
  BY <1>3 DEF Destroy, Join, Client, Put, WakeWriter, ReadStatus, streamVars,
              vars
<1>4. ASSUME NEW w \in Writers, WriteThread(w) PROVE InstalledServes'
  <2>1. CASE Wakes(w)
    BY <2>1 DEF Wakes, Moves, ThreadInv, TypeOK, streamVars
  <2>2. CASE ~Wakes(w)
    BY <1>4, <2>2
    DEF WriteThread, TestStop, DoWrite, DoQuery, Replies, WakesClient, At,
        Moves, ThreadInv, TypeOK, streamVars
  <2>3. QED
    BY <2>1, <2>2
<1>5. QED
  BY <1>1, <1>2, <1>3, <1>4 DEF Next, Gone

(* A step of a binder thread leaves the books as they are.                  *)
LEMMA CallsKeepBooks ==
  ASSUME BooksInv, [Next]_vars, NEW c \in Callers, Prepare(c) \/ Close(c)
  PROVE  Books'
<1> USE DEF BooksInv, Books, NotYetServed, Served, StatusWritten, Nobody,
            BeingServed, BeingReplied, BeingWoken, Serves
<1>1. CASE PrepareChecks(c) \/ PrepareFails(c)
  BY <1>1 DEF PrepareChecks, PrepareFails, queueVars, clientVars
<1>2. CASE PrepareLaunches(c)
  <2>1. installed = 0 /\ UNCHANGED <<queueVars, reply, clientVars, accepted>>
    BY <1>2 DEF PrepareLaunches, ThreadInv, PreparesFirst
  <2>2. Nobody => Nobody'
    BY <1>2 DEF PrepareLaunches, ThreadInv, TypeOK
  <2>3. QED
    BY <2>1, <2>2 DEF queueVars, clientVars
<1>3. CASE PrepareInstalls(c)
  <2>1. installed = 0 /\ UNCHANGED <<writer, clientVars, accepted>>
    BY <1>3 DEF PrepareInstalls, ThreadInv, PreparesFirst
  <2>2. flag' = {} /\ command' = Empty /\ status' = <<>>
    BY <1>3 DEF PrepareInstalls
  <2>3. QED
    BY <2>1, <2>2 DEF clientVars
<1>4. CASE Close(c)
  <2>1. "NOT_FULL" \in flag' <=> "NOT_FULL" \in flag
    BY <1>4 DEF Close, CloseEffect, Woken
  <2>2. UNCHANGED <<installed, writer, command, status, reply, clientVars,
                    accepted>>
    BY <1>4 DEF Close
  <2>3. QED
    BY <2>1, <2>2 DEF clientVars
<1>5. QED
  BY <1>1, <1>2, <1>3, <1>4 DEF Prepare

(* The client puts a command when its books are settled, and adds to its    *)
(* count what the status says.                                              *)
LEMMA ClientKeepsBooks ==
  ASSUME BooksInv, [Next]_vars, Client PROVE Books'
<1> USE DEF BooksInv, Books, NotYetServed, Served, Nobody, Serves
<1>1. CASE Put
  BY <1>1 DEF Put, streamVars
<1>2. CASE WakeWriter
  <2>1. "NOT_FULL" \in flag' <=> "NOT_FULL" \in flag
    BY <1>2 DEF WakeWriter
  <2>2. /\ client \in {"put", "waits"} /\ client' = "waits"
        /\ UNCHANGED <<installed, writer, command, status, reply, reported,
                       accepted>>
    BY <1>2 DEF WakeWriter, streamVars
  <2>3. QED
    BY <2>1, <2>2 DEF StatusWritten, BeingServed, BeingReplied, BeingWoken
<1>3. CASE ReadStatus
  <2>1. /\ client = "waits" /\ "NOT_FULL" \in flag
        /\ flag' = flag \ {"NOT_FULL"} /\ status' = <<>>
        /\ UNCHANGED <<installed, writer, command, accepted>>
    BY <1>3 DEF ReadStatus, streamVars
  <2>2. Served
    BY <2>1 DEF BeingServed, BeingReplied, BeingWoken
  <2>3. PICK n \in Nat : status = <<n>> /\ accepted = reported + n
    BY <2>2 DEF StatusWritten
  <2>4. client' = "idle" /\ reported' = reported + n
    BY <1>3, <2>3 DEF ReadStatus
  <2>5. accepted' = reported'
    BY <2>1, <2>3, <2>4
  <2>6. QED
    BY <2>1, <2>2, <2>4, <2>5
<1>4. QED
  BY <1>1, <1>2, <1>3 DEF Client

(* The write thread takes a command that is not yet served through its      *)
(* places to a status and a wake.                                           *)
LEMMA WriterKeepsBooks ==
  ASSUME BooksInv, [Next]_vars, NEW w \in Writers, WriteThread(w)
  PROVE  Books'
<1> USE DEF BooksInv, Books
<1>0. TypeOK /\ InstalledServes /\ UNCHANGED <<clientVars, installed>>
  BY DEF ThreadInv, WriteThread, TestStop, Wakes, DoWrite, DoQuery, Replies,
         WakesClient, streamVars
<1>1. CASE TestStop(w)
  <2>1. UNCHANGED <<flag, command, status, reply, accepted, reported>>
    BY <1>1 DEF TestStop, queueVars, clientVars
  <2>2. ASSUME NEW v \in Writers PROVE Serves(v)' <=> Serves(v)
    BY <1>0, <1>1 DEF TestStop, At, Moves, Serves, TypeOK
  <2>3. ASSUME NEW v \in Writers, Serves(v) PROVE writer'[v] = writer[v]
    BY <1>0, <1>1, <2>3 DEF TestStop, At, Moves, Serves, TypeOK
  <2>4. Nobody => Nobody'
    BY <2>2 DEF Nobody
  <2>5. /\ NotYetServed => NotYetServed'
        /\ Served => Served'
    BY <2>1, <2>4 DEF NotYetServed, Served, StatusWritten
  <2>6. (\E v \in Writers : BeingServed(v) \/ BeingReplied(v) \/ BeingWoken(v))
         => (\E v \in Writers : BeingServed(v) \/ BeingReplied(v)
                                \/ BeingWoken(v))'
    BY <2>1, <2>3
    DEF BeingServed, BeingReplied, BeingWoken, Serves, StatusWritten
  <2>7. client' = client /\ installed' = installed /\ command' = command
    BY <1>0, <2>1 DEF clientVars
  <2>8. QED
    BY <2>5, <2>6, <2>7
<1>2. CASE Wakes(w)
  <2>1. /\ w = installed /\ command' = Empty
        /\ UNCHANGED <<status, reply, accepted, reported>>
        /\ "NOT_FULL" \in flag' <=> "NOT_FULL" \in flag
    BY <1>2 DEF Wakes, clientVars
  <2>2. ~Serves(w)
    BY <1>2 DEF Wakes, At, Serves
  <2>3. Nobody
    BY <1>0, <2>1, <2>2 DEF Nobody, InstalledServes
  <2>4. CASE command = Empty
    <3>1. Nobody'
      BY <1>0, <1>2, <2>3, <2>4 DEF Wakes, At, Moves, Nobody, Serves, TypeOK
    <3>2. ~\E v \in Writers : BeingServed(v) \/ BeingReplied(v) \/ BeingWoken(v)
      BY <2>3 DEF Nobody, Serves, BeingServed, BeingReplied, BeingWoken
    <3>3. QED
      BY <1>0, <2>1, <2>3, <2>4, <3>1, <3>2
      DEF NotYetServed, Served, StatusWritten, clientVars
  <2>5. CASE command # Empty
    <3>1. writer'[w] \in {"write", "query"}
      BY <1>0, <1>2, <2>5 DEF Wakes, At, Moves, TypeOK
    <3>2. ~\E v \in Writers : BeingServed(v) \/ BeingReplied(v) \/ BeingWoken(v)
      BY <2>3 DEF Nobody, Serves, BeingServed, BeingReplied, BeingWoken
    <3>3. client \in {"put", "waits"} => NotYetServed
      BY <2>5, <3>2 DEF Served
    <3>4. client # "idle"
      BY <2>5
    <3>5. client \in {"put", "waits"} => BeingServed(w)'
      BY <2>1, <3>1, <3>3 DEF NotYetServed, BeingServed
    <3>6. QED
      BY <1>0, <3>4, <3>5 DEF clientVars
  <2>6. QED
    BY <2>4, <2>5
<1>3. ASSUME At(w, "write") \/ At(w, "query") \/ At(w, "replies")
               \/ At(w, "wakes")
      PROVE  Serves(w) /\ client # "idle" /\ w = installed
             /\ \A v \in Writers : Serves(v) => v = w
  BY <1>0, <1>3 DEF At, Serves, NotYetServed, Nobody, InstalledServes
<1>4. CASE DoWrite(w) \/ DoQuery(w)
  <2>1. Serves(w) /\ client # "idle" /\ writer[w] \in {"write", "query"}
    BY <1>3, <1>4 DEF DoWrite, DoQuery, At
  <2>2. \A v \in Writers : Serves(v) => v = w
    BY <1>3, <1>4 DEF DoWrite, DoQuery
  <2>3. client \in {"put", "waits"} => BeingServed(w)
    BY <2>1, <2>2
    DEF NotYetServed, Served, Nobody, BeingReplied, BeingWoken, BeingServed,
        Serves
  <2>4. accepted' = accepted + reply'
    BY <1>0, <1>4 DEF DoWrite, DoQuery, PartOf, Written, TypeOK
  <2>5. UNCHANGED <<flag, command, status, reported>>
    BY <1>4 DEF DoWrite, DoQuery, queueVars, clientVars
  <2>6. writer'[w] = "replies"
    BY <1>0, <1>4 DEF DoWrite, DoQuery, Moves, TypeOK
  <2>7. client \in {"put", "waits"} => BeingReplied(w)'
    BY <2>3, <2>4, <2>5, <2>6 DEF BeingServed, BeingReplied
  <2>8. QED
    BY <1>0, <2>1, <2>7 DEF clientVars
<1>5. CASE Replies(w)
  <2>1. Serves(w) /\ client # "idle" /\ writer[w] = "replies"
    BY <1>3, <1>5 DEF Replies, At
  <2>2. \A v \in Writers : Serves(v) => v = w
    BY <1>3, <1>5 DEF Replies
  <2>3. client \in {"put", "waits"} => BeingReplied(w)
    BY <2>1, <2>2
    DEF NotYetServed, Served, Nobody, BeingServed, BeingWoken, BeingReplied,
        Serves
  <2>4. UNCHANGED <<flag, command, accepted, reported>> /\ reply \in Nat
    BY <1>0, <1>5, StreamOutConstants DEF Replies, clientVars, TypeOK
  <2>5. writer'[w] = "wakes"
    BY <1>0, <1>5 DEF Replies, Moves, TypeOK
  <2>6. status = <<>> => status' = <<reply>>
    BY <1>5 DEF Replies
  <2>7. client \in {"put", "waits"} => BeingWoken(w)'
    BY <2>3, <2>4, <2>5, <2>6 DEF BeingReplied, BeingWoken, StatusWritten
  <2>8. QED
    BY <1>0, <2>1, <2>7 DEF clientVars
<1>6. CASE WakesClient(w)
  <2>1. Serves(w) /\ client # "idle" /\ writer[w] = "wakes"
    BY <1>3, <1>6 DEF WakesClient, At
  <2>2. \A v \in Writers : Serves(v) => v = w
    BY <1>3, <1>6 DEF WakesClient
  <2>3. client \in {"put", "waits"} => BeingWoken(w)
    BY <2>1, <2>2
    DEF NotYetServed, Served, Nobody, BeingServed, BeingReplied, BeingWoken,
        Serves
  <2>4. UNCHANGED <<command, status, accepted, reported>>
    BY <1>6 DEF WakesClient, clientVars
  <2>5. Nobody'
    BY <1>0, <1>6, <2>2 DEF WakesClient, Moves, Nobody, Serves, TypeOK
  <2>6. client \in {"put", "waits"} => Served'
    BY <2>3, <2>4, <2>5 DEF BeingWoken, Served, StatusWritten
  <2>7. QED
    BY <1>0, <2>1, <2>6 DEF clientVars
<1>7. QED
  BY <1>1, <1>2, <1>4, <1>5, <1>6 DEF WriteThread

LEMMA NextBooksInv ==
  ASSUME OneCaller, BooksInv, [Next]_vars
  PROVE  BooksInv'
<1>1. ThreadInv' /\ InstalledServes'
  BY NextThreadInv, NextInstalledServes DEF BooksInv
<1>2. CASE Destroy
  BY <1>1, <1>2 DEF Destroy, BooksInv, Books
<1>3. CASE Join \/ UNCHANGED vars
  <2>1. UNCHANGED <<client, installed, flag, command, status, writer, reply,
                    accepted, reported>>
    BY <1>3 DEF Join, queueVars, clientVars, streamVars, vars
  <2>2. QED
    BY <1>1, <2>1
    DEF BooksInv, Books, NotYetServed, Served, StatusWritten, Nobody,
        BeingServed, BeingReplied, BeingWoken, Serves
<1>4. QED
  BY <1>1, <1>2, <1>3, CallsKeepBooks, ClientKeepsBooks, WriterKeepsBooks
  DEF Next, Gone, BooksInv

(* With one caller at a time the client is told, between two commands, of   *)
(* exactly the frames the vendor's stream accepted, after short and failed  *)
(* writes too.                                                              *)
THEOREM ReportedAreAccepted ==
  ASSUME OneCaller PROVE Spec => []ReportedIsAccepted
<1>1. Init => BooksInv
  BY InitBooksInv
<1>2. BooksInv /\ [Next]_vars => BooksInv'
  BY NextBooksInv
<1>3. BooksInv => ReportedIsAccepted
  BY DEF BooksInv, Books, NotYetServed, ReportedIsAccepted
<1>4. QED
  BY <1>1, <1>2, <1>3, PTL DEF Spec
=============================================================================
