---------------------------- MODULE RadioProofs -----------------------------
(***************************************************************************)
(* Proofs about the radio service, for any number of clients, calls and    *)
(* indications and any settings that AsksOnly admits: the callbacks of a   *)
(* living client stay, none is called through NULL, the lock is held       *)
(* exactly once by each thread that works with them, and each request is   *)
(* answered once, by the function that belongs to it, with data if it is   *)
(* said to have succeeded.                                                 *)
(***************************************************************************)
EXTENDS MCServices, FiniteSetTheorems, SequenceTheorems, TLAPS

(* What the theorems assume of the settings: no client sends its            *)
(* registration as a request; for those about the lock also that the        *)
(* service does not refuse what a client asked that may die.                *)
Registers == "setResponseFunctions"
AsksOnly ==
  \A s \in Settings : Registers \notin s.asks /\ s.versions \subseteq BOOLEAN
NoRefusalToTheDead == \A s \in Settings : ~(s.mortal /\ s.refuses)

MayAsk == {Registers} \cup UNION {s.asks : s \in Settings}
Calls == [method : MayAsk, serial : Nat, session : Nat, v11 : BOOLEAN]

(* A thread's record has its four fields.                                   *)
Shaped(r) ==
  /\ r = [at |-> r.at, work |-> r.work, locked |-> r.locked, noted |-> r.noted]
  /\ r.at \in Radio!Places /\ r.locked \in BOOLEAN /\ r.noted \in Nat

ThreadTypes ==
  /\ thread = [t \in Radio!Threads |-> thread[t]]
  /\ \A t \in Radio!Threads : Shaped(thread[t])

Types ==
  /\ setting \in Settings
  /\ phone \in [session : Nat, alive : BOOLEAN, v11 : BOOLEAN]
  /\ inbox \in Seq(Calls)
  /\ asked \in Seq([method : MayAsk, session : Nat])
  /\ radioClient.session \in Nat /\ counter \in Nat /\ readers \in Nat
  /\ crash \in BOOLEAN
  /\ ThreadTypes

(* Registrations wait in the order of their sessions, all later than the    *)
(* client's.                                                                *)
InboxInv ==
  /\ radioClient.session <= phone.session
  /\ phone.alive => phone.session >= 1
  /\ \A i \in 1 .. Len(inbox) :
       inbox[i].session \in 1 .. phone.session
  /\ \A i \in 1 .. Len(inbox) :
       inbox[i].method = Registers => inbox[i].session > radioClient.session
  /\ \A i, j \in 1 .. Len(inbox) :
       i < j /\ inbox[i].method = Registers /\ inbox[j].method = Registers
         => inbox[i].session < inbox[j].session

(* A thread that noted the counter as it is noted a client that is dead.    *)
NotedDead(t) ==
  /\ thread[t].noted <= counter
  /\ thread[t].at = "reset" /\ thread[t].noted = counter =>
       radioClient.session # 0 /\ radioClient.session # Radio!Current

ClientInv == Types /\ InboxInv /\ \A t \in Radio!Threads : NotedDead(t)

(* A thread takes a step to another place, or to a new piece of work, and   *)
(* the other one stays where it is.                                         *)
LEMMA OneThreadMoves ==
  ASSUME ThreadTypes, NEW t \in Radio!Threads, NEW r, Shaped(r),
         thread' = [thread EXCEPT ![t] = r]
  PROVE  /\ ThreadTypes'
         /\ thread'[t] = r
         /\ \A u \in Radio!Threads : u # t => thread'[u] = thread[u]
  BY DEF ThreadTypes

LEMMA GoesOn ==
  ASSUME ThreadTypes, NEW t \in Radio!Threads, NEW place \in Radio!Places,
         Radio!Goes(t, place)
  PROVE  /\ ThreadTypes'
         /\ thread'[t] = [at |-> place, work |-> thread[t].work,
                          locked |-> thread[t].locked,
                          noted |-> thread[t].noted]
         /\ \A u \in Radio!Threads : u # t => thread'[u] = thread[u]
<1> DEFINE r == [at |-> place, work |-> thread[t].work,
                 locked |-> thread[t].locked, noted |-> thread[t].noted]
<1>1. Shaped(thread[t]) /\ t \in DOMAIN thread
  BY DEF ThreadTypes
<1>2. Shaped(r)
  BY <1>1 DEF Shaped
<1>3. [thread[t] EXCEPT !.at = place] = r
  BY <1>1 DEF Shaped
<1>4. thread' = [thread EXCEPT ![t] = r]
  BY <1>3 DEF Radio!Goes
<1>5. QED
  BY <1>2, <1>4, OneThreadMoves

LEMMA NotesDown ==
  ASSUME ThreadTypes, NEW t \in Radio!Threads, counter \in Nat,
         thread' = [thread EXCEPT ![t].at = "reset", ![t].noted = counter]
  PROVE  /\ ThreadTypes'
         /\ thread'[t] = [at |-> "reset", work |-> thread[t].work,
                          locked |-> thread[t].locked, noted |-> counter]
         /\ \A u \in Radio!Threads : u # t => thread'[u] = thread[u]
<1> DEFINE r == [at |-> "reset", work |-> thread[t].work,
                 locked |-> thread[t].locked, noted |-> counter]
<1>1. Shaped(thread[t]) /\ t \in DOMAIN thread
  BY DEF ThreadTypes
<1>2. Shaped(r)
  BY <1>1 DEF Shaped, Radio!Places
<1> DEFINE a == [at |-> "reset", work |-> thread[t].work,
                 locked |-> thread[t].locked, noted |-> thread[t].noted]
<1>3. /\ [thread[t] EXCEPT !.at = "reset"] = a
      /\ [a EXCEPT !.noted = counter] = r
  BY <1>1 DEF Shaped
<1>4. thread' = [thread EXCEPT ![t] = r]
  BY <1>1, <1>3
<1>5. QED
  BY <1>2, <1>4, OneThreadMoves

LEMMA WorkBegins ==
  ASSUME ThreadTypes, NEW t \in Radio!Threads, NEW place \in Radio!Places,
         NEW locked \in BOOLEAN, NEW work, Radio!Begins(t, place, locked, work)
  PROVE  /\ ThreadTypes'
         /\ thread'[t] =
              [at |-> place, work |-> work, locked |-> locked, noted |-> 0]
         /\ \A u \in Radio!Threads : u # t => thread'[u] = thread[u]
<1>1. Shaped([at |-> place, work |-> work, locked |-> locked, noted |-> 0])
  BY DEF Shaped
<1>2. QED
  BY <1>1, OneThreadMoves DEF Radio!Begins

(* Where the calls are after one was added, or taken.                       *)
LEMMA OneMore ==
  ASSUME NEW S, NEW s \in Seq(S), NEW e \in S
  PROVE  /\ Append(s, e) \in Seq(S)
         /\ Len(s) \in Nat /\ Len(Append(s, e)) = Len(s) + 1
         /\ Append(s, e)[Len(s) + 1] = e
         /\ \A i \in 1 .. Len(s) : Append(s, e)[i] = s[i] /\ s[i] \in S
  OBVIOUS

LEMMA OneLess ==
  ASSUME NEW S, NEW s \in Seq(S), s # <<>>
  PROVE  /\ Tail(s) \in Seq(S) /\ Head(s) = s[1] /\ Head(s) \in S
         /\ Len(s) \in Nat /\ Len(s) >= 1 /\ Len(Tail(s)) = Len(s) - 1
         /\ \A i \in 1 .. Len(s) - 1 : Tail(s)[i] = s[i + 1]
         /\ \A i \in 1 .. Len(s) : s[i] \in S
  OBVIOUS

(* The phone process starts, dies, or asks for something.                   *)
LEMMA PhoneStep ==
  ASSUME AsksOnly, ClientInv,
         \/ Radio!PhoneStarts
         \/ Radio!PhoneDies
         \/ \E m \in setting.asks : Radio!Ask(m)
  PROVE  ClientInv'
<1>1. Types /\ InboxInv
  BY DEF ClientInv
<1>2. UNCHANGED <<setting, radioClient, counter, readers, thread, crash>>
  BY DEF Radio!PhoneStarts, Radio!PhoneDies, Radio!Ask, Radio!serviceVars
<1>3. ThreadTypes'
  BY <1>1, <1>2 DEF Types, ThreadTypes
<1>4. CASE Radio!PhoneStarts
  <2>1. PICK v11 \in setting.versions :
          phone' = [session |-> phone.session + 1, alive |-> TRUE, v11 |-> v11]
    BY <1>4 DEF Radio!PhoneStarts
  <2>2. v11 \in BOOLEAN /\ phone.session \in Nat
    BY <1>1 DEF Types, AsksOnly
  <2>3. phone' \in [session : Nat, alive : BOOLEAN, v11 : BOOLEAN]
    BY <2>1, <2>2
  <2> DEFINE entry == [method |-> Registers, serial |-> 0,
                      session |-> phone.session + 1, v11 |-> v11]
  <2>4. entry \in Calls
    BY <2>2 DEF Calls, MayAsk
  <2>5. inbox' = Append(inbox, entry) /\ asked' = asked
    BY <1>4, <2>1 DEF Radio!PhoneStarts, Registers
  <2>6. Types'
    BY <1>1, <1>2, <1>3, <2>3, <2>4, <2>5 DEF Types
  <2>7. /\ inbox \in Seq(Calls) /\ Len(inbox) \in Nat
        /\ Len(inbox') = Len(inbox) + 1
        /\ inbox'[Len(inbox) + 1] = entry
        /\ \A i \in 1 .. Len(inbox) :
             inbox'[i] = inbox[i] /\ inbox[i].session \in Nat
    <3>1. inbox \in Seq(Calls)
      BY <1>1 DEF Types
    <3>2. \A c \in Calls : c.session \in Nat
      BY DEF Calls
    <3> HIDE DEF entry
    <3>3. QED
      BY <2>4, <2>5, <3>1, <3>2, OneMore
  <2>8. phone'.session = phone.session + 1 /\ radioClient.session \in Nat
    BY <1>1, <2>1 DEF Types
  <2>9. entry.session = phone.session + 1
    OBVIOUS
  <2> HIDE DEF entry
  <2>10. InboxInv'
    <3>1. phone'.alive => phone'.session >= 1
      BY <2>2, <2>8
    <3>2. radioClient'.session <= phone'.session
      BY <1>1, <1>2, <2>2, <2>8 DEF InboxInv
    <3>3. \A i \in 1 .. Len(inbox') : inbox'[i].session \in 1 .. phone'.session
      BY <1>1, <2>2, <2>7, <2>8, <2>9 DEF InboxInv
    <3>4. \A i \in 1 .. Len(inbox') :
            inbox'[i].method = Registers =>
              inbox'[i].session > radioClient'.session
      BY <1>1, <1>2, <2>2, <2>7, <2>8, <2>9 DEF InboxInv
    <3>5. \A i \in 1 .. Len(inbox) : inbox[i].session < entry.session
      BY <1>1, <2>2, <2>7, <2>9 DEF InboxInv
    <3>6. ASSUME NEW i \in 1 .. Len(inbox'), NEW j \in 1 .. Len(inbox'), i < j,
                 inbox'[i].method = Registers, inbox'[j].method = Registers
          PROVE  inbox'[i].session < inbox'[j].session
      <4>1. i \in 1 .. Len(inbox) /\ inbox'[i] = inbox[i]
        BY <2>7, <3>6
      <4>2. CASE j = Len(inbox) + 1
        BY <2>7, <3>5, <4>1, <4>2
      <4>3. CASE j \in 1 .. Len(inbox)
        BY <1>1, <2>7, <3>6, <4>1, <4>3 DEF InboxInv
      <4>4. QED
        BY <2>7, <4>2, <4>3
    <3>7. QED
      BY <3>1, <3>2, <3>3, <3>4, <3>6 DEF InboxInv
  <2>11. ASSUME NEW t \in Radio!Threads PROVE NotedDead(t)'
    BY <1>1, <1>2, <2>1, <2>2, <2>8
      DEF ClientInv, InboxInv, NotedDead, Radio!Current
  <2>12. QED
    BY <2>6, <2>10, <2>11 DEF ClientInv
<1>5. CASE Radio!PhoneDies
  <2>1. UNCHANGED <<inbox, asked>> /\ phone' = [phone EXCEPT !.alive = FALSE]
    BY <1>5 DEF Radio!PhoneDies
  <2>2. /\ phone' \in [session : Nat, alive : BOOLEAN, v11 : BOOLEAN]
        /\ phone'.session = phone.session /\ ~phone'.alive
    BY <1>1, <2>1 DEF Types
  <2>3. Types' /\ InboxInv'
    BY <1>1, <1>2, <1>3, <2>1, <2>2 DEF Types, InboxInv
  <2>4. ASSUME NEW t \in Radio!Threads PROVE NotedDead(t)'
    BY <1>2, <2>2 DEF ClientInv, NotedDead, Radio!Current
  <2>5. QED
    BY <2>3, <2>4 DEF ClientInv
<1>6. ASSUME NEW m \in setting.asks, Radio!Ask(m) PROVE ClientInv'
  <2> DEFINE entry == [method |-> m, serial |-> Len(asked) + 1,
                      session |-> phone.session, v11 |-> phone.v11]
  <2>1. m \in MayAsk /\ m # Registers
    BY <1>1 DEF Types, AsksOnly, MayAsk
  <2>2. Len(asked) \in Nat /\ phone.session \in Nat /\ phone.v11 \in BOOLEAN
    BY <1>1 DEF Types
  <2>3. entry \in Calls
    BY <2>1, <2>2 DEF Calls
  <2>4. [method |-> m, session |-> phone.session] \in
          [method : MayAsk, session : Nat]
    BY <2>1, <2>2
  <2>5. /\ asked' = Append(asked, [method |-> m, session |-> phone.session])
        /\ asked' \in Seq([method : MayAsk, session : Nat])
        /\ Len(asked') = Len(asked) + 1
    BY <1>1, <1>6, <2>4 DEF Radio!Ask, Types
  <2>6. inbox' = Append(inbox, entry) /\ phone' = phone
    BY <1>6, <2>5 DEF Radio!Ask
  <2>7. Types'
    BY <1>1, <1>2, <1>3, <2>3, <2>5, <2>6 DEF Types
  <2>8. /\ inbox \in Seq(Calls) /\ Len(inbox) \in Nat
        /\ Len(inbox') = Len(inbox) + 1
        /\ inbox'[Len(inbox) + 1] = entry
        /\ \A i \in 1 .. Len(inbox) :
             inbox'[i] = inbox[i] /\ inbox[i].session \in Nat
    <3>1. inbox \in Seq(Calls)
      BY <1>1 DEF Types
    <3>2. \A c \in Calls : c.session \in Nat
      BY DEF Calls
    <3> HIDE DEF entry
    <3>3. QED
      BY <2>3, <2>6, <3>1, <3>2, OneMore
  <2>9. entry.method # Registers /\ entry.session = phone.session
    BY <2>1
  <2>10. phone.session >= 1
    BY <1>1, <1>6 DEF Radio!Ask, InboxInv
  <2> HIDE DEF entry
  <2>11. InboxInv'
    BY <1>1, <1>2, <2>2, <2>6, <2>8, <2>9, <2>10 DEF InboxInv
  <2>12. ASSUME NEW t \in Radio!Threads PROVE NotedDead(t)'
    BY <1>2, <2>6 DEF ClientInv, NotedDead, Radio!Current
  <2>13. QED
    BY <2>7, <2>11, <2>12 DEF ClientInv
<1>7. QED
  BY <1>4, <1>5, <1>6

(* A call is taken: registrations still wait in their order.                *)
LEMMA TakenCall ==
  ASSUME Types, InboxInv, Radio!TakesCall
  PROVE  /\ Head(inbox) \in Calls /\ inbox' \in Seq(Calls)
         /\ Head(inbox).session \in 1 .. phone.session
         /\ Head(inbox).method = Registers =>
              Head(inbox).session > radioClient.session
         /\ (\/ radioClient' = radioClient
             \/ radioClient' = Radio!NoClient
             \/ (Head(inbox).method = Registers
                   /\ radioClient'.session = Head(inbox).session)) => InboxInv'
<1>1. /\ inbox' = Tail(inbox) /\ phone' = phone
      /\ inbox \in Seq(Calls) /\ inbox # <<>>
      /\ phone.session \in Nat /\ radioClient.session \in Nat
  BY DEF Radio!TakesCall, Types
<1>2. \A c \in Calls : c.session \in Nat
  BY DEF Calls
<1>3. /\ inbox' \in Seq(Calls)
      /\ Head(inbox) = inbox[1]
      /\ Head(inbox) \in Calls
      /\ Len(inbox) \in Nat /\ Len(inbox) >= 1 /\ Len(inbox') = Len(inbox) - 1
      /\ \A i \in 1 .. Len(inbox) - 1 : inbox'[i] = inbox[i + 1]
      /\ \A i \in 1 .. Len(inbox) : inbox[i] \in Calls
  BY <1>1, OneLess
<1>4. /\ Head(inbox).session \in 1 .. phone.session
      /\ Head(inbox).method = Registers =>
           Head(inbox).session > radioClient.session
  BY <1>3 DEF InboxInv
<1>5. ASSUME radioClient' = radioClient \/ radioClient' = Radio!NoClient
               \/ (Head(inbox).method = Registers
                    /\ radioClient'.session = Head(inbox).session)
      PROVE  InboxInv'
  <2>1. \A i \in 1 .. Len(inbox') :
          inbox'[i].session \in 1 .. phone.session /\ inbox'[i].session \in Nat
    BY <1>2, <1>3 DEF InboxInv
  <2>2. radioClient'.session <= phone.session
    BY <1>1, <1>4, <1>5 DEF InboxInv, Radio!NoClient
  <2>3. ASSUME NEW i \in 1 .. Len(inbox'), inbox'[i].method = Registers
        PROVE  inbox'[i].session > radioClient'.session
    <3>1. i + 1 \in 1 .. Len(inbox) /\ inbox'[i] = inbox[i + 1]
      BY <1>3
    <3>2. inbox'[i].session > radioClient.session
      BY <2>3, <3>1 DEF InboxInv
    <3>3. Head(inbox).method = Registers =>
            Head(inbox).session < inbox'[i].session
      BY <1>3, <2>3, <3>1 DEF InboxInv
    <3>4. inbox'[i].session \in 1 .. phone.session
      BY <2>1
    <3>5. QED
      BY <1>5, <3>2, <3>3, <3>4 DEF Radio!NoClient
  <2>4. ASSUME NEW i \in 1 .. Len(inbox'), NEW j \in 1 .. Len(inbox'), i < j,
               inbox'[i].method = Registers, inbox'[j].method = Registers
        PROVE  inbox'[i].session < inbox'[j].session
    <3>1. /\ i + 1 \in 1 .. Len(inbox) /\ inbox'[i] = inbox[i + 1]
          /\ j + 1 \in 1 .. Len(inbox) /\ inbox'[j] = inbox[j + 1]
          /\ i + 1 < j + 1
      BY <1>3, <2>4
    <3>2. QED
      BY <2>4, <3>1 DEF InboxInv
  <2>5. phone'.alive => phone'.session >= 1
    BY <1>1 DEF InboxInv
  <2>6. QED
    BY <1>1, <2>1, <2>2, <2>3, <2>4, <2>5 DEF InboxInv
<1>6. QED
  BY <1>3, <1>4, <1>5

(* The RPC thread begins with what it took.                                 *)
LEMMA CallStep ==
  ASSUME ClientInv,
         Radio!SetResponseFunctions \/ Radio!Dispatch \/ Radio!Refuse
  PROVE  ClientInv'
<1>1. Types /\ InboxInv /\ Radio!TakesCall
  BY DEF ClientInv, Radio!SetResponseFunctions, Radio!Dispatch, Radio!Refuse
<1>2. UNCHANGED <<setting, phone, asked, crash>> /\ inbox' \in Seq(Calls)
  BY <1>1, TakenCall DEF Radio!TakesCall
<1>3. Radio!Current' = Radio!Current
  BY <1>2 DEF Radio!Current
<1>4. /\ "rpc" \in Radio!Threads
      /\ {"lock", "test"} \subseteq Radio!Places
      /\ "reset" \notin {"lock", "test"}
  BY DEF Radio!Threads, Radio!Places
<1>5. CASE Radio!SetResponseFunctions
  <2> DEFINE work == [Radio!NoWork EXCEPT !.tells = "rilConnected"]
  <2>1. /\ Radio!Begins("rpc", "lock", TRUE, work)
        /\ radioClient'.session = Head(inbox).session
        /\ Head(inbox).method = Registers
        /\ counter' = counter + 1 /\ readers' = readers
    BY <1>5 DEF Radio!SetResponseFunctions, Registers
  <2>2. /\ ThreadTypes'
        /\ thread'["rpc"].at = "lock"
        /\ thread'["rpc"].noted = 0
        /\ \A u \in Radio!Threads : u # "rpc" => thread'[u] = thread[u]
    <3>1. ThreadTypes
      BY <1>1 DEF Types
    <3> HIDE DEF work
    <3>2. /\ ThreadTypes'
          /\ thread'["rpc"] =
               [at |-> "lock", work |-> work, locked |-> TRUE, noted |-> 0]
          /\ \A u \in Radio!Threads : u # "rpc" => thread'[u] = thread[u]
      BY <1>4, <2>1, <3>1, WorkBegins, Zenon
    <3>3. QED
      BY <3>2
  <2>3. radioClient'.session \in Nat /\ counter \in Nat /\ InboxInv'
    BY <1>1, <2>1, TakenCall DEF Types, Calls
  <2>4. Types'
    BY <1>1, <1>2, <2>1, <2>2, <2>3 DEF Types
  <2>5. ASSUME NEW t \in Radio!Threads PROVE NotedDead(t)'
    <3>1. thread[t].noted \in Nat /\ thread[t].noted <= counter
      BY <1>1 DEF ClientInv, NotedDead, Types, ThreadTypes, Shaped
    <3>2. QED
      BY <2>1, <2>2, <2>3, <3>1 DEF NotedDead
  <2>6. QED
    BY <2>3, <2>4, <2>5 DEF ClientInv
<1>6. CASE Radio!Dispatch
  <2>1. UNCHANGED <<radioClient, counter, readers, thread>>
    BY <1>6 DEF Radio!Dispatch
  <2>2. InboxInv'
    <3>1. radioClient' = radioClient
      BY <2>1
    <3>2. QED
      BY <1>1, <3>1, TakenCall, Zenon
  <2>4. Types'
    BY <1>1, <1>2, <2>1 DEF Types, ThreadTypes
  <2>3. QED
    BY <1>3, <2>1, <2>2, <2>4 DEF ClientInv, NotedDead
<1>7. CASE Radio!Refuse
  <2>1. UNCHANGED <<radioClient, counter, readers>>
    BY <1>7 DEF Radio!Refuse
  <2>2. PICK work : Radio!Begins("rpc", "test", FALSE, work)
    BY <1>7 DEF Radio!Refuse, Radio!AnswersItself
  <2>3. /\ ThreadTypes'
        /\ thread'["rpc"].at = "test"
        /\ thread'["rpc"].noted = 0
        /\ \A u \in Radio!Threads : u # "rpc" => thread'[u] = thread[u]
    <3>1. ThreadTypes
      BY <1>1 DEF Types
    <3>2. /\ ThreadTypes'
          /\ thread'["rpc"] =
               [at |-> "test", work |-> work, locked |-> FALSE, noted |-> 0]
          /\ \A u \in Radio!Threads : u # "rpc" => thread'[u] = thread[u]
      BY <1>4, <2>2, <3>1, WorkBegins, Zenon
    <3>3. QED
      BY <3>2
  <2>4. Types' /\ counter \in Nat
    BY <1>1, <1>2, <2>1, <2>3 DEF Types
  <2>7. InboxInv'
    <3>1. radioClient' = radioClient
      BY <2>1
    <3>2. QED
      BY <1>1, <3>1, TakenCall, Zenon
  <2>5. ASSUME NEW t \in Radio!Threads PROVE NotedDead(t)'
    <3>1. NotedDead(t)
      BY DEF ClientInv
    <3>2. QED
      BY <1>3, <2>1, <2>3, <2>4, <3>1 DEF NotedDead
  <2>6. QED
    BY <2>4, <2>5, <2>7 DEF ClientInv
<1>8. QED
  BY <1>5, <1>6, <1>7

(* The vendor's answer or indication begins.                                *)
LEMMA VendorStep ==
  ASSUME ClientInv, Radio!Complete \/ Radio!Indicate
  PROVE  /\ ClientInv'
         /\ thread["modem"].at = "rest"
         /\ thread'["modem"].at = "lock" /\ thread'["modem"].locked
         /\ thread'["rpc"] = thread["rpc"]
         /\ UNCHANGED <<setting, phone, inbox, asked, radioClient,
                        counter, readers, crash>>
<1>1. /\ UNCHANGED <<setting, phone, inbox, asked, radioClient,
                     counter, readers, crash>>
      /\ thread["modem"].at = "rest"
  BY DEF Radio!Complete, Radio!Indicate, Radio!phoneVars
<1>2. PICK work : Radio!Begins("modem", "lock", TRUE, work)
  BY DEF Radio!Complete, Radio!Indicate
<1>3. /\ Types
      /\ InboxInv
      /\ "modem" \in Radio!Threads
      /\ "rpc" \in Radio!Threads
      /\ "lock" \in Radio!Places
  BY DEF ClientInv, Radio!Threads, Radio!Places
<1>4. /\ ThreadTypes'
      /\ thread'["modem"] =
           [at |-> "lock", work |-> work, locked |-> TRUE, noted |-> 0]
      /\ \A u \in Radio!Threads : u # "modem" => thread'[u] = thread[u]
  <2>1. ThreadTypes
    BY <1>3 DEF Types
  <2>2. QED
    BY <1>2, <1>3, <2>1, WorkBegins, Zenon
<1>5. Types'
  BY <1>1, <1>3, <1>4 DEF Types
<1>6. InboxInv'
  BY <1>1, <1>3 DEF InboxInv
<1>7. Radio!Current' = Radio!Current
  BY <1>1 DEF Radio!Current
<1>8. ASSUME NEW t \in Radio!Threads PROVE NotedDead(t)'
  <2>1. NotedDead(t) /\ counter \in Nat
    BY <1>3 DEF ClientInv, Types
  <2>2. QED
    BY <1>1, <1>4, <1>7, <2>1 DEF NotedDead
<1>9. QED
  BY <1>1, <1>3, <1>4, <1>5, <1>6, <1>8 DEF ClientInv

(* Where a step of a thread's work leads, and what else it changes.         *)
LEMMA WorkMoves ==
  ASSUME Types, NEW t \in Radio!Threads, Radio!Works(t)
  PROVE  /\ ThreadTypes'
         /\ UNCHANGED <<setting, phone, inbox, asked>>
         /\ \A u \in Radio!Threads : u # t => thread'[u] = thread[u]
         /\ thread'[t].at = "reset" =>
              /\ Radio!TellFails(t) /\ thread'[t].noted = counter
              /\ radioClient.session # 0 /\ radioClient.session # Radio!Current
         /\ thread'[t].noted \in {0, thread[t].noted, counter}
<1>1. UNCHANGED <<setting, phone, inbox, asked>>
  BY DEF Radio!Works, Radio!Lock, Radio!Test, Radio!Tell, Radio!TellFails,
       Radio!TellCrashes, Radio!Reset, Radio!Relock, Radio!Finish, Radio!At,
       Radio!phoneVars
<1>2. ThreadTypes /\ Shaped(thread[t]) /\ counter \in Nat
  BY DEF Types, ThreadTypes
<1>3. ASSUME NEW place \in Radio!Places \ {"reset"}, Radio!Goes(t, place)
      PROVE  /\ ThreadTypes' /\ thread'[t].at # "reset"
             /\ \A u \in Radio!Threads : u # t => thread'[u] = thread[u]
             /\ thread'[t].noted = thread[t].noted
  <2>1. place \in Radio!Places
    OBVIOUS
  <2>2. /\ ThreadTypes'
        /\ thread'[t] = [at |-> place, work |-> thread[t].work,
                         locked |-> thread[t].locked,
                         noted |-> thread[t].noted]
        /\ \A u \in Radio!Threads : u # t => thread'[u] = thread[u]
    BY <1>2, <1>3, <2>1, GoesOn
  <2>3. QED
    BY <2>2
<1>4. {"test", "call", "finish", "relock"} \subseteq Radio!Places \ {"reset"}
  BY DEF Radio!Places
<1>5. CASE \/ Radio!Lock(t)
           \/ Radio!Test(t)
           \/ Radio!Tell(t)
           \/ Radio!Reset(t)
           \/ Radio!Relock(t)
  <2>1. \E place \in {"test", "call", "finish", "relock"} :
          Radio!Goes(t, place)
    BY <1>5 DEF Radio!Lock, Radio!Test, Radio!Tell, Radio!Reset, Radio!Relock
  <2>2. QED
    BY <1>1, <1>3, <1>4, <2>1
<1>6. CASE Radio!TellFails(t)
  <2>1. thread' = [thread EXCEPT ![t].at = "reset", ![t].noted = counter]
    BY <1>6 DEF Radio!TellFails
  <2>2. /\ ThreadTypes' /\ thread'[t].noted = counter
        /\ \A u \in Radio!Threads : u # t => thread'[u] = thread[u]
    <3>1. /\ ThreadTypes'
          /\ thread'[t] = [at |-> "reset", work |-> thread[t].work,
                           locked |-> thread[t].locked, noted |-> counter]
          /\ \A u \in Radio!Threads : u # t => thread'[u] = thread[u]
      BY <1>2, <2>1, NotesDown
    <3>2. QED
      BY <3>1
  <2>3. radioClient.session # 0 /\ radioClient.session # Radio!Current
    BY <1>6 DEF Radio!TellFails, Radio!Callable
  <2>4. QED
    BY <1>1, <1>6, <2>2, <2>3
<1>7. CASE Radio!TellCrashes(t)
  <2>1. thread' = thread /\ thread[t].at = "call"
    BY <1>7 DEF Radio!TellCrashes, Radio!At
  <2>2. /\ ThreadTypes'
        /\ thread'[t].at # "reset"
        /\ thread'[t].noted = thread[t].noted
    BY <1>2, <2>1 DEF ThreadTypes
  <2>3. QED
    BY <1>1, <2>1, <2>2
<1>8. CASE Radio!Finish(t)
  <2>1. thread' = [thread EXCEPT ![t] = Radio!Resting]
    BY <1>8 DEF Radio!Finish
  <2>2. /\ Shaped(Radio!Resting)
        /\ Radio!Resting.at # "reset"
        /\ Radio!Resting.noted = 0
    BY DEF Shaped, Radio!Resting, Radio!Places
  <2>3. /\ ThreadTypes' /\ thread'[t] = Radio!Resting
        /\ \A u \in Radio!Threads : u # t => thread'[u] = thread[u]
    BY <1>2, <2>1, <2>2, OneThreadMoves
  <2>4. QED
    BY <1>1, <2>2, <2>3
<1>9. QED
  BY <1>5, <1>6, <1>7, <1>8 DEF Radio!Works

(* A step of a thread's work keeps the invariant; only a reset of a client  *)
(* found dead changes the client.                                           *)
LEMMA WorkStep ==
  ASSUME ClientInv, NEW t \in Radio!Threads, Radio!Works(t)
  PROVE  /\ ClientInv'
         /\ \/ radioClient' = radioClient
            \/ /\ Radio!Reset(t)
               /\ radioClient' = Radio!NoClient
               /\ radioClient.session # Radio!Current
<1>1. Types /\ InboxInv /\ NotedDead(t)
  BY DEF ClientInv
<1>2. /\ ThreadTypes'
      /\ UNCHANGED <<setting, phone, inbox, asked>>
      /\ \A u \in Radio!Threads : u # t => thread'[u] = thread[u]
  BY <1>1, WorkMoves
<1>3. /\ thread'[t].at = "reset" =>
           /\ Radio!TellFails(t) /\ thread'[t].noted = counter
           /\ radioClient.session # 0 /\ radioClient.session # Radio!Current
      /\ thread'[t].noted \in {0, thread[t].noted, counter}
  BY <1>1, WorkMoves
<1>4. readers' \in Nat /\ crash' \in BOOLEAN
  <2>1. readers \in Nat /\ crash \in BOOLEAN
    BY <1>1 DEF Types
  <2>2. Radio!LetGo \in Nat /\ Radio!LockAfter(t) \in Nat
    BY <2>1 DEF Radio!LetGo, Radio!LockAfter
  <2>3. /\ readers' \in {readers, readers + 1, Radio!LetGo, Radio!LockAfter(t)}
        /\ crash' \in {crash, TRUE}
    <3>1. CASE Radio!Lock(t) \/ Radio!Test(t) \/ Radio!Tell(t)
      BY <3>1 DEF Radio!Lock, Radio!Test, Radio!Tell
    <3>2. CASE Radio!TellFails(t) \/ Radio!TellCrashes(t)
      BY <3>2 DEF Radio!TellFails, Radio!TellCrashes
    <3>3. CASE Radio!Reset(t) \/ Radio!Relock(t) \/ Radio!Finish(t)
      BY <3>3 DEF Radio!Reset, Radio!Relock, Radio!Finish, Radio!Retaken
    <3>4. QED
      BY <3>1, <3>2, <3>3 DEF Radio!Works
  <2>4. readers' \in Nat
    BY <2>1, <2>2, <2>3
  <2>5. crash' \in BOOLEAN
    BY <2>1, <2>3, Zenon
  <2>6. QED
    BY <2>4, <2>5
<1>5. /\ counter \in Nat
      /\ radioClient.session \in Nat
      /\ Radio!Current' = Radio!Current
  BY <1>1, <1>2 DEF Types, Radio!Current
<1>6. CASE radioClient' = radioClient /\ counter' = counter
  <2>1. Types' /\ InboxInv'
    BY <1>1, <1>2, <1>4, <1>6 DEF Types, InboxInv
  <2>2. ASSUME NEW u \in Radio!Threads PROVE NotedDead(u)'
    <3>1. NotedDead(u)
      BY DEF ClientInv
    <3>2. QED
      BY <1>2, <1>3, <1>5, <1>6, <3>1 DEF NotedDead
  <2>3. QED
    BY <1>6, <2>1, <2>2 DEF ClientInv
<1>7. CASE Radio!Reset(t) /\ Radio!Unchanged(t)
  <2>1. /\ radioClient' = Radio!NoClient
        /\ counter' = counter + 1
        /\ thread[t].at = "reset"
    BY <1>7 DEF Radio!Reset, Radio!At
  <2>2. radioClient.session # Radio!Current
    BY <1>1, <1>7, <2>1 DEF NotedDead, Radio!Unchanged
  <2>3. Types'
    BY <1>1, <1>2, <1>4, <2>1 DEF Types, Radio!NoClient
  <2>4. InboxInv'
    <3>1. \A i \in 1 .. Len(inbox) : inbox[i].session > 0
      BY <1>1 DEF InboxInv, Types
    <3>2. QED
      BY <1>1, <1>2, <2>1, <3>1 DEF InboxInv, Types, Radio!NoClient
  <2>5. ASSUME NEW u \in Radio!Threads PROVE NotedDead(u)'
    <3>1. NotedDead(u) /\ thread[u].noted \in Nat
      BY <1>1 DEF ClientInv, Types, ThreadTypes, Shaped
    <3>2. thread'[t].at # "reset"
      BY <1>3, <1>7 DEF Radio!TellFails, Radio!Reset, Radio!At
    <3>3. thread'[u].noted \in Nat /\ thread'[u].noted <= counter
      BY <1>1, <1>2, <1>3, <1>5, <3>1 DEF NotedDead
    <3>4. QED
      BY <1>5, <2>1, <3>3 DEF NotedDead
  <2>6. QED
    BY <1>7, <2>1, <2>2, <2>3, <2>4, <2>5 DEF ClientInv
<1>8. QED
  BY <1>6, <1>7
    DEF Radio!Works, Radio!Lock, Radio!Test, Radio!Tell, Radio!TellFails,
        Radio!TellCrashes, Radio!Reset, Radio!Relock, Radio!Finish

LEMMA ClientStep ==
  AsksOnly /\ ClientInv /\ [Radio!Next]_Radio!vars => ClientInv'
<1> SUFFICES ASSUME AsksOnly, ClientInv, [Radio!Next]_Radio!vars
             PROVE  ClientInv'
  OBVIOUS
<1>1. CASE UNCHANGED Radio!vars
  BY <1>1
    DEF Radio!vars, Radio!phoneVars, Radio!serviceVars, ClientInv, Types,
        ThreadTypes, InboxInv, NotedDead, Radio!Current
<1>2. CASE \/ Radio!PhoneStarts
           \/ Radio!PhoneDies
           \/ \E m \in setting.asks : Radio!Ask(m)
  BY <1>2, PhoneStep
<1>3. CASE Radio!SetResponseFunctions \/ Radio!Dispatch \/ Radio!Refuse
  BY <1>3, CallStep
<1>4. CASE Radio!Complete \/ Radio!Indicate
  BY <1>4, VendorStep
<1>5. CASE Radio!Works("rpc") \/ Radio!Works("modem")
  BY <1>5, WorkStep DEF Radio!Threads
<1>6. QED
  BY <1>1, <1>2, <1>3, <1>4, <1>5
    DEF Radio!Next, Radio!RpcThread, Radio!Waiting

LEMMA ClientInit == AsksOnly /\ Radio!Init => ClientInv
<1> SUFFICES ASSUME AsksOnly, Radio!Init PROVE ClientInv
  OBVIOUS
<1>1. ThreadTypes
  BY DEF Radio!Init, ThreadTypes, Radio!Resting, Shaped, Radio!Places
<1>2. Types
  <2>1. /\ phone \in [session : Nat, alive : BOOLEAN, v11 : BOOLEAN]
        /\ setting \in Settings
        /\ radioClient.session \in Nat
        /\ counter \in Nat
        /\ readers \in Nat /\ crash \in BOOLEAN
    BY DEF Radio!Init, Radio!NoClient
  <2>2. inbox \in Seq(Calls) /\ asked \in Seq([method : MayAsk, session : Nat])
    BY DEF Radio!Init
  <2>3. QED
    BY <1>1, <2>1, <2>2 DEF Types
<1>3. InboxInv
  BY DEF Radio!Init, InboxInv, Radio!NoClient
<1>4. ASSUME NEW t \in Radio!Threads PROVE NotedDead(t)
  BY DEF Radio!Init, NotedDead, Radio!Resting
<1>5. QED
  BY <1>2, <1>3, <1>4 DEF ClientInv

(* The radio service runs as if alone: a step of the phone is a step of it  *)
(* or leaves it as it is.                                                   *)
LEMMA RadioAlone ==
  /\ ServicesInit => Radio!Init
  /\ [ServicesNext]_serviceVars => [Radio!Next]_Radio!vars
<1>1. UNCHANGED radioPart => UNCHANGED Radio!vars
  BY DEF radioPart, Radio!vars, Radio!phoneVars, Radio!serviceVars
<1> QED
  BY <1>1, Zenon
    DEF ServicesInit, ServicesNext, serviceVars, InStream, InPcm, InRadio,
        InPower, InBattery

(* The callbacks of a living client are not reset, and not replaced: a      *)
(* thread that found its predecessor dead sees that the counter has         *)
(* changed, and no other registration of its is on the way.                 *)
THEOREM LivingClientsAreKept ==
  ASSUME AsksOnly
  PROVE  /\ Radio!Spec => LiveClientKept
         /\ ServicesSpec => LiveClientKept
<1>1. ClientInv /\ [Radio!Next]_Radio!vars =>
        (radioClient.session # 0 /\ radioClient.session = Radio!Current =>
           radioClient'.session = radioClient.session)
  <2> SUFFICES ASSUME ClientInv, [Radio!Next]_Radio!vars,
                      radioClient.session # 0,
                      radioClient.session = Radio!Current
               PROVE  radioClient'.session = radioClient.session
    OBVIOUS
  <2>1. CASE UNCHANGED radioClient
    BY <2>1
  <2>2. CASE Radio!SetResponseFunctions
    <3>1. /\ Radio!TakesCall
          /\ Head(inbox).method = Registers
          /\ Types
          /\ InboxInv
      BY <2>2 DEF Radio!SetResponseFunctions, Registers, ClientInv
    <3>2. /\ Head(inbox).session \in 1 .. phone.session
          /\ Head(inbox).session > radioClient.session
      BY <3>1, TakenCall
    <3>3. radioClient.session = phone.session /\ phone.session \in Nat
      BY <3>1 DEF Radio!Current, Types
    <3>4. QED
      BY <3>2, <3>3
  <2>3. ASSUME NEW t \in Radio!Threads,
               Radio!Works(t) PROVE radioClient' = radioClient
    BY <2>3, WorkStep
  <2>4. QED
    BY <2>1, <2>2, <2>3
      DEF Radio!Next, Radio!RpcThread, Radio!PhoneStarts, Radio!PhoneDies,
          Radio!Ask, Radio!Dispatch, Radio!Refuse, Radio!Complete,
          Radio!Indicate, Radio!Waiting, Radio!vars, Radio!serviceVars,
          Radio!Threads
<1>2. QED
  BY <1>1, ClientInit, ClientStep, RadioAlone, PTL
    DEF Radio!Spec, ServicesSpec, LiveClientKept, Radio!LiveClientKept
-----------------------------------------------------------------------------
(* With refusals only to clients that live, the thread without the lock     *)
(* never finds its client dead.                                             *)
Steady ==
  ~setting.mortal =>
    phone.session <= 1 /\ (phone.session = 1 => phone.alive)

(* Where a thread that works holds the lock, or has let go of it for a      *)
(* while.                                                                   *)
LockFollows(t) ==
  /\ thread[t].locked => thread[t].at # "rest"
  /\ ~thread[t].locked =>
       \/ thread[t].at = "rest"
       \/ /\ t = "rpc" /\ ~setting.mortal
          /\ thread[t].at \in {"test", "call", "finish"}
  /\ thread[t].at \in {"reset", "relock"} => setting.mortal

(* What a thread about to call has seen still holds.                        *)
CallFollows(t) ==
  thread[t].at = "call" =>
    /\ radioClient.session # 0
    /\ \/ Radio!Callable(thread[t].work)
       \/ thread[t].work.tells = "keepaliveStatus"

Held(t) == IF Radio!Holds(t) THEN 1 ELSE 0

LockInv ==
  /\ Steady
  /\ readers = Held("rpc") + Held("modem")
  /\ \A t \in Radio!Threads : LockFollows(t) /\ CallFollows(t)
  /\ Radio!NeverCallsNull

LEMMA LockInit == Radio!Init => LockInv
<1> SUFFICES ASSUME Radio!Init PROVE LockInv
  OBVIOUS
<1>1. Steady /\ Radio!NeverCallsNull
  BY DEF Radio!Init, Steady, Radio!NeverCallsNull
<1>2. \A t \in Radio!Threads : thread[t].at = "rest" /\ ~thread[t].locked
  BY DEF Radio!Init, Radio!Resting
<1>3. \A t \in Radio!Threads :
        LockFollows(t) /\ CallFollows(t) /\ ~Radio!Holds(t)
  BY <1>2 DEF LockFollows, CallFollows, Radio!Holds
<1>4. readers = Held("rpc") + Held("modem")
  BY <1>3 DEF Radio!Init, Held, Radio!Threads
<1>5. QED
  BY <1>1, <1>3, <1>4 DEF LockInv

(* A step that leaves the service alone and the phone process steady.       *)
LEMMA LockUntouched ==
  ASSUME LockInv, Steady',
         UNCHANGED <<setting, radioClient, readers, thread, crash>>
  PROVE  LockInv'
<1>1. \A t \in Radio!Threads :
        /\ (LockFollows(t) /\ CallFollows(t))'
        /\ Radio!Holds(t)' = Radio!Holds(t)
  BY DEF LockInv, LockFollows, CallFollows, Radio!Callable, Radio!Holds,
       Radio!IsAnswer
<1>2. Held("rpc")' = Held("rpc") /\ Held("modem")' = Held("modem")
  BY <1>1 DEF Held, Radio!Threads
<1>3. Radio!NeverCallsNull'
  BY DEF LockInv, Radio!NeverCallsNull
<1>4. QED
  BY <1>1, <1>2, <1>3 DEF LockInv

LEMMA LockPhoneStep ==
  ASSUME ClientInv, LockInv,
         \/ Radio!PhoneStarts
         \/ Radio!PhoneDies
         \/ \E m \in setting.asks : Radio!Ask(m)
  PROVE  LockInv'
<1>1. UNCHANGED <<setting, radioClient, readers, thread, crash>>
  BY DEF Radio!PhoneStarts, Radio!PhoneDies, Radio!Ask, Radio!serviceVars
<1>2. Steady /\ phone.session \in Nat
  BY DEF LockInv, ClientInv, Types
<1>3. Steady'
  <2>1. CASE Radio!PhoneStarts
    <3>1. ~phone.alive /\ phone'.session = phone.session + 1 /\ phone'.alive
      BY <2>1 DEF Radio!PhoneStarts
    <3>2. ~setting.mortal => phone.session = 0
      BY <1>2, <3>1 DEF Steady
    <3>3. QED
      BY <1>1, <3>1, <3>2 DEF Steady
  <2>2. CASE Radio!PhoneDies
    BY <1>1, <2>2 DEF Radio!PhoneDies, Steady
  <2>3. CASE \E m \in setting.asks : Radio!Ask(m)
    BY <1>1, <1>2, <2>3 DEF Radio!Ask, Steady
  <2>4. QED
    BY <2>1, <2>2, <2>3
<1>4. QED
  BY <1>1, <1>3, LockUntouched

(* When nobody is left to die the client lives, so nobody finds it dead.    *)
LEMMA LivesWithSteady ==
  ASSUME ClientInv, LockInv, ~setting.mortal, radioClient.session # 0
  PROVE  radioClient.session = Radio!Current
<1>1. /\ phone.session \in Nat /\ radioClient.session \in Nat
      /\ radioClient.session <= phone.session
  BY DEF ClientInv, Types, InboxInv
<1>2. phone.session <= 1 /\ (phone.session = 1 => phone.alive)
  BY DEF LockInv, Steady
<1>3. QED
  BY <1>1, <1>2 DEF Radio!Current

(* Whoever waits for the write lock gets it when no thread holds a read     *)
(* lock: the other one is not about to call.                                *)
LEMMA NobodyCalls ==
  ASSUME LockInv, readers = 0, NEW t \in Radio!Threads, thread[t].at = "call"
  PROVE  t = "rpc" /\ ~setting.mortal
<1>1. ~Radio!Holds(t)
  BY DEF LockInv, Held, Radio!Threads
<1>2. ~thread[t].locked
  BY <1>1 DEF Radio!Holds
<1>3. QED
  BY <1>2 DEF LockInv, LockFollows

(* One thread moves on, and the count of readers with it.                   *)
LEMMA ReaderMoves ==
  ASSUME LockInv, NEW t \in Radio!Threads, ~crash',
         UNCHANGED <<setting, phone>>,
         \/ radioClient' = radioClient
         \/ \A u \in Radio!Threads : thread'[u].at # "call",
         \A u \in Radio!Threads : u # t => thread'[u] = thread[u],
         LockFollows(t)', CallFollows(t)',
         readers' = readers + Held(t)' - Held(t)
  PROVE  LockInv'
<1>1. ASSUME NEW u \in Radio!Threads, u # t
      PROVE  (LockFollows(u) /\ CallFollows(u))' /\ Held(u)' = Held(u)
  BY <1>1
    DEF LockInv, LockFollows, CallFollows, Radio!Callable, Held, Radio!Holds,
        Radio!IsAnswer
<1>2. Held("rpc") \in {0, 1} /\ Held("modem") \in {0, 1}
  BY DEF Held
<1>3. Held("rpc")' \in {0, 1} /\ Held("modem")' \in {0, 1}
  BY DEF Held
<1>4. readers' = Held("rpc")' + Held("modem")'
  <2>1. readers = Held("rpc") + Held("modem") /\ t \in {"rpc", "modem"}
    BY DEF LockInv, Radio!Threads
  <2>2. CASE t = "rpc"
    BY <1>1, <1>2, <1>3, <2>1, <2>2 DEF Radio!Threads
  <2>3. CASE t = "modem"
    BY <1>1, <1>2, <1>3, <2>1, <2>3 DEF Radio!Threads
  <2>4. QED
    BY <2>1, <2>2, <2>3
<1>5. Steady' /\ Radio!NeverCallsNull'
  BY DEF LockInv, Steady, Radio!NeverCallsNull
<1>6. QED
  BY <1>1, <1>4, <1>5 DEF LockInv

LEMMA LockCallStep ==
  ASSUME NoRefusalToTheDead, ClientInv, LockInv,
         Radio!SetResponseFunctions \/ Radio!Dispatch \/ Radio!Refuse
  PROVE  LockInv'
<1>1. /\ UNCHANGED <<setting, phone, crash>> /\ ~crash
      /\ thread["rpc"].at = "rest" /\ "rpc" \in Radio!Threads
  BY DEF Radio!SetResponseFunctions, Radio!Dispatch, Radio!Refuse,
       Radio!TakesCall, Radio!Threads
<1>2. ThreadTypes /\ readers \in Nat /\ setting \in Settings
  BY DEF ClientInv, Types
<1>3. ~Radio!Holds("rpc")
  BY <1>1 DEF Radio!Holds
<1>4. "lock" \in Radio!Places /\ "test" \in Radio!Places
  BY DEF Radio!Places
<1>5. CASE Radio!SetResponseFunctions
  <2> DEFINE work == [Radio!NoWork EXCEPT !.tells = "rilConnected"]
  <2>1. /\ Radio!Begins("rpc", "lock", TRUE, work)
        /\ readers = 0
        /\ readers' = readers
    BY <1>5 DEF Radio!SetResponseFunctions
  <2> HIDE DEF work
  <2>2. /\ thread'["rpc"] =
             [at |-> "lock", work |-> work, locked |-> TRUE, noted |-> 0]
        /\ \A u \in Radio!Threads : u # "rpc" => thread'[u] = thread[u]
    BY <1>1, <1>2, <1>4, <2>1, WorkBegins, Zenon
  <2>3. ASSUME NEW u \in Radio!Threads PROVE thread'[u].at # "call"
    BY <2>1, <2>2, NobodyCalls
  <2>4. LockFollows("rpc")' /\ CallFollows("rpc")' /\ ~Radio!Holds("rpc")'
    BY <2>2 DEF LockFollows, CallFollows, Radio!Holds
  <2>5. readers' = readers + Held("rpc")' - Held("rpc")
    BY <1>2, <1>3, <2>1, <2>4 DEF Held
  <2>6. QED
    BY <1>1, <2>2, <2>3, <2>4, <2>5, ReaderMoves
<1>6. CASE Radio!Dispatch
  <2>1. UNCHANGED <<radioClient, readers, thread>>
    BY <1>6 DEF Radio!Dispatch
  <2>2. Steady'
    BY <1>1 DEF LockInv, Steady
  <2>3. QED
    BY <1>1, <2>1, <2>2, LockUntouched
<1>7. CASE Radio!Refuse
  <2>1. UNCHANGED <<radioClient, readers>> /\ setting.refuses
    BY <1>7 DEF Radio!Refuse
  <2>2. PICK work : Radio!Begins("rpc", "test", FALSE, work)
    BY <1>7 DEF Radio!Refuse, Radio!AnswersItself
  <2>3. /\ thread'["rpc"] =
             [at |-> "test", work |-> work, locked |-> FALSE, noted |-> 0]
        /\ \A u \in Radio!Threads : u # "rpc" => thread'[u] = thread[u]
    BY <1>1, <1>2, <1>4, <2>2, WorkBegins, Zenon
  <2>4. ~setting'.mortal
    BY <1>1, <1>2, <2>1 DEF NoRefusalToTheDead
  <2>5. LockFollows("rpc")' /\ CallFollows("rpc")' /\ ~Radio!Holds("rpc")'
    BY <2>3, <2>4 DEF LockFollows, CallFollows, Radio!Holds
  <2>6. readers' = readers + Held("rpc")' - Held("rpc")
    BY <1>2, <1>3, <2>1, <2>5 DEF Held
  <2>7. QED
    BY <1>1, <2>1, <2>3, <2>5, <2>6, ReaderMoves
<1>8. QED
  BY <1>5, <1>6, <1>7

LEMMA LockVendorStep ==
  ASSUME ClientInv, LockInv, Radio!Complete \/ Radio!Indicate
  PROVE  LockInv'
<1>1. /\ UNCHANGED <<setting, phone, radioClient, readers, crash>>
      /\ thread["modem"].at = "rest"
      /\ thread'["modem"].at = "lock" /\ thread'["modem"].locked
      /\ thread'["rpc"] = thread["rpc"] /\ ~crash
  BY VendorStep DEF Radio!Complete, Radio!Indicate
<1>2. /\ LockFollows("modem")'
      /\ CallFollows("modem")'
      /\ ~Radio!Holds("modem")'
      /\ ~Radio!Holds("modem")
  BY <1>1 DEF LockFollows, CallFollows, Radio!Holds
<1>3. readers' = readers + Held("modem")' - Held("modem")
  BY <1>1, <1>2 DEF Held, ClientInv, Types
<1>4. /\ "modem" \in Radio!Threads
      /\ \A u \in Radio!Threads : u # "modem" => thread'[u] = thread[u]
  BY <1>1 DEF Radio!Threads
<1>5. QED
  BY <1>1, <1>2, <1>3, <1>4, ReaderMoves

(* A function lets a thread call only through what it has tested.           *)
LEMMA TestedIsCallable ==
  ASSUME NEW work, Radio!Registered(work)
 
  PROVE  /\ radioClient.session # 0
         /\ Radio!Callable(work) \/ work.tells = "keepaliveStatus"
  BY DEF Radio!Registered, Radio!Callable, Radio!Uses11, Radio!IsAnswer

LEMMA LockWorkStep ==
  ASSUME ClientInv, LockInv, NEW t \in Radio!Threads, Radio!Works(t)
  PROVE  LockInv'
<1>1. /\ Types /\ ThreadTypes /\ readers \in Nat
      /\ LockFollows(t) /\ CallFollows(t)
  BY DEF ClientInv, LockInv, Types
<1>2. /\ UNCHANGED <<setting, phone>> /\ ~crash
      /\ \A u \in Radio!Threads : u # t => thread'[u] = thread[u]
  BY <1>1, WorkMoves
    DEF Radio!Works, Radio!Lock, Radio!Test, Radio!Tell, Radio!TellFails,
        Radio!TellCrashes, Radio!Reset, Radio!Relock, Radio!Finish, Radio!At
<1>3. thread[t].locked \in BOOLEAN /\ counter \in Nat
  BY <1>1 DEF ThreadTypes, Shaped, Types
<1>4. ASSUME NEW place \in Radio!Places, Radio!Goes(t, place)
      PROVE  /\ thread'[t].at = place /\ thread'[t].work = thread[t].work
             /\ thread'[t].locked = thread[t].locked
  <2>1. thread'[t] = [at |-> place, work |-> thread[t].work,
                     locked |-> thread[t].locked, noted |-> thread[t].noted]
    BY <1>1, <1>4, GoesOn
  <2>2. QED
    BY <2>1
<1>5. Radio!Holds(t) => readers >= 1
  BY DEF LockInv, Held, Radio!Threads
<1>6. Radio!Places =
        {"rest", "lock", "test", "call", "reset", "relock", "finish"}
  BY DEF Radio!Places
<1>7. CASE Radio!Lock(t)
  <2>1. /\ thread[t].at = "lock"
        /\ readers' = readers + 1
        /\ Radio!Goes(t, "test")
        /\ UNCHANGED <<radioClient, crash>>
    BY <1>7 DEF Radio!Lock, Radio!At
  <2>2. /\ thread'[t].at = "test" /\ thread'[t].locked = thread[t].locked
        /\ thread[t].locked
    BY <1>1, <1>4, <1>6, <2>1 DEF LockFollows
  <2>3. /\ ~Radio!Holds(t)
        /\ Radio!Holds(t)'
        /\ LockFollows(t)'
        /\ CallFollows(t)'
    BY <2>1, <2>2 DEF Radio!Holds, LockFollows, CallFollows
  <2>4. readers' = readers + Held(t)' - Held(t)
    BY <1>1, <2>1, <2>3 DEF Held
  <2>5. QED
    BY <1>2, <2>1, <2>3, <2>4, ReaderMoves
<1>8. CASE Radio!Test(t)
  <2>1. /\ thread[t].at = "test" /\ UNCHANGED <<radioClient, readers, crash>>
        /\ \/ Radio!Goes(t, "call") /\ Radio!Registered(thread[t].work)
           \/ Radio!Goes(t, "finish")
    BY <1>8 DEF Radio!Test, Radio!At
  <2>2. /\ thread'[t].at \in {"call", "finish"}
        /\ thread'[t].at = "call" => Radio!Registered(thread[t].work)
        /\ thread'[t].work = thread[t].work
        /\ thread'[t].locked = thread[t].locked
    BY <1>4, <1>6, <2>1
  <2>3. Radio!Holds(t)' = Radio!Holds(t) /\ LockFollows(t)'
    BY <1>1, <1>2, <2>1, <2>2 DEF Radio!Holds, LockFollows
  <2>4. CallFollows(t)'
    <3>1. SUFFICES ASSUME thread'[t].at = "call" PROVE CallFollows(t)'
      BY DEF CallFollows
    <3>2. radioClient.session # 0
          /\ \/ Radio!Callable(thread[t].work)
             \/ thread[t].work.tells = "keepaliveStatus"
      BY <2>2, <3>1, TestedIsCallable
    <3>3. QED
      BY <2>1, <2>2, <3>2 DEF CallFollows, Radio!Callable, Radio!IsAnswer
  <2>5. readers' = readers + Held(t)' - Held(t)
    BY <1>1, <2>1, <2>3 DEF Held
  <2>6. QED
    BY <1>2, <2>1, <2>3, <2>4, <2>5, ReaderMoves
<1>9. CASE Radio!Tell(t)
  <2>1. /\ thread[t].at = "call" /\ UNCHANGED <<radioClient, readers, crash>>
        /\ Radio!Goes(t, "finish")
    BY <1>9 DEF Radio!Tell, Radio!At
  <2>2. thread'[t].at = "finish" /\ thread'[t].locked = thread[t].locked
    BY <1>4, <1>6, <2>1
  <2>3. Radio!Holds(t)' = Radio!Holds(t) /\ LockFollows(t)' /\ CallFollows(t)'
    BY <1>1, <1>2, <2>1, <2>2 DEF Radio!Holds, LockFollows, CallFollows
  <2>4. readers' = readers + Held(t)' - Held(t)
    BY <1>1, <2>1, <2>3 DEF Held
  <2>5. QED
    BY <1>2, <2>1, <2>3, <2>4, ReaderMoves
<1>10. CASE Radio!TellFails(t)
  <2>1. /\ thread[t].at = "call"
        /\ UNCHANGED <<radioClient, crash>>
        /\ readers' = Radio!LetGo
        /\ thread' = [thread EXCEPT ![t].at = "reset", ![t].noted = counter]
        /\ radioClient.session # 0 /\ radioClient.session # Radio!Current
    BY <1>10 DEF Radio!TellFails, Radio!At, Radio!Callable
  <2>2. setting.mortal
    BY <2>1, LivesWithSteady
  <2>3. thread[t].locked
    BY <1>1, <2>1, <2>2 DEF LockFollows
  <2>4. thread'[t].at = "reset" /\ thread'[t].locked = thread[t].locked
    <3>1. thread'[t] = [at |-> "reset", work |-> thread[t].work,
                       locked |-> thread[t].locked, noted |-> counter]
      BY <1>1, <1>3, <2>1, NotesDown
    <3>2. QED
      BY <3>1
  <2>5. /\ Radio!Holds(t)
        /\ ~Radio!Holds(t)'
        /\ LockFollows(t)'
        /\ CallFollows(t)'
    BY <1>2, <2>1, <2>2, <2>3, <2>4 DEF Radio!Holds, LockFollows, CallFollows
  <2>6. readers' = readers + Held(t)' - Held(t)
    BY <1>1, <1>5, <2>1, <2>5 DEF Held, Radio!LetGo
  <2>7. QED
    BY <1>2, <2>1, <2>5, <2>6, ReaderMoves
<1>11. CASE Radio!TellCrashes(t)
  <2>1. /\ thread[t].at = "call" /\ ~Radio!Callable(thread[t].work)
        /\ UNCHANGED <<radioClient, readers, thread>>
    BY <1>11 DEF Radio!TellCrashes, Radio!At
  <2>2. thread[t].work.tells = "keepaliveStatus" /\ ~radioClient.v11
    BY <1>1, <2>1 DEF CallFollows, Radio!Callable
  <2>3. Radio!NeverCallsNull'
    BY <2>1, <2>2 DEF Radio!NeverCallsNull
  <2>4. ASSUME NEW u \in Radio!Threads
        PROVE  (LockFollows(u) /\ CallFollows(u))' /\ Held(u)' = Held(u)
    BY <1>2, <2>1
      DEF LockInv, LockFollows, CallFollows, Radio!Callable, Radio!IsAnswer,
          Held, Radio!Holds
  <2>5. Steady'
    BY <1>2 DEF LockInv, Steady
  <2>6. readers' = Held("rpc")' + Held("modem")'
    BY <2>1, <2>4 DEF LockInv, Radio!Threads
  <2>7. QED
    BY <2>3, <2>4, <2>5, <2>6 DEF LockInv
<1>12. CASE Radio!Reset(t)
  <2>1. /\ thread[t].at = "reset" /\ readers = 0 /\ readers' = readers
        /\ Radio!Goes(t, "relock") /\ UNCHANGED crash
    BY <1>12 DEF Radio!Reset, Radio!At
  <2>2. thread'[t].at = "relock" /\ thread'[t].locked = thread[t].locked
    BY <1>4, <1>6, <2>1
  <2>3. setting.mortal
    BY <1>1, <2>1 DEF LockFollows
  <2>4. ASSUME NEW u \in Radio!Threads PROVE thread'[u].at # "call"
    BY <1>2, <2>1, <2>2, <2>3, NobodyCalls
  <2>5. /\ ~Radio!Holds(t)
        /\ ~Radio!Holds(t)'
        /\ LockFollows(t)'
        /\ CallFollows(t)'
    BY <1>1, <1>2, <2>1, <2>2, <2>3 DEF Radio!Holds, LockFollows, CallFollows
  <2>6. readers' = readers + Held(t)' - Held(t)
    BY <1>1, <2>1, <2>5 DEF Held
  <2>7. QED
    BY <1>2, <2>1, <2>4, <2>5, <2>6, ReaderMoves
<1>13. CASE Radio!Relock(t)
  <2>1. /\ thread[t].at = "relock" /\ readers' = readers + 1
        /\ Radio!Goes(t, "finish") /\ UNCHANGED <<radioClient, crash>>
    BY <1>13 DEF Radio!Relock, Radio!At, Radio!Retaken
  <2>2. thread'[t].at = "finish" /\ thread'[t].locked = thread[t].locked
    BY <1>4, <1>6, <2>1
  <2>3. thread[t].locked
    BY <1>1, <2>1 DEF LockFollows
  <2>4. /\ ~Radio!Holds(t)
        /\ Radio!Holds(t)'
        /\ LockFollows(t)'
        /\ CallFollows(t)'
    BY <2>1, <2>2, <2>3 DEF Radio!Holds, LockFollows, CallFollows
  <2>5. readers' = readers + Held(t)' - Held(t)
    BY <1>1, <2>1, <2>4 DEF Held
  <2>6. QED
    BY <1>2, <2>1, <2>4, <2>5, ReaderMoves
<1>14. CASE Radio!Finish(t)
  <2>1. /\ thread[t].at = "finish" /\ readers' = Radio!LockAfter(t)
        /\ thread' = [thread EXCEPT ![t] = Radio!Resting]
        /\ UNCHANGED <<radioClient, crash>>
    BY <1>14 DEF Radio!Finish, Radio!At
  <2>2. thread'[t] = Radio!Resting
    BY <1>1, <2>1 DEF ThreadTypes
  <2>3. thread'[t].at = "rest" /\ ~thread'[t].locked
    BY <2>2 DEF Radio!Resting
  <2>4. ~Radio!Holds(t)' /\ LockFollows(t)' /\ CallFollows(t)'
    BY <2>3 DEF Radio!Holds, LockFollows, CallFollows
  <2>5. Radio!Holds(t) <=> thread[t].locked
    BY <2>1 DEF Radio!Holds
  <2>6. readers' = readers + Held(t)' - Held(t)
    BY <1>1, <1>5, <2>1, <2>4, <2>5 DEF Held, Radio!LockAfter, Radio!LetGo
  <2>7. QED
    BY <1>2, <2>1, <2>4, <2>6, ReaderMoves
<1>15. QED
  BY <1>7, <1>8, <1>9, <1>10, <1>11, <1>12, <1>13, <1>14 DEF Radio!Works

LEMMA LockStep ==
  NoRefusalToTheDead /\ ClientInv /\ LockInv /\ [Radio!Next]_Radio!vars
    => LockInv'
<1> SUFFICES ASSUME NoRefusalToTheDead, ClientInv, LockInv,
                    [Radio!Next]_Radio!vars
             PROVE  LockInv'
  OBVIOUS
<1>1. CASE UNCHANGED Radio!vars
  <2>1. /\ UNCHANGED <<setting, radioClient, readers, thread, crash>>
        /\ phone' = phone
    BY <1>1 DEF Radio!vars, Radio!phoneVars, Radio!serviceVars
  <2>2. Steady'
    BY <2>1 DEF LockInv, Steady
  <2>3. QED
    BY <2>1, <2>2, LockUntouched
<1>2. CASE \/ Radio!PhoneStarts
           \/ Radio!PhoneDies
           \/ \E m \in setting.asks : Radio!Ask(m)
  BY <1>2, LockPhoneStep
<1>3. CASE Radio!SetResponseFunctions \/ Radio!Dispatch \/ Radio!Refuse
  BY <1>3, LockCallStep
<1>4. CASE Radio!Complete \/ Radio!Indicate
  BY <1>4, LockVendorStep
<1>5. CASE Radio!Works("rpc") \/ Radio!Works("modem")
  BY <1>5, LockWorkStep DEF Radio!Threads
<1>6. QED
  BY <1>1, <1>2, <1>3, <1>4, <1>5
    DEF Radio!Next, Radio!RpcThread, Radio!Waiting

(* The callbacks a thread has tested are not reset before it calls through  *)
(* them, although each failed call lets go of the lock in the middle of a   *)
(* response function.                                                       *)
THEOREM NullIsNeverCalled ==
  ASSUME AsksOnly, NoRefusalToTheDead
  PROVE  /\ Radio!Spec => []NeverCallsNull
         /\ ServicesSpec => []NeverCallsNull
<1>1. LockInv => NeverCallsNull
  BY DEF LockInv, NeverCallsNull
<1>2. QED
  BY <1>1, ClientInit, ClientStep, LockInit, LockStep, RadioAlone, PTL
    DEF Radio!Spec, ServicesSpec

(* Radio's Cardinality is that of this module.                              *)
LEMMA SameCardinality ==
  ASSUME NEW S PROVE Radio!Cardinality(S) = Cardinality(S)
BY DEF Cardinality, Radio!Cardinality

LEMMA BalancedMeans ==
  Radio!LockBalanced <=>
    readers = Cardinality({t \in Radio!Threads : Radio!Holds(t)})
<1>1. Radio!LockBalanced <=>
        readers = Radio!Cardinality({t \in Radio!Threads : Radio!Holds(t)})
  BY DEF Radio!LockBalanced
<1> QED
  BY <1>1, SameCardinality

(* The read lock is held once for every thread inside a function that       *)
(* ril.cpp called: no way through checkReturnStatus leaks a hold or takes   *)
(* another thread's.                                                        *)
THEOREM ReadersAreCounted ==
  ASSUME AsksOnly, NoRefusalToTheDead
  PROVE  /\ Radio!Spec => []Radio!LockBalanced
         /\ ServicesSpec => []Radio!LockBalanced
<1>1. LockInv => Radio!LockBalanced
  <2> SUFFICES ASSUME LockInv PROVE Radio!LockBalanced
    OBVIOUS
  <2> DEFINE H == {t \in Radio!Threads : Radio!Holds(t)}
  <2>1. readers = Held("rpc") + Held("modem") /\ "rpc" # "modem"
    BY DEF LockInv
  <2>2. CASE Radio!Holds("rpc") /\ Radio!Holds("modem")
    <3>1. H = {"rpc", "modem"}
      BY <2>2 DEF Radio!Threads
    <3>2. Cardinality({"rpc"} \cup {"modem"}) = Cardinality({"rpc"}) + 1
      BY <2>1, FS_Singleton, FS_AddElement
    <3>3. Cardinality({"rpc", "modem"}) = 2
      <4>1. {"rpc"} \cup {"modem"} = {"rpc", "modem"}
        OBVIOUS
      <4>2. Cardinality({"rpc"}) = 1
        BY FS_Singleton
      <4>3. QED
        BY <3>2, <4>1, <4>2
    <3>4. QED
      BY <2>1, <2>2, <3>1, <3>3, BalancedMeans DEF Held
  <2>3. CASE Radio!Holds("rpc") /\ ~Radio!Holds("modem")
    <3>1. H = {"rpc"}
      BY <2>3 DEF Radio!Threads
    <3>2. QED
      BY <2>1, <2>3, <3>1, FS_Singleton, BalancedMeans DEF Held
  <2>4. CASE ~Radio!Holds("rpc") /\ Radio!Holds("modem")
    <3>1. H = {"modem"}
      BY <2>4 DEF Radio!Threads
    <3>2. QED
      BY <2>1, <2>4, <3>1, FS_Singleton, BalancedMeans DEF Held
  <2>5. CASE ~Radio!Holds("rpc") /\ ~Radio!Holds("modem")
    <3>1. H = {}
      BY <2>5 DEF Radio!Threads
    <3>2. QED
      BY <2>1, <2>5, <3>1, FS_EmptySet, BalancedMeans DEF Held
  <2>6. QED
    BY <2>2, <2>3, <2>4, <2>5
<1>2. QED
  BY <1>1, ClientInit, ClientStep, LockInit, LockStep, RadioAlone, PTL
    DEF Radio!Spec, ServicesSpec
-----------------------------------------------------------------------------
(* The tables.  What they say of each method is looked up row by row; all   *)
(* else about answers is proved for any rows that agree with it.            *)
RequestTables ==
  {Radio!SimAndCallRequests, Radio!NetworkAndSmsRequests,
   Radio!DataCallAndUssdRequests, Radio!CallSettingRequests,
   Radio!ScanAndToneRequests, Radio!ToolkitAndModeRequests,
   Radio!CdmaRequests, Radio!BroadcastRequests, Radio!SmscAndCellRequests,
   Radio!AttachRequests, Radio!ImsAndChannelRequests,
   Radio!SubscriptionRequests, Radio!DataProfileRequest,
   Radio!CapabilityRequests, Radio!StateAndKeepaliveRequests}

(* The response function f belongs to the method m, and so does the method  *)
(* "by" of the client's callback.                                           *)
RightFunction(m, f) ==
  \/ f = m
  \/ <<m, f>> \in {<<"getImsiForApp", "getIMSIForApp">>,
                   <<"hangup", "hangupConnection">>,
                   <<"setSimCardPower_1_1", "setSimCardPower">>}
RightCallback(m, by) ==
  \/ by = m
  \/ <<m, by>> \in {<<"getImsiForApp", "getIMSIForApp">>,
       <<"hangup", "hangupConnection">>,
       <<"hangupForegroundResumeBackground", "hangupWaitingOrBackground">>}
  \/ {m, by} = {"setSimCardPower", "setSimCardPower_1_1"}

(* A row of joined tables is a row of one of them.                          *)
LEMMA RowOfJoined ==
  ASSUME NEW tables, NEW x \in DOMAIN Radio!Joined(tables)
  PROVE  \E f \in tables : x \in DOMAIN f /\ Radio!Joined(tables)[x] = f[x]
  BY DEF Radio!Joined

(* What is to be seen of a method m and its request r.                      *)
AnsweredIn(table, m, r) ==
  r \in DOMAIN table => RightFunction(m, table[r])
RowFits(m, r) ==
  /\ m # Registers
  /\ r \in DOMAIN Radio!SimAndNetworkCommands
       \cup DOMAIN Radio!SettingsCommands \cup DOMAIN Radio!LaterCommands
  /\ AnsweredIn(Radio!SimAndNetworkCommands, m, r)
  /\ AnsweredIn(Radio!SettingsCommands, m, r)
  /\ AnsweredIn(Radio!LaterCommands, m, r)

LEMMA FittingRow ==
  ASSUME NEW m, NEW r, RowFits(m, r)
  PROVE  RightFunction(m, Radio!Commands[r])
<1> DEFINE tables == {Radio!SimAndNetworkCommands, Radio!SettingsCommands,
                      Radio!LaterCommands}
<1>1. Radio!Commands = Radio!Joined(tables)
  BY DEF Radio!Commands
<1>2. r \in DOMAIN Radio!Joined(tables)
  BY DEF RowFits, Radio!Joined
<1>3. \E f \in tables : r \in DOMAIN f /\ Radio!Joined(tables)[r] = f[r]
  <2> HIDE DEF tables
  <2> QED
    BY <1>2, RowOfJoined
<1>4. QED
  BY <1>1, <1>3 DEF RowFits, AnsweredIn

(* The row of ril_commands.h that a method's request has names its function. *)
LEMMA RowsAreRight ==
  ASSUME NEW table \in RequestTables, NEW m \in DOMAIN table
  PROVE  RowFits(m, table[m][1])
<1> DEFINE r == table[m][1]
<1>1. CASE table = Radio!SimAndCallRequests
  <2>1. m # Registers /\ r \in DOMAIN Radio!SimAndNetworkCommands
          \cup DOMAIN Radio!SettingsCommands \cup DOMAIN Radio!LaterCommands
    BY <1>1
      DEF Registers, Radio!SimAndCallRequests,
          Radio!SimAndNetworkCommands, Radio!SettingsCommands,
          Radio!LaterCommands
  <2>2. AnsweredIn(Radio!SimAndNetworkCommands, m, r)
    BY <1>1
      DEF AnsweredIn, RightFunction, Radio!SimAndCallRequests,
          Radio!SimAndNetworkCommands
  <2>3. AnsweredIn(Radio!SettingsCommands, m, r)
    BY <1>1
      DEF AnsweredIn, RightFunction, Radio!SimAndCallRequests,
          Radio!SettingsCommands
  <2>4. AnsweredIn(Radio!LaterCommands, m, r)
    BY <1>1
      DEF AnsweredIn, RightFunction, Radio!SimAndCallRequests,
          Radio!LaterCommands
  <2>5. QED
    BY <2>1, <2>2, <2>3, <2>4 DEF RowFits
<1>2. CASE table = Radio!NetworkAndSmsRequests
  <2>1. m # Registers /\ r \in DOMAIN Radio!SimAndNetworkCommands
          \cup DOMAIN Radio!SettingsCommands \cup DOMAIN Radio!LaterCommands
    BY <1>2
      DEF Registers, Radio!NetworkAndSmsRequests,
          Radio!SimAndNetworkCommands, Radio!SettingsCommands,
          Radio!LaterCommands
  <2>2. AnsweredIn(Radio!SimAndNetworkCommands, m, r)
    BY <1>2
      DEF AnsweredIn, RightFunction, Radio!NetworkAndSmsRequests,
          Radio!SimAndNetworkCommands
  <2>3. AnsweredIn(Radio!SettingsCommands, m, r)
    BY <1>2
      DEF AnsweredIn, RightFunction, Radio!NetworkAndSmsRequests,
          Radio!SettingsCommands
  <2>4. AnsweredIn(Radio!LaterCommands, m, r)
    BY <1>2
      DEF AnsweredIn, RightFunction, Radio!NetworkAndSmsRequests,
          Radio!LaterCommands
  <2>5. QED
    BY <2>1, <2>2, <2>3, <2>4 DEF RowFits
<1>3. CASE table = Radio!DataCallAndUssdRequests
  <2>1. m # Registers /\ r \in DOMAIN Radio!SimAndNetworkCommands
          \cup DOMAIN Radio!SettingsCommands \cup DOMAIN Radio!LaterCommands
    BY <1>3
      DEF Registers, Radio!DataCallAndUssdRequests,
          Radio!SimAndNetworkCommands, Radio!SettingsCommands,
          Radio!LaterCommands
  <2>2. AnsweredIn(Radio!SimAndNetworkCommands, m, r)
    BY <1>3
      DEF AnsweredIn, RightFunction, Radio!DataCallAndUssdRequests,
          Radio!SimAndNetworkCommands
  <2>3. AnsweredIn(Radio!SettingsCommands, m, r)
    BY <1>3
      DEF AnsweredIn, RightFunction, Radio!DataCallAndUssdRequests,
          Radio!SettingsCommands
  <2>4. AnsweredIn(Radio!LaterCommands, m, r)
    BY <1>3
      DEF AnsweredIn, RightFunction, Radio!DataCallAndUssdRequests,
          Radio!LaterCommands
  <2>5. QED
    BY <2>1, <2>2, <2>3, <2>4 DEF RowFits
<1>4. CASE table = Radio!CallSettingRequests
  <2>1. m # Registers /\ r \in DOMAIN Radio!SimAndNetworkCommands
          \cup DOMAIN Radio!SettingsCommands \cup DOMAIN Radio!LaterCommands
    BY <1>4
      DEF Registers, Radio!CallSettingRequests,
          Radio!SimAndNetworkCommands, Radio!SettingsCommands,
          Radio!LaterCommands
  <2>2. AnsweredIn(Radio!SimAndNetworkCommands, m, r)
    BY <1>4
      DEF AnsweredIn, RightFunction, Radio!CallSettingRequests,
          Radio!SimAndNetworkCommands
  <2>3. AnsweredIn(Radio!SettingsCommands, m, r)
    BY <1>4
      DEF AnsweredIn, RightFunction, Radio!CallSettingRequests,
          Radio!SettingsCommands
  <2>4. AnsweredIn(Radio!LaterCommands, m, r)
    BY <1>4
      DEF AnsweredIn, RightFunction, Radio!CallSettingRequests,
          Radio!LaterCommands
  <2>5. QED
    BY <2>1, <2>2, <2>3, <2>4 DEF RowFits
<1>5. CASE table = Radio!ScanAndToneRequests
  <2>1. m # Registers /\ r \in DOMAIN Radio!SimAndNetworkCommands
          \cup DOMAIN Radio!SettingsCommands \cup DOMAIN Radio!LaterCommands
    BY <1>5
      DEF Registers, Radio!ScanAndToneRequests,
          Radio!SimAndNetworkCommands, Radio!SettingsCommands,
          Radio!LaterCommands
  <2>2. AnsweredIn(Radio!SimAndNetworkCommands, m, r)
    BY <1>5
      DEF AnsweredIn, RightFunction, Radio!ScanAndToneRequests,
          Radio!SimAndNetworkCommands
  <2>3. AnsweredIn(Radio!SettingsCommands, m, r)
    BY <1>5
      DEF AnsweredIn, RightFunction, Radio!ScanAndToneRequests,
          Radio!SettingsCommands
  <2>4. AnsweredIn(Radio!LaterCommands, m, r)
    BY <1>5
      DEF AnsweredIn, RightFunction, Radio!ScanAndToneRequests,
          Radio!LaterCommands
  <2>5. QED
    BY <2>1, <2>2, <2>3, <2>4 DEF RowFits
<1>6. CASE table = Radio!ToolkitAndModeRequests
  <2>1. m # Registers /\ r \in DOMAIN Radio!SimAndNetworkCommands
          \cup DOMAIN Radio!SettingsCommands \cup DOMAIN Radio!LaterCommands
    BY <1>6
      DEF Registers, Radio!ToolkitAndModeRequests,
          Radio!SimAndNetworkCommands, Radio!SettingsCommands,
          Radio!LaterCommands
  <2>2. AnsweredIn(Radio!SimAndNetworkCommands, m, r)
    BY <1>6
      DEF AnsweredIn, RightFunction, Radio!ToolkitAndModeRequests,
          Radio!SimAndNetworkCommands
  <2>3. AnsweredIn(Radio!SettingsCommands, m, r)
    BY <1>6
      DEF AnsweredIn, RightFunction, Radio!ToolkitAndModeRequests,
          Radio!SettingsCommands
  <2>4. AnsweredIn(Radio!LaterCommands, m, r)
    BY <1>6
      DEF AnsweredIn, RightFunction, Radio!ToolkitAndModeRequests,
          Radio!LaterCommands
  <2>5. QED
    BY <2>1, <2>2, <2>3, <2>4 DEF RowFits
<1>7. CASE table = Radio!CdmaRequests
  <2>1. m # Registers /\ r \in DOMAIN Radio!SimAndNetworkCommands
          \cup DOMAIN Radio!SettingsCommands \cup DOMAIN Radio!LaterCommands
    BY <1>7
      DEF Registers, Radio!CdmaRequests,
          Radio!SimAndNetworkCommands, Radio!SettingsCommands,
          Radio!LaterCommands
  <2>2. AnsweredIn(Radio!SimAndNetworkCommands, m, r)
    BY <1>7
      DEF AnsweredIn, RightFunction, Radio!CdmaRequests,
          Radio!SimAndNetworkCommands
  <2>3. AnsweredIn(Radio!SettingsCommands, m, r)
    BY <1>7
      DEF AnsweredIn, RightFunction, Radio!CdmaRequests,
          Radio!SettingsCommands
  <2>4. AnsweredIn(Radio!LaterCommands, m, r)
    BY <1>7
      DEF AnsweredIn, RightFunction, Radio!CdmaRequests,
          Radio!LaterCommands
  <2>5. QED
    BY <2>1, <2>2, <2>3, <2>4 DEF RowFits
<1>8. CASE table = Radio!BroadcastRequests
  <2>1. m # Registers /\ r \in DOMAIN Radio!SimAndNetworkCommands
          \cup DOMAIN Radio!SettingsCommands \cup DOMAIN Radio!LaterCommands
    BY <1>8
      DEF Registers, Radio!BroadcastRequests,
          Radio!SimAndNetworkCommands, Radio!SettingsCommands,
          Radio!LaterCommands
  <2>2. AnsweredIn(Radio!SimAndNetworkCommands, m, r)
    BY <1>8
      DEF AnsweredIn, RightFunction, Radio!BroadcastRequests,
          Radio!SimAndNetworkCommands
  <2>3. AnsweredIn(Radio!SettingsCommands, m, r)
    BY <1>8
      DEF AnsweredIn, RightFunction, Radio!BroadcastRequests,
          Radio!SettingsCommands
  <2>4. AnsweredIn(Radio!LaterCommands, m, r)
    BY <1>8
      DEF AnsweredIn, RightFunction, Radio!BroadcastRequests,
          Radio!LaterCommands
  <2>5. QED
    BY <2>1, <2>2, <2>3, <2>4 DEF RowFits
<1>9. CASE table = Radio!SmscAndCellRequests
  <2>1. m # Registers /\ r \in DOMAIN Radio!SimAndNetworkCommands
          \cup DOMAIN Radio!SettingsCommands \cup DOMAIN Radio!LaterCommands
    BY <1>9
      DEF Registers, Radio!SmscAndCellRequests,
          Radio!SimAndNetworkCommands, Radio!SettingsCommands,
          Radio!LaterCommands
  <2>2. AnsweredIn(Radio!SimAndNetworkCommands, m, r)
    BY <1>9
      DEF AnsweredIn, RightFunction, Radio!SmscAndCellRequests,
          Radio!SimAndNetworkCommands
  <2>3. AnsweredIn(Radio!SettingsCommands, m, r)
    BY <1>9
      DEF AnsweredIn, RightFunction, Radio!SmscAndCellRequests,
          Radio!SettingsCommands
  <2>4. AnsweredIn(Radio!LaterCommands, m, r)
    BY <1>9
      DEF AnsweredIn, RightFunction, Radio!SmscAndCellRequests,
          Radio!LaterCommands
  <2>5. QED
    BY <2>1, <2>2, <2>3, <2>4 DEF RowFits
<1>10. CASE table = Radio!AttachRequests
  <2>1. m # Registers /\ r \in DOMAIN Radio!SimAndNetworkCommands
          \cup DOMAIN Radio!SettingsCommands \cup DOMAIN Radio!LaterCommands
    BY <1>10
      DEF Registers, Radio!AttachRequests,
          Radio!SimAndNetworkCommands, Radio!SettingsCommands,
          Radio!LaterCommands
  <2>2. AnsweredIn(Radio!SimAndNetworkCommands, m, r)
    BY <1>10
      DEF AnsweredIn, RightFunction, Radio!AttachRequests,
          Radio!SimAndNetworkCommands
  <2>3. AnsweredIn(Radio!SettingsCommands, m, r)
    BY <1>10
      DEF AnsweredIn, RightFunction, Radio!AttachRequests,
          Radio!SettingsCommands
  <2>4. AnsweredIn(Radio!LaterCommands, m, r)
    BY <1>10
      DEF AnsweredIn, RightFunction, Radio!AttachRequests,
          Radio!LaterCommands
  <2>5. QED
    BY <2>1, <2>2, <2>3, <2>4 DEF RowFits
<1>11. CASE table = Radio!ImsAndChannelRequests
  <2>1. m # Registers /\ r \in DOMAIN Radio!SimAndNetworkCommands
          \cup DOMAIN Radio!SettingsCommands \cup DOMAIN Radio!LaterCommands
    BY <1>11
      DEF Registers, Radio!ImsAndChannelRequests,
          Radio!SimAndNetworkCommands, Radio!SettingsCommands,
          Radio!LaterCommands
  <2>2. AnsweredIn(Radio!SimAndNetworkCommands, m, r)
    BY <1>11
      DEF AnsweredIn, RightFunction, Radio!ImsAndChannelRequests,
          Radio!SimAndNetworkCommands
  <2>3. AnsweredIn(Radio!SettingsCommands, m, r)
    BY <1>11
      DEF AnsweredIn, RightFunction, Radio!ImsAndChannelRequests,
          Radio!SettingsCommands
  <2>4. AnsweredIn(Radio!LaterCommands, m, r)
    BY <1>11
      DEF AnsweredIn, RightFunction, Radio!ImsAndChannelRequests,
          Radio!LaterCommands
  <2>5. QED
    BY <2>1, <2>2, <2>3, <2>4 DEF RowFits
<1>12. CASE table = Radio!SubscriptionRequests
  <2>1. m # Registers /\ r \in DOMAIN Radio!SimAndNetworkCommands
          \cup DOMAIN Radio!SettingsCommands \cup DOMAIN Radio!LaterCommands
    BY <1>12
      DEF Registers, Radio!SubscriptionRequests,
          Radio!SimAndNetworkCommands, Radio!SettingsCommands,
          Radio!LaterCommands
  <2>2. AnsweredIn(Radio!SimAndNetworkCommands, m, r)
    BY <1>12
      DEF AnsweredIn, RightFunction, Radio!SubscriptionRequests,
          Radio!SimAndNetworkCommands
  <2>3. AnsweredIn(Radio!SettingsCommands, m, r)
    BY <1>12
      DEF AnsweredIn, RightFunction, Radio!SubscriptionRequests,
          Radio!SettingsCommands
  <2>4. AnsweredIn(Radio!LaterCommands, m, r)
    BY <1>12
      DEF AnsweredIn, RightFunction, Radio!SubscriptionRequests,
          Radio!LaterCommands
  <2>5. QED
    BY <2>1, <2>2, <2>3, <2>4 DEF RowFits
<1>13. CASE table = Radio!DataProfileRequest
  <2>1. m # Registers /\ r \in DOMAIN Radio!SimAndNetworkCommands
          \cup DOMAIN Radio!SettingsCommands \cup DOMAIN Radio!LaterCommands
    BY <1>13
      DEF Registers, Radio!DataProfileRequest,
          Radio!SimAndNetworkCommands, Radio!SettingsCommands,
          Radio!LaterCommands
  <2>2. AnsweredIn(Radio!SimAndNetworkCommands, m, r)
    BY <1>13
      DEF AnsweredIn, RightFunction, Radio!DataProfileRequest,
          Radio!SimAndNetworkCommands
  <2>3. AnsweredIn(Radio!SettingsCommands, m, r)
    BY <1>13
      DEF AnsweredIn, RightFunction, Radio!DataProfileRequest,
          Radio!SettingsCommands
  <2>4. AnsweredIn(Radio!LaterCommands, m, r)
    BY <1>13
      DEF AnsweredIn, RightFunction, Radio!DataProfileRequest,
          Radio!LaterCommands
  <2>5. QED
    BY <2>1, <2>2, <2>3, <2>4 DEF RowFits
<1>14. CASE table = Radio!CapabilityRequests
  <2>1. m # Registers /\ r \in DOMAIN Radio!SimAndNetworkCommands
          \cup DOMAIN Radio!SettingsCommands \cup DOMAIN Radio!LaterCommands
    BY <1>14
      DEF Registers, Radio!CapabilityRequests,
          Radio!SimAndNetworkCommands, Radio!SettingsCommands,
          Radio!LaterCommands
  <2>2. AnsweredIn(Radio!SimAndNetworkCommands, m, r)
    BY <1>14
      DEF AnsweredIn, RightFunction, Radio!CapabilityRequests,
          Radio!SimAndNetworkCommands
  <2>3. AnsweredIn(Radio!SettingsCommands, m, r)
    BY <1>14
      DEF AnsweredIn, RightFunction, Radio!CapabilityRequests,
          Radio!SettingsCommands
  <2>4. AnsweredIn(Radio!LaterCommands, m, r)
    BY <1>14
      DEF AnsweredIn, RightFunction, Radio!CapabilityRequests,
          Radio!LaterCommands
  <2>5. QED
    BY <2>1, <2>2, <2>3, <2>4 DEF RowFits
<1>15. CASE table = Radio!StateAndKeepaliveRequests
  <2>1. m # Registers /\ r \in DOMAIN Radio!SimAndNetworkCommands
          \cup DOMAIN Radio!SettingsCommands \cup DOMAIN Radio!LaterCommands
    BY <1>15
      DEF Registers, Radio!StateAndKeepaliveRequests,
          Radio!SimAndNetworkCommands, Radio!SettingsCommands,
          Radio!LaterCommands
  <2>2. AnsweredIn(Radio!SimAndNetworkCommands, m, r)
    BY <1>15
      DEF AnsweredIn, RightFunction, Radio!StateAndKeepaliveRequests,
          Radio!SimAndNetworkCommands
  <2>3. AnsweredIn(Radio!SettingsCommands, m, r)
    BY <1>15
      DEF AnsweredIn, RightFunction, Radio!StateAndKeepaliveRequests,
          Radio!SettingsCommands
  <2>4. AnsweredIn(Radio!LaterCommands, m, r)
    BY <1>15
      DEF AnsweredIn, RightFunction, Radio!StateAndKeepaliveRequests,
          Radio!LaterCommands
  <2>5. QED
    BY <2>1, <2>2, <2>3, <2>4 DEF RowFits
<1>16. QED
  BY <1>1, <1>2, <1>3, <1>4, <1>5, <1>6, <1>7, <1>8, <1>9, <1>10, <1>11,
     <1>12, <1>13, <1>14, <1>15
    DEF RequestTables

(* The function a request is answered by belongs to the method, and tells   *)
(* the client through the callback that belongs to it.                      *)
LEMMA FunctionsBelong ==
  ASSUME NEW m \in Radio!Methods
  PROVE  m # Registers /\ RightFunction(m, Radio!FunctionOf(m))
<1>1. Radio!Requests = Radio!Joined(RequestTables)
  BY DEF Radio!Requests, RequestTables
<1>2. PICK table \in RequestTables :
        m \in DOMAIN table /\ Radio!Requests[m] = table[m]
  BY <1>1, RowOfJoined DEF Radio!Methods
<1>3. RowFits(m, Radio!Requests[m][1])
  BY <1>2, RowsAreRight
<1>4. RowFits("sendDeviceState", "SCREEN_STATE")
  BY DEF RowFits, AnsweredIn, RightFunction, Registers,
         Radio!SimAndNetworkCommands, Radio!SettingsCommands,
         Radio!LaterCommands
<1>5. RowFits(m, Radio!RequestOf(m, setting.version))
  BY <1>3, <1>4 DEF Radio!RequestOf
<1>6. QED
  BY <1>5, FittingRow DEF Radio!FunctionOf, RowFits

LEMMA CallbacksBelong ==
  ASSUME NEW m \in Radio!Methods, NEW v11
  PROVE  RightCallback(m, Radio!TellsBy(Radio!FunctionOf(m), v11))
<1> DEFINE f  == Radio!FunctionOf(m)
           by == Radio!TellsBy(f, v11)
<1>1. RightFunction(m, f)
  BY FunctionsBelong
<1>2. \/ f = "hangupForegroundResumeBackground"
         /\ by = "hangupWaitingOrBackground"
      \/ f = "setSimCardPower" /\ by = "setSimCardPower_1_1"
      \/ by = f /\ f # "hangupForegroundResumeBackground"
  BY DEF Radio!TellsBy
<1> HIDE DEF f, by
<1>3. CASE by = f
  <2>1. CASE m = "setSimCardPower_1_1" /\ f = "setSimCardPower"
    <3>1. {m, by} = {"setSimCardPower", "setSimCardPower_1_1"}
      BY <1>3, <2>1
    <3>2. QED
      BY <3>1 DEF RightCallback, by, f
  <2>2. CASE ~(m = "setSimCardPower_1_1" /\ f = "setSimCardPower")
    <3>1. \/ by = m
          \/ <<m, by>> \in {<<"getImsiForApp", "getIMSIForApp">>,
                            <<"hangup", "hangupConnection">>}
      BY <1>1, <1>3, <2>2 DEF RightFunction
    <3>2. QED
      BY <3>1 DEF RightCallback, by, f
  <2>3. QED
    BY <2>1, <2>2
<1>4. CASE f = "hangupForegroundResumeBackground"
           /\ by = "hangupWaitingOrBackground"
  <2>1. m = f
    BY <1>1, <1>4 DEF RightFunction
  <2>2. QED
    BY <1>4, <2>1 DEF RightCallback, by, f
<1>5. CASE f = "setSimCardPower" /\ by = "setSimCardPower_1_1"
  <2>1. m \in {"setSimCardPower", "setSimCardPower_1_1"}
    BY <1>1, <1>5 DEF RightFunction
  <2>2. \/ by = m
        \/ {m, by} = {"setSimCardPower", "setSimCardPower_1_1"}
    BY <1>5, <2>1
  <2>3. QED
    BY <2>2 DEF RightCallback, by, f
<1>6. QED
  BY <1>2, <1>3, <1>4, <1>5

(* What a client is told of the method m; a success is backed.              *)
Backed(m, message) ==
  message.error = "SUCCESS" =>
    LET kind == Radio!Answers[Radio!FunctionOf(m)]
    IN  message.given \/ kind = "plain" \/ kind \in Radio!MayBeAbsent

LEMMA SaidSuccess ==
  ASSUME NEW kind, NEW e, NEW payload,
         Radio!Said(kind, e, payload) = "SUCCESS"
  PROVE  \/ Radio!Given(kind, payload)
         \/ kind = "plain"
         \/ kind \in Radio!MayBeAbsent
<1>1. ~Radio!Broken(kind, payload)
  BY DEF Radio!Said
<1>2. QED
  BY <1>1 DEF Radio!Broken, Radio!Given

LEMMA MessagesFit ==
  ASSUME NEW m \in Radio!Methods, NEW work,
         work.tells = Radio!FunctionOf(m)
  PROVE  /\ RightCallback(m, Radio!Message(work).by)
         /\ Backed(m, Radio!Message(work))
<1> DEFINE kind == Radio!Answers[work.tells]
           message == Radio!Message(work)
<1>1. /\ message.by = Radio!TellsBy(work.tells, radioClient.v11)
      /\ message.error = Radio!Said(kind, work.error, work.payload)
      /\ message.given = Radio!Given(kind, work.payload)
  BY DEF Radio!Message
<1>2. RightCallback(m, message.by)
  BY <1>1, CallbacksBelong
<1>3. Backed(m, message)
  BY <1>1, SaidSuccess DEF Backed
<1>4. QED
  BY <1>2, <1>3
-----------------------------------------------------------------------------
(* Where a request is: on its way, with the vendor, in the hands of one     *)
(* thread, or answered; in one of these places only.                        *)
ToldInv ==
  /\ told = [s \in 1 .. Len(asked) |-> told[s]]
  /\ \A s \in 1 .. Len(asked) : told[s] # <<>> =>
       /\ told[s] = <<told[s][1]>>
       /\ RightCallback(asked[s].method, told[s][1].by)
       /\ Backed(asked[s].method, told[s][1])

(* Nobody has s in hand.                                                    *)
Unanswered(s) == s \in 1 .. Len(asked) /\ told[s] = <<>>
NotInHand(s) == \A t \in Radio!Threads : thread[t].work.serial # s

CallsInv ==
  /\ \A i \in 1 .. Len(inbox) :
       /\ inbox[i].method = Registers => inbox[i].serial = 0
       /\ inbox[i].method # Registers =>
            /\ Unanswered(inbox[i].serial)
            /\ inbox[i].method = asked[inbox[i].serial].method
            /\ inbox[i].serial \notin requests
            /\ NotInHand(inbox[i].serial)
  /\ \A i, j \in 1 .. Len(inbox) :
       i # j /\ inbox[i].method # Registers =>
         inbox[i].serial # inbox[j].serial

RequestsInv ==
  \A s \in requests :
    Unanswered(s) /\ asked[s].method \in Radio!Methods /\ NotInHand(s)

(* A thread's answer is of the function that belongs to the request, which  *)
(* is told until the call succeeds and not again after a call that failed.  *)
AnswerOf(t) ==
  LET s == thread[t].work.serial IN
    s # 0 =>
      /\ s \in 1 .. Len(asked) /\ asked[s].method \in Radio!Methods
      /\ thread[t].work.tells = Radio!FunctionOf(asked[s].method)
      /\ thread[t].at # "finish" => told[s] = <<>>

AnswerInv ==
  /\ ToldInv /\ CallsInv /\ RequestsInv
  /\ \A t \in Radio!Threads : AnswerOf(t)
  /\ \A t, u \in Radio!Threads :
       t # u /\ thread[t].work.serial = thread[u].work.serial
         => thread[t].work.serial = 0

LEMMA OfOne ==
  ASSUME NEW f, NEW x, f = <<x>>
  PROVE  Len(f) = 1 /\ DOMAIN f = {1} /\ f[1] = x
  OBVIOUS

LEMMA AnswersAreThose ==
  ASSUME ToldInv PROVE AnsweredAsAsked /\ SuccessIsBacked
<1>1. Radio!Serials = 1 .. Len(asked)
  BY DEF Radio!Serials
<1>2. ASSUME NEW s \in 1 .. Len(asked)
      PROVE  /\ Len(told[s]) <= 1
             /\ \A i \in DOMAIN told[s] :
                  /\ RightCallback(asked[s].method, told[s][i].by)
                  /\ Backed(asked[s].method, told[s][i])
  <2>1. CASE told[s] = <<>>
    BY <2>1
  <2>2. CASE told[s] # <<>>
    <3>1. /\ told[s] = <<told[s][1]>>
          /\ RightCallback(asked[s].method, told[s][1].by)
          /\ Backed(asked[s].method, told[s][1])
      BY <2>2 DEF ToldInv
    <3>2. Len(told[s]) = 1 /\ DOMAIN told[s] = {1}
      BY <3>1, OfOne, Zenon
    <3>3. QED
      BY <3>1, <3>2
  <2>3. QED
    BY <2>1, <2>2
<1>3. AnsweredAsAsked
  BY <1>1, <1>2 DEF AnsweredAsAsked, Radio!AnsweredAsAsked, RightCallback
<1>4. SuccessIsBacked
  BY <1>1, <1>2 DEF SuccessIsBacked, Radio!SuccessIsBacked, Backed
<1>5. QED
  BY <1>3, <1>4

LEMMA AnswerInit == Radio!Init => AnswerInv
<1> SUFFICES ASSUME Radio!Init PROVE AnswerInv
  OBVIOUS
<1>1. /\ Len(asked) = 0 /\ Len(inbox) = 0 /\ requests = {} /\ told = <<>>
      /\ \A t \in Radio!Threads : thread[t].work.serial = 0
  BY DEF Radio!Init, Radio!Resting, Radio!NoWork
<1>2. ToldInv
  BY <1>1 DEF ToldInv
<1>3. CallsInv /\ RequestsInv
  BY <1>1 DEF CallsInv, RequestsInv
<1>4. QED
  BY <1>1, <1>2, <1>3 DEF AnswerInv, AnswerOf

(* What a step leaves alone if it does not touch what was asked and told.   *)
LEMMA ToldKept ==
  ASSUME ToldInv, UNCHANGED <<setting, asked, told>>
  PROVE  ToldInv'
  BY DEF ToldInv, Backed, Radio!FunctionOf

LEMMA AnswerKept ==
  ASSUME NEW t, AnswerOf(t), UNCHANGED <<setting, asked, told>>,
         thread'[t] = thread[t]
  PROVE  AnswerOf(t)'
  BY DEF AnswerOf, Radio!FunctionOf

(* A request is added to the log of what was asked and told.                *)
LEMMA LogGrows ==
  ASSUME Types, ToldInv, NEW e \in [method : MayAsk, session : Nat],
         asked' = Append(asked, e), told' = Append(told, <<>>),
         setting' = setting
  PROVE  /\ Len(asked) \in Nat /\ Len(asked') = Len(asked) + 1
         /\ \A s \in 1 .. Len(asked) :
              asked'[s] = asked[s] /\ told'[s] = told[s]
         /\ asked'[Len(asked) + 1] = e /\ told'[Len(asked) + 1] = <<>>
         /\ ToldInv'
<1>1. /\ Len(asked) \in Nat /\ Len(asked') = Len(asked) + 1
      /\ \A s \in 1 .. Len(asked) : asked'[s] = asked[s]
      /\ asked'[Len(asked) + 1] = e
  <2>1. asked \in Seq([method : MayAsk, session : Nat])
    BY DEF Types
  <2>2. QED
    BY <2>1, OneMore
<1> DEFINE S == {told[s] : s \in 1 .. Len(asked)} \cup {<<>>}
<1>2. told \in [1 .. Len(asked) -> S]
  BY DEF ToldInv
<1>3. told \in Seq(S) /\ Len(told) = Len(asked) /\ <<>> \in S
  <2> HIDE DEF S
  <2>1. told \in Seq(S) /\ Len(told) = Len(asked)
    BY <1>1, <1>2, SeqDef
  <2>2. QED
    BY <2>1 DEF S
<1>4. /\ told' \in Seq(S) /\ Len(told') = Len(asked) + 1
      /\ told'[Len(asked) + 1] = <<>>
      /\ \A s \in 1 .. Len(asked) : told'[s] = told[s]
  <2> HIDE DEF S
  <2>1. QED
    BY <1>3, OneMore
<1>5. told' = [s \in 1 .. Len(asked') |-> told'[s]]
  <2> HIDE DEF S
  <2>1. told' \in [1 .. Len(told') -> S]
    BY <1>4, LenProperties
  <2>2. QED
    BY <1>1, <1>4, <2>1
<1>6. ASSUME NEW s \in 1 .. Len(asked'), told'[s] # <<>>
      PROVE  /\ told'[s] = <<told'[s][1]>>
             /\ RightCallback(asked[s].method, told[s][1].by)'
             /\ Backed(asked[s].method, told[s][1])'
  <2>1. s \in 1 .. Len(asked)
    BY <1>1, <1>4, <1>6
  <2>2. asked'[s] = asked[s] /\ told'[s] = told[s]
    BY <1>1, <1>4, <2>1
  <2>3. /\ told[s] = <<told[s][1]>>
        /\ RightCallback(asked[s].method, told[s][1].by)
        /\ Backed(asked[s].method, told[s][1])
    BY <1>6, <2>1, <2>2 DEF ToldInv
  <2>4. RightCallback(asked[s].method, told[s][1].by)'
    BY <2>2, <2>3
  <2>5. Backed(asked[s].method, told[s][1])'
    BY <2>2, <2>3 DEF Backed, Radio!FunctionOf
  <2>6. told'[s] = <<told'[s][1]>>
    BY <2>2, <2>3, Zenon
  <2>7. QED
    BY <2>4, <2>5, <2>6
<1>7. ToldInv'
  BY <1>5, <1>6 DEF ToldInv
<1>8. QED
  BY <1>1, <1>4, <1>7

(* The phone process asks.                                                  *)
LEMMA AnswerAskStep ==
  ASSUME AsksOnly, ClientInv, AnswerInv, NEW m \in setting.asks, Radio!Ask(m)
  PROVE  AnswerInv'
<1>a. PICK n : n = Len(asked) + 1
  OBVIOUS
<1>b. PICK e : e = [method |-> m, session |-> phone.session]
  OBVIOUS
<1>c. PICK asking : asking = [method |-> m, serial |-> n,
                              session |-> phone.session, v11 |-> phone.v11]
  OBVIOUS
<1>1. Types /\ ToldInv /\ CallsInv /\ RequestsInv
  BY DEF ClientInv, AnswerInv
<1>2. m \in MayAsk /\ m # Registers
  BY <1>1 DEF Types, AsksOnly, MayAsk
<1>3. /\ e \in [method : MayAsk, session : Nat]
      /\ asked' = Append(asked, e) /\ told' = Append(told, <<>>)
      /\ UNCHANGED <<setting, thread, requests>>
  BY <1>1, <1>2, <1>b DEF Types, Radio!Ask, Radio!serviceVars
<1>4. /\ Len(asked) \in Nat /\ Len(asked') = Len(asked) + 1
      /\ \A s \in 1 .. Len(asked) :
           asked'[s] = asked[s] /\ told'[s] = told[s]
      /\ asked'[n].method = m /\ told'[n] = <<>>
      /\ ToldInv'
  <2>1. /\ Len(asked) \in Nat /\ Len(asked') = Len(asked) + 1
        /\ \A s \in 1 .. Len(asked) :
             asked'[s] = asked[s] /\ told'[s] = told[s]
        /\ asked'[Len(asked) + 1] = e /\ told'[Len(asked) + 1] = <<>>
        /\ ToldInv'
    BY <1>1, <1>3, LogGrows, Zenon
  <2>2. QED
    BY <1>a, <1>b, <2>1
<1>5. /\ inbox \in Seq(Calls) /\ asking \in Calls
      /\ inbox' = Append(inbox, asking)
  BY <1>1, <1>2, <1>4, <1>a, <1>c DEF Types, Calls, Radio!Ask
<1>6. /\ Len(inbox) \in Nat /\ Len(inbox') = Len(inbox) + 1
      /\ inbox'[Len(inbox) + 1] = asking
      /\ \A i \in 1 .. Len(inbox) : inbox'[i] = inbox[i]
  BY <1>5, OneMore
<1>7. ASSUME NEW s, Unanswered(s) PROVE Unanswered(s)' /\ s # n
  BY <1>4, <1>7, <1>a DEF Unanswered
<1>8. ASSUME NEW t \in Radio!Threads
      PROVE  AnswerOf(t)' /\ thread'[t].work.serial # n
  <2>1. AnswerOf(t) /\ thread'[t] = thread[t]
    BY <1>3 DEF AnswerInv
  <2>2. PICK s : s = thread[t].work.serial
    OBVIOUS
  <2>3. CASE s = 0
    BY <1>4, <1>a, <2>1, <2>2, <2>3 DEF AnswerOf
  <2>4. CASE s # 0
    <3>1. s \in 1 .. Len(asked)
      BY <2>1, <2>2, <2>4 DEF AnswerOf
    <3>2. /\ asked'[s] = asked[s] /\ told'[s] = told[s]
          /\ s \in 1 .. Len(asked') /\ s # n
      BY <1>4, <1>a, <3>1
    <3>3. QED
      BY <1>3, <2>1, <2>2, <3>1, <3>2 DEF AnswerOf, Radio!FunctionOf
  <2>5. QED
    BY <2>3, <2>4
<1>9. /\ Unanswered(n)' /\ n \notin requests /\ NotInHand(n)'
      /\ asking.method = m /\ asking.serial = n
  <2>1. n \notin requests
    BY <1>1, <1>7 DEF RequestsInv
  <2>2. QED
    BY <1>4, <1>8, <1>a, <1>c, <2>1 DEF Unanswered, NotInHand
<1>10. CallsInv'
  <2>1. ASSUME NEW i \in 1 .. Len(inbox')
        PROVE  /\ inbox'[i].method = Registers => inbox'[i].serial = 0
               /\ inbox'[i].method # Registers =>
                    /\ Unanswered(inbox[i].serial)'
                    /\ inbox'[i].method = asked'[inbox'[i].serial].method
                    /\ inbox'[i].serial \notin requests'
                    /\ NotInHand(inbox[i].serial)'
    <3>1. CASE i = Len(inbox) + 1
      BY <1>2, <1>3, <1>4, <1>6, <1>9, <3>1
    <3>2. CASE i \in 1 .. Len(inbox)
      <4>1. inbox'[i] = inbox[i]
        BY <1>6, <3>2
      <4>2. /\ inbox[i].method = Registers => inbox[i].serial = 0
            /\ inbox[i].method # Registers =>
                 /\ Unanswered(inbox[i].serial)
                 /\ inbox[i].method = asked[inbox[i].serial].method
                 /\ inbox[i].serial \notin requests
                 /\ NotInHand(inbox[i].serial)
        BY <1>1, <3>2 DEF CallsInv
      <4>3. QED
        BY <1>3, <1>4, <1>7, <4>1, <4>2 DEF Unanswered, NotInHand
    <3>3. QED
      BY <1>6, <3>1, <3>2
  <2>2. ASSUME NEW i \in 1 .. Len(inbox')
        PROVE  i # Len(inbox) + 1 => inbox'[i].serial # n
    <3>1. SUFFICES ASSUME i \in 1 .. Len(inbox) PROVE inbox[i].serial # n
      BY <1>6
    <3>2. \/ inbox[i].serial = 0
          \/ Unanswered(inbox[i].serial)
      BY <1>1, <3>1 DEF CallsInv
    <3>3. QED
      BY <1>4, <1>7, <1>a, <3>2
  <2>3. ASSUME NEW i \in 1 .. Len(inbox'), NEW j \in 1 .. Len(inbox'), i # j,
               inbox'[i].method # Registers
        PROVE  inbox'[i].serial # inbox'[j].serial
    <3>1. CASE i \in 1 .. Len(inbox) /\ j \in 1 .. Len(inbox)
      BY <1>1, <1>6, <2>3, <3>1 DEF CallsInv
    <3>2. CASE i = Len(inbox) + 1 \/ j = Len(inbox) + 1
      BY <1>6, <1>9, <2>2, <2>3, <3>2
    <3>3. QED
      BY <1>6, <3>1, <3>2
  <2>4. QED
    BY <2>1, <2>3 DEF CallsInv
<1>11. RequestsInv'
  BY <1>1, <1>3, <1>4, <1>7 DEF RequestsInv, NotInHand, Unanswered
<1>12. QED
  BY <1>3, <1>4, <1>8, <1>10, <1>11 DEF AnswerInv

(* The first call is taken, and those left are as they were, if nobody has  *)
(* one of them in hand.                                                     *)
LEMMA AnswerTaken ==
  ASSUME ClientInv, AnswerInv, Radio!TakesCall,
         \A s : s # Head(inbox).serial \/ Head(inbox).method = Registers =>
           /\ s \in requests' => s \in requests
           /\ NotInHand(s) /\ s # 0 => NotInHand(s)'
  PROVE  /\ UNCHANGED <<setting, asked, told>> /\ ToldInv' /\ CallsInv'
         /\ Head(inbox).method # Registers =>
              /\ Unanswered(Head(inbox).serial)
              /\ Head(inbox).serial # 0
              /\ Head(inbox).method = asked[Head(inbox).serial].method
              /\ Head(inbox).serial \notin requests
              /\ NotInHand(Head(inbox).serial)
<1>1. Types /\ ToldInv /\ CallsInv
  BY DEF ClientInv, AnswerInv
<1>2. UNCHANGED <<setting, asked, told>> /\ inbox # <<>>
      /\ inbox' = Tail(inbox) /\ inbox \in Seq(Calls)
  BY <1>1 DEF Radio!TakesCall, Types
<1>3. Head(inbox) = inbox[1] /\ Len(inbox) \in Nat /\ Len(inbox) >= 1
      /\ Len(inbox') = Len(inbox) - 1
      /\ \A i \in 1 .. Len(inbox) - 1 : inbox'[i] = inbox[i + 1]
  BY <1>2, OneLess
<1>4. ToldInv'
  BY <1>1, <1>2, ToldKept
<1>5. ASSUME NEW i \in 1 .. Len(inbox')
      PROVE  /\ inbox'[i].method = Registers => inbox'[i].serial = 0
             /\ inbox'[i].method # Registers =>
                  /\ Unanswered(inbox[i].serial)'
                  /\ inbox'[i].method = asked'[inbox'[i].serial].method
                  /\ inbox'[i].serial \notin requests'
                  /\ NotInHand(inbox[i].serial)'
  <2>1. i + 1 \in 1 .. Len(inbox) /\ inbox'[i] = inbox[i + 1] /\ i + 1 # 1
    BY <1>3
  <2>2. inbox'[i].method = Registers => inbox'[i].serial = 0
    BY <1>1, <2>1 DEF CallsInv
  <2>3. ASSUME inbox'[i].method # Registers
        PROVE  /\ Unanswered(inbox[i].serial)'
               /\ inbox'[i].method = asked'[inbox'[i].serial].method
               /\ inbox'[i].serial \notin requests'
               /\ NotInHand(inbox[i].serial)'
    <3>1. PICK s : s = inbox[i + 1].serial
      OBVIOUS
    <3>2. /\ Unanswered(s) /\ s \notin requests /\ NotInHand(s)
          /\ inbox[i + 1].method = asked[s].method
          /\ inbox[1].serial # s
      BY <1>1, <1>3, <2>1, <2>3, <3>1 DEF CallsInv
    <3>3. Unanswered(s)' /\ s # 0
      BY <1>2, <3>2 DEF Unanswered
    <3>4. s \notin requests' /\ NotInHand(s)'
      BY <1>3, <3>2, <3>3
    <3>5. QED
      BY <1>2, <2>1, <3>1, <3>2, <3>3, <3>4 DEF Unanswered, NotInHand
  <2>4. QED
    BY <2>2, <2>3
<1>6. ASSUME NEW i \in 1 .. Len(inbox'), NEW j \in 1 .. Len(inbox'), i # j,
             inbox'[i].method # Registers
      PROVE  inbox'[i].serial # inbox'[j].serial
  <2>1. /\ i + 1 \in 1 .. Len(inbox) /\ inbox'[i] = inbox[i + 1]
        /\ j + 1 \in 1 .. Len(inbox) /\ inbox'[j] = inbox[j + 1]
        /\ i + 1 # j + 1
    BY <1>3, <1>6
  <2>2. QED
    BY <1>1, <1>6, <2>1 DEF CallsInv
<1>7. CallsInv'
  BY <1>5, <1>6 DEF CallsInv
<1>8. Head(inbox).method # Registers =>
        /\ Unanswered(Head(inbox).serial)
        /\ Head(inbox).serial # 0
        /\ Head(inbox).method = asked[Head(inbox).serial].method
        /\ Head(inbox).serial \notin requests
        /\ NotInHand(Head(inbox).serial)
  BY <1>1, <1>3 DEF CallsInv, Unanswered
<1>9. QED
  BY <1>2, <1>4, <1>7, <1>8

(* A thread begins with a piece of work: an answer nobody has in hand, or   *)
(* none.                                                                    *)
LEMMA AnswerBegins ==
  ASSUME AnswerInv, UNCHANGED <<setting, asked, told>>,
         NEW t \in Radio!Threads, NEW work,
         thread'[t].work = work, thread'[t].at # "finish",
         \A u \in Radio!Threads : u # t => thread'[u] = thread[u],
         work.serial # 0 =>
           /\ Unanswered(work.serial) /\ NotInHand(work.serial)
           /\ asked[work.serial].method \in Radio!Methods
           /\ work.tells = Radio!FunctionOf(asked[work.serial].method)
  PROVE  /\ \A u \in Radio!Threads : AnswerOf(u)'
         /\ \A u, v \in Radio!Threads :
              u # v /\ thread'[u].work.serial = thread'[v].work.serial
                => thread'[u].work.serial = 0
<1>1. ASSUME NEW u \in Radio!Threads PROVE AnswerOf(u)'
  <2>1. CASE u = t
    BY <2>1 DEF AnswerOf, Unanswered, Radio!FunctionOf
  <2>2. CASE u # t
    BY <2>2, AnswerKept DEF AnswerInv
  <2>3. QED
    BY <2>1, <2>2
<1>2. ASSUME NEW u \in Radio!Threads, NEW v \in Radio!Threads, u # v,
             thread'[u].work.serial = thread'[v].work.serial
      PROVE  thread'[u].work.serial = 0
  <2>1. CASE u # t /\ v # t
    BY <1>2, <2>1 DEF AnswerInv
  <2>2. CASE u = t \/ v = t
    BY <1>2, <2>2 DEF NotInHand
  <2>3. QED
    BY <2>1, <2>2
<1>3. QED
  BY <1>1, <1>2

(* The RPC thread begins with what it took.                                 *)
LEMMA AnswerCallStep ==
  ASSUME ClientInv, AnswerInv,
         Radio!SetResponseFunctions \/ Radio!Dispatch \/ Radio!Refuse
  PROVE  AnswerInv'
<1>1. /\ Types /\ ThreadTypes /\ RequestsInv /\ Radio!TakesCall
      /\ "rpc" \in Radio!Threads
      /\ "lock" \in Radio!Places /\ "test" \in Radio!Places
  BY DEF ClientInv, AnswerInv, Types, Radio!SetResponseFunctions,
         Radio!Dispatch, Radio!Refuse, Radio!Threads, Radio!Places
<1>2. PICK h : h = Head(inbox).serial
  OBVIOUS
<1>3. CASE Radio!SetResponseFunctions
  <2>1. PICK work : work = [Radio!NoWork EXCEPT !.tells = "rilConnected"]
    OBVIOUS
  <2>2. work.serial = 0
    BY <2>1 DEF Radio!NoWork
  <2>3. Radio!Begins("rpc", "lock", TRUE, work) /\ requests' = requests
        /\ Head(inbox).method = Registers
    BY <1>3, <2>1 DEF Radio!SetResponseFunctions, Registers
  <2>4. /\ thread'["rpc"] =
             [at |-> "lock", work |-> work, locked |-> TRUE, noted |-> 0]
        /\ \A u \in Radio!Threads : u # "rpc" => thread'[u] = thread[u]
    BY <1>1, <2>3, WorkBegins, Zenon
  <2>5. thread'["rpc"].work = work /\ thread'["rpc"].at # "finish"
    BY <2>4
  <2>6. ASSUME NEW s, NotInHand(s), s # 0 PROVE NotInHand(s)'
    BY <1>1, <2>2, <2>4, <2>5, <2>6 DEF NotInHand
  <2>7. /\ UNCHANGED <<setting, asked, told>> /\ ToldInv' /\ CallsInv'
    BY <1>1, <2>3, <2>6, AnswerTaken
  <2>8. RequestsInv'
    BY <1>1, <2>3, <2>6, <2>7 DEF RequestsInv, Unanswered
  <2>9. /\ \A u \in Radio!Threads : AnswerOf(u)'
        /\ \A u, v \in Radio!Threads :
             u # v /\ thread'[u].work.serial = thread'[v].work.serial
               => thread'[u].work.serial = 0
    BY <1>1, <2>2, <2>4, <2>5, <2>7, AnswerBegins
  <2>10. QED
    BY <2>7, <2>8, <2>9 DEF AnswerInv
<1>4. CASE Radio!Dispatch
  <2>1. /\ requests' = requests \cup {h} /\ thread' = thread
        /\ Head(inbox).method \in Radio!Methods
    BY <1>2, <1>4 DEF Radio!Dispatch
  <2>2. Head(inbox).method # Registers
    BY <2>1, FunctionsBelong
  <2>3. \A s : NotInHand(s) => NotInHand(s)'
    BY <2>1 DEF NotInHand
  <2>4. /\ UNCHANGED <<setting, asked, told>> /\ ToldInv' /\ CallsInv'
        /\ Unanswered(h) /\ h # 0 /\ NotInHand(h)
        /\ Head(inbox).method = asked[h].method
    BY <1>1, <1>2, <2>1, <2>2, <2>3, AnswerTaken
  <2>5. RequestsInv'
    BY <1>1, <2>1, <2>3, <2>4 DEF RequestsInv, Unanswered
  <2>6. \A u \in Radio!Threads : AnswerOf(u)'
    BY <2>1, <2>4, AnswerKept DEF AnswerInv
  <2>7. QED
    BY <2>1, <2>4, <2>5, <2>6 DEF AnswerInv
<1>5. CASE Radio!Refuse
  <2>1. /\ requests' = requests
        /\ Head(inbox).method \in Radio!Methods
        /\ \E e : Radio!AnswersItself(Head(inbox).method, h, e)
    BY <1>2, <1>5 DEF Radio!Refuse, Radio!RefusedOnly
  <2>2. PICK work : /\ Radio!Begins("rpc", "test", FALSE, work)
                    /\ work.serial = h
                    /\ work.tells = Radio!FunctionOf(Head(inbox).method)
    <3>1. PICK e : Radio!AnswersItself(Head(inbox).method, h, e)
      BY <2>1
    <3>2. PICK f : f = Radio!FunctionOf(Head(inbox).method)
      OBVIOUS
    <3>3. PICK work : work = [tells |-> f, serial |-> h, error |-> e,
                              payload |-> "absent"]
      OBVIOUS
    <3>4. Radio!Begins("rpc", "test", FALSE, work)
      BY <3>1, <3>2, <3>3 DEF Radio!AnswersItself
    <3>5. work.serial = h /\ work.tells = f
      BY <3>3
    <3>6. QED
      BY <3>2, <3>4, <3>5
  <2>3. /\ thread'["rpc"] =
             [at |-> "test", work |-> work, locked |-> FALSE, noted |-> 0]
        /\ \A u \in Radio!Threads : u # "rpc" => thread'[u] = thread[u]
    BY <1>1, <2>2, WorkBegins, Zenon
  <2>4. thread'["rpc"].work = work /\ thread'["rpc"].at # "finish"
    BY <2>3
  <2>5. Head(inbox).method # Registers
    BY <2>1, FunctionsBelong
  <2>6. ASSUME NEW s, NotInHand(s), s # h PROVE NotInHand(s)'
    BY <1>1, <2>2, <2>3, <2>4, <2>6 DEF NotInHand
  <2>7. /\ UNCHANGED <<setting, asked, told>> /\ ToldInv' /\ CallsInv'
        /\ Unanswered(h) /\ h # 0 /\ NotInHand(h) /\ h \notin requests
        /\ Head(inbox).method = asked[h].method
    BY <1>1, <1>2, <2>1, <2>5, <2>6, AnswerTaken
  <2>8. RequestsInv'
    BY <1>1, <2>1, <2>6, <2>7 DEF RequestsInv, Unanswered
  <2>9. /\ \A u \in Radio!Threads : AnswerOf(u)'
        /\ \A u, v \in Radio!Threads :
             u # v /\ thread'[u].work.serial = thread'[v].work.serial
               => thread'[u].work.serial = 0
    BY <1>1, <2>1, <2>2, <2>3, <2>4, <2>7, AnswerBegins
  <2>10. QED
    BY <2>7, <2>8, <2>9 DEF AnswerInv
<1>6. QED
  BY <1>3, <1>4, <1>5

(* The vendor answers or tells something.                                   *)
LEMMA AnswerVendorStep ==
  ASSUME ClientInv, AnswerInv, Radio!Complete \/ Radio!Indicate
  PROVE  AnswerInv'
<1>1. /\ Types /\ ThreadTypes /\ ToldInv /\ CallsInv /\ RequestsInv
      /\ "modem" \in Radio!Threads /\ "lock" \in Radio!Places
  BY DEF ClientInv, AnswerInv, Types, Radio!Threads, Radio!Places
<1>2. UNCHANGED <<setting, asked, told, inbox>>
  BY DEF Radio!Complete, Radio!Indicate, Radio!phoneVars
<1>3. PICK work :
        /\ Radio!Begins("modem", "lock", TRUE, work)
        /\ requests' = requests \ {work.serial}
        /\ work.serial # 0 =>
             /\ work.serial \in requests
             /\ work.tells = Radio!FunctionOf(asked[work.serial].method)
  <2>1. CASE Radio!Complete
    <3>1. PICK s \in requests, e \in {"SUCCESS", "GENERIC_FAILURE"},
              p \in setting.payloads :
            /\ requests' = requests \ {s}
            /\ Radio!Begins("modem", "lock", TRUE,
                 [tells |-> Radio!FunctionOf(asked[s].method), serial |-> s,
                  error |-> e, payload |-> p])
      BY <2>1 DEF Radio!Complete
    <3>2. PICK f : f = Radio!FunctionOf(asked[s].method)
      OBVIOUS
    <3>3. PICK work : work = [tells |-> f, serial |-> s, error |-> e,
                              payload |-> p]
      OBVIOUS
    <3>4. Radio!Begins("modem", "lock", TRUE, work)
      BY <3>1, <3>2, <3>3
    <3>5. work.serial = s /\ work.tells = f
      BY <3>3
    <3>6. QED
      BY <3>1, <3>2, <3>4, <3>5
  <2>2. CASE Radio!Indicate
    <3>1. PICK i \in setting.tells, p \in setting.payloads :
            Radio!Begins("modem", "lock", TRUE,
                         [Radio!NoWork EXCEPT !.tells = i, !.payload = p])
      BY <2>2 DEF Radio!Indicate
    <3>2. [Radio!NoWork EXCEPT !.tells = i, !.payload = p].serial = 0
      BY DEF Radio!NoWork
    <3>3. requests' = requests
      BY <2>2 DEF Radio!Indicate
    <3>4. 0 \notin requests
      BY <1>1 DEF RequestsInv, Unanswered
    <3>5. requests' = requests \ {0}
      BY <3>3, <3>4
    <3>6. QED
      BY <3>1, <3>2, <3>5
  <2>3. QED
    BY <2>1, <2>2
<1>4. /\ thread'["modem"] =
           [at |-> "lock", work |-> work, locked |-> TRUE, noted |-> 0]
      /\ \A u \in Radio!Threads : u # "modem" => thread'[u] = thread[u]
  BY <1>1, <1>3, WorkBegins, Zenon
<1>5. thread'["modem"].work = work /\ thread'["modem"].at # "finish"
  BY <1>4
<1>6. ASSUME NEW s, NotInHand(s), s # work.serial PROVE NotInHand(s)'
  BY <1>1, <1>4, <1>5, <1>6 DEF NotInHand
<1>7. RequestsInv'
  BY <1>1, <1>2, <1>3, <1>6 DEF RequestsInv, Unanswered
<1>8. CallsInv'
  <2>1. ASSUME NEW i \in 1 .. Len(inbox), inbox[i].method # Registers
        PROVE  /\ Unanswered(inbox[i].serial)'
               /\ inbox[i].serial \notin requests'
               /\ NotInHand(inbox[i].serial)'
    <3>1. PICK s : s = inbox[i].serial
      OBVIOUS
    <3>2. Unanswered(s) /\ s \notin requests /\ NotInHand(s) /\ s # 0
      BY <1>1, <2>1, <3>1 DEF CallsInv, Unanswered
    <3>3. s # work.serial
      BY <1>3, <3>2
    <3>4. QED
      BY <1>2, <1>3, <1>6, <3>1, <3>2, <3>3 DEF Unanswered, NotInHand
  <2>2. QED
    BY <1>1, <1>2, <2>1 DEF CallsInv
<1>9. /\ \A u \in Radio!Threads : AnswerOf(u)'
      /\ \A u, v \in Radio!Threads :
           u # v /\ thread'[u].work.serial = thread'[v].work.serial
             => thread'[u].work.serial = 0
  BY <1>1, <1>2, <1>3, <1>4, <1>5, AnswerBegins DEF RequestsInv
<1>10. QED
  BY <1>1, <1>2, <1>7, <1>8, <1>9, ToldKept DEF AnswerInv

(* What is told of a serial that one thread has in hand.                    *)
LEMMA AnswerTell ==
  ASSUME ClientInv, AnswerInv, NEW t \in Radio!Threads, Radio!Tell(t)
  PROVE  AnswerInv'
<1>1. PICK s : s = thread[t].work.serial
  OBVIOUS
<1>2. PICK message : message = Radio!Message(thread[t].work)
  OBVIOUS
<1>3. /\ Types /\ ThreadTypes /\ ToldInv /\ CallsInv /\ RequestsInv
      /\ AnswerOf(t) /\ "finish" \in Radio!Places
  BY DEF ClientInv, AnswerInv, Types, Radio!Places
<1>4. /\ UNCHANGED <<setting, asked, inbox, requests>>
      /\ thread[t].at = "call" /\ Radio!Goes(t, "finish")
      /\ told' = IF s # 0
                   THEN [told EXCEPT ![s] = Append(told[s], message)]
                   ELSE told
  BY <1>1, <1>2 DEF Radio!Tell, Radio!At, Radio!IsAnswer, Radio!phoneVars
<1>5. /\ thread'[t] = [at |-> "finish", work |-> thread[t].work,
                      locked |-> thread[t].locked, noted |-> thread[t].noted]
      /\ \A u \in Radio!Threads : u # t => thread'[u] = thread[u]
  BY <1>3, <1>4, GoesOn
<1>6. /\ \A u \in Radio!Threads : thread'[u].work = thread[u].work
      /\ thread'[t].at = "finish"
  BY <1>5
<1>7. /\ \A r : NotInHand(r)' = NotInHand(r)
      /\ \A u, v \in Radio!Threads :
           u # v /\ thread'[u].work.serial = thread'[v].work.serial
             => thread'[u].work.serial = 0
  BY <1>6 DEF NotInHand, AnswerInv
<1>8. CASE s = 0
  <2>1. told' = told
    BY <1>4, <1>8
  <2>2. ToldInv'
    BY <1>3, <1>4, <2>1, ToldKept
  <2>5. RequestsInv'
    BY <1>3, <1>4, <1>7, <2>1 DEF RequestsInv, Unanswered
  <2>6. ASSUME NEW i \in 1 .. Len(inbox), inbox[i].method # Registers
        PROVE  /\ Unanswered(inbox[i].serial)'
               /\ NotInHand(inbox[i].serial)'
    <3>1. /\ Unanswered(inbox[i].serial)
          /\ NotInHand(inbox[i].serial)
      BY <1>3, <2>6 DEF CallsInv
    <3>2. QED
      BY <1>4, <1>6, <2>1, <3>1 DEF Unanswered, NotInHand
  <2>7. CallsInv'
    BY <1>3, <1>4, <2>6 DEF CallsInv
  <2>3. \A u \in Radio!Threads : AnswerOf(u)'
    BY <1>1, <1>4, <1>5, <1>6, <1>8, <2>1
      DEF AnswerInv, AnswerOf, Radio!FunctionOf
  <2>4. QED
    BY <1>7, <2>2, <2>3, <2>5, <2>7 DEF AnswerInv
<1>9. CASE s # 0
  <2>1. /\ s \in 1 .. Len(asked) /\ told[s] = <<>>
        /\ asked[s].method \in Radio!Methods
        /\ thread[t].work.tells = Radio!FunctionOf(asked[s].method)
    BY <1>1, <1>3, <1>4, <1>9 DEF AnswerOf
  <2>2. Append(<<>>, message) = <<message>>
    OBVIOUS
  <2>3. told' = [told EXCEPT ![s] = <<message>>]
    BY <1>4, <1>9, <2>1, <2>2
  <2>4. /\ told'[s] = <<message>>
        /\ \A r \in 1 .. Len(asked) : r # s => told'[r] = told[r]
        /\ told' = [r \in 1 .. Len(asked) |-> told'[r]]
    BY <1>3, <2>1, <2>3 DEF ToldInv
  <2>5. /\ RightCallback(asked[s].method, message.by)
        /\ Backed(asked[s].method, message)
    BY <1>2, <2>1, MessagesFit
  <2>6. ToldInv'
    <3>1. ASSUME NEW r \in 1 .. Len(asked'), told'[r] # <<>>
          PROVE  /\ told'[r] = <<told'[r][1]>>
                 /\ RightCallback(asked[r].method, told[r][1].by)'
                 /\ Backed(asked[r].method, told[r][1])'
      <4>1. CASE r = s
        <5>1. told'[r][1] = message
          BY <2>4, <4>1, OfOne
        <5>2. QED
          BY <1>4, <2>4, <2>5, <4>1, <5>1 DEF Backed, Radio!FunctionOf
      <4>2. CASE r # s
        <5>1. told'[r] = told[r] /\ r \in 1 .. Len(asked)
          BY <1>4, <2>4, <4>2
        <5>2. /\ told[r] = <<told[r][1]>>
              /\ RightCallback(asked[r].method, told[r][1].by)
              /\ Backed(asked[r].method, told[r][1])
          BY <1>3, <3>1, <5>1 DEF ToldInv
        <5>3. told'[r] = <<told'[r][1]>>
          BY <5>1, <5>2, Zenon
        <5>4. QED
          BY <1>4, <5>1, <5>2, <5>3 DEF Backed, Radio!FunctionOf
      <4>3. QED
        BY <4>1, <4>2
    <3>2. QED
      BY <1>4, <2>4, <3>1 DEF ToldInv
  <2>7. ASSUME NEW r, Unanswered(r), NotInHand(r) PROVE Unanswered(r)'
    <3>1. r # s /\ r \in 1 .. Len(asked) /\ told[r] = <<>>
      BY <1>1, <2>7 DEF Unanswered, NotInHand
    <3>2. QED
      BY <1>4, <2>4, <3>1 DEF Unanswered
  <2>8. RequestsInv'
    BY <1>3, <1>4, <1>7, <2>7 DEF RequestsInv
  <2>9. CallsInv'
    <3>1. ASSUME NEW i \in 1 .. Len(inbox), inbox[i].method # Registers
          PROVE  /\ Unanswered(inbox[i].serial)'
                 /\ NotInHand(inbox[i].serial)'
      <4>1. PICK r : r = inbox[i].serial
        OBVIOUS
      <4>2. Unanswered(r) /\ NotInHand(r)
        BY <1>3, <3>1, <4>1 DEF CallsInv
      <4>3. Unanswered(r)' /\ NotInHand(r)'
        BY <1>7, <2>7, <4>2
      <4>4. QED
        BY <1>4, <4>1, <4>3 DEF Unanswered, NotInHand
    <3>2. QED
      BY <1>3, <1>4, <3>1 DEF CallsInv
  <2>10. ASSUME NEW u \in Radio!Threads PROVE AnswerOf(u)'
    <3>1. CASE u = t
      BY <1>1, <1>4, <1>6, <2>1, <3>1 DEF AnswerOf, Radio!FunctionOf
    <3>2. CASE u # t
      <4>1. AnswerOf(u) /\ thread'[u] = thread[u]
        BY <1>5, <3>2 DEF AnswerInv
      <4>2. thread[u].work.serial # s
        BY <1>1, <1>9, <3>2 DEF AnswerInv
      <4>3. PICK r : r = thread[u].work.serial
        OBVIOUS
      <4>4. r # 0 => r \in 1 .. Len(asked) /\ told'[r] = told[r]
        BY <2>4, <4>1, <4>2, <4>3 DEF AnswerOf
      <4>5. QED
        BY <1>4, <4>1, <4>3, <4>4 DEF AnswerOf, Radio!FunctionOf
    <3>3. QED
      BY <3>1, <3>2
  <2>11. QED
    BY <1>7, <2>6, <2>8, <2>9, <2>10 DEF AnswerInv
<1>10. QED
  BY <1>8, <1>9

(* The other steps of a thread keep its work, and leave "finish" only with  *)
(* it done.                                                                 *)
LEMMA AnswerGoesOn ==
  ASSUME AnswerInv, NEW t \in Radio!Threads,
         UNCHANGED <<setting, asked, told, inbox, requests>>,
         \A u \in Radio!Threads : u # t => thread'[u] = thread[u],
         \/ /\ thread'[t].work = thread[t].work
            /\ thread[t].at = "finish" => thread'[t].at = "finish"
         \/ thread'[t].work.serial = 0
  PROVE  AnswerInv'
<1>1. /\ ToldInv /\ CallsInv /\ RequestsInv /\ AnswerOf(t)
  BY DEF AnswerInv
<1>2. \A s : s # 0 /\ NotInHand(s) => NotInHand(s)'
  BY DEF NotInHand
<1>3. ToldInv' /\ RequestsInv'
  BY <1>1, <1>2, ToldKept DEF RequestsInv, Unanswered
<1>4. CallsInv'
  BY <1>1, <1>2 DEF CallsInv, Unanswered, NotInHand
<1>5. ASSUME NEW u \in Radio!Threads PROVE AnswerOf(u)'
  <2>1. CASE u = t
    BY <1>1, <2>1 DEF AnswerOf, Radio!FunctionOf
  <2>2. CASE u # t
    BY <2>2, AnswerKept DEF AnswerInv
  <2>3. QED
    BY <2>1, <2>2
<1>6. \A u, v \in Radio!Threads :
        u # v /\ thread'[u].work.serial = thread'[v].work.serial
          => thread'[u].work.serial = 0
  BY DEF AnswerInv
<1>7. QED
  BY <1>3, <1>4, <1>5, <1>6 DEF AnswerInv

LEMMA AnswerWorkStep ==
  ASSUME ClientInv, AnswerInv, NEW t \in Radio!Threads, Radio!Works(t)
  PROVE  AnswerInv'
<1>1. Types /\ ThreadTypes /\ counter \in Nat
  BY DEF ClientInv, Types
<1>2. /\ UNCHANGED <<setting, asked, inbox, requests>>
      /\ \A u \in Radio!Threads : u # t => thread'[u] = thread[u]
  BY <1>1, WorkMoves
    DEF Radio!Works, Radio!Lock, Radio!Test, Radio!Tell, Radio!TellFails,
        Radio!TellCrashes, Radio!Reset, Radio!Relock, Radio!Finish, Radio!At
<1>3. ASSUME NEW place \in Radio!Places, Radio!Goes(t, place),
             thread[t].at # "finish", told' = told
      PROVE  AnswerInv'
  <2>1. thread'[t] = [at |-> place, work |-> thread[t].work,
                     locked |-> thread[t].locked, noted |-> thread[t].noted]
    BY <1>1, <1>3, GoesOn
  <2>2. thread'[t].work = thread[t].work
    BY <2>1
  <2>3. QED
    BY <1>2, <1>3, <2>2, AnswerGoesOn
<1>4. {"test", "call", "finish", "relock"} \subseteq Radio!Places
  BY DEF Radio!Places
<1>5. CASE Radio!Lock(t) \/ Radio!Test(t) \/ Radio!Reset(t) \/ Radio!Relock(t)
  <2>1. /\ \E place \in {"test", "call", "finish", "relock"} :
             Radio!Goes(t, place)
        /\ thread[t].at # "finish" /\ told' = told
    BY <1>5
      DEF Radio!Lock, Radio!Test, Radio!Reset, Radio!Relock, Radio!At
  <2>2. QED
    BY <1>3, <1>4, <2>1
<1>6. CASE Radio!Tell(t)
  BY <1>6, AnswerTell
<1>7. CASE Radio!TellFails(t)
  <2>1. /\ thread' = [thread EXCEPT ![t].at = "reset", ![t].noted = counter]
        /\ thread[t].at = "call" /\ told' = told
    BY <1>7 DEF Radio!TellFails, Radio!At
  <2>2. thread'[t] = [at |-> "reset", work |-> thread[t].work,
                     locked |-> thread[t].locked, noted |-> counter]
    BY <1>1, <2>1, NotesDown
  <2>3. thread'[t].work = thread[t].work
    BY <2>2
  <2>4. QED
    BY <1>2, <2>1, <2>3, AnswerGoesOn
<1>8. CASE Radio!TellCrashes(t)
  <2>1. thread' = thread /\ told' = told
    BY <1>8 DEF Radio!TellCrashes
  <2>2. QED
    BY <1>2, <2>1, AnswerGoesOn
<1>9. CASE Radio!Finish(t)
  <2>1. thread' = [thread EXCEPT ![t] = Radio!Resting] /\ told' = told
    BY <1>9 DEF Radio!Finish
  <2>2. thread'[t].work.serial = 0
    BY <1>1, <2>1 DEF ThreadTypes, Radio!Resting, Radio!NoWork
  <2>3. QED
    BY <1>2, <2>1, <2>2, AnswerGoesOn
<1>10. QED
  BY <1>5, <1>6, <1>7, <1>8, <1>9 DEF Radio!Works

LEMMA AnswerStep ==
  AsksOnly /\ ClientInv /\ AnswerInv /\ [Radio!Next]_Radio!vars => AnswerInv'
<1> SUFFICES ASSUME AsksOnly, ClientInv, AnswerInv, [Radio!Next]_Radio!vars
             PROVE  AnswerInv'
  OBVIOUS
<1>1. CASE UNCHANGED <<setting, asked, told, inbox, requests, thread>>
  BY <1>1, AnswerGoesOn DEF Radio!Threads
<1>2. CASE Radio!PhoneStarts
  <2>1. PICK asking : asking.method = Registers /\ asking.serial = 0
                      /\ inbox' = Append(inbox, asking) /\ asking \in Calls
    <3>1. phone' \in [session : Nat, alive : BOOLEAN, v11 : BOOLEAN]
      BY <1>2, PhoneStep DEF ClientInv, Types
    <3>2. PICK asking : asking = [method |-> Registers, serial |-> 0,
                                  session |-> phone'.session, v11 |-> phone'.v11]
      OBVIOUS
    <3>3. asking \in Calls
      BY <3>1, <3>2 DEF Calls, MayAsk
    <3>4. inbox' = Append(inbox, asking)
      BY <1>2, <3>2 DEF Radio!PhoneStarts, Registers
    <3>5. QED
      BY <3>2, <3>3, <3>4
  <2>2. /\ ToldInv /\ CallsInv /\ RequestsInv
        /\ inbox \in Seq(Calls)
        /\ UNCHANGED <<setting, asked, told, requests, thread>>
    BY <1>2 DEF AnswerInv, ClientInv, Types, Radio!PhoneStarts,
                Radio!serviceVars
  <2>3. /\ Len(inbox) \in Nat /\ Len(inbox') = Len(inbox) + 1
        /\ inbox'[Len(inbox) + 1] = asking
        /\ \A i \in 1 .. Len(inbox) : inbox'[i] = inbox[i]
    BY <2>1, <2>2, OneMore
  <2>4. CallsInv'
    <3>1. ASSUME NEW i \in 1 .. Len(inbox')
          PROVE  /\ inbox'[i].method = Registers => inbox'[i].serial = 0
                 /\ inbox'[i].method # Registers =>
                      /\ i \in 1 .. Len(inbox) /\ inbox'[i] = inbox[i]
                      /\ inbox[i].serial # 0
                      /\ Unanswered(inbox[i].serial)'
                      /\ inbox[i].method = asked'[inbox[i].serial].method
                      /\ inbox[i].serial \notin requests'
                      /\ NotInHand(inbox[i].serial)'
      <4>1. CASE i = Len(inbox) + 1
        BY <2>1, <2>3, <4>1
      <4>2. CASE i \in 1 .. Len(inbox)
        <5>1. inbox'[i] = inbox[i]
          BY <2>3, <4>2
        <5>2. /\ inbox[i].method = Registers => inbox[i].serial = 0
              /\ inbox[i].method # Registers =>
                   /\ Unanswered(inbox[i].serial)
                   /\ inbox[i].method = asked[inbox[i].serial].method
                   /\ inbox[i].serial \notin requests
                   /\ NotInHand(inbox[i].serial)
          BY <2>2, <4>2 DEF CallsInv
        <5>3. inbox[i].method # Registers => inbox[i].serial # 0
          BY <5>2 DEF Unanswered
        <5>4. QED
          BY <2>2, <4>2, <5>1, <5>2, <5>3 DEF Unanswered, NotInHand
      <4>3. QED
        BY <2>3, <4>1, <4>2
    <3>2. ASSUME NEW i \in 1 .. Len(inbox'), NEW j \in 1 .. Len(inbox'),
                 i # j, inbox'[i].method # Registers
          PROVE  inbox'[i].serial # inbox'[j].serial
      <4>1. /\ i \in 1 .. Len(inbox) /\ inbox'[i] = inbox[i]
            /\ inbox[i].serial # 0
        BY <3>1, <3>2
      <4>2. CASE inbox'[j].method = Registers
        BY <3>1, <4>1, <4>2
      <4>3. CASE inbox'[j].method # Registers
        <5>1. j \in 1 .. Len(inbox) /\ inbox'[j] = inbox[j]
          BY <3>1, <4>3
        <5>2. QED
          BY <2>2, <3>2, <4>1, <5>1 DEF CallsInv
      <4>4. QED
        BY <4>2, <4>3
    <3>3. ASSUME NEW i \in 1 .. Len(inbox'), inbox'[i].method # Registers
          PROVE  /\ Unanswered(inbox[i].serial)'
                 /\ NotInHand(inbox[i].serial)'
      <4>1. inbox'[i] = inbox[i]
        BY <3>1, <3>3
      <4>2. QED
        BY <3>1, <3>3, <4>1
    <3>4. QED
      BY <3>1, <3>2, <3>3 DEF CallsInv
  <2>5. RequestsInv'
    BY <2>2 DEF RequestsInv, Unanswered, NotInHand
  <2>6. QED
    BY <2>2, <2>4, <2>5, ToldKept, AnswerKept DEF AnswerInv
<1>3. CASE Radio!PhoneDies \/ Radio!Waiting
  BY <1>1, <1>3
    DEF Radio!PhoneDies, Radio!Waiting, Radio!vars, Radio!serviceVars,
        Radio!phoneVars
<1>4. CASE \E m \in setting.asks : Radio!Ask(m)
  BY <1>4, AnswerAskStep
<1>5. CASE Radio!SetResponseFunctions \/ Radio!Dispatch \/ Radio!Refuse
  BY <1>5, AnswerCallStep
<1>6. CASE Radio!Complete \/ Radio!Indicate
  BY <1>6, AnswerVendorStep
<1>7. CASE Radio!Works("rpc") \/ Radio!Works("modem")
  BY <1>7, AnswerWorkStep DEF Radio!Threads
<1>8. CASE UNCHANGED Radio!vars
  BY <1>1, <1>8 DEF Radio!vars, Radio!serviceVars, Radio!phoneVars
<1>9. QED
  BY <1>2, <1>3, <1>4, <1>5, <1>6, <1>7, <1>8 DEF Radio!Next, Radio!RpcThread

(* Each request is answered once, by the service or the vendor, and through *)
(* the function of ril_commands.h and the method of the client's callback   *)
(* that belong to what it asked: a serial is on its way, with the vendor or *)
(* in one thread's hands until a call of the client succeeds.               *)
THEOREM RequestsAreAnsweredAsAsked ==
  ASSUME AsksOnly
  PROVE  /\ Radio!Spec => []AnsweredAsAsked
         /\ ServicesSpec => []AnsweredAsAsked
<1>1. AnswerInv => AnsweredAsAsked
  BY AnswersAreThose DEF AnswerInv
<1>2. QED
  BY <1>1, ClientInit, ClientStep, AnswerInit, AnswerStep, RadioAlone, PTL
    DEF Radio!Spec, ServicesSpec

(* A success that a client is told of comes with the vendor's data, unless  *)
(* the function takes none: no broken payload is passed off as one,         *)
(* whichever of the functions answers.                                      *)
THEOREM SuccessHasItsData ==
  ASSUME AsksOnly
  PROVE  /\ Radio!Spec => []SuccessIsBacked
         /\ ServicesSpec => []SuccessIsBacked
<1>1. AnswerInv => SuccessIsBacked
  BY AnswersAreThose DEF AnswerInv
<1>2. QED
  BY <1>1, ClientInit, ClientStep, AnswerInit, AnswerStep, RadioAlone, PTL
    DEF Radio!Spec, ServicesSpec
=============================================================================
