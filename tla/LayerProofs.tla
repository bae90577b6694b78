----------------------------- MODULE LayerProofs -----------------------------
(***************************************************************************)
(* Proofs about the frames and deferred changes of layers, for any plot:   *)
(* any number of layers, frames and changes, and who defers on whom.       *)
(***************************************************************************)
EXTENDS MCDisplay, SequenceTheorems, FiniteSetTheorems, TLAPS

Frames == [n : Nat, droppable : BOOLEAN]
FrameCalls == [n : Nat, on : {"available", "replaced"}]
SyncPoints == [by : Layers, change : Nat, frame : Int]
States == [change : Nat, hidden : BOOLEAN, masked : BOOLEAN,
           modified : BOOLEAN]
PendingStates == [change : Nat, hidden : BOOLEAN, masked : BOOLEAN,
                  barrier : Layers \cup {NoLayer}, frame : Int]
Commits == [change : Nat, hidden : BOOLEAN]

LatchTypes ==
  /\ plot \in Plots
  /\ bq \in [Layers -> Seq(Frames)]
  /\ next \in [Layers -> Nat]
  /\ calls \in [Layers -> SUBSET FrameCalls]
  /\ items \in [Layers -> Seq(Nat)]
  /\ last \in [Layers -> Nat] /\ currentFrame \in [Layers -> Nat]
  /\ failed \in [Layers -> BOOLEAN]
  /\ now \in [Layers -> States]
  /\ pending \in [Layers -> Seq(PendingStates)]
  /\ layerDrawn \in [Layers -> Commits]
  /\ remote \in [Layers -> Seq(SyncPoints)]
  /\ points \in [Layers -> Seq(SyncPoints)]
  /\ pointsAvailable \subseteq SyncPoints
  /\ layerTodo \subseteq Layers /\ seen \subseteq SyncPoints
  /\ commit \in Commits /\ updated \in BOOLEAN
  /\ present \subseteq Layers /\ shown \subseteq Layers

(* The frames the consumer still gets, in a row up to the last one queued.  *)
Queued(l, n) == \E k \in DOMAIN bq[l] : bq[l][k].n = n
QueueRises(l) ==
  /\ \A j, k \in DOMAIN bq[l] : j < k => bq[l][j].n < bq[l][k].n
  /\ \A k \in DOMAIN bq[l] : bq[l][k].n < next[l]
  /\ bq[l] # <<>> => bq[l][Len(bq[l])].n = next[l] - 1

InShadow(l, n) == \E i \in DOMAIN items[l] : items[l][i] = n
ItemsRise(l) ==
  /\ \A i, j \in DOMAIN items[l] : i < j => items[l][i] < items[l][j]
  /\ \A i \in DOMAIN items[l] : items[l][i] <= last[l]
  /\ items[l] # <<>> => items[l][Len(items[l])] = last[l]
  /\ currentFrame[l] <= last[l] /\ last[l] < next[l]

CallsKnow(l) == \A call \in calls[l] :
  /\ call.n < next[l]
  /\ call.on = "replaced" => ~Queued(l, call.n - 1)

AllListed(l) == ~failed[l] => \A k \in DOMAIN bq[l] :
  bq[l][k].n <= last[l] => InShadow(l, bq[l][k].n)

Shadow(l) == QueueRises(l) /\ ItemsRise(l) /\ CallsKnow(l) /\ AllListed(l)
ShadowInv == \A l \in Layers : Shadow(l)

(* Without times or replacements every frame queued is still on its way:    *)
(* in the queue, and listed once its callback has come.                     *)
InTime == ~Latch!Odd("timed") /\ ~Latch!Odd("async")
NoneReplaced(l) ==
  /\ \A k \in DOMAIN bq[l] : ~bq[l][k].droppable
  /\ \A call \in calls[l] : call.on = "available"
NoneLost(l) == \A n \in last[l] + 1 .. next[l] - 1 : Queued(l, n)
NoneExtra(l) == \A i \in DOMAIN items[l] : Queued(l, items[l][i])
Plain(l) == NoneReplaced(l) /\ NoneLost(l) /\ NoneExtra(l)
PlainInv == InTime => \A l \in Layers : Plain(l)

(* What a layer has decided to latch comes with the changes it saw.         *)
Met(l) ==
  Latch!InOrder(l) =>
    \A p \in seen : p.frame <= Latch!HeadFrame(l) => p \in pointsApplied

FramesInv ==
  /\ layerMain \in {"latch", "acquire"} => \A l \in layerTodo : items[l] # <<>>
  /\ layerMain = "acquire" => \A l \in layerTodo : InTime /\ Latch!AtTurn(l) =>
       Met(l)

(* The changes of a layer, from the oldest drawn to the newest made.        *)
PointOf(l, s) == [by |-> l, change |-> s.change, frame |-> s.frame]
Barred(s) == s.barrier # NoLayer
Applying(l) == layerMain = "apply" /\ Latch!AtTurn(l)

PendingRise(l) ==
  /\ \A i, j \in DOMAIN pending[l] :
       i < j => pending[l][i].change < pending[l][j].change
  /\ \A i \in DOMAIN pending[l] :
       /\ layerDrawn[l].change <= pending[l][i].change
       /\ pending[l][i].change <= now[l].change
       /\ now[l].modified /\ ~Applying(l) =>
            pending[l][i].change < now[l].change
  /\ layerDrawn[l].change <= now[l].change

(* What doTransaction will commit lies between those drawn and pending.     *)
CommitFollows(l) == Applying(l) =>
  /\ commit.change <= now[l].change
  /\ commit.hidden = now[l].hidden
  /\ updated =>
       /\ layerDrawn[l].change <= commit.change
       /\ \A i \in DOMAIN pending[l] : commit.change <= pending[l][i].change

(* A layer that is hidden stays so in every later state.                    *)
HiddenStays(l) ==
  /\ now[l].masked = now[l].hidden
  /\ \A i \in DOMAIN pending[l] :
       /\ pending[l][i].masked = pending[l][i].hidden
       /\ pending[l][i].hidden => now[l].hidden
  /\ layerDrawn[l].hidden => now[l].hidden

(* The points a layer waits for are those of its deferred states, in order. *)
RemoteFollows(l) ==
  /\ \A j, k \in DOMAIN remote[l] :
       j < k => remote[l][j].change < remote[l][k].change
  /\ \A k \in DOMAIN remote[l] : \E i \in DOMAIN pending[l] :
       Barred(pending[l][i]) /\ remote[l][k] = PointOf(l, pending[l][i])
  /\ \A i \in DOMAIN pending[l] : Barred(pending[l][i]) =>
       \E k \in DOMAIN remote[l] : remote[l][k] = PointOf(l, pending[l][i])

(* Points are of changes that were made, at the layer the change waits for, *)
(* and available only when the frame has come.                              *)
PointsKnown ==
  /\ \A bar \in Layers : \A k \in DOMAIN points[bar] :
       points[bar][k].change <= now[points[bar][k].by].change
  /\ \A p \in pointsAvailable : p.change <= now[p.by].change
PointsAtBarrier(l) == \A bar \in Layers : \A k \in DOMAIN points[bar] :
  \A i \in DOMAIN pending[l] :
    points[bar][k] = PointOf(l, pending[l][i]) /\ Barred(pending[l][i]) =>
      pending[l][i].barrier = bar
AvailableCame(l) == \A i \in DOMAIN pending[l] :
  PointOf(l, pending[l][i]) \in pointsAvailable => Latch!Come(pending[l][i])

ChangeInv(l) ==
  /\ PendingRise(l) /\ CommitFollows(l) /\ HiddenStays(l)
  /\ RemoteFollows(l) /\ PointsAtBarrier(l) /\ AvailableCame(l)
ChangesInv == PointsKnown /\ \A l \in Layers : ChangeInv(l)

LatchInv == LatchTypes /\ ShadowInv /\ PlainInv /\ FramesInv /\ ChangesInv

-----------------------------------------------------------------------------
(* A pass is at one layer only, since the z-order lists each once.          *)
LEMMA OneAtTurn ==
  ASSUME NEW l \in Layers, NEW k \in Layers, Latch!AtTurn(l), Latch!AtTurn(k)
  PROVE  l = k
<1>1. Latch!Behind(l, k) /\ Latch!Behind(k, l)
  BY DEF Latch!AtTurn
<1>2. PICK i \in DOMAIN ZOrder, j \in DOMAIN ZOrder :
        i <= j /\ ZOrder[i] = l /\ ZOrder[j] = k
  BY <1>1 DEF Latch!Behind
<1>3. PICK m \in DOMAIN ZOrder, n \in DOMAIN ZOrder :
        m <= n /\ ZOrder[m] = k /\ ZOrder[n] = l
  BY <1>1 DEF Latch!Behind
<1>4. i = n /\ j = m
  BY <1>2, <1>3, DisplayConstants DEF Latch!LatchConstants
<1>5. i \in Int /\ j \in Int
  BY DisplayConstants DEF Latch!LatchConstants
<1> QED
  BY <1>2, <1>3, <1>4, <1>5

LEMMA Appended ==
  ASSUME NEW S, NEW s \in Seq(S), NEW e \in S, NEW t, t = Append(s, e)
  PROVE  /\ Len(s) \in Nat /\ DOMAIN s = 1 .. Len(s)
         /\ DOMAIN t = 1 .. Len(s) + 1 /\ t[Len(s) + 1] = e
         /\ \A i \in DOMAIN s : i \in DOMAIN t /\ t[i] = s[i]
         /\ \A i \in DOMAIN t : i = Len(s) + 1 \/ i \in DOMAIN s
OBVIOUS

(* The points that latchBuffer leaves were there.                           *)
LEMMA LeftKeeps ==
  ASSUME points \in [Layers -> Seq(SyncPoints)], NEW l \in Layers, NEW n,
         NEW left \in Latch!Left(l, n)
  PROVE  /\ left \in Seq(SyncPoints)
         /\ \A k \in DOMAIN left : \E i \in DOMAIN points[l] :
              left[k] = points[l][i]
<1> DEFINE stay == {i \in DOMAIN points[l] :
              points[l][i] \notin pointsAvailable \cap pointsApplied
                \/ points[l][i].frame > n}
<1>1. PICK size \in 0 .. Len(points[l]) : \E row \in [1 .. size -> stay] :
        left = [k \in DOMAIN row |-> points[l][row[k]]]
  BY DEF Latch!Left, Latch!SeqOf
<1> PICK row \in [1 .. size -> stay] :
      left = [k \in DOMAIN row |-> points[l][row[k]]]
  BY <1>1
<1>2. stay \subseteq DOMAIN points[l] /\ DOMAIN points[l] = 1 .. Len(points[l])
      /\ Len(points[l]) \in Nat /\ points[l] \in Seq(SyncPoints)
  OBVIOUS
<1>3. \A k \in 1 .. size : row[k] \in DOMAIN points[l]
  BY <1>2
<1>4. left = [k \in 1 .. size |-> points[l][row[k]]]
  OBVIOUS
<1>5. \A k \in 1 .. size : points[l][row[k]] \in SyncPoints
  BY <1>3, <1>2
<1>6. left \in [1 .. size -> SyncPoints] /\ size \in Nat
  BY <1>4, <1>5, <1>2
<1>7. left \in Seq(SyncPoints)
  BY <1>6
<1> QED
  BY <1>3, <1>4, <1>7

(* So were those of a layer after it latched.                               *)
LEMMA LatchPoints ==
  ASSUME points \in [Layers -> Seq(SyncPoints)], NEW l \in Layers, NEW n,
         Latch!Latch(l, n)
  PROVE  /\ points' \in [Layers -> Seq(SyncPoints)]
         /\ \A bar \in Layers : \A k \in DOMAIN points'[bar] :
              \E i \in DOMAIN points[bar] : points'[bar][k] = points[bar][i]
<1>1. PICK left \in Latch!Left(l, n) : points' = [points EXCEPT ![l] = left]
  BY DEF Latch!Latch
<1>2. /\ left \in Seq(SyncPoints)
      /\ \A k \in DOMAIN left : \E i \in DOMAIN points[l] :
           left[k] = points[l][i]
  BY LeftKeeps
<1> QED
  BY <1>1, <1>2

-----------------------------------------------------------------------------
LEMMA PlotTypes ==
  ASSUME plot \in Plots
  PROVE  /\ plot.frames \in [Layers -> Nat] /\ plot.changes \in [Layers -> Nat]
         /\ plot.defer \subseteq Layers \X Layers /\ plot.ahead \subseteq Int
         /\ NoLayer \notin Layers
BY DisplayConstants DEF Latch!LatchConstants

LEMMA InitTypes ==
  ASSUME Latch!Init  PROVE LatchTypes
<1>1. \A S : <<>> \in Seq(S)
  OBVIOUS
<1>2. [change |-> 0, hidden |-> FALSE, masked |-> FALSE, modified |-> FALSE]
        \in States
  BY DEF States
<1>3. [change |-> 0, hidden |-> FALSE] \in Commits
  BY DEF Commits
<1>4. /\ bq \in [Layers -> Seq(Frames)] /\ items \in [Layers -> Seq(Nat)]
      /\ pending \in [Layers -> Seq(PendingStates)]
      /\ remote \in [Layers -> Seq(SyncPoints)]
      /\ points \in [Layers -> Seq(SyncPoints)]
  BY <1>1 DEF Latch!Init
<1>5. calls \in [Layers -> SUBSET FrameCalls]
  BY DEF Latch!Init
<1>6. now \in [Layers -> States] /\ layerDrawn \in [Layers -> Commits]
  BY <1>2, <1>3 DEF Latch!Init
<1> QED
  BY <1>3, <1>4, <1>5, <1>6 DEF Latch!Init, LatchTypes

LEMMA QueueTypes ==
  ASSUME LatchTypes, NEW l \in Layers, NEW d \in BOOLEAN,
         Latch!QueueBuffer(l, d)
  PROVE  LatchTypes'
<1> DEFINE newest == [n |-> next[l], droppable |-> d]
<1> DEFINE base == IF bq[l] # <<>> /\ bq[l][Len(bq[l])].droppable
                   THEN Latch!Front(bq[l]) ELSE bq[l]
<1>1. bq' = [bq EXCEPT ![l] = base \o <<newest>>]
  BY DEF Latch!QueueBuffer
<1>2. newest \in Frames /\ base \in Seq(Frames)
  BY DEF LatchTypes, Frames, Latch!Front
<1>3. bq' \in [Layers -> Seq(Frames)]
  BY <1>1, <1>2 DEF LatchTypes
<1>4. \E what \in {"available", "replaced"} :
        calls' = [calls EXCEPT ![l] = @ \cup {[n |-> next[l], on |-> what]}]
  BY DEF Latch!QueueBuffer
<1>5. calls' \in [Layers -> SUBSET FrameCalls] /\ next' \in [Layers -> Nat]
  BY <1>4 DEF LatchTypes, FrameCalls, Latch!QueueBuffer
<1> QED
  BY <1>3, <1>5
    DEF LatchTypes, Latch!QueueBuffer, Latch!shadowVars, Latch!latchVars,
        Latch!stateVars, Latch!pointVars, Latch!lifeVars, Latch!mainVars

LEMMA CallbackTypes ==
  ASSUME LatchTypes, NEW l \in Layers, Latch!Callbacks(l)
  PROVE  LatchTypes'
<1>1. PICK call \in calls[l] :
        /\ Latch!FrameCallback(l, call)
        /\ \/ /\ items' = [items EXCEPT ![l] = Append(@, call.n)]
              /\ last' = [last EXCEPT ![l] = call.n]
           \/ UNCHANGED <<items, last>>
           \/ /\ items[l] # <<>>
              /\ items' = [items EXCEPT ![l][Len(items[l])] = call.n]
              /\ last' = [last EXCEPT ![l] = call.n]
  BY DEF Latch!Callbacks, Latch!OnFrameAvailable, Latch!OnFrameReplaced
<1>2. call.n \in Nat
  BY DEF LatchTypes, FrameCalls
<1>3. items[l] \in Seq(Nat)
  BY DEF LatchTypes
<1>4. items[l] # <<>> =>
        [items[l] EXCEPT ![Len(items[l])] = call.n] \in Seq(Nat)
  BY <1>2, <1>3
<1>5. items' \in [Layers -> Seq(Nat)] /\ last' \in [Layers -> Nat]
  <2>1. items \in [Layers -> Seq(Nat)] /\ last \in [Layers -> Nat]
    BY DEF LatchTypes
  <2>2. Append(items[l], call.n) \in Seq(Nat)
    BY <1>2, <1>3
  <2>3. items' = [items EXCEPT ![l] = Append(items[l], call.n)] =>
          items' \in [Layers -> Seq(Nat)]
    BY <2>1, <2>2
  <2>4. ASSUME items[l] # <<>>,
               items' = [items EXCEPT ![l][Len(items[l])] = call.n]
        PROVE  items' \in [Layers -> Seq(Nat)]
    <3>1. items' =
            [items EXCEPT ![l] = [items[l] EXCEPT ![Len(items[l])] = call.n]]
      BY <2>4
    <3> QED
      BY <1>4, <2>1, <2>4, <3>1
  <2> QED
    BY <1>1, <1>2, <2>1, <2>3, <2>4
<1>6. calls' \in [Layers -> SUBSET FrameCalls]
  BY <1>1 DEF LatchTypes, Latch!FrameCallback
<1> QED
  BY <1>1, <1>5, <1>6
    DEF LatchTypes, Latch!FrameCallback, Latch!latchVars, Latch!stateVars,
        Latch!pointVars, Latch!lifeVars, Latch!mainVars

(* What pushPendingState adds is a pending state and a point.               *)
LEMMA PushTypes ==
  ASSUME LatchTypes, NEW l \in Layers, NEW s \in States,
         NEW bar \in Layers \cup {NoLayer}, NEW f \in Int,
         Latch!Push(l, s, bar, f)
  PROVE  /\ pending' \in [Layers -> Seq(PendingStates)]
         /\ [change |-> s.change, hidden |-> s.hidden, masked |-> s.masked,
             barrier |-> bar, frame |-> f] \in PendingStates
<1> DEFINE new == [change |-> s.change, hidden |-> s.hidden,
                   masked |-> s.masked, barrier |-> bar, frame |-> f]
<1>1. new \in PendingStates
  BY DEF States, PendingStates
<1>2. pending' = [pending EXCEPT ![l] = Append(pending[l], new)]
  BY DEF Latch!Push
<1> HIDE DEF new
<1>3. Append(pending[l], new) \in Seq(PendingStates)
  BY <1>1 DEF LatchTypes
<1>4. pending' \in [Layers -> Seq(PendingStates)]
  BY <1>2, <1>3 DEF LatchTypes
<1> QED
  BY <1>1, <1>4 DEF new

LEMMA TransactTypes ==
  ASSUME LatchTypes, NEW l \in Layers, NEW hide \in BOOLEAN,
         Latch!Transact(l, hide)
  PROVE  LatchTypes'
<1> DEFINE state == [change |-> now[l].change + 1,
                     hidden |-> now[l].hidden \/ hide,
                     masked |-> now[l].masked \/ hide, modified |-> TRUE]
<1>1. state \in States
  BY DEF LatchTypes, States
<1> HIDE DEF state
<1>2. \/ /\ now' = [now EXCEPT ![l] = state]
         /\ UNCHANGED <<pending, remote, points>>
      \/ \E bar \in Layers : \E ahead \in plot.ahead :
           Latch!DeferTransactionUntil(l, state, bar, next[bar] + ahead)
  BY DEF Latch!Transact, state
<1>3. /\ now' \in [Layers -> States]
      /\ pending' \in [Layers -> Seq(PendingStates)]
      /\ remote' \in [Layers -> Seq(SyncPoints)]
      /\ points' \in [Layers -> Seq(SyncPoints)]
  <2>1. CASE /\ now' = [now EXCEPT ![l] = state]
             /\ UNCHANGED <<pending, remote, points>>
    BY <1>1, <2>1 DEF LatchTypes
  <2>2. ASSUME NEW bar \in Layers, NEW ahead \in plot.ahead,
               Latch!DeferTransactionUntil(l, state, bar, next[bar] + ahead)
        PROVE  <1>3
    <3>1. next[bar] + ahead \in Int
      <4>1. plot \in Plots /\ next[bar] \in Nat
        BY DEF LatchTypes
      <4> QED
        BY <4>1, PlotTypes
    <3>2. \E c \in Layers \cup {NoLayer} :
            Latch!Push(l, state, c, next[bar] + ahead)
      BY <2>2 DEF Latch!DeferTransactionUntil
    <3>3. pending' \in [Layers -> Seq(PendingStates)]
      BY <1>1, <3>1, <3>2, PushTypes
    <3>4. now' \in [Layers -> States]
      BY <1>1, <2>2 DEF Latch!DeferTransactionUntil, LatchTypes, States
    <3>5. [by |-> l, change |-> state.change,
            frame |-> next[bar] + ahead] \in SyncPoints
      BY <1>1, <3>1 DEF SyncPoints, States
    <3>6. /\ remote' \in [Layers -> Seq(SyncPoints)]
          /\ points' \in [Layers -> Seq(SyncPoints)]
      <4> DEFINE point == [by |-> l, change |-> state.change,
            frame |-> next[bar] + ahead]
      <4>1. \/ UNCHANGED <<remote, points>>
            \/ /\ remote' = [remote EXCEPT ![l] = Append(remote[l], point)]
               /\ points' = [points EXCEPT ![bar] = Append(points[bar], point)]
        BY <2>2 DEF Latch!DeferTransactionUntil
      <4>2. point \in SyncPoints
        BY <3>5
      <4> HIDE DEF point
      <4>3. /\ remote \in [Layers -> Seq(SyncPoints)]
            /\ points \in [Layers -> Seq(SyncPoints)]
        BY DEF LatchTypes
      <4>4. /\ Append(remote[l], point) \in Seq(SyncPoints)
            /\ Append(points[bar], point) \in Seq(SyncPoints)
        BY <4>2, <4>3
      <4> QED
        BY <4>1, <4>3, <4>4
    <3> QED
      BY <3>3, <3>4, <3>6
  <2> QED
    BY <1>2, <2>1, <2>2
<1> QED
  BY <1>3
    DEF Latch!Transact, LatchTypes, Latch!queueVars, Latch!shadowVars,
        Latch!latchVars, Latch!lifeVars, Latch!mainVars

LEMMA ClientTypes ==
  ASSUME LatchTypes, NEW l \in Layers, Latch!RemoveLayer(l) \/ Latch!Destroy(l)
  PROVE  LatchTypes'
<1>1. CASE Latch!RemoveLayer(l)
  BY <1>1
    DEF Latch!RemoveLayer, LatchTypes, Latch!queueVars, Latch!shadowVars,
        Latch!latchVars, Latch!stateVars, Latch!pointVars, Latch!mainVars
<1>2. CASE Latch!Destroy(l)
  <2>1. Latch!ToSet(points[l]) \subseteq SyncPoints
    BY DEF LatchTypes, Latch!ToSet
  <2>2. pointsAvailable' \subseteq SyncPoints
    BY <1>2, <2>1 DEF Latch!Destroy, LatchTypes
  <2> QED
    BY <1>2, <2>2
      DEF Latch!Destroy, LatchTypes, Latch!queueVars, Latch!shadowVars,
          Latch!latchVars, Latch!stateVars, Latch!mainVars
<1> QED
  BY <1>1, <1>2

LEMMA InvalidateTypes ==
  ASSUME LatchTypes, Latch!Invalidate
  PROVE  LatchTypes'
<1>1. layerTodo' \subseteq Layers
  BY DEF Latch!Invalidate, LatchTypes
<1>2. \A l \in present : Latch!AtHand(l) \subseteq SyncPoints
  BY DEF Latch!AtHand, LatchTypes, Latch!ToSet
<1>3. pointsAvailable' \subseteq pointsAvailable \cup
        UNION {Latch!AtHand(l) : l \in present}
  BY DEF Latch!Invalidate
<1>4. pointsAvailable' \subseteq SyncPoints
  <2>1. pointsAvailable \subseteq SyncPoints
    BY DEF LatchTypes
  <2> QED
    BY <1>2, <1>3, <2>1
<1> QED
  BY <1>1, <1>4
    DEF Latch!Invalidate, LatchTypes, Latch!queueVars, Latch!shadowVars,
        Latch!latchVars, Latch!stateVars, Latch!lifeVars

LEMMA PushStateTypes ==
  ASSUME LatchTypes, Latch!PushPendingState
  PROVE  LatchTypes'
<1>1. PICK l \in layerTodo :
        /\ commit' = [change |-> now[l].change, hidden |-> now[l].hidden]
        /\ IF now[l].modified THEN Latch!Push(l, now[l], NoLayer, 0)
           ELSE UNCHANGED pending
  BY DEF Latch!PushPendingState
<1>2. l \in Layers /\ now[l] \in States
  BY DEF LatchTypes
<1>3. commit' \in Commits
  BY <1>1, <1>2 DEF Commits, States
<1>4. pending' \in [Layers -> Seq(PendingStates)]
  <2>1. CASE Latch!Push(l, now[l], NoLayer, 0)
    <3>1. NoLayer \in Layers \cup {NoLayer} /\ 0 \in Int
      OBVIOUS
    <3> QED
      BY <1>2, <2>1, <3>1, PushTypes
  <2>2. CASE UNCHANGED pending
    BY <2>2 DEF LatchTypes
  <2> QED
    BY <1>1, <2>1, <2>2
<1> QED
  BY <1>3, <1>4
    DEF Latch!PushPendingState, LatchTypes, Latch!queueVars, Latch!shadowVars,
        Latch!latchVars, Latch!pointVars, Latch!lifeVars

LEMMA PopTypes ==
  ASSUME LatchTypes, NEW l \in Layers, pending[l] # <<>>,
         Latch!PopPendingState(l)
  PROVE  commit' \in Commits /\ pending' \in [Layers -> Seq(PendingStates)]
<1>1. /\ pending[l][1] \in PendingStates
      /\ Tail(pending[l]) \in Seq(PendingStates)
  BY DEF LatchTypes
<1>2. commit' \in Commits
  BY <1>1 DEF Latch!PopPendingState, Commits, PendingStates, LatchTypes
<1> QED
  BY <1>1, <1>2 DEF Latch!PopPendingState, LatchTypes

LEMMA ApplyTypes ==
  ASSUME LatchTypes, Latch!ApplyPendingState
  PROVE  LatchTypes'
<1>1. PICK l \in layerTodo :
        /\ pending[l] # <<>>
        /\ \/ /\ Latch!PopPendingState(l)
              /\ UNCHANGED <<pointsApplied, remote>>
           \/ /\ ~Latch!Unbarred(l) /\ Latch!DisposePoint(l)
              /\ \/ Latch!PopPendingState(l)
                 \/ UNCHANGED <<commit, pending, updated>>
  BY DEF Latch!ApplyPendingState
<1>2. l \in Layers
  BY DEF LatchTypes
<1>3. /\ commit' \in Commits /\ pending' \in [Layers -> Seq(PendingStates)]
      /\ updated' \in BOOLEAN
  <2>1. CASE Latch!PopPendingState(l)
    BY <1>1, <1>2, <2>1, PopTypes DEF Latch!PopPendingState
  <2>2. CASE UNCHANGED <<commit, pending, updated>>
    BY <2>2 DEF LatchTypes
  <2> QED
    BY <1>1, <2>1, <2>2
<1>4. remote' \in [Layers -> Seq(SyncPoints)]
  <2>1. CASE UNCHANGED remote
    BY <2>1 DEF LatchTypes
  <2>2. CASE ~Latch!Unbarred(l) /\ Latch!DisposePoint(l)
    <3>1. remote[l] # <<>> /\ remote[l] \in Seq(SyncPoints)
      BY <1>2, <2>2 DEF Latch!Unbarred, LatchTypes
    <3>2. Tail(remote[l]) \in Seq(SyncPoints)
      BY <3>1
    <3> QED
      BY <1>2, <2>2, <3>2 DEF Latch!DisposePoint, LatchTypes
  <2> QED
    BY <1>1, <2>1, <2>2
<1> QED
  BY <1>3, <1>4
    DEF Latch!ApplyPendingState, LatchTypes, Latch!queueVars,
        Latch!shadowVars, Latch!latchVars, Latch!lifeVars

LEMMA CommitTypes ==
  ASSUME LatchTypes, Latch!CommitLayer
  PROVE  LatchTypes'
<1>1. PICK l \in layerTodo :
        /\ layerTodo' = layerTodo \ {l}
        /\ now' = [now EXCEPT ![l].modified = FALSE]
        /\ \/ layerDrawn' = [layerDrawn EXCEPT ![l] = commit]
           \/ layerDrawn' = layerDrawn
        /\ \/ UNCHANGED <<pointsAvailable, points>>
           \/ /\ pointsAvailable' = pointsAvailable \cup Latch!ToSet(points[l])
              /\ points' = [points EXCEPT ![l] = <<>>]
  BY DEF Latch!CommitLayer
<1>2. l \in Layers
  BY DEF LatchTypes
<1>3. now' \in [Layers -> States] /\ layerDrawn' \in [Layers -> Commits]
  <2>1. /\ now \in [Layers -> States] /\ layerDrawn \in [Layers -> Commits]
        /\ commit \in Commits
    BY DEF LatchTypes
  <2>2. now' = [now EXCEPT ![l] = [now[l] EXCEPT !.modified = FALSE]]
    BY <1>1
  <2>3. [now[l] EXCEPT !.modified = FALSE] \in States
    BY <1>2, <2>1 DEF States
  <2>4. now' \in [Layers -> States]
    BY <2>1, <2>2, <2>3
  <2> QED
    BY <1>1, <2>1, <2>4
<1>4. Latch!ToSet(points[l]) \subseteq SyncPoints
  BY <1>2 DEF LatchTypes, Latch!ToSet
<1>5. /\ pointsAvailable' \subseteq SyncPoints
      /\ points' \in [Layers -> Seq(SyncPoints)]
  <2>1. /\ pointsAvailable \subseteq SyncPoints
        /\ points \in [Layers -> Seq(SyncPoints)]
    BY DEF LatchTypes
  <2>2. <<>> \in Seq(SyncPoints)
    OBVIOUS
  <2> QED
    BY <1>1, <1>4, <2>1, <2>2
<1>6. layerTodo' \subseteq Layers
  BY <1>1 DEF LatchTypes
<1> QED
  BY <1>3, <1>5, <1>6
    DEF Latch!CommitLayer, LatchTypes, Latch!queueVars, Latch!shadowVars,
        Latch!latchVars, Latch!lifeVars

LEMMA DecideTypes ==
  ASSUME LatchTypes, Latch!Decide
  PROVE  LatchTypes'
<1>1. PICK l \in layerTodo :
        /\ layerTodo' \subseteq layerTodo
        /\ \/ UNCHANGED pointsAvailable
           \/ \E first \in SUBSET Latch!Unsignaled(l) :
                pointsAvailable' = pointsAvailable \cup
                  {points[l][i] : i \in first}
  <2>1. PICK l \in layerTodo :
     LET first == {i \in Latch!Unsignaled(l) : \A j \in Latch!Unsignaled(l) :
                    i <= j}
     IN IF ~latched[l] /\ Latch!AllTransactionsSignaled(l)
        THEN /\ layerMain' = "acquire" /\ seen' = Latch!ToSet(points[l])
             /\ UNCHANGED <<layerTodo, pointsAvailable, layerMessage>>
        ELSE /\ layerTodo' = layerTodo \ {l}
             /\ IF latched[l] THEN UNCHANGED <<pointsAvailable, layerMessage>>
                ELSE /\ pointsAvailable' = pointsAvailable \cup
                          {points[l][i] : i \in first}
                     /\ layerMessage' = TRUE
             /\ UNCHANGED <<layerMain, seen>>
    BY DEF Latch!Decide
  <2> QED
    BY <2>1
<1>2. l \in Layers
  BY DEF LatchTypes
<1>3. \A i \in Latch!Unsignaled(l) : points[l][i] \in SyncPoints
  BY <1>2 DEF Latch!Unsignaled, Latch!Matching, LatchTypes
<1>4. pointsAvailable' \subseteq SyncPoints
  <2>1. pointsAvailable \subseteq SyncPoints
    BY DEF LatchTypes
  <2>2. ASSUME NEW first \in SUBSET Latch!Unsignaled(l)
        PROVE  {points[l][i] : i \in first} \subseteq SyncPoints
    BY <1>3
  <2> QED
    BY <1>1, <2>1, <2>2
<1>5. layerTodo' \subseteq Layers
  BY <1>1 DEF LatchTypes
<1>6. seen' \subseteq SyncPoints
  <2>1. ASSUME NEW m \in Layers
        PROVE  Latch!ToSet(points[m]) \subseteq SyncPoints
    <3>1. points[m] \in Seq(SyncPoints)
      BY DEF LatchTypes
    <3> QED
      BY <3>1 DEF Latch!ToSet
  <2>2. seen' = seen \/ \E m \in layerTodo : seen' = Latch!ToSet(points[m])
    BY DEF Latch!Decide
  <2> QED
    BY <2>1, <2>2 DEF LatchTypes
<1> QED
  BY <1>4, <1>5, <1>6
    DEF Latch!Decide, LatchTypes, Latch!queueVars, Latch!shadowVars,
        Latch!latchVars, Latch!stateVars, Latch!lifeVars

(* What every way through updateTexImage leaves of the frames and items.    *)
AcquireShape(l) ==
  \/ UNCHANGED <<bq, items, Latch!latchVars, points>>
  \/ /\ bq[l] = <<>>
     /\ Latch!Latch(l, currentFrame[l])
     /\ UNCHANGED <<bq, items, failed>>
  \/ \E k \in Latch!Offers(l) :
       /\ Latch!Acquired(l, k)
       /\ \/ /\ ~failed[l]
             /\ Latch!DropItems(l, bq[l][k].n)
             /\ Latch!Latch(l, bq[l][k].n)
             /\ UNCHANGED failed
          \/ /\ ~failed[l] /\ items' = [items EXCEPT ![l] = Tail(@)]
             /\ UNCHANGED <<Latch!latchVars, points>>
          \/ /\ items' = [items EXCEPT ![l] = <<>>]
             /\ failed' = [failed EXCEPT ![l] = TRUE]
             /\ UNCHANGED <<currentFrame, points>>

(* The layer whose turn it is acquires, or finds nothing to, and leaves the *)
(* pass.                                                                    *)
LEMMA AcquireShapes ==
  ASSUME Latch!Acquire
  PROVE  \E l \in layerTodo :
           Latch!AtTurn(l) /\ AcquireShape(l) /\ layerTodo' = layerTodo \ {l}
<1>1. PICK l \in layerTodo :
     /\ Latch!AtTurn(l)
     /\ \/ Latch!AcquireLater(l)
        \/ Latch!AcquireNothing(l)
        \/ \E k \in Latch!Offers(l) :
             \/ Latch!AcquireFrame(l, k)
             \/ Latch!AcquireRejected(l, k)
             \/ Latch!AcquireFails(l, k)
     /\ layerTodo' = layerTodo \ {l}
  BY DEF Latch!Acquire
<1>2. CASE Latch!AcquireLater(l)
  BY <1>1, <1>2 DEF Latch!AcquireLater, AcquireShape
<1>3. CASE Latch!AcquireNothing(l)
  BY <1>1, <1>3 DEF Latch!AcquireNothing, AcquireShape
<1>4. ASSUME NEW k \in Latch!Offers(l), Latch!AcquireFrame(l, k)
      PROVE  AcquireShape(l)
  BY <1>4 DEF Latch!AcquireFrame, AcquireShape
<1>5. ASSUME NEW k \in Latch!Offers(l), Latch!AcquireRejected(l, k)
      PROVE  AcquireShape(l)
  BY <1>5 DEF Latch!AcquireRejected, AcquireShape
<1>6. ASSUME NEW k \in Latch!Offers(l), Latch!AcquireFails(l, k)
      PROVE  AcquireShape(l)
  BY <1>6 DEF Latch!AcquireFails, AcquireShape
<1> QED
  BY <1>1, <1>2, <1>3, <1>4, <1>5, <1>6

LEMMA AcquireTypes ==
  ASSUME LatchTypes, ShadowInv, Latch!Acquire
  PROVE  LatchTypes'
<1>1. PICK l \in layerTodo :
        Latch!AtTurn(l) /\ AcquireShape(l) /\ layerTodo' = layerTodo \ {l}
  BY AcquireShapes
<1>2. l \in Layers /\ layerTodo' \subseteq Layers
  BY <1>1 DEF LatchTypes
<1>3. /\ bq' \in [Layers -> Seq(Frames)] /\ items' \in [Layers -> Seq(Nat)]
      /\ currentFrame' \in [Layers -> Nat] /\ failed' \in [Layers -> BOOLEAN]
      /\ points' \in [Layers -> Seq(SyncPoints)]
  <2> DEFINE Goal == /\ bq' \in [Layers -> Seq(Frames)]
                     /\ items' \in [Layers -> Seq(Nat)]
                     /\ currentFrame' \in [Layers -> Nat]
                     /\ failed' \in [Layers -> BOOLEAN]
                     /\ points' \in [Layers -> Seq(SyncPoints)]
  <2>1. /\ bq \in [Layers -> Seq(Frames)] /\ items \in [Layers -> Seq(Nat)]
        /\ currentFrame \in [Layers -> Nat] /\ failed \in [Layers -> BOOLEAN]
        /\ points \in [Layers -> Seq(SyncPoints)]
    BY DEF LatchTypes
  <2>2. CASE UNCHANGED <<bq, items, Latch!latchVars, points>>
    BY <2>1, <2>2 DEF Latch!latchVars
  <2>3. CASE Latch!Latch(l, currentFrame[l]) /\ UNCHANGED <<bq, items, failed>>
    <3>1. points' \in [Layers -> Seq(SyncPoints)]
      BY <1>2, <2>1, <2>3, LatchPoints
    <3> QED
      BY <1>2, <2>1, <2>3, <3>1 DEF Latch!Latch
  <2>4. ASSUME NEW k \in Latch!Offers(l), Latch!Acquired(l, k)
        PROVE  bq' \in [Layers -> Seq(Frames)] /\ bq[l][k].n \in Nat
    <3>1. k \in DOMAIN bq[l] /\ bq[l] \in Seq(Frames)
      BY <1>2, <2>1 DEF Latch!Offers
    <3>2. SubSeq(bq[l], k + 1, Len(bq[l])) \in Seq(Frames)
      BY <3>1
    <3>3. bq[l][k] \in Frames
      BY <3>1
    <3> QED
      BY <2>1, <2>4, <3>2, <3>3 DEF Latch!Acquired, Frames
  <2>5. ASSUME NEW k \in Latch!Offers(l), Latch!Acquired(l, k),
               Latch!DropItems(l, bq[l][k].n),
               Latch!Latch(l, bq[l][k].n), UNCHANGED failed
        PROVE  Goal
    <3>1. bq' \in [Layers -> Seq(Frames)] /\ bq[l][k].n \in Nat
      BY <2>4, <2>5
    <3>2. PICK i \in DOMAIN items[l] :
            items' =
              [items EXCEPT ![l] = SubSeq(items[l], i + 1, Len(items[l]))]
      BY <2>5 DEF Latch!DropItems
    <3>3. SubSeq(items[l], i + 1, Len(items[l])) \in Seq(Nat)
      BY <1>2, <2>1
    <3>4. items' \in [Layers -> Seq(Nat)]
      BY <2>1, <3>2, <3>3
    <3>5. points' \in [Layers -> Seq(SyncPoints)]
      BY <1>2, <2>1, <2>5, LatchPoints
    <3>6. currentFrame' \in [Layers -> Nat]
      BY <2>1, <2>5, <3>1 DEF Latch!Latch
    <3> QED
      BY <2>1, <2>5, <3>1, <3>4, <3>5, <3>6
  <2>6. ASSUME NEW k \in Latch!Offers(l), Latch!Acquired(l, k), ~failed[l],
               items' = [items EXCEPT ![l] = Tail(@)],
               UNCHANGED <<Latch!latchVars, points>>
        PROVE  Goal
    <3>1. k \in DOMAIN bq[l] /\ bq[l][k].n <= last[l]
      BY DEF Latch!Offers, Latch!Heard
    <3>2. InShadow(l, bq[l][k].n)
      BY <1>2, <2>6, <3>1 DEF ShadowInv, Shadow, AllListed
    <3>3. items[l] # <<>>
      BY <3>2 DEF InShadow
    <3>4. Tail(items[l]) \in Seq(Nat)
      BY <1>2, <2>1, <3>3
    <3> QED
      BY <2>1, <2>4, <2>6, <3>4 DEF Latch!latchVars
  <2>7. ASSUME NEW k \in Latch!Offers(l), Latch!Acquired(l, k),
               items' = [items EXCEPT ![l] = <<>>],
               failed' = [failed EXCEPT ![l] = TRUE],
               UNCHANGED <<currentFrame, points>>
        PROVE  Goal
    <3>1. <<>> \in Seq(Nat)
      OBVIOUS
    <3>2. items' \in [Layers -> Seq(Nat)] /\ failed' \in [Layers -> BOOLEAN]
      BY <2>1, <2>7, <3>1
    <3> QED
      BY <2>1, <2>4, <2>7, <3>2
  <2> QED
    BY <1>1, <2>2, <2>3, <2>5, <2>6, <2>7 DEF AcquireShape
<1> QED
  BY <1>2, <1>3 DEF Latch!Acquire, LatchTypes, Latch!stateVars, Latch!lifeVars

LEMMA FlipTypes ==
  ASSUME LatchTypes,
         Latch!CommitTransaction \/ Latch!HandlePageFlip \/ Latch!Refresh
  PROVE  LatchTypes'
<1>1. CASE Latch!CommitTransaction
  BY <1>1
    DEF Latch!CommitTransaction, LatchTypes, Latch!queueVars,
        Latch!shadowVars, Latch!latchVars, Latch!stateVars, Latch!pointVars
<1>2. CASE Latch!HandlePageFlip
  <2>1. layerTodo' \subseteq Layers
    BY <1>2 DEF Latch!HandlePageFlip, LatchTypes
  <2> QED
    BY <1>2, <2>1
      DEF Latch!HandlePageFlip, LatchTypes, Latch!queueVars, Latch!shadowVars,
          Latch!latchVars, Latch!stateVars, Latch!pointVars, Latch!lifeVars
<1>3. CASE Latch!Refresh
  BY <1>3
    DEF Latch!Refresh, LatchTypes, Latch!queueVars, Latch!shadowVars,
        Latch!stateVars, Latch!pointVars, Latch!lifeVars
<1> QED
  BY <1>1, <1>2, <1>3

(* Types are kept by every step.                                            *)
LEMMA NextTypes ==
  ASSUME LatchTypes, ShadowInv, Latch!Next  PROVE LatchTypes'
<1>1. CASE Latch!MainThread
  BY <1>1, InvalidateTypes, PushStateTypes, ApplyTypes, CommitTypes,
     DecideTypes, AcquireTypes, FlipTypes
    DEF Latch!MainThread
<1>2. ASSUME NEW l \in Layers,
             Latch!Callbacks(l) \/ Latch!RemoveLayer(l) \/ Latch!Destroy(l)
      PROVE  LatchTypes'
  BY <1>2, CallbackTypes, ClientTypes
<1>3. ASSUME NEW l \in Layers, NEW bar \in BOOLEAN,
             Latch!QueueBuffer(l, bar) \/ Latch!Transact(l, bar)
      PROVE  LatchTypes'
  BY <1>3, QueueTypes, TransactTypes
<1> QED
  BY <1>1, <1>2, <1>3 DEF Latch!Next

-----------------------------------------------------------------------------
(* How many frames and items there are, and that their numbers are numbers. *)
LEMMA FrameNumbers ==
  ASSUME LatchTypes, NEW l \in Layers
  PROVE  /\ Len(bq[l]) \in Nat /\ DOMAIN bq[l] = 1 .. Len(bq[l])
         /\ \A k \in DOMAIN bq[l] : bq[l][k].n \in Nat
         /\ Len(items[l]) \in Nat /\ DOMAIN items[l] = 1 .. Len(items[l])
         /\ \A i \in DOMAIN items[l] : items[l][i] \in Nat
<1>1. bq[l] \in Seq(Frames) /\ items[l] \in Seq(Nat)
  BY DEF LatchTypes
<1>2. \A k \in DOMAIN bq[l] : bq[l][k] \in Frames
  BY <1>1
<1> QED
  BY <1>1, <1>2 DEF Frames

LEMMA InitShadow ==
  ASSUME Latch!Init  PROVE ShadowInv
<1> SUFFICES ASSUME NEW l \in Layers PROVE Shadow(l)
  BY DEF ShadowInv
<1>1. /\ bq[l] = <<>> /\ items[l] = <<>> /\ calls[l] = {} /\ next[l] = 1
      /\ last[l] = 0 /\ currentFrame[l] = 0
  BY DEF Latch!Init
<1> QED
  BY <1>1 DEF Shadow, QueueRises, ItemsRise, CallsKnow, AllListed

(* A step that leaves queue, shadow and calls alone keeps what is said of   *)
(* them.                                                                    *)
LEMMA ShadowKept ==
  ASSUME NEW l \in Layers, Shadow(l),
         /\ bq'[l] = bq[l] /\ next'[l] = next[l] /\ calls'[l] = calls[l]
         /\ items'[l] = items[l] /\ last'[l] = last[l]
         /\ currentFrame'[l] = currentFrame[l] /\ failed'[l] = failed[l]
  PROVE  Shadow(l)'
BY DEF Shadow, QueueRises, ItemsRise, CallsKnow, AllListed, Queued, InShadow

(* A frame queued or put in the place of a droppable one is newer than all  *)
(* others.                                                                  *)
LEMMA QueueShadow ==
  ASSUME LatchTypes, ShadowInv, NEW l \in Layers, NEW d \in BOOLEAN,
         Latch!QueueBuffer(l, d)
  PROVE  ShadowInv'
<1> SUFFICES ASSUME NEW m \in Layers PROVE Shadow(m)'
  BY DEF ShadowInv
<1>1. Shadow(m)
  BY DEF ShadowInv
<1>2. CASE m # l
  BY <1>1, <1>2, ShadowKept
    DEF Latch!QueueBuffer, LatchTypes, Latch!shadowVars, Latch!latchVars
<1>3. CASE m = l
  <2> DEFINE q == bq[l]
             replaces == q # <<>> /\ q[Len(q)].droppable
             base == IF replaces THEN Latch!Front(q) ELSE q
             newest == [n |-> next[l], droppable |-> d]
  <2>1. /\ bq'[l] = base \o <<newest>>
        /\ next'[l] = next[l] + 1
        /\ calls'[l] = calls[l] \cup {[n |-> next[l],
             on |-> IF replaces THEN "replaced" ELSE "available"]}
        /\ items'[l] = items[l] /\ last'[l] = last[l]
        /\ currentFrame'[l] = currentFrame[l] /\ failed'[l] = failed[l]
    BY DEF Latch!QueueBuffer, LatchTypes, Latch!shadowVars, Latch!latchVars
  <2>2. /\ q \in Seq(Frames) /\ newest \in Frames /\ next[l] \in Nat
        /\ Len(q) \in Nat /\ DOMAIN q = 1 .. Len(q)
        /\ \A k \in 1 .. Len(q) : q[k].n \in Nat
    <3>1. q \in Seq(Frames) /\ next[l] \in Nat
      BY DEF LatchTypes
    <3>2. newest \in Frames
      BY <3>1 DEF Frames
    <3>3. Len(q) \in Nat /\ DOMAIN q = 1 .. Len(q) /\ \A k \in 1 .. Len(q) :
            q[k] \in Frames
      BY <3>1
    <3> QED
      BY <3>1, <3>2, <3>3 DEF Frames
  <2>3. /\ base \in Seq(Frames) /\ Len(base) \in Nat /\ Len(base) <= Len(q)
        /\ \A k \in 1 .. Len(base) : base[k] = q[k]
        /\ replaces => q # <<>> /\ Len(base) = Len(q) - 1
        /\ ~replaces => Len(base) = Len(q)
    <3>1. CASE replaces
      <4>1. Len(q) \in Nat \ {0}
        BY <2>2, <3>1
      <4>2. base = SubSeq(q, 1, Len(q) - 1)
        BY <3>1 DEF Latch!Front
      <4>3. Len(q) - 1 \in Nat /\ 1 .. Len(q) - 1 \subseteq 1 .. Len(q)
        BY <4>1
      <4> HIDE DEF base
      <4>4. base \in Seq(Frames) /\ Len(base) = Len(q) - 1
        BY <2>2, <4>1, <4>2, <4>3
      <4>5. \A k \in 1 .. Len(base) : base[k] = q[k]
        BY <2>2, <4>2, <4>3, <4>4
      <4> QED
        BY <3>1, <4>1, <4>4, <4>5
    <3>2. CASE ~replaces
      BY <2>2, <3>2
    <3> QED
      BY <3>1, <3>2
  <2>4. /\ DOMAIN bq'[l] = 1 .. Len(base) + 1
        /\ \A k \in 1 .. Len(base) : bq'[l][k] = q[k]
        /\ bq'[l][Len(base) + 1] = newest /\ Len(bq'[l]) = Len(base) + 1
        /\ bq'[l] # <<>>
    <3> HIDE DEF base, newest
    <3> QED
      BY <2>1, <2>2, <2>3
  <2> HIDE DEF base
  <2>11. /\ \A j, k \in 1 .. Len(q) : j < k => q[j].n < q[k].n
         /\ \A k \in 1 .. Len(q) : q[k].n < next[l]
         /\ q # <<>> => q[Len(q)].n = next[l] - 1
    BY <1>1, <1>3, <2>2 DEF Shadow, QueueRises
  <2>12. \A k \in DOMAIN bq'[l] : k = Len(base) + 1 \/ k \in 1 .. Len(base)
    BY <2>3, <2>4
  <2>13. 1 .. Len(base) \subseteq 1 .. Len(q)
    BY <2>2, <2>3
  <2>5. QueueRises(l)'
    <3>1. ASSUME NEW j \in DOMAIN bq'[l], NEW k \in DOMAIN bq'[l], j < k
          PROVE  bq'[l][j].n < bq'[l][k].n
      <4>1. j \in 1 .. Len(base) /\ j \in 1 .. Len(q)
        BY <2>3, <2>12, <2>13, <3>1
      <4>2. CASE k \in 1 .. Len(base)
        BY <2>4, <2>11, <2>13, <3>1, <4>1, <4>2
      <4>3. CASE k = Len(base) + 1
        BY <2>4, <2>11, <4>1, <4>3
      <4> QED
        BY <2>12, <4>2, <4>3
    <3>2. ASSUME NEW k \in DOMAIN bq'[l] PROVE bq'[l][k].n < next'[l]
      <4>1. CASE k = Len(base) + 1
        BY <2>1, <2>2, <2>4, <4>1
      <4>2. CASE k \in 1 .. Len(base)
        <5>1. q[k].n < next[l] /\ q[k].n \in Nat /\ bq'[l][k] = q[k]
          BY <2>2, <2>4, <2>11, <2>13, <4>2
        <5>2. q[k].n < next[l] + 1
          BY <2>2, <5>1
        <5> QED
          BY <2>1, <5>1, <5>2
      <4> QED
        BY <2>12, <4>1, <4>2
    <3>3. bq'[l][Len(bq'[l])].n = next'[l] - 1
      BY <2>1, <2>2, <2>4
    <3> QED
      BY <3>1, <3>2, <3>3 DEF QueueRises
  <2>6. ItemsRise(l)'
    BY <1>1, <1>3, <2>1, <2>2 DEF Shadow, ItemsRise, LatchTypes
  <2>7. \A n \in Int : n < next[l] /\ Queued(l, n)' => Queued(l, n)
    BY <2>2, <2>3, <2>4 DEF Queued
  <2>8. replaces => \A n \in Int : n = next[l] - 1 => ~Queued(l, n)'
    <3>1. ASSUME replaces, NEW k \in DOMAIN bq'[l], bq'[l][k].n = next[l] - 1
          PROVE  FALSE
      <4>1. k \in 1 .. Len(base)
        BY <2>2, <2>4, <2>12, <3>1
      <4>2. /\ k \in 1 .. Len(q) /\ Len(q) \in 1 .. Len(q) /\ k < Len(q)
            /\ q[Len(q)].n = next[l] - 1
        BY <2>2, <2>3, <2>11, <2>13, <3>1, <4>1
      <4>3. q[k].n < q[Len(q)].n
        BY <2>11, <4>2
      <4> QED
        BY <2>2, <2>4, <3>1, <4>1, <4>2, <4>3
    <3> QED
      BY <3>1 DEF Queued
  <2>9. CallsKnow(l)'
    <3> SUFFICES ASSUME NEW call \in calls'[l]
                 PROVE  /\ call.n < next'[l]
                        /\ call.on = "replaced" => ~Queued(l, call.n - 1)'
      BY DEF CallsKnow
    <3>1. CASE call \in calls[l]
      <4>1. call.n \in Nat /\ call.n < next[l]
            /\ (call.on = "replaced" => ~Queued(l, call.n - 1))
        BY <1>1, <1>3, <3>1 DEF Shadow, CallsKnow, LatchTypes, FrameCalls
      <4>2. call.n < next'[l]
        BY <2>1, <2>2, <4>1
      <4>3. Queued(l, call.n - 1)' => Queued(l, call.n - 1)
        <5>1. call.n - 1 \in Int /\ call.n - 1 < next[l]
          BY <2>2, <4>1
        <5> QED
          BY <2>7, <5>1
      <4> QED
        BY <4>1, <4>2, <4>3
    <3>2. CASE call = [n |-> next[l],
                       on |-> IF replaces THEN "replaced" ELSE "available"]
      <4>1. call.n = next[l] /\ (call.on = "replaced" => replaces)
        BY <3>2
      <4> QED
        <5>1. call.n \in Nat /\ call.n - 1 \in Int /\ call.n - 1 = next[l] - 1
          BY <2>2, <4>1
        <5>2. call.on = "replaced" => ~Queued(l, call.n - 1)'
          BY <2>8, <4>1, <5>1
        <5> QED
          BY <2>1, <2>2, <4>1, <5>2
    <3> QED
      BY <2>1, <3>1, <3>2
  <2>10. AllListed(l)'
    <3>1. ASSUME ~failed[l], NEW k \in DOMAIN bq'[l], bq'[l][k].n <= last[l]
          PROVE  \E i \in DOMAIN items'[l] : items'[l][i] = bq'[l][k].n
      <4>1. last[l] < next[l] /\ last[l] \in Nat
        BY <1>1, <1>3 DEF Shadow, ItemsRise, LatchTypes
      <4>2. k \in 1 .. Len(base)
        BY <2>2, <2>4, <2>12, <3>1, <4>1
      <4>3. k \in DOMAIN q /\ bq'[l][k] = q[k]
        BY <2>2, <2>4, <2>13, <4>2
      <4> QED
        BY <1>1, <1>3, <2>1, <3>1, <4>3 DEF Shadow, AllListed, InShadow
    <3> QED
      BY <2>1, <3>1 DEF AllListed, InShadow
  <2> QED
    BY <1>3, <2>5, <2>6, <2>9, <2>10 DEF Shadow
<1> QED
  BY <1>2, <1>3

(* A call that is served does not change what the queue holds.              *)
LEMMA CallServed ==
  ASSUME LatchTypes, ShadowInv, NEW l \in Layers, NEW call \in calls[l],
         Latch!FrameCallback(l, call)
  PROVE  /\ QueueRises(l)' /\ CallsKnow(l)'
         /\ bq' = bq
         /\ next' = next
         /\ currentFrame' = currentFrame
         /\ failed' = failed
         /\ call.n = last[l] + 1 /\ call.n < next[l] /\ call.n \in Nat
         /\ call.on = "replaced" => ~Queued(l, call.n - 1)
<1>1. Shadow(l) /\ call \in FrameCalls
  BY DEF ShadowInv, LatchTypes
<1>2. /\ bq' = bq
      /\ next' = next
      /\ currentFrame' = currentFrame
      /\ failed' = failed
      /\ calls'[l] = calls[l] \ {call} /\ call.n = last[l] + 1
  BY DEF Latch!FrameCallback, Latch!latchVars, Latch!InTurn, LatchTypes
<1>3. QueueRises(l)' /\ CallsKnow(l)'
  BY <1>1, <1>2 DEF Shadow, QueueRises, CallsKnow, Queued
<1> QED
  BY <1>1, <1>2, <1>3 DEF Shadow, CallsKnow, FrameCalls

(* onFrameAvailable in its turn lists the frame after all others.           *)
LEMMA AvailableShadow ==
  ASSUME LatchTypes, ShadowInv, NEW l \in Layers, Latch!OnFrameAvailable(l)
  PROVE  ShadowInv'
<1> SUFFICES ASSUME NEW m \in Layers PROVE Shadow(m)'
  BY DEF ShadowInv
<1>1. PICK call \in calls[l] :
        /\ Latch!FrameCallback(l, call)
        /\ items' = [items EXCEPT ![l] = Append(@, call.n)]
        /\ last' = [last EXCEPT ![l] = call.n]
  BY DEF Latch!OnFrameAvailable
<1>2. Shadow(m)
  BY DEF ShadowInv
<1>3. CASE m # l
  BY <1>1, <1>2, <1>3, ShadowKept
    DEF Latch!FrameCallback, LatchTypes, Latch!latchVars
<1>4. CASE m = l
  <2>1. /\ QueueRises(l)' /\ CallsKnow(l)'
        /\ bq' = bq
        /\ next' = next
        /\ currentFrame' = currentFrame
        /\ failed' = failed
        /\ call.n = last[l] + 1 /\ call.n < next[l] /\ call.n \in Nat
    BY <1>1, CallServed
  <2>2. /\ items'[l] = Append(items[l], call.n) /\ last'[l] = call.n
        /\ items[l] \in Seq(Nat) /\ last[l] \in Nat /\ currentFrame[l] \in Nat
    BY <1>1 DEF LatchTypes
  <2>3. /\ Len(items[l]) \in Nat /\ DOMAIN items[l] = 1 .. Len(items[l])
        /\ Len(items'[l]) = Len(items[l]) + 1
        /\ DOMAIN items'[l] = 1 .. Len(items[l]) + 1
        /\ \A i \in 1 .. Len(items[l]) :
             items'[l][i] = items[l][i] /\ items[l][i] \in Nat
        /\ items'[l][Len(items[l]) + 1] = call.n
    <3>1. Len(items'[l]) = Len(items[l]) + 1
      BY <2>1, <2>2
    <3>2. \A i \in DOMAIN items[l] : items[l][i] \in Nat
      BY <2>2
    <3> QED
      BY <2>1, <2>2, <3>1, <3>2, Appended
  <2>4. /\ \A i, j \in 1 .. Len(items[l]) : i < j => items[l][i] < items[l][j]
        /\ \A i \in 1 .. Len(items[l]) : items[l][i] <= last[l]
        /\ currentFrame[l] <= last[l]
    BY <1>2, <1>4, <2>3 DEF Shadow, ItemsRise
  <2>5. ItemsRise(l)'
    <3>1. ASSUME NEW i \in DOMAIN items'[l], NEW j \in DOMAIN items'[l], i < j
          PROVE  items'[l][i] < items'[l][j]
      <4>1. i \in 1 .. Len(items[l])
        BY <2>3, <3>1
      <4>2. CASE j \in 1 .. Len(items[l])
        BY <2>3, <2>4, <3>1, <4>1, <4>2
      <4>3. CASE j = Len(items[l]) + 1
        <5>1. items'[l][j] = last[l] + 1
          BY <2>1, <2>3, <4>3
        <5>2. /\ items'[l][i] = items[l][i] /\ items[l][i] \in Nat
              /\ items[l][i] <= last[l]
          BY <2>3, <2>4, <4>1
        <5> QED
          BY <2>2, <5>1, <5>2
      <4> QED
        BY <2>3, <4>2, <4>3
    <3>2. ASSUME NEW i \in DOMAIN items'[l] PROVE items'[l][i] <= last'[l]
      <4>1. CASE i \in 1 .. Len(items[l])
        BY <2>1, <2>2, <2>3, <2>4, <4>1
      <4>2. CASE i = Len(items[l]) + 1
        BY <2>1, <2>2, <2>3, <4>2
      <4> QED
        BY <2>3, <4>1, <4>2
    <3>3. items'[l][Len(items'[l])] = last'[l]
      BY <2>2, <2>3
    <3>4. currentFrame'[l] <= last'[l] /\ last'[l] < next'[l]
      BY <2>1, <2>2, <2>4
    <3> QED
      BY <3>1, <3>2, <3>3, <3>4 DEF ItemsRise
  <2>6. ASSUME ~failed[l], NEW k \in DOMAIN bq[l], bq[l][k].n <= call.n
        PROVE  \E i \in DOMAIN items'[l] : items'[l][i] = bq[l][k].n
    <3>1. bq[l][k].n \in Nat
      BY FrameNumbers
    <3>2. CASE bq[l][k].n = call.n
      BY <2>3, <3>2
    <3>3. CASE bq[l][k].n <= last[l]
      <4>1. PICK i \in DOMAIN items[l] : items[l][i] = bq[l][k].n
        BY <1>2, <1>4, <2>6, <3>3 DEF Shadow, AllListed, InShadow
      <4> QED
        BY <2>3, <4>1
    <3> QED
      BY <2>1, <2>2, <2>6, <3>1, <3>2, <3>3
  <2>7. AllListed(l)'
    BY <2>1, <2>2, <2>6 DEF AllListed, InShadow
  <2> QED
    BY <1>4, <2>1, <2>5, <2>7 DEF Shadow
<1> QED
  BY <1>3, <1>4

(* onFrameReplaced in its turn renumbers the newest, which the queue no     *)
(* longer has.                                                              *)
LEMMA ReplacedShadow ==
  ASSUME LatchTypes, ShadowInv, NEW l \in Layers, Latch!OnFrameReplaced(l)
  PROVE  ShadowInv'
<1> SUFFICES ASSUME NEW m \in Layers PROVE Shadow(m)'
  BY DEF ShadowInv
<1>1. PICK call \in calls[l] :
        /\ call.on = "replaced" /\ Latch!FrameCallback(l, call)
        /\ IF items[l] = <<>> THEN UNCHANGED <<items, last>>
           ELSE /\ items' = [items EXCEPT ![l][Len(items[l])] = call.n]
                /\ last' = [last EXCEPT ![l] = call.n]
  BY DEF Latch!OnFrameReplaced
<1>2. Shadow(m)
  BY DEF ShadowInv
<1>3. CASE m # l
  BY <1>1, <1>2, <1>3, ShadowKept
    DEF Latch!FrameCallback, LatchTypes, Latch!latchVars
<1>4. CASE m = l
  <2>1. /\ QueueRises(l)' /\ CallsKnow(l)'
        /\ bq' = bq
        /\ next' = next
        /\ currentFrame' = currentFrame
        /\ failed' = failed
        /\ call.n = last[l] + 1 /\ call.n < next[l] /\ call.n \in Nat
        /\ ~Queued(l, call.n - 1)
    BY <1>1, CallServed
  <2>2. CASE items[l] = <<>>
    <3>1. items' = items /\ last' = last
      BY <1>1, <2>2
    <3> QED
      BY <1>2, <1>4, <2>1, <3>1 DEF Shadow, ItemsRise, AllListed, InShadow
  <2>3. CASE items[l] # <<>>
    <3> DEFINE size == Len(items[l])
    <3>1. /\ items'[l] = [items[l] EXCEPT ![size] = call.n]
          /\ last'[l] = call.n
          /\ items[l] \in Seq(Nat)
          /\ last[l] \in Nat
          /\ currentFrame[l] \in Nat
      BY <1>1, <2>3 DEF LatchTypes
    <3>2. /\ size \in Nat \ {0} /\ DOMAIN items[l] = 1 .. size
          /\ DOMAIN items'[l] = 1 .. size /\ Len(items'[l]) = size
          /\ \A i \in 1 .. size : i < size => items'[l][i] = items[l][i]
          /\ \A i \in 1 .. size : items[l][i] \in Nat
          /\ items'[l][size] = call.n
      <4>1. size \in Nat \ {0} /\ DOMAIN items[l] = 1 .. size
        BY <2>3, <3>1
      <4>2. items'[l] = [i \in 1 .. size |-> IF i = size
                                             THEN call.n
                                             ELSE items[l][i]]
        BY <3>1, <4>1
      <4>3. \A i \in 1 .. size : items[l][i] \in Nat
        BY <3>1, <4>1
      <4>4. items'[l] \in [1 .. size -> Nat]
        BY <2>1, <4>2, <4>3
      <4>5. Len(items'[l]) = size
        <5> HIDE DEF size
        <5> QED
          BY <4>1, <4>4
      <4> QED
        BY <4>1, <4>2, <4>3, <4>5
    <3>3. /\ \A i, j \in 1 .. size : i < j => items[l][i] < items[l][j]
          /\ \A i \in 1 .. size : items[l][i] <= last[l]
          /\ items[l][size] = last[l] /\ currentFrame[l] <= last[l]
      BY <1>2, <1>4, <2>3, <3>2 DEF Shadow, ItemsRise
    <3> HIDE DEF size
    <3>4. ASSUME NEW i \in 1 .. size, NEW j \in 1 .. size, i < j
          PROVE  items'[l][i] < items'[l][j]
      <4>1. i < size /\ items'[l][i] = items[l][i] /\ items[l][i] <= last[l]
        BY <3>2, <3>3, <3>4
      <4>2. CASE j < size
        BY <3>2, <3>3, <3>4, <4>1, <4>2
      <4>3. CASE j = size
        BY <2>1, <3>1, <3>2, <4>1, <4>3
      <4> QED
        BY <3>2, <4>2, <4>3
    <3>5. ASSUME NEW i \in 1 .. size PROVE items'[l][i] <= last'[l]
      <4>1. CASE i < size
        <5>1. /\ items'[l][i] = items[l][i] /\ items[l][i] \in Nat
              /\ items[l][i] <= last[l]
          BY <3>2, <3>3, <4>1
        <5>2. last'[l] = last[l] + 1 /\ last[l] \in Nat
          BY <2>1, <3>1
        <5> QED
          BY <5>1, <5>2
      <4>2. CASE i = size
        BY <2>1, <3>1, <3>2, <4>2
      <4> QED
        BY <3>2, <4>1, <4>2
    <3>6. ItemsRise(l)'
      <4>1. currentFrame'[l] <= last'[l] /\ last'[l] < next'[l]
        BY <2>1, <3>1, <3>3
      <4>2. items'[l][Len(items'[l])] = last'[l]
        BY <3>1, <3>2
      <4> QED
        BY <3>2, <3>4, <3>5, <4>1, <4>2 DEF ItemsRise
    <3>7. ASSUME ~failed[l], NEW k \in DOMAIN bq[l], bq[l][k].n <= call.n
          PROVE  \E i \in DOMAIN items'[l] : items'[l][i] = bq[l][k].n
      <4>1. bq[l][k].n \in Nat /\ bq[l][k].n # last[l]
        <5>1. call.n - 1 = last[l]
          BY <2>1, <3>1
        <5> QED
          BY <2>1, <5>1, FrameNumbers DEF Queued
      <4>2. CASE bq[l][k].n = call.n
        BY <3>2, <4>2
      <4>3. CASE bq[l][k].n <= last[l]
        <5>1. PICK i \in 1 .. size : items[l][i] = bq[l][k].n
          BY <1>2, <1>4, <3>2, <3>7, <4>3 DEF Shadow, AllListed, InShadow
        <5>2. i < size
          BY <3>2, <3>3, <4>1, <5>1
        <5> QED
          BY <3>2, <5>1, <5>2
      <4> QED
        BY <2>1, <3>1, <3>7, <4>1, <4>2, <4>3
    <3>8. AllListed(l)'
      BY <2>1, <3>1, <3>7 DEF AllListed, InShadow
    <3> QED
      BY <1>4, <2>1, <3>6, <3>8 DEF Shadow
  <2> QED
    BY <2>2, <2>3
<1> QED
  BY <1>3, <1>4

(* The rest of a sequence is the sequence from there on.                    *)
LEMMA Rest ==
  ASSUME NEW S, NEW s \in Seq(S), NEW k \in DOMAIN s
  PROVE  LET rest == SubSeq(s, k + 1, Len(s))
         IN /\ Len(rest) = Len(s) - k /\ DOMAIN rest = 1 .. Len(s) - k
            /\ \A i \in 1 .. Len(s) - k :
                 k + i \in DOMAIN s /\ rest[i] = s[k + i]
<1> DEFINE rest == SubSeq(s, k + 1, Len(s))
<1>1. Len(s) \in Nat /\ k \in 1 .. Len(s) /\ DOMAIN s = 1 .. Len(s)
  OBVIOUS
<1>2. rest = [i \in 1 .. Len(s) - k |-> s[i + k]]
  BY <1>1
<1>3. rest \in Seq(S) /\ Len(rest) = Len(s) - k
  BY <1>1
<1> QED
  BY <1>1, <1>2, <1>3

(* Frames that are acquired or dropped leave the rest of a rising queue.    *)
LEMMA QueueShrinks ==
  ASSUME LatchTypes, NEW l \in Layers, QueueRises(l), NEW k \in DOMAIN bq[l],
         Latch!Acquired(l, k), next' = next
  PROVE  /\ QueueRises(l)'
         /\ \A j \in DOMAIN bq'[l] : \E i \in DOMAIN bq[l] :
              k < i /\ bq'[l][j] = bq[l][i] /\ bq[l][k].n < bq[l][i].n
         /\ \A i \in DOMAIN bq[l] : k < i =>
              \E j \in DOMAIN bq'[l] : bq'[l][j] = bq[l][i]
<1> DEFINE size == Len(bq[l])
<1>1. bq[l] \in Seq(Frames) /\ bq'[l] = SubSeq(bq[l], k + 1, size)
  BY DEF Latch!Acquired, LatchTypes
<1>2. /\ Len(bq'[l]) = size - k /\ DOMAIN bq'[l] = 1 .. size - k
      /\ \A i \in 1 .. size - k :
           k + i \in DOMAIN bq[l] /\ bq'[l][i] = bq[l][k + i]
  BY <1>1, Rest
<1>3. /\ size \in Nat /\ DOMAIN bq[l] = 1 .. size /\ k \in 1 .. size
      /\ \A i \in 1 .. size : bq[l][i].n \in Nat
  BY FrameNumbers
<1>4. /\ \A i, j \in 1 .. size : i < j => bq[l][i].n < bq[l][j].n
      /\ \A i \in 1 .. size : bq[l][i].n < next[l]
      /\ bq[l] # <<>> => bq[l][size].n = next[l] - 1
  BY <1>3 DEF QueueRises
<1> HIDE DEF size
<1>5. \A i \in 1 .. size - k : k + i \in 1 .. size /\ k < k + i
  BY <1>3
<1>6. QueueRises(l)'
  <2>1. ASSUME NEW i \in 1 .. size - k, NEW j \in 1 .. size - k, i < j
        PROVE  bq'[l][i].n < bq'[l][j].n
    <3>1. k + i < k + j
      BY <1>3, <2>1
    <3> QED
      BY <1>2, <1>4, <1>5, <3>1
  <2>2. \A i \in 1 .. size - k : bq'[l][i].n < next'[l]
    BY <1>2, <1>4, <1>5
  <2>3. ASSUME bq'[l] # <<>>  PROVE bq'[l][Len(bq'[l])].n = next'[l] - 1
    <3>1. size - k \in 1 .. size - k /\ bq[l] # <<>>
      <4>1. size - k # 0
        BY <1>1, <1>2, <2>3 DEF size
      <4> QED
        BY <1>3, <4>1 DEF size
    <3>2. k + (size - k) = size
      BY <1>3
    <3> QED
      BY <1>2, <1>4, <3>1, <3>2
  <2> QED
    BY <1>2, <2>1, <2>2, <2>3 DEF QueueRises
<1>7. ASSUME NEW j \in DOMAIN bq'[l]
      PROVE  \E i \in DOMAIN bq[l] :
               k < i /\ bq'[l][j] = bq[l][i] /\ bq[l][k].n < bq[l][i].n
  BY <1>2, <1>3, <1>4, <1>5
<1>8. ASSUME NEW i \in DOMAIN bq[l], k < i
      PROVE  \E j \in DOMAIN bq'[l] : bq'[l][j] = bq[l][i]
  <2>1. i - k \in 1 .. size - k /\ k + (i - k) = i
    BY <1>3, <1>8
  <2> QED
    BY <1>2, <2>1
<1> QED
  BY <1>6, <1>7, <1>8

(* What is left of the shadow rises as well, and has all that was behind.   *)
LEMMA ItemsShrink ==
  ASSUME LatchTypes, NEW l \in Layers, ItemsRise(l), NEW i \in DOMAIN items[l],
         items' = [items EXCEPT ![l] = SubSeq(@, i + 1, Len(@))],
         last' = last, next' = next, currentFrame'[l] <= last[l]
  PROVE  /\ ItemsRise(l)'
         /\ \A j \in DOMAIN items'[l] : \E m \in DOMAIN items[l] :
              i < m /\ items'[l][j] = items[l][m]
         /\ \A m \in DOMAIN items[l] : items[l][i] < items[l][m] =>
              \E j \in DOMAIN items'[l] : items'[l][j] = items[l][m]
<1> DEFINE size == Len(items[l])
<1>1. items[l] \in Seq(Nat) /\ items'[l] = SubSeq(items[l], i + 1, size)
  BY DEF LatchTypes
<1>2. /\ Len(items'[l]) = size - i /\ DOMAIN items'[l] = 1 .. size - i
      /\ \A j \in 1 .. size - i :
           i + j \in DOMAIN items[l] /\ items'[l][j] = items[l][i + j]
  <2>1. Len(items'[l]) = size - i /\ DOMAIN items'[l] = 1 .. size - i
    BY <1>1, Rest
  <2>2. \A j \in 1 .. size - i :
          i + j \in DOMAIN items[l] /\ items'[l][j] = items[l][i + j]
    BY <1>1, Rest, SMTT(30)
  <2> QED
    BY <2>1, <2>2
<1>3. /\ size \in Nat /\ DOMAIN items[l] = 1 .. size /\ i \in 1 .. size
      /\ \A j \in 1 .. size : items[l][j] \in Nat
  BY FrameNumbers
<1>4. /\ \A j, m \in 1 .. size : j < m => items[l][j] < items[l][m]
      /\ \A j \in 1 .. size : items[l][j] <= last[l]
      /\ items[l] # <<>> => items[l][size] = last[l]
      /\ last[l] < next[l]
  BY <1>3 DEF ItemsRise
<1> HIDE DEF size
<1>5. \A j \in 1 .. size - i : i + j \in 1 .. size /\ i < i + j
  BY <1>3
<1>6. ItemsRise(l)'
  <2>1. ASSUME NEW j \in 1 .. size - i, NEW m \in 1 .. size - i, j < m
        PROVE  items'[l][j] < items'[l][m]
    <3>1. i + j < i + m
      BY <1>3, <2>1
    <3> QED
      BY <1>2, <1>4, <1>5, <3>1
  <2>2. \A j \in 1 .. size - i : items'[l][j] <= last'[l]
    BY <1>2, <1>4, <1>5
  <2>3. ASSUME items'[l] # <<>>  PROVE items'[l][Len(items'[l])] = last'[l]
    <3>1. size - i \in 1 .. size - i /\ items[l] # <<>>
      <4>1. size - i # 0
        BY <1>1, <1>2, <2>3 DEF size
      <4> QED
        BY <1>3, <4>1 DEF size
    <3>2. i + (size - i) = size
      BY <1>3
    <3> QED
      BY <1>2, <1>4, <3>1, <3>2
  <2> QED
    BY <1>2, <1>4, <2>1, <2>2, <2>3 DEF ItemsRise
<1>7. ASSUME NEW j \in DOMAIN items'[l]
      PROVE  \E m \in DOMAIN items[l] : i < m /\ items'[l][j] = items[l][m]
  BY <1>2, <1>3, <1>5
<1>8. ASSUME NEW m \in DOMAIN items[l], items[l][i] < items[l][m]
      PROVE  \E j \in DOMAIN items'[l] : items'[l][j] = items[l][m]
  <2>1. i < m
    <3>1. CASE m = i
      BY <1>3, <1>8, <3>1
    <3>2. CASE m < i
      BY <1>3, <1>4, <1>8, <3>2
    <3> QED
      BY <1>3, <3>1, <3>2
  <2>2. m - i \in 1 .. size - i /\ i + (m - i) = m
    BY <1>3, <1>8, <2>1
  <2> QED
    BY <1>2, <2>2
<1> QED
  BY <1>6, <1>7, <1>8

(* Frames acquired and items dropped leave the later ones of both.          *)
LEMMA AcquiredShadow ==
  ASSUME LatchTypes, ShadowInv, NEW l \in Layers, NEW k \in Latch!Offers(l),
         Latch!Acquired(l, k), last' = last, next' = next, calls' = calls,
         \/ /\ ~failed[l]
            /\ Latch!DropItems(l, bq[l][k].n)
            /\ Latch!Latch(l, bq[l][k].n)
            /\ UNCHANGED failed
         \/ /\ ~failed[l] /\ items' = [items EXCEPT ![l] = Tail(@)]
            /\ UNCHANGED <<Latch!latchVars, points>>
         \/ /\ items' = [items EXCEPT ![l] = <<>>]
            /\ failed' = [failed EXCEPT ![l] = TRUE]
            /\ UNCHANGED <<currentFrame, points>>
  PROVE  Shadow(l)'
<1> DEFINE n == bq[l][k].n
<1>1. Shadow(l) /\ k \in DOMAIN bq[l] /\ n <= last[l] /\ n \in Nat
  BY FrameNumbers DEF ShadowInv, Latch!Offers, Latch!Heard
<1>2. QueueRises(l) /\ ItemsRise(l) /\ CallsKnow(l) /\ AllListed(l)
  BY <1>1 DEF Shadow
<1>3. /\ QueueRises(l)'
      /\ \A j \in DOMAIN bq'[l] : \E i \in DOMAIN bq[l] :
           k < i /\ bq'[l][j] = bq[l][i] /\ n < bq[l][i].n
  BY <1>1, <1>2, QueueShrinks
<1>4. CallsKnow(l)'
  BY <1>2, <1>3 DEF CallsKnow, Queued
<1>5. items[l] \in Seq(Nat) /\ items \in [Layers -> Seq(Nat)]
      /\ currentFrame \in [Layers -> Nat] /\ failed \in [Layers -> BOOLEAN]
      /\ last[l] \in Nat /\ next[l] \in Nat
  BY DEF LatchTypes
<1>6. ~failed[l] => \E i \in DOMAIN items[l] : items[l][i] = n
  BY <1>1, <1>2 DEF AllListed, InShadow
<1> HIDE DEF n
<1>7. ASSUME NEW i \in DOMAIN items[l], ~failed[l], items[l][i] <= n,
             items' = [items EXCEPT ![l] = SubSeq(@, i + 1, Len(@))],
             currentFrame'[l] <= last[l], failed' = failed
      PROVE  Shadow(l)'
  <2>1. /\ ItemsRise(l)'
        /\ \A m \in DOMAIN items[l] : items[l][i] < items[l][m] =>
              \E j \in DOMAIN items'[l] : items'[l][j] = items[l][m]
    BY <1>2, <1>7, ItemsShrink
  <2>2. ASSUME NEW j \in DOMAIN bq'[l], bq'[l][j].n <= last[l]
        PROVE  \E h \in DOMAIN items'[l] : items'[l][h] = bq'[l][j].n
    <3>1. PICK h \in DOMAIN bq[l] : bq'[l][j] = bq[l][h] /\ n < bq[l][h].n
      BY <1>3
    <3>2. PICK m \in DOMAIN items[l] : items[l][m] = bq[l][h].n
      BY <1>2, <1>7, <2>2, <3>1 DEF AllListed, InShadow
    <3>3. items[l][i] < items[l][m]
      <4>1. items[l][i] \in Nat /\ items[l][m] \in Nat
        BY FrameNumbers
      <4> QED
        BY <1>1, <1>7, <3>1, <3>2, <4>1
    <3> QED
      BY <2>1, <3>1, <3>2, <3>3
  <2>3. AllListed(l)'
    BY <1>7, <2>2 DEF AllListed, InShadow
  <2> QED
    BY <1>3, <1>4, <2>1, <2>3 DEF Shadow
<1>8. CASE /\ ~failed[l]
           /\ Latch!DropItems(l, n)
           /\ Latch!Latch(l, n)
           /\ UNCHANGED failed
  <2>1. PICK i \in DOMAIN items[l] :
          /\ items[l][i] = n
          /\ items' = [items EXCEPT ![l] = SubSeq(@, i + 1, Len(@))]
    BY <1>8 DEF Latch!DropItems
  <2>2. currentFrame'[l] <= last[l]
    BY <1>1, <1>5, <1>8 DEF Latch!Latch, n
  <2>3. items[l][i] <= n /\ failed' = failed
    BY <1>1, <1>8, <2>1 DEF n
  <2> QED
    BY <1>7, <1>8, <2>1, <2>2, <2>3
<1>9. CASE ~failed[l] /\ items' = [items EXCEPT ![l] = Tail(@)]
           /\ UNCHANGED <<Latch!latchVars, points>>
  <2>1. PICK i \in DOMAIN items[l] : items[l][i] = n
    BY <1>6, <1>9
  <2>2. 1 \in DOMAIN items[l] /\ items[l][1] <= n
    <3>1. i \in 1 .. Len(items[l]) /\ 1 \in DOMAIN items[l]
      BY <1>5
    <3>2. CASE i = 1
      BY <1>1, <2>1, <3>1, <3>2
    <3>3. CASE 1 < i
      <4>1. items[l][1] < items[l][i]
        BY <1>2, <3>1, <3>3 DEF ItemsRise
      <4> QED
        BY <1>1, <2>1, <3>1, <4>1, FrameNumbers
    <3> QED
      BY <3>1, <3>2, <3>3
  <2>3. Tail(items[l]) = SubSeq(items[l], 1 + 1, Len(items[l]))
    BY <1>5, <2>2
  <2>4. items' = [items EXCEPT ![l] = SubSeq(@, 1 + 1, Len(@))]
    BY <1>9, <2>3
  <2>5. currentFrame'[l] <= last[l] /\ failed' = failed
    BY <1>2, <1>9 DEF ItemsRise, Latch!latchVars
  <2> QED
    BY <1>7, <1>9, <2>2, <2>4, <2>5
<1>10. CASE /\ items' = [items EXCEPT ![l] = <<>>]
            /\ failed' = [failed EXCEPT ![l] = TRUE]
            /\ UNCHANGED <<currentFrame, points>>
  <2>1. items'[l] = <<>> /\ failed'[l] /\ currentFrame'[l] = currentFrame[l]
    BY <1>5, <1>10
  <2>2. ItemsRise(l)'
    BY <1>2, <2>1 DEF ItemsRise
  <2> QED
    BY <1>3, <1>4, <2>1, <2>2 DEF Shadow, AllListed
<1> QED
  BY <1>8, <1>9, <1>10 DEF n

LEMMA AcquireShadow ==
  ASSUME LatchTypes, ShadowInv, Latch!Acquire
  PROVE  ShadowInv'
<1> SUFFICES ASSUME NEW m \in Layers PROVE Shadow(m)'
  BY DEF ShadowInv
<1>1. PICK l \in layerTodo :
        Latch!AtTurn(l) /\ AcquireShape(l) /\ layerTodo' = layerTodo \ {l}
  BY AcquireShapes
<1>2. l \in Layers /\ Shadow(m)
  BY DEF LatchTypes, ShadowInv
<1>3. last' = last /\ next' = next /\ calls' = calls
  BY DEF Latch!Acquire
<1>4. /\ bq \in [Layers -> Seq(Frames)] /\ items \in [Layers -> Seq(Nat)]
      /\ currentFrame \in [Layers -> Nat] /\ failed \in [Layers -> BOOLEAN]
  BY DEF LatchTypes
<1>5. CASE UNCHANGED <<bq, items, Latch!latchVars, points>>
  BY <1>2, <1>3, <1>5, ShadowKept DEF Latch!latchVars
<1>6. CASE Latch!Latch(l, currentFrame[l]) /\ UNCHANGED <<bq, items, failed>>
  <2>1. currentFrame' = currentFrame
    BY <1>2, <1>4, <1>6 DEF Latch!Latch
  <2> QED
    BY <1>2, <1>3, <1>6, <2>1, ShadowKept
<1>7. ASSUME NEW k \in Latch!Offers(l), Latch!Acquired(l, k),
         \/ /\ ~failed[l]
            /\ Latch!DropItems(l, bq[l][k].n)
            /\ Latch!Latch(l, bq[l][k].n)
            /\ UNCHANGED failed
         \/ /\ ~failed[l] /\ items' = [items EXCEPT ![l] = Tail(@)]
            /\ UNCHANGED <<Latch!latchVars, points>>
         \/ /\ items' = [items EXCEPT ![l] = <<>>]
            /\ failed' = [failed EXCEPT ![l] = TRUE]
            /\ UNCHANGED <<currentFrame, points>>
      PROVE  Shadow(m)'
  <2>1. CASE m = l
    BY <1>2, <1>3, <1>7, <2>1, AcquiredShadow
  <2>2. CASE m # l
    <3>1. bq'[m] = bq[m] /\ items'[m] = items[m] /\ failed'[m] = failed[m]
          /\ currentFrame'[m] = currentFrame[m]
      BY <1>2, <1>4, <1>7, <2>2
        DEF Latch!Acquired, Latch!DropItems, Latch!Latch, Latch!latchVars
    <3> QED
      BY <1>2, <1>3, <3>1, ShadowKept
  <2> QED
    BY <2>1, <2>2
<1> QED
  BY <1>1, <1>5, <1>6, <1>7 DEF AcquireShape

(* What is said of queue and shadow is kept by every step.                  *)
LEMMA NextShadow ==
  ASSUME LatchTypes, ShadowInv, Latch!Next  PROVE ShadowInv'
<1>1. ASSUME UNCHANGED <<bq, next, calls, items, last, currentFrame, failed>>
      PROVE  ShadowInv'
  BY <1>1, ShadowKept DEF ShadowInv
<1>2. CASE Latch!MainThread
  <2>1. CASE Latch!Acquire
    BY <2>1, AcquireShadow
  <2>2. CASE Latch!Invalidate
    BY <1>1, <2>2
      DEF Latch!Invalidate, Latch!queueVars, Latch!shadowVars, Latch!latchVars
  <2>3. CASE \/ Latch!PushPendingState
             \/ Latch!ApplyPendingState
             \/ Latch!CommitLayer
    BY <1>1, <2>3
      DEF Latch!PushPendingState, Latch!ApplyPendingState, Latch!CommitLayer,
          Latch!queueVars, Latch!shadowVars, Latch!latchVars
  <2>4. CASE \/ Latch!CommitTransaction
             \/ Latch!HandlePageFlip
             \/ Latch!Decide
             \/ Latch!Refresh
    BY <1>1, <2>4
      DEF Latch!CommitTransaction, Latch!HandlePageFlip, Latch!Decide,
          Latch!Refresh, Latch!queueVars, Latch!shadowVars, Latch!latchVars
  <2> QED
    BY <1>2, <2>1, <2>2, <2>3, <2>4 DEF Latch!MainThread
<1>3. ASSUME NEW l \in Layers, Latch!Callbacks(l)
      PROVE  ShadowInv'
  BY <1>3, AvailableShadow, ReplacedShadow DEF Latch!Callbacks
<1>4. ASSUME NEW l \in Layers, Latch!RemoveLayer(l) \/ Latch!Destroy(l)
      PROVE  ShadowInv'
  BY <1>1, <1>4
    DEF Latch!RemoveLayer, Latch!Destroy, Latch!queueVars, Latch!shadowVars,
        Latch!latchVars
<1>5. ASSUME NEW l \in Layers, NEW bar \in BOOLEAN, Latch!QueueBuffer(l, bar)
      PROVE  ShadowInv'
  BY <1>5, QueueShadow
<1>6. ASSUME NEW l \in Layers, NEW bar \in BOOLEAN, Latch!Transact(l, bar)
      PROVE  ShadowInv'
  BY <1>1, <1>6
    DEF Latch!Transact, Latch!queueVars, Latch!shadowVars, Latch!latchVars
<1> QED
  BY <1>2, <1>3, <1>4, <1>5, <1>6 DEF Latch!Next

-----------------------------------------------------------------------------
(* The plot is the behavior's.                                              *)
LEMMA SamePlot ==
  ASSUME Latch!Next  PROVE plot' = plot
<1>1. Latch!MainThread => plot' = plot
  BY DEF Latch!MainThread, Latch!Invalidate, Latch!PushPendingState,
       Latch!ApplyPendingState, Latch!CommitLayer, Latch!CommitTransaction,
       Latch!HandlePageFlip, Latch!Decide, Latch!Acquire, Latch!Refresh
<1>2. ASSUME NEW l,
             Latch!Callbacks(l) \/ Latch!RemoveLayer(l) \/ Latch!Destroy(l)
      PROVE  plot' = plot
  BY <1>2
    DEF Latch!Callbacks, Latch!OnFrameAvailable, Latch!OnFrameReplaced,
        Latch!FrameCallback, Latch!RemoveLayer, Latch!Destroy
<1>3. ASSUME NEW l, NEW d, Latch!QueueBuffer(l, d) \/ Latch!Transact(l, d)
      PROVE  plot' = plot
  BY <1>3 DEF Latch!QueueBuffer, Latch!Transact
<1> QED
  BY <1>1, <1>2, <1>3 DEF Latch!Next

(* A step aside of queue and shadow loses nothing.                          *)
LEMMA PlainKept ==
  ASSUME NEW l \in Layers, Plain(l),
         /\ bq'[l] = bq[l] /\ next'[l] = next[l] /\ calls'[l] = calls[l]
         /\ items'[l] = items[l] /\ last'[l] = last[l]
  PROVE  Plain(l)'
BY DEF Plain, NoneReplaced, NoneLost, NoneExtra, Queued

LEMMA QueuePlain ==
  ASSUME LatchTypes, NEW l \in Layers, NEW d \in BOOLEAN,
         Latch!QueueBuffer(l, d),
         ~Latch!Odd("async"), Plain(l)
  PROVE  Plain(l)'
<1> DEFINE newest == [n |-> next[l], droppable |-> d]
<1>1. /\ bq[l] \in Seq(Frames) /\ next[l] \in Nat /\ last[l] \in Nat
      /\ items[l] \in Seq(Nat)
      /\ bq \in [Layers -> Seq(Frames)]
      /\ calls \in [Layers -> SUBSET FrameCalls]
      /\ next \in [Layers -> Nat]
  BY DEF LatchTypes
<1>2. ~d
  BY DEF Latch!QueueBuffer
<1>3. bq[l] # <<>> => ~bq[l][Len(bq[l])].droppable
  BY <1>1 DEF Plain, NoneReplaced
<1>4. /\ bq' = [bq EXCEPT ![l] = bq[l] \o <<newest>>]
      /\ calls' =
           [calls EXCEPT ![l] = @ \cup {[n |-> next[l], on |-> "available"]}]
  BY <1>3 DEF Latch!QueueBuffer
<1>5. /\ bq'[l] = Append(bq[l], newest)
      /\ newest.n = next[l]
      /\ newest.droppable = d
  BY <1>1, <1>4
<1> HIDE DEF newest
<1>6. /\ DOMAIN bq'[l] = 1 .. Len(bq[l]) + 1 /\ Len(bq[l]) \in Nat
      /\ DOMAIN bq[l] = 1 .. Len(bq[l])
      /\ \A k \in 1 .. Len(bq[l]) : bq'[l][k] = bq[l][k]
      /\ bq'[l][Len(bq[l]) + 1] = newest
  BY <1>1, <1>5
<1>7. /\ next'[l] = next[l] + 1 /\ items'[l] = items[l] /\ last'[l] = last[l]
      /\ calls'[l] = calls[l] \cup {[n |-> next[l], on |-> "available"]}
  BY <1>1, <1>4 DEF Latch!QueueBuffer, Latch!shadowVars
<1>8. NoneReplaced(l)'
  <2>1. ASSUME NEW k \in DOMAIN bq'[l] PROVE ~bq'[l][k].droppable
    <3>1. CASE k \in 1 .. Len(bq[l])
      BY <1>6, <3>1 DEF Plain, NoneReplaced
    <3>2. CASE k = Len(bq[l]) + 1
      BY <1>2, <1>5, <1>6, <3>2
    <3> QED
      BY <1>6, <3>1, <3>2
  <2>2. \A call \in calls'[l] : call.on = "available"
    BY <1>7 DEF Plain, NoneReplaced
  <2> QED
    BY <2>1, <2>2 DEF NoneReplaced
<1>9. \A n \in Int : Queued(l, n) => Queued(l, n)'
  BY <1>6 DEF Queued
<1>10. NoneLost(l)'
  <2>1. ASSUME NEW n \in Int, last[l] < n, n < next[l] + 1
        PROVE  Queued(l, n)'
    <3>1. CASE n = next[l]
      <4>1. \E k \in DOMAIN bq'[l] : bq'[l][k].n = n
        BY <1>5, <1>6, <3>1
      <4> QED
        BY <4>1 DEF Queued
    <3>2. CASE n < next[l]
      <4>1. n \in last[l] + 1 .. next[l] - 1
        BY <1>1, <2>1, <3>2
      <4> QED
        BY <1>9, <4>1 DEF Plain, NoneLost
    <3> QED
      BY <1>1, <2>1, <3>1, <3>2
  <2>2. \A n \in last'[l] + 1 .. next'[l] - 1 :
          n \in Int /\ last[l] < n /\ n < next[l] + 1
    BY <1>1, <1>7
  <2>3. \A n \in last'[l] + 1 .. next'[l] - 1 :
          \E k \in DOMAIN bq'[l] : bq'[l][k].n = n
    BY <2>1, <2>2 DEF Queued
  <2> QED
    BY <2>3 DEF NoneLost, Queued
<1>11. NoneExtra(l)'
  <2>1. ASSUME NEW i \in DOMAIN items[l]
        PROVE  \E k \in DOMAIN bq'[l] : bq'[l][k].n = items[l][i]
    <3>1. PICK k \in DOMAIN bq[l] : bq[l][k].n = items[l][i]
      BY DEF Plain, NoneExtra, Queued
    <3> QED
      BY <1>6, <3>1
  <2> QED
    BY <1>7, <2>1 DEF NoneExtra, Queued
<1> QED
  BY <1>8, <1>10, <1>11 DEF Plain

LEMMA CallbackPlain ==
  ASSUME LatchTypes, ShadowInv, NEW l \in Layers, Latch!Callbacks(l), Plain(l)
  PROVE  Plain(l)'
<1>1. PICK call \in calls[l] :
        /\ Latch!FrameCallback(l, call)
        /\ call.on = "available" =>
             /\ items' = [items EXCEPT ![l] = Append(@, call.n)]
             /\ last' = [last EXCEPT ![l] = call.n]
  BY DEF Latch!Callbacks, Latch!OnFrameAvailable, Latch!OnFrameReplaced
<1>2. call.on = "available"
  BY DEF Plain, NoneReplaced
<1>3. /\ bq' = bq /\ next' = next /\ calls'[l] \subseteq calls[l]
      /\ items'[l] = Append(items[l], call.n) /\ last'[l] = call.n
      /\ call.n = last[l] + 1 /\ call.n < next[l] /\ call.n \in Nat
  BY <1>1, <1>2, CallServed DEF LatchTypes, Latch!FrameCallback
<1>4. items[l] \in Seq(Nat) /\ last[l] \in Nat /\ next[l] \in Nat
  BY DEF LatchTypes
<1>5. NoneReplaced(l)'
  BY <1>3 DEF Plain, NoneReplaced
<1>6. \A n \in Int : Queued(l, n)' <=> Queued(l, n)
  BY <1>3 DEF Queued
<1>7. NoneLost(l)'
  <2>1. \A n \in last'[l] + 1 .. next'[l] - 1 :
          n \in last[l] + 1 .. next[l] - 1
    BY <1>3, <1>4
  <2> QED
    BY <1>3, <2>1 DEF Plain, NoneLost, Queued
<1>8. Queued(l, call.n)
  <2>1. call.n \in last[l] + 1 .. next[l] - 1
    BY <1>3, <1>4
  <2> QED
    BY <2>1 DEF Plain, NoneLost
<1>9. ASSUME NEW i \in DOMAIN items'[l]
      PROVE  \E k \in DOMAIN bq[l] : bq[l][k].n = items'[l][i]
  <2>1. \/ i \in DOMAIN items[l] /\ items'[l][i] = items[l][i]
        \/ items'[l][i] = call.n
    BY <1>3, <1>4
  <2> QED
    BY <1>8, <2>1 DEF Plain, NoneExtra, Queued
<1>10. NoneExtra(l)'
  BY <1>3, <1>9 DEF NoneExtra, Queued
<1> QED
  BY <1>5, <1>7, <1>10 DEF Plain

(* The queue's head is acquired, and no frame after it is lost.             *)
LEMMA AcquiredPlain ==
  ASSUME LatchTypes, ShadowInv, NEW l \in Layers, NEW k \in Latch!Offers(l),
         ~Latch!Odd("timed"), Plain(l),
         Latch!Acquired(l, k), last' = last, next' = next, calls' = calls,
         \/ /\ ~failed[l]
            /\ Latch!DropItems(l, bq[l][k].n)
            /\ Latch!Latch(l, bq[l][k].n)
            /\ UNCHANGED failed
         \/ /\ ~failed[l] /\ items' = [items EXCEPT ![l] = Tail(@)]
            /\ UNCHANGED <<Latch!latchVars, points>>
         \/ /\ items' = [items EXCEPT ![l] = <<>>]
            /\ failed' = [failed EXCEPT ![l] = TRUE]
            /\ UNCHANGED <<currentFrame, points>>
  PROVE  Plain(l)'
<1> DEFINE n == bq[l][k].n
<1>1. /\ Shadow(l) /\ k \in DOMAIN bq[l] /\ n <= last[l] /\ n \in Nat /\ k = 1
      /\ last[l] \in Nat /\ next[l] \in Nat /\ items[l] \in Seq(Nat)
      /\ items \in [Layers -> Seq(Nat)]
  <2>1. k \in DOMAIN bq[l] /\ n <= last[l] /\ ~(k > 1) /\ Shadow(l)
    BY DEF ShadowInv, Latch!Offers, Latch!Heard
  <2>2. k \in 1 .. Len(bq[l]) /\ Len(bq[l]) \in Nat /\ n \in Nat
    BY <2>1, FrameNumbers
  <2>3. k = 1
    BY <2>1, <2>2
  <2> QED
    BY <2>1, <2>2, <2>3 DEF LatchTypes
<1>2. /\ QueueRises(l) /\ ItemsRise(l) /\ AllListed(l)
      /\ NoneReplaced(l) /\ NoneLost(l) /\ NoneExtra(l)
  BY <1>1 DEF Shadow, Plain
<1>3. /\ \A j \in DOMAIN bq'[l] : \E i \in DOMAIN bq[l] : bq'[l][j] = bq[l][i]
      /\ \A i \in DOMAIN bq[l] : k < i =>
           \E j \in DOMAIN bq'[l] : bq'[l][j] = bq[l][i]
  BY <1>1, <1>2, QueueShrinks
<1> HIDE DEF n
<1>4. \A m \in Int : Queued(l, m) /\ m # n =>
        \E j \in DOMAIN bq'[l] : bq'[l][j].n = m
  <2> SUFFICES ASSUME NEW m \in Int, NEW i \in DOMAIN bq[l], bq[l][i].n = m,
                      m # n
               PROVE  \E j \in DOMAIN bq'[l] : bq'[l][j].n = m
    BY DEF Queued
  <2>1. k < i
    BY <1>1, FrameNumbers DEF n
  <2> QED
    BY <1>3, <2>1
<1>5. NoneReplaced(l)'
  BY <1>2, <1>3 DEF NoneReplaced
<1>6. NoneLost(l)'
  <2>1. ASSUME NEW m \in last[l] + 1 .. next[l] - 1
        PROVE  \E j \in DOMAIN bq'[l] : bq'[l][j].n = m
    <3>1. Queued(l, m) /\ m # n /\ m \in Int
      BY <1>1, <1>2 DEF NoneLost
    <3> QED
      BY <1>4, <3>1
  <2> QED
    BY <2>1 DEF NoneLost, Queued
<1>7. ASSUME NEW j \in DOMAIN items'[l]
      PROVE  \E h \in DOMAIN items[l] :
               items'[l][j] = items[l][h] /\ items[l][h] # n
  <2>1. ASSUME NEW i \in DOMAIN items[l], items[l][i] = n,
               items'[l] = SubSeq(items[l], i + 1, Len(items[l]))
        PROVE  \E h \in DOMAIN items[l] :
                 items'[l][j] = items[l][h] /\ items[l][h] # n
    <3>1. j \in 1 .. Len(items[l]) - i /\ i + j \in DOMAIN items[l]
          /\ items'[l][j] = items[l][i + j]
      <4>1. LET rest == SubSeq(items[l], i + 1, Len(items[l]))
            IN /\ Len(rest) = Len(items[l]) - i
               /\ DOMAIN rest = 1 .. Len(items[l]) - i
               /\ \A m \in 1 .. Len(items[l]) - i :
                    i + m \in DOMAIN items[l] /\ rest[m] = items[l][i + m]
        <5>1. items[l] \in Seq(Nat)
          BY <1>1
        <5> QED
          BY <5>1, Rest, ZenonT(60)
      <4>2. DOMAIN items'[l] = 1 .. Len(items[l]) - i
        BY <2>1, <4>1
      <4> QED
        BY <2>1, <4>1, <4>2
    <3>2. i < i + j /\ i \in DOMAIN items[l]
      BY <3>1, <2>1, FrameNumbers
    <3>3. items[l][i] < items[l][i + j]
      BY <1>2, <3>1, <3>2 DEF ItemsRise
    <3>4. items[l][i + j] # n
      BY <1>1, <2>1, <3>1, <3>3, FrameNumbers
    <3> QED
      BY <3>1, <3>4
  <2>2. CASE Latch!DropItems(l, n)
    BY <1>1, <2>1, <2>2 DEF Latch!DropItems
  <2>3. CASE ~failed[l] /\ items' = [items EXCEPT ![l] = Tail(@)]
    <3>1. PICK i \in DOMAIN items[l] : items[l][i] = n
      BY <1>1, <1>2, <2>3 DEF AllListed, InShadow, n
    <3>2. /\ 1 \in DOMAIN items[l]
          /\ i \in 1 .. Len(items[l])
          /\ Len(items[l]) \in Nat
      BY <1>1, <3>1
    <3>3. PICK h \in DOMAIN bq[l] : bq[l][h].n = items[l][1]
      BY <1>2, <3>2 DEF NoneExtra, Queued
    <3>4. n <= items[l][1]
      <4>1. CASE h = 1
        BY <1>1, <3>3, <4>1 DEF n
      <4>2. CASE 1 < h
        <5>1. bq[l][k].n < bq[l][h].n
          BY <1>1, <1>2, <3>3, <4>2 DEF QueueRises
        <5> QED
          BY <1>1, <3>3, <5>1, FrameNumbers DEF n
      <4> QED
        BY <4>1, <4>2, FrameNumbers
    <3>5. i = 1
      <4>1. CASE 1 < i
        <5>1. items[l][1] < items[l][i]
          BY <1>2, <3>1, <3>2, <4>1 DEF ItemsRise
        <5> QED
          BY <1>1, <3>1, <3>2, <3>4, <5>1, FrameNumbers
      <4> QED
        BY <3>2, <4>1
    <3>6. items'[l] = SubSeq(items[l], 1 + 1, Len(items[l]))
      BY <1>1, <2>3, <3>2
    <3> QED
      BY <2>1, <3>1, <3>5, <3>6
  <2>4. CASE items' = [items EXCEPT ![l] = <<>>]
    BY <1>1, <2>4
  <2> QED
    BY <2>2, <2>3, <2>4 DEF n
<1>8. NoneExtra(l)'
  <2>1. ASSUME NEW j \in DOMAIN items'[l]
        PROVE  \E i \in DOMAIN bq'[l] : bq'[l][i].n = items'[l][j]
    <3>1. PICK h \in DOMAIN items[l] :
            items'[l][j] = items[l][h] /\ items[l][h] # n
      BY <1>7
    <3>2. Queued(l, items[l][h]) /\ items[l][h] \in Int
      BY <1>2, FrameNumbers DEF NoneExtra
    <3> QED
      BY <1>4, <3>1, <3>2
  <2> QED
    BY <2>1 DEF NoneExtra, Queued
<1> QED
  BY <1>5, <1>6, <1>8 DEF Plain

LEMMA AcquirePlain ==
  ASSUME LatchTypes, ShadowInv, PlainInv, Latch!Acquire
  PROVE  PlainInv'
<1>1. PICK l \in layerTodo :
        Latch!AtTurn(l) /\ AcquireShape(l) /\ layerTodo' = layerTodo \ {l}
  BY AcquireShapes
<1>2. l \in Layers /\ plot' = plot
  BY DEF LatchTypes, Latch!Acquire
<1> SUFFICES ASSUME InTime, NEW m \in Layers PROVE Plain(m)'
  BY <1>2 DEF PlainInv, InTime, Latch!Odd
<1>3. last' = last /\ next' = next /\ calls' = calls
  BY DEF Latch!Acquire
<1>4. /\ bq \in [Layers -> Seq(Frames)] /\ items \in [Layers -> Seq(Nat)]
      /\ Plain(m) /\ ~Latch!Odd("timed")
  BY DEF LatchTypes, PlainInv, InTime
<1>5. CASE UNCHANGED <<bq, items>>
  BY <1>3, <1>4, <1>5, PlainKept
<1>6. ASSUME NEW k \in Latch!Offers(l), Latch!Acquired(l, k),
         \/ /\ ~failed[l]
            /\ Latch!DropItems(l, bq[l][k].n)
            /\ Latch!Latch(l, bq[l][k].n)
            /\ UNCHANGED failed
         \/ /\ ~failed[l] /\ items' = [items EXCEPT ![l] = Tail(@)]
            /\ UNCHANGED <<Latch!latchVars, points>>
         \/ /\ items' = [items EXCEPT ![l] = <<>>]
            /\ failed' = [failed EXCEPT ![l] = TRUE]
            /\ UNCHANGED <<currentFrame, points>>
      PROVE  Plain(m)'
  <2>1. CASE m = l
    BY <1>2, <1>3, <1>4, <1>6, <2>1, AcquiredPlain
  <2>2. CASE m # l
    <3>1. bq'[m] = bq[m] /\ items'[m] = items[m]
      BY <1>2, <1>4, <1>6, <2>2 DEF Latch!Acquired, Latch!DropItems
    <3> QED
      BY <1>3, <1>4, <3>1, PlainKept
  <2> QED
    BY <2>1, <2>2
<1> QED
  BY <1>1, <1>5, <1>6 DEF AcquireShape

(* Without times and replacements no step loses a frame.                    *)
LEMMA NextPlain ==
  ASSUME LatchTypes, ShadowInv, PlainInv, Latch!Next  PROVE PlainInv'
<1>1. InTime' = InTime
  BY SamePlot DEF InTime, Latch!Odd
<1>2. ASSUME UNCHANGED <<bq, next, calls, items, last>>
      PROVE  PlainInv'
  BY <1>1, <1>2, PlainKept DEF PlainInv
<1>3. CASE Latch!MainThread
  <2>1. CASE Latch!Acquire
    BY <2>1, AcquirePlain
  <2>2. CASE Latch!Invalidate
    BY <1>2, <2>2 DEF Latch!Invalidate, Latch!queueVars, Latch!shadowVars
  <2>3. CASE \/ Latch!PushPendingState
             \/ Latch!ApplyPendingState
             \/ Latch!CommitLayer
    BY <1>2, <2>3
      DEF Latch!PushPendingState, Latch!ApplyPendingState, Latch!CommitLayer,
          Latch!queueVars, Latch!shadowVars
  <2>4. CASE \/ Latch!CommitTransaction
             \/ Latch!HandlePageFlip
             \/ Latch!Decide
             \/ Latch!Refresh
    BY <1>2, <2>4
      DEF Latch!CommitTransaction, Latch!HandlePageFlip, Latch!Decide,
          Latch!Refresh, Latch!queueVars, Latch!shadowVars
  <2> QED
    BY <1>3, <2>1, <2>2, <2>3, <2>4 DEF Latch!MainThread
<1>4. ASSUME NEW l \in Layers, Latch!RemoveLayer(l) \/ Latch!Destroy(l)
      PROVE  PlainInv'
  BY <1>2, <1>4
    DEF Latch!RemoveLayer, Latch!Destroy, Latch!queueVars, Latch!shadowVars
<1>5. ASSUME NEW l \in Layers, NEW bar \in BOOLEAN, Latch!Transact(l, bar)
      PROVE  PlainInv'
  BY <1>2, <1>5 DEF Latch!Transact, Latch!queueVars, Latch!shadowVars
<1>6. ASSUME NEW l \in Layers, Latch!Callbacks(l), InTime, NEW m \in Layers
      PROVE  Plain(m)'
  <2>1. CASE m = l
    BY <1>6, <2>1, CallbackPlain DEF PlainInv
  <2>2. CASE m # l
    <3>1. /\ bq'[m] = bq[m] /\ next'[m] = next[m] /\ calls'[m] = calls[m]
          /\ items'[m] = items[m] /\ last'[m] = last[m]
      <4>1. PICK call \in calls[l] :
              /\ Latch!FrameCallback(l, call)
              /\ \/ /\ items' = [items EXCEPT ![l] = Append(@, call.n)]
                    /\ last' = [last EXCEPT ![l] = call.n]
                 \/ UNCHANGED <<items, last>>
                 \/ /\ items' = [items EXCEPT ![l][Len(items[l])] = call.n]
                    /\ last' = [last EXCEPT ![l] = call.n]
        BY <1>6
          DEF Latch!Callbacks, Latch!OnFrameAvailable, Latch!OnFrameReplaced
      <4> QED
        BY <1>6, <2>2, <4>1 DEF LatchTypes, Latch!FrameCallback
    <3> QED
      BY <1>6, <3>1, PlainKept DEF PlainInv
  <2> QED
    BY <2>1, <2>2
<1>7. ASSUME NEW l \in Layers, NEW bar \in BOOLEAN, Latch!QueueBuffer(l, bar),
             InTime,
             NEW m \in Layers
      PROVE  Plain(m)'
  <2>1. CASE m = l
    BY <1>7, <2>1, QueuePlain DEF PlainInv, InTime
  <2>2. CASE m # l
    <3>1. /\ bq'[m] = bq[m] /\ next'[m] = next[m] /\ calls'[m] = calls[m]
          /\ items'[m] = items[m] /\ last'[m] = last[m]
      BY <1>7, <2>2 DEF LatchTypes, Latch!QueueBuffer, Latch!shadowVars
    <3> QED
      BY <1>7, <3>1, PlainKept DEF PlainInv
  <2> QED
    BY <2>1, <2>2
<1> QED
  BY <1>1, <1>3, <1>4, <1>5, <1>6, <1>7 DEF Latch!Next, PlainInv

-----------------------------------------------------------------------------
(* Turns change only with the pass.                                         *)
LEMMA TurnKept ==
  ASSUME layerTodo' = layerTodo, NEW l
  PROVE  Latch!AtTurn(l)' <=> Latch!AtTurn(l)
BY DEF Latch!AtTurn, Latch!Behind

(* While a layer waits to be latched, its shadow is not emptied.            *)
LEMMA ItemsStay ==
  ASSUME LatchTypes, NEW l \in Layers, Latch!Callbacks(l), NEW m \in Layers,
         items[m] # <<>>
  PROVE  items'[m] # <<>>
<1>1. PICK call \in calls[l] :
        \/ items' = [items EXCEPT ![l] = Append(@, call.n)]
        \/ items' = items
        \/ items' = [items EXCEPT ![l][Len(items[l])] = call.n]
  BY DEF Latch!Callbacks, Latch!OnFrameAvailable, Latch!OnFrameReplaced
<1>2. /\ items[m] \in Seq(Nat)
      /\ Len(items[m]) \in Nat \ {0}
      /\ items \in [Layers -> Seq(Nat)]
      /\ call.n \in Nat
  <2>1. items \in [Layers -> Seq(Nat)] /\ call \in FrameCalls
    BY DEF LatchTypes
  <2>2. Len(items[m]) \in Nat /\ Len(items[m]) # 0
    BY <2>1
  <2> QED
    BY <2>1, <2>2 DEF FrameCalls
<1>3. CASE m # l
  BY <1>1, <1>2, <1>3
<1>4. CASE m = l
  <2>1. Append(items[m], call.n) # <<>>
    <3>1. DOMAIN Append(items[m], call.n) = 1 .. Len(items[m]) + 1
      BY <1>2
    <3>2. Len(items[m]) + 1 \in DOMAIN Append(items[m], call.n)
      BY <1>2, <3>1
    <3>3. DOMAIN <<>> = {}
      OBVIOUS
    <3> QED
      BY <3>2, <3>3
  <2>2. [items[m] EXCEPT ![Len(items[m])] = call.n] # <<>>
    BY <1>2
  <2> QED
    BY <1>1, <1>2, <1>4, <2>1, <2>2
<1> QED
  BY <1>3, <1>4

(* In time, the head of the shadow stays while its layer waits.             *)
LEMMA HeadStays ==
  ASSUME LatchTypes, NEW l \in Layers, Latch!Callbacks(l), NEW m \in Layers,
         Plain(l),
         items[m] # <<>>
  PROVE  Latch!HeadFrame(m)' = Latch!HeadFrame(m)
<1>1. PICK call \in calls[l] :
        call.on = "available" =>
          items' = [items EXCEPT ![l] = Append(@, call.n)]
  BY DEF Latch!Callbacks, Latch!OnFrameAvailable, Latch!OnFrameReplaced
<1>2. items' = [items EXCEPT ![l] = Append(@, call.n)]
  BY <1>1 DEF Plain, NoneReplaced
<1>3. /\ items[m] \in Seq(Nat)
      /\ Len(items[m]) \in Nat \ {0}
      /\ items \in [Layers -> Seq(Nat)]
      /\ call.n \in Nat
  <2>1. items \in [Layers -> Seq(Nat)] /\ call \in FrameCalls
    BY DEF LatchTypes
  <2>2. Len(items[m]) \in Nat /\ Len(items[m]) # 0
    BY <2>1
  <2> QED
    BY <2>1, <2>2 DEF FrameCalls
<1>4. /\ Append(items[m], call.n) # <<>>
      /\ Append(items[m], call.n)[1] = items[m][1]
  <2> DEFINE t == Append(items[m], call.n)
  <2>1. /\ DOMAIN items[m] = 1 .. Len(items[m])
        /\ \A i \in DOMAIN items[m] : i \in DOMAIN t /\ t[i] = items[m][i]
    BY <1>3, Appended
  <2>2. 1 \in DOMAIN items[m]
    BY <1>3, <2>1
  <2> QED
    BY <2>1, <2>2
<1>5. items'[m] # <<>> /\ items'[m][1] = items[m][1]
  BY <1>2, <1>3, <1>4
<1> QED
  BY <1>5 DEF Latch!HeadFrame

(* What is deferred after the decision does not matter to a frame.          *)
LEMMA MetKept ==
  ASSUME NEW m \in Layers, Met(m), seen' = seen,
         pointsApplied \subseteq pointsApplied',
         Latch!HeadFrame(m)' = Latch!HeadFrame(m),
         Latch!InOrder(m)' => Latch!InOrder(m)
  PROVE  Met(m)'
BY DEF Met

(* Points that are in order with a new one are so without it.               *)
LEMMA OrderKept ==
  ASSUME LatchTypes, NEW m \in Layers, NEW bar \in Layers, NEW point,
         points' = [points EXCEPT ![bar] = Append(@, point)]
  PROVE  Latch!InOrder(m)' => Latch!InOrder(m)
<1>1. points \in [Layers -> Seq(SyncPoints)] /\ points[m] \in Seq(SyncPoints)
  BY DEF LatchTypes
<1>2. CASE m # bar
  BY <1>1, <1>2 DEF Latch!InOrder
<1>3. CASE m = bar
  <2>1. points'[m] = Append(points[m], point)
    BY <1>1, <1>3
  <2>2. /\ Len(points[m]) \in Nat /\ DOMAIN points[m] = 1 .. Len(points[m])
        /\ DOMAIN points'[m] = 1 .. Len(points[m]) + 1
        /\ \A k \in 1 .. Len(points[m]) : points'[m][k] = points[m][k]
    BY <1>1, <2>1
  <2>3. \A k \in DOMAIN points[m] : k \in DOMAIN points'[m]
    BY <2>2
  <2> QED
    BY <2>2, <2>3 DEF Latch!InOrder
<1> QED
  BY <1>2, <1>3

(* A layer that decides to latch has all the changes it saw for its head.   *)
LEMMA DecideMet ==
  ASSUME LatchTypes, NEW l \in Layers, Latch!AllTransactionsSignaled(l),
         seen' = Latch!ToSet(points[l]),
         UNCHANGED <<points, items, currentFrame, pointsApplied>>
  PROVE  Met(l)'
<1> SUFFICES ASSUME Latch!InOrder(l), NEW i \in DOMAIN points[l],
                    points[l][i].frame <= Latch!HeadFrame(l)
             PROVE  points[l][i] \in pointsApplied
  BY DEF Met, Latch!InOrder, Latch!HeadFrame, Latch!ToSet
<1>1. /\ points[l] \in Seq(SyncPoints) /\ DOMAIN points[l] \subseteq Nat
      /\ \A j \in DOMAIN points[l] : points[l][j].frame \in Int
  <2>1. points[l] \in Seq(SyncPoints)
    BY DEF LatchTypes
  <2>2. \A j \in DOMAIN points[l] : points[l][j] \in SyncPoints
    BY <2>1
  <2> QED
    BY <2>1, <2>2 DEF SyncPoints
<1>2. Latch!HeadFrame(l) \in Int
  <2>1. currentFrame[l] \in Nat /\ items[l] \in Seq(Nat)
    BY DEF LatchTypes
  <2>2. items[l] # <<>> => 1 \in DOMAIN items[l] /\ items[l][1] \in Nat
    BY <2>1
  <2> QED
    BY <2>1, <2>2 DEF Latch!HeadFrame
<1>3. ASSUME NEW j \in DOMAIN points[l],
             points[l][j].frame > Latch!HeadFrame(l)
      PROVE  i < j
  <2>1. CASE j = i
    BY <1>1, <1>2, <1>3, <2>1
  <2>2. CASE j < i
    <3>1. points[l][j].frame <= points[l][i].frame
      BY <2>2 DEF Latch!InOrder
    <3> QED
      BY <1>1, <1>2, <1>3, <3>1
  <2> QED
    BY <1>1, <2>1, <2>2
<1>4. i \in Latch!Matching(l)
  BY <1>3 DEF Latch!Matching
<1> QED
  BY <1>4 DEF Latch!AllTransactionsSignaled

LEMMA InitFrames ==
  ASSUME Latch!Init  PROVE PlainInv /\ FramesInv
<1>1. layerMain = "idle"
  BY DEF Latch!Init
<1>2. ASSUME NEW l \in Layers PROVE Plain(l)
  <2>1. /\ bq[l] = <<>>
        /\ items[l] = <<>>
        /\ calls[l] = {}
        /\ next[l] = 1
        /\ last[l] = 0
    BY DEF Latch!Init
  <2>2. last[l] + 1 .. next[l] - 1 = {}
    BY <2>1
  <2> QED
    BY <2>1, <2>2 DEF Plain, NoneReplaced, NoneLost, NoneExtra
<1> QED
  BY <1>1, <1>2 DEF PlainInv, FramesInv

(* The steps of the main thread carry the decision to the latch.            *)
LEMMA MainFrames ==
  ASSUME LatchTypes, ShadowInv, PlainInv, FramesInv, Latch!MainThread
  PROVE  FramesInv'
<1>1. CASE layerMain' \notin {"latch", "acquire"}
  BY <1>1 DEF FramesInv
<1>2. CASE \/ Latch!Invalidate
           \/ Latch!PushPendingState
           \/ Latch!ApplyPendingState
           \/ Latch!CommitLayer
           \/ Latch!CommitTransaction \/ Latch!Refresh
  <2>1. layerMain' \in {"flip", "transaction", "apply", "idle"}
    BY <1>2
      DEF Latch!Invalidate, Latch!PushPendingState, Latch!ApplyPendingState,
          Latch!CommitLayer, Latch!CommitTransaction, Latch!Refresh
  <2> QED
    BY <1>1, <2>1
<1>3. CASE Latch!HandlePageFlip
  <2>1. layerMain' = "latch" /\ items' = items /\ \A l \in layerTodo' :
          items[l] # <<>>
    BY <1>3 DEF Latch!HandlePageFlip, Latch!shadowVars
  <2> QED
    BY <2>1 DEF FramesInv
<1>4. CASE Latch!Decide
  <2>1. PICK l \in layerTodo :
     /\ Latch!AtTurn(l)
     /\ \/ /\ layerMain' = "acquire"
           /\ seen' = Latch!ToSet(points[l])
           /\ layerTodo' = layerTodo
           /\ Latch!AllTransactionsSignaled(l)
        \/ layerTodo' = layerTodo \ {l} /\ layerMain' = layerMain
    <3>1. PICK l \in layerTodo : Latch!AtTurn(l) /\
     LET first == {i \in Latch!Unsignaled(l) : \A j \in Latch!Unsignaled(l) :
                    i <= j}
     IN IF ~latched[l] /\ Latch!AllTransactionsSignaled(l)
        THEN /\ layerMain' = "acquire" /\ seen' = Latch!ToSet(points[l])
             /\ UNCHANGED <<layerTodo, pointsAvailable, layerMessage>>
        ELSE /\ layerTodo' = layerTodo \ {l}
             /\ IF latched[l] THEN UNCHANGED <<pointsAvailable, layerMessage>>
                ELSE /\ pointsAvailable' = pointsAvailable \cup
                          {points[l][i] : i \in first}
                     /\ layerMessage' = TRUE
             /\ UNCHANGED <<layerMain, seen>>
      BY <1>4 DEF Latch!Decide
    <3> QED
      BY <3>1
  <2>2. /\ layerMain = "latch"
        /\ UNCHANGED <<points, items, currentFrame, pointsApplied>>
    BY <1>4 DEF Latch!Decide, Latch!shadowVars, Latch!latchVars
  <2>3. \A m \in layerTodo : items'[m] # <<>>
    BY <2>2 DEF FramesInv
  <2>4. CASE layerTodo' = layerTodo \ {l} /\ layerMain' = layerMain
    BY <2>2, <2>3, <2>4 DEF FramesInv
  <2>5. CASE /\ layerMain' = "acquire"
             /\ seen' = Latch!ToSet(points[l])
             /\ layerTodo' = layerTodo
             /\ Latch!AllTransactionsSignaled(l)
    <3>1. Met(l)' /\ l \in Layers
      BY <2>2, <2>5, DecideMet DEF LatchTypes
    <3>2. ASSUME NEW m \in layerTodo, Latch!AtTurn(m)' PROVE m = l
      <4>1. Latch!AtTurn(m) /\ m \in Layers
        BY <2>5, <3>2, TurnKept DEF LatchTypes
      <4> QED
        BY <2>1, <3>1, <4>1, OneAtTurn
    <3>3. \A m \in layerTodo : Latch!AtTurn(m)' => Met(m)'
      BY <3>1, <3>2
    <3> QED
      BY <2>3, <2>5, <3>3 DEF FramesInv
  <2> QED
    BY <2>1, <2>4, <2>5
<1>5. CASE Latch!Acquire
  <2>1. PICK l \in layerTodo :
          Latch!AtTurn(l) /\ AcquireShape(l) /\ layerTodo' = layerTodo \ {l}
    BY <1>5, AcquireShapes
  <2>2. /\ layerMain' = "latch"
        /\ layerMain = "acquire"
        /\ items \in [Layers -> Seq(Nat)]
        /\ l \in Layers /\ layerTodo \subseteq Layers
    BY <1>5 DEF Latch!Acquire, LatchTypes
  <2>3. \A m \in layerTodo : m # l => items'[m] = items[m]
    BY <2>1, <2>2 DEF AcquireShape, Latch!DropItems
  <2> QED
    BY <2>1, <2>2, <2>3 DEF FramesInv
<1> QED
  BY <1>2, <1>3, <1>4, <1>5 DEF Latch!MainThread

(* So do those of the others: the head of a layer to latch stays its head.  *)
LEMMA OtherFrames ==
  ASSUME LatchTypes, ShadowInv, PlainInv, FramesInv, Latch!Next,
         ~Latch!MainThread
  PROVE  FramesInv'
<1>1. InTime' = InTime
  BY SamePlot DEF InTime, Latch!Odd
<1>2. ASSUME UNCHANGED <<items, currentFrame, layerMain, layerTodo, seen>>,
             pointsApplied \subseteq pointsApplied',
             \A m \in Layers : Latch!InOrder(m)' => Latch!InOrder(m)
      PROVE  FramesInv'
  <2>1. \A m \in Layers : Latch!HeadFrame(m)' = Latch!HeadFrame(m)
    BY <1>2 DEF Latch!HeadFrame
  <2>2. ASSUME layerMain = "acquire", InTime, NEW m \in layerTodo,
               Latch!AtTurn(m)'
        PROVE  Met(m)'
    <3>1. Latch!AtTurn(m) /\ m \in Layers
      BY <1>2, <2>2, TurnKept DEF LatchTypes
    <3> QED
      BY <1>2, <2>1, <2>2, <3>1, MetKept DEF FramesInv
  <2> QED
    BY <1>1, <1>2, <2>2 DEF FramesInv
<1>3. points' = points => \A m \in Layers : Latch!InOrder(m)' =>
        Latch!InOrder(m)
  BY DEF Latch!InOrder
<1>4. ASSUME NEW l \in Layers, Latch!RemoveLayer(l) \/ Latch!Destroy(l)
      PROVE  FramesInv'
  <2>1. /\ UNCHANGED <<items, currentFrame, layerMain, layerTodo, seen,
             points>>
        /\ pointsApplied \subseteq pointsApplied'
    BY <1>4
      DEF Latch!RemoveLayer, Latch!Destroy, Latch!shadowVars, Latch!latchVars,
          Latch!pointVars, Latch!mainVars
  <2> QED
    BY <1>2, <1>3, <2>1
<1>5. ASSUME NEW l \in Layers, NEW bar \in BOOLEAN, Latch!QueueBuffer(l, bar)
      PROVE  FramesInv'
  <2>1. UNCHANGED <<items, currentFrame, layerMain, layerTodo, seen, points,
          pointsApplied>>
    BY <1>5
      DEF Latch!QueueBuffer, Latch!shadowVars, Latch!latchVars,
          Latch!pointVars, Latch!mainVars
  <2> QED
    BY <1>2, <1>3, <2>1
<1>6. ASSUME NEW l \in Layers, NEW hide \in BOOLEAN, Latch!Transact(l, hide)
      PROVE  FramesInv'
  <2>1. UNCHANGED <<items, currentFrame, layerMain, layerTodo, seen,
          pointsApplied>>
    BY <1>6
      DEF Latch!Transact, Latch!shadowVars, Latch!latchVars, Latch!mainVars
  <2>2. \/ points' = points
        \/ \E bar \in Layers : \E point :
             points' = [points EXCEPT ![bar] = Append(@, point)]
    <3>1. \/ UNCHANGED points
          \/ \E state, f : \E bar \in Layers :
               Latch!DeferTransactionUntil(l, state, bar, f)
      BY <1>6 DEF Latch!Transact
    <3> QED
      BY <3>1 DEF Latch!DeferTransactionUntil
  <2>3. \A m \in Layers : Latch!InOrder(m)' => Latch!InOrder(m)
    BY <1>3, <2>2, OrderKept
  <2> QED
    BY <1>2, <2>1, <2>3
<1>7. ASSUME NEW l \in Layers, Latch!Callbacks(l)
      PROVE  FramesInv'
  <2>1. UNCHANGED <<currentFrame, layerMain, layerTodo, seen, points,
          pointsApplied>>
    BY <1>7
      DEF Latch!Callbacks, Latch!OnFrameAvailable, Latch!OnFrameReplaced,
          Latch!FrameCallback, Latch!latchVars, Latch!pointVars,
          Latch!mainVars
  <2>2. \A m \in Layers : items[m] # <<>> => items'[m] # <<>>
    BY <1>7, ItemsStay
  <2>3. ASSUME layerMain = "acquire", InTime, NEW m \in layerTodo,
               Latch!AtTurn(m)'
        PROVE  Met(m)'
    <3>1. Latch!AtTurn(m) /\ m \in Layers /\ items[m] # <<>>
      BY <2>1, <2>3, TurnKept DEF LatchTypes, FramesInv
    <3>2. Latch!HeadFrame(m)' = Latch!HeadFrame(m)
      BY <1>7, <2>3, <3>1, HeadStays DEF PlainInv
    <3> QED
      BY <1>3, <2>1, <2>3, <3>1, <3>2, MetKept DEF FramesInv
  <2> QED
    BY <1>1, <2>1, <2>2, <2>3 DEF FramesInv, LatchTypes
<1> QED
  BY <1>4, <1>5, <1>6, <1>7 DEF Latch!Next

(* What was decided holds until the layer latches.                          *)
LEMMA NextFrames ==
  ASSUME LatchTypes, ShadowInv, PlainInv, FramesInv, Latch!Next
  PROVE  FramesInv'
BY MainFrames, OtherFrames

(* A frame that is latched finds its changes applied.                       *)
LEMMA LatchedTogether ==
  ASSUME LatchTypes, ShadowInv, PlainInv, FramesInv, Latch!Next,
         NEW l \in Layers,
         currentFrame'[l] # currentFrame[l], Latch!InOrder(l), InTime,
         NEW p \in seen,
         p.frame <= currentFrame'[l]
  PROVE  p \in pointsApplied
<1>1. Latch!Acquire
  <2>1. CASE Latch!MainThread
    BY <2>1
      DEF Latch!MainThread, Latch!Invalidate, Latch!PushPendingState,
          Latch!ApplyPendingState, Latch!CommitLayer, Latch!CommitTransaction,
          Latch!HandlePageFlip, Latch!Decide, Latch!Refresh, Latch!latchVars
  <2>2. ASSUME NEW m \in Layers,
               Latch!Callbacks(m) \/ Latch!RemoveLayer(m) \/ Latch!Destroy(m)
        PROVE  UNCHANGED currentFrame
    BY <2>2
      DEF Latch!Callbacks, Latch!OnFrameAvailable, Latch!OnFrameReplaced,
          Latch!FrameCallback, Latch!RemoveLayer, Latch!Destroy,
          Latch!latchVars
  <2>3. ASSUME NEW m \in Layers, NEW d \in BOOLEAN,
               Latch!QueueBuffer(m, d) \/ Latch!Transact(m, d)
        PROVE  UNCHANGED currentFrame
    BY <2>3 DEF Latch!QueueBuffer, Latch!Transact, Latch!latchVars
  <2> QED
    BY <2>1, <2>2, <2>3 DEF Latch!Next
<1>2. PICK m \in layerTodo : Latch!AtTurn(m) /\ AcquireShape(m)
  BY <1>1, AcquireShapes
<1>3. m \in Layers /\ currentFrame \in [Layers -> Nat]
  BY DEF LatchTypes
<1>4. PICK k \in Latch!Offers(m) : Latch!Latch(m, bq[m][k].n)
  <2>1. ~UNCHANGED currentFrame
    OBVIOUS
  <2>2. ~Latch!Latch(m, currentFrame[m])
    BY <1>3, <2>1 DEF Latch!Latch
  <2> QED
    BY <1>2, <2>1, <2>2 DEF AcquireShape, Latch!latchVars
<1>5. m = l /\ currentFrame'[l] = bq[l][k].n
  BY <1>3, <1>4 DEF Latch!Latch
<1>6. layerMain = "acquire" /\ items[l] # <<>>
  BY <1>1, <1>5 DEF Latch!Acquire, FramesInv
<1>7. k = 1 /\ k \in DOMAIN bq[l]
  <2>1. k \in DOMAIN bq[l] /\ ~(k > 1)
    BY <1>4, <1>5 DEF Latch!Offers, InTime
  <2> QED
    BY <2>1, FrameNumbers
<1>8. 1 \in DOMAIN items[l] /\ Latch!HeadFrame(l) = items[l][1]
  <2>1. items[l] \in Seq(Nat)
    BY DEF LatchTypes
  <2>2. 1 \in DOMAIN items[l]
    BY <1>6, <2>1
  <2> QED
    BY <1>6, <2>2 DEF Latch!HeadFrame
<1>9. bq[l][k].n <= Latch!HeadFrame(l)
  <2>1. 1 \in DOMAIN items[l] /\ Latch!HeadFrame(l) = items[l][1]
    BY <1>8
  <2>2. PICK h \in DOMAIN bq[l] : bq[l][h].n = items[l][1]
    BY <2>1 DEF PlainInv, Plain, NoneExtra, Queued
  <2>3. h # 1 => bq[l][1].n < bq[l][h].n
    BY <1>7, <2>2, FrameNumbers DEF ShadowInv, Shadow, QueueRises
  <2> QED
    BY <1>7, <2>1, <2>2, <2>3, FrameNumbers
<1>10. Latch!HeadFrame(l) \in Nat
  BY <1>8, FrameNumbers
<1>11. p.frame <= Latch!HeadFrame(l)
  <2>1. p.frame \in Int
    BY DEF LatchTypes, SyncPoints
  <2> QED
    BY <1>5, <1>7, <1>9, <1>10, <2>1, FrameNumbers
<1> QED
  BY <1>2, <1>5, <1>6, <1>11 DEF FramesInv, Met

-----------------------------------------------------------------------------
LEMMA InitChanges ==
  ASSUME Latch!Init  PROVE ChangesInv
<1>1. layerMain = "idle" /\ pointsAvailable = {}
  BY DEF Latch!Init
<1>2. ASSUME NEW l \in Layers
      PROVE  /\ pending[l] = <<>> /\ remote[l] = <<>> /\ points[l] = <<>>
             /\ layerDrawn[l].change = 0 /\ ~layerDrawn[l].hidden
             /\ now[l].change = 0 /\ ~now[l].hidden /\ ~now[l].masked
  BY DEF Latch!Init
<1>3. \A l \in Layers : points[l] = <<>>
  BY <1>2
<1>4. PointsKnown
  BY <1>1, <1>3 DEF PointsKnown
<1>5. ASSUME NEW l \in Layers  PROVE ChangeInv(l)
  <2>1. PendingRise(l) /\ CommitFollows(l)
    BY <1>1, <1>2 DEF PendingRise, CommitFollows, Applying
  <2>2. now[l].masked = now[l].hidden
    BY DEF Latch!Init
  <2>3. HiddenStays(l)
    BY <1>2, <2>2 DEF HiddenStays
  <2>4. RemoteFollows(l)
    BY <1>2 DEF RemoteFollows
  <2>5. PointsAtBarrier(l) /\ AvailableCame(l)
    BY <1>2, <1>3 DEF PointsAtBarrier, AvailableCame
  <2> QED
    BY <2>1, <2>3, <2>4, <2>5 DEF ChangeInv
<1> QED
  BY <1>4, <1>5 DEF ChangesInv

(* No point comes to a layer, ...                                           *)
Fewer == \A bar \in Layers : \A k \in DOMAIN points'[bar] :
  \E i \in DOMAIN points[bar] : points'[bar][k] = points[bar][i]

(* ... one becomes available when its frame has come, its layer is gone or  *)
(* hidden, ...                                                              *)
NewlyAvailable == \A p \in pointsAvailable' : \/ p \in pointsAvailable
  \/ \E bar \in Layers : \E k \in DOMAIN points[bar] :
       /\ p = points[bar][k]
       /\ p.frame <= last'[bar] \/ bar \in dead' \/ layerDrawn'[bar].hidden

(* ... which it stays.                                                      *)
Onward ==
  /\ \A bar \in Layers :
       last[bar] <= last'[bar]
         /\ (layerDrawn[bar].hidden => layerDrawn'[bar].hidden)
  /\ dead \subseteq dead'

(* What has come has come: frames are not taken back and layers stay        *)
(* hidden.                                                                  *)
LEMMA CameKept ==
  ASSUME LatchTypes, LatchTypes', NEW l \in Layers, PointsAtBarrier(l),
         AvailableCame(l), NewlyAvailable, Onward,
         NEW i \in DOMAIN pending[l], NEW s, s = pending[l][i],
         PointOf(l, s) \in pointsAvailable'
  PROVE  Latch!Come(s)'
<1> SUFFICES ASSUME s.barrier # NoLayer
             PROVE  \/ s.frame <= last'[s.barrier] \/ s.barrier \in dead'
                    \/ layerDrawn'[s.barrier].hidden
  BY DEF Latch!Come
<1>1. s \in PendingStates /\ s.barrier \in Layers /\ s.frame \in Int
  <2>1. pending[l] \in Seq(PendingStates)
    BY DEF LatchTypes
  <2>2. s \in PendingStates
    BY <2>1
  <2> QED
    BY <2>2 DEF PendingStates
<1>2. CASE PointOf(l, s) \in pointsAvailable
  <2>1. Latch!Come(s)
    BY <1>2 DEF AvailableCame
  <2>2. last[s.barrier] \in Nat /\ last'[s.barrier] \in Nat
    BY <1>1 DEF LatchTypes
  <2> QED
    BY <1>1, <2>1, <2>2 DEF Latch!Come, Onward
<1>3. ASSUME NEW bar \in Layers, NEW k \in DOMAIN points[bar],
             PointOf(l, s) = points[bar][k],
             \/ PointOf(l, s).frame <= last'[bar]
             \/ bar \in dead'
             \/ layerDrawn'[bar].hidden
      PROVE  \/ s.frame <= last'[s.barrier] \/ s.barrier \in dead'
             \/ layerDrawn'[s.barrier].hidden
  <2>1. s.barrier = bar
    BY <1>3 DEF PointsAtBarrier, Barred
  <2>2. PointOf(l, s).frame = s.frame
    BY DEF PointOf
  <2> QED
    BY <1>3, <2>1, <2>2
<1> QED
  BY <1>2, <1>3 DEF NewlyAvailable

(* Points are points.                                                       *)
LEMMA PointTypes ==
  ASSUME LatchTypes, NEW l \in Layers
  PROVE  /\ points[l] \in Seq(SyncPoints) /\ remote[l] \in Seq(SyncPoints)
         /\ Len(points[l]) \in Nat /\ DOMAIN points[l] = 1 .. Len(points[l])
         /\ \A k \in DOMAIN points[l] :
              /\ points[l][k] \in SyncPoints /\ points[l][k].frame \in Int
              /\ points[l][k].by \in Layers /\ points[l][k].change \in Nat
<1>1. points[l] \in Seq(SyncPoints) /\ remote[l] \in Seq(SyncPoints)
  BY DEF LatchTypes
<1>2. \A k \in DOMAIN points[l] : points[l][k] \in SyncPoints
  BY <1>1
<1> QED
  BY <1>1, <1>2 DEF SyncPoints

(* Points and those available are of changes that were made.                *)
LEMMA KnownKept ==
  ASSUME LatchTypes, LatchTypes', PointsKnown, Fewer, NewlyAvailable,
         \A l \in Layers : now[l].change <= now'[l].change
  PROVE  PointsKnown'
<1>1. \A bar \in Layers : \A k \in DOMAIN points[bar] :
        points[bar][k] \in SyncPoints
  BY PointTypes
<1>2. \A p \in SyncPoints : /\ p.by \in Layers /\ p.change \in Nat
                            /\ now[p.by].change \in Nat
                            /\ now'[p.by].change \in Nat
  BY DEF LatchTypes, SyncPoints, States
<1>3. ASSUME NEW p \in SyncPoints, p.change <= now[p.by].change
      PROVE  p.change <= now'[p.by].change
  BY <1>2, <1>3
<1>4. \A bar \in Layers : \A k \in DOMAIN points[bar] :
        points[bar][k].change <= now'[points[bar][k].by].change
  BY <1>1, <1>3 DEF PointsKnown
<1>5. \A bar \in Layers : \A k \in DOMAIN points'[bar] :
        points'[bar][k].change <= now'[points'[bar][k].by].change
  BY <1>4 DEF Fewer
<1>6. ASSUME NEW p \in pointsAvailable' PROVE p.change <= now'[p.by].change
  <2>1. CASE p \in pointsAvailable
    BY <1>3, <2>1 DEF PointsKnown, LatchTypes
  <2>2. CASE \E bar \in Layers : \E k \in DOMAIN points[bar] :
               p = points[bar][k]
    BY <1>4, <2>2
  <2> QED
    BY <2>1, <2>2 DEF NewlyAvailable
<1> QED
  BY <1>5, <1>6 DEF PointsKnown

(* Steps that touch no state of a layer.                                    *)
AsideOfApply ==
  \/ layerMain # "apply" /\ layerMain' # "apply"
  \/ UNCHANGED <<layerMain, layerTodo, commit, updated>>

(* A step aside of states and points keeps what is said of changes.         *)
LEMMA QuietChanges ==
  ASSUME LatchTypes, LatchTypes', ChangesInv, UNCHANGED Latch!stateVars,
         AsideOfApply, Fewer, NewlyAvailable,
         \A bar \in Layers : last[bar] <= last'[bar], dead \subseteq dead'
  PROVE  ChangesInv'
<1>1. /\ now' = now
      /\ pending' = pending
      /\ layerDrawn' = layerDrawn
      /\ remote' = remote
  BY DEF Latch!stateVars
<1>2. PointsKnown'
  <2>1. \A l \in Layers : now[l].change \in Nat
    BY DEF LatchTypes, States
  <2>2. \A l \in Layers : now[l].change <= now'[l].change
    BY <1>1, <2>1
  <2> QED
    BY <2>2, KnownKept DEF ChangesInv
<1>3. Onward
  BY <1>1 DEF Onward
<1>4. ASSUME NEW l \in Layers  PROVE ChangeInv(l)'
  <2>1. ChangeInv(l)
    BY DEF ChangesInv
  <2>9. \/ ~Applying(l) /\ ~Applying(l)'
        \/ (Applying(l)' <=> Applying(l)) /\ commit' = commit
             /\ updated' = updated
    BY TurnKept DEF AsideOfApply, Applying
  <2>2. PendingRise(l)'
    BY <1>1, <2>1, <2>9 DEF ChangeInv, PendingRise
  <2>3. CommitFollows(l)'
    BY <1>1, <2>1, <2>9 DEF ChangeInv, CommitFollows
  <2>4. HiddenStays(l)' /\ RemoteFollows(l)'
    BY <1>1, <2>1 DEF ChangeInv, HiddenStays, RemoteFollows
  <2>5. PointsAtBarrier(l)'
    BY <1>1, <2>1 DEF ChangeInv, PointsAtBarrier, Fewer
  <2>6. ASSUME NEW i \in DOMAIN pending[l], NEW s, s = pending[l][i],
               PointOf(l, s) \in pointsAvailable'
        PROVE  Latch!Come(s)'
    BY <1>3, <2>1, <2>6, CameKept DEF ChangeInv
  <2>7. AvailableCame(l)'
    BY <1>1, <2>6 DEF AvailableCame, Latch!Come
  <2> QED
    BY <2>2, <2>3, <2>4, <2>5, <2>7 DEF ChangeInv
<1> QED
  BY <1>2, <1>4 DEF ChangesInv

(* The head of a layer is a frame that was received.                        *)
LEMMA HeadKnown ==
  ASSUME LatchTypes, ShadowInv, NEW l \in Layers
  PROVE  /\ Latch!HeadFrame(l) \in Nat
         /\ Latch!HeadFrame(l) <= last[l]
         /\ last[l] \in Nat
<1>1. currentFrame[l] \in Nat /\ currentFrame[l] <= last[l] /\ last[l] \in Nat
  BY DEF LatchTypes, ShadowInv, Shadow, ItemsRise
<1>2. ASSUME items[l] # <<>>
      PROVE  items[l][1] \in Nat /\ items[l][1] <= last[l]
  <2>1. 1 \in DOMAIN items[l]
    BY <1>2 DEF LatchTypes
  <2> QED
    BY <2>1, FrameNumbers DEF ShadowInv, Shadow, ItemsRise
<1> QED
  BY <1>1, <1>2 DEF Latch!HeadFrame

LEMMA SamePoints ==
  ASSUME points' = points  PROVE Fewer
BY DEF Fewer

LEMMA SameAvailable ==
  ASSUME pointsAvailable' = pointsAvailable  PROVE NewlyAvailable
BY DEF NewlyAvailable

(* notifyAvailableFrames tells of frames that are at hand and so were       *)
(* received.                                                                *)
LEMMA InvalidateChanges ==
  ASSUME LatchTypes, LatchTypes', ShadowInv, ChangesInv, Latch!Invalidate
  PROVE  ChangesInv'
<1>1. /\ UNCHANGED Latch!stateVars
      /\ points' = points
      /\ last' = last
      /\ dead' = dead
      /\ layerMain = "idle" /\ layerMain' \in {"flip", "transaction"}
  BY DEF Latch!Invalidate, Latch!shadowVars, Latch!lifeVars
<1>2. NewlyAvailable
  <2>1. ASSUME NEW p \in pointsAvailable', p \notin pointsAvailable
        PROVE  \E bar \in Layers : \E k \in DOMAIN points[bar] :
                 p = points[bar][k] /\ p.frame <= last'[bar]
    <3>1. PICK bar \in present : p \in Latch!AtHand(bar)
      BY <2>1 DEF Latch!Invalidate
    <3>2. bar \in Layers
      BY DEF LatchTypes
    <3>3. PICK k \in DOMAIN points[bar] :
            p = points[bar][k] /\ Latch!HeadFrame(bar) >= p.frame
      BY <3>1 DEF Latch!AtHand, Latch!ToSet
    <3>4. p.frame <= last[bar]
      BY <3>2, <3>3, HeadKnown, PointTypes
    <3> QED
      BY <1>1, <3>2, <3>3, <3>4
  <2> QED
    BY <2>1 DEF NewlyAvailable
<1>3. \A bar \in Layers : last[bar] <= last'[bar]
  BY <1>1 DEF LatchTypes
<1>4. AsideOfApply
  BY <1>1 DEF AsideOfApply
<1> QED
  BY <1>1, <1>2, <1>3, <1>4, SamePoints, QuietChanges

(* latchBuffer tells of the first point that is not signaled, whose frame   *)
(* is at hand.                                                              *)
LEMMA DecideChanges ==
  ASSUME LatchTypes, LatchTypes', ShadowInv, ChangesInv, Latch!Decide
  PROVE  ChangesInv'
<1>1. /\ UNCHANGED Latch!stateVars
      /\ points' = points
      /\ last' = last
      /\ dead' = dead
      /\ layerMain = "latch"
  BY DEF Latch!Decide, Latch!shadowVars, Latch!lifeVars
<1>2. PICK l \in layerTodo :
     LET first == {i \in Latch!Unsignaled(l) : \A j \in Latch!Unsignaled(l) :
                    i <= j}
     IN IF ~latched[l] /\ Latch!AllTransactionsSignaled(l)
        THEN /\ layerMain' = "acquire" /\ seen' = Latch!ToSet(points[l])
             /\ UNCHANGED <<layerTodo, pointsAvailable, layerMessage>>
        ELSE /\ layerTodo' = layerTodo \ {l}
             /\ IF latched[l] THEN UNCHANGED <<pointsAvailable, layerMessage>>
                ELSE /\ pointsAvailable' = pointsAvailable \cup
                          {points[l][i] : i \in first}
                     /\ layerMessage' = TRUE
             /\ UNCHANGED <<layerMain, seen>>
  BY DEF Latch!Decide
<1>3. l \in Layers
  BY DEF LatchTypes
<1>4. \A p \in pointsAvailable' : p \in pointsAvailable
        \/ \E i \in Latch!Unsignaled(l) : p = points[l][i]
  BY <1>2
<1>5. ASSUME NEW i \in Latch!Unsignaled(l)
      PROVE  i \in DOMAIN points[l] /\ points[l][i].frame <= last'[l]
  <2>1. i \in DOMAIN points[l] /\ ~(points[l][i].frame > Latch!HeadFrame(l))
    <3>1. i \in DOMAIN points[l]
          /\ (points[l][i].frame > Latch!HeadFrame(l) => i < i)
      BY DEF Latch!Unsignaled, Latch!Matching
    <3> QED
      BY <1>3, <3>1, PointTypes
  <2> QED
    BY <1>1, <1>3, <2>1, HeadKnown, PointTypes
<1>6. NewlyAvailable
  BY <1>3, <1>4, <1>5 DEF NewlyAvailable
<1>7. \A bar \in Layers : last[bar] <= last'[bar]
  BY <1>1 DEF LatchTypes
<1>8. AsideOfApply
  BY <1>1, <1>2 DEF AsideOfApply
<1> QED
  BY <1>1, <1>6, <1>7, <1>8, SamePoints, QuietChanges

(* The destructor tells of all points: the layer is gone.                   *)
LEMMA DestroyChanges ==
  ASSUME LatchTypes, LatchTypes', ChangesInv, NEW l \in Layers,
         Latch!Destroy(l)
  PROVE  ChangesInv'
<1>1. /\ UNCHANGED Latch!stateVars /\ points' = points /\ last' = last
      /\ dead' = dead \cup {l}
      /\ pointsAvailable' = pointsAvailable \cup Latch!ToSet(points[l])
      /\ AsideOfApply
  BY DEF Latch!Destroy, Latch!shadowVars, Latch!mainVars, AsideOfApply
<1>2. NewlyAvailable
  BY <1>1 DEF NewlyAvailable, Latch!ToSet
<1>3. \A bar \in Layers : last[bar] <= last'[bar]
  BY <1>1 DEF LatchTypes
<1> QED
  BY <1>1, <1>2, <1>3, SamePoints, QuietChanges

(* Frames, passes and callbacks leave the changes alone.                    *)
LEMMA FrameChanges ==
  ASSUME LatchTypes, LatchTypes', ShadowInv, ChangesInv,
         \/ Latch!Acquire
         \/ Latch!HandlePageFlip
         \/ Latch!Refresh
         \/ Latch!CommitTransaction
         \/ \E l \in Layers : Latch!RemoveLayer(l) \/ Latch!Callbacks(l)
              \/ \E d \in BOOLEAN : Latch!QueueBuffer(l, d)
  PROVE  ChangesInv'
<1>1. /\ UNCHANGED Latch!stateVars
      /\ pointsAvailable' = pointsAvailable
      /\ dead' = dead
      /\ AsideOfApply
  <2>1. CASE \/ Latch!Acquire
             \/ Latch!HandlePageFlip
             \/ Latch!Refresh
             \/ Latch!CommitTransaction
    BY <2>1
      DEF Latch!Acquire, Latch!HandlePageFlip, Latch!Refresh,
          Latch!CommitTransaction, Latch!pointVars, Latch!lifeVars,
          AsideOfApply
  <2>2. ASSUME NEW l \in Layers, Latch!RemoveLayer(l) \/ Latch!Callbacks(l)
        PROVE  /\ UNCHANGED Latch!stateVars
               /\ pointsAvailable' = pointsAvailable
               /\ dead' = dead
               /\ AsideOfApply
    BY <2>2
      DEF Latch!RemoveLayer, Latch!Callbacks, Latch!OnFrameAvailable,
          Latch!OnFrameReplaced, Latch!FrameCallback, Latch!pointVars,
          Latch!lifeVars, Latch!mainVars, AsideOfApply
  <2>3. ASSUME NEW l \in Layers, NEW d \in BOOLEAN, Latch!QueueBuffer(l, d)
        PROVE  /\ UNCHANGED Latch!stateVars
               /\ pointsAvailable' = pointsAvailable
               /\ dead' = dead
               /\ AsideOfApply
    BY <2>3
      DEF Latch!QueueBuffer, Latch!pointVars, Latch!lifeVars, Latch!mainVars,
          AsideOfApply
  <2> QED
    BY <2>1, <2>2, <2>3
<1>2. Fewer
  <2>1. CASE Latch!Acquire
    <3>1. PICK l \in layerTodo : AcquireShape(l)
      BY <2>1, AcquireShapes
    <3>2. l \in Layers /\ points \in [Layers -> Seq(SyncPoints)]
      BY DEF LatchTypes
    <3>3. UNCHANGED points \/ \E n : Latch!Latch(l, n)
      BY <3>1 DEF AcquireShape
    <3>4. ASSUME NEW n, Latch!Latch(l, n) PROVE Fewer
      BY <3>2, <3>4, LatchPoints DEF Fewer
    <3> QED
      BY <3>3, <3>4, SamePoints
  <2>2. CASE ~Latch!Acquire
    <3>1. points' = points
      BY <2>2
        DEF Latch!HandlePageFlip, Latch!Refresh, Latch!CommitTransaction,
            Latch!RemoveLayer, Latch!Callbacks, Latch!OnFrameAvailable,
            Latch!OnFrameReplaced, Latch!FrameCallback, Latch!QueueBuffer,
            Latch!pointVars
    <3> QED
      BY <3>1, SamePoints
  <2> QED
    BY <2>1, <2>2
<1>3. ASSUME NEW bar \in Layers PROVE last[bar] <= last'[bar]
  <2>1. last \in [Layers -> Nat] /\ calls \in [Layers -> SUBSET FrameCalls]
    BY DEF LatchTypes
  <2>2. CASE last' = last
    BY <2>1, <2>2
  <2>3. ASSUME NEW l \in Layers, Latch!Callbacks(l)
        PROVE  last[bar] <= last'[bar]
    <3>1. PICK call \in calls[l] :
            /\ Latch!FrameCallback(l, call)
            /\ last' = last \/ last' = [last EXCEPT ![l] = call.n]
      BY <2>3
        DEF Latch!Callbacks, Latch!OnFrameAvailable, Latch!OnFrameReplaced
    <3>2. call.n = last[l] + 1
      BY <3>1 DEF Latch!FrameCallback, Latch!InTurn
    <3> QED
      BY <2>1, <3>1, <3>2
  <2>4. ASSUME ~\E l \in Layers : Latch!Callbacks(l)  PROVE last' = last
    BY <2>4
      DEF Latch!Acquire, Latch!HandlePageFlip, Latch!Refresh,
          Latch!CommitTransaction, Latch!RemoveLayer, Latch!QueueBuffer,
          Latch!shadowVars
  <2> QED
    BY <2>2, <2>3, <2>4
<1>4. dead \subseteq dead'
  BY <1>1
<1> QED
  BY <1>1, <1>2, <1>3, <1>4, SameAvailable, QuietChanges

-----------------------------------------------------------------------------
(* The types of the states, layer by layer.                                 *)
LEMMA StateTypes ==
  ASSUME LatchTypes, NEW l \in Layers
  PROVE  /\ pending[l] \in Seq(PendingStates) /\ Len(pending[l]) \in Nat
         /\ DOMAIN pending[l] = 1 .. Len(pending[l])
         /\ \A i \in DOMAIN pending[l] :
              /\ pending[l][i] \in PendingStates
              /\ pending[l][i].change \in Nat
              /\ pending[l][i].hidden \in BOOLEAN
              /\ pending[l][i].masked \in BOOLEAN
         /\ now[l] \in States /\ now[l].change \in Nat
         /\ now[l].hidden \in BOOLEAN /\ now[l].masked \in BOOLEAN
         /\ now[l].modified \in BOOLEAN
         /\ layerDrawn[l].change \in Nat /\ layerDrawn[l].hidden \in BOOLEAN
         /\ commit.change \in Nat /\ commit.hidden \in BOOLEAN
<1>1. pending[l] \in Seq(PendingStates) /\ now[l] \in States
      /\ layerDrawn[l] \in Commits /\ commit \in Commits
  BY DEF LatchTypes
<1>2. \A i \in DOMAIN pending[l] : pending[l][i] \in PendingStates
  BY <1>1
<1>3. \A i \in DOMAIN pending[l] :
        /\ pending[l][i].change \in Nat /\ pending[l][i].hidden \in BOOLEAN
        /\ pending[l][i].masked \in BOOLEAN
  BY <1>2 DEF PendingStates
<1>4. /\ now[l].change \in Nat
      /\ now[l].hidden \in BOOLEAN /\ now[l].masked \in BOOLEAN
      /\ now[l].modified \in BOOLEAN
  BY <1>1 DEF States
<1>5. /\ layerDrawn[l].change \in Nat /\ layerDrawn[l].hidden \in BOOLEAN
      /\ commit.change \in Nat /\ commit.hidden \in BOOLEAN
  BY <1>1 DEF Commits
<1> QED
  BY <1>1, <1>2, <1>3, <1>4, <1>5

(* A step on another layer.                                                 *)
FewerOf(m) == \A bar \in Layers : \A k \in DOMAIN points'[bar] :
  points'[bar][k].by = m =>
    \E i \in DOMAIN points[bar] : points'[bar][k] = points[bar][i]

(* What is said of the changes of a layer does not depend on another's.     *)
LEMMA OtherLayer ==
  ASSUME LatchTypes, LatchTypes', NEW m \in Layers, ChangeInv(m),
         now'[m] = now[m], pending'[m] = pending[m],
         layerDrawn'[m] = layerDrawn[m],
         remote'[m] = remote[m], ~Applying(m), ~Applying(m)',
         FewerOf(m), NewlyAvailable, Onward
  PROVE  ChangeInv(m)'
<1>1. PendingRise(m)'
  BY DEF ChangeInv, PendingRise
<1>2. CommitFollows(m)'
  BY DEF CommitFollows
<1>3. HiddenStays(m)' /\ RemoteFollows(m)'
  BY DEF ChangeInv, HiddenStays, RemoteFollows
<1>4. PointsAtBarrier(m)'
  <2> SUFFICES ASSUME NEW bar \in Layers, NEW k \in DOMAIN points'[bar],
                      NEW i \in DOMAIN pending[m],
                      points'[bar][k] = PointOf(m, pending[m][i]),
                      Barred(pending[m][i])
               PROVE  pending[m][i].barrier = bar
    BY DEF PointsAtBarrier, PointOf, Barred
  <2>1. points'[bar][k].by = m
    BY DEF PointOf
  <2>2. PICK j \in DOMAIN points[bar] : points'[bar][k] = points[bar][j]
    BY <2>1 DEF FewerOf
  <2> QED
    BY <2>2 DEF ChangeInv, PointsAtBarrier
<1>5. ASSUME NEW i \in DOMAIN pending[m], NEW s, s = pending[m][i],
             PointOf(m, s) \in pointsAvailable'
      PROVE  Latch!Come(s)'
  BY <1>5, CameKept DEF ChangeInv
<1>6. AvailableCame(m)'
  BY <1>5 DEF AvailableCame, Latch!Come
<1> QED
  BY <1>1, <1>2, <1>3, <1>4, <1>6 DEF ChangeInv

(* A state pushed follows all that are pending.                             *)
LEMMA PushedOn ==
  ASSUME LatchTypes, NEW l \in Layers, NEW new \in PendingStates,
         pending'[l] = Append(pending[l], new)
  PROVE  /\ Len(pending[l]) \in Nat
         /\ DOMAIN pending[l] = 1 .. Len(pending[l])
         /\ DOMAIN pending'[l] = 1 .. Len(pending[l]) + 1
         /\ pending'[l][Len(pending[l]) + 1] = new
         /\ \A i \in DOMAIN pending[l] :
              i \in DOMAIN pending'[l] /\ pending'[l][i] = pending[l][i]
         /\ \A i \in DOMAIN pending'[l] :
              \/ pending'[l][i] = new
              \/ i \in DOMAIN pending[l] /\ pending'[l][i] = pending[l][i]
<1>1. pending[l] \in Seq(PendingStates)
  BY StateTypes
<1>2. /\ Len(pending[l]) \in Nat /\ DOMAIN pending[l] = 1 .. Len(pending[l])
      /\ DOMAIN pending'[l] = 1 .. Len(pending[l]) + 1
      /\ pending'[l][Len(pending[l]) + 1] = new
      /\ \A i \in DOMAIN pending[l] :
           i \in DOMAIN pending'[l] /\ pending'[l][i] = pending[l][i]
      /\ \A i \in DOMAIN pending'[l] :
           i = Len(pending[l]) + 1 \/ i \in DOMAIN pending[l]
  BY <1>1, Appended
<1>3. ASSUME NEW i \in DOMAIN pending'[l]
      PROVE  \/ pending'[l][i] = new
             \/ i \in DOMAIN pending[l] /\ pending'[l][i] = pending[l][i]
  <2>1. CASE i = Len(pending[l]) + 1
    BY <1>2, <2>1
  <2>2. CASE i \in DOMAIN pending[l]
    BY <1>2, <2>2
  <2> QED
    BY <1>2, <2>1, <2>2
<1>4. \A i \in DOMAIN pending'[l] :
        \/ pending'[l][i] = new
        \/ i \in DOMAIN pending[l] /\ pending'[l][i] = pending[l][i]
  BY <1>3
<1> QED
  BY <1>2, <1>4

(* A state is pushed whose change is later than those pending.              *)
LEMMA PushedRise ==
  ASSUME LatchTypes, LatchTypes', NEW l \in Layers, NEW new \in PendingStates,
         pending'[l] = Append(pending[l], new), layerDrawn'[l] = layerDrawn[l],
         PendingRise(l),
         \A i \in DOMAIN pending[l] : pending[l][i].change < new.change,
         now[l].change <= new.change, new.change <= now'[l].change,
         now'[l].modified => Applying(l)'
  PROVE  PendingRise(l)'
<1> DEFINE size == Len(pending[l])
<1>1. /\ size \in Nat /\ DOMAIN pending[l] = 1 .. size
      /\ DOMAIN pending'[l] = 1 .. size + 1 /\ pending'[l][size + 1] = new
      /\ \A i \in DOMAIN pending[l] : i \in DOMAIN pending'[l]
                                      /\ pending'[l][i] = pending[l][i]
      /\ \A i \in DOMAIN pending'[l] : i = size + 1 \/ i \in DOMAIN pending[l]
  BY StateTypes, Appended
<1> HIDE DEF size
<1>2. /\ layerDrawn[l].change \in Nat
      /\ now[l].change \in Nat
      /\ now'[l].change \in Nat
      /\ new.change \in Nat
      /\ \A i \in DOMAIN pending[l] : pending[l][i].change \in Nat
  BY StateTypes DEF LatchTypes, States, PendingStates
<1>3. layerDrawn[l].change <= new.change
  BY <1>2 DEF PendingRise
<1>4. ASSUME NEW i \in DOMAIN pending'[l], NEW j \in DOMAIN pending'[l], i < j
      PROVE  pending'[l][i].change < pending'[l][j].change
  <2>1. i \in DOMAIN pending[l]
    BY <1>1, <1>4
  <2> QED
    BY <1>1, <1>4, <2>1 DEF PendingRise
<1>5. ASSUME NEW i \in DOMAIN pending'[l]
      PROVE  /\ layerDrawn[l].change <= pending'[l][i].change
             /\ pending'[l][i].change <= now'[l].change
  <2>1. CASE i = size + 1
    BY <1>1, <1>2, <1>3, <2>1
  <2>2. CASE i \in DOMAIN pending[l]
    BY <1>1, <1>2, <2>2 DEF PendingRise
  <2> QED
    BY <1>1, <2>1, <2>2
<1>6. layerDrawn[l].change <= now'[l].change
  BY <1>2, <1>3
<1> QED
  BY <1>4, <1>5, <1>6 DEF PendingRise

(* A state pushed hides no more than the current one.                       *)
LEMMA PushedHidden ==
  ASSUME LatchTypes, NEW l \in Layers, NEW new \in PendingStates,
         pending'[l] = Append(pending[l], new), layerDrawn'[l] = layerDrawn[l],
         HiddenStays(l), now'[l].masked = now'[l].hidden,
         now[l].hidden => now'[l].hidden,
         new.masked = new.hidden, new.hidden => now'[l].hidden
  PROVE  HiddenStays(l)'
<1>1. \A i \in DOMAIN pending'[l] :
        \/ pending'[l][i] = new
        \/ i \in DOMAIN pending[l] /\ pending'[l][i] = pending[l][i]
  BY PushedOn
<1>2. ASSUME NEW i \in DOMAIN pending'[l]
      PROVE  /\ pending'[l][i].masked = pending'[l][i].hidden
             /\ pending'[l][i].hidden => now'[l].hidden
  BY <1>1 DEF HiddenStays
<1> QED
  BY <1>2 DEF HiddenStays

LEMMA RemoteTypes ==
  ASSUME LatchTypes, NEW l \in Layers
  PROVE  /\ remote[l] \in Seq(SyncPoints) /\ Len(remote[l]) \in Nat
         /\ DOMAIN remote[l] = 1 .. Len(remote[l])
         /\ \A k \in DOMAIN remote[l] :
              /\ remote[l][k] \in SyncPoints /\ remote[l][k].change \in Nat
              /\ remote[l][k].frame \in Int
<1>1. remote[l] \in Seq(SyncPoints)
  BY DEF LatchTypes
<1>2. \A k \in DOMAIN remote[l] : remote[l][k] \in SyncPoints
  BY <1>1
<1> QED
  BY <1>1, <1>2 DEF SyncPoints

(* A state pushed without a barrier needs no point.                         *)
LEMMA PushedUnbarred ==
  ASSUME LatchTypes, NEW l \in Layers, NEW new \in PendingStates,
         pending'[l] = Append(pending[l], new), remote'[l] = remote[l],
         ~Barred(new), RemoteFollows(l)
  PROVE  RemoteFollows(l)'
<1>1. /\ \A i \in DOMAIN pending[l] :
           i \in DOMAIN pending'[l] /\ pending'[l][i] = pending[l][i]
      /\ \A i \in DOMAIN pending'[l] :
           \/ pending'[l][i] = new
           \/ i \in DOMAIN pending[l] /\ pending'[l][i] = pending[l][i]
  BY PushedOn
<1>2. \A j, k \in DOMAIN remote'[l] :
        j < k => remote'[l][j].change < remote'[l][k].change
  BY DEF RemoteFollows
<1>3. ASSUME NEW k \in DOMAIN remote'[l]
      PROVE  \E i \in DOMAIN pending'[l] :
               /\ pending'[l][i].barrier # NoLayer
               /\ remote'[l][k] = PointOf(l, pending'[l][i])
  <2>1. PICK i \in DOMAIN pending[l] :
          Barred(pending[l][i]) /\ remote[l][k] = PointOf(l, pending[l][i])
    BY DEF RemoteFollows
  <2> QED
    BY <1>1, <2>1 DEF Barred
<1>4. ASSUME NEW i \in DOMAIN pending'[l], pending'[l][i].barrier # NoLayer
      PROVE  \E k \in DOMAIN remote'[l] :
               remote'[l][k] = PointOf(l, pending'[l][i])
  BY <1>1, <1>4 DEF RemoteFollows, Barred
<1> QED
  BY <1>2, <1>3, <1>4 DEF RemoteFollows, Barred, PointOf

(* A deferred state comes with its point, the last of both.                 *)
LEMMA PushedBarred ==
  ASSUME LatchTypes, NEW l \in Layers, NEW new \in PendingStates,
         pending'[l] = Append(pending[l], new), Barred(new),
         remote'[l] = Append(remote[l], PointOf(l, new)), RemoteFollows(l),
         \A i \in DOMAIN pending[l] : pending[l][i].change < new.change
  PROVE  RemoteFollows(l)'
<1>1. /\ Len(pending[l]) \in Nat
      /\ Len(pending[l]) + 1 \in DOMAIN pending'[l]
      /\ pending'[l][Len(pending[l]) + 1] = new
      /\ \A i \in DOMAIN pending[l] :
           i \in DOMAIN pending'[l] /\ pending'[l][i] = pending[l][i]
      /\ \A i \in DOMAIN pending'[l] :
           \/ pending'[l][i] = new
           \/ i \in DOMAIN pending[l] /\ pending'[l][i] = pending[l][i]
  BY PushedOn
<1> DEFINE point == PointOf(l, new)
           size == Len(remote[l])
<1>2. point \in SyncPoints /\ point.change = new.change /\ new.change \in Nat
  BY DEF PointOf, SyncPoints, PendingStates
<1>3. remote'[l] = Append(remote[l], point)
  OBVIOUS
<1> HIDE DEF point
<1>4. /\ size \in Nat /\ DOMAIN remote[l] = 1 .. size
      /\ DOMAIN remote'[l] = 1 .. size + 1 /\ remote'[l][size + 1] = point
      /\ \A i \in DOMAIN remote[l] :
           i \in DOMAIN remote'[l] /\ remote'[l][i] = remote[l][i]
      /\ \A i \in DOMAIN remote'[l] : i = size + 1 \/ i \in DOMAIN remote[l]
  <2>1. remote[l] \in Seq(SyncPoints)
    BY RemoteTypes
  <2> QED
    BY <1>2, <1>3, <2>1, Appended
<1> HIDE DEF size
<1>5. ASSUME NEW k \in DOMAIN remote[l]
      PROVE  remote[l][k].change < new.change
  <2>1. PICK i \in DOMAIN pending[l] : remote[l][k] = PointOf(l, pending[l][i])
    BY DEF RemoteFollows
  <2>2. remote[l][k].change = pending[l][i].change
    BY <2>1 DEF PointOf
  <2> QED
    BY <2>2
<1>6. ASSUME NEW j \in DOMAIN remote'[l], NEW k \in DOMAIN remote'[l], j < k
      PROVE  remote'[l][j].change < remote'[l][k].change
  <2>1. j \in DOMAIN remote[l]
    BY <1>4, <1>6
  <2>2. CASE k = size + 1
    BY <1>2, <1>4, <1>5, <2>1, <2>2
  <2>3. CASE k \in DOMAIN remote[l]
    BY <1>4, <1>6, <2>1, <2>3 DEF RemoteFollows
  <2> QED
    BY <1>4, <2>2, <2>3
<1>7. ASSUME NEW k \in DOMAIN remote'[l]
      PROVE  \E i \in DOMAIN pending'[l] :
               /\ pending'[l][i].barrier # NoLayer
               /\ remote'[l][k] = PointOf(l, pending'[l][i])
  <2>1. CASE k = size + 1
    BY <1>1, <1>4, <2>1 DEF Barred, point
  <2>2. CASE k \in DOMAIN remote[l]
    <3>1. PICK i \in DOMAIN pending[l] :
            Barred(pending[l][i]) /\ remote[l][k] = PointOf(l, pending[l][i])
      BY <2>2 DEF RemoteFollows
    <3> QED
      BY <1>1, <1>4, <2>2, <3>1 DEF Barred
  <2> QED
    BY <1>4, <2>1, <2>2
<1>8. ASSUME NEW i \in DOMAIN pending'[l], pending'[l][i].barrier # NoLayer
      PROVE  \E k \in DOMAIN remote'[l] :
               remote'[l][k] = PointOf(l, pending'[l][i])
  <2>1. CASE pending'[l][i] = new
    <3>1. size + 1 \in DOMAIN remote'[l]
      BY <1>4
    <3> QED
      BY <1>4, <2>1, <3>1 DEF point
  <2>2. CASE i \in DOMAIN pending[l] /\ pending'[l][i] = pending[l][i]
    <3>1. PICK k \in DOMAIN remote[l] :
            remote[l][k] = PointOf(l, pending[l][i])
      BY <1>8, <2>2 DEF RemoteFollows, Barred
    <3> QED
      BY <1>4, <2>2, <3>1
  <2> QED
    BY <1>1, <2>1, <2>2
<1> QED
  BY <1>6, <1>7, <1>8 DEF RemoteFollows, Barred, PointOf

(* The new point sits at the barrier of the new state.                      *)
LEMMA PushedPoints ==
  ASSUME LatchTypes, NEW l \in Layers, NEW new \in PendingStates,
         pending'[l] = Append(pending[l], new),
         PointsKnown, PointsAtBarrier(l),
         \/ ~Barred(new) /\ points' = points
         \/ /\ now[l].change < new.change
            /\ \A i \in DOMAIN pending[l] : pending[l][i].change < new.change
            /\ \E bar \in Layers : /\ new.barrier = bar
                 /\ points' =
                      [points EXCEPT ![bar] = Append(@, PointOf(l, new))]
  PROVE  PointsAtBarrier(l)'
<1> SUFFICES ASSUME NEW c \in Layers, NEW k \in DOMAIN points'[c],
                    NEW i \in DOMAIN pending'[l],
                    points'[c][k] = PointOf(l, pending'[l][i]),
                    pending'[l][i].barrier # NoLayer
             PROVE  pending'[l][i].barrier = c
  BY DEF PointsAtBarrier, PointOf, Barred
<1>1. \/ pending'[l][i] = new
      \/ i \in DOMAIN pending[l] /\ pending'[l][i] = pending[l][i]
  BY PushedOn
<1>2. CASE ~Barred(new) /\ points' = points
  BY <1>1, <1>2 DEF PointsAtBarrier, Barred
<1>3. ASSUME now[l].change < new.change,
             \A j \in DOMAIN pending[l] : pending[l][j].change < new.change,
             NEW bar \in Layers, new.barrier = bar,
             points' = [points EXCEPT ![bar] = Append(@, PointOf(l, new))]
      PROVE  pending'[l][i].barrier = c
  <2> DEFINE point == PointOf(l, new)
  <2>1. /\ point \in SyncPoints /\ point.change = new.change
        /\ new.change \in Nat /\ points[c] \in Seq(SyncPoints)
        /\ now[l].change \in Nat
    BY StateTypes, PointTypes DEF PointOf, SyncPoints, PendingStates
  <2>2. points \in [Layers -> Seq(SyncPoints)]
    BY DEF LatchTypes
  <2>3. pending'[l][i].change # new.change => i \in DOMAIN pending[l]
    BY <1>1
  <2>4. points'[c][k] = point => c = bar
        \/ (k \in DOMAIN points[c] /\ points[c][k] = points'[c][k])
    BY <1>3, <2>2
  <2>5. \/ k \in DOMAIN points[c] /\ points[c][k] = points'[c][k]
        \/ c = bar /\ points'[c][k] = point
    <3> HIDE DEF point
    <3>1. CASE c = bar
      <4>1. points'[c] = Append(points[c], point)
        BY <1>3, <2>2, <3>1 DEF point
      <4>2. /\ points'[c][Len(points[c]) + 1] = point
            /\ \A j \in DOMAIN points[c] : points'[c][j] = points[c][j]
        BY <2>1, <4>1, Appended
      <4>3. \A j \in DOMAIN points'[c] :
              j = Len(points[c]) + 1 \/ j \in DOMAIN points[c]
        BY <2>1, <4>1, Appended
      <4> QED
        BY <3>1, <4>2, <4>3
    <3>2. CASE c # bar
      BY <1>3, <2>2, <3>2
    <3> QED
      BY <3>1, <3>2
  <2>6. CASE k \in DOMAIN points[c] /\ points[c][k] = points'[c][k]
    <3>1. CASE pending'[l][i] = new
      <4>1. points[c][k].by = l /\ points[c][k].change = new.change
        BY <2>6, <3>1 DEF PointOf
      <4>2. points[c][k].change <= now[l].change
        BY <2>6, <4>1 DEF PointsKnown
      <4> QED
        BY <1>3, <2>1, <4>1, <4>2
    <3>2. CASE i \in DOMAIN pending[l] /\ pending'[l][i] = pending[l][i]
      BY <2>6, <3>2 DEF PointsAtBarrier, Barred
    <3> QED
      BY <1>1, <3>1, <3>2
  <2>7. CASE c = bar /\ points'[c][k] = point
    <3>1. pending'[l][i].change = new.change
      BY <2>7 DEF PointOf
    <3>2. CASE pending'[l][i] = new
      BY <1>3, <2>7, <3>2
    <3>3. CASE i \in DOMAIN pending[l] /\ pending'[l][i] = pending[l][i]
      <4>1. pending[l][i].change < new.change /\ pending[l][i].change \in Nat
        BY <1>3, <3>3, StateTypes
      <4> QED
        BY <2>1, <3>1, <3>3, <4>1
    <3> QED
      BY <1>1, <3>2, <3>3
  <2> QED
    BY <2>5, <2>6, <2>7
<1> QED
  BY <1>2, <1>3

(* The point of a new state is later than all that are available.           *)
LEMMA PushedCame ==
  ASSUME LatchTypes, LatchTypes', NEW l \in Layers, NEW new \in PendingStates,
         pending'[l] = Append(pending[l], new),
         PointsKnown, PointsAtBarrier(l), AvailableCame(l),
         Barred(new) => now[l].change < new.change,
         pointsAvailable' = pointsAvailable, last' = last, dead' = dead,
         layerDrawn' = layerDrawn
  PROVE  AvailableCame(l)'
<1>1. Onward
  BY DEF Onward, LatchTypes
<1>2. NewlyAvailable
  BY SameAvailable
<1>3. ASSUME NEW i \in DOMAIN pending'[l], NEW s, s = pending'[l][i],
             PointOf(l, s) \in pointsAvailable'
      PROVE  Latch!Come(s)'
  <2>1. CASE i \in DOMAIN pending[l] /\ s = pending[l][i]
    BY <1>1, <1>2, <1>3, <2>1, CameKept
  <2>2. CASE s = new
    <3>1. CASE new.barrier = NoLayer
      BY <2>2, <3>1 DEF Latch!Come
    <3>2. CASE new.barrier # NoLayer
      <4>1. PointOf(l, new) \in pointsAvailable
        BY <1>3, <2>2
      <4>2. PointOf(l, new).change <= now[PointOf(l, new).by].change
        BY <4>1 DEF PointsKnown
      <4>3. new.change <= now[l].change
        BY <4>2 DEF PointOf
      <4>4. new.change \in Nat /\ now[l].change \in Nat
        BY StateTypes DEF PendingStates
      <4> QED
        BY <3>2, <4>3, <4>4 DEF Barred
    <3> QED
      BY <3>1, <3>2
  <2>3. \/ pending'[l][i] = new
        \/ i \in DOMAIN pending[l] /\ pending'[l][i] = pending[l][i]
    BY PushedOn
  <2> QED
    BY <1>3, <2>1, <2>2, <2>3
<1> SUFFICES ASSUME NEW i \in DOMAIN pending'[l],
                    PointOf(l, pending'[l][i]) \in pointsAvailable',
                    pending'[l][i].barrier # NoLayer
             PROVE  \/ pending'[l][i].frame <= last'[pending'[l][i].barrier]
                    \/ pending'[l][i].barrier \in dead'
                    \/ layerDrawn'[pending'[l][i].barrier].hidden
  BY DEF AvailableCame, PointOf, Latch!Come
<1>4. PICK t : t = pending'[l][i]
  OBVIOUS
<1>5. PointOf(l, t) \in pointsAvailable'
  BY <1>4
<1>6. Latch!Come(t)'
  BY <1>3, <1>4, <1>5
<1> QED
  BY <1>4, <1>6 DEF Latch!Come

(* What a transaction of a layer comes to.                                  *)
Transacted(l, state) ==
  \/ /\ now' = [now EXCEPT ![l] = state]
     /\ UNCHANGED <<pending, remote, points>>
  \/ /\ now' = [now EXCEPT ![l] = [state EXCEPT !.modified = FALSE]]
     /\ \E f \in Int : \/ /\ Latch!Push(l, state, NoLayer, f)
                          /\ UNCHANGED <<remote, points>>
                       \/ \E bar \in Layers :
                            LET point == [by |-> l, change |-> state.change,
                                          frame |-> f]
                            IN /\ Latch!Push(l, state, bar, f)
                               /\ remote' =
                                    [remote EXCEPT ![l] = Append(@, point)]
                               /\ points' =
                                    [points EXCEPT ![bar] = Append(@, point)]

(* A transaction makes a change, pushed and deferred or not.                *)
LEMMA TransactShape ==
  ASSUME LatchTypes, NEW l \in Layers, NEW hide \in BOOLEAN,
         Latch!Transact(l, hide)
  PROVE  \E state \in States :
           /\ state.change = now[l].change + 1 /\ state.modified = TRUE
           /\ now[l].masked = now[l].hidden => state.masked = state.hidden
           /\ now[l].hidden => state.hidden
           /\ Transacted(l, state)
<1> DEFINE state == [change |-> now[l].change + 1,
                     hidden |-> now[l].hidden \/ hide,
                     masked |-> now[l].masked \/ hide, modified |-> TRUE]
<1>1. state \in States
  BY DEF LatchTypes, States
<1>2. /\ state.change = now[l].change + 1 /\ state.modified = TRUE
      /\ now[l].masked = now[l].hidden => state.masked = state.hidden
      /\ now[l].hidden => state.hidden
  OBVIOUS
<1>3. \/ /\ now' = [now EXCEPT ![l] = state]
         /\ UNCHANGED <<pending, remote, points>>
      \/ \E bar \in Layers : \E ahead \in plot.ahead :
           Latch!DeferTransactionUntil(l, state, bar, next[bar] + ahead)
  BY DEF Latch!Transact
<1> HIDE DEF state
<1>4. ASSUME NEW bar \in Layers, NEW ahead \in plot.ahead,
             Latch!DeferTransactionUntil(l, state, bar, next[bar] + ahead)
      PROVE  Transacted(l, state)
  <2>1. next[bar] + ahead \in Int
    <3>1. plot \in Plots /\ next[bar] \in Nat
      BY DEF LatchTypes
    <3> QED
      BY <3>1, PlotTypes
  <2>2. now' = [now EXCEPT ![l] = [state EXCEPT !.modified = FALSE]]
    BY <1>4 DEF Latch!DeferTransactionUntil
  <2>3. CASE Latch!TooLate(bar, next[bar] + ahead)
    <3>1. /\ Latch!Push(l, state, NoLayer, next[bar] + ahead)
          /\ UNCHANGED <<remote, points>>
      BY <1>4, <2>3 DEF Latch!DeferTransactionUntil
    <3> QED
      BY <2>1, <2>2, <3>1 DEF Transacted
  <2>4. CASE ~Latch!TooLate(bar, next[bar] + ahead)
    BY <1>4, <2>1, <2>2, <2>4 DEF Latch!DeferTransactionUntil, Transacted
  <2> QED
    BY <2>3, <2>4
<1>5. Transacted(l, state)
  BY <1>3, <1>4 DEF Transacted
<1> QED
  BY <1>1, <1>2, <1>5

(* It leaves the changes of the other layers alone,                         *)
LEMMA TransactedOthers ==
  ASSUME LatchTypes, LatchTypes', NEW l \in Layers, NEW state \in States,
         Transacted(l, state), state.change = now[l].change + 1
  PROVE  /\ \A m \in Layers \ {l} :
              /\ now'[m] = now[m] /\ pending'[m] = pending[m]
              /\ remote'[m] = remote[m] /\ FewerOf(m)
         /\ now'[l] = state \/ now'[l] = [state EXCEPT !.modified = FALSE]
         /\ now'[l].change = now[l].change + 1
         /\ \A m \in Layers : now[m].change <= now'[m].change
         /\ \A bar \in Layers : \A k \in DOMAIN points'[bar] :
              \/ \E i \in DOMAIN points[bar] : points'[bar][k] = points[bar][i]
              \/ /\ points'[bar][k].by = l
                 /\ points'[bar][k].change = state.change
<1>1. /\ now \in [Layers -> States]
      /\ pending \in [Layers -> Seq(PendingStates)]
      /\ remote \in [Layers -> Seq(SyncPoints)]
      /\ points \in [Layers -> Seq(SyncPoints)]
  BY DEF LatchTypes
<1>2. /\ \A m \in Layers \ {l} : now'[m] = now[m]
      /\ now'[l] = state \/ now'[l] = [state EXCEPT !.modified = FALSE]
  BY <1>1 DEF Transacted
<1>3. now'[l].change = now[l].change + 1
  BY <1>2 DEF States
<1>4. ASSUME NEW m \in Layers PROVE now[m].change <= now'[m].change
  <2>1. now[m].change \in Nat
    BY StateTypes
  <2> QED
    BY <1>2, <1>3, <2>1
<1>5. \A m \in Layers \ {l} :
        pending'[m] = pending[m] /\ remote'[m] = remote[m]
  BY <1>1 DEF Transacted, Latch!Push
<1>6. ASSUME NEW bar \in Layers, NEW k \in DOMAIN points'[bar]
      PROVE  \/ \E i \in DOMAIN points[bar] : points'[bar][k] = points[bar][i]
             \/ points'[bar][k].by = l /\ points'[bar][k].change = state.change
  <2>1. CASE points' = points
    BY <2>1
  <2>2. ASSUME NEW c \in Layers, NEW point \in SyncPoints, point.by = l,
               point.change = state.change,
               points' = [points EXCEPT ![c] = Append(@, point)]
        PROVE  \/ \E i \in DOMAIN points[bar] :
                    points'[bar][k] = points[bar][i]
               \/ /\ points'[bar][k].by = l
                  /\ points'[bar][k].change = state.change
    <3>1. CASE bar = c
      <4>1. /\ points'[bar] = Append(points[bar], point)
            /\ points[bar] \in Seq(SyncPoints)
        BY <1>1, <2>2, <3>1
      <4>2. /\ points'[bar][Len(points[bar]) + 1] = point
            /\ \A j \in DOMAIN points[bar] : points'[bar][j] = points[bar][j]
            /\ k = Len(points[bar]) + 1 \/ k \in DOMAIN points[bar]
        BY <4>1, Appended
      <4> QED
        BY <2>2, <4>2
    <3>2. CASE bar # c
      BY <1>1, <2>2, <3>2
    <3> QED
      BY <3>1, <3>2
  <2>3. CASE points' # points
    <3>1. PICK f \in Int : \E c \in Layers :
            points' = [points EXCEPT ![c] =
              Append(@, [by |-> l, change |-> state.change, frame |-> f])]
      BY <2>3 DEF Transacted
    <3>2. [by |-> l, change |-> state.change, frame |-> f] \in SyncPoints
      BY DEF SyncPoints, States
    <3> QED
      BY <2>2, <3>1, <3>2
  <2> QED
    BY <2>1, <2>3
<1>7. \A m \in Layers \ {l} : FewerOf(m)
  BY <1>6 DEF FewerOf
<1> QED
  BY <1>2, <1>3, <1>4, <1>5, <1>6, <1>7

(* is later than all of its layer's,                                        *)
LEMMA TransactedRise ==
  ASSUME LatchTypes, LatchTypes', ChangesInv, NEW l \in Layers,
         NEW state \in States, Transacted(l, state), ~Applying(l)',
         ~Applying(l),
         state.change = now[l].change + 1, layerDrawn' = layerDrawn
  PROVE  PendingRise(l)'
<1>1. ChangeInv(l) /\ PendingRise(l)
  BY DEF ChangesInv, ChangeInv
<1>2. /\ now[l].change \in Nat
      /\ \A i \in DOMAIN pending[l] : pending[l][i].change \in Nat
      /\ layerDrawn[l].change \in Nat
  BY StateTypes
<1>3. now'[l].change = now[l].change + 1
  BY TransactedOthers
<1>4. CASE /\ now' = [now EXCEPT ![l] = state]
           /\ UNCHANGED <<pending, remote, points>>
  BY <1>1, <1>2, <1>3, <1>4 DEF PendingRise
<1>5. ASSUME now' = [now EXCEPT ![l] = [state EXCEPT !.modified = FALSE]],
             NEW bar \in Layers \cup {NoLayer}, NEW f \in Int,
             Latch!Push(l, state, bar, f)
      PROVE  PendingRise(l)'
  <2> DEFINE new == [change |-> state.change, hidden |-> state.hidden,
                     masked |-> state.masked, barrier |-> bar, frame |-> f]
  <2>1. new \in PendingStates
    BY <1>5, PushTypes
  <2>2. pending'[l] = Append(pending[l], new)
    BY <1>5 DEF Latch!Push, LatchTypes
  <2>3. new.change = now[l].change + 1
    OBVIOUS
  <2> HIDE DEF new
  <2>4. now'[l].modified = FALSE
    BY <1>5 DEF LatchTypes, States
  <2>5. /\ \A i \in DOMAIN pending[l] : pending[l][i].change < new.change
        /\ now[l].change <= new.change /\ new.change <= now'[l].change
    BY <1>1, <1>2, <1>3, <2>3 DEF PendingRise
  <2>6. now'[l].modified => Applying(l)'
    BY <2>4
  <2> QED
    BY <1>1, <2>1, <2>2, <2>5, <2>6, PushedRise
<1> QED
  BY <1>4, <1>5 DEF Transacted

(* and its point is of a change that was made.                              *)
LEMMA TransactedKnown ==
  ASSUME LatchTypes, LatchTypes', ChangesInv, NEW l \in Layers,
         NEW state \in States, Transacted(l, state),
         state.change = now[l].change + 1, pointsAvailable' = pointsAvailable
  PROVE  PointsKnown'
<1>1. /\ now'[l].change = state.change
      /\ \A m \in Layers : now[m].change <= now'[m].change
      /\ \A bar \in Layers : \A k \in DOMAIN points'[bar] :
           \/ \E i \in DOMAIN points[bar] : points'[bar][k] = points[bar][i]
           \/ points'[bar][k].by = l /\ points'[bar][k].change = state.change
  BY TransactedOthers
<1>2. \A m \in Layers : now[m].change \in Nat /\ now'[m].change \in Nat
  BY DEF LatchTypes, States
<1>3. ASSUME NEW p \in SyncPoints, p.change <= now[p.by].change
      PROVE  p.change <= now'[p.by].change
  BY <1>1, <1>2, <1>3 DEF SyncPoints
<1>4. ASSUME NEW bar \in Layers, NEW k \in DOMAIN points'[bar]
      PROVE  points'[bar][k].change <= now'[points'[bar][k].by].change
  <2>1. ASSUME NEW i \in DOMAIN points[bar], points'[bar][k] = points[bar][i]
        PROVE  points'[bar][k].change <= now'[points'[bar][k].by].change
    <3>1. points[bar][i] \in SyncPoints
      BY PointTypes
    <3>2. points[bar][i].change <= now[points[bar][i].by].change
      BY DEF ChangesInv, PointsKnown
    <3> QED
      BY <1>3, <2>1, <3>1, <3>2
  <2>2. CASE points'[bar][k].by = l /\ points'[bar][k].change = state.change
    BY <1>1, <1>2, <2>2
  <2> QED
    BY <1>1, <2>1, <2>2
<1>5. ASSUME NEW p \in pointsAvailable' PROVE p.change <= now'[p.by].change
  BY <1>3 DEF ChangesInv, PointsKnown, LatchTypes
<1> QED
  BY <1>4, <1>5 DEF PointsKnown

LEMMA TransactedLayer ==
  ASSUME LatchTypes, LatchTypes', ChangesInv, NEW l \in Layers,
         NEW state \in States, Transacted(l, state), ~Applying(l),
         ~Applying(l)',
         state.change = now[l].change + 1, state.masked = state.hidden,
         now[l].hidden => state.hidden,
         layerDrawn' = layerDrawn, pointsAvailable' = pointsAvailable,
         last' = last, dead' = dead
  PROVE  ChangeInv(l)'
<1>1. /\ PendingRise(l) /\ HiddenStays(l) /\ RemoteFollows(l)
      /\ PointsAtBarrier(l) /\ AvailableCame(l) /\ PointsKnown
  BY DEF ChangesInv, ChangeInv
<1>2. /\ now'[l].hidden = state.hidden /\ now'[l].masked = state.hidden
  <2>1. now'[l] = state \/ now'[l] = [state EXCEPT !.modified = FALSE]
    BY TransactedOthers
  <2> QED
    BY <2>1 DEF States
<1>3. PendingRise(l)' /\ CommitFollows(l)'
  BY TransactedRise DEF CommitFollows
<1>4. CASE UNCHANGED <<pending, remote, points>>
  <2>1. HiddenStays(l)'
    BY <1>1, <1>2, <1>4 DEF HiddenStays
  <2>2. RemoteFollows(l)' /\ PointsAtBarrier(l)'
    BY <1>1, <1>4 DEF RemoteFollows, PointsAtBarrier
  <2>3. AvailableCame(l)'
    BY <1>1, <1>4 DEF AvailableCame, Latch!Come
  <2> QED
    BY <1>3, <2>1, <2>2, <2>3 DEF ChangeInv
<1>5. ASSUME NEW bar \in Layers \cup {NoLayer}, NEW f \in Int,
             Latch!Push(l, state, bar, f),
             \/ bar = NoLayer /\ UNCHANGED <<remote, points>>
             \/ bar \in Layers /\
                LET point == [by |-> l, change |-> state.change, frame |-> f]
                IN /\ remote' = [remote EXCEPT ![l] = Append(@, point)]
                   /\ points' = [points EXCEPT ![bar] = Append(@, point)]
      PROVE  ChangeInv(l)'
  <2> DEFINE new == [change |-> state.change, hidden |-> state.hidden,
                     masked |-> state.masked, barrier |-> bar, frame |-> f]
  <2>1. new \in PendingStates
    BY <1>5, PushTypes
  <2>2. pending'[l] = Append(pending[l], new)
    BY <1>5 DEF Latch!Push, LatchTypes
  <2>3. /\ new.change = now[l].change + 1 /\ new.barrier = bar
        /\ new.hidden = state.hidden /\ new.masked = state.hidden
    OBVIOUS
  <2>4. PointOf(l, new) = [by |-> l, change |-> state.change, frame |-> f]
    BY DEF PointOf
  <2> HIDE DEF new
  <2>5. /\ \A i \in DOMAIN pending[l] : pending[l][i].change < new.change
        /\ now[l].change < new.change
    <3>1. /\ now[l].change \in Nat
          /\ \A i \in DOMAIN pending[l] : pending[l][i].change \in Nat
      BY StateTypes
    <3> QED
      BY <1>1, <2>3, <3>1 DEF PendingRise
  <2>6. HiddenStays(l)'
    BY <1>1, <1>2, <2>1, <2>2, <2>3, PushedHidden
  <2>7. AvailableCame(l)'
    BY <1>1, <2>1, <2>2, <2>5, PushedCame
  <2>8. CASE bar = NoLayer /\ UNCHANGED <<remote, points>>
    <3>1. ~Barred(new)
      BY <2>3, <2>8 DEF Barred
    <3>2. RemoteFollows(l)'
      BY <1>1, <2>1, <2>2, <2>8, <3>1, PushedUnbarred
    <3>3. PointsAtBarrier(l)'
      BY <1>1, <2>1, <2>2, <2>8, <3>1, PushedPoints
    <3> QED
      BY <1>3, <2>6, <2>7, <3>2, <3>3 DEF ChangeInv
  <2>9. CASE /\ bar \in Layers
             /\ remote' = [remote EXCEPT ![l] = Append(@, PointOf(l, new))]
             /\ points' = [points EXCEPT ![bar] = Append(@, PointOf(l, new))]
    <3>1. Barred(new)
      BY <2>3, <2>9, DisplayConstants DEF Barred, Latch!LatchConstants
    <3>2. remote'[l] = Append(remote[l], PointOf(l, new))
      BY <2>9 DEF LatchTypes
    <3>3. RemoteFollows(l)'
      BY <1>1, <2>1, <2>2, <2>5, <3>1, <3>2, PushedBarred
    <3>4. PointsAtBarrier(l)'
      BY <1>1, <2>1, <2>2, <2>3, <2>5, <2>9, PushedPoints
    <3> QED
      BY <1>3, <2>6, <2>7, <3>3, <3>4 DEF ChangeInv
  <2> QED
    BY <1>5, <2>4, <2>8, <2>9
<1> QED
  BY <1>4, <1>5 DEF Transacted

(* So transactions keep what is said of changes.                            *)
LEMMA TransactChanges ==
  ASSUME LatchTypes, LatchTypes', ChangesInv, NEW l \in Layers,
         NEW hide \in BOOLEAN, Latch!Transact(l, hide)
  PROVE  ChangesInv'
<1>1. /\ layerMain \notin {"transaction", "apply"} /\ layerMain' = layerMain
      /\ layerDrawn' = layerDrawn
      /\ pointsAvailable' = pointsAvailable
      /\ last' = last
      /\ dead' = dead
  BY DEF Latch!Transact, Latch!StateLockFree, Latch!mainVars,
       Latch!shadowVars, Latch!lifeVars
<1>2. \A m \in Layers : ~Applying(m) /\ ~Applying(m)'
  BY <1>1 DEF Applying
<1>3. PICK state \in States :
        /\ state.change = now[l].change + 1
        /\ now[l].masked = now[l].hidden => state.masked = state.hidden
        /\ now[l].hidden => state.hidden
        /\ Transacted(l, state)
  BY TransactShape
<1>4. PointsKnown'
  BY <1>1, <1>3, TransactedKnown
<1>5. state.masked = state.hidden
  BY <1>3 DEF ChangesInv, ChangeInv, HiddenStays
<1>6. ChangeInv(l)'
  BY <1>1, <1>2, <1>3, <1>5, TransactedLayer
<1>7. Onward
  BY <1>1 DEF Onward, LatchTypes
<1>8. NewlyAvailable
  BY <1>1, SameAvailable
<1>9. ASSUME NEW m \in Layers, m # l  PROVE ChangeInv(m)'
  <2>1. /\ now'[m] = now[m] /\ pending'[m] = pending[m]
        /\ remote'[m] = remote[m] /\ FewerOf(m)
    BY <1>3, <1>9, TransactedOthers
  <2>2. layerDrawn'[m] = layerDrawn[m] /\ ChangeInv(m)
    BY <1>1 DEF ChangesInv
  <2> QED
    BY <1>2, <1>7, <1>8, <2>1, <2>2, OtherLayer
<1> QED
  BY <1>4, <1>6, <1>9 DEF ChangesInv

(* doTransaction pushes the current state, if it was modified.              *)
LEMMA PushStateChanges ==
  ASSUME LatchTypes, LatchTypes', ChangesInv, Latch!PushPendingState
  PROVE  ChangesInv'
<1>1. /\ layerMain = "transaction"
      /\ layerMain' = "apply"
      /\ layerTodo' = layerTodo
      /\ now' = now
      /\ layerDrawn' = layerDrawn
      /\ remote' = remote
      /\ points' = points
      /\ pointsAvailable' = pointsAvailable /\ last' = last /\ dead' = dead
      /\ updated' = FALSE
  BY DEF Latch!PushPendingState, Latch!pointVars, Latch!shadowVars,
       Latch!lifeVars
<1>2. PICK l \in layerTodo :
        /\ Latch!AtTurn(l)
        /\ commit' = [change |-> now[l].change, hidden |-> now[l].hidden]
        /\ IF now[l].modified THEN Latch!Push(l, now[l], NoLayer, 0)
           ELSE UNCHANGED pending
  BY DEF Latch!PushPendingState
<1>3. l \in Layers
  BY DEF LatchTypes
<1>4. \A m \in Layers : ~Applying(m) /\ (Applying(m)' => Latch!AtTurn(m))
  BY <1>1 DEF Applying, Latch!AtTurn, Latch!Behind
<1>5. Applying(l)'
  BY <1>1, <1>2 DEF Applying, Latch!AtTurn, Latch!Behind
<1>6. Onward /\ NewlyAvailable /\ Fewer
  BY <1>1, SameAvailable, SamePoints DEF Onward, LatchTypes
<1>7. PointsKnown'
  BY <1>1 DEF ChangesInv, PointsKnown
<1>8. ASSUME NEW m \in Layers, m # l PROVE ChangeInv(m)'
  <2>1. ~Applying(m)'
    BY <1>2, <1>3, <1>4, <1>8, OneAtTurn
  <2>2. pending'[m] = pending[m]
    BY <1>2, <1>8 DEF Latch!Push, LatchTypes
  <2>3. FewerOf(m)
    BY <1>6 DEF Fewer, FewerOf
  <2>4. ChangeInv(m)
    BY DEF ChangesInv
  <2> QED
    BY <1>1, <1>4, <1>6, <2>1, <2>2, <2>3, <2>4, OtherLayer
<1>9. ChangeInv(l)'
  <2>1. /\ PendingRise(l) /\ HiddenStays(l) /\ RemoteFollows(l)
        /\ PointsAtBarrier(l) /\ AvailableCame(l) /\ PointsKnown
    BY <1>3 DEF ChangesInv, ChangeInv
  <2>2. /\ commit'.change = now[l].change /\ commit'.hidden = now[l].hidden
        /\ now[l].change \in Nat /\ now[l].modified \in BOOLEAN
    BY <1>2, <1>3, StateTypes
  <2>3. CommitFollows(l)'
    BY <1>1, <2>2 DEF CommitFollows
  <2>4. CASE ~now[l].modified
    <3>1. pending' = pending
      BY <1>2, <2>4
    <3>2. PendingRise(l)'
      BY <1>1, <2>1, <3>1, <2>4 DEF PendingRise
    <3>3. HiddenStays(l)' /\ RemoteFollows(l)' /\ PointsAtBarrier(l)'
      BY <1>1, <2>1, <3>1 DEF HiddenStays, RemoteFollows, PointsAtBarrier
    <3>4. AvailableCame(l)'
      BY <1>1, <2>1, <3>1 DEF AvailableCame, Latch!Come
    <3> QED
      BY <2>3, <3>2, <3>3, <3>4 DEF ChangeInv
  <2>5. CASE now[l].modified
    <3> DEFINE new == [change |-> now[l].change, hidden |-> now[l].hidden,
                       masked |-> now[l].masked, barrier |-> NoLayer,
                       frame |-> 0]
    <3>1. Latch!Push(l, now[l], NoLayer, 0) /\ now[l] \in States
      BY <1>2, <1>3, <2>5 DEF LatchTypes
    <3>2. new \in PendingStates
      <4>1. NoLayer \in Layers \cup {NoLayer} /\ 0 \in Int
        OBVIOUS
      <4> HIDE DEF new
      <4> QED
        BY <1>3, <3>1, <4>1, PushTypes DEF new
    <3>3. pending'[l] = Append(pending[l], new)
      BY <1>3, <3>1 DEF Latch!Push, LatchTypes
    <3>4. /\ new.change = now[l].change /\ new.barrier = NoLayer
          /\ new.hidden = now[l].hidden /\ new.masked = now[l].masked
      OBVIOUS
    <3> HIDE DEF new
    <3>5. ~Barred(new)
      BY <3>4 DEF Barred
    <3>6. \A i \in DOMAIN pending[l] : pending[l][i].change < new.change
      BY <1>3, <1>4, <2>1, <2>5, <3>4 DEF PendingRise
    <3>7. PendingRise(l)'
      BY <1>1, <1>3, <1>5, <2>1, <2>2, <3>2, <3>3, <3>4, <3>6, PushedRise
    <3>8. HiddenStays(l)'
      BY <1>1, <1>3, <2>1, <3>2, <3>3, <3>4, PushedHidden DEF HiddenStays
    <3>9. RemoteFollows(l)' /\ PointsAtBarrier(l)'
      BY <1>1, <1>3, <2>1, <3>2, <3>3, <3>5, PushedUnbarred, PushedPoints
    <3>10. AvailableCame(l)'
      BY <1>1, <1>3, <2>1, <3>2, <3>3, <3>5, PushedCame
    <3> QED
      BY <2>3, <3>7, <3>8, <3>9, <3>10 DEF ChangeInv
  <2> QED
    BY <2>2, <2>4, <2>5
<1> QED
  BY <1>7, <1>8, <1>9 DEF ChangesInv

(* The tail of a sequence has its elements one place earlier.               *)
LEMMA Popped ==
  ASSUME NEW S, NEW s \in Seq(S), s # <<>>, NEW t, t = Tail(s)
  PROVE  /\ DOMAIN s = 1 .. Len(s) /\ Len(s) \in Nat \ {0} /\ 1 \in DOMAIN s
         /\ DOMAIN t = 1 .. Len(s) - 1 /\ Len(t) = Len(s) - 1
         /\ \A i \in DOMAIN t : i + 1 \in DOMAIN s /\ t[i] = s[i + 1]
         /\ \A i \in DOMAIN s : i # 1 => i - 1 \in DOMAIN t /\ t[i - 1] = s[i]
<1>1. Len(s) \in Nat /\ DOMAIN s = 1 .. Len(s)
  OBVIOUS
<1>2. Len(s) # 0
  OBVIOUS
<1>3. t \in Seq(S) /\ Len(t) = Len(s) - 1
  BY <1>1, <1>2
<1>4. \A i \in 1 .. Len(s) - 1 : t[i] = s[i + 1]
  BY <1>1, <1>2
<1>5. DOMAIN t = 1 .. Len(s) - 1
  BY <1>3
<1> QED
  BY <1>1, <1>2, <1>3, <1>4, <1>5

(* The first point is that of the first state with a barrier.               *)
LEMMA HeadPoint ==
  ASSUME LatchTypes, NEW l \in Layers, ChangeInv(l), pending[l] # <<>>,
         Barred(pending[l][1])
  PROVE  /\ remote[l] # <<>> /\ remote[l][1] = PointOf(l, pending[l][1])
         /\ ~Latch!Unbarred(l) /\ ~Latch!Astray(l)
<1>1. 1 \in DOMAIN pending[l] /\ DOMAIN pending[l] = 1 .. Len(pending[l])
  BY StateTypes, Popped
<1>2. PICK k \in DOMAIN remote[l] : remote[l][k] = PointOf(l, pending[l][1])
  BY <1>1 DEF ChangeInv, RemoteFollows
<1>3. /\ remote[l] \in Seq(SyncPoints) /\ Len(remote[l]) \in Nat
      /\ DOMAIN remote[l] = 1 .. Len(remote[l])
  BY RemoteTypes
<1>4. 1 \in DOMAIN remote[l] /\ remote[l] # <<>>
  BY <1>2, <1>3
<1>5. PICK i \in DOMAIN pending[l] : remote[l][1] = PointOf(l, pending[l][i])
  BY <1>4 DEF ChangeInv, RemoteFollows
<1>6. k = 1
  <2>1. /\ remote[l][k].change = pending[l][1].change
        /\ remote[l][1].change = pending[l][i].change
    BY <1>2, <1>5 DEF PointOf
  <2>2. /\ pending[l][1].change \in Nat /\ pending[l][i].change \in Nat
    BY <1>1, StateTypes
  <2>3. i = 1 \/ pending[l][1].change < pending[l][i].change
    BY <1>1 DEF ChangeInv, PendingRise
  <2>4. k = 1 \/ remote[l][1].change < remote[l][k].change
    <3>1. k = 1 \/ 1 < k
      BY <1>3
    <3> QED
      BY <1>4, <3>1 DEF ChangeInv, RemoteFollows
  <2> QED
    BY <2>1, <2>2, <2>3, <2>4
<1>7. remote[l][1] = PointOf(l, pending[l][1])
  BY <1>2, <1>6
<1> QED
  BY <1>4, <1>7 DEF Latch!Unbarred, Latch!Astray, Barred, PointOf

(* A turn takes the first state, and its point if it has one; its frame has *)
(* come.                                                                    *)
Turned(l) ==
  /\ pending[l] # <<>> /\ Latch!PopPendingState(l) /\ Latch!Come(pending[l][1])
  /\ \/ ~Barred(pending[l][1]) /\ remote' = remote
     \/ /\ Barred(pending[l][1]) /\ remote[l] # <<>>
        /\ remote[l][1] = PointOf(l, pending[l][1])
        /\ remote' = [remote EXCEPT ![l] = Tail(@)]

(* A turn of the loop in applyPendingStates pops the first state, waits, or *)
(* ends.                                                                    *)
LEMMA ApplyShape ==
  ASSUME LatchTypes, ChangesInv, Latch!ApplyPendingState
  PROVE  \E l \in layerTodo : l \in Layers /\ Latch!AtTurn(l) /\ Turned(l)
<1>1. PICK l \in layerTodo :
        /\ Latch!AtTurn(l) /\ pending[l] # <<>> /\ ~Latch!Blocked(l)
        /\ IF Latch!Unbarred(l)
           THEN Latch!PopPendingState(l) /\ UNCHANGED <<pointsApplied, remote>>
           ELSE /\ Latch!DisposePoint(l)
                /\ IF Latch!Astray(l)
                   THEN UNCHANGED <<commit, pending, updated>>
                   ELSE Latch!PopPendingState(l)
  BY DEF Latch!ApplyPendingState
<1>2. l \in Layers /\ ChangeInv(l)
  BY DEF LatchTypes, ChangesInv
<1>3. CASE ~Barred(pending[l][1])
  <2>1. Latch!Unbarred(l) /\ Latch!Come(pending[l][1])
    BY <1>3 DEF Barred, Latch!Unbarred, Latch!Come
  <2>2. Turned(l)
    BY <1>1, <1>3, <2>1 DEF Turned
  <2> QED
    BY <1>1, <1>2, <2>2
<1>4. CASE Barred(pending[l][1])
  <2>1. /\ remote[l] # <<>> /\ remote[l][1] = PointOf(l, pending[l][1])
        /\ ~Latch!Unbarred(l) /\ ~Latch!Astray(l)
    BY <1>1, <1>2, <1>4, HeadPoint
  <2>2. PointOf(l, pending[l][1]) \in pointsAvailable
    BY <1>1, <2>1 DEF Latch!Blocked
  <2>3. Latch!Come(pending[l][1])
    <3>1. 1 \in DOMAIN pending[l]
      BY <1>1, <1>2, StateTypes, Popped
    <3> QED
      BY <1>2, <2>2, <3>1 DEF ChangeInv, AvailableCame
  <2>4. Turned(l)
    BY <1>1, <1>4, <2>1, <2>3 DEF Turned, Latch!DisposePoint
  <2> QED
    BY <1>1, <1>2, <2>4
<1> QED
  BY <1>3, <1>4

(* With the first deferred state goes the first point, which is its own.    *)
LEMMA TurnedRemote ==
  ASSUME LatchTypes, NEW l \in Layers, ChangeInv(l), Turned(l)
  PROVE  RemoteFollows(l)'
<1>1. pending[l] \in Seq(PendingStates) /\ pending[l] # <<>>
      /\ pending'[l] = Tail(pending[l])
  BY DEF Turned, Latch!PopPendingState, LatchTypes
<1>2. /\ 1 \in DOMAIN pending[l] /\ DOMAIN pending[l] = 1 .. Len(pending[l])
      /\ \A i \in DOMAIN pending'[l] :
           i + 1 \in DOMAIN pending[l] /\ pending'[l][i] = pending[l][i + 1]
      /\ \A i \in DOMAIN pending[l] : i # 1 =>
           i - 1 \in DOMAIN pending'[l] /\ pending'[l][i - 1] = pending[l][i]
      /\ DOMAIN pending'[l] = 1 .. Len(pending[l]) - 1
  BY <1>1, Popped
<1>3. RemoteFollows(l)
  BY DEF ChangeInv
<1>4. ASSUME NEW j \in DOMAIN pending[l], j # 1
      PROVE  pending[l][j].change > pending[l][1].change
  <2>1. pending[l][j].change \in Nat /\ pending[l][1].change \in Nat
    BY <1>2, StateTypes
  <2>2. 1 < j
    BY <1>2, <1>4, StateTypes
  <2> QED
    BY <1>2, <2>1, <2>2 DEF ChangeInv, PendingRise
<1>5. ASSUME NEW p,
             \E i \in DOMAIN pending[l] :
               /\ i # 1
               /\ Barred(pending[l][i])
               /\ p = PointOf(l, pending[l][i])
      PROVE  \E i \in DOMAIN pending'[l] :
               /\ pending'[l][i].barrier # NoLayer
               /\ p = PointOf(l, pending'[l][i])
  <2>1. PICK i \in DOMAIN pending[l] :
          i # 1 /\ Barred(pending[l][i]) /\ p = PointOf(l, pending[l][i])
    BY <1>5
  <2>2. i - 1 \in DOMAIN pending'[l] /\ pending'[l][i - 1] = pending[l][i]
    BY <1>2, <2>1
  <2> QED
    BY <2>1, <2>2 DEF Barred
<1>6. CASE ~Barred(pending[l][1]) /\ remote' = remote
  <2>1. \A j, k \in DOMAIN remote'[l] :
          j < k => remote'[l][j].change < remote'[l][k].change
    BY <1>3, <1>6 DEF RemoteFollows
  <2>2. ASSUME NEW k \in DOMAIN remote'[l]
        PROVE  \E i \in DOMAIN pending'[l] :
                 /\ pending'[l][i].barrier # NoLayer
                 /\ remote'[l][k] = PointOf(l, pending'[l][i])
    BY <1>3, <1>5, <1>6 DEF RemoteFollows
  <2>3. ASSUME NEW i \in DOMAIN pending'[l], pending'[l][i].barrier # NoLayer
        PROVE  \E k \in DOMAIN remote'[l] :
                 remote'[l][k] = PointOf(l, pending'[l][i])
    BY <1>2, <1>3, <1>6, <2>3 DEF RemoteFollows, Barred
  <2> QED
    BY <2>1, <2>2, <2>3 DEF RemoteFollows, Barred, PointOf
<1>7. CASE /\ remote[l] # <<>> /\ remote[l][1] = PointOf(l, pending[l][1])
           /\ remote' = [remote EXCEPT ![l] = Tail(@)]
  <2>1. remote[l] \in Seq(SyncPoints) /\ remote'[l] = Tail(remote[l])
    BY <1>7 DEF LatchTypes
  <2>2. /\ 1 \in DOMAIN remote[l] /\ DOMAIN remote[l] = 1 .. Len(remote[l])
        /\ DOMAIN remote'[l] = 1 .. Len(remote[l]) - 1
        /\ Len(remote[l]) \in Nat
        /\ \A i \in DOMAIN remote'[l] :
             i + 1 \in DOMAIN remote[l] /\ remote'[l][i] = remote[l][i + 1]
        /\ \A i \in DOMAIN remote[l] : i # 1 =>
             i - 1 \in DOMAIN remote'[l] /\ remote'[l][i - 1] = remote[l][i]
    <3>1. remote[l] # <<>>
      BY <1>7
    <3>2. /\ 1 \in DOMAIN remote[l] /\ DOMAIN remote[l] = 1 .. Len(remote[l])
          /\ DOMAIN remote'[l] = 1 .. Len(remote[l]) - 1
          /\ Len(remote[l]) \in Nat \ {0}
      BY <2>1, <3>1, Popped
    <3>3. \A i \in DOMAIN remote'[l] :
            i + 1 \in DOMAIN remote[l] /\ remote'[l][i] = remote[l][i + 1]
      BY <2>1, <3>1, Popped
    <3>4. \A i \in DOMAIN remote[l] : i # 1 =>
            i - 1 \in DOMAIN remote'[l] /\ remote'[l][i - 1] = remote[l][i]
      BY <2>1, <3>1, Popped
    <3> QED
      BY <3>2, <3>3, <3>4
  <2>3. ASSUME NEW j \in DOMAIN remote'[l], NEW k \in DOMAIN remote'[l], j < k
        PROVE  remote'[l][j].change < remote'[l][k].change
    <3>1. /\ j + 1 \in DOMAIN remote[l] /\ k + 1 \in DOMAIN remote[l]
          /\ j + 1 < k + 1
      BY <2>2, <2>3
    <3> QED
      BY <1>3, <2>2, <3>1 DEF RemoteFollows
  <2>4. ASSUME NEW k \in DOMAIN remote'[l]
        PROVE  \E i \in DOMAIN pending'[l] :
                 /\ pending'[l][i].barrier # NoLayer
                 /\ remote'[l][k] = PointOf(l, pending'[l][i])
    <3>1. /\ k + 1 \in DOMAIN remote[l] /\ remote'[l][k] = remote[l][k + 1]
          /\ 1 < k + 1
      BY <2>2
    <3>2. remote[l][1].change < remote[l][k + 1].change
      BY <1>3, <2>2, <3>1 DEF RemoteFollows
    <3>3. PICK i \in DOMAIN pending[l] :
            /\ Barred(pending[l][i])
            /\ remote[l][k + 1] = PointOf(l, pending[l][i])
      BY <1>3, <3>1 DEF RemoteFollows
    <3>4. i # 1
      <4>1. /\ remote[l][k + 1].change \in Nat
            /\ remote[l][1].change \in Nat
        BY <2>2, <3>1, RemoteTypes
      <4> QED
        BY <1>7, <3>2, <3>3, <4>1
    <3> QED
      BY <1>5, <3>1, <3>3, <3>4
  <2>5. ASSUME NEW i \in DOMAIN pending'[l], pending'[l][i].barrier # NoLayer
        PROVE  \E k \in DOMAIN remote'[l] :
                 remote'[l][k] = PointOf(l, pending'[l][i])
    <3>1. /\ i + 1 \in DOMAIN pending[l] /\ pending'[l][i] = pending[l][i + 1]
          /\ i + 1 # 1
      BY <1>2
    <3>2. PICK k \in DOMAIN remote[l] :
            remote[l][k] = PointOf(l, pending[l][i + 1])
      BY <1>3, <2>5, <3>1 DEF RemoteFollows, Barred
    <3>3. k # 1
      <4>1. pending[l][i + 1].change > pending[l][1].change
        BY <1>4, <3>1
      <4>2. pending[l][i + 1].change \in Nat /\ pending[l][1].change \in Nat
        BY <1>2, <3>1, StateTypes
      <4>3. remote[l][k].change = pending[l][i + 1].change
            /\ remote[l][1].change = pending[l][1].change
        BY <1>7, <3>2 DEF PointOf
      <4> QED
        BY <4>1, <4>2, <4>3
    <3> QED
      BY <2>2, <3>1, <3>2, <3>3
  <2> QED
    BY <2>3, <2>4, <2>5 DEF RemoteFollows, Barred, PointOf
<1> QED
  BY <1>6, <1>7 DEF Turned

(* What is popped lies between what is drawn and what is left.              *)
LEMMA TurnedChange ==
  ASSUME LatchTypes, LatchTypes', ChangesInv, NEW l \in Layers,
         Applying(l), Applying(l)', Turned(l),
         now' = now, layerDrawn' = layerDrawn, points' = points,
         pointsAvailable' = pointsAvailable,
         last' = last, dead' = dead
  PROVE  ChangeInv(l)'
<1>1. pending[l] \in Seq(PendingStates) /\ pending[l] # <<>>
      /\ pending'[l] = Tail(pending[l])
  BY DEF Turned, Latch!PopPendingState, LatchTypes
<1>2. /\ 1 \in DOMAIN pending[l] /\ DOMAIN pending[l] = 1 .. Len(pending[l])
      /\ Len(pending[l]) \in Nat
      /\ \A i \in DOMAIN pending'[l] :
           i + 1 \in DOMAIN pending[l] /\ pending'[l][i] = pending[l][i + 1]
      /\ DOMAIN pending'[l] = 1 .. Len(pending[l]) - 1
  BY <1>1, Popped
<1>3. /\ ChangeInv(l) /\ PendingRise(l) /\ CommitFollows(l) /\ HiddenStays(l)
      /\ RemoteFollows(l) /\ PointsAtBarrier(l) /\ AvailableCame(l)
  BY DEF ChangesInv, ChangeInv
<1>4. \A i \in DOMAIN pending'[l] : /\ i \in Int /\ 1 < i + 1
  BY <1>2
<1>5. PendingRise(l)'
  <2>1. ASSUME NEW i \in DOMAIN pending'[l], NEW j \in DOMAIN pending'[l],
               i < j
        PROVE  pending'[l][i].change < pending'[l][j].change
    <3>1. i + 1 < j + 1
      BY <1>4, <2>1
    <3> QED
      BY <1>2, <1>3, <3>1 DEF PendingRise
  <2>2. \A i \in DOMAIN pending'[l] :
          /\ layerDrawn[l].change <= pending'[l][i].change
          /\ pending'[l][i].change <= now[l].change
    BY <1>2, <1>3 DEF PendingRise
  <2>3. layerDrawn[l].change <= now[l].change
    BY <1>3 DEF PendingRise
  <2> QED
    BY <2>1, <2>2, <2>3 DEF PendingRise
<1>6. CommitFollows(l)'
  <2>1. /\ commit'.change = pending[l][1].change /\ updated' = TRUE
        /\ commit'.hidden = IF pending[l][1].masked THEN pending[l][1].hidden
                            ELSE commit.hidden
    BY DEF Turned, Latch!PopPendingState
  <2>2. commit.hidden = now[l].hidden
    BY <1>3 DEF CommitFollows
  <2>3. commit'.hidden = now[l].hidden
    <3>1. /\ pending[l][1].masked = pending[l][1].hidden
          /\ pending[l][1].hidden => now[l].hidden
          /\ pending[l][1].hidden \in BOOLEAN /\ now[l].hidden \in BOOLEAN
      BY <1>2, <1>3, StateTypes DEF HiddenStays
    <3>2. CASE pending[l][1].hidden = TRUE
      BY <2>1, <3>1, <3>2
    <3>3. CASE pending[l][1].hidden = FALSE
      BY <2>1, <2>2, <3>1, <3>3
    <3> QED
      BY <3>1, <3>2, <3>3
  <2>4. /\ pending[l][1].change <= now[l].change
        /\ layerDrawn[l].change <= pending[l][1].change
    BY <1>2, <1>3 DEF PendingRise
  <2>5. ASSUME NEW i \in DOMAIN pending'[l]
        PROVE  pending[l][1].change <= pending'[l][i].change
    <3>1. pending[l][1].change < pending[l][i + 1].change
      BY <1>2, <1>3, <1>4 DEF PendingRise
    <3>2. pending[l][1].change \in Nat /\ pending[l][i + 1].change \in Nat
      BY <1>2, StateTypes
    <3>3. pending[l][1].change <= pending[l][i + 1].change
      BY <3>1, <3>2
    <3> QED
      BY <1>2, <3>3
  <2> QED
    BY <2>1, <2>3, <2>4, <2>5 DEF CommitFollows
<1>7. HiddenStays(l)'
  BY <1>2, <1>3 DEF HiddenStays
<1>8. RemoteFollows(l)'
  BY <1>3, TurnedRemote
<1>9. PointsAtBarrier(l)'
  <2>1. ASSUME NEW bar \in Layers, NEW k \in DOMAIN points[bar],
               NEW i \in DOMAIN pending'[l],
               points[bar][k] = PointOf(l, pending'[l][i]),
               pending'[l][i].barrier # NoLayer
        PROVE  pending'[l][i].barrier = bar
    <3>1. i + 1 \in DOMAIN pending[l] /\ pending'[l][i] = pending[l][i + 1]
      BY <1>2
    <3> QED
      BY <1>3, <2>1, <3>1 DEF PointsAtBarrier, Barred
  <2> QED
    BY <2>1 DEF PointsAtBarrier, PointOf, Barred
<1>10. AvailableCame(l)'
  BY <1>2, <1>3 DEF AvailableCame, PointOf, Latch!Come
<1> QED
  BY <1>5, <1>6, <1>7, <1>8, <1>9, <1>10 DEF ChangeInv

LEMMA ApplyChanges ==
  ASSUME LatchTypes, LatchTypes', ChangesInv, Latch!ApplyPendingState
  PROVE  ChangesInv'
<1>1. /\ layerMain = "apply" /\ layerMain' = "apply" /\ layerTodo' = layerTodo
      /\ now' = now /\ layerDrawn' = layerDrawn /\ points' = points
      /\ pointsAvailable' = pointsAvailable /\ last' = last /\ dead' = dead
  BY DEF Latch!ApplyPendingState, Latch!shadowVars, Latch!lifeVars
<1>2. PICK l \in layerTodo : l \in Layers /\ Latch!AtTurn(l) /\ Turned(l)
  BY ApplyShape
<1>3. \A m \in Layers : Applying(m)' <=> Applying(m)
  BY <1>1, TurnKept DEF Applying
<1>4. Applying(l) /\ Applying(l)'
  BY <1>1, <1>2, <1>3 DEF Applying
<1>5. ChangeInv(l)'
  BY <1>1, <1>2, <1>4, TurnedChange
<1>6. Onward /\ NewlyAvailable /\ Fewer
  BY <1>1, SameAvailable, SamePoints DEF Onward, LatchTypes
<1>7. ASSUME NEW m \in Layers, m # l PROVE ChangeInv(m)'
  <2>1. ~Applying(m) /\ ~Applying(m)'
    BY <1>2, <1>3, <1>7, OneAtTurn DEF Applying
  <2>2. pending'[m] = pending[m] /\ remote'[m] = remote[m]
    BY <1>2, <1>7 DEF Turned, Latch!PopPendingState, LatchTypes
  <2>3. FewerOf(m)
    BY <1>6 DEF Fewer, FewerOf
  <2>4. ChangeInv(m)
    BY DEF ChangesInv
  <2> QED
    BY <1>1, <1>6, <2>1, <2>2, <2>3, <2>4, OtherLayer
<1>8. PointsKnown'
  BY <1>1 DEF ChangesInv, PointsKnown
<1> QED
  BY <1>5, <1>7, <1>8 DEF ChangesInv

(* What is drawn is what was popped or what was drawn before.               *)
LEMMA CommitShape ==
  ASSUME LatchTypes, Latch!CommitLayer
  PROVE  /\ layerMain = "apply" /\ layerMain' = "transaction"
         /\ last' = last /\ dead' = dead
         /\ pending' = pending /\ remote' = remote
         /\ \E l \in layerTodo :
              /\ l \in Layers /\ Latch!AtTurn(l)
              /\ now' = [now EXCEPT ![l].modified = FALSE]
              /\ layerDrawn' = IF updated
                               THEN [layerDrawn EXCEPT ![l] = commit]
                               ELSE layerDrawn
              /\ \/ pointsAvailable' = pointsAvailable /\ points' = points
                 \/ /\ updated /\ commit.hidden
                    /\ pointsAvailable' = pointsAvailable \cup
                         Latch!ToSet(points[l])
                    /\ points' = [points EXCEPT ![l] = <<>>]
<1>1. /\ layerMain = "apply" /\ layerMain' = "transaction"
      /\ last' = last /\ dead' = dead
      /\ pending' = pending /\ remote' = remote
  BY DEF Latch!CommitLayer, Latch!shadowVars, Latch!lifeVars
<1>2. PICK l \in layerTodo :
         /\ Latch!AtTurn(l)
         /\ now' = [now EXCEPT ![l].modified = FALSE]
         /\ layerDrawn' = IF updated
                          THEN [layerDrawn EXCEPT ![l] = commit]
                          ELSE layerDrawn
         /\ pointsAvailable' = IF updated /\ commit.hidden
                         THEN pointsAvailable \cup Latch!ToSet(points[l])
                         ELSE pointsAvailable
         /\ points' = IF updated /\ commit.hidden
                      THEN [points EXCEPT ![l] = <<>>] ELSE points
  BY DEF Latch!CommitLayer
<1>3. l \in Layers
  BY DEF LatchTypes
<1>4. \/ pointsAvailable' = pointsAvailable /\ points' = points
      \/ /\ updated /\ commit.hidden
         /\ pointsAvailable' = pointsAvailable \cup Latch!ToSet(points[l])
         /\ points' = [points EXCEPT ![l] = <<>>]
  BY <1>2
<1> QED
  BY <1>1, <1>2, <1>3, <1>4

LEMMA CommitChanges ==
  ASSUME LatchTypes, LatchTypes', ChangesInv, Latch!CommitLayer
  PROVE  ChangesInv'
<1>1. /\ layerMain = "apply" /\ layerMain' = "transaction"
      /\ last' = last /\ dead' = dead
      /\ pending' = pending /\ remote' = remote
  BY CommitShape
<1>2. PICK l \in layerTodo :
        /\ l \in Layers /\ Latch!AtTurn(l)
        /\ now' = [now EXCEPT ![l].modified = FALSE]
        /\ layerDrawn' = IF updated
                         THEN [layerDrawn EXCEPT ![l] = commit]
                         ELSE layerDrawn
        /\ \/ pointsAvailable' = pointsAvailable /\ points' = points
           \/ /\ updated /\ commit.hidden
              /\ pointsAvailable' = pointsAvailable \cup Latch!ToSet(points[l])
              /\ points' = [points EXCEPT ![l] = <<>>]
  BY CommitShape
<1>3. Applying(l) /\ \A m \in Layers : ~Applying(m)'
  BY <1>1, <1>2 DEF Applying
<1>4. /\ PendingRise(l) /\ CommitFollows(l) /\ HiddenStays(l)
      /\ RemoteFollows(l) /\ PointsAtBarrier(l) /\ AvailableCame(l)
  BY <1>2 DEF ChangesInv, ChangeInv
<1>5. /\ now'[l].change = now[l].change /\ now'[l].hidden = now[l].hidden
      /\ now'[l].masked = now[l].masked
      /\ now'[l].modified = FALSE
      /\ layerDrawn'[l] = IF updated THEN commit ELSE layerDrawn[l]
      /\ \A m \in Layers \ {l} :
           now'[m] = now[m] /\ layerDrawn'[m] = layerDrawn[m]
  BY <1>2 DEF LatchTypes, States
<1>6. /\ commit.change <= now[l].change /\ commit.hidden = now[l].hidden
      /\ updated => /\ layerDrawn[l].change <= commit.change
                    /\ \A i \in DOMAIN pending[l] :
                         commit.change <= pending[l][i].change
  BY <1>3, <1>4 DEF CommitFollows
<1>7. /\ layerDrawn[l].hidden => layerDrawn'[l].hidden
      /\ layerDrawn'[l].hidden => now[l].hidden
  BY <1>4, <1>5, <1>6 DEF HiddenStays
<1>8. Onward
  <2>1. \A m \in Layers : layerDrawn[m].hidden => layerDrawn'[m].hidden
    BY <1>5, <1>7
  <2>2. \A m \in Layers : last[m] <= last'[m]
    BY <1>1 DEF LatchTypes
  <2> QED
    BY <1>1, <2>1, <2>2 DEF Onward
<1>9. Fewer
  <2>1. ASSUME points' = [points EXCEPT ![l] = <<>>],
               NEW bar \in Layers, NEW k \in DOMAIN points'[bar]
        PROVE  \E i \in DOMAIN points[bar] : points'[bar][k] = points[bar][i]
    <3>1. points \in [Layers -> Seq(SyncPoints)]
      BY DEF LatchTypes
    <3>2. bar # l
      <4>1. ASSUME bar = l PROVE FALSE
        <5>1. points'[bar] = <<>>
          BY <2>1, <3>1, <4>1
        <5> QED
          BY <5>1
      <4> QED
        BY <4>1
    <3> QED
      BY <2>1, <3>1, <3>2
  <2>2. CASE points' = [points EXCEPT ![l] = <<>>]
    BY <2>1, <2>2 DEF Fewer
  <2> QED
    BY <1>2, <2>2, SamePoints
<1>10. NewlyAvailable
  <2>1. CASE pointsAvailable' = pointsAvailable
    BY <2>1, SameAvailable
  <2>2. CASE /\ updated
             /\ commit.hidden
             /\ pointsAvailable' = pointsAvailable \cup Latch!ToSet(points[l])
    <3>1. layerDrawn'[l].hidden
      BY <1>5, <2>2
    <3> QED
      BY <1>2, <2>2, <3>1 DEF NewlyAvailable, Latch!ToSet
  <2> QED
    BY <1>2, <2>1, <2>2
<1>11. PointsKnown'
  <2>1. \A m \in Layers : now[m].change <= now'[m].change
    <3>1. \A m \in Layers : now[m].change \in Nat
      BY StateTypes
    <3> QED
      BY <1>5, <3>1
  <2> QED
    BY <1>9, <1>10, <2>1, KnownKept DEF ChangesInv
<1>12. ASSUME NEW m \in Layers, m # l PROVE ChangeInv(m)'
  <2>1. ~Applying(m)
    BY <1>2, <1>12, OneAtTurn DEF Applying
  <2>2. now'[m] = now[m] /\ layerDrawn'[m] = layerDrawn[m]
    BY <1>5, <1>12
  <2>3. FewerOf(m)
    BY <1>9 DEF Fewer, FewerOf
  <2>4. ChangeInv(m)
    BY DEF ChangesInv
  <2> QED
    BY <1>1, <1>3, <1>8, <1>10, <2>1, <2>2, <2>3, <2>4, OtherLayer
<1>13. ChangeInv(l)'
  <2>1. PendingRise(l)'
    <3>1. CASE updated
      <4>1. layerDrawn'[l].change = commit.change
        BY <1>5, <3>1
      <4> QED
        BY <1>1, <1>4, <1>5, <1>6, <3>1, <4>1 DEF PendingRise
    <3>2. CASE ~updated
      BY <1>1, <1>4, <1>5, <3>2 DEF PendingRise
    <3> QED
      BY <3>1, <3>2
  <2>2. CommitFollows(l)'
    BY <1>2, <1>3 DEF CommitFollows
  <2>3. HiddenStays(l)'
    BY <1>1, <1>4, <1>5, <1>7 DEF HiddenStays
  <2>4. RemoteFollows(l)'
    BY <1>1, <1>4 DEF RemoteFollows
  <2>5. PointsAtBarrier(l)'
    BY <1>1, <1>4, <1>9 DEF PointsAtBarrier, Fewer
  <2>6. ASSUME NEW i \in DOMAIN pending[l], NEW s, s = pending[l][i],
               PointOf(l, s) \in pointsAvailable'
        PROVE  Latch!Come(s)'
    BY <1>2, <1>4, <1>8, <1>10, <2>6, CameKept
  <2>7. AvailableCame(l)'
    BY <1>1, <2>6 DEF AvailableCame, Latch!Come
  <2> QED
    BY <2>1, <2>2, <2>3, <2>4, <2>5, <2>7 DEF ChangeInv
<1> QED
  BY <1>11, <1>12, <1>13 DEF ChangesInv

(* What is said of changes is kept by every step.                           *)
LEMMA NextChanges ==
  ASSUME LatchTypes, LatchTypes', ShadowInv, ChangesInv,
         [Latch!Next]_Latch!vars
  PROVE  ChangesInv'
<1>1. CASE Latch!MainThread
  BY <1>1, InvalidateChanges, PushStateChanges, ApplyChanges, CommitChanges,
     DecideChanges, FrameChanges
    DEF Latch!MainThread
<1>2. ASSUME NEW l \in Layers,
             Latch!Callbacks(l) \/ Latch!RemoveLayer(l) \/ Latch!Destroy(l)
      PROVE  ChangesInv'
  BY <1>2, FrameChanges, DestroyChanges
<1>3. ASSUME NEW l \in Layers, NEW d \in BOOLEAN,
             Latch!QueueBuffer(l, d) \/ Latch!Transact(l, d)
      PROVE  ChangesInv'
  BY <1>3, FrameChanges, TransactChanges
<1>4. CASE UNCHANGED Latch!vars
  <2>1. /\ UNCHANGED Latch!stateVars
        /\ points' = points
        /\ pointsAvailable' = pointsAvailable
        /\ last' = last /\ dead' = dead /\ AsideOfApply
    BY <1>4
      DEF Latch!vars, Latch!pointVars, Latch!shadowVars, Latch!lifeVars,
          Latch!mainVars, AsideOfApply
  <2>2. \A bar \in Layers : last[bar] <= last'[bar]
    BY <2>1 DEF LatchTypes
  <2> QED
    BY <2>1, <2>2, SamePoints, SameAvailable, QuietChanges
<1> QED
  BY <1>1, <1>2, <1>3, <1>4 DEF Latch!Next

(* A turn takes a state away whose frame has come, and a layer is drawn     *)
(* with a change no older than the last: only ApplyPendingState and         *)
(* CommitLayer do either.                                                   *)
LEMMA ChangesInTheirOrder ==
  ASSUME LatchTypes, LatchTypes', ChangesInv, [Latch!Next]_Latch!vars,
         NEW l \in Layers
  PROVE  /\ layerDrawn'[l].change >= layerDrawn[l].change
         /\ Len(pending'[l]) < Len(pending[l]) => Latch!Come(pending[l][1])
<1>1. /\ layerDrawn[l].change \in Nat /\ layerDrawn'[l].change \in Nat
      /\ Len(pending[l]) \in Nat
  BY StateTypes DEF LatchTypes, Commits
<1>2. CASE Latch!CommitLayer
  <2>1. pending' = pending
    BY <1>2, CommitShape
  <2>2. PICK m \in layerTodo :
          /\ m \in Layers /\ Latch!AtTurn(m)
          /\ layerDrawn' = IF updated
                           THEN [layerDrawn EXCEPT ![m] = commit]
                           ELSE layerDrawn
    BY <1>2, CommitShape
  <2>3. layerMain = "apply"
    BY <1>2, CommitShape
  <2>4. updated => layerDrawn[m].change <= commit.change
    BY <2>2, <2>3 DEF ChangesInv, ChangeInv, CommitFollows, Applying
  <2>5. layerDrawn \in [Layers -> Commits] /\ commit.change \in Nat
    BY <2>2, StateTypes DEF LatchTypes
  <2>6. layerDrawn[l].change <= layerDrawn'[l].change
    <3>1. CASE updated /\ l = m
      BY <2>2, <2>4, <2>5, <3>1
    <3>2. CASE ~(updated /\ l = m)
      BY <1>1, <2>2, <2>5, <3>2
    <3> QED
      BY <3>1, <3>2
  <2> QED
    BY <1>1, <2>1, <2>6
<1>3. CASE Latch!ApplyPendingState
  <2>1. layerDrawn' = layerDrawn
    BY <1>3 DEF Latch!ApplyPendingState
  <2>2. PICK m \in layerTodo : m \in Layers /\ Latch!AtTurn(m) /\ Turned(m)
    BY <1>3, ApplyShape
  <2>3. CASE l = m
    BY <1>1, <2>1, <2>2, <2>3 DEF Turned
  <2>4. CASE l # m
    <3>1. pending'[l] = pending[l]
      BY <2>2, <2>4 DEF Turned, Latch!PopPendingState, LatchTypes
    <3> QED
      BY <1>1, <2>1, <3>1
  <2> QED
    BY <2>3, <2>4
<1>4. CASE Latch!PushPendingState \/ \E m \in Layers : \E d \in BOOLEAN :
             Latch!Transact(m, d)
  <2>1. layerDrawn' = layerDrawn
    BY <1>4 DEF Latch!PushPendingState, Latch!Transact
  <2>2. \/ pending'[l] = pending[l]
        \/ \E new \in PendingStates : pending'[l] = Append(pending[l], new)
    <3>1. ASSUME NEW m \in Layers, NEW s \in States,
                 NEW bar \in Layers \cup {NoLayer}, NEW f \in Int,
                 Latch!Push(m, s, bar, f)
          PROVE  \/ pending'[l] = pending[l]
                 \/ \E new \in PendingStates :
                      pending'[l] = Append(pending[l], new)
      <4> DEFINE new == [change |-> s.change, hidden |-> s.hidden,
                         masked |-> s.masked, barrier |-> bar, frame |-> f]
      <4>1. new \in PendingStates
        BY <3>1, PushTypes
      <4>2. pending' = [pending EXCEPT ![m] = Append(pending[m], new)]
        BY <3>1 DEF Latch!Push
      <4> HIDE DEF new
      <4> QED
        BY <4>1, <4>2 DEF LatchTypes
    <3>2. CASE Latch!PushPendingState
      <4>1. PICK m \in layerTodo :
              Latch!Push(m, now[m], NoLayer, 0) \/ UNCHANGED pending
        BY <3>2 DEF Latch!PushPendingState
      <4>2. m \in Layers /\ now[m] \in States
        BY DEF LatchTypes
      <4>3. NoLayer \in Layers \cup {NoLayer} /\ 0 \in Int
        OBVIOUS
      <4> QED
        BY <3>1, <4>1, <4>2, <4>3
    <3>3. ASSUME NEW m \in Layers, NEW d \in BOOLEAN, Latch!Transact(m, d)
          PROVE  \/ pending'[l] = pending[l]
                 \/ \E new \in PendingStates :
                      pending'[l] = Append(pending[l], new)
      <4>1. PICK state \in States : Transacted(m, state)
        BY <3>3, TransactShape
      <4>2. \/ pending' = pending
            \/ \E bar \in Layers \cup {NoLayer}, f \in Int :
                 Latch!Push(m, state, bar, f)
        BY <4>1 DEF Transacted
      <4> QED
        BY <3>1, <4>2
    <3> QED
      BY <1>4, <3>2, <3>3
  <2>3. ~(Len(pending'[l]) < Len(pending[l]))
    <3>1. ASSUME NEW new \in PendingStates,
                 pending'[l] = Append(pending[l], new)
          PROVE  Len(pending'[l]) = Len(pending[l]) + 1
      <4>1. pending[l] \in Seq(PendingStates)
        BY StateTypes
      <4> QED
        BY <3>1, <4>1
    <3> QED
      BY <1>1, <2>2, <3>1
  <2> QED
    BY <1>1, <2>1, <2>3
<1>5. CASE UNCHANGED Latch!stateVars \/ UNCHANGED Latch!vars
  BY <1>1, <1>5 DEF Latch!vars, Latch!stateVars
<1> QED
  <2>1. \/ UNCHANGED Latch!vars
        \/ Latch!CommitLayer
        \/ Latch!ApplyPendingState
        \/ Latch!PushPendingState
        \/ UNCHANGED Latch!stateVars
        \/ \E m \in Layers : \E d \in BOOLEAN : Latch!Transact(m, d)
    BY DEF Latch!Next, Latch!MainThread, Latch!Invalidate,
         Latch!CommitTransaction, Latch!HandlePageFlip, Latch!Decide,
         Latch!Acquire, Latch!Refresh, Latch!Callbacks,
         Latch!OnFrameAvailable, Latch!OnFrameReplaced, Latch!FrameCallback,
         Latch!RemoveLayer, Latch!Destroy, Latch!QueueBuffer
  <2> QED
    BY <1>2, <1>3, <1>4, <1>5, <2>1

(* Stuttering keeps it all.                                                 *)
LEMMA LatchStutters ==
  ASSUME LatchTypes, ShadowInv, PlainInv, FramesInv, UNCHANGED Latch!vars
  PROVE  LatchTypes' /\ ShadowInv' /\ PlainInv' /\ FramesInv'
<1>1. /\ plot' = plot
      /\ UNCHANGED Latch!queueVars
      /\ UNCHANGED Latch!shadowVars
      /\ UNCHANGED Latch!latchVars
      /\ UNCHANGED Latch!stateVars
      /\ UNCHANGED Latch!pointVars
      /\ UNCHANGED Latch!lifeVars /\ UNCHANGED Latch!mainVars
  BY DEF Latch!vars
<1>2. LatchTypes'
  BY <1>1
    DEF LatchTypes, Latch!queueVars, Latch!shadowVars, Latch!latchVars,
        Latch!stateVars, Latch!pointVars, Latch!lifeVars, Latch!mainVars
<1>3. ShadowInv'
  BY <1>1
    DEF ShadowInv, Shadow, QueueRises, ItemsRise, CallsKnow, AllListed,
        Queued, InShadow, Latch!queueVars, Latch!shadowVars, Latch!latchVars
<1>4. PlainInv'
  BY <1>1
    DEF PlainInv, InTime, Latch!Odd, Plain, NoneReplaced, NoneLost, NoneExtra,
        Queued, Latch!queueVars, Latch!shadowVars
<1>5. FramesInv'
  BY <1>1
    DEF FramesInv, InTime, Latch!Odd, Met, Latch!InOrder, Latch!HeadFrame,
        Latch!AtTurn, Latch!Behind, Latch!shadowVars, Latch!latchVars,
        Latch!pointVars, Latch!mainVars
<1> QED
  BY <1>2, <1>3, <1>4, <1>5

LEMMA LatchInitially ==
  Latch!Init => LatchInv
BY InitTypes, InitShadow, InitFrames, InitChanges DEF LatchInv

LEMMA LatchStep ==
  LatchInv /\ [Latch!Next]_Latch!vars => LatchInv'
<1> SUFFICES ASSUME LatchInv, [Latch!Next]_Latch!vars  PROVE LatchInv'
  OBVIOUS
<1>1. LatchTypes /\ ShadowInv /\ PlainInv /\ FramesInv /\ ChangesInv
  BY DEF LatchInv
<1>2. LatchTypes' /\ ShadowInv' /\ PlainInv' /\ FramesInv'
  BY <1>1, LatchStutters, NextTypes, NextShadow, NextPlain, NextFrames
<1>3. ChangesInv'
  BY <1>1, <1>2, NextChanges
<1> QED
  BY <1>2, <1>3 DEF LatchInv

(* The frame that is acquired is in the shadow.                             *)
LEMMA ShadowTells ==
  LatchInv => Latch!ShadowHasWhatIsAcquired
<1> SUFFICES ASSUME LatchInv, NEW l \in Layers, NEW k \in Latch!Offers(l),
                    ~failed[l]
             PROVE  bq[l][k].n \in Latch!ToSet(items[l])
  BY DEF Latch!ShadowHasWhatIsAcquired
<1>1. k \in DOMAIN bq[l] /\ bq[l][k].n <= last[l]
  BY DEF Latch!Offers, Latch!Heard
<1>2. InShadow(l, bq[l][k].n)
  BY <1>1 DEF LatchInv, ShadowInv, Shadow, AllListed
<1> QED
  BY <1>2 DEF InShadow, Latch!ToSet

FramesWait == \A l \in Layers :
  currentFrame'[l] # currentFrame[l] /\ Latch!InOrder(l)
    /\ ~Latch!Odd("timed") /\ ~Latch!Odd("async") =>
    \A p \in seen : p.frame <= currentFrame'[l] => p \in pointsApplied
(* A step that shows a frame has the changes deferred on it.                *)
LEMMA FramesStep ==
  LatchInv /\ [Latch!Next]_Latch!vars => FramesWait
<1> SUFFICES ASSUME LatchInv, [Latch!Next]_Latch!vars, NEW l \in Layers,
                    currentFrame'[l] # currentFrame[l], Latch!InOrder(l),
                    InTime,
                    NEW p \in seen, p.frame <= currentFrame'[l]
             PROVE  p \in pointsApplied
  BY DEF FramesWait, InTime
<1>1. currentFrame' # currentFrame
  OBVIOUS
<1>2. Latch!Next
  BY <1>1 DEF Latch!vars, Latch!latchVars
<1> QED
  BY <1>2, LatchedTogether DEF LatchInv

ChangesWait == \A l \in Layers :
  /\ layerDrawn'[l].change >= layerDrawn[l].change
  /\ Len(pending'[l]) < Len(pending[l]) => Latch!Come(pending[l][1])
(* A step draws later changes only and pops what has come.                  *)
LEMMA ChangesStep ==
  LatchInv /\ [Latch!Next]_Latch!vars => ChangesWait
<1> SUFFICES ASSUME LatchInv, [Latch!Next]_Latch!vars, NEW l \in Layers
             PROVE  /\ layerDrawn'[l].change >= layerDrawn[l].change
                    /\ Len(pending'[l]) < Len(pending[l]) =>
                         Latch!Come(pending[l][1])
  BY DEF ChangesWait
<1>1. LatchInv'
  BY LatchStep
<1> QED
  BY <1>1, ChangesInTheirOrder DEF LatchInv

-----------------------------------------------------------------------------
(* The theorems, for the layers on their own and in the instance.           *)

(* A step of the instance is a step of the layers, or leaves them alone.    *)
LEMMA LatchAlone ==
  /\ DisplayInit => Latch!Init
  /\ [DisplayNext]_displayVars => [Latch!Next]_Latch!vars
<1>1. UNCHANGED layerPart => UNCHANGED Latch!vars
  BY DEF layerPart, Latch!vars, Latch!queueVars, Latch!shadowVars,
       Latch!latchVars, Latch!stateVars, Latch!pointVars, Latch!lifeVars,
       Latch!mainVars
<1> QED
  BY <1>1, Zenon
    DEF DisplayInit, DisplayNext, displayVars, InFrames, InVsync, InChanges,
        InLayers, InPictures

(* The shadow of the buffer queue begins with every frame the consumer may  *)
(* be handed, whatever callbacks are on their way and in whatever order     *)
(* they come: the loop of latchBuffer finds the frame acquired.             *)
THEOREM FramesAreFound ==
  /\ Latch!Spec => []ShadowHasWhatIsAcquired
  /\ DisplaySpec => []ShadowHasWhatIsAcquired
<1>1. LatchInv => ShadowHasWhatIsAcquired
  BY ShadowTells DEF ShadowHasWhatIsAcquired
<1>2. Latch!Spec => []ShadowHasWhatIsAcquired
  BY <1>1, LatchInitially, LatchStep, PTL DEF Latch!Spec
<1>3. DisplaySpec => []ShadowHasWhatIsAcquired
  BY <1>1, LatchInitially, LatchStep, LatchAlone, PTL DEF DisplaySpec
<1> QED
  BY <1>2, <1>3

(* A frame is latched together with the changes deferred on it before the   *)
(* layer decided, though both layers go on between decision and latch.      *)
THEOREM FramesComeWithTheirChanges ==
  /\ Latch!Spec => FramesWaitForChanges
  /\ DisplaySpec => FramesWaitForChanges
<1>1. Latch!Spec => FramesWaitForChanges
  BY LatchInitially, LatchStep, FramesStep, PTL
    DEF Latch!Spec, FramesWaitForChanges, Latch!FramesWaitForChanges,
        FramesWait
<1>2. DisplaySpec => FramesWaitForChanges
  BY LatchInitially, LatchStep, FramesStep, LatchAlone, PTL
    DEF DisplaySpec, FramesWaitForChanges, Latch!FramesWaitForChanges,
        FramesWait
<1> QED
  BY <1>1, <1>2

(* A deferred change is applied when its frame has come, or when its        *)
(* barrier layer is hidden or gone; and changes are drawn in their order.   *)
THEOREM ChangesComeInTheirTurn ==
  /\ Latch!Spec => ChangesWaitForFrames
  /\ DisplaySpec => ChangesWaitForFrames
<1>1. Latch!Spec => ChangesWaitForFrames
  BY LatchInitially, LatchStep, ChangesStep, PTL
    DEF Latch!Spec, ChangesWaitForFrames, Latch!ChangesWaitForFrames,
        ChangesWait
<1>2. DisplaySpec => ChangesWaitForFrames
  BY LatchInitially, LatchStep, ChangesStep, LatchAlone, PTL
    DEF DisplaySpec, ChangesWaitForFrames, Latch!ChangesWaitForFrames,
        ChangesWait
<1> QED
  BY <1>1, <1>2
=============================================================================
