----------------------------- MODULE LayerLatch ------------------------------
(***************************************************************************)
(* Frames and deferred transactions of layers (Layer.cpp): the shadow of   *)
(* the buffer queue that onFrameAvailable, onFrameReplaced and latchBuffer *)
(* keep, and the sync points by which the changes of one layer wait for a  *)
(* frame of another (deferTransactionUntil), and that frame for them.  The *)
(* main thread of SurfaceFlinger_hwc1.cpp drives both: handleTransaction,  *)
(* handlePageFlip, preComposition.                                         *)
(*                                                                         *)
(* mQueuedFrames counts mQueueItems and is not kept apart; geometry,       *)
(* sideband streams, auto-refresh and children are left out.  A change is  *)
(* the number of the transaction that made it.                             *)
(***************************************************************************)
EXTENDS Integers, Sequences, SequencesExt

CONSTANTS
  Layers,
  ZOrder,      \* the layers in the order they are traversed
  Plots,       \* bound: what may happen in a behavior, see plot
  NoLayer

LatchConstants ==
  /\ ZOrder \in Seq(Layers) /\ ToSet(ZOrder) = Layers
  /\ \A i, j \in DOMAIN ZOrder : ZOrder[i] = ZOrder[j] => i = j
  /\ Plots \subseteq [frames : [Layers -> Nat], changes : [Layers -> Nat],
                      defer : SUBSET (Layers \X Layers), ahead : SUBSET Int,
                      odd : SUBSET STRING]
  /\ NoLayer \notin Layers

VARIABLES
  plot,     \* frames, changes: how many frames and transactions each layer
            \* gets; defer: who may defer on whom; ahead: how far ahead of the
            \* next frame; odd: what else may happen to a buffer or a layer
  bq,       \* the BufferQueue: frame numbers, and whether one is droppable
  next,     \* the next frame number
  calls,    \* onFrameAvailable and onFrameReplaced on their way
  items,    \* mQueueItems
  last,     \* mLastFrameNumberReceived
  current,  \* mCurrentFrameNumber
  failed,   \* mUpdateTexImageFailed
  latched,  \* mRefreshPending
  now,      \* mCurrentState, with its modified flag
  pending,  \* mPendingStates
  drawn,    \* mDrawingState
  remote,   \* mRemoteSyncPoints
  points,   \* mLocalSyncPoints
  available, applied, \* mFrameIsAvailable, mTransactionIsApplied of the points
  needed,   \* layers with eTransactionNeeded
  flags, message, \* mTransactionFlags of SurfaceFlinger, an INVALIDATE to come
  present, shown, dead, \* layers of mCurrentState, of mDrawingState; destroyed
  main,     \* where the main thread is
  todo,     \* the layers it has still to go through
  refresh,  \* a refresh is needed
  commit, updated, \* the state doTransaction will commit, if any
  seen      \* the sync points it saw when it decided to latch

queueVars == <<bq, next, calls>>
shadowVars == <<items, last>>
latchVars == <<current, failed, latched>>
stateVars == <<now, pending, drawn, remote, needed>>
pointVars == <<points, available, applied>>
lifeVars == <<present, shown, dead>>
mainVars == <<main, todo, refresh, seen, commit, updated>>
vars == <<plot, queueVars, shadowVars, latchVars, stateVars, pointVars, flags,
          message, lifeVars, mainVars>>

Odd(what) == what \in plot.odd

Init ==
  /\ plot \in Plots
  /\ bq = [l \in Layers |-> <<>>] /\ next = [l \in Layers |-> 1]
  /\ calls = [l \in Layers |-> {}]
  /\ items = [l \in Layers |-> <<>>] /\ last = [l \in Layers |-> 0]
  /\ current = [l \in Layers |-> 0]
  /\ failed = [l \in Layers |-> FALSE] /\ latched = [l \in Layers |-> FALSE]
  /\ drawn = [l \in Layers |-> [change |-> 0, hidden |-> FALSE]]
  /\ now = [l \in Layers |-> [change |-> 0, hidden |-> FALSE, masked |-> FALSE,
                              modified |-> FALSE]]
  /\ pending = [l \in Layers |-> <<>>] /\ remote = [l \in Layers |-> <<>>]
  /\ needed = {}
  /\ points = [l \in Layers |-> <<>>] /\ available = {} /\ applied = {}
  /\ flags = {} /\ message = FALSE
  /\ present = Layers /\ shown = Layers /\ dead = {}
  /\ main = "idle" /\ todo = {} /\ refresh = FALSE /\ seen = {}
  /\ commit = [change |-> 0, hidden |-> FALSE] /\ updated = FALSE

(* setTransactionFlags wakes the main thread if none of them was set.       *)
SetTransactionFlags(new) ==
  /\ flags' = flags \cup new
  /\ message' = (message \/ (new # {} /\ flags \cap new = {}))

-----------------------------------------------------------------------------
(* The producer, and the callbacks of its buffer queue.                     *)

(* queueBuffer: a frame takes the place of the last one if that may be      *)
(* dropped (asynchronous mode); the callback comes without the queue's lock. *)
QueueBuffer(l, droppable) ==
  /\ l \in shown /\ next[l] <= plot.frames[l]
  /\ droppable => Odd("async")
  /\ LET frame == [n |-> next[l], droppable |-> droppable]
         replaces == bq[l] # <<>> /\ bq[l][Len(bq[l])].droppable
     IN /\ bq' = [bq EXCEPT ![l] =
                    (IF replaces THEN Front(@) ELSE @) \o <<frame>>]
        /\ calls' = [calls EXCEPT ![l] = @ \cup {[n |-> next[l],
             on |-> IF replaces THEN "replaced" ELSE "available"]}]
  /\ next' = [next EXCEPT ![l] = @ + 1]
  /\ UNCHANGED <<plot, shadowVars, latchVars, stateVars, pointVars, flags,
                 message, lifeVars, mainVars>>

(* The callbacks wait for their turn.                                       *)
InTurn(l, call) == call.n = last[l] + 1

FrameCallback(l, call) ==
  /\ call \in calls[l] /\ InTurn(l, call)
  /\ calls' = [calls EXCEPT ![l] = @ \ {call}]
  /\ UNCHANGED <<plot, bq, next, latchVars, stateVars, pointVars, flags,
                 lifeVars, mainVars>>

OnFrameAvailable(l) == \E call \in calls[l] :
  /\ call.on = "available" /\ FrameCallback(l, call)
  /\ items' = [items EXCEPT ![l] = Append(@, call.n)]
  /\ last' = [last EXCEPT ![l] = call.n]
  /\ message' = TRUE

(* "Can't replace a frame on an empty queue", and returns.                  *)
OnFrameReplaced(l) == \E call \in calls[l] :
  /\ call.on = "replaced" /\ FrameCallback(l, call)
  /\ IF items[l] = <<>> THEN UNCHANGED <<items, last>>
     ELSE /\ items' = [items EXCEPT ![l][Len(items[l])] = call.n]
          /\ last' = [last EXCEPT ![l] = call.n]
  /\ UNCHANGED message

-----------------------------------------------------------------------------
(* Clients, on binder threads under mStateLock.                             *)

StateLockFree == main \notin {"transaction", "apply"}

Push(l, state, barrier, frame) ==
  pending' = [pending EXCEPT ![l] = Append(@,
    [change |-> state.change, hidden |-> state.hidden, masked |-> state.masked,
     barrier |-> barrier, frame |-> frame])]

(* addSyncPoint: no point for a frame that was latched already.             *)
TooLate(barrier, frame) == barrier \in dead \/ frame <= current[barrier]

(* The changes of a transaction and, after them, deferTransactionUntil: it  *)
(* pushes what mCurrentState has changed, with earlier transactions' changes *)
(* that were not pushed yet, and asks the barrier layer for a sync point.   *)
DeferTransactionUntil(l, state, barrier, frame) ==
  LET point == [by |-> l, change |-> state.change, frame |-> frame] IN
  /\ IF TooLate(barrier, frame)
     THEN Push(l, state, NoLayer, frame) /\ UNCHANGED <<remote, points>>
     ELSE /\ Push(l, state, barrier, frame)
          /\ remote' = [remote EXCEPT ![l] = Append(@, point)]
          /\ points' = [points EXCEPT ![barrier] = Append(@, point)]
  /\ now' = [now EXCEPT ![l] = [state EXCEPT !.modified = FALSE]]

Transact(l, hide) ==
  /\ StateLockFree /\ l \in present /\ now[l].change < plot.changes[l]
  /\ hide => Odd("hides")
  /\ LET state == [change |-> now[l].change + 1,
                   hidden |-> now[l].hidden \/ hide,
                   masked |-> now[l].masked \/ hide,
                   modified |-> TRUE]
     IN \/ /\ now' = [now EXCEPT ![l] = state]
           /\ UNCHANGED <<pending, remote, points>>
        \/ \E barrier \in Layers : \E ahead \in plot.ahead :
             /\ <<l, barrier>> \in plot.defer
             /\ next[barrier] + ahead >= 1
             /\ DeferTransactionUntil(l, state, barrier, next[barrier] + ahead)
  /\ needed' = needed \cup {l}
  /\ SetTransactionFlags({"traversal"})
  /\ UNCHANGED <<plot, queueVars, shadowVars, latchVars, drawn, available,
                 applied, lifeVars, mainVars>>

RemoveLayer(l) ==
  /\ StateLockFree /\ Odd("removes") /\ l \in present
  /\ present' = present \ {l}
  /\ SetTransactionFlags({"transaction"})
  /\ UNCHANGED <<plot, queueVars, shadowVars, latchVars, stateVars, pointVars,
                 shown, dead, mainVars>>

(* ~Layer, once neither state nor the client holds the layer.               *)
(* Broken variant: the layers it defers on are not told.                    *)
DestroyQuietly(l) ==
  /\ l \notin present \cup shown \cup dead
  /\ dead' = dead \cup {l}
  /\ available' = available \cup ToSet(points[l])
  /\ UNCHANGED <<plot, queueVars, shadowVars, latchVars, stateVars, points,
                 applied, flags, message, present, shown, mainVars>>
Destroy(l) ==
  /\ l \notin present \cup shown \cup dead
  /\ dead' = dead \cup {l}
  /\ applied' = applied \cup ToSet(remote[l])
  /\ available' = available \cup ToSet(points[l])
  /\ UNCHANGED <<plot, queueVars, shadowVars, latchVars, stateVars, points,
                 flags, message, present, shown, mainVars>>

-----------------------------------------------------------------------------
(* The main thread: onMessageReceived and handleTransaction.                *)

HeadFrame(l) == IF items[l] = <<>> THEN current[l] ELSE items[l][1]

(* The layers still to go through are taken from back to front.             *)
Behind(l, k) == \E i, j \in DOMAIN ZOrder :
  i <= j /\ ZOrder[i] = l /\ ZOrder[j] = k
AtTurn(l) == l \in todo /\ \A k \in todo : Behind(l, k)

(* notifyAvailableFrames: the points whose frame is at hand.                *)
(* Broken variant: the points whose frame is the next.                      *)
AlmostAtHand(l) == {p \in ToSet(points[l]) : HeadFrame(l) + 1 >= p.frame}
AtHand(l) == {p \in ToSet(points[l]) : HeadFrame(l) >= p.frame}

Invalidate ==
  /\ main = "idle" /\ message
  /\ message' = FALSE
  /\ IF flags = {}
     THEN main' = "flip" /\ UNCHANGED <<flags, available, todo, refresh>>
     ELSE /\ main' = "transaction" /\ refresh' = TRUE
          /\ flags' = {}
          /\ available' = available \cup UNION {AtHand(l) : l \in present}
          /\ todo' = IF "traversal" \in flags THEN present \cap needed ELSE {}
  /\ UNCHANGED <<plot, queueVars, shadowVars, latchVars, stateVars, points,
                 applied, lifeVars, seen, commit, updated>>

(* doTransaction of the next layer begins with pushPendingState.            *)
PushPendingState ==
  /\ main = "transaction"
  /\ \E l \in todo :
     /\ AtTurn(l)
     /\ commit' = [change |-> now[l].change, hidden |-> now[l].hidden]
     /\ IF now[l].modified THEN Push(l, now[l], NoLayer, 0)
        ELSE UNCHANGED pending
  /\ main' = "apply" /\ updated' = FALSE
  /\ UNCHANGED <<plot, queueVars, shadowVars, latchVars, now, drawn, remote,
                 needed, pointVars, flags, message, lifeVars, todo, refresh,
                 seen>>

(* popPendingState: flags outside the state's mask stay as they were.       *)
PopPendingState(l) ==
  LET s == pending[l][1] IN
  /\ commit' = [change |-> s.change,
                hidden |-> IF s.masked THEN s.hidden ELSE commit.hidden]
  /\ pending' = [pending EXCEPT ![l] = Tail(@)]
  /\ updated' = TRUE
DisposePoint(l) ==
  /\ applied' = applied \cup {remote[l][1]}
  /\ remote' = [remote EXCEPT ![l] = Tail(@)]

(* One turn of applyPendingStates: a state that waits for nothing, or has   *)
(* no point, is applied; a point that is not its own is disposed of; with   *)
(* its point available, both are done with.                                 *)
Unbarred(l) == pending[l][1].barrier = NoLayer \/ remote[l] = <<>>
Astray(l) == remote[l][1].frame # pending[l][1].frame
Blocked(l) == /\ ~Unbarred(l) /\ ~Astray(l)
              /\ remote[l][1] \notin available

ApplyPendingState ==
  /\ main = "apply"
  /\ \E l \in todo :
     /\ AtTurn(l) /\ pending[l] # <<>> /\ ~Blocked(l)
     /\ IF Unbarred(l) THEN PopPendingState(l) /\ UNCHANGED <<applied, remote>>
        ELSE /\ DisposePoint(l)
             /\ IF Astray(l) THEN UNCHANGED <<commit, pending, updated>>
                ELSE PopPendingState(l)
  /\ UNCHANGED <<plot, queueVars, shadowVars, latchVars, now, drawn, needed,
                 points, available, flags, message, lifeVars, main, todo,
                 refresh, seen>>

(* The rest of doTransaction; states that wait make the main thread come    *)
(* back, and a hidden layer signals and clears its points.                  *)
CommitLayer ==
  /\ main = "apply"
  /\ \E l \in todo : AtTurn(l) /\
     LET waits == pending[l] # <<>>
         hides == updated /\ commit.hidden
     IN /\ waits => Blocked(l)
        /\ todo' = todo \ {l}
        /\ now' = [now EXCEPT ![l].modified = FALSE]
        /\ drawn' = IF updated THEN [drawn EXCEPT ![l] = commit] ELSE drawn
        /\ needed' = IF waits THEN needed ELSE needed \ {l}
        /\ SetTransactionFlags(IF waits THEN {"traversal"} ELSE {})
        /\ available' = IF hides THEN available \cup ToSet(points[l])
                        ELSE available
        /\ points' = IF hides THEN [points EXCEPT ![l] = <<>>] ELSE points
  /\ main' = "transaction"
  /\ UNCHANGED <<plot, queueVars, shadowVars, latchVars, pending, remote,
                 applied, lifeVars, refresh, seen, commit, updated>>

CommitTransaction ==
  /\ main = "transaction" /\ todo = {}
  /\ shown' = present /\ main' = "flip"
  /\ UNCHANGED <<plot, queueVars, shadowVars, latchVars, stateVars, pointVars,
                 flags, message, present, dead, todo, refresh, seen, commit,
                 updated>>

-----------------------------------------------------------------------------
(* The main thread: handlePageFlip, latchBuffer and preComposition.         *)

(* The layers to latch are fixed before the first is latched.  A frame of a *)
(* producer that sets times may not be due yet (shouldPresentNow).          *)
HandlePageFlip ==
  /\ main = "flip"
  /\ \E early \in SUBSET shown :
       LET queued == {l \in shown : items[l] # <<>>}
           due == queued \ early
       IN /\ early # {} => Odd("timed") /\ early \subseteq queued
          /\ todo' = due
          /\ message' = (message \/ (queued # {} /\ due = {}))
          /\ refresh' = (refresh \/ due # {})
  /\ main' = "latch"
  /\ UNCHANGED <<plot, queueVars, shadowVars, latchVars, stateVars, pointVars,
                 flags, lifeVars, seen, commit, updated>>

(* allTransactionsSignaled goes through the points up to the first of a     *)
(* later frame, or to the first that was not available, and says it now is. *)
Matching(l) ==
  LET later == {i \in DOMAIN points[l] : points[l][i].frame > HeadFrame(l)}
  IN {i \in DOMAIN points[l] : \A j \in later : i < j}
Unsignaled(l) == {i \in Matching(l) : points[l][i] \notin available}
(* Broken variant: that the changes may be applied is enough.               *)
AllAvailable(l) == \A i \in Matching(l) : points[l][i] \in available
AllTransactionsSignaled(l) ==
  \A i \in Matching(l) : points[l][i] \in available \cap applied

Decide ==
  /\ main = "latch"
  /\ \E l \in todo : AtTurn(l) /\
     LET first == {i \in Unsignaled(l) : \A j \in Unsignaled(l) : i <= j}
     IN IF ~latched[l] /\ AllTransactionsSignaled(l)
        THEN /\ main' = "acquire" /\ seen' = ToSet(points[l])
             /\ UNCHANGED <<todo, available, message>>
        ELSE /\ todo' = todo \ {l}
             /\ IF latched[l] THEN UNCHANGED <<available, message>>
                ELSE /\ available' = available \cup
                                    {points[l][i] : i \in first}
                     /\ message' = TRUE
             /\ UNCHANGED <<main, seen>>
  /\ UNCHANGED <<plot, queueVars, shadowVars, latchVars, stateVars, points,
                 applied, flags, lifeVars, refresh, commit, updated>>

(* updateTexImage does not hand out a frame the layer has not heard of, and *)
(* drops those before one that is due as well, for a producer of times.     *)
(* Broken variant: it hands out whatever is queued.                         *)
AnyQueued(l, n) == n < next[l]
Heard(l, n) == n <= last[l]
Offers(l) == {k \in DOMAIN bq[l] : /\ Heard(l, bq[l][k].n)
                                   /\ k > 1 => Odd("timed")}

Acquired(l, k) == bq' = [bq EXCEPT ![l] = SubSeq(@, k + 1, Len(@))]

(* The head is dropped until it is the frame acquired; then it is, too.     *)
DropItems(l, n) == \E i \in DOMAIN items[l] :
  /\ items[l][i] = n
  /\ items' = [items EXCEPT ![l] = SubSeq(@, i + 1, Len(@))]

(* The points of frames that were latched and of changes that were applied  *)
(* go, the others stay in their order.                                      *)
Left(l, n) ==
  LET left == {i \in DOMAIN points[l] :
                 \/ points[l][i] \notin available \cap applied
                 \/ points[l][i].frame > n}
      inOrder == {row \in SeqOf(left, Len(points[l])) :
                    /\ ToSet(row) = left
                    /\ \A j, k \in DOMAIN row : j < k => row[j] < row[k]}
  IN {[k \in DOMAIN row |-> points[l][row[k]]] : row \in inOrder}

Latch(l, n) ==
  /\ current' = [current EXCEPT ![l] = n]
  /\ latched' = [latched EXCEPT ![l] = TRUE]
  /\ points' \in {[points EXCEPT ![l] = left] : left \in Left(l, n)}

AcquireLater(l) ==
  /\ Offers(l) = {} /\ bq[l] # <<>>
  /\ message' = TRUE
  /\ UNCHANGED <<bq, items, latchVars, points>>

(* Nothing to acquire: the layer goes on with the buffer it has.            *)
AcquireNothing(l) ==
  /\ bq[l] = <<>>
  /\ Latch(l, current[l])
  /\ UNCHANGED <<bq, items, failed, message>>

AcquireFrame(l, k) ==
  LET n == bq[l][k].n IN
  /\ ~failed[l]
  /\ Acquired(l, k)
  /\ DropItems(l, n)
  /\ message' = (message \/ items'[l] # <<>>)
  /\ Latch(l, n)
  /\ UNCHANGED failed

(* LayerRejecter: the buffer has not the size the layer was resized to.     *)
AcquireRejected(l, k) ==
  /\ Odd("rejects") /\ ~failed[l]
  /\ Acquired(l, k)
  /\ items' = [items EXCEPT ![l] = Tail(@)]
  /\ UNCHANGED <<latchVars, points, message>>

(* No EGLImage: from now on the layer ignores updates.                      *)
AcquireFails(l, k) ==
  /\ Odd("fails") \/ failed[l]
  /\ Acquired(l, k)
  /\ items' = [items EXCEPT ![l] = <<>>]
  /\ failed' = [failed EXCEPT ![l] = TRUE]
  /\ UNCHANGED <<current, latched, points, message>>

Acquire ==
  /\ main = "acquire"
  /\ \E l \in todo :
     /\ AtTurn(l)
     /\ \/ AcquireLater(l)
        \/ AcquireNothing(l)
        \/ \E k \in Offers(l) :
             AcquireFrame(l, k) \/ AcquireRejected(l, k) \/ AcquireFails(l, k)
     /\ todo' = todo \ {l}
  /\ main' = "latch" /\ seen' = {}
  /\ UNCHANGED <<plot, next, calls, last, stateVars, available, applied, flags,
                 lifeVars, refresh, commit, updated>>

(* handleMessageRefresh begins with preComposition.                         *)
Refresh ==
  /\ main = "latch" /\ todo = {}
  /\ main' = "idle" /\ refresh' = FALSE
  /\ IF refresh
     THEN /\ latched' = [l \in Layers |-> l \notin shown /\ latched[l]]
          /\ message' = (message \/ \E l \in shown : items[l] # <<>>)
     ELSE UNCHANGED <<latched, message>>
  /\ UNCHANGED <<plot, queueVars, shadowVars, current, failed, stateVars,
                 pointVars, flags, lifeVars, todo, seen, commit,
                 updated>>

MainThread ==
  \/ Invalidate
  \/ PushPendingState \/ ApplyPendingState \/ CommitLayer
  \/ CommitTransaction
  \/ HandlePageFlip \/ Decide \/ Acquire \/ Refresh

Callbacks(l) == OnFrameAvailable(l) \/ OnFrameReplaced(l)

Next ==
  \/ MainThread
  \/ \E l \in Layers :
       \/ Callbacks(l) \/ RemoveLayer(l) \/ Destroy(l)
       \/ \E b \in BOOLEAN : QueueBuffer(l, b) \/ Transact(l, b)

(* The main thread waits for a message.                                     *)
Waits == main = "idle" /\ ~message

(* The main thread runs, callbacks that may proceed do, and clients let go  *)
(* of the layers they removed.                                              *)
Spec ==
  /\ Init /\ [][Next]_vars
  /\ WF_vars(MainThread)
  /\ \A l \in Layers : WF_vars(Callbacks(l)) /\ WF_vars(Destroy(l))
-----------------------------------------------------------------------------
(* The shadow queue begins with every frame that the consumer may be handed *)
(* next: the loop of latchBuffer that drops items until it finds the frame  *)
(* acquired does not run out of the queue.                                  *)
ShadowHasWhatIsAcquired == \A l \in Layers : \A k \in Offers(l) :
  ~failed[l] => bq[l][k].n \in ToSet(items[l])

(* Clients deferred changes on frames of l in the order of the frames.      *)
InOrder(l) == \A i, j \in DOMAIN points[l] :
  i < j => points[l][i].frame <= points[l][j].frame

(* A frame reaches the screen together with the changes that were deferred  *)
(* on it before the layer decided to latch, if those came in order and the  *)
(* queue hands out its head: a frame that replaces it after the decision, or *)
(* that is due as well, does not wait.                                      *)
FramesWaitForChanges == [][
  \A l \in Layers :
    current'[l] # current[l] /\ InOrder(l) /\ ~Odd("timed") /\ ~Odd("async") =>
    \A p \in seen : p.frame <= current'[l] => p \in applied]_vars

(* The frame a change waits for has come, or will not: its layer is hidden  *)
(* or gone.                                                                 *)
Come(s) == s.barrier # NoLayer =>
  \/ s.frame <= last[s.barrier] \/ s.barrier \in dead
  \/ drawn[s.barrier].hidden

(* The changes of a layer are drawn in their order, and none that was       *)
(* deferred is applied while its frame is still to come.                    *)
ChangesWaitForFrames == [][
  \A l \in Layers :
    /\ drawn'[l].change >= drawn[l].change
    /\ Len(pending'[l]) < Len(pending[l]) => Come(pending[l][1])]_vars

(* Frames that wait to be latched, changes that wait though their frame has *)
(* come or their barrier layer is gone, and producers waiting in a callback: *)
(* never for ever (MCDisplay), unless a buffer is refused, cannot be used,  *)
(* or is not due for ever.                                                  *)
Due(s) == s.barrier # NoLayer =>
  s.frame <= last[s.barrier] \/ s.barrier \in dead
Outstanding ==
  /\ plot.odd \cap {"rejects", "fails", "timed"} = {}
  /\ \/ \E l \in shown : items[l] # <<>> \/ calls[l] # {}
     \/ \E l \in present : \/ now[l].modified
                           \/ pending[l] # <<>> /\ Due(pending[l][1])

(* "Ensure that callbacks are handled in order": a producer that waits for  *)
(* its turn gets it.                                                        *)
ProducersReturn == \A l \in Layers : calls[l] # {} ~> calls[l] = {}
=============================================================================
