-------------------------------- MODULE Screen --------------------------------
(***************************************************************************)
(* What SurfaceFlinger promises its clients of the screen: the changes of  *)
(* a transaction are made together, and drawn together with all that was   *)
(* made before; one that animates is put off only until the last is drawn; *)
(* a caller returns after its request was followed, and if it was to wait, *)
(* after what it changed is drawn.  A wait that times out undoes the last  *)
(* two promises for all.  Transactions implements it.                      *)
(***************************************************************************)
CONSTANTS
  Clients,   \* each has one layer
  Tokens,    \* of the displays
  Contents,  \* what a display may be or show
  Requests,  \* transactions: [anim, sync, change]
  NoRequest, \* of who is in none
  Absent     \* the display that is not there

VARIABLES
  layers, displays,           \* what the screen shall be
  shownLayers, shownDisplays, \* what it is
  open,       \* clients with changes that are not yet drawn
  animating,  \* a step of an animation is among those changes
  at,         \* where each client is: "idle", "anim" (put off) or "waits"
  request,    \* and what it asked for
  late        \* a wait has timed out

screenVars == <<layers, displays, shownLayers, shownDisplays, open, animating,
                at, request, late>>
shownVars  == <<shownLayers, shownDisplays>>
stateVars  == <<layers, displays, shownVars, open, animating>>

Init ==
  /\ shownLayers = layers /\ shownDisplays = displays
  /\ open = {} /\ animating = FALSE /\ late = FALSE
  /\ at = [c \in Clients |-> "idle"]
  /\ request = [c \in Clients |-> NoRequest]

(* Nothing is to be done for the request.                                   *)
Void(r) ==
  /\ ~r.sync
  /\ \/ r.change.kind = "none"
     \/ /\ r.change.kind = "display"
        /\ displays[r.change.token] \in {Absent, r.change.surface}

(* All that c asks for is done at once.                                     *)
Make(c, r) ==
  /\ r.anim => ~animating \/ late'
  /\ \/ Void(r) /\ UNCHANGED <<displays, open, animating>>
     \/ /\ ~Void(r)
        /\ open' = open \cup {c} /\ animating' = (animating \/ r.anim)
        /\ displays' =
             IF r.change.kind = "display" /\ displays[r.change.token] # Absent
             THEN [displays EXCEPT ![r.change.token] = r.change.surface]
             ELSE displays
  /\ UNCHANGED <<layers, shownVars>>

Stands(c, where, r) ==
  /\ at' = [at EXCEPT ![c] = where]
  /\ request' = [request EXCEPT ![c] = r]

(* Only who need not wait may go on at once.                                *)
Follow(c, r) ==
  /\ Stands(c, "waits", r) \/ (~r.sync /\ Stands(c, "idle", NoRequest))
  /\ Make(c, r)

Ask(c) ==
  /\ at[c] = "idle" /\ late' = late
  /\ \E r \in Requests : Follow(c, r)

PutOff(c) ==
  /\ at[c] = "idle" /\ animating
  /\ \E r \in Requests : r.anim /\ Stands(c, "anim", r)
  /\ UNCHANGED <<stateVars, late>>

GoOn(c) ==
  /\ at[c] = "anim" /\ (late => late')
  /\ Follow(c, request[c])

(* All that c changed, its layer's coming and going included, is drawn.     *)
Settled(c) == c \notin open /\ (c \in layers <=> c \in shownLayers)

Return(c) ==
  /\ at[c] = "waits" /\ (late => late')
  /\ Settled(c) \/ late'
  /\ Stands(c, "idle", NoRequest)
  /\ UNCHANGED stateVars

AddLayer(c) ==
  /\ at[c] = "idle"
  /\ layers' = layers \cup {c}
  /\ UNCHANGED <<displays, shownVars, open, animating, at, request, late>>

RemoveLayer(c) ==
  /\ at[c] = "idle"
  /\ layers' = layers \ {c} /\ open' = open \cup {c}
  /\ UNCHANGED <<displays, shownVars, animating, at, request, late>>

(* A display comes or goes.                                                 *)
Plug ==
  /\ \E t \in Tokens, x \in Contents :
       /\ displays[t] = Absent \/ x = Absent
       /\ displays' = [displays EXCEPT ![t] = x]
  /\ UNCHANGED <<layers, shownVars, open, animating, at, request, late>>

(* Everything at once.                                                      *)
Draw ==
  /\ shownLayers' = layers /\ shownDisplays' = displays
  /\ open' = {} /\ animating' = FALSE
  /\ UNCHANGED <<layers, displays, at, request, late>>

Next ==
  \/ \E c \in Clients :
       \/ Ask(c) \/ PutOff(c) \/ GoOn(c) \/ Return(c)
       \/ AddLayer(c) \/ RemoveLayer(c)
  \/ Plug \/ Draw

Spec == Init /\ [][Next]_screenVars
=============================================================================
