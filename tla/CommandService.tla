--------------------------- MODULE CommandService ----------------------------
(***************************************************************************)
(* What the HCI layer promises whoever sends a command: it is executed     *)
(* once and answered once, with the controller's answer to that command    *)
(* and no other; afterwards each of its two buffers, the command and the   *)
(* answer, is the client's or has been freed, never both.  A command is    *)
(* lost only when the layer is shut down.  HciCommandFlow implements it.   *)
(***************************************************************************)
CONSTANTS Clients   \* the commands, each sent again once it is done with

VARIABLES
  open,      \* the layer is up
  asked,     \* commands given to the layer
  held,      \* commands the controller has, or has answered on the way back
  answered,  \* commands whose client has the answer
  lost,      \* commands that will never be answered
  given,     \* buffers handed to clients
  freed      \* buffers freed by the layer

serviceVars == <<open, asked, held, answered, lost, given, freed>>

Buffers(c) == {<<c, "command">>, <<c, "answer">>}

Init ==
  /\ open = FALSE
  /\ asked = {} /\ held = {} /\ answered = {} /\ lost = {}
  /\ given = {} /\ freed = {}

Idle(c) == c \notin asked \cup held \cup answered \cup lost

Ask(c) ==
  /\ Idle(c)
  /\ asked' = asked \cup {c}
  /\ UNCHANGED <<open, held, answered, lost, given, freed>>

(* The layer is down, or going down: the command may be freed, or leaked.   *)
AskInVain(c) ==
  /\ Idle(c) /\ ~open
  /\ lost' = lost \cup {c}
  /\ \E b \in {{}, {<<c, "command">>}} : freed' = freed \cup b
  /\ UNCHANGED <<open, asked, held, answered, given>>

Take(c) ==
  /\ c \in asked /\ c \notin held
  /\ asked' = asked \ {c} /\ held' = held \cup {c}
  /\ UNCHANGED <<open, answered, lost, given, freed>>

(* One buffer may go to the client with the answer.                         *)
Answer(c) ==
  /\ c \in held \ asked
  /\ held' = held \ {c} /\ answered' = answered \cup {c}
  /\ \E b \in {{}} \cup {{x} : x \in Buffers(c)} : given' = given \cup b
  /\ UNCHANGED <<open, asked, lost, freed>>

(* The layer frees what the client was not given.                           *)
Reclaim(c) ==
  /\ c \in answered
  /\ freed' = freed \cup (Buffers(c) \ given)
  /\ UNCHANGED <<open, asked, held, answered, lost, given>>

Done(c) ==
  /\ c \in answered /\ Buffers(c) \subseteq given \cup freed
  /\ answered' = answered \ {c}
  /\ given' = given \ Buffers(c) /\ freed' = freed \ Buffers(c)
  /\ UNCHANGED <<open, asked, held, lost>>

Open  == ~open /\ open' = TRUE
         /\ UNCHANGED <<asked, held, answered, lost, given, freed>>
Close == open /\ open' = FALSE
         /\ UNCHANGED <<asked, held, answered, lost, given, freed>>

Lose(cs) ==
  /\ ~open
  /\ asked' = asked \ cs /\ held' = held \ cs /\ lost' = lost \cup cs
  /\ UNCHANGED <<open, answered, given, freed>>

(* The layer passes a command on where nobody sees it.                      *)
Work == UNCHANGED serviceVars

Next ==
  \/ Work \/ Open \/ Close
  \/ \E c \in Clients : \/ Ask(c) \/ AskInVain(c) \/ Take(c) \/ Answer(c)
                        \/ Reclaim(c) \/ Done(c)
  \/ \E cs \in SUBSET (asked \cup held) : Lose(cs)

Spec == Init /\ [][Next]_serviceVars
=============================================================================
