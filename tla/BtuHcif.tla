------------------------------- MODULE BtuHcif -------------------------------
(***************************************************************************)
(* The stack's side of two requests that depend on what the controller can *)
(* do: the encryption key size (system/bt/stack/btu/btu_hcif.cc) and LE    *)
(* Rand (system/bt/stack/hcic/hciblecmds.cc), over the statics that        *)
(* BtController has filled in.                                             *)
(*                                                                         *)
(* One connection handle is followed.  Events and answers reach the stack's*)
(* thread in the order the controller sent them; commands reach the        *)
(* controller in the order they were sent, while the link they name may    *)
(* have changed or gone.                                                   *)
(***************************************************************************)
EXTENDS BtController

CONSTANTS
  MaxChanges,     \* bound: connections, encryption changes and key refreshes
                  \* of a start
  MaxInFlight,    \* bound: events on their way to the stack
  UrandomWorks    \* /dev/urandom can be opened and read

BtuConstants ==
  /\ MaxChanges \in Nat /\ MaxInFlight \in Nat
  /\ UrandomWorks \in BOOLEAN

VARIABLES
  link,     \* the link at the controller: "none", "plain", or encrypted with
            \* a "weak" key (shorter than MIN_KEY_SIZE) or a "good" one
  isLe,     \* links under this handle are LE links
  seen,     \* the stack's record of the link: "none", "plain", "encrypted"
  events,   \* events and answers on their way to the stack
  toChip,   \* commands on their way to the controller
  changes,  \* how many of these there have been
  rand      \* the caller of btsnd_hcic_ble_rand: "waits", "dropped" if its
            \* callback was destroyed without being run, else "idle"

btuVars == <<link, isLe, seen, events, toChip, changes, rand>>
vars == <<ctlVars, chipVars, btuVars>>

Links == {"none", "plain", "weak", "good"}
Encrypted == {"weak", "good"}
KeySizeAnswers == {"weak", "good", "insufficient", "failed"}
Events == {"connected", "disconnected", "on", "off", "failed", "refreshed",
           "refreshFailed"} \X {"event"}
          \cup KeySizeAnswers \X {"change", "refresh"}
          \cup {"bytes", "refused"} \X {"rand"}

Init ==
  /\ CtlInit
  /\ link = "none" /\ seen = "none"
  /\ isLe \in BOOLEAN /\ (isLe => "le" \in chip.can)
  /\ events = <<>> /\ toChip = <<>> /\ changes = 0
  /\ rand = "idle"

Running == crash = "no" /\ readable
Event(e) == Append(events, <<e, "event">>)
Room == Len(events) < MaxInFlight

-----------------------------------------------------------------------------
(* The controller and its peer.                                             *)

Connects ==
  /\ Running /\ Room /\ link = "none" /\ changes < MaxChanges
  /\ link' = "plain" /\ changes' = changes + 1
  /\ isLe => host.ble
  /\ events' = Event("connected")
  /\ UNCHANGED <<ctlVars, chipVars, isLe, seen, toChip, rand>>

Encrypts ==
  /\ Running /\ Room /\ link = "plain" /\ changes < MaxChanges
  /\ changes' = changes + 1
  /\ \E k \in Encrypted \cup {"plain"} :
       /\ link' = k
       /\ events' = Event(IF k = "plain" THEN "failed" ELSE "on")
  /\ UNCHANGED <<ctlVars, chipVars, isLe, seen, toChip, rand>>

Refreshes ==
  /\ Running /\ Room /\ link \in Encrypted /\ changes < MaxChanges
  /\ changes' = changes + 1
  /\ \E k \in Encrypted \cup {"plain"} :
       /\ link' = k
       /\ events' = Event(IF k = "plain" THEN "refreshFailed" ELSE "refreshed")
  /\ UNCHANGED <<ctlVars, chipVars, isLe, seen, toChip, rand>>

StopsEncryption ==
  /\ Running /\ Room /\ link \in Encrypted
  /\ link' = "plain" /\ events' = Event("off")
  /\ UNCHANGED <<ctlVars, chipVars, isLe, seen, toChip, changes, rand>>

PeerLeaves ==
  /\ Running /\ Room /\ link # "none"
  /\ link' = "none" /\ events' = Event("disconnected")
  /\ UNCHANGED <<ctlVars, chipVars, isLe, seen, toChip, changes, rand>>

(* What the controller says of the key of the handle's link.                *)
MeasuredKey ==
  CASE "keySize" \notin chip.can -> "failed"
    [] link = "none" -> "failed"
    [] link = "plain" -> "insufficient"
    [] OTHER -> link

Executes ==
  /\ Running /\ toChip # <<>>
  /\ LET c == Head(toChip) IN
     \/ /\ c = "disconnect"
        /\ link' = "none"
        /\ events' = IF link = "none" THEN events ELSE Event("disconnected")
     \/ /\ c \in {"change", "refresh"}
        /\ events' = Append(events, <<MeasuredKey, c>>)
        /\ UNCHANGED link
     \/ /\ c = "rand"
        /\ \E a \in {"bytes", "refused"} : events' = Append(events, <<a, "rand">>)
        /\ UNCHANGED link
  /\ toChip' = Tail(toChip)
  /\ UNCHANGED <<ctlVars, chipVars, isLe, seen, changes, rand>>

-----------------------------------------------------------------------------
(* btu_hcif.cc.  Each handler leaves: the link as the stack sees it and the *)
(* commands it sends.                                                       *)

Told(encrypted) ==
  IF seen = "none" THEN "none" ELSE IF encrypted THEN "encrypted" ELSE "plain"
Skip == UNCHANGED <<seen, toChip>>
Tell(encrypted) == seen' = Told(encrypted) /\ UNCHANGED toChip
Command(c) == toChip' = Append(toChip, c) /\ UNCHANGED seen

(* Whether the length of a BR/EDR key is asked for: by the flag of          *)
(* controller.cc, which is read without CHECK(readable).                    *)
AsksKeySize == ~isLe /\ host.keySize

(* btu_hcif_encryption_change_evt.                                          *)
EncryptionChange(e) ==
  CASE e = "failed" -> Skip
    [] e = "off" -> Tell(FALSE)
    [] e = "on" -> IF AsksKeySize THEN Command("change") ELSE Tell(TRUE)

(* btu_hcif_encryption_key_refresh_cmpl_evt.                                *)
KeyRefresh(e) ==
  CASE e = "refreshFailed" -> Tell(FALSE)
    [] e = "refreshed" -> IF AsksKeySize THEN Command("refresh") ELSE Tell(TRUE)

(* read_encryption_key_size_complete_after_encryption_change and            *)
(* ..._after_key_refresh, which decide alike.                               *)
(* Broken variant: a short key is let through.                              *)
ShortKeyPasses(a) ==
  CASE a = "insufficient" -> Skip
    [] a = "failed" -> Command("disconnect")
    [] OTHER -> Tell(TRUE)
KeySizeComplete(a) ==
  CASE a = "insufficient" -> Skip
    [] a \in {"failed", "weak"} -> Command("disconnect")
    [] a = "good" -> Tell(TRUE)

HandleLinkEvent(e) ==
  \/ /\ e \in {"connected", "disconnected"}
     /\ seen' = IF e = "connected" THEN "plain" ELSE "none"
     /\ UNCHANGED toChip
  \/ e \in {"on", "off", "failed"} /\ EncryptionChange(e)
  \/ e \in {"refreshed", "refreshFailed"} /\ KeyRefresh(e)

(* btsnd_hcic_ble_rand_from_host: without /dev/urandom it returns, and the  *)
(* callback is destroyed, rather than hand out zeros.                       *)
FromHost == IF UrandomWorks THEN "idle" ELSE "dropped"

(* The lambda of btsnd_hcic_ble_rand: bytes from the controller or, if it   *)
(* failed, from the host.                                                   *)
(* Broken variant: a refusal is only logged.                                *)
RefusalLogged(a) == IF a = "bytes" THEN "idle" ELSE "waits"
RandComplete(a) == IF a = "bytes" THEN "idle" ELSE FromHost

(* A task of the stack's message loop.                                      *)
Handles ==
  /\ Running /\ events # <<>>
  /\ LET e == Head(events) IN
     \/ /\ e[2] = "event" /\ HandleLinkEvent(e[1]) /\ UNCHANGED rand
     \/ /\ e[2] \in {"change", "refresh"} /\ KeySizeComplete(e[1])
        /\ UNCHANGED rand
     \/ /\ e[2] = "rand" /\ rand' = RandComplete(e[1]) /\ Skip
  /\ events' = Tail(events)
  /\ UNCHANGED <<ctlVars, chipVars, link, isLe, changes>>

(* btsnd_hcic_ble_rand.                                                     *)
BleRand ==
  /\ Running /\ rand # "waits"
  /\ IF host.ble THEN rand' = "waits" /\ Command("rand")
                 ELSE rand' = FromHost /\ Skip
  /\ UNCHANGED <<ctlVars, chipVars, link, isLe, events, changes>>

-----------------------------------------------------------------------------
(* The modules start and stop below the stack: nothing is delivered while   *)
(* they are down (do_in_hci_thread returns without a message loop, and what *)
(* it was given is lost), and the controller is reset when they start.      *)

Starts == StartUp /\ UNCHANGED btuVars
Learns == Answered /\ UNCHANGED btuVars
Stops ==
  /\ ShutDown
  /\ link' = "none" /\ seen' = "none" /\ events' = <<>> /\ toChip' = <<>>
  /\ rand' = "idle" /\ changes' = 0
  /\ UNCHANGED isLe

(* The process has crashed, or the last start is over.                      *)
Ended ==
  /\ crash # "no" \/ (starts = MaxStarts /\ ~readable /\ awaiting = "none")
  /\ UNCHANGED <<ctlVars, chipVars, btuVars>>

Next ==
  \/ Starts \/ Learns \/ Stops \/ Ended
  \/ Connects \/ Encrypts \/ Refreshes \/ StopsEncryption \/ PeerLeaves
  \/ Executes \/ Handles \/ BleRand

(* The controller answers, and the message loop runs its tasks.             *)
Fairness == WF_vars(Learns) /\ WF_vars(Executes) /\ WF_vars(Handles)
Spec == Init /\ [][Next]_vars /\ Fairness

-----------------------------------------------------------------------------
(* Properties.                                                              *)

(* With nothing under way the stack and the controller agree on the link:   *)
(* whether there is one and whether it is encrypted; and a BR/EDR link with *)
(* a key that is too short is gone if the controller could tell its length. *)
SettledAgreement ==
  Running /\ events = <<>> /\ toChip = <<>> =>
    /\ seen = "none" <=> link = "none"
    /\ seen = "encrypted" <=> link \in Encrypted
    /\ link = "weak" => isLe \/ "keySize" \notin chip.can

(* Who waits while the stack runs, though not for ever (MCBluetooth).  Who  *)
(* waits for an encrypted link is told or loses the link, also when a       *)
(* controller has no key size to read; who asks for random bytes gets them, *)
(* from the controller or, with a working /dev/urandom, from the host.      *)
BtuAwaits ==
  \/ StartsUp
  \/ Running /\ link \in Encrypted /\ seen # "encrypted"
  \/ Running /\ rand # "idle"
=============================================================================
