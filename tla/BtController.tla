---------------------------- MODULE BtController ----------------------------
(***************************************************************************)
(* What the Bluetooth stack learns of its controller when it starts:       *)
(* system/bt/device/src/controller.cc (start_up, shut_down and the getters)*)
(* and system/bt/hci/src/hci_packet_parser.cc, which reads the answers.    *)
(*                                                                         *)
(* start_up sends one command at a time and awaits its answer, so a state  *)
(* is the command that is awaited.  The statics of controller.cc survive   *)
(* shut_down, and so do they here.  The controller is outside the          *)
(* repository: it has a set of abilities, and answers a command it cannot  *)
(* perform with an error or, as the chip of this phone does, with Command  *)
(* Status.                                                                 *)
(***************************************************************************)
EXTENDS Integers, Sequences, FiniteSetsExt

CONSTANTS
  Chips,      \* the controllers: what each can do, its last feature page, and
              \* whether it answers with the page it was asked for
  Reliable,   \* commands a controller that knows them always performs
  MaxStarts   \* bound: calls of start_up

LeAbilities == {"privacy", "dataLength", "extAdv"}
Abilities == LeAbilities \cup
             {"ssp", "le", "sc", "offload", "codecs", "keySize"}

(* The commands start_up may send, in its order.                            *)
Steps == <<"reset", "bufferSize", "hostBufferSize", "version", "bdAddr",
           "commands", "page0", "writeSsp", "writeLeHost", "pages",
           "offload", "writeSc", "whiteList", "bleBufferSize", "bleStates",
           "bleFeatures", "resolvingList", "dataLength", "advLength",
           "advSets", "bleEventMask", "eventMask", "codecs">>
StartUpCommands == {Steps[i] : i \in DOMAIN Steps}
Place == [c \in StartUpCommands |-> CHOOSE i \in DOMAIN Steps : Steps[i] = c]

LeCommands == {"whiteList", "bleBufferSize", "bleStates", "bleFeatures",
               "resolvingList", "dataLength", "advLength", "advSets",
               "bleEventMask"}

(* How hci_packet_parser.cc reads the answer: parse_generic_command_complete *)
(* ignores it, some parsers take no answer for "not supported", some CHECK  *)
(* that there is one and some read whatever pointer they get.               *)
Generic   == {"reset", "hostBufferSize", "writeSsp", "writeLeHost",
              "writeSc", "bleEventMask", "eventMask"}
Optional  == {"offload", "codecs"}
Unchecked == {"resolvingList", "dataLength", "advLength", "advSets"}
Mandatory == StartUpCommands \ (Generic \cup Optional \cup Unchecked)

PageCount == 3    \* MAX_FEATURES_CLASSIC_PAGE_COUNT
Bits == {"ssp", "le", "leHost", "sc"}

ControllerConstants ==
  /\ Chips \subseteq [can : SUBSET Abilities, pages : Nat, echoes : BOOLEAN]
  /\ Reliable \subseteq StartUpCommands
  /\ MaxStarts \in Nat \ {0}

VARIABLES
  host,      \* the statics of controller.cc
  readable,  \* the flag the getters CHECK
  awaiting,  \* the command start_up awaits, "none" outside start_up
  starts,    \* calls of start_up so far
  asked,     \* commands sent in the start_up that runs
  crash,     \* "check": an answer was missing, "page": a page was too high,
             \* or not the one asked for, "null": a missing answer was read
  chip,      \* the controller
  modes      \* what the host has switched on in it: "ssp", "leHost", "sc"

ctlVars == <<host, readable, awaiting, starts, asked, crash>>
chipVars == <<chip, modes>>

HostStatics ==
  [page : 0..PageCount, last : Nat,
   classic : [0..(PageCount - 1) -> SUBSET Bits],
   commands : SUBSET {"codecs", "keySize"},
   ssp : BOOLEAN, sc : BOOLEAN, offload : BOOLEAN, ble : BOOLEAN,
   keySize : BOOLEAN, codecs : BOOLEAN, bleFeatures : SUBSET LeAbilities,
   aclBle : {"unset", "own", "classic"}]

InitialStatics ==
  [page |-> 0, last |-> 0, classic |-> [p \in 0..(PageCount - 1) |-> {}],
   commands |-> {}, ssp |-> FALSE, sc |-> FALSE, offload |-> FALSE,
   ble |-> FALSE, keySize |-> FALSE, codecs |-> FALSE, bleFeatures |-> {}, aclBle |-> "unset"]

CtlInit ==
  /\ host = InitialStatics
  /\ readable = FALSE /\ awaiting = "none" /\ starts = 0
  /\ asked = {} /\ crash = "no"
  /\ chip \in Chips
  /\ modes = {}

-----------------------------------------------------------------------------
(* The controller.                                                          *)

Knows(c) ==
  CASE c = "writeSsp" -> "ssp" \in chip.can
    [] c = "writeSc" -> "sc" \in chip.can
    [] c \in {"offload", "codecs"} -> c \in chip.can
    [] c = "resolvingList" -> "privacy" \in chip.can
    [] c = "dataLength" -> "dataLength" \in chip.can
    [] c \in {"advLength", "advSets"} -> "extAdv" \in chip.can
    [] c \in LeCommands \cup {"writeLeHost"} -> "le" \in chip.can
    [] OTHER -> TRUE

Answers(c) ==
  (IF Knows(c) THEN {"complete"} ELSE {}) \cup
  (IF Knows(c) /\ c \in Reliable THEN {} ELSE {"error", "status"})

(* A controller that was told of an LE host has feature page 1.             *)
PagesNow == IF "leHost" \in modes THEN Max({chip.pages, 1}) ELSE chip.pages
PageOf(p) ==
  CASE p = 0 -> chip.can \cap {"ssp", "le"}
    [] p = 1 -> modes \cap {"leHost"}
    [] p = 2 -> chip.can \cap {"sc"}
    [] OTHER -> {}

(* The page that an answer says it is.                                      *)
PagesTold(c) ==
  IF chip.echoes THEN {IF c = "pages" THEN host.page ELSE 0} ELSE 0..PageCount

ModesAfter(c) ==
  CASE c = "reset" -> {}
    [] c = "writeSsp" -> modes \cup {"ssp"}
    [] c = "writeLeHost" -> modes \cup {"leHost"}
    [] c = "writeSc" -> modes \cup {"sc"}
    [] OTHER -> modes

-----------------------------------------------------------------------------
(* hci_packet_parser.cc: what each answer leaves in the statics.  The sizes *)
(* and names the host only hands on are not kept.                           *)

(* STREAM_TO_UINT8 of the two page fields, then the page itself.  The page  *)
(* number p is the controller's, and takes the place of the one asked for.  *)
(* Broken variant: after the last page the host keeps, page 0 comes again.  *)
PageWraps(h, p) == [h EXCEPT !.page = (p + 1) % PageCount, !.last = PagesNow,
                             !.classic = [@ EXCEPT ![p] = PageOf(p)]]
FeaturePage(h, p) == [h EXCEPT !.page = p + 1, !.last = PagesNow,
                               !.classic = [@ EXCEPT ![p] = PageOf(p)]]

(* "If we modified the BT_HOST_SUPPORT, we will need ext. feat. page 1".    *)
PageOneNeeded(h) == [h EXCEPT !.last = Max({h.last, 1})]

(* Response of 0 indicates ble has the same buffer size as classic.         *)
BleBufferSize(h, zero) == [h EXCEPT !.aclBle = IF zero THEN "classic" ELSE "own"]

Stored(c, h, p) ==
  CASE c = "commands" ->
         {[h EXCEPT !.commands = chip.can \cap {"codecs", "keySize"}]}
    [] c = "page0" ->
         {LET h1 == FeaturePage(h, p)
          IN  [h1 EXCEPT !.ssp = "ssp" \in h1.classic[0]]}
    [] c = "pages" -> {FeaturePage(h, p)}
    [] c = "bleBufferSize" -> {BleBufferSize(h, z) : z \in BOOLEAN}
    [] c = "bleFeatures" -> {[h EXCEPT !.bleFeatures = chip.can \cap LeAbilities]}
    [] c = "codecs" -> {[h EXCEPT !.codecs = TRUE]}
    [] OTHER -> {h}

(* parse_ble_read_offload_features_response and, after it, the answer's     *)
(* weight for secure connections.                                           *)
OffloadRead(h, ok) ==
  [h EXCEPT !.offload = ok,
            !.sc = IF ok THEN "sc" \in h.classic[2] ELSE @]

Parsed(c, h, ok, p) ==
  CASE c = "offload" -> {OffloadRead(h, ok)}
    [] c = "writeLeHost" -> {PageOneNeeded(h)}
    [] OTHER -> IF ok THEN Stored(c, h, p) ELSE {h}

-----------------------------------------------------------------------------
(* The order of start_up.                                                   *)

(* Broken variant: any chip with a second page is taken for an LE one.      *)
LePageSeen(h) == h.last >= 1
LeHostSeen(h) == h.last >= 1 /\ "leHost" \in h.classic[1]

MorePages(h) == h.page <= h.last /\ h.page < PageCount

(* Which commands the conditions of start_up let it send.                   *)
Wanted(c, h) ==
  CASE c = "writeSsp" -> h.ssp
    [] c = "writeLeHost" -> "le" \in h.classic[0]
    [] c = "pages" -> MorePages(h)
    [] c = "writeSc" -> h.offload /\ h.sc
    [] c = "resolvingList" -> h.ble /\ "privacy" \in h.bleFeatures
    [] c = "dataLength" -> h.ble /\ "dataLength" \in h.bleFeatures
    [] c \in {"advLength", "advSets"} -> h.ble /\ "extAdv" \in h.bleFeatures
    [] c \in LeCommands -> h.ble
    [] c = "eventMask" -> h.ssp
    [] c = "codecs" -> "codecs" \in h.commands
    [] OTHER -> TRUE

(* ble_supported is set between the secure connections and the LE commands. *)
Decided(c, h) ==
  IF Place[c] \in Place["offload"]..Place["writeSc"]
  THEN [h EXCEPT !.ble = LeHostSeen(h)] ELSE h

Later(c, h) ==
  {i \in (Place[c] + 1)..Len(Steps) : Wanted(Steps[i], h)}
FirstLater(c, h) == IF Later(c, h) = {} THEN "none" ELSE Steps[Min(Later(c, h))]

(* Broken variant: every page is asked for before the host's own support    *)
(* is written.                                                              *)
PagesFirst(c, h) ==
  IF c \in {"page0", "pages"} /\ MorePages(h) THEN "pages"
                                              ELSE FirstLater(c, h)
After(c, h) ==
  IF c = "pages" /\ MorePages(h) THEN "pages" ELSE FirstLater(c, h)

Send(c) == awaiting' = c /\ asked' = IF c = "none" THEN {} ELSE asked \cup {c}

StartUp ==
  /\ crash = "no" /\ ~readable /\ awaiting = "none" /\ starts < MaxStarts
  /\ starts' = starts + 1
  /\ awaiting' = "reset" /\ asked' = {"reset"}
  /\ UNCHANGED <<host, readable, crash, chipVars>>

(* The answer to the awaited command is parsed and the next command sent;   *)
(* after the last one the flag for the key size is kept and the getters     *)
(* may be used.                                                             *)
(* Broken variant: the controller is taken to know what it does not.        *)
AssumeKeySize(h) == [h EXCEPT !.keySize = TRUE]
KeepKeySize(h) == [h EXCEPT !.keySize = "keySize" \in h.commands]

(* What becomes of the process when the answer is parsed: p is less than    *)
(* feature_pages_count, and 0 when that is what start_up asked for first.   *)
Outcome(c, a, p) ==
  CASE a # "complete" /\ c \in Mandatory -> "check"
    [] a # "complete" /\ c \in Unchecked -> "null"
    [] (c = "page0" /\ p # 0) \/ (c = "pages" /\ p >= PageCount) -> "page"
    [] OTHER -> "no"

Advance(c, h) ==
  LET next == After(c, h) IN
  /\ Send(next)
  /\ readable' = (next = "none")
  /\ host' = IF next = "none" THEN KeepKeySize(h) ELSE h

Answered ==
  /\ crash = "no" /\ awaiting # "none"
  /\ \E a \in Answers(awaiting), p \in PagesTold(awaiting) :
       /\ modes' = IF a = "complete" THEN ModesAfter(awaiting) ELSE modes
       /\ crash' = Outcome(awaiting, a, p)
       /\ IF crash' # "no"
          THEN UNCHANGED <<host, readable, awaiting, asked>>
          ELSE \E h \in Parsed(awaiting, host, a = "complete", p) :
                 Advance(awaiting, Decided(awaiting, h))
  /\ UNCHANGED <<starts, chip>>

ShutDown ==
  /\ crash = "no" /\ readable
  /\ readable' = FALSE
  /\ UNCHANGED <<host, awaiting, starts, asked, crash, chipVars>>

-----------------------------------------------------------------------------
(* Properties.                                                              *)

(* Once readable, what the getters say is what this controller can do, from *)
(* the answers of this start and not of an earlier one: LE is reported      *)
(* exactly if the controller runs with an LE host (told by one that answers *)
(* with the pages it is asked for), its LE features are the controller's    *)
(* own, and the key size flag is right either way.                          *)
ReadyMatchesChip ==
  readable =>
    /\ chip.echoes => (host.ble <=> "leHost" \in modes)
    /\ host.ble => /\ host.bleFeatures = chip.can \cap LeAbilities
                   /\ host.aclBle # "unset"
    /\ host.ssp <=> "ssp" \in chip.can
    /\ host.keySize <=> "keySize" \in chip.can

(* The controller is asked only for what it can answer as asked.  An LE     *)
(* command goes only to a controller that was told of an LE host, however   *)
(* its start went, if it gives the pages it is asked for: the 2.1 chip of   *)
(* this phone never sees one.  No page after 0 is asked for before the      *)
(* host's own support is written, whatever pages come: "the controller's    *)
(* response for page 1 may be dependent on what we configure from page 0"   *)
(* (controller.cc:140).                                                     *)
LeOnlyToLe == chip.echoes /\ awaiting \in LeCommands => "leHost" \in modes

PagesAfterHostBits ==
  awaiting = "pages" =>
    /\ "ssp" \in chip.can => "writeSsp" \in asked
    /\ "le" \in chip.can => "writeLeHost" \in asked

AskedInOrder == LeOnlyToLe /\ PagesAfterHostBits

(* start_up under way ends, however many pages the controller has: ready,   *)
(* or in a CHECK of an answer it got no use of, or in a parser that reads   *)
(* a refusal through NULL, and in no other CHECK (MCBluetooth).  This is for a controller that answers with the page it   *)
(* is asked for.  Another ends the process (a page 0 or a number that was   *)
(* not expected) or, with a page that has been, is asked again for ever:    *)
(* the loop over the pages goes on from the number in the answer.           *)
StartsUp ==
  chip.echoes /\ awaiting # "none" /\ crash \notin {"check", "null"}
=============================================================================
