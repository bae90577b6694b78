----------------------------- MODULE RilAnswers -----------------------------
(***************************************************************************)
(* What the response and indication functions of                           *)
(* hardware/ril/libril/ril_service.cpp make of a payload of the vendor's   *)
(* RIL before they tell the client: the checks of pointer and length, the  *)
(* values given instead, and the error said.                               *)
(*                                                                         *)
(* A payload is "absent" (NULL and 0), "cut" (too short for one unit),     *)
(* "whole", "slack" (a unit and some bytes more) or, for the identity of   *)
(* the phone, "digits": one string of an IMEI instead of four pointers.    *)
(* CDMA records are "odd" if one is too long or of a name not told.        *)
(***************************************************************************)

Payloads == {"absent", "cut", "whole", "slack"}
PayloadsOf(kind) ==
  Payloads \cup (IF kind = "identity" THEN {"digits"} ELSE {})
           \cup (IF kind = "records" THEN {"odd"} ELSE {})

(* The payloads each kind of function reads.  "counted" divides the length  *)
(* before it compares, so that a remainder goes unnoticed; "atLeast" takes  *)
(* the short structures of this phone's vendor as well as longer ones.      *)
Reads(kind) ==
  CASE kind \in {"int", "intOrEmpty", "struct", "either", "list", "dataCall",
                 "channel", "carriers", "records"}      -> {"whole"}
    [] kind \in {"counted", "atLeast", "registration"}  -> {"whole", "slack"}
    [] kind = "identity"             -> {"whole", "slack", "digits"}
    [] kind \in {"text", "unsized"}  -> {"cut", "whole", "slack"}
    [] OTHER                         -> {}

(* Answers that may come without a payload and are not taken for broken:    *)
(* -1, an empty string or list, the status ERROR_UNSPECIFIED, the channel   *)
(* -1, or "all carriers allowed" is told instead.                           *)
MayBeAbsent ==
  {"intOrEmpty", "text", "list", "dataCall", "channel", "carriers"}

Broken(kind, payload) ==
  /\ kind # "plain"
  /\ payload \notin Reads(kind)
  /\ ~(payload = "absent" /\ kind \in MayBeAbsent)

(* "if (e == RIL_E_SUCCESS) responseInfo.error = INVALID_RESPONSE".         *)
(* Broken variant: the vendor's error is passed on whatever came with it.   *)
SaidUnchecked(kind, e, payload) == e
Said(kind, e, payload) ==
  IF e = "SUCCESS" /\ Broken(kind, payload) THEN "INVALID_RESPONSE" ELSE e

(* Whether the client is given the vendor's data.                           *)
Given(kind, payload) == payload \in Reads(kind)

(* Indications: one whose payload is missing or of another length is logged *)
(* and not told.  "hex" payloads are odd or hold other characters if cut or *)
(* slack; a call ring needs none, a list may be empty.                      *)
Usable(kind, payload) ==
  CASE kind = "bare" -> TRUE
    [] kind \in {"ring", "emptyOrList"} -> payload \in {"absent", "whole"}
    [] kind = "hex"  -> payload = "whole"
    [] OTHER         -> payload \in Reads(kind)
=============================================================================
