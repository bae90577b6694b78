------------------------------ MODULE BtChips -------------------------------
(* The controllers with which BtController and BtuHcif are checked.         *)

(* The phone's 2.1+EDR chip, one that knows the key size, an LE chip of     *)
(* Bluetooth 4.0 that counts its LE host page only once it is needed, one   *)
(* with more pages than the host keeps, one of Bluetooth 5.0, and one that  *)
(* answers with any page.                                                   *)
SixChips ==
  {[can |-> {"ssp"}, pages |-> 0, echoes |-> TRUE],
   [can |-> {"ssp", "keySize", "codecs"}, pages |-> 1, echoes |-> TRUE],
   [can |-> {"ssp", "le", "keySize", "privacy"}, pages |-> 0, echoes |-> TRUE],
   [can |-> {"le", "offload", "dataLength", "extAdv"}, pages |-> 3,
    echoes |-> TRUE],
   [can |-> {"ssp", "le", "sc", "keySize", "codecs", "privacy", "offload",
             "dataLength", "extAdv"}, pages |-> 2, echoes |-> TRUE],
   [can |-> {"ssp", "le"}, pages |-> 2, echoes |-> FALSE]}
=============================================================================
