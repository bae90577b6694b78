-------------------------- MODULE MCHciCommandFlow --------------------------
(* Small instances of HciCommandFlow for TLC.                               *)
EXTENDS HciCommandFlow

CONSTANTS f, g, h, NONE

(* f: a futured vendor command, g: a command with callbacks, h: a legacy    *)
(* command with neither, of the same opcode as g.                           *)
ThreeOpcodes == (f :> "vsc1") @@ (g :> "op1") @@ (h :> "op1")
ThreeKinds == (f :> "future") @@ (g :> "callback") @@ (h :> "plain")
VscOpcodes == {"vsc1", "vsc2"}

(* Two commands of different opcodes.                                       *)
TwoOpcodes == (f :> "vsc1") @@ (g :> "op1")
TwoKinds == (f :> "future") @@ (g :> "callback")
=============================================================================
