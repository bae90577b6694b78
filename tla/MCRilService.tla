---------------------------- MODULE MCRilService ----------------------------
(* Small instances of RilService for TLC.                                   *)
EXTENDS RilService, RilSettings

(* A client that may die while the service refuses what it asked, as this   *)
(* phone's always refuses setIndicationFilter.                              *)
LostSettings == {[Setting EXCEPT !.version = 10, !.mortal = TRUE,
                                 !.refuses = TRUE, !.calls = 1,
                                 !.asks = {"setIndicationFilter"}]}
=============================================================================
