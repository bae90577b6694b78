---------------------------- MODULE RilSettings -----------------------------
(* The settings in which RilService is checked.                             *)
EXTENDS RilRequests

AllPayloads == Payloads \cup {"digits", "odd"}

Setting == [version |-> 15, mortal |-> FALSE, refuses |-> FALSE,
            versions |-> {TRUE}, asks |-> {}, calls |-> 0, news |-> 0,
            tells |-> {}, payloads |-> {"whole"}]

(* The versions of the vendor's RIL that make a difference to a method.     *)
VersionsFor(m) ==
  IF Requests[m][2] \in {"profile", "dataCall", "deviceState", "filter"}
  THEN {3, 10, 15} ELSE {10}

(* Every method once, alone, with every payload and every refusal; every    *)
(* indication once, to clients of both interfaces.                          *)
EachAlone ==
  UNION { { [Setting EXCEPT !.version = v, !.refuses = TRUE, !.asks = {m},
                            !.versions = BOOLEAN, !.calls = 1,
                            !.payloads = AllPayloads]
            : v \in VersionsFor(m) } : m \in Methods }
  \cup
  { [Setting EXCEPT !.versions = BOOLEAN, !.tells = {i}, !.news = 1,
                    !.payloads = AllPayloads]
    : i \in DOMAIN Indications }

(* A client that dies while calls, answers and indications are under way.   *)
Dying ==
  [Setting EXCEPT !.version = 10, !.mortal = TRUE,
                  !.asks = {"getMute"}, !.calls = 2,
                  !.news = 2, !.tells = {"newSms"}]

(* A client that lives while the service answers by itself and the vendor   *)
(* answers and indicates.                                                   *)
Refusing ==
  [Setting EXCEPT !.refuses = TRUE, !.calls = 2, !.news = 1,
                  !.asks = {"dial", "startKeepalive", "setSimCardPower"},
                  !.tells = {"networkScanResult"}]

SoundSettings == EachAlone \cup {Dying, Refusing}
=============================================================================
