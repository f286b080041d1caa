----------------------------- MODULE TrmnlState -----------------------------
(***************************************************************************)
(* The fields of class TrmnlState that decide what the device does on its  *)
(* next wake, and what NVS can hold when power fails while save() writes   *)
(* them.                                                                   *)
(*                                                                         *)
(* An api_key is represented by the server that issued it, so that a key   *)
(* and a server can be compared; None stands for the empty string.         *)
(* Telemetry that no decision of the device reads (friendly_id, wakes,     *)
(* last_refresh) is left out, and so is setup_fail, which only sets the    *)
(* length of a sleep.                                                      *)
(***************************************************************************)
EXTENDS Naturals

CONSTANTS
  Servers,       \* server base URLs a user can enter
  Files,         \* image file names a server can announce
  Urls,          \* firmware URLs a server can announce
  None,          \* the empty string
  Threshold,     \* TrmnlState::WIFI_FAIL_THRESHOLD
  DefaultServer, \* TRMNL_DEFAULT_SERVER_URL
  DefaultKey     \* TRMNL_DEFAULT_API_KEY

ASSUME NoneAssumption == None \notin Servers \cup Files \cup Urls
ASSUME ThresholdAssumption == Threshold \in Nat \ {0, 1}
ASSUME DefaultAssumption ==
  /\ DefaultServer \in Servers \cup {None}
  /\ DefaultKey \in {None, DefaultServer}

OrNone(S) == S \cup {None}

State ==
  [ server : OrNone(Servers),   \* serverBaseUrl
    key    : OrNone(Servers),   \* apiKey, as the server that issued it
    file   : OrNone(Files),     \* lastFilename
    ota    : OrNone(Urls),      \* lastOtaUrl
    fails  : 0 .. Threshold,    \* wifiFailCount
    portal : BOOLEAN ]          \* portalRequested

(* The object before load() has run: the defaults of its members.          *)
Blank ==
  [ server |-> None, key |-> None, file |-> None, ota |-> None,
    fails |-> 0, portal |-> FALSE ]

(* What load() reads from a namespace none of whose slots was written: the *)
(* build flags seed the server and the key.  A slot never written reads as *)
(* its default, so NVS starts out holding the defaults.                    *)
Factory ==
  [ server |-> DefaultServer, key |-> DefaultKey, file |-> None, ota |-> None,
    fails |-> 0, portal |-> FALSE ]

(* save() puts the fields one by one and each put is durable by itself: a  *)
(* power loss leaves the first k puts of the new state over the old one.   *)
Puts == 6
Slip_PortalFirst(old, new, k) ==
  [ server |-> IF k >= 2 THEN new.server ELSE old.server,
    key    |-> IF k >= 3 THEN new.key    ELSE old.key,
    file   |-> IF k >= 4 THEN new.file   ELSE old.file,
    ota    |-> IF k >= 5 THEN new.ota    ELSE old.ota,
    fails  |-> IF k >= 6 THEN new.fails  ELSE old.fails,
    portal |-> IF k >= 1 THEN new.portal ELSE old.portal ]
TornSave(old, new, k) ==
  [ server |-> IF k >= 1 THEN new.server ELSE old.server,
    key    |-> IF k >= 2 THEN new.key    ELSE old.key,
    file   |-> IF k >= 3 THEN new.file   ELSE old.file,
    ota    |-> IF k >= 4 THEN new.ota    ELSE old.ota,
    fails  |-> IF k >= 5 THEN new.fails  ELSE old.fails,
    portal |-> IF k >= 6 THEN new.portal ELSE old.portal ]

(* A key is good for the server it is sent to only if that server issued   *)
(* it.                                                                     *)
KeyFits(s) == s.key \in {None, s.server}
=============================================================================
