------------------------ MODULE WifiCredentialStore ------------------------
(***************************************************************************)
(* Operations of class WifiCredentialStore on its list of networks and the *)
(* last network that connected.  Passwords are left out: whether a stored  *)
(* network can be joined is the environment's choice at every attempt.     *)
(***************************************************************************)
EXTENDS Naturals, FiniteSets

CONSTANTS
  Ssids,        \* networks
  NoSsid,       \* the empty SSID
  MaxNetworks,  \* WifiCredentialStore::MAX_NETWORKS
  Torn          \* /.crosspoint/wifi.json missing, empty or cut short

ASSUME SsidAssumption == NoSsid \notin Ssids /\ MaxNetworks \in Nat \ {0}

Store == [ ssids : SUBSET Ssids, last : Ssids \cup {NoSsid} ]
ASSUME TornAssumption == Torn \notin Store
NoNetworks == [ ssids |-> {}, last |-> NoSsid ]

(* loadFromFile(): a file that is missing, empty or does not parse leaves  *)
(* the freshly constructed, empty store.                                   *)
Loaded(file) == IF file = Torn THEN NoNetworks ELSE file

(* addCredential() updates a known network, and refuses a new one when the *)
(* list is full.                                                           *)
CanAdd(store, ssid) == ssid \in store.ssids \/ Cardinality(store.ssids) < MaxNetworks
Added(store, ssid) == [store EXCEPT !.ssids = @ \cup {ssid}]

(* setLastConnectedSsid() does not ask whether the network is in the list. *)
WithLast(store, ssid) == [store EXCEPT !.last = ssid]
=============================================================================
