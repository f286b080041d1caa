---------------------------- MODULE SavedFiles ----------------------------
(***************************************************************************)
(* How the settings, the state and the networks are kept on the card:      *)
(* loadFromFile() and saveToFile() of CrossPointSettings, CrossPointState  *)
(* and WifiCredentialStore, over HalStorage.                               *)
(*                                                                         *)
(* The value is in a JSON file.  Where there is none yet, or an empty one, *)
(* it is taken from the binary file of older firmware, saved, and the      *)
(* binary file renamed.  A file is rewritten in place, in steps between    *)
(* which the power may go.                                                 *)
(***************************************************************************)
EXTENDS Naturals

CONSTANTS
  Saved,       \* the values that are saved
  Legacy,      \* the value in the binary file
  Default,     \* what the program starts with when it can load nothing
  NoValue      \* nothing is being saved; the program does not run

ASSUME FilesAssumption == Legacy \notin Saved /\ Default \notin Saved /\ NoValue \notin Saved \cup {Legacy, Default}

VARIABLES
  store,     \* "settings", "state" or "wifi"
  json,      \* the JSON file
  bin,       \* the version of the binary file; 0 when there is none
  bak,       \* is there a renamed one?
  ram,       \* the value in the program
  task       \* what the program is doing with the files

filesVars == <<store, json, bin, bak, ram, task>>

NoFile == [is |-> "absent"]
EmptyFile == [is |-> "empty"]
TornFile == [is |-> "torn"]
Whole(v) == [is |-> "whole", value |-> v, plain |-> FALSE]

Off == [do |-> "off"]
Up == [do |-> "up"]
Writing(v, at, migrating) == [do |-> "write", value |-> v, at |-> at, migrating |-> migrating]
Renaming == [do |-> "rename"]

-----------------------------------------------------------------------------
(* The versions that loadFromBinaryFile() knows.                           *)
KnownVersion == [settings |-> {1}, state |-> 1 .. 4, wifi |-> 1 .. 2]

(* loadFromFile(): a file that does not parse is not made up for by the    *)
(* binary one.                                                             *)
JsonIsUsed == json.is \in {"torn", "whole"}
BinaryIsUsed == ~ JsonIsUsed /\ bin \in KnownVersion[store]

Loaded ==
  IF JsonIsUsed THEN (IF json.is = "whole" THEN json.value ELSE Default)
  ELSE IF BinaryIsUsed THEN Legacy ELSE Default

(* The networks are saved again if a password was not obfuscated; the      *)
(* settings never ask for it, and the state does not know of it.           *)
MustResave == store = "wifi" /\ json.is = "whole" /\ json.plain

\* A slip to test against: the binary file goes before it is replaced.
Slip_AfterLoading == IF MustResave THEN Writing(Loaded, 0, FALSE) ELSE IF BinaryIsUsed THEN Renaming ELSE Up

AfterLoading ==
  IF MustResave THEN Writing(Loaded, 0, FALSE)
  ELSE IF BinaryIsUsed THEN Writing(Loaded, 0, TRUE) ELSE Up

LoadFromFile ==
  /\ task = Off
  /\ ram' = Loaded /\ task' = AfterLoading
  /\ UNCHANGED <<store, json, bin, bak>>

(* saveToFile(): only the networks are saved at other times than these.    *)
SaveToFile ==
  /\ task = Up /\ store = "wifi"
  /\ \E v \in Saved : ram' = v /\ task' = Writing(v, 0, FALSE)
  /\ UNCHANGED <<store, json, bin, bak>>

(* The steps of writeFile(): the old file goes, a new one is made, filled  *)
(* and closed.                                                             *)
WriteFile ==
  /\ task.do = "write"
  /\ json' = <<NoFile, EmptyFile, TornFile, Whole(task.value)>>[task.at + 1]
  /\ task' = IF task.at < 3 THEN [task EXCEPT !.at = @ + 1] ELSE IF task.migrating THEN Renaming ELSE Up
  /\ UNCHANGED <<store, bin, bak, ram>>

(* A step that fails ends the save with what is there.                     *)
WriteFails ==
  /\ task.do = "write"
  /\ task' = Up
  /\ UNCHANGED <<store, json, bin, bak, ram>>

(* The result of rename() is ignored; it fails when the name is taken.     *)
RenameBinary ==
  /\ task = Renaming
  /\ task' = Up
  /\ bin' = (IF bak THEN bin ELSE 0) /\ bak' = TRUE
  /\ UNCHANGED <<store, json, ram>>

PowerCut ==
  /\ task # Off
  /\ task' = Off /\ ram' = NoValue
  /\ UNCHANGED <<store, json, bin, bak>>

-----------------------------------------------------------------------------
(* A card as this firmware or an older one left it; a file with plain      *)
(* passwords is of an older one.                                           *)
FilesInit ==
  /\ store \in {"settings", "state", "wifi"}
  /\ json \in {NoFile} \cup {[is |-> "whole", value |-> v, plain |-> plain] : v \in Saved, plain \in BOOLEAN}
  /\ json.is = "whole" /\ store # "wifi" => ~ json.plain
  /\ bin \in {0, 1, 5} /\ bak \in BOOLEAN
  /\ ram = NoValue /\ task = Off

FilesNext == LoadFromFile \/ SaveToFile \/ WriteFile \/ WriteFails \/ RenameBinary \/ PowerCut

FilesSpec == FilesInit /\ [][FilesNext]_filesVars

-----------------------------------------------------------------------------
FilesTypeOK ==
  /\ store \in {"settings", "state", "wifi"} /\ bin \in Nat /\ bak \in BOOLEAN
  /\ json \in {NoFile, EmptyFile, TornFile}
              \cup [is : {"whole"}, value : Saved \cup {Legacy}, plain : BOOLEAN]
  /\ ram \in Saved \cup {Legacy, Default, NoValue}
  /\ task \in {Off, Up, Renaming}
              \cup [do : {"write"}, value : Saved \cup {Legacy}, at : 0 .. 3, migrating : BOOLEAN]

Kept == INSTANCE KeptValue WITH
  Values <- Saved \cup {Legacy, Default},
  Fallbacks <- {Legacy, Default},
  kept <- Loaded,
  saving <- IF task.do = "write" THEN task.value ELSE NoValue

(* What the next start of the device finds changes only while the file is  *)
(* being saved, and then to the new value, to the old binary one or to     *)
(* nothing: never to a mixture, and never because the binary file went     *)
(* too early (CrossPointSettings.cpp:79-117, CrossPointState.cpp:34-63,    *)
(* WifiCredentialStore.cpp:32-67, JsonSettingsIO.cpp:17-149).              *)
ValueIsKept == Kept!KeptSpec
=============================================================================
