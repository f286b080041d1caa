---------------------------- MODULE FrontButtons ----------------------------
(***************************************************************************)
(* Which button does what: the part of CrossPointSettings that maps the    *)
(* buttons, as it is read from a file, and MappedInputManager.             *)
(*                                                                         *)
(* The front buttons are 0 to 3 (Back, Confirm, Left, Right of the         *)
(* hardware), the side buttons "up" and "down".  A number that is no       *)
(* button stands for what a damaged or edited file may hold.               *)
(***************************************************************************)
EXTENDS Integers, Sequences, FiniteSetsExt

CONSTANT Numbers     \* what a field of a file may hold

ASSUME ButtonsAssumption == Numbers \subseteq Nat

VARIABLES
  mapping,    \* the settings, frontButtonBack to frontButtonRight
  side,       \* sideButtonLayout
  source      \* where they were read from: "none", "json" or "binary"

buttonVars == <<mapping, side, source>>

Hardware == 0 .. 3
Roles == <<"back", "confirm", "left", "right">>
DefaultMapping == <<0, 1, 2, 3>>

-----------------------------------------------------------------------------
(* readAndValidate(), and the clamp of loadSettings(): what is no value of *)
(* the setting leaves it as it was.                                        *)
ReadAndValidate(old, number, count) == IF number < count THEN number ELSE old

(* applyLegacyFrontButtonLayout().                                         *)
LegacyMapping(layout) ==
  CASE layout = 1 -> <<2, 3, 0, 1>>
    [] layout = 2 -> <<1, 2, 0, 3>>
    [] layout = 3 -> <<0, 1, 3, 2>>
    [] OTHER      -> DefaultMapping

\* A slip to test against: only neighbours are compared.
Slip_ValidateFrontButtonMapping(m) ==
  IF \E i \in 1 .. 3 : m[i] = m[i + 1] THEN DefaultMapping ELSE m

(* validateFrontButtonMapping().                                           *)
ValidateFrontButtonMapping(m) ==
  IF \E i, j \in 1 .. 4 : i < j /\ m[i] = m[j] THEN DefaultMapping ELSE m

(* loadSettings() of JsonSettingsIO: a field that is missing is left as it *)
(* was, and so is one that is no button.  Nothing is validated.            *)
LoadSettings(fields, layout) ==
  /\ source = "none" /\ source' = "json"
  /\ mapping' = [i \in 1 .. 4 |-> ReadAndValidate(mapping[i], fields[i], 4)]
  /\ side' = ReadAndValidate(side, layout, 2)

(* loadFromBinaryFile(): the settings come in a fixed order, and an older  *)
(* file ends sooner.  The layouts are the 6th and 7th, the mapping the     *)
(* 25th to 28th.                                                           *)
LoadFromBinaryFile(count, layout, sideLayout, fields) ==
  LET has(n) == n <= count
      frontButtonLayout == IF has(6) THEN ReadAndValidate(0, layout, 4) ELSE 0
      read == [i \in 1 .. 4 |-> IF has(24 + i) THEN ReadAndValidate(mapping[i], fields[i], 4) ELSE mapping[i]]
  IN  /\ source = "none" /\ source' = "binary"
      /\ side' = (IF has(7) THEN ReadAndValidate(side, sideLayout, 2) ELSE side)
      /\ mapping' = (IF has(28) THEN ValidateFrontButtonMapping(read) ELSE LegacyMapping(frontButtonLayout))

-----------------------------------------------------------------------------
(* MappedInputManager: mapButton(), with the buttons that are down (or were*)
(* pressed, or released) in this frame.                                    *)
MapButton(role, down) ==
  CASE role = "back"        -> mapping[1] \in down
    [] role = "confirm"     -> mapping[2] \in down
    [] role = "left"        -> mapping[3] \in down
    [] role = "right"       -> mapping[4] \in down
    [] role = "up"          -> 4 \in down
    [] role = "down"        -> 5 \in down
    [] role = "pageBack"    -> (IF side = 0 THEN 4 ELSE 5) \in down
    [] role = "pageForward" -> (IF side = 0 THEN 5 ELSE 4) \in down

(* mapLabels(): for every front button the first role that is on it.       *)
MapLabels ==
  [hw \in Hardware |->
     LET on == {i \in 1 .. 4 : mapping[i] = hw} IN IF on = {} THEN "" ELSE Roles[Min(on)]]

-----------------------------------------------------------------------------
ButtonsInit == mapping = DefaultMapping /\ side = 0 /\ source = "none"

ButtonsNext ==
  \/ \E fields \in [1 .. 4 -> Numbers], layout \in {0, 1, 7} : LoadSettings(fields, layout)
  \/ \E count \in {5, 6, 7, 24, 26, 27, 28, 30}, layout \in Numbers, sideLayout \in {0, 1, 7},
        fields \in [1 .. 4 -> Numbers] :
        LoadFromBinaryFile(count, layout, sideLayout, fields)

ButtonsSpec == ButtonsInit /\ [][ButtonsNext]_buttonVars

-----------------------------------------------------------------------------
ButtonsTypeOK ==
  mapping \in [1 .. 4 -> Hardware] /\ side \in 0 .. 1 /\ source \in {"none", "json", "binary"}

(* Whatever a file holds, pressing the button under a label does what the  *)
(* label says, and the two page buttons are the two side buttons; out of a *)
(* binary file, cut short or damaged as it may be, every role is on a      *)
(* button of its own (CrossPointSettings.cpp:31-77, 119-224,               *)
(* MappedInputManager.cpp:20-91, JsonSettingsIO.cpp:75-101).               *)
LabelsTellTheTruth ==
  /\ \A hw \in Hardware : MapLabels[hw] # "" => MapButton(MapLabels[hw], {hw})
  /\ \A hw \in 4 .. 5 : MapButton("pageBack", {hw}) # MapButton("pageForward", {hw})
  /\ source = "binary" => \A i \in 1 .. 4 : \E hw \in Hardware : MapLabels[hw] = Roles[i]
=============================================================================
