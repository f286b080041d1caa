----------------------------- MODULE KeptValue -----------------------------
(***************************************************************************)
(* What a file of the card promises about the value it keeps: it changes   *)
(* only while it is being saved, and then to the new value, or, from there *)
(* to the end of the save, to one of a few that it may fall back to.  A    *)
(* save ends with the new value, or is broken off with what is there.      *)
(***************************************************************************)
CONSTANTS
  Values,      \* what may be kept
  Fallbacks,   \* what an unfinished save may leave
  NoValue      \* no save is running

VARIABLES
  kept,        \* what a start of the device would find
  saving       \* the value that is being saved, or NoValue

StartSave(v) == saving = NoValue /\ saving' = v /\ UNCHANGED kept

Spoil == saving # NoValue /\ kept' \in Fallbacks /\ UNCHANGED saving

FinishSave == saving # NoValue /\ kept' = saving /\ saving' = NoValue

BreakOff == saving # NoValue /\ saving' = NoValue /\ UNCHANGED kept

KeptInit == kept \in Values \cup Fallbacks /\ saving = NoValue

KeptNext == (\E v \in Values : StartSave(v)) \/ Spoil \/ FinishSave \/ BreakOff

KeptSpec == KeptInit /\ [][KeptNext]_<<kept, saving>>
=============================================================================
