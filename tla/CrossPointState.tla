-------------------------- MODULE CrossPointState --------------------------
(***************************************************************************)
(* The sleep pictures shown last (CrossPointState): a ring that is saved   *)
(* as JSON with its position and its fill.                                 *)
(***************************************************************************)
EXTENDS Integers, Sequences

CONSTANTS
  SleepRecentCount,   \* SLEEP_RECENT_COUNT
  SleepImages,        \* the pictures; 0 is one of them
  MaxShown            \* bound on the pictures shown

ASSUME StateAssumption == SleepRecentCount \in Nat \ {0} /\ 0 \in SleepImages /\ MaxShown \in Nat

VARIABLES
  recent,      \* [images, pos, fill]
  stateJson,   \* state.json: [images, pos, fill], where images is a sequence; NoStateJson
  shown,       \* history: the pictures that were shown, and remembered when saved
  shownSaved   \* history: those when it was saved

stateVars == <<recent, stateJson, shown, shownSaved>>

RingSlots == 0 .. SleepRecentCount - 1
EmptyRing == [images |-> [s \in RingSlots |-> 0], pos |-> 0, fill |-> 0]
NoStateJson == [images |-> <<>>, pos |-> 0, fill |-> 0]

Fewer(m, n) == IF m < n THEN m ELSE n

-----------------------------------------------------------------------------
(* pushRecentSleep().                                                      *)
Pushed(r, idx) ==
  [images |-> [r.images EXCEPT ![r.pos] = idx],
   pos    |-> (r.pos + 1) % SleepRecentCount,
   fill   |-> IF r.fill < SleepRecentCount THEN r.fill + 1 ELSE r.fill]

(* isRecentSleep(): the newest first, and only the slots that were filled. *)
IsRecentSleep(idx, checkCount) ==
  \E i \in 0 .. Fewer(checkCount, recent.fill) - 1 :
    recent.images[(recent.pos + SleepRecentCount - 1 - i) % SleepRecentCount] = idx

(* saveState().                                                            *)
StateJson(r) == [images |-> [i \in 1 .. SleepRecentCount |-> r.images[i - 1]], pos |-> r.pos, fill |-> r.fill]

\* A slip to test against: the fill is taken for the position.
Slip_LoadState(doc) ==
  [images |-> [s \in RingSlots |-> IF s < Len(doc.images) THEN doc.images[s + 1] ELSE 0],
   pos |-> doc.fill % SleepRecentCount, fill |-> Fewer(doc.fill, Len(doc.images))]

(* loadState(): a ring of another length is cut or filled up.              *)
LoadState(doc) ==
  LET actualCount == Fewer(Len(doc.images), SleepRecentCount)
      pos == IF doc.pos < SleepRecentCount THEN doc.pos
             ELSE IF actualCount > 0 THEN doc.pos % SleepRecentCount ELSE 0
  IN  [images |-> [s \in RingSlots |-> IF s < actualCount THEN doc.images[s + 1] ELSE 0],
       pos |-> pos, fill |-> Fewer(doc.fill, actualCount)]

-----------------------------------------------------------------------------
ShowSleepImage(idx) ==
  /\ Len(shown) < MaxShown
  /\ recent' = Pushed(recent, idx) /\ shown' = Append(shown, idx)
  /\ UNCHANGED <<stateJson, shownSaved>>

SaveState ==
  /\ stateJson' = StateJson(recent) /\ shownSaved' = shown
  /\ UNCHANGED <<recent, shown>>

(* The device starts again: with the ring that was saved, or an empty one. *)
Restart ==
  /\ recent' = (IF stateJson = NoStateJson THEN EmptyRing ELSE LoadState(stateJson))
  /\ shown' = shownSaved
  /\ UNCHANGED <<stateJson, shownSaved>>

(* loadFromBinaryFile(): an older file has the last picture, or none, and  *)
(* that from its second version on.                                        *)
MigrateState(version, lastSleep) ==
  /\ stateJson = NoStateJson /\ shown = <<>>
  /\ LET has == version \in 2 .. 4 /\ lastSleep # 255
     IN  /\ recent' = IF has THEN Pushed(recent, lastSleep) ELSE recent
         /\ shown' = IF has THEN <<lastSleep>> ELSE <<>>
  /\ stateJson' = (IF version > 4 THEN NoStateJson ELSE StateJson(recent'))
  /\ shownSaved' = shown'

StateInit == recent = EmptyRing /\ stateJson = NoStateJson /\ shown = <<>> /\ shownSaved = <<>>

StateNext ==
  \/ \E idx \in SleepImages : ShowSleepImage(idx)
  \/ SaveState
  \/ Restart
  \/ \E version \in 1 .. 5, last \in SleepImages \cup {255} : MigrateState(version, last)

StateSpec == StateInit /\ [][StateNext]_stateVars

-----------------------------------------------------------------------------
(* A picture is recent exactly if it is among as many of those shown last  *)
(* as are asked for, or as the ring holds: the ones that were never shown  *)
(* and the zeros of the empty slots are not, round the end of the ring and *)
(* over saves and restarts (CrossPointState.cpp:19-63,                     *)
(* JsonSettingsIO.cpp:17-49).                                              *)
RecentAreTheLast ==
  \A idx \in SleepImages, n \in 0 .. SleepRecentCount + 1 :
    IsRecentSleep(idx, n) <=>
      \E i \in DOMAIN shown : i > Len(shown) - Fewer(n, SleepRecentCount) /\ shown[i] = idx
=============================================================================
