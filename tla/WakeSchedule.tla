---------------------------- MODULE WakeSchedule ----------------------------
(***************************************************************************)
(* How long the device sleeps after a wake, and when the panel gets a full *)
(* refresh (TrmnlActivity.cpp:63-69, 130-383).  Both depend on counters in *)
(* NVS: the wakes, and the failed setups in a row, in one byte.            *)
(*                                                                         *)
(* What the server answers is chosen freely, and so is whether a failed    *)
(* connection is the one that wipes the networks: TrmnlDevice counts them, *)
(* and has the rest of a wake, and starts without a card.  Power may be    *)
(* lost between the steps of a wake; a save is one step here, which        *)
(* TrmnlDevice cuts short.                                                 *)
(***************************************************************************)
EXTENDS Integers

CONSTANTS
  StartFailures,  \* setups that failed, one per wake, before the first one here
  WakeCounts,     \* bound: the wake counts the device may start a wake from
  MaxLost,        \* bound on the wakes cut off since the last full refresh
  Rates           \* refresh_rate of an answer

ASSUME ScheduleAssumption ==
  StartFailures \subseteq 0 .. 255 /\ WakeCounts \subseteq Nat /\ MaxLost \in Nat /\ Rates \subseteq Nat

VARIABLES
  nvs,        \* what is saved: is there a key, is the portal requested, the counters
  wake,       \* the wake that is going on
  sleep,      \* the sleep that was last begun
  failures,   \* setups that failed since one went well or the server changed
  fastShown,  \* pictures shown with a fast refresh since the last full one
  lost,       \* wakes cut off since then
  missed      \* did a wake since then that was to refresh in full show nothing?

ghostVars == <<fastShown, lost, missed>>
scheduleVars == <<nvs, wake, sleep, failures, ghostVars>>

DefaultRefresh == 1800
LongestBackoff == 86400
Sooner(a, b) == IF a < b THEN a ELSE b

(* The sleep after so many failed setups.                                  *)
Backoff(fails) == Sooner(LongestBackoff, DefaultRefresh * 2 ^ Sooner(fails, 6))

\* A slip to test against: the comparison with a remainder that never comes.
Slip_FullRefreshDue(count) == count % 16 = 16

FullRefreshDue(count) == count % 16 = 1

(* A wake under way, and one that is to be saved and followed by a sleep.  *)
NoWake == [pc |-> "off"]
Under(pc, state) == [pc |-> pc, state |-> state]
Done(state, seconds, failed) ==
  [pc |-> "done", state |-> state, seconds |-> seconds, failed |-> failed]
NoSleep == [seconds |-> 0, failed |-> FALSE]

ShowInFull == fastShown' = 0 /\ lost' = 0 /\ missed' = FALSE
ShowFast == fastShown' = fastShown + 1 /\ UNCHANGED <<lost, missed>>
ShowNothing ==
  /\ missed' = (missed \/ FullRefreshDue(wake.state.wakeCount))
  /\ UNCHANGED <<fastShown, lost>>

ScheduleInit ==
  /\ \E n \in StartFailures, key \in BOOLEAN :
       /\ key => n = 0
       /\ nvs = [key |-> key, portal |-> FALSE, wakeCount |-> n, setupFail |-> n]
       /\ failures = n
  /\ wake = NoWake /\ sleep = NoSleep
  /\ fastShown = 0 /\ lost = 0 /\ missed = FALSE

-----------------------------------------------------------------------------
(* onEnter(): the state is loaded and the wake counted.                    *)
StartWake ==
  /\ wake = NoWake /\ ~ nvs.portal /\ nvs.wakeCount \in WakeCounts
  /\ wake' = Under("awake", [nvs EXCEPT !.wakeCount = @ + 1])
  /\ sleep' = NoSleep
  /\ UNCHANGED <<nvs, failures, ghostVars>>

(* What a wake leaves when it restarts the device after a save.            *)
SaveAndRestart(state) == nvs' = state /\ wake' = NoWake /\ sleep' = NoSleep

(* No network answers: the default sleep, or the networks are wiped and    *)
(* the portal is asked for.                                                *)
ConnectFails ==
  /\ wake.pc = "awake"
  /\ \/ wake' = Done(wake.state, DefaultRefresh, FALSE) /\ ShowNothing /\ UNCHANGED <<nvs, sleep>>
     \/ SaveAndRestart([wake.state EXCEPT !.portal = TRUE]) /\ ShowInFull
  /\ UNCHANGED failures

(* /api/setup gives a key, which is saved at once.                         *)
SetupGivesKey ==
  /\ wake.pc = "awake" /\ ~ wake.state.key
  /\ nvs' = [wake.state EXCEPT !.key = TRUE, !.setupFail = 0]
  /\ wake' = Under("provisioned", nvs')
  /\ failures' = 0
  /\ UNCHANGED <<sleep, ghostVars>>

(* The picture of the server or else a splash.                             *)
ShowSetup ==
  /\ wake.pc = "provisioned"
  /\ wake' = Done(wake.state, DefaultRefresh, FALSE)
  /\ ShowInFull
  /\ UNCHANGED <<nvs, sleep, failures>>

(* The setup failed: the count, a byte, decides how long the sleep is.     *)
SetupFails ==
  /\ wake.pc = "awake" /\ ~ wake.state.key
  /\ LET fails == (wake.state.setupFail + 1) % 256
     IN  wake' = Done([wake.state EXCEPT !.setupFail = fails], Backoff(fails), TRUE)
  /\ ShowInFull
  /\ UNCHANGED <<nvs, sleep, failures>>

(* /api/display fails.                                                     *)
DisplayFails ==
  /\ wake.pc = "awake" /\ wake.state.key
  /\ wake' = Done(wake.state, DefaultRefresh, FALSE)
  /\ ShowNothing
  /\ UNCHANGED <<nvs, sleep, failures>>

(* The server has the device forget it, or new firmware was installed.     *)
ServerResets ==
  /\ wake.pc = "awake" /\ wake.state.key
  /\ SaveAndRestart([wake.state EXCEPT !.key = FALSE, !.setupFail = 0, !.portal = TRUE])
  /\ failures' = 0
  /\ ShowNothing

FirmwareInstalled ==
  /\ wake.pc = "awake" /\ wake.state.key
  /\ SaveAndRestart(wake.state)
  /\ ShowNothing
  /\ UNCHANGED failures

(* A picture, one that is shown already or does not arrive, or a status    *)
(* that is shown on a splash; the server says how long to sleep.           *)
DisplayAnswers ==
  /\ wake.pc = "awake" /\ wake.state.key
  /\ \E rate \in Rates :
       wake' = Done(wake.state, IF rate > 0 THEN rate ELSE DefaultRefresh, FALSE)
  /\ \/ IF FullRefreshDue(wake.state.wakeCount) THEN ShowInFull ELSE ShowFast
     \/ ShowNothing
     \/ ShowInFull
  /\ UNCHANGED <<nvs, sleep, failures>>

Recorded == IF wake.failed THEN failures + 1 ELSE failures

(* The state is saved and the sleep begins.                                *)
EndWake ==
  /\ wake.pc = "done"
  /\ nvs' = wake.state /\ wake' = NoWake
  /\ sleep' = [seconds |-> wake.seconds, failed |-> wake.failed]
  /\ failures' = Recorded
  /\ UNCHANGED ghostVars

(* CMD:REFRESH or CMD:WIPE on the serial line before the sleep.            *)
SerialCommand ==
  /\ wake.pc = "done"
  /\ \E wipe \in BOOLEAN : SaveAndRestart([wake.state EXCEPT !.portal = wipe])
  /\ failures' = Recorded
  /\ UNCHANGED ghostVars

(* Power is lost.  The key of a setup is saved by then, and the count.     *)
PowerLoss ==
  /\ wake # NoWake /\ lost < MaxLost
  /\ wake' = NoWake /\ lost' = lost + 1
  /\ missed' = (missed \/ (wake.pc = "provisioned" /\ FullRefreshDue(wake.state.wakeCount)))
  /\ UNCHANGED <<nvs, sleep, failures, fastShown>>

\* A slip to test against: the count of one server is taken to the next.
Slip_SavedForm(changed) == [nvs EXCEPT !.portal = FALSE, !.key = @ /\ ~ changed]

(* handleSave(): the form is saved, with another server or not.            *)
SavedForm(changed) ==
  IF changed THEN [nvs EXCEPT !.portal = FALSE, !.key = FALSE, !.setupFail = 0]
             ELSE [nvs EXCEPT !.portal = FALSE]

(* The portal shows its screen, and then its form is saved.                *)
UsePortal ==
  /\ wake = NoWake /\ nvs.portal
  /\ \E changed \in BOOLEAN :
       /\ nvs' = SavedForm(changed)
       /\ failures' = IF changed THEN 0 ELSE failures
  /\ ShowInFull
  /\ UNCHANGED <<wake, sleep>>

ScheduleNext ==
  \/ StartWake \/ ConnectFails
  \/ SetupGivesKey \/ ShowSetup \/ SetupFails
  \/ DisplayFails \/ ServerResets \/ FirmwareInstalled \/ DisplayAnswers
  \/ EndWake \/ SerialCommand \/ PowerLoss \/ UsePortal

ScheduleSpec == ScheduleInit /\ [][ScheduleNext]_scheduleVars

-----------------------------------------------------------------------------
SavedState == [key : BOOLEAN, portal : BOOLEAN, wakeCount : Nat, setupFail : 0 .. 255]
WakesUnder == [pc : {"awake", "provisioned"}, state : SavedState]
WakesDone == [pc : {"done"}, state : SavedState, seconds : Nat, failed : BOOLEAN]

(* The counters in NVS and the state of a wake under way (TrmnlState.h).   *)
ScheduleTypeOK ==
  /\ nvs \in SavedState
  /\ wake = NoWake \/ wake \in WakesUnder \/ wake \in WakesDone
  /\ sleep \in [seconds : Nat, failed : BOOLEAN]
  /\ failures \in Nat /\ fastShown \in Nat /\ lost \in Nat /\ missed \in BOOLEAN

(* For the first 255 of them, the sleep after the n-th failed setup in a   *)
(* row is half an hour doubled n times, up to a day, however those wakes   *)
(* were cut off, restarted or went without a network, and never counts the *)
(* failures of another server (TrmnlActivity.cpp:165-177,                  *)
(* CaptivePortalActivity.cpp:169-175).                                     *)
SleepFollowsFailures ==
  sleep.failed /\ failures < 256 => sleep.seconds = Backoff(failures)

(* "fails=6+ -> 24 h" (TrmnlActivity.cpp:173-174): from the sixth failure  *)
(* in a row on the device sleeps for a day.  The count is a byte, and at   *)
(* the 256th it is zero.                                                   *)
LongSleepsStayLong ==
  sleep.failed /\ failures >= 6 => sleep.seconds = LongestBackoff

(* No more than fifteen pictures in a row are shown with a fast refresh,   *)
(* but for one more with each wake that is cut off before it is saved,     *)
(* unless the wake that was to refresh in full had nothing to show         *)
(* (TrmnlActivity.cpp:271-273, 322-323).                                   *)
GhostingIsCleared == ~ missed => fastShown <= 15 + lost
=============================================================================
