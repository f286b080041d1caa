------------------------ MODULE WakeSchedule_proofs ------------------------
(***************************************************************************)
(* Proofs about WakeSchedule, for any number of wakes, of failed setups    *)
(* and of wakes that are cut off, and any rates.                           *)
(***************************************************************************)
EXTENDS WakeSchedule, TLAPS

USE ScheduleAssumption

(* The byte in NVS and in a wake under way counts the failures modulo 256. *)
CountInv ==
  /\ nvs.setupFail = failures % 256
  /\ wake.pc \in {"awake", "provisioned"} => wake.state.setupFail = failures % 256
  /\ wake.pc = "done" => wake.state.setupFail = Recorded % 256

(* A sleep follows the failures that were counted when it began, and they  *)
(* change only in a wake or in the portal, which no such sleep leads to.   *)
SleepInv ==
  /\ wake.pc = "done" /\ wake.failed => wake.seconds = Backoff(wake.state.setupFail)
  /\ wake # NoWake => sleep = NoSleep /\ ~ wake.state.portal
  /\ sleep.failed => ~ nvs.portal /\ sleep.seconds = Backoff(failures % 256)

(* The fast refreshes that fit between the last wake due for a full one    *)
(* and the wake of this count.                                             *)
Slack(count) == (count + 15) % 16
Cleared(count) == ~ missed => fastShown <= Slack(count) + lost
ClearedNext(count) == ~ missed' => fastShown' <= Slack(count) + lost'

GhostInv ==
  /\ wake = NoWake => Cleared(nvs.wakeCount)
  /\ wake.pc = "awake" =>
       wake.state.wakeCount = nvs.wakeCount + 1 /\ Cleared(nvs.wakeCount)
  /\ wake.pc = "provisioned" =>
       /\ wake.state.wakeCount = nvs.wakeCount /\ nvs.wakeCount >= 1
       /\ Cleared(nvs.wakeCount - 1)
  /\ wake.pc = "done" =>
       /\ wake.state.wakeCount >= 1
       /\ nvs.wakeCount \in {wake.state.wakeCount - 1, wake.state.wakeCount}
       /\ Cleared(wake.state.wakeCount)

ScheduleInv == ScheduleTypeOK /\ CountInv /\ SleepInv /\ GhostInv

-----------------------------------------------------------------------------
LEMMA ByteCounts ==
  \A n \in Nat : /\ ((n % 256) + 1) % 256 = (n + 1) % 256
                 /\ n % 256 \in 0 .. 255
                 /\ n < 256 => n % 256 = n
OBVIOUS

LEMMA BackoffRange ==
  ASSUME NEW n \in 0 .. 255
  PROVE  Backoff(n) \in DefaultRefresh .. LongestBackoff /\ Backoff(n) \in Nat
<1>1. Sooner(n, 6) \in {0, 1, 2, 3, 4, 5, 6}
  BY DEF Sooner
<1>2. 2 ^ 0 = 1 /\ 2 ^ 1 = 2 /\ 2 ^ 2 = 4 /\ 2 ^ 3 = 8 /\ 2 ^ 4 = 16 /\ 2 ^ 5 = 32 /\ 2 ^ 6 = 64
  OBVIOUS
<1>3. \E p \in {1, 2, 4, 8, 16, 32, 64} : 2 ^ Sooner(n, 6) = p
  BY <1>1, <1>2
<1>4. PICK p \in {1, 2, 4, 8, 16, 32, 64} : 2 ^ Sooner(n, 6) = p
  BY <1>3
<1>5. DefaultRefresh * p \in {1800, 3600, 7200, 14400, 28800, 57600, 115200}
  BY DEF DefaultRefresh
<1>6. PICK q \in {1800, 3600, 7200, 14400, 28800, 57600, 115200} : DefaultRefresh * 2 ^ Sooner(n, 6) = q
  BY <1>4, <1>5
<1>7. q \in Nat /\ q >= 1800
  OBVIOUS
<1>8. CASE 86400 < q
  <2>1. Backoff(n) = 86400
    BY <1>6, <1>8 DEF Backoff, Sooner, LongestBackoff
  <2>. QED
    BY <2>1 DEF DefaultRefresh, LongestBackoff
<1>9. CASE ~ 86400 < q
  <2>1. Backoff(n) = q
    BY <1>6, <1>9 DEF Backoff, Sooner, LongestBackoff
  <2>. QED
    BY <1>7, <1>9, <2>1 DEF DefaultRefresh, LongestBackoff
<1>. QED
  BY <1>8, <1>9

LEMMA SlackStep ==
  \A n \in Nat : /\ Slack(n) \in 0 .. 15
                 /\ FullRefreshDue(n + 1) => Slack(n + 1) = 0
                 /\ ~ FullRefreshDue(n + 1) => Slack(n + 1) = Slack(n) + 1
BY DEF Slack, FullRefreshDue

-----------------------------------------------------------------------------
LEMMA InitInv == ScheduleInit => ScheduleInv
<1> SUFFICES ASSUME ScheduleInit PROVE ScheduleInv
  OBVIOUS
<1>1. PICK n \in StartFailures, key \in BOOLEAN :
        /\ nvs = [key |-> key, portal |-> FALSE, wakeCount |-> n, setupFail |-> n]
        /\ failures = n
  BY DEF ScheduleInit
<1>2. n \in 0 .. 255 /\ n % 256 = n
  BY <1>1, ByteCounts
<1>3. ScheduleTypeOK
  <2>1. nvs \in SavedState
    BY <1>1, <1>2 DEF SavedState
  <2>2. sleep \in [seconds : Nat, failed : BOOLEAN]
    BY DEF ScheduleInit, NoSleep
  <2>3. failures \in Nat /\ fastShown \in Nat /\ lost \in Nat
    BY <1>1, <1>2 DEF ScheduleInit
  <2>4. wake = NoWake /\ missed \in BOOLEAN
    BY DEF ScheduleInit
  <2>. QED
    BY <2>1, <2>2, <2>3, <2>4 DEF ScheduleTypeOK
<1>4. CountInv /\ SleepInv
  BY <1>1, <1>2 DEF ScheduleInit, CountInv, SleepInv, NoWake, NoSleep
<1>5. Cleared(nvs.wakeCount)
  BY <1>1, <1>2, SlackStep DEF ScheduleInit, Cleared
<1>6. GhostInv
  BY <1>5 DEF ScheduleInit, GhostInv, NoWake
<1>. QED
  BY <1>3, <1>4, <1>6 DEF ScheduleInv

(* What a wake under way is made of.                                       *)
LEMMA WakeShapes ==
  ASSUME ScheduleTypeOK
  PROVE  /\ wake.pc \in {"awake", "provisioned"} => wake \in WakesUnder
         /\ wake.pc = "done" => wake \in WakesDone
         /\ wake.pc \in {"awake", "provisioned", "done"} => wake.state \in SavedState /\ wake # NoWake
         /\ wake # NoWake => wake.pc \in {"awake", "provisioned", "done"}
<1>1. CASE wake = NoWake
  BY <1>1 DEF NoWake
<1>2. CASE wake \in WakesUnder
  BY <1>2 DEF NoWake, WakesUnder
<1>3. CASE wake \in WakesDone
  BY <1>3 DEF NoWake, WakesDone
<1>. QED
  BY <1>1, <1>2, <1>3 DEF ScheduleTypeOK

(* The end of an awake step that leaves a wake to be saved.                *)
LEMMA ToDone ==
  ASSUME ScheduleInv, NEW state \in SavedState, NEW seconds \in Nat, NEW failed \in BOOLEAN,
         wake # NoWake, wake' = Done(state, seconds, failed), ~ state.portal,
         UNCHANGED <<nvs, sleep, failures>>,
         state.setupFail = (IF failed THEN failures + 1 ELSE failures) % 256,
         failed => seconds = Backoff(state.setupFail),
         state.wakeCount >= 1,
         nvs.wakeCount \in {state.wakeCount - 1, state.wakeCount},
         ClearedNext(state.wakeCount),
         fastShown' \in Nat /\ lost' \in Nat /\ missed' \in BOOLEAN
  PROVE  ScheduleInv'
<1>1. wake'.pc = "done" /\ wake'.state = state /\ wake'.seconds = seconds /\ wake'.failed = failed
  BY DEF Done
<1>2. wake' \in WakesDone
  BY DEF Done, WakesDone
<1>3. wake' # NoWake
  BY DEF Done, NoWake
<1>4. ScheduleTypeOK'
  BY <1>2 DEF ScheduleInv, ScheduleTypeOK
<1>5. CountInv'
  BY <1>1 DEF ScheduleInv, CountInv, Recorded
<1>6. sleep = NoSleep /\ ~ NoSleep.failed
  BY DEF ScheduleInv, SleepInv, NoSleep
<1>7. SleepInv'
  BY <1>1, <1>6 DEF SleepInv
<1>8. GhostInv'
  BY <1>1, <1>3 DEF GhostInv, Cleared, ClearedNext
<1>. QED
  BY <1>4, <1>5, <1>7, <1>8 DEF ScheduleInv

(* The end of a step after which no wake is under way.                     *)
LEMMA ToOff ==
  ASSUME ScheduleInv, nvs' \in SavedState, wake' = NoWake, failures' \in Nat,
         sleep' \in [seconds : Nat, failed : BOOLEAN],
         nvs'.setupFail = failures' % 256,
         sleep'.failed => ~ nvs'.portal /\ sleep'.seconds = Backoff(failures' % 256),
         ClearedNext(nvs'.wakeCount),
         fastShown' \in Nat /\ lost' \in Nat /\ missed' \in BOOLEAN
  PROVE  ScheduleInv'
<1>1. wake'.pc = "off"
  BY DEF NoWake
<1>2. ScheduleTypeOK'
  BY DEF ScheduleTypeOK
<1>3. CountInv' /\ SleepInv'
  BY <1>1 DEF CountInv, SleepInv
<1>4. GhostInv'
  BY <1>1 DEF GhostInv, Cleared, ClearedNext
<1>. QED
  BY <1>2, <1>3, <1>4 DEF ScheduleInv

(* What is known in a wake that was counted and nothing more.              *)
LEMMA WhenAwake ==
  ASSUME ScheduleInv, wake.pc = "awake"
  PROVE  /\ nvs \in SavedState /\ wake.state \in SavedState /\ wake # NoWake
         /\ wake.state.wakeCount = nvs.wakeCount + 1 /\ nvs.wakeCount \in Nat
         /\ Cleared(nvs.wakeCount)
         /\ wake.state.setupFail = failures % 256 /\ ~ wake.state.portal
         /\ sleep = NoSleep
         /\ failures \in Nat /\ fastShown \in Nat /\ lost \in Nat /\ missed \in BOOLEAN
BY WakeShapes DEF ScheduleInv, ScheduleTypeOK, CountInv, SleepInv, GhostInv, SavedState

-----------------------------------------------------------------------------
LEMMA StartKeeps == ScheduleInv /\ StartWake => ScheduleInv'
<1> SUFFICES ASSUME ScheduleInv, StartWake PROVE ScheduleInv'
  OBVIOUS
<1> DEFINE state == [nvs EXCEPT !.wakeCount = @ + 1]
<1>1. nvs \in SavedState /\ Cleared(nvs.wakeCount) /\ nvs.setupFail = failures % 256
      /\ failures \in Nat
  BY DEF ScheduleInv, ScheduleTypeOK, CountInv, GhostInv, StartWake
<1>2. state \in SavedState /\ state.wakeCount = nvs.wakeCount + 1
      /\ state.setupFail = nvs.setupFail /\ state.portal = nvs.portal
  BY <1>1 DEF SavedState
<1>3. wake'.pc = "awake" /\ wake'.state = state /\ wake' \in WakesUnder /\ wake' # NoWake
  BY <1>2 DEF StartWake, Under, WakesUnder, NoWake
<1>4. sleep' = NoSleep /\ ~ NoSleep.failed /\ NoSleep \in [seconds : Nat, failed : BOOLEAN]
  BY DEF StartWake, NoSleep
<1>5. ScheduleTypeOK'
  BY <1>3, <1>4 DEF ScheduleInv, ScheduleTypeOK, StartWake, ghostVars
<1>6. CountInv'
  BY <1>1, <1>2, <1>3 DEF CountInv, StartWake
<1>7. SleepInv'
  BY <1>2, <1>3, <1>4 DEF SleepInv, StartWake
<1>8. GhostInv'
  BY <1>1, <1>2, <1>3 DEF GhostInv, StartWake, ghostVars, Cleared
<1>. QED
  BY <1>5, <1>6, <1>7, <1>8 DEF ScheduleInv

(* What a wake shows keeps the fast refreshes within the slack of its own  *)
(* count, if they were within that of the count before.                    *)
LEMMA AwakeShown ==
  ASSUME ScheduleInv, wake.pc = "awake",
         ShowInFull \/ ShowNothing \/ (ShowFast /\ ~ FullRefreshDue(wake.state.wakeCount))
  PROVE  /\ ClearedNext(wake.state.wakeCount)
         /\ fastShown' \in Nat /\ lost' \in Nat /\ missed' \in BOOLEAN
<1>1. PICK n \in Nat : n = nvs.wakeCount
  BY WhenAwake
<1>2. wake.state.wakeCount = n + 1
  BY <1>1, WhenAwake
<1>3. Cleared(n) /\ fastShown \in Nat /\ lost \in Nat /\ missed \in BOOLEAN
  BY <1>1, WhenAwake
<1>4. Slack(n) \in 0 .. 15 /\ Slack(n + 1) \in 0 .. 15
  BY SlackStep
<1> SUFFICES /\ ClearedNext(n + 1)
             /\ fastShown' \in Nat /\ lost' \in Nat /\ missed' \in BOOLEAN
  BY <1>2
<1>5. CASE ShowInFull
  <2>1. fastShown' = 0 /\ lost' = 0 /\ missed' \in BOOLEAN
    BY <1>5 DEF ShowInFull
  <2>2. fastShown' <= Slack(n + 1) + lost'
    BY <1>4, <2>1
  <2>. QED
    BY <2>1, <2>2 DEF ClearedNext
<1>6. CASE ShowNothing
  <2>1. missed' = (missed \/ FullRefreshDue(n + 1)) /\ fastShown' = fastShown /\ lost' = lost
    BY <1>2, <1>6 DEF ShowNothing
  <2>2. missed' \in BOOLEAN
    BY <1>3, <2>1 DEF FullRefreshDue
  <2>3. ASSUME ~ missed' PROVE fastShown' <= Slack(n + 1) + lost'
    <3>1. ~ missed /\ ~ FullRefreshDue(n + 1)
      BY <2>1, <2>3
    <3>2. fastShown <= Slack(n) + lost
      BY <1>3, <3>1 DEF Cleared
    <3>3. Slack(n + 1) = Slack(n) + 1
      BY <3>1, SlackStep
    <3>. QED
      BY <1>3, <1>4, <2>1, <3>2, <3>3
  <2>. QED
    BY <1>3, <2>1, <2>2, <2>3 DEF ClearedNext
<1>7. CASE ShowFast /\ ~ FullRefreshDue(wake.state.wakeCount)
  <2>1. missed' = missed /\ fastShown' = fastShown + 1 /\ lost' = lost
    BY <1>7 DEF ShowFast
  <2>2. ASSUME ~ missed' PROVE fastShown' <= Slack(n + 1) + lost'
    <3>1. fastShown <= Slack(n) + lost
      BY <1>3, <2>1, <2>2 DEF Cleared
    <3>2. ~ FullRefreshDue(n + 1)
      BY <1>2, <1>7
    <3>3. Slack(n + 1) = Slack(n) + 1
      BY <3>2, SlackStep
    <3>. QED
      BY <1>3, <1>4, <2>1, <3>1, <3>3
  <2>3. fastShown' \in Nat /\ lost' \in Nat
    BY <1>3, <2>1
  <2>. QED
    BY <1>3, <2>1, <2>2, <2>3 DEF ClearedNext
<1>. QED
  BY <1>5, <1>6, <1>7

(* A wake that is saved and followed by a sleep, or by a restart.          *)
LEMMA AwakeToDone ==
  ASSUME ScheduleInv, wake.pc = "awake", NEW seconds \in Nat,
         wake' = Done(wake.state, seconds, FALSE), UNCHANGED <<nvs, sleep, failures>>,
         ShowInFull \/ ShowNothing \/ (ShowFast /\ ~ FullRefreshDue(wake.state.wakeCount))
  PROVE  ScheduleInv'
<1>1. /\ ClearedNext(wake.state.wakeCount)
      /\ fastShown' \in Nat /\ lost' \in Nat /\ missed' \in BOOLEAN
  BY AwakeShown
<1>2. PICK state \in SavedState : state = wake.state
  BY WhenAwake
<1>3. state.wakeCount = nvs.wakeCount + 1 /\ nvs.wakeCount \in Nat
  BY <1>2, WhenAwake
<1>4. state.wakeCount >= 1 /\ nvs.wakeCount = state.wakeCount - 1
  BY <1>3
<1>5. state.setupFail = failures % 256 /\ ~ state.portal /\ wake # NoWake
  BY <1>2, WhenAwake
<1>. QED
  BY <1>1, <1>2, <1>4, <1>5, ToDone

LEMMA AwakeToOff ==
  ASSUME ScheduleInv, wake.pc = "awake", NEW state \in SavedState,
         SaveAndRestart(state), state.wakeCount = wake.state.wakeCount,
         failures' \in Nat, state.setupFail = failures' % 256,
         ShowInFull \/ ShowNothing
  PROVE  ScheduleInv'
<1>1. /\ ClearedNext(wake.state.wakeCount)
      /\ fastShown' \in Nat /\ lost' \in Nat /\ missed' \in BOOLEAN
  BY AwakeShown
<1>2. nvs' = state /\ wake' = NoWake /\ sleep' = NoSleep
  BY DEF SaveAndRestart
<1>3. sleep' \in [seconds : Nat, failed : BOOLEAN] /\ ~ sleep'.failed
  BY <1>2 DEF NoSleep
<1>. QED
  BY <1>1, <1>2, <1>3, ToOff

LEMMA ConnectKeeps == ScheduleInv /\ ConnectFails => ScheduleInv'
<1> SUFFICES ASSUME ScheduleInv, ConnectFails PROVE ScheduleInv'
  OBVIOUS
<1>0. wake.pc = "awake" /\ UNCHANGED failures
  BY DEF ConnectFails
<1>1. CASE /\ wake' = Done(wake.state, DefaultRefresh, FALSE)
           /\ ShowNothing /\ UNCHANGED <<nvs, sleep>>
  <2>1. DefaultRefresh \in Nat
    BY DEF DefaultRefresh
  <2>. QED
    BY <1>0, <1>1, <2>1, AwakeToDone
<1>2. CASE SaveAndRestart([wake.state EXCEPT !.portal = TRUE]) /\ ShowInFull
  <2> DEFINE state == [wake.state EXCEPT !.portal = TRUE]
  <2>1. /\ state \in SavedState /\ state.wakeCount = wake.state.wakeCount
        /\ state.setupFail = failures' % 256 /\ failures' \in Nat
    BY <1>0, WhenAwake DEF SavedState
  <2>. QED
    BY <1>0, <1>2, <2>1, AwakeToOff
<1>. QED
  BY <1>1, <1>2 DEF ConnectFails

LEMMA SetupKeeps == ScheduleInv /\ (SetupGivesKey \/ SetupFails) => ScheduleInv'
<1> SUFFICES ASSUME ScheduleInv, SetupGivesKey \/ SetupFails PROVE ScheduleInv'
  OBVIOUS
<1>1. CASE SetupGivesKey
  <2> DEFINE state == [wake.state EXCEPT !.key = TRUE, !.setupFail = 0]
  <2>1. /\ wake.pc = "awake" /\ nvs' = state /\ wake' = Under("provisioned", state)
        /\ failures' = 0 /\ UNCHANGED <<sleep, fastShown, lost, missed>>
    BY <1>1 DEF SetupGivesKey, ghostVars
  <2>2. /\ state \in SavedState
        /\ state.wakeCount = nvs.wakeCount + 1 /\ state.setupFail = 0 /\ ~ state.portal
    <3>1. wake.state \in SavedState /\ 0 \in 0 .. 255
      BY <2>1, WhenAwake
    <3>2. state \in SavedState
      BY <3>1 DEF SavedState
    <3>3. /\ state.wakeCount = wake.state.wakeCount /\ state.setupFail = 0
          /\ state.portal = wake.state.portal
      BY <3>1 DEF SavedState
    <3>. QED
      BY <2>1, <3>2, <3>3, WhenAwake
  <2>3. sleep' = NoSleep /\ ~ NoSleep.failed
    BY <2>1, WhenAwake DEF NoSleep
  <2> HIDE DEF state
  <2>9. wake'.pc = "provisioned" /\ wake'.state = state /\ wake' \in WakesUnder /\ wake' # NoWake
    BY <2>1, <2>2 DEF Under, WakesUnder, NoWake
  <2>4. ScheduleTypeOK'
    <3>1. /\ sleep \in [seconds : Nat, failed : BOOLEAN]
          /\ fastShown \in Nat /\ lost \in Nat /\ missed \in BOOLEAN
      BY DEF ScheduleInv, ScheduleTypeOK
    <3>2. nvs' \in SavedState /\ failures' \in Nat
      BY <2>1, <2>2
    <3>. QED
      BY <2>1, <2>9, <3>1, <3>2 DEF ScheduleTypeOK
  <2>5. CountInv'
    BY <2>1, <2>2, <2>9, ByteCounts DEF CountInv
  <2>6. SleepInv'
    BY <2>2, <2>3, <2>9 DEF SleepInv
  <2>7. nvs'.wakeCount >= 1 /\ nvs'.wakeCount - 1 = nvs.wakeCount
    BY <2>1, <2>2, WhenAwake
  <2>8. GhostInv'
    BY <2>1, <2>7, <2>9, WhenAwake DEF GhostInv, Cleared
  <2>. QED
    BY <2>4, <2>5, <2>6, <2>8 DEF ScheduleInv
<1>2. CASE SetupFails
  <2> DEFINE fails == (wake.state.setupFail + 1) % 256
             state == [wake.state EXCEPT !.setupFail = fails]
  <2>1. /\ wake.pc = "awake" /\ wake' = Done(state, Backoff(fails), TRUE)
        /\ ShowInFull /\ UNCHANGED <<nvs, sleep, failures>>
    BY <1>2 DEF SetupFails
  <2>2. fails = (failures + 1) % 256 /\ fails \in 0 .. 255
    BY <2>1, WhenAwake, ByteCounts
  <2>3. /\ state \in SavedState /\ state.wakeCount = nvs.wakeCount + 1
        /\ state.setupFail = fails /\ ~ state.portal /\ state.wakeCount = wake.state.wakeCount
    BY <2>1, <2>2, WhenAwake DEF SavedState
  <2>4. Backoff(fails) \in Nat
    BY <2>2, BackoffRange
  <2>5. /\ ClearedNext(wake.state.wakeCount)
        /\ fastShown' \in Nat /\ lost' \in Nat /\ missed' \in BOOLEAN
    BY <2>1, AwakeShown
  <2>6. state.wakeCount >= 1 /\ nvs.wakeCount = state.wakeCount - 1 /\ wake # NoWake
    BY <2>1, <2>3, WhenAwake
  <2> HIDE DEF fails, state
  <2>. QED
    BY <2>1, <2>2, <2>3, <2>4, <2>5, <2>6, ToDone
<1>. QED
  BY <1>1, <1>2

LEMMA ShowSetupKeeps == ScheduleInv /\ ShowSetup => ScheduleInv'
<1> SUFFICES ASSUME ScheduleInv, ShowSetup PROVE ScheduleInv'
  OBVIOUS
<1>1. /\ wake.pc = "provisioned" /\ wake' = Done(wake.state, DefaultRefresh, FALSE)
      /\ UNCHANGED <<nvs, sleep, failures>>
      /\ fastShown' = 0 /\ lost' = 0 /\ missed' \in BOOLEAN
  BY DEF ShowSetup, ShowInFull
<1>2. PICK state \in SavedState : state = wake.state
  BY <1>1, WakeShapes DEF ScheduleInv
<1>3. /\ wake # NoWake /\ state.setupFail = failures % 256 /\ ~ state.portal
      /\ state.wakeCount = nvs.wakeCount /\ state.wakeCount >= 1 /\ state.wakeCount \in Nat
  BY <1>1, <1>2, WakeShapes DEF ScheduleInv, CountInv, SleepInv, GhostInv, SavedState
<1>4. Slack(state.wakeCount) \in 0 .. 15
  BY <1>3, SlackStep
<1>5. fastShown' <= Slack(state.wakeCount) + lost'
  BY <1>1, <1>4
<1>6. ClearedNext(state.wakeCount) /\ DefaultRefresh \in Nat
  BY <1>5 DEF ClearedNext, DefaultRefresh
<1>. QED
  BY <1>1, <1>2, <1>3, <1>6, ToDone

LEMMA DisplayKeeps ==
  /\ ScheduleInv
  /\ DisplayFails \/ ServerResets \/ FirmwareInstalled \/ DisplayAnswers
  => ScheduleInv'
<1> SUFFICES ASSUME ScheduleInv, DisplayFails \/ ServerResets \/ FirmwareInstalled \/ DisplayAnswers
             PROVE  ScheduleInv'
  OBVIOUS
<1>0. DefaultRefresh \in Nat
  BY DEF DefaultRefresh
<1>1. CASE DisplayFails
  BY <1>0, <1>1, AwakeToDone DEF DisplayFails
<1>2. CASE ServerResets
  <2> DEFINE state == [wake.state EXCEPT !.key = FALSE, !.setupFail = 0, !.portal = TRUE]
  <2>1. wake.pc = "awake" /\ SaveAndRestart(state) /\ failures' = 0 /\ ShowNothing
    BY <1>2 DEF ServerResets
  <2>2. wake.state \in SavedState /\ 0 \in 0 .. 255
    BY <2>1, WhenAwake
  <2>3. state \in SavedState
    BY <2>2 DEF SavedState
  <2>4. state.wakeCount = wake.state.wakeCount /\ state.setupFail = 0
    BY <2>2 DEF SavedState
  <2>5. state.setupFail = failures' % 256 /\ failures' \in Nat
    BY <2>1, <2>4, ByteCounts
  <2> HIDE DEF state
  <2>. QED
    BY <2>1, <2>3, <2>4, <2>5, AwakeToOff
<1>3. CASE FirmwareInstalled
  <2>1. wake.pc = "awake" /\ SaveAndRestart(wake.state) /\ failures' = failures /\ ShowNothing
    BY <1>3 DEF FirmwareInstalled
  <2>. QED
    BY <2>1, WhenAwake, AwakeToOff
<1>4. CASE DisplayAnswers
  <2>1. PICK rate \in Rates :
          wake' = Done(wake.state, IF rate > 0 THEN rate ELSE DefaultRefresh, FALSE)
    BY <1>4 DEF DisplayAnswers
  <2>2. PICK seconds \in Nat : wake' = Done(wake.state, seconds, FALSE)
    BY <1>0, <2>1
  <2>3. /\ wake.pc = "awake" /\ UNCHANGED <<nvs, sleep, failures>>
        /\ ShowInFull \/ ShowNothing \/ (ShowFast /\ ~ FullRefreshDue(wake.state.wakeCount))
    BY <1>4 DEF DisplayAnswers
  <2>. QED
    BY <2>2, <2>3, AwakeToDone
<1>. QED
  BY <1>1, <1>2, <1>3, <1>4

(* What is known at the end of a wake.                                     *)
LEMMA WhenDone ==
  ASSUME ScheduleInv, wake.pc = "done"
  PROVE  /\ wake.state \in SavedState /\ wake.seconds \in Nat /\ wake.failed \in BOOLEAN
         /\ ~ wake.state.portal /\ sleep = NoSleep
         /\ Recorded \in Nat /\ wake.state.setupFail = Recorded % 256
         /\ wake.failed => wake.seconds = Backoff(Recorded % 256)
         /\ Cleared(wake.state.wakeCount)
         /\ fastShown \in Nat /\ lost \in Nat /\ missed \in BOOLEAN
<1>1. wake \in WakesDone /\ wake # NoWake
  BY WakeShapes DEF ScheduleInv
<1>2. wake.state \in SavedState /\ wake.seconds \in Nat /\ wake.failed \in BOOLEAN
  BY <1>1 DEF WakesDone
<1>3. Recorded \in Nat
  BY <1>2 DEF Recorded, ScheduleInv, ScheduleTypeOK
<1>. QED
  BY <1>1, <1>2, <1>3 DEF ScheduleInv, ScheduleTypeOK, CountInv, SleepInv, GhostInv

LEMMA EndKeeps == ScheduleInv /\ (EndWake \/ SerialCommand) => ScheduleInv'
<1> SUFFICES ASSUME ScheduleInv, EndWake \/ SerialCommand PROVE ScheduleInv'
  OBVIOUS
<1>1. /\ wake.pc = "done" /\ wake' = NoWake /\ failures' = Recorded
      /\ fastShown' = fastShown /\ lost' = lost /\ missed' = missed
  BY DEF EndWake, SerialCommand, SaveAndRestart, ghostVars
<1>2. ClearedNext(wake.state.wakeCount)
  BY <1>1, WhenDone DEF Cleared, ClearedNext
<1>3. CASE EndWake
  <2>1. nvs' = wake.state /\ sleep' = [seconds |-> wake.seconds, failed |-> wake.failed]
    BY <1>3 DEF EndWake
  <2>2. sleep' \in [seconds : Nat, failed : BOOLEAN]
    BY <1>1, <2>1, WhenDone
  <2>. QED
    BY <1>1, <1>2, <2>1, <2>2, WhenDone, ToOff
<1>4. CASE SerialCommand
  <2>1. PICK wipe \in BOOLEAN : SaveAndRestart([wake.state EXCEPT !.portal = wipe])
    BY <1>4 DEF SerialCommand
  <2>2. nvs' = [wake.state EXCEPT !.portal = wipe] /\ sleep' = NoSleep
    BY <2>1 DEF SaveAndRestart
  <2>3. nvs' \in SavedState /\ nvs'.setupFail = wake.state.setupFail /\ nvs'.wakeCount = wake.state.wakeCount
    BY <1>1, <2>2, WhenDone DEF SavedState
  <2>4. sleep' \in [seconds : Nat, failed : BOOLEAN] /\ ~ sleep'.failed
    BY <2>2 DEF NoSleep
  <2>. QED
    BY <1>1, <1>2, <2>3, <2>4, WhenDone, ToOff
<1>. QED
  BY <1>3, <1>4

LEMMA LossKeeps == ScheduleInv /\ PowerLoss => ScheduleInv'
<1> SUFFICES ASSUME ScheduleInv, PowerLoss PROVE ScheduleInv'
  OBVIOUS
<1>1. /\ wake # NoWake /\ wake' = NoWake /\ lost' = lost + 1
      /\ UNCHANGED <<nvs, sleep, failures, fastShown>>
      /\ missed' = (missed \/ (wake.pc = "provisioned" /\ FullRefreshDue(wake.state.wakeCount)))
  BY DEF PowerLoss
<1>2. /\ nvs \in SavedState /\ failures \in Nat /\ fastShown \in Nat
      /\ lost \in Nat /\ missed \in BOOLEAN
      /\ sleep = NoSleep /\ nvs.setupFail = failures % 256
  BY <1>1 DEF ScheduleInv, ScheduleTypeOK, SleepInv, CountInv
<1>3. nvs.wakeCount \in Nat
  BY <1>2 DEF SavedState
<1>4. missed' \in BOOLEAN
  BY <1>1, <1>2 DEF FullRefreshDue
<1>5. ASSUME ~ missed' PROVE fastShown <= Slack(nvs.wakeCount) + (lost + 1)
  <2>0. ~ missed /\ Slack(nvs.wakeCount) \in 0 .. 15
    BY <1>1, <1>3, <1>5, SlackStep
  <2>1. CASE wake.pc = "awake"
    <3>1. fastShown <= Slack(nvs.wakeCount) + lost
      BY <2>0, <2>1 DEF ScheduleInv, GhostInv, Cleared
    <3>. QED
      BY <1>2, <2>0, <3>1
  <2>2. CASE wake.pc = "provisioned"
    <3>1. /\ wake.state.wakeCount = nvs.wakeCount /\ nvs.wakeCount >= 1
          /\ fastShown <= Slack(nvs.wakeCount - 1) + lost
      BY <2>0, <2>2 DEF ScheduleInv, GhostInv, Cleared
    <3>2. PICK n \in Nat : nvs.wakeCount = n + 1
      <4>1. nvs.wakeCount - 1 \in Nat /\ nvs.wakeCount = (nvs.wakeCount - 1) + 1
        BY <1>3, <3>1
      <4>. QED
        BY <4>1
    <3>3. nvs.wakeCount - 1 = n
      BY <3>2
    <3>4. ~ FullRefreshDue(n + 1)
      BY <1>1, <1>5, <2>2, <3>1, <3>2
    <3>5. Slack(n + 1) = Slack(n) + 1 /\ Slack(n) \in 0 .. 15
      BY <3>4, SlackStep
    <3>6. fastShown <= Slack(n) + lost
      BY <3>1, <3>3
    <3>7. fastShown <= Slack(n + 1) + (lost + 1)
      BY <1>2, <3>5, <3>6
    <3>. QED
      BY <3>2, <3>7
  <2>3. CASE wake.pc = "done"
    <3>1. /\ nvs.wakeCount \in {wake.state.wakeCount - 1, wake.state.wakeCount}
          /\ wake.state.wakeCount >= 1
          /\ fastShown <= Slack(wake.state.wakeCount) + lost
      BY <2>0, <2>3 DEF ScheduleInv, GhostInv, Cleared
    <3>2. wake.state.wakeCount \in Nat
      BY <2>3, WhenDone DEF SavedState
    <3>3. CASE nvs.wakeCount = wake.state.wakeCount
      BY <1>2, <2>0, <3>1, <3>3
    <3>4. CASE nvs.wakeCount = wake.state.wakeCount - 1
      <4>1. PICK n \in Nat : n = nvs.wakeCount
        BY <1>3
      <4>2. wake.state.wakeCount = n + 1
        BY <3>2, <3>4, <4>1
      <4>3. Slack(n) \in 0 .. 15 /\ (Slack(n + 1) = 0 \/ Slack(n + 1) = Slack(n) + 1)
        BY SlackStep
      <4>4. fastShown <= Slack(n + 1) + lost
        BY <3>1, <4>2
      <4>5. fastShown <= Slack(n) + (lost + 1)
        BY <1>2, <4>3, <4>4
      <4>. QED
        BY <4>1, <4>5
    <3>. QED
      BY <3>1, <3>3, <3>4
  <2>. QED
    BY <1>1, <2>1, <2>2, <2>3, WakeShapes DEF ScheduleInv
<1>6. ClearedNext(nvs'.wakeCount)
  BY <1>1, <1>5 DEF ClearedNext
<1>7. ~ NoSleep.failed /\ NoSleep \in [seconds : Nat, failed : BOOLEAN]
  BY DEF NoSleep
<1>8. lost' \in Nat /\ fastShown' \in Nat /\ failures' \in Nat
  BY <1>1, <1>2
<1>. QED
  BY <1>1, <1>2, <1>4, <1>6, <1>7, <1>8, ToOff

LEMMA PortalKeeps == ScheduleInv /\ UsePortal => ScheduleInv'
<1> SUFFICES ASSUME ScheduleInv, UsePortal PROVE ScheduleInv'
  OBVIOUS
<1>1. PICK changed \in BOOLEAN :
        nvs' = SavedForm(changed) /\ failures' = (IF changed THEN 0 ELSE failures)
  BY DEF UsePortal
<1>2. /\ wake' = NoWake /\ sleep' = sleep /\ nvs.portal
      /\ fastShown' = 0 /\ lost' = 0 /\ missed' \in BOOLEAN
  BY DEF UsePortal, ShowInFull
<1>3. /\ nvs \in SavedState /\ failures \in Nat /\ sleep \in [seconds : Nat, failed : BOOLEAN]
      /\ nvs.setupFail = failures % 256 /\ ~ sleep.failed
  BY <1>2 DEF ScheduleInv, ScheduleTypeOK, CountInv, SleepInv
<1>4. nvs' \in SavedState /\ nvs'.setupFail = failures' % 256 /\ failures' \in Nat
  <2>1. CASE changed
    <3>1. nvs' = [nvs EXCEPT !.portal = FALSE, !.key = FALSE, !.setupFail = 0] /\ failures' = 0
      BY <1>1, <2>1 DEF SavedForm
    <3>2. nvs' \in SavedState
      <4>1. 0 \in 0 .. 255
        OBVIOUS
      <4>. QED
        BY <1>3, <3>1, <4>1 DEF SavedState
    <3>3. nvs'.setupFail = 0
      BY <1>3, <3>1 DEF SavedState
    <3>. QED
      BY <3>1, <3>2, <3>3, ByteCounts
  <2>2. CASE ~ changed
    <3>1. nvs' = [nvs EXCEPT !.portal = FALSE] /\ failures' = failures
      BY <1>1, <2>2 DEF SavedForm
    <3>. QED
      BY <1>3, <3>1 DEF SavedState
  <2>. QED
    BY <2>1, <2>2
<1>5. nvs'.wakeCount \in Nat
  BY <1>4 DEF SavedState
<1>6. Slack(nvs'.wakeCount) \in 0 .. 15
  BY <1>5, SlackStep
<1>7. fastShown' <= Slack(nvs'.wakeCount) + lost' /\ fastShown' \in Nat /\ lost' \in Nat
  BY <1>2, <1>6
<1>8. ClearedNext(nvs'.wakeCount)
  BY <1>7 DEF ClearedNext
<1>. QED
  BY <1>2, <1>3, <1>4, <1>7, <1>8, ToOff

LEMMA StutterKeeps == ScheduleInv /\ UNCHANGED scheduleVars => ScheduleInv'
BY DEF scheduleVars, ghostVars, ScheduleInv, ScheduleTypeOK, CountInv, SleepInv, GhostInv, Cleared, Recorded

(* Every step keeps the invariant.                                         *)
LEMMA StepInv == ScheduleInv /\ [ScheduleNext]_scheduleVars => ScheduleInv'
BY StartKeeps, ConnectKeeps, SetupKeeps, ShowSetupKeeps, DisplayKeeps, EndKeeps, LossKeeps,
   PortalKeeps, StutterKeeps DEF ScheduleNext

-----------------------------------------------------------------------------
(* The byte that counts failed setups and the wake counter stay in their   *)
(* ranges (TrmnlState.h:97-100).                                           *)
THEOREM ScheduleTypeCorrect == ScheduleSpec => []ScheduleTypeOK
<1>1. ScheduleInv => ScheduleTypeOK
  BY DEF ScheduleInv
<1>. QED
  BY <1>1, InitInv, StepInv, PTL DEF ScheduleSpec

(* However many setups fail, each sleep after one is as long as its place  *)
(* in the row says, up to the 255 the byte can hold                        *)
(* (TrmnlActivity.cpp:165-177).                                            *)
THEOREM SleepAlwaysFollowsFailures == ScheduleSpec => []SleepFollowsFailures
<1>1. ScheduleInv => SleepFollowsFailures
  <2> SUFFICES ASSUME ScheduleInv, sleep.failed, failures < 256 PROVE sleep.seconds = Backoff(failures)
    BY DEF SleepFollowsFailures
  <2>1. failures \in Nat /\ sleep.seconds = Backoff(failures % 256)
    BY DEF ScheduleInv, ScheduleTypeOK, SleepInv
  <2>2. failures % 256 = failures
    BY <2>1, ByteCounts
  <2>. QED
    BY <2>1, <2>2
<1>. QED
  BY <1>1, InitInv, StepInv, PTL DEF ScheduleSpec

(* However long the device runs, ghosting is cleared in time, unless the   *)
(* wake that was to clear it had nothing to show                           *)
(* (TrmnlActivity.cpp:271-273).                                            *)
THEOREM GhostingIsAlwaysCleared == ScheduleSpec => []GhostingIsCleared
<1>1. ScheduleInv => GhostingIsCleared
  <2> SUFFICES ASSUME ScheduleInv, ~ missed PROVE fastShown <= 15 + lost
    BY DEF GhostingIsCleared
  <2>1. fastShown \in Nat /\ lost \in Nat /\ nvs \in SavedState
    BY DEF ScheduleInv, ScheduleTypeOK
  <2>2. PICK n \in Nat : fastShown <= Slack(n) + lost
    <3>1. CASE wake = NoWake
      BY <2>1, <3>1 DEF ScheduleInv, GhostInv, Cleared, SavedState
    <3>2. CASE wake.pc = "awake"
      BY <2>1, <3>2 DEF ScheduleInv, GhostInv, Cleared, SavedState
    <3>3. CASE wake.pc = "provisioned"
      <4>1. nvs.wakeCount - 1 \in Nat /\ fastShown <= Slack(nvs.wakeCount - 1) + lost
        BY <2>1, <3>3 DEF ScheduleInv, GhostInv, Cleared, SavedState
      <4>. QED
        BY <4>1
    <3>4. CASE wake.pc = "done"
      <4>1. wake.state.wakeCount \in Nat /\ fastShown <= Slack(wake.state.wakeCount) + lost
        BY <3>4, WhenDone DEF Cleared, SavedState
      <4>. QED
        BY <4>1
    <3>. QED
      BY <3>1, <3>2, <3>3, <3>4, WakeShapes DEF ScheduleInv
  <2>3. Slack(n) \in 0 .. 15
    BY SlackStep
  <2>. QED
    BY <2>1, <2>2, <2>3
<1>. QED
  BY <1>1, InitInv, StepInv, PTL DEF ScheduleSpec
=============================================================================
