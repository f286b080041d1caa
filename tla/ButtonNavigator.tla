-------------------------- MODULE ButtonNavigator --------------------------
(***************************************************************************)
(* Moving through a list with the buttons (util/ButtonNavigator.cpp).      *)
(*                                                                         *)
(* The handlers run once per frame of loop(), and frames are unevenly far  *)
(* apart.  A list moves on the release of a button and, while it is held,  *)
(* again and again.  One button is pressed at a time.                      *)
(***************************************************************************)
EXTENDS Integers

CONSTANTS
  ContinuousStart,      \* continuousStartMs
  ContinuousInterval,   \* continuousIntervalMs
  MaxPause,             \* bound on the time between two frames
  MaxClock,             \* bound on millis()
  MaxItems              \* bound on the length of a list

ASSUME NavigatorAssumption == {ContinuousStart, ContinuousInterval, MaxPause, MaxClock, MaxItems} \subseteq Nat \ {0}

VARIABLES
  list,       \* [items, perPage, byPage, start]; the index at the start of the press
  index,      \* the item that is selected
  clock,      \* millis()
  press,      \* the button that is down: [way, since], or NoPress
  lastContinuousNavTime,
  steps       \* history: how often the callback ran for this press

navVars == <<list, index, clock, press, lastContinuousNavTime, steps>>

NoPress == [way |-> "none", since |-> 0]

-----------------------------------------------------------------------------
NextIndex(i, total) == IF total <= 0 THEN 0 ELSE (i + 1) % total
PreviousIndex(i, total) == IF total <= 0 THEN 0 ELSE (i + total - 1) % total

NextPageIndex(i, total, perPage) ==
  IF total <= 0 \/ perPage <= 0 THEN 0
  ELSE IF total <= perPage THEN NextIndex(i, total)
  ELSE IF i \div perPage < (total - 1) \div perPage THEN (i \div perPage + 1) * perPage ELSE 0

PreviousPageIndex(i, total, perPage) ==
  IF total <= 0 \/ perPage <= 0 THEN 0
  ELSE IF total <= perPage THEN PreviousIndex(i, total)
  ELSE IF i \div perPage > 0 THEN (i \div perPage - 1) * perPage ELSE ((total - 1) \div perPage) * perPage

(* The callback of a button.                                               *)
Callback(i, way) ==
  CASE way = "next" /\ ~ list.byPage     -> NextIndex(i, list.items)
    [] way = "next" /\ list.byPage       -> NextPageIndex(i, list.items, list.perPage)
    [] way = "previous" /\ ~ list.byPage -> PreviousIndex(i, list.items)
    [] way = "previous" /\ list.byPage   -> PreviousPageIndex(i, list.items, list.perPage)

-----------------------------------------------------------------------------
(* shouldNavigateContinuously(): at a frame while the button is down.      *)
ShouldNavigateContinuously ==
  /\ clock - press.since > ContinuousStart
  /\ clock - lastContinuousNavTime > ContinuousInterval

(* A button goes down between two frames.                                  *)
PressButton(way) ==
  /\ press = NoPress
  /\ press' = [way |-> way, since |-> clock] /\ steps' = 0 /\ list' = [list EXCEPT !.start = index]
  /\ UNCHANGED <<index, clock, lastContinuousNavTime>>

(* onContinuous().                                                         *)
HoldFrame ==
  /\ press # NoPress /\ ShouldNavigateContinuously
  /\ index' = Callback(index, press.way) /\ steps' = steps + 1
  /\ lastContinuousNavTime' = clock
  /\ UNCHANGED <<list, clock, press>>

\* A slip to test against: the time of the last step is left as it is.
Slip_AfterRelease(last) == last

AfterRelease(last) == 0

(* onRelease(): no step if there were some while the button was held.      *)
ReleaseFrame ==
  /\ press # NoPress
  /\ press' = NoPress
  /\ IF lastContinuousNavTime = 0
       THEN index' = Callback(index, press.way) /\ steps' = steps + 1
       ELSE UNCHANGED <<index, steps>>
  /\ lastContinuousNavTime' = AfterRelease(lastContinuousNavTime)
  /\ UNCHANGED <<list, clock>>

(* Time passes to the next frame; a frame that finds a button held long    *)
(* enough is not passed over.                                              *)
Pause(n) ==
  /\ ~ (press # NoPress /\ ShouldNavigateContinuously)
  /\ clock + n <= MaxClock /\ clock' = clock + n
  /\ UNCHANGED <<list, index, press, lastContinuousNavTime, steps>>

(* The device has been up for a while when a list is shown.                *)
NavInit ==
  /\ list \in [items : 1 .. MaxItems, perPage : 1 .. MaxItems, byPage : BOOLEAN, start : {0}]
  /\ index = 0 /\ clock = ContinuousInterval + 1
  /\ press = NoPress /\ lastContinuousNavTime = 0 /\ steps = 0

NavNext ==
  \/ \E way \in {"next", "previous"} : PressButton(way)
  \/ HoldFrame
  \/ ReleaseFrame
  \/ \E n \in 1 .. MaxPause : Pause(n)

NavSpec == NavInit /\ [][NavNext]_navVars

-----------------------------------------------------------------------------
(* Where so many steps lead, by the list alone.                            *)
Stops == IF list.byPage /\ list.items > list.perPage THEN (list.items - 1) \div list.perPage + 1 ELSE list.items
StopSize == IF list.byPage /\ list.items > list.perPage THEN list.perPage ELSE 1
After(start, way, n) ==
  IF n = 0 THEN start
  ELSE ((start \div StopSize + (IF way = "next" THEN n ELSE Stops * n - n)) % Stops) * StopSize

(* Every press moves the list at least once, a press let go in time just   *)
(* once, a button that is held never faster than its interval; and a list  *)
(* is at the item, or the first item of the page, that so many steps lead  *)
(* to, round the end or the beginning (ButtonNavigator.cpp:42-124).        *)
EveryPressIsAStep ==
  [][ /\ press # NoPress /\ press' = NoPress =>
           /\ steps' >= 1 /\ index' = After(list.start, press.way, steps')
           /\ clock - press.since <= ContinuousStart => steps' = 1
      /\ press # NoPress /\ steps' = steps + 1 /\ steps > 0 =>
           clock - lastContinuousNavTime > ContinuousInterval ]_navVars
=============================================================================
