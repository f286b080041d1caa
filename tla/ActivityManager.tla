-------------------------- MODULE ActivityManager --------------------------
(***************************************************************************)
(* Class ActivityManager: the loop task runs the current activity and      *)
(* moves between activities, the render task draws the current one.  The   *)
(* two meet at a mutex (RenderLock), at FreeRTOS task notifications and at *)
(* waitingTaskHandle.                                                      *)
(*                                                                         *)
(* What an activity does in loop(), onEnter() and its result handlers is   *)
(* any sequence of up to MaxCalls calls of the manager's interface; its    *)
(* onExit() calls nothing.  An activity that was destroyed may be created  *)
(* anew.  Left out: goToSleep(), which nothing calls.                      *)
(***************************************************************************)
EXTENDS Naturals, Sequences

CONSTANTS
  Activities,  \* activity objects
  NoActivity,  \* a null pointer
  MaxCalls     \* bound: calls of the manager an activity makes in one go

ASSUME ManagerAssumption == NoActivity \notin Activities /\ MaxCalls \in Nat

VARIABLES
  cur,        \* currentActivity
  stack,      \* stackActivities
  pend,       \* pendingActivity
  action,     \* pendingAction
  handler,    \* for each activity the child its resultHandler is for
  requested,  \* requestedUpdate
  mutex,      \* who holds renderingMutex
  notified,   \* tasks with a pending notification
  waiter,     \* waitingTaskHandle is the loop task
  lpc,        \* where the loop task stands
  ctx,        \* from where the activity was called
  calls,      \* calls it has made
  rpc,        \* where the render task stands
  shown,      \* the activity whose render() is running
  drawn       \* history: a render started since requestUpdateAndWait() began

screens == <<cur, stack, pend, action, handler>>
sync    == <<mutex, notified, waiter>>
looping == <<lpc, ctx, calls>>
drawing == <<rpc, shown, drawn>>
vars    == <<screens, requested, sync, looping, drawing>>

Maybe(S) == S \cup {NoActivity}
Tasks == {"loop", "render"}
Actions == {"None", "Push", "Pop", "Replace"}
LoopPcs == {"setup", "idle", "client", "notify", "wait", "pending", "popLock",
            "pop", "swapLock", "swap", "goTrmnl", "update"}
Contexts == {"setup", "loop", "enter", "handler"}
RenderPcs == {"take", "lock", "render", "wake", "unlock"}

Stacked == {stack[i] : i \in DOMAIN stack}
Fresh == Activities \ ({cur, pend} \cup Stacked)

-----------------------------------------------------------------------------
(* The loop task: calls of an activity.                                    *)

Enters(activity, from) ==
  /\ cur' = activity
  /\ lpc' = "client" /\ ctx' = from /\ calls' = 0

(* setup() launches the first activity: with no current one                *)
(* replaceActivity() enters it on the spot.                                *)
Launch(activity) ==
  /\ lpc = "setup"
  /\ Enters(activity, "setup")
  /\ UNCHANGED <<stack, pend, action, handler, requested, sync, drawing>>

CallLoop ==
  /\ lpc = "idle"
  /\ lpc' = "client" /\ ctx' = "loop" /\ calls' = 0
  /\ UNCHANGED <<screens, requested, sync, drawing>>

Calls ==
  /\ lpc = "client" /\ calls < MaxCalls
  /\ calls' = calls + 1
  /\ ctx' = ctx

RequestUpdate ==
  /\ Calls
  /\ requested' = TRUE
  /\ UNCHANGED <<screens, sync, lpc, drawing>>

RequestUpdateNow ==
  /\ Calls
  /\ notified' = notified \cup {"render"}
  /\ UNCHANGED <<screens, requested, mutex, waiter, lpc, drawing>>

(* requestUpdateAndWait(): the loop task registers itself and notifies the *)
(* render task, then waits for its own notification.                       *)
RegisterWaiter ==
  /\ Calls
  /\ waiter' = TRUE
  /\ drawn' = FALSE
  /\ lpc' = "notify"
  /\ UNCHANGED <<screens, requested, mutex, notified, rpc, shown>>

NotifyRender ==
  /\ lpc = "notify"
  /\ notified' = notified \cup {"render"}
  /\ lpc' = "wait"
  /\ UNCHANGED <<screens, requested, mutex, waiter, ctx, calls, drawing>>

WaitOver ==
  /\ lpc = "wait"
  /\ "loop" \in notified
  /\ notified' = notified \ {"loop"}
  /\ lpc' = "client"
  /\ UNCHANGED <<screens, requested, mutex, waiter, ctx, calls, drawing>>

(* startActivityForResult(), finish() and replaceActivity() leave a note   *)
(* for loop(); a later one overrides an earlier one.                       *)
StartForResult(child) ==
  /\ Calls
  /\ handler' = [handler EXCEPT ![cur] = child]
  /\ pend' = child /\ action' = "Push"
  /\ UNCHANGED <<cur, stack, requested, sync, lpc, drawing>>

Slip_KeepPending ==
  /\ Calls
  /\ action' = "Pop"
  /\ UNCHANGED <<cur, stack, pend, handler, requested, sync, lpc, drawing>>
Finish ==
  /\ Calls
  /\ pend' = NoActivity /\ action' = "Pop"
  /\ UNCHANGED <<cur, stack, handler, requested, sync, lpc, drawing>>

ReplaceBy(activity) ==
  /\ Calls
  /\ pend' = activity /\ action' = "Replace"
  /\ UNCHANGED <<cur, stack, handler, requested, sync, lpc, drawing>>

Slip_HandlerClearedLate ==
  /\ lpc = "client"
  /\ lpc' = IF ctx = "setup" THEN "idle" ELSE "pending"
  /\ requested' = (requested \/ (ctx = "handler" /\ action = "None"))
  /\ handler' = IF ctx = "handler" THEN [handler EXCEPT ![cur] = NoActivity] ELSE handler
  /\ UNCHANGED <<cur, stack, pend, action, sync, ctx, calls, drawing>>

(* The activity returns.  After a result handler that leaves no note an    *)
(* update is requested.                                                    *)
Return ==
  /\ lpc = "client"
  /\ lpc' = IF ctx = "setup" THEN "idle" ELSE "pending"
  /\ requested' = (requested \/ (ctx = "handler" /\ action = "None"))
  /\ UNCHANGED <<screens, sync, ctx, calls, drawing>>

-----------------------------------------------------------------------------
(* The loop task: moving between activities.                               *)

Pending ==
  /\ lpc = "pending"
  /\ \/ action = "None" /\ lpc' = "update"
     \/ action = "Pop" /\ lpc' = "popLock"
     \/ action \in {"Push", "Replace"} /\ pend # NoActivity /\ lpc' = "swapLock"
  /\ UNCHANGED <<screens, requested, sync, ctx, calls, drawing>>

Slip_NoLock ==
  /\ \/ lpc = "popLock" /\ lpc' = "pop"
     \/ lpc = "swapLock" /\ lpc' = "swap"
  /\ UNCHANGED <<screens, requested, sync, ctx, calls, drawing>>
TakeLock ==
  /\ \/ lpc = "popLock" /\ lpc' = "pop"
     \/ lpc = "swapLock" /\ lpc' = "swap"
  /\ mutex = "free" /\ mutex' = "loop"
  /\ UNCHANGED <<screens, requested, notified, waiter, ctx, calls, drawing>>

(* The last activity is gone: unlock, and a TrmnlActivity is created and   *)
(* entered without the lock.                                               *)
PopLast ==
  /\ lpc = "pop" /\ stack = <<>>
  /\ cur' = NoActivity
  /\ handler' = [handler EXCEPT ![cur] = NoActivity]
  /\ action' = "None"
  /\ mutex' = "free"
  /\ lpc' = "goTrmnl"
  /\ UNCHANGED <<stack, pend, requested, notified, waiter, ctx, calls, drawing>>

GoToTrmnl(activity) ==
  /\ lpc = "goTrmnl"
  /\ Enters(activity, "enter")
  /\ UNCHANGED <<stack, pend, action, handler, requested, sync, drawing>>

(* Back to the activity below.  Its result handler is taken off before it  *)
(* is run, so that it can start another activity.                          *)
Top == stack[Len(stack)]
Below == SubSeq(stack, 1, Len(stack) - 1)

PopTo ==
  /\ lpc = "pop" /\ stack # <<>>
  /\ stack' = Below
  /\ handler' = [handler EXCEPT ![cur] = NoActivity, ![Top] = NoActivity]
  /\ action' = "None"
  /\ mutex' = "free"
  /\ IF handler[Top] # NoActivity
       THEN Enters(Top, "handler") /\ UNCHANGED requested
       ELSE /\ cur' = Top
            /\ lpc' = "pending" /\ requested' = TRUE
            /\ UNCHANGED <<ctx, calls>>
  /\ UNCHANGED <<pend, notified, waiter, drawing>>

Slip_ExitedThenPushed == Append(stack, NoActivity)
Pushed == Append(stack, cur)

(* The pending activity takes over.  Replacing drops the whole stack.      *)
Swap ==
  /\ lpc = "swap"
  /\ IF action = "Push"
       THEN stack' = Pushed /\ UNCHANGED handler
       ELSE stack' = <<>> /\ handler' = [a \in Activities |-> NoActivity]
  /\ Enters(pend, "enter")
  /\ pend' = NoActivity /\ action' = "None"
  /\ mutex' = "free"
  /\ UNCHANGED <<requested, notified, waiter, drawing>>

Slip_UpdateForgotten ==
  /\ lpc = "update" /\ lpc' = "idle"
  /\ requested' = FALSE
  /\ UNCHANGED <<screens, sync, ctx, calls, drawing>>
Update ==
  /\ lpc = "update" /\ lpc' = "idle"
  /\ requested' = FALSE
  /\ notified' = IF requested THEN notified \cup {"render"} ELSE notified
  /\ UNCHANGED <<screens, mutex, waiter, ctx, calls, drawing>>

-----------------------------------------------------------------------------
(* The render task.                                                        *)

AwaitRequest ==
  /\ rpc = "take" /\ rpc' = "lock"
  /\ "render" \in notified
  /\ notified' = notified \ {"render"}
  /\ UNCHANGED <<screens, requested, mutex, waiter, looping, shown, drawn>>

BeginRender ==
  /\ rpc = "lock"
  /\ mutex = "free" /\ mutex' = "render"
  /\ IF cur = NoActivity
       THEN rpc' = "wake" /\ UNCHANGED <<shown, drawn>>
       ELSE rpc' = "render" /\ shown' = cur /\ drawn' = TRUE
  /\ UNCHANGED <<screens, requested, notified, waiter, looping>>

EndRender ==
  /\ rpc = "render" /\ rpc' = "wake"
  /\ shown' = NoActivity
  /\ UNCHANGED <<screens, requested, sync, looping, drawn>>

Slip_ClearedFirst ==
  /\ rpc = "wake" /\ rpc' = "unlock"
  /\ waiter' = FALSE
  /\ notified' = IF waiter' THEN notified \cup {"loop"} ELSE notified
  /\ UNCHANGED <<screens, requested, mutex, looping, shown, drawn>>
Slip_NeverCleared ==
  /\ rpc = "wake" /\ rpc' = "unlock"
  /\ notified' = IF waiter THEN notified \cup {"loop"} ELSE notified
  /\ UNCHANGED <<screens, requested, mutex, waiter, looping, shown, drawn>>

(* Whoever waits is told, and only then the lock is given back.            *)
WakeWaiter ==
  /\ rpc = "wake" /\ rpc' = "unlock"
  /\ notified' = IF waiter THEN notified \cup {"loop"} ELSE notified
  /\ waiter' = FALSE
  /\ UNCHANGED <<screens, requested, mutex, looping, shown, drawn>>

GiveLock ==
  /\ rpc = "unlock" /\ rpc' = "take"
  /\ mutex' = "free"
  /\ UNCHANGED <<screens, requested, notified, waiter, looping, shown, drawn>>

-----------------------------------------------------------------------------
Init ==
  /\ cur = NoActivity /\ pend = NoActivity /\ shown = NoActivity
  /\ stack = <<>>
  /\ action = "None"
  /\ handler = [a \in Activities |-> NoActivity]
  /\ requested = FALSE /\ waiter = FALSE /\ drawn = FALSE
  /\ mutex = "free"
  /\ notified = {}
  /\ lpc = "setup" /\ ctx = "setup" /\ calls = 0
  /\ rpc = "take"

Navigate == Pending \/ TakeLock \/ PopLast \/ PopTo \/ Swap
LoopTask ==
  \/ CallLoop \/ RequestUpdate \/ RequestUpdateNow
  \/ RegisterWaiter \/ NotifyRender \/ WaitOver \/ Finish \/ Return
  \/ Navigate \/ Update
  \/ \E a \in Fresh : Launch(a) \/ GoToTrmnl(a) \/ StartForResult(a) \/ ReplaceBy(a)
RenderTask == AwaitRequest \/ BeginRender \/ EndRender \/ WakeWaiter \/ GiveLock

Next == LoopTask \/ RenderTask

(* Both tasks have priority 1 and share the processor; the loop task gives *)
(* it away with the mutex free at the end of every loop() (delay(10) in    *)
(* main.cpp), so the render task is not kept from the mutex for ever.      *)
Spec == Init /\ [][Next]_vars
FairSpec == Spec /\ WF_vars(LoopTask) /\ WF_vars(RenderTask) /\ SF_vars(BeginRender)

-----------------------------------------------------------------------------
TypeOK ==
  /\ cur \in Maybe(Activities) /\ pend \in Maybe(Activities)
  /\ shown \in Maybe(Activities)
  /\ stack \in Seq(Activities)
  /\ action \in Actions
  /\ handler \in [Activities -> Maybe(Activities)]
  /\ requested \in BOOLEAN /\ waiter \in BOOLEAN /\ drawn \in BOOLEAN
  /\ mutex \in Tasks \cup {"free"}
  /\ notified \in SUBSET Tasks
  /\ lpc \in LoopPcs /\ ctx \in Contexts /\ calls \in 0 .. MaxCalls
  /\ rpc \in RenderPcs

(* The render task never draws an activity that the loop task has moved    *)
(* aside or destroyed meanwhile (the race named at ActivityManager.cpp:30).*)
RenderedIsCurrent == shown # NoActivity => shown = cur

(* Every activity on the stack waits for the result of the one above it,   *)
(* so that no result is lost or handed to another screen.                  *)
ResultsGoToStarter ==
  \A i \in DOMAIN stack :
    handler[stack[i]] = IF i = Len(stack) THEN cur ELSE stack[i + 1]

(* Whoever calls requestUpdateAndWait() finds neither a waiter nor an old  *)
(* notification left from an earlier wait (the assertion at                *)
(* ActivityManager.cpp:207).                                               *)
NobodyWaitsTwice == lpc = "client" => ~waiter /\ "loop" \notin notified

(* A note to push or replace comes with an activity, and no activity is    *)
(* left behind without a note: else loop() would spin for ever.            *)
PendingHasActivity == action \in {"Push", "Replace"} <=> pend # NoActivity

(* requestUpdateAndWait() returns.                                         *)
WaitEnds == lpc = "wait" ~> lpc = "client"

(* A requested update is drawn, as long as activities let loop() end.  One *)
(* that the render task takes up when the last activity has just been      *)
(* destroyed draws nothing: it was meant for that activity.                *)
UpdateIsDrawn ==
  []<>(lpc = "idle") => (requested ~> rpc = "render" \/ cur = NoActivity)

(* "Trigger a render and block until it completes"                         *)
(* (ActivityManager.h:100): the render that ends the wait began after it.  *)
WaitIsForOwnRender == [][lpc = "wait" /\ lpc' = "client" => drawn]_vars
=============================================================================
