----------------------- MODULE ActivityManager_proofs -----------------------
(***************************************************************************)
(* Proofs about ActivityManager, for any number of activities and calls:   *)
(* what the mutex and the task notifications guarantee between the two     *)
(* tasks, and what the notes left for loop() guarantee for the stack.      *)
(***************************************************************************)
EXTENDS ActivityManager, SequenceTheorems, TLAPS

-----------------------------------------------------------------------------
(* The render task and the loop task exclude each other.                   *)

(* Who holds the mutex is told by where the two tasks stand.               *)
LockInv ==
  /\ mutex = "loop" <=> lpc \in {"pop", "swap"}
  /\ mutex = "render" <=> rpc \in {"render", "wake", "unlock"}

(* What is being drawn is the current activity, and there is none at the   *)
(* two points at which an activity takes over without the mutex.           *)
DrawInv ==
  /\ rpc = "render" => shown = cur /\ shown # NoActivity
  /\ rpc # "render" => shown = NoActivity
  /\ lpc \in {"setup", "goTrmnl"} => cur = NoActivity

(* The mutex is taken only when it is free, and given back by its holder.  *)
LEMMA LockNext == LockInv /\ [Next]_vars => LockInv'
<1> SUFFICES ASSUME LockInv, [Next]_vars PROVE LockInv'
  OBVIOUS
<1>1. \/ UNCHANGED mutex /\ UNCHANGED rpc
         /\ lpc \notin {"pop", "swap"} /\ lpc' \notin {"pop", "swap"}
      \/ UNCHANGED <<mutex, rpc, lpc>>
      \/ TakeLock \/ PopLast \/ PopTo \/ Swap \/ RenderTask
  BY DEF Next, LoopTask, Navigate, CallLoop, RequestUpdate, RequestUpdateNow,
     RegisterWaiter, NotifyRender, WaitOver, Finish, Return, Pending, Update, Launch,
     GoToTrmnl, StartForResult, ReplaceBy, Calls, Enters, sync, drawing, looping, vars
<1>2. CASE TakeLock
  BY <1>2 DEF TakeLock, LockInv, drawing
<1>3. CASE PopLast
  BY <1>3 DEF PopLast, LockInv, drawing
<1>4. CASE PopTo
  BY <1>4 DEF PopTo, Enters, LockInv, drawing
<1>5. CASE Swap
  BY <1>5 DEF Swap, Enters, LockInv, drawing
<1>6. CASE RenderTask
  BY <1>6 DEF RenderTask, AwaitRequest, BeginRender, EndRender, WakeWaiter, GiveLock,
     looping, sync, LockInv
<1>. QED
  BY <1>1, <1>2, <1>3, <1>4, <1>5, <1>6 DEF LockInv

(* With the mutex held by the loop task nothing is being drawn.            *)
LEMMA DrawNext == LockInv /\ DrawInv /\ [Next]_vars => DrawInv'
<1> SUFFICES ASSUME LockInv, DrawInv, [Next]_vars PROVE DrawInv'
  OBVIOUS
<1>1. \/ UNCHANGED <<cur, rpc, shown>> /\ lpc' \notin {"setup", "goTrmnl"}
      \/ UNCHANGED <<cur, rpc, shown, lpc>>
      \/ \E a \in Fresh : Launch(a) \/ GoToTrmnl(a)
      \/ PopLast \/ PopTo \/ Swap \/ RenderTask
  BY DEF Next, LoopTask, Navigate, CallLoop, RequestUpdate, RequestUpdateNow,
     RegisterWaiter, NotifyRender, WaitOver, Finish, Return, Pending, TakeLock, Update,
     StartForResult, ReplaceBy, Calls, screens, sync, drawing, looping, vars
<1>2. ASSUME NEW a \in Fresh, Launch(a) \/ GoToTrmnl(a)
      PROVE  DrawInv'
  BY <1>2 DEF Launch, GoToTrmnl, Enters, DrawInv, drawing
<1>3. CASE PopLast
  BY <1>3 DEF PopLast, LockInv, DrawInv, drawing
<1>4. CASE PopTo
  BY <1>4 DEF PopTo, Enters, LockInv, DrawInv, drawing
<1>5. CASE Swap
  BY <1>5 DEF Swap, Enters, LockInv, DrawInv, drawing
<1>6. CASE RenderTask
  BY <1>6 DEF RenderTask, AwaitRequest, BeginRender, EndRender, WakeWaiter, GiveLock,
     looping, screens, sync, LockInv, DrawInv
<1>. QED
  BY <1>1, <1>2, <1>3, <1>4, <1>5, <1>6 DEF DrawInv

(* The render task never draws an activity that the loop task has moved    *)
(* aside or destroyed: renderTaskLoop() reads currentActivity under the    *)
(* lock that loop() takes to change it (ActivityManager.cpp:27-36, 57, 96).*)
THEOREM OnlyTheCurrentIsRendered == Spec => []RenderedIsCurrent
<1>1. Init => LockInv /\ DrawInv
  BY DEF Init, LockInv, DrawInv
<1>2. LockInv /\ DrawInv /\ [Next]_vars => (LockInv /\ DrawInv)'
  BY LockNext, DrawNext
<1>3. DrawInv => RenderedIsCurrent
  BY DEF DrawInv, RenderedIsCurrent
<1>. QED
  BY <1>1, <1>2, <1>3, PTL DEF Spec

-----------------------------------------------------------------------------
(* Waiting for a render.                                                   *)

(* The waiter is registered, or told, only between the registration and    *)
(* the end of the wait; and it is not told before it is forgotten.         *)
WaitInv ==
  /\ waiter => lpc \in {"notify", "wait"}
  /\ "loop" \in notified => lpc \in {"notify", "wait"} /\ ~waiter

(* One step keeps the waiter and its notification apart.                   *)
LEMMA WaitNext == WaitInv /\ [Next]_vars => WaitInv'
<1> SUFFICES ASSUME WaitInv, [Next]_vars PROVE WaitInv'
  OBVIOUS
<1>1. \/ /\ UNCHANGED waiter
         /\ "loop" \in notified' => "loop" \in notified
         /\ lpc' = lpc \/ lpc \notin {"notify", "wait"}
      \/ RegisterWaiter \/ NotifyRender \/ WaitOver \/ WakeWaiter
  BY DEF Next, LoopTask, Navigate, CallLoop, RequestUpdate, RequestUpdateNow,
     Finish, Return, Pending, TakeLock, PopLast, PopTo, Swap, Update, Launch, GoToTrmnl,
     StartForResult, ReplaceBy, Calls, Enters, RenderTask, AwaitRequest, BeginRender,
     EndRender, GiveLock, sync, looping, vars
<1>2. CASE RegisterWaiter
  BY <1>2 DEF RegisterWaiter, Calls, WaitInv
<1>3. CASE NotifyRender
  BY <1>3 DEF NotifyRender, WaitInv
<1>4. CASE WaitOver
  BY <1>4 DEF WaitOver, WaitInv
<1>5. CASE WakeWaiter
  BY <1>5 DEF WakeWaiter, WaitInv, looping
<1>. QED
  BY <1>1, <1>2, <1>3, <1>4, <1>5 DEF WaitInv

(* A call of requestUpdateAndWait() never finds another waiter, so the     *)
(* assertion at ActivityManager.cpp:207 holds, nor a notification left     *)
(* over, so a wait never ends because an earlier one was told twice.       *)
THEOREM NobodyEverWaitsTwice == Spec => []NobodyWaitsTwice
<1>1. Init => WaitInv
  BY DEF Init, WaitInv
<1>2. WaitInv => NobodyWaitsTwice
  BY DEF WaitInv, NobodyWaitsTwice
<1>. QED
  BY <1>1, <1>2, WaitNext, PTL DEF Spec

-----------------------------------------------------------------------------
(* Types, and the notes that activities leave for loop().                  *)

(* Where the loop task stands tells what note it is carrying out, and when *)
(* there is no current activity.                                           *)
AtLabels ==
  /\ lpc \in {"popLock", "pop"} => action = "Pop"
  /\ lpc \in {"swapLock", "swap"} => action \in {"Push", "Replace"}
  /\ lpc \in {"setup", "goTrmnl"} => cur = NoActivity /\ stack = <<>>
  /\ lpc \notin {"setup", "goTrmnl"} => cur # NoActivity

NoteInv == TypeOK /\ AtLabels /\ PendingHasActivity

(* The steps that change the screens; the others only move the loop task   *)
(* on, and not to a label where its note is wrong.                         *)
LEMMA ScreenSteps ==
  ASSUME AtLabels, [Next]_vars
  PROVE  \/ UNCHANGED screens /\ AtLabels'
         \/ Finish \/ PopLast \/ PopTo \/ Swap
         \/ \E a \in Fresh : Launch(a) \/ GoToTrmnl(a) \/ StartForResult(a) \/ ReplaceBy(a)
<1>1. CASE LoopTask
  BY <1>1 DEF LoopTask, Navigate, CallLoop, RequestUpdate, RequestUpdateNow,
     RegisterWaiter, NotifyRender, WaitOver, Return, Pending, TakeLock, Update, Calls,
     screens, AtLabels
<1>2. CASE RenderTask
  BY <1>2 DEF RenderTask, AwaitRequest, BeginRender, EndRender, WakeWaiter, GiveLock,
     screens, looping, AtLabels
<1>3. CASE UNCHANGED vars
  BY <1>3 DEF vars, screens, looping, AtLabels
<1>. QED
  BY <1>1, <1>2, <1>3 DEF Next

(* A note to push or replace keeps its activity until it is carried out.   *)
LEMMA NoteNext ==
  ASSUME NoteInv, [Next]_vars
  PROVE  PendingHasActivity' /\ AtLabels'
<1>. USE DEF NoteInv, PendingHasActivity, AtLabels
<1>1. CASE UNCHANGED screens /\ AtLabels'
  BY <1>1 DEF screens
<1>2. CASE Finish
  BY <1>2 DEF Finish, Calls
<1>3. CASE PopLast
  BY <1>3 DEF PopLast
<1>4. CASE PopTo
  <2>1. Top \in Activities
    BY <1>4 DEF PopTo, Top, TypeOK
  <2>. QED
    BY <1>4, <2>1, ManagerAssumption DEF PopTo, Enters
<1>5. CASE Swap
  BY <1>5 DEF Swap, Enters
<1>6. ASSUME NEW a \in Fresh, Launch(a) \/ GoToTrmnl(a)
      PROVE  PendingHasActivity' /\ AtLabels'
  BY <1>6, ManagerAssumption DEF Launch, GoToTrmnl, Enters, Fresh
<1>7. ASSUME NEW a \in Fresh, StartForResult(a) \/ ReplaceBy(a)
      PROVE  PendingHasActivity' /\ AtLabels'
  BY <1>7, ManagerAssumption DEF StartForResult, ReplaceBy, Calls, Fresh
<1>. QED
  BY ScreenSteps, <1>1, <1>2, <1>3, <1>4, <1>5, <1>6, <1>7

(* The screens keep their types.                                           *)
LEMMA ScreensTyped ==
  ASSUME NoteInv, [Next]_vars
  PROVE  /\ cur' \in Maybe(Activities) /\ pend' \in Maybe(Activities)
         /\ stack' \in Seq(Activities)
         /\ action' \in Actions
         /\ handler' \in [Activities -> Maybe(Activities)]
<1>. USE DEF NoteInv, TypeOK, Maybe, Actions
<1>1. CASE UNCHANGED screens /\ AtLabels'
  BY <1>1 DEF screens
<1>2. CASE Finish
  BY <1>2 DEF Finish
<1>3. CASE PopLast
  BY <1>3 DEF PopLast
<1>4. CASE PopTo
  <2>1. Top \in Activities
    BY <1>4 DEF PopTo, Top
  <2>2. Below \in Seq(Activities)
    BY <1>4 DEF PopTo, Below
  <2>. QED
    BY <1>4, <2>1, <2>2 DEF PopTo, Enters
<1>5. CASE Swap
  <2>1. pend \in Activities /\ cur \in Activities
    BY <1>5 DEF Swap, AtLabels, PendingHasActivity
  <2>2. CASE action = "Push"
    BY <1>5, <2>1, <2>2 DEF Swap, Enters, Pushed
  <2>3. CASE action # "Push"
    BY <1>5, <2>1, <2>3 DEF Swap, Enters
  <2>. QED
    BY <2>2, <2>3
<1>6. ASSUME NEW a \in Fresh,
             Launch(a) \/ GoToTrmnl(a) \/ StartForResult(a) \/ ReplaceBy(a)
      PROVE  /\ cur' \in Maybe(Activities) /\ pend' \in Maybe(Activities)
             /\ stack' \in Seq(Activities)
             /\ action' \in Actions
             /\ handler' \in [Activities -> Maybe(Activities)]
  BY <1>6 DEF Launch, GoToTrmnl, StartForResult, ReplaceBy, Enters, Fresh
<1>. QED
  BY ScreenSteps, <1>1, <1>2, <1>3, <1>4, <1>5, <1>6

(* So does what the two tasks share and where they stand.                  *)
LEMMA TasksTyped ==
  ASSUME TypeOK, [Next]_vars
  PROVE  /\ mutex' \in Tasks \cup {"free"} /\ notified' \in SUBSET Tasks
         /\ lpc' \in LoopPcs /\ ctx' \in Contexts /\ calls' \in 0 .. MaxCalls
         /\ rpc' \in RenderPcs /\ shown' \in Maybe(Activities)
<1>. USE DEF TypeOK, Tasks, LoopPcs, Contexts, RenderPcs, Maybe
<1>1. CASE LoopTask
  <2>1. UNCHANGED <<rpc, shown>>
    BY <1>1 DEF LoopTask, Navigate, CallLoop, RequestUpdate,
       RequestUpdateNow, RegisterWaiter, NotifyRender, WaitOver, Finish, Return, Pending,
       TakeLock, PopLast, PopTo, Swap, Update, Launch, GoToTrmnl, StartForResult, ReplaceBy,
       drawing
  <2>2. mutex' \in {mutex, "loop", "free"}
    BY <1>1 DEF LoopTask, Navigate, CallLoop, RequestUpdate,
       RequestUpdateNow, RegisterWaiter, NotifyRender, WaitOver, Finish, Return, Pending,
       TakeLock, PopLast, PopTo, Swap, Update, Launch, GoToTrmnl, StartForResult, ReplaceBy,
       sync
  <2>3. notified' \in {notified, notified \cup {"render"}, notified \ {"loop"}}
    BY <1>1 DEF LoopTask, Navigate, CallLoop, RequestUpdate,
       RequestUpdateNow, RegisterWaiter, NotifyRender, WaitOver, Finish, Return, Pending,
       TakeLock, PopLast, PopTo, Swap, Update, Launch, GoToTrmnl, StartForResult, ReplaceBy,
       sync
  <2>4. lpc' \in LoopPcs /\ ctx' \in Contexts
    BY <1>1 DEF LoopTask, Navigate, CallLoop, RequestUpdate,
       RequestUpdateNow, RegisterWaiter, NotifyRender, WaitOver, Finish, Return, Pending,
       TakeLock, PopLast, PopTo, Swap, Update, Launch, GoToTrmnl, StartForResult, ReplaceBy,
       Calls, Enters
  <2>5. calls' = calls \/ calls' = 0 \/ Calls
    BY <1>1 DEF LoopTask, Navigate, CallLoop, RequestUpdate,
       RequestUpdateNow, RegisterWaiter, NotifyRender, WaitOver, Finish, Return, Pending,
       TakeLock, PopLast, PopTo, Swap, Update, Launch, GoToTrmnl, StartForResult, ReplaceBy,
       Enters
  <2>6. calls' \in 0 .. MaxCalls
    BY <2>5, ManagerAssumption DEF Calls
  <2>. QED
    BY <2>1, <2>2, <2>3, <2>4, <2>6
<1>2. CASE RenderTask
  BY <1>2 DEF RenderTask, AwaitRequest, BeginRender, EndRender, WakeWaiter, GiveLock,
     looping, sync
<1>3. CASE UNCHANGED vars
  BY <1>3 DEF vars, sync, looping, drawing
<1>. QED
  BY <1>1, <1>2, <1>3 DEF Next

(* And the flags.                                                          *)
LEMMA FlagsTyped ==
  ASSUME requested \in BOOLEAN, waiter \in BOOLEAN, drawn \in BOOLEAN, [Next]_vars
  PROVE  requested' \in BOOLEAN /\ waiter' \in BOOLEAN /\ drawn' \in BOOLEAN
BY Zenon DEF Next, LoopTask, Navigate, CallLoop, RequestUpdate, RequestUpdateNow,
   RegisterWaiter, NotifyRender, WaitOver, Finish, Return, Pending, TakeLock, PopLast,
   PopTo, Swap, Update, Launch, GoToTrmnl, StartForResult, ReplaceBy, Calls, Enters,
   RenderTask, AwaitRequest, BeginRender, EndRender, WakeWaiter, GiveLock,
   screens, sync, looping, drawing, vars

(* Every step keeps the types and the notes together.                      *)
LEMMA NoteInductive == Spec => []NoteInv
<1>1. Init => NoteInv
  <2> SUFFICES ASSUME Init PROVE NoteInv
    OBVIOUS
  <2>1. requested \in BOOLEAN /\ waiter \in BOOLEAN /\ drawn \in BOOLEAN
    BY Zenon DEF Init
  <2>2. /\ cur \in Maybe(Activities) /\ pend \in Maybe(Activities)
        /\ shown \in Maybe(Activities)
        /\ stack \in Seq(Activities) /\ handler \in [Activities -> Maybe(Activities)]
    BY DEF Init, Maybe
  <2>3. /\ action \in Actions /\ mutex \in Tasks \cup {"free"}
        /\ notified \in SUBSET Tasks
        /\ lpc \in LoopPcs /\ ctx \in Contexts /\ calls \in 0 .. MaxCalls
        /\ rpc \in RenderPcs
    BY ManagerAssumption DEF Init, Actions, Tasks, LoopPcs, Contexts, RenderPcs
  <2>4. TypeOK
    BY <2>1, <2>2, <2>3, Zenon DEF TypeOK
  <2>. QED
    BY <2>4 DEF Init, NoteInv, AtLabels, PendingHasActivity
<1>2. NoteInv /\ [Next]_vars => NoteInv'
  <2> SUFFICES ASSUME NoteInv, [Next]_vars PROVE NoteInv'
    OBVIOUS
  <2>1. TypeOK
    BY DEF NoteInv
  <2>2. requested' \in BOOLEAN /\ waiter' \in BOOLEAN /\ drawn' \in BOOLEAN
    BY <2>1, FlagsTyped, Zenon DEF TypeOK
  <2>3. TypeOK'
    BY <2>1, <2>2, ScreensTyped, TasksTyped, Zenon DEF TypeOK
  <2>. QED
    BY <2>3, NoteNext DEF NoteInv
<1>. QED
  BY <1>1, <1>2, PTL DEF Spec

(* Every variable keeps its type: in particular the stack holds activities *)
(* only, never the null pointer that a move leaves behind.                 *)
THEOREM TypeCorrect == Spec => []TypeOK
<1>1. NoteInv => TypeOK
  BY DEF NoteInv
<1>. QED
  BY <1>1, NoteInductive, PTL

(* A note to push or replace always comes with its activity, so that the   *)
(* inner loop of loop() (ActivityManager.cpp:55-115) makes progress.       *)
THEOREM PendingAlwaysHasActivity == Spec => []PendingHasActivity
<1>1. NoteInv => PendingHasActivity
  BY DEF NoteInv
<1>. QED
  BY <1>1, NoteInductive, PTL

-----------------------------------------------------------------------------
(* Results.                                                                *)

(* No activity is in two places, and a note to push comes from an activity *)
(* that waits for the one to be pushed.                                    *)
StackInv ==
  /\ \A i, j \in DOMAIN stack : stack[i] = stack[j] => i = j
  /\ \A i \in DOMAIN stack : stack[i] # cur /\ stack[i] # pend
  /\ pend # NoActivity => pend # cur
  /\ action = "Push" => cur # NoActivity /\ handler[cur] = pend
  /\ ResultsGoToStarter

(* The activities below the top of the stack.                              *)
LEMMA BelowTop ==
  ASSUME stack \in Seq(Activities), stack # <<>>
  PROVE  /\ DOMAIN Below = 1 .. (Len(stack) - 1) /\ Len(Below) = Len(stack) - 1
         /\ \A i \in DOMAIN Below : i \in DOMAIN stack /\ Below[i] = stack[i] /\ i # Len(stack)
         /\ Len(stack) \in DOMAIN stack /\ Len(stack) \in Nat
<1>. DEFINE n == Len(stack)
<1>1. n \in Nat /\ n # 0 /\ DOMAIN stack = 1 .. n
  OBVIOUS
<1>2. \A i \in 1 .. n - 1 : stack[i] \in Activities
  BY <1>1
<1>3. /\ Below \in Seq(Activities) /\ Len(Below) = n - 1
      /\ \A i \in 1 .. n - 1 : Below[i] = stack[i]
  <2>. HIDE DEF n
  <2>1. 1 \in Int /\ n - 1 \in Int /\ 1 .. n - 1 = 1 .. (n - 1) - 1 + 1
    BY <1>1
  <2>2. /\ SubSeq(stack, 1, n - 1) \in Seq(Activities)
        /\ Len(SubSeq(stack, 1, n - 1)) = IF 1 <= n - 1 THEN (n - 1) - 1 + 1 ELSE 0
        /\ \A i \in 1 .. (n - 1) - 1 + 1 : SubSeq(stack, 1, n - 1)[i] = stack[1 + i - 1]
    BY <1>2, <2>1, SubSeqProperties
  <2>3. Below = SubSeq(stack, 1, n - 1)
    BY DEF Below, n
  <2>. QED
    BY <1>1, <2>2, <2>3
<1>4. DOMAIN Below = 1 .. n - 1
  BY <1>1, <1>3
<1>. QED
  BY <1>1, <1>3, <1>4

(* Taking an activity off the stack: its handler and that of the one that  *)
(* is gone are dropped, and nobody below waited for either.                *)
LEMMA StackPop ==
  ASSUME NoteInv, StackInv, PopTo
  PROVE  StackInv'
<1>1. stack \in Seq(Activities) /\ handler \in [Activities -> Maybe(Activities)]
  BY DEF NoteInv, TypeOK
<1>2. stack # <<>> /\ stack' = Below /\ pend' = pend /\ cur' = Top /\ action' = "None"
  BY DEF PopTo, Enters
<1>3. pend = NoActivity
  BY DEF PopTo, NoteInv, AtLabels, PendingHasActivity
<1>4. \A i \in DOMAIN Below : handler'[stack[i]] = handler[stack[i]]
  <2> TAKE i \in DOMAIN Below
  <2>1. stack[i] # cur /\ stack[i] # Top
    BY <1>1, <1>2, BelowTop DEF StackInv, Top
  <2>2. stack[i] \in Activities
    BY <1>1, <1>2, BelowTop
  <2>. QED
    BY <1>1, <2>1, <2>2 DEF PopTo
<1>5. ResultsGoToStarter'
  <2> SUFFICES ASSUME NEW i \in DOMAIN Below
               PROVE  handler'[Below[i]] = IF i = Len(Below) THEN Top ELSE Below[i + 1]
    BY <1>2 DEF ResultsGoToStarter
  <2>1. handler'[Below[i]] = stack[i + 1]
    BY <1>1, <1>2, <1>4, BelowTop DEF StackInv, ResultsGoToStarter
  <2>2. CASE i = Len(Below)
    BY <1>1, <1>2, <2>1, <2>2, BelowTop DEF Top
  <2>3. CASE i # Len(Below)
    <3>1. i + 1 \in DOMAIN Below
      BY <1>1, <1>2, <2>3, BelowTop
    <3>. QED
      BY <1>1, <1>2, <2>1, <2>3, <3>1, BelowTop
  <2>. QED
    BY <2>2, <2>3
<1>6. \A i, j \in DOMAIN Below : Below[i] = Below[j] => i = j
  BY <1>1, <1>2, BelowTop DEF StackInv
<1>7. \A i \in DOMAIN Below : Below[i] # Top /\ Below[i] # pend
  BY <1>1, <1>2, BelowTop DEF StackInv, Top
<1>. QED
  BY <1>2, <1>3, <1>5, <1>6, <1>7 DEF StackInv

(* Putting the current activity on the stack: it waits for the new one.    *)
LEMMA StackPush ==
  ASSUME NoteInv, StackInv, Swap, action = "Push"
  PROVE  StackInv'
<1>1. stack \in Seq(Activities) /\ cur \in Activities /\ pend \in Activities
  BY DEF Swap, NoteInv, TypeOK, Maybe, AtLabels, PendingHasActivity
<1>2. /\ stack' = Append(stack, cur) /\ cur' = pend /\ handler' = handler
      /\ pend' = NoActivity /\ action' = "None"
  BY DEF Swap, Enters, Pushed
<1>3. /\ DOMAIN stack' = 1 .. (Len(stack) + 1) /\ Len(stack') = Len(stack) + 1
      /\ DOMAIN stack = 1 .. Len(stack) /\ Len(stack) \in Nat
      /\ stack'[Len(stack) + 1] = cur
      /\ \A i \in DOMAIN stack : stack'[i] = stack[i]
  BY <1>1, <1>2
<1>4. pend # cur /\ handler[cur] = pend
  BY <1>1, ManagerAssumption DEF StackInv
<1>5. ResultsGoToStarter'
  <2> SUFFICES ASSUME NEW i \in DOMAIN stack'
               PROVE  handler[stack'[i]] = IF i = Len(stack') THEN pend ELSE stack'[i + 1]
    BY <1>2 DEF ResultsGoToStarter
  <2>1. CASE i = Len(stack) + 1
    BY <1>3, <1>4, <2>1
  <2>2. CASE i = Len(stack)
    <3>1. i \in DOMAIN stack
      BY <1>3, <2>2
    <3>. QED
      BY <1>3, <2>2, <3>1 DEF StackInv, ResultsGoToStarter
  <2>3. CASE i < Len(stack)
    <3>1. i \in DOMAIN stack /\ i + 1 \in DOMAIN stack /\ i # Len(stack)
      BY <1>3, <2>3
    <3>. QED
      BY <1>3, <3>1 DEF StackInv, ResultsGoToStarter
  <2>. QED
    BY <1>3, <2>1, <2>2, <2>3
<1>6. \A i, j \in DOMAIN stack' : stack'[i] = stack'[j] => i = j
  BY <1>3 DEF StackInv
<1>7. \A i \in DOMAIN stack' : stack'[i] \in Activities /\ stack'[i] # pend
  BY <1>1, <1>3, <1>4 DEF StackInv
<1>. QED
  BY <1>2, <1>5, <1>6, <1>7, ManagerAssumption DEF StackInv

(* Every step keeps every waiting activity below the one it waits for.     *)
LEMMA StackNext == NoteInv /\ StackInv /\ [Next]_vars => StackInv'
<1> SUFFICES ASSUME NoteInv, StackInv, [Next]_vars PROVE StackInv'
  OBVIOUS
<1>1. TypeOK /\ AtLabels
  BY DEF NoteInv
<1>2. CASE UNCHANGED screens /\ AtLabels'
  BY <1>2 DEF screens, StackInv, ResultsGoToStarter
<1>3. CASE Finish
  <2>1. \A i \in DOMAIN stack : stack[i] # NoActivity
    BY <1>1, ManagerAssumption DEF TypeOK
  <2>. QED
    BY <1>3, <2>1 DEF Finish, StackInv, ResultsGoToStarter
<1>4. CASE PopLast
  BY <1>4 DEF PopLast, StackInv, ResultsGoToStarter
<1>5. CASE PopTo
  BY <1>5, StackPop
<1>6. CASE Swap
  <2>1. CASE action = "Push"
    BY <1>6, <2>1, StackPush
  <2>2. CASE action # "Push"
    BY <1>6, <2>2 DEF Swap, Enters, StackInv, ResultsGoToStarter
  <2>. QED
    BY <2>1, <2>2
<1>7. ASSUME NEW a \in Fresh, Launch(a) \/ GoToTrmnl(a)
      PROVE  StackInv'
  <2>1. stack = <<>> /\ stack' = <<>>
    BY <1>1, <1>7 DEF Launch, GoToTrmnl, AtLabels
  <2>2. cur' = a /\ pend' = pend /\ action' = action /\ handler' = handler
    BY <1>7 DEF Launch, GoToTrmnl, Enters
  <2>3. pend # a
    BY DEF Fresh
  <2>4. action # "Push"
    BY <1>1, <1>7 DEF Launch, GoToTrmnl, AtLabels, StackInv
  <2>. QED
    BY <2>1, <2>2, <2>3, <2>4 DEF StackInv, ResultsGoToStarter
<1>8. ASSUME NEW a \in Fresh, ReplaceBy(a)
      PROVE  StackInv'
  BY <1>8 DEF ReplaceBy, Fresh, Stacked, StackInv, ResultsGoToStarter
<1>9. ASSUME NEW a \in Fresh, StartForResult(a)
      PROVE  StackInv'
  <2>1. cur \in Activities
    BY <1>1, <1>9 DEF StartForResult, Calls, TypeOK, Maybe, AtLabels
  <2>2. handler'[cur] = a
    BY <1>1, <1>9, <2>1 DEF StartForResult, TypeOK
  <2>3. \A i \in DOMAIN stack : handler'[stack[i]] = handler[stack[i]]
    BY <1>1, <1>9 DEF StartForResult, TypeOK, StackInv
  <2>4. cur # NoActivity /\ pend' = a /\ cur' = cur /\ stack' = stack
    BY <1>9, <2>1, ManagerAssumption DEF StartForResult
  <2>5. a # cur /\ \A i \in DOMAIN stack : stack[i] # a
    BY DEF Fresh, Stacked
  <2>6. ResultsGoToStarter'
    BY <2>3, <2>4 DEF StackInv, ResultsGoToStarter
  <2>. QED
    BY <2>2, <2>4, <2>5, <2>6 DEF StackInv
<1>. QED
  BY <1>1, ScreenSteps, <1>2, <1>3, <1>4, <1>5, <1>6, <1>7, <1>8, <1>9

(* Every activity on the stack waits for the result of the one right above *)
(* it, whatever activities start, finish and replace one another in        *)
(* loop(), onEnter() and result handlers (ActivityManager.cpp:55-115).     *)
THEOREM ResultsAlwaysGoToStarter == Spec => []ResultsGoToStarter
<1>1. Init => StackInv
  BY DEF Init, StackInv, ResultsGoToStarter
<1>2. StackInv => ResultsGoToStarter
  BY DEF StackInv
<1>. QED
  BY <1>1, <1>2, StackNext, NoteInductive, PTL DEF Spec
=============================================================================
