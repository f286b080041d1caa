---------------------------- MODULE Board_proofs ----------------------------
(***************************************************************************)
(* Proofs about what the board runs on: downloads to the card              *)
(* (HttpDownloader), the mapping of the buttons (FrontButtons), the ring   *)
(* of recent pictures (CrossPointState), moving through lists              *)
(* (ButtonNavigator), the battery (BatteryGauge), the log of a crash       *)
(* (CrashLog), the saved files (SavedFiles), and that each part of the     *)
(* board behaves as its own specification says (Board).                    *)
(***************************************************************************)
EXTENDS Board, WakeSchedule_proofs, Numbers, TLAPS

-----------------------------------------------------------------------------
(***************************************************************************)
(* CrashLog: for a ring of any length, any number of tasks that log and    *)
(* any number of messages.                                                 *)
(***************************************************************************)
(* A message that was put since the ring was cleared.                      *)
IsKept(m) == IF m > cleared THEN m ELSE NoMessage

(* From the head on the ring holds the last messages: all of them, or all  *)
(* but the one that was put where the head still stands.                   *)
InOrder ==
  IF putting = {}
    THEN \A i \in Positions : logMessages[Slot(i)] = IsKept(logged + i - MaxLogLines)
    ELSE /\ logMessages[logHead] = logged /\ logged > cleared
         /\ \A i \in Positions \ {1} : logMessages[Slot(i)] = IsKept(logged + i - MaxLogLines - 1)

Genuine == \A s \in Slots : logMessages[s] = NoMessage \/ logMessages[s] \in cleared + 1 .. logged

(* A ring with the magic has its head in range and holds no garbage.       *)
RingInv ==
  /\ LogTypeOK
  /\ putting # {} \/ boot \in {"begun", "up"} => rtcLogMagic
  /\ putting # {} => boot # "off"
  /\ rtcLogMagic => logHead \in Slots /\ Genuine
  /\ rtcLogMagic /\ alone /\ boot # "off" => (\A t, u \in putting : t = u) /\ InOrder

USE LogAssumption

-----------------------------------------------------------------------------
(* Round the end of the ring.                                              *)
LEMMA SlotOf ==
  ASSUME NEW h \in Slots, NEW i \in Positions
  PROVE  /\ (h + i - 1) % MaxLogLines \in Slots
         /\ (h + i - 1) % MaxLogLines = IF h + i - 1 < MaxLogLines THEN h + i - 1 ELSE h + i - 1 - MaxLogLines
  BY DEF Slots, Positions

LEMMA FirstSlot ==
  ASSUME NEW h \in Slots
  PROVE  1 \in Positions /\ (h + 1 - 1) % MaxLogLines = h
  BY DEF Slots, Positions

LEMMA OtherSlots ==
  ASSUME NEW h \in Slots, NEW i \in Positions \ {1}
  PROVE  (h + i - 1) % MaxLogLines # h
  BY SlotOf DEF Slots, Positions

(* What comes i-th after the next head comes (i + 1)-th after this one.    *)
LEMMA NextSlot ==
  ASSUME NEW h \in Slots
  PROVE  /\ NextHead(h) \in Slots
         /\ \A i \in Positions : i # MaxLogLines =>
              /\ i + 1 \in Positions \ {1}
              /\ (NextHead(h) + i - 1) % MaxLogLines = (h + (i + 1) - 1) % MaxLogLines
         /\ (NextHead(h) + MaxLogLines - 1) % MaxLogLines = h
<1>1. NextHead(h) = IF h = MaxLogLines - 1 THEN 0 ELSE h + 1
  BY DEF NextHead, Slots
<1>2. NextHead(h) \in Slots /\ MaxLogLines \in Positions
  BY <1>1 DEF Slots, Positions
<1>3. ASSUME NEW i \in Positions, i # MaxLogLines
      PROVE  /\ i + 1 \in Positions \ {1}
             /\ (NextHead(h) + i - 1) % MaxLogLines = (h + (i + 1) - 1) % MaxLogLines
  <2>1. i + 1 \in Positions \ {1}
    BY <1>3 DEF Positions
  <2>. QED
    BY <1>1, <1>2, <2>1, SlotOf DEF Slots, Positions
<1>4. (NextHead(h) + MaxLogLines - 1) % MaxLogLines = h
  BY <1>1, <1>2, SlotOf DEF Slots, Positions
<1>. QED
  BY <1>2, <1>3, <1>4

-----------------------------------------------------------------------------
LEMMA PutTyped ==
  ASSUME RingInv, NEW t \in Loggers, PutMessage(t)
  PROVE  /\ rtcLogMagic' \in BOOLEAN /\ panicked' \in BOOLEAN
         /\ boot' \in {"off", "static", "begun", "up"} /\ boot' # "off" /\ boot # "off"
         /\ putting' \subseteq Loggers
<1>1. rtcLogMagic' = TRUE /\ panicked' = panicked /\ boot' = boot /\ boot # "off"
  BY DEF PutMessage
<1>2. putting' = putting \cup {t} /\ putting \subseteq Loggers /\ panicked \in BOOLEAN
      /\ boot \in {"off", "static", "begun", "up"}
  BY DEF PutMessage, RingInv, LogTypeOK
<1>. QED
  BY <1>1, <1>2, Zenon

(* A message is put: over the oldest one, or first in a cleared ring.      *)
LEMMA PutKeeps ==
  ASSUME RingInv, NEW t \in Loggers, PutMessage(t)
  PROVE  RingInv'
<1>1. /\ logged \in 0 .. MaxLogged /\ cleared \in 0 .. logged /\ logMessages \in [Slots -> 0 .. Garbage]
      /\ logged < MaxLogged /\ logged' = logged + 1 /\ rtcLogMagic' = TRUE /\ boot' = boot
      /\ putting' = putting \cup {t}
  BY DEF RingInv, LogTypeOK, PutMessage
<1>2. 0 \in Slots
  BY DEF Slots
<1>3. CASE rtcLogMagic
  <2>1. /\ logHead \in Slots /\ logHead' = logHead /\ cleared' = cleared
        /\ logMessages' = [logMessages EXCEPT ![logHead] = logged + 1]
        /\ alone' = (alone /\ putting = {})
    BY <1>3 DEF RingInv, PutMessage, HasLost
  <2>2. LogTypeOK'
    <3>1. logMessages' \in [Slots -> 0 .. Garbage]
      BY <1>1, <2>1 DEF Garbage
    <3>2. (alone /\ putting = {}) \in BOOLEAN
      OBVIOUS
    <3>3. logHead' \in 0 .. MaxLogLines /\ logged' \in 0 .. MaxLogged /\ cleared' \in 0 .. logged'
      BY <1>1, <2>1 DEF Slots
    <3>. QED
      BY <1>1, <2>1, <3>1, <3>2, <3>3, PutTyped, Zenon DEF LogTypeOK
  <2>3. Genuine'
    BY <1>1, <1>3, <2>1 DEF RingInv, Genuine
  <2>4. ASSUME alone', boot # "off" PROVE (\A u, v \in putting' : u = v) /\ InOrder'
    <3>1. putting = {} /\ putting' = {t} /\ alone
      BY <1>1, <2>1, <2>4
    <3>2. \A i \in Positions : logMessages[Slot(i)] = IsKept(logged + i - MaxLogLines)
      BY <1>3, <2>4, <3>1 DEF RingInv, InOrder
    <3>3. logMessages'[logHead'] = logged' /\ logged' > cleared'
      BY <1>1, <2>1
    <3>4. ASSUME NEW i \in Positions \ {1}
          PROVE  logMessages'[Slot(i)'] = IsKept(logged + i - MaxLogLines)
      <4>1. Slot(i)' = Slot(i) /\ Slot(i) # logHead /\ Slot(i) \in Slots
        BY <2>1, SlotOf, OtherSlots DEF Slot
      <4>. QED
        BY <1>1, <2>1, <3>2, <4>1
    <3>5. \A i \in Positions : IsKept(logged + i - MaxLogLines - 1)' = IsKept(logged + i - MaxLogLines)
      BY <1>1, <2>1 DEF IsKept, Positions
    <3>6. \A i \in Positions \ {1} : logMessages'[Slot(i)'] = IsKept(logged + i - MaxLogLines - 1)'
      BY <3>4, <3>5
    <3>. QED
      BY <3>1, <3>3, <3>6, SMT DEF InOrder
  <2>. QED
    BY <1>1, <2>1, <2>2, <2>3, <2>4, PutTyped, Zenon DEF RingInv
<1>4. CASE ~ rtcLogMagic
  <2>1. /\ logHead' = 0 /\ cleared' = logged /\ putting' = {t}
        /\ logMessages' = [BlankRing EXCEPT ![0] = logged + 1]
    BY <1>1, <1>4 DEF RingInv, PutMessage, HasLost
  <2>2. logMessages' = [s \in Slots |-> IF s = 0 THEN logged + 1 ELSE NoMessage]
    BY <1>2, <2>1 DEF BlankRing
  <2>3. alone' \in BOOLEAN
    BY <1>4 DEF PutMessage
  <2>4. LogTypeOK'
    <3>1. logMessages' \in [Slots -> 0 .. Garbage]
      BY <1>1, <2>2 DEF Garbage, NoMessage
    <3>2. logHead' \in 0 .. MaxLogLines /\ logged' \in 0 .. MaxLogged /\ cleared' \in 0 .. logged'
      BY <1>1, <2>1
    <3>. QED
      BY <1>1, <2>3, <3>1, <3>2, PutTyped, Zenon DEF LogTypeOK
  <2>5. Genuine'
    BY <1>1, <2>1, <2>2 DEF Genuine
  <2>6. InOrder'
    <3>1. logMessages'[logHead'] = logged' /\ logged' > cleared'
      BY <1>1, <1>2, <2>1, <2>2
    <3>2. ASSUME NEW i \in Positions \ {1}
          PROVE  logMessages'[Slot(i)'] = IsKept(logged + i - MaxLogLines - 1)'
      <4>1. Slot(i)' # 0 /\ Slot(i)' \in Slots
        BY <1>2, <2>1, SlotOf, OtherSlots DEF Slot
      <4>2. logMessages'[Slot(i)'] = NoMessage
        BY <2>2, <4>1
      <4>3. IsKept(logged + i - MaxLogLines - 1)' = NoMessage
        BY <1>1, <2>1 DEF IsKept, Positions
      <4>. QED
        BY <4>2, <4>3
    <3>. QED
      BY <2>1, <3>1, <3>2 DEF InOrder
  <2>7. \A u, v \in putting' : u = v
    BY <2>1
  <2>. QED
    BY <1>1, <1>2, <2>1, <2>4, <2>5, <2>6, <2>7, PutTyped, Zenon DEF RingInv
<1>. QED
  BY <1>3, <1>4

(* The head moves on: the message that was put is the newest now.          *)
LEMMA MoveKeeps ==
  ASSUME RingInv, NEW t \in Loggers, MoveHead(t)
  PROVE  RingInv'
<1>1. /\ t \in putting /\ putting' = putting \ {t} /\ logHead' = NextHead(logHead)
      /\ UNCHANGED <<logMessages, rtcLogMagic, boot, panicked, logged, cleared, alone>>
  BY DEF MoveHead
<1>2. rtcLogMagic /\ logHead \in Slots /\ Genuine
  BY <1>1 DEF RingInv
<1>3. logHead' \in Slots
  BY <1>1, <1>2, NextSlot
<1>4. LogTypeOK'
  BY <1>1, <1>3 DEF RingInv, LogTypeOK, Slots
<1>5. Genuine'
  BY <1>1, <1>2 DEF Genuine
<1>6. ASSUME alone, boot # "off" PROVE (\A u, v \in putting' : u = v) /\ InOrder'
  <2>1. putting = {t} /\ putting' = {} /\ InOrder
    BY <1>1, <1>2, <1>6 DEF RingInv
  <2>2. /\ logMessages[logHead] = logged /\ logged > cleared
        /\ \A i \in Positions \ {1} : logMessages[Slot(i)] = IsKept(logged + i - MaxLogLines - 1)
    BY <2>1 DEF InOrder
  <2>3. logged \in Nat /\ cleared \in Nat
    BY DEF RingInv, LogTypeOK
  <2>4. ASSUME NEW i \in Positions
        PROVE  logMessages'[Slot(i)'] = IsKept(logged + i - MaxLogLines)'
    <3>1. Slot(i)' = (NextHead(logHead) + i - 1) % MaxLogLines
      BY <1>1 DEF Slot
    <3>2. IsKept(logged + i - MaxLogLines)' = IsKept(logged + i - MaxLogLines)
      BY <1>1 DEF IsKept
    <3>3. CASE i # MaxLogLines
      <4>1. i + 1 \in Positions \ {1} /\ Slot(i)' = Slot(i + 1)
        BY <1>2, <3>1, <3>3, NextSlot DEF Slot
      <4>2. logged + (i + 1) - MaxLogLines - 1 = logged + i - MaxLogLines
        BY <2>3 DEF Positions
      <4>. QED
        BY <1>1, <2>2, <3>2, <4>1, <4>2
    <3>4. CASE i = MaxLogLines
      <4>1. Slot(i)' = logHead
        BY <1>2, <3>1, <3>4, NextSlot
      <4>2. IsKept(logged + i - MaxLogLines) = logged
        BY <2>2, <2>3, <3>4 DEF IsKept
      <4>. QED
        BY <1>1, <2>2, <3>2, <4>1, <4>2
    <3>. QED
      BY <3>3, <3>4
  <2>. QED
    BY <2>1, <2>4 DEF InOrder
<1>. QED
  BY <1>1, <1>2, <1>3, <1>4, <1>5, <1>6 DEF RingInv

(* begin() keeps a ring after a panic, and clears it else.                 *)
LEMMA BeginKeeps ==
  ASSUME RingInv, HalSystemBegin
  PROVE  RingInv'
<1>1. /\ putting = {} /\ putting' = putting /\ logged' = logged /\ panicked' = panicked
      /\ boot = "static" /\ boot' = "begun"
  BY DEF HalSystemBegin
<1>2. CASE panicked /\ rtcLogMagic
  <2>1. UNCHANGED <<ringVars, cleared, alone>>
    BY <1>2 DEF RingInv, HalSystemBegin, HasLost
  <2>2. LogTypeOK' /\ Genuine' = Genuine /\ InOrder' = InOrder
    BY <1>1, <2>1 DEF RingInv, LogTypeOK, Genuine, InOrder, Slot, IsKept, ringVars
  <2>. QED
    BY <1>1, <1>2, <2>1, <2>2 DEF RingInv, ringVars
<1>3. CASE ~ (panicked /\ rtcLogMagic)
  <2>1. logMessages' = BlankRing /\ logHead' = 0 /\ rtcLogMagic' = TRUE /\ cleared' = logged /\ alone' = TRUE
    BY <1>3 DEF RingInv, HalSystemBegin, HasLost, ClearLastLogs
  <2>2. logged \in Nat /\ logged \in 0 .. MaxLogged
    BY DEF RingInv, LogTypeOK
  <2>3. LogTypeOK'
    BY <1>1, <2>1, <2>2 DEF RingInv, LogTypeOK, BlankRing, NoMessage, Garbage
  <2>4. InOrder' /\ Genuine'
    <3>1. logged' \in Nat /\ cleared' = logged' /\ putting' = {}
      BY <1>1, <2>1, <2>2
    <3>2. /\ \A i \in Positions : logMessages'[Slot(i)'] = IsKept(logged + i - MaxLogLines)'
          /\ Genuine'
      <4>1. 0 \in Slots
        BY DEF Slots
      <4>2. ASSUME NEW i \in Positions PROVE logMessages'[Slot(i)'] = NoMessage
        BY <2>1, <4>1, SlotOf DEF Slot, BlankRing
      <4>3. ASSUME NEW i \in Positions PROVE IsKept(logged + i - MaxLogLines)' = NoMessage
        <5>1. ~ (logged + i - MaxLogLines > logged)
          BY <2>2 DEF Positions
        <5>2. logged' = logged /\ cleared' = logged
          BY <1>1, <2>1
        <5>. QED
          BY <5>1, <5>2, Zenon DEF IsKept
      <4>. QED
        BY <2>1, <4>2, <4>3 DEF Genuine, BlankRing
    <3>. QED
      BY <3>1, <3>2 DEF InOrder
  <2>. QED
    BY <1>1, <2>1, <2>3, <2>4 DEF RingInv, Slots
<1>. QED
  BY <1>2, <1>3

LEMMA RingInvNext == RingInv /\ [LogNext]_logVars => RingInv'
<1> SUFFICES ASSUME RingInv, [LogNext]_logVars PROVE RingInv'
  OBVIOUS
<1>1. CASE UNCHANGED logVars \/ CheckPanic
  BY <1>1 DEF RingInv, LogTypeOK, Genuine, InOrder, Slot, IsKept, ringVars, logVars, CheckPanic
<1>2. ASSUME NEW panic \in BOOLEAN, Reset(panic) PROVE RingInv'
  <2>1. /\ UNCHANGED <<logMessages, logHead, rtcLogMagic, logged, cleared>>
        /\ boot' = "static" /\ putting' = {} /\ alone' = (alone /\ putting = {}) /\ boot # "off"
        /\ panicked' = panic
    BY <1>2 DEF Reset, ringVars
  <2>2. LogTypeOK' /\ (rtcLogMagic' => logHead' \in Slots /\ Genuine')
    BY <2>1 DEF RingInv, LogTypeOK, Genuine
  <2>3. ASSUME rtcLogMagic, alone, putting = {} PROVE InOrder'
    BY <2>1, <2>3 DEF RingInv, InOrder, Slot, IsKept
  <2>. QED
    BY <2>1, <2>2, <2>3 DEF RingInv
<1>3. CASE PowerOff
  BY <1>3 DEF PowerOff, RingInv, LogTypeOK, Genuine, ringVars
<1>4. CASE PowerUp
  <2>1. rtcLogMagic' = FALSE /\ logMessages' = [s \in Slots |-> Garbage] /\ logHead' \in 0 .. MaxLogLines
    BY <1>4 DEF PowerUp
  <2>2. putting' = {}
    BY <1>4 DEF PowerUp, RingInv
  <2>3. LogTypeOK'
    <3>1. logMessages' \in [Slots -> 0 .. Garbage]
      BY <2>1 DEF Garbage
    <3>2. boot' = "static" /\ panicked' = FALSE /\ UNCHANGED <<logged, cleared, alone>>
      BY <1>4 DEF PowerUp
    <3>3. logged' \in 0 .. MaxLogged /\ cleared' \in 0 .. logged'
      BY <3>2 DEF RingInv, LogTypeOK
    <3>4. alone \in BOOLEAN
      BY DEF RingInv, LogTypeOK
    <3>. QED
      BY <2>1, <2>2, <3>1, <3>2, <3>3, <3>4, Zenon DEF LogTypeOK
  <2>. QED
    BY <1>4, <2>1, <2>2, <2>3 DEF PowerUp, RingInv
<1>. QED
  BY <1>1, <1>2, <1>3, <1>4, PutKeeps, MoveKeeps, BeginKeeps DEF LogNext

LEMMA RingAlways == LogSpec => []RingInv
<1>1. LogInit => RingInv
  <2> SUFFICES ASSUME LogInit PROVE RingInv
    OBVIOUS
  <2>1. logMessages \in [Slots -> 0 .. Garbage] /\ logHead \in 0 .. MaxLogLines
    BY DEF LogInit, Slots, Garbage
  <2>2. logged \in 0 .. MaxLogged /\ cleared \in 0 .. logged
    BY DEF LogInit
  <2>3. LogTypeOK
    BY <2>1, <2>2, Zenon DEF LogInit, LogTypeOK
  <2>. QED
    BY <2>3 DEF LogInit, RingInv
<1>. QED
  BY <1>1, RingInvNext, PTL DEF LogSpec

-----------------------------------------------------------------------------
(* The head stays in the range, or next to it, of the garbage it may have  *)
(* been (Logging.cpp:71-108).                                              *)
THEOREM LogTypeCorrect == LogSpec => []LogTypeOK
<1>1. RingInv => LogTypeOK
  BY DEF RingInv
<1>. QED
  BY <1>1, RingAlways, PTL

(* A report that is made of a ring that is right is right.                 *)
LEMMA ReportMade ==
  ASSUME RingInv, boot = "begun", putting = {}, CrashReportIsGenuine,
         report' = [lines |-> GetLastLogs, first |-> cleared + 1, last |-> logged, alone |-> alone]
  PROVE  CrashReportIsGenuine'
<1>1. logged \in Nat /\ cleared \in 0 .. logged
  BY DEF RingInv, LogTypeOK
<1>2. /\ report'.lines = GetLastLogs /\ report'.first = cleared + 1
      /\ report'.last = logged /\ report'.alone = alone
  OBVIOUS
<1>3. rtcLogMagic
  BY DEF RingInv
<1>4. QED
  <2>1. \A i \in Positions : GetLastLogs[i] = logMessages[Slot(i)] /\ Slot(i) \in Slots
    BY <1>3, SlotOf DEF GetLastLogs, RingInv, Slot
  <2>2. \A i \in Positions : GetLastLogs[i] # NoMessage => GetLastLogs[i] \in cleared + 1 .. logged
    BY <1>3, <2>1 DEF RingInv, Genuine
  <2>3. ASSUME alone, NEW i \in Positions
        PROVE  GetLastLogs[i] = IsKept(logged + i - MaxLogLines)
    BY <1>3, <2>1, <2>3 DEF RingInv, InOrder
  <2>4. \A i \in Positions : IsKept(logged + i - MaxLogLines) =
          IF logged + i - MaxLogLines \in cleared + 1 .. logged THEN logged + i - MaxLogLines ELSE NoMessage
    BY <1>1 DEF IsKept, Positions
  <2>. QED
    BY <1>2, <2>2, <2>3, <2>4 DEF CrashReportIsGenuine

(* Whatever resets and losses of power come between and during the calls   *)
(* that log, a crash report holds messages since the ring was cleared, no  *)
(* garbage, and without overlapping or broken calls the last ones in their *)
(* order (Logging.cpp:23-37, 71-108, HalSystem.cpp:72-102).                *)
THEOREM CrashReportIsAlwaysGenuine == LogSpec => []CrashReportIsGenuine
<1>1. LogInit => CrashReportIsGenuine
  BY DEF LogInit, CrashReportIsGenuine, NoReport, NoLines, Positions
<1>2. RingInv /\ CrashReportIsGenuine /\ [LogNext]_logVars => CrashReportIsGenuine'
  <2> SUFFICES ASSUME RingInv, CrashReportIsGenuine, [LogNext]_logVars PROVE CrashReportIsGenuine'
    OBVIOUS
  <2>1. report' = report \/ CheckPanic
    BY DEF LogNext, logVars, PutMessage, MoveHead, HalSystemBegin, Reset, PowerOff, PowerUp
  <2>2. CASE report' = report
    BY <2>2 DEF CrashReportIsGenuine
  <2>3. CASE CheckPanic /\ report' # report
    BY <2>3, ReportMade DEF CheckPanic
  <2>. QED
    BY <2>1, <2>2, <2>3
<1>. QED
  BY <1>1, <1>2, RingAlways, PTL DEF LogSpec

-----------------------------------------------------------------------------
(***************************************************************************)
(* SavedFiles: for any values, it implements KeptValue.                    *)
(***************************************************************************)
Idle == {Off, Up, Renaming}
Writes == [do : {"write"}, value : Saved \cup {Legacy}, at : 0 .. 3, migrating : BOOLEAN]
Broken == {NoFile, EmptyFile, TornFile}
Wholes == [is : {"whole"}, value : Saved \cup {Legacy}, plain : BOOLEAN]

(* The binary file is renamed only when its value is in the JSON file.     *)
FilesInv == FilesTypeOK /\ (task.do = "rename" => json.is = "whole")

Saving == IF task.do = "write" THEN task.value ELSE NoValue

-----------------------------------------------------------------------------
(* What a start finds.                                                     *)
LEMMA LoadedType ==
  ASSUME FilesTypeOK
  PROVE  /\ json.is = "whole" => json \in Wholes /\ Loaded = json.value
         /\ json.is # "whole" => Loaded \in {Legacy, Default}
<1>1. json \in Broken \cup Wholes
  BY DEF FilesTypeOK, Broken, Wholes
<1>2. json.is = "whole" => json \in Wholes
  BY <1>1 DEF Broken, NoFile, EmptyFile, TornFile
<1>. QED
  BY <1>1, <1>2 DEF Loaded, JsonIsUsed

LEMMA TaskType ==
  ASSUME FilesTypeOK
  PROVE  /\ task.do \in {"off", "up", "rename", "write"}
         /\ task.do = "write" => task \in Writes
         /\ task.do # "write" => task \in Idle
  BY DEF FilesTypeOK, Idle, Writes, Off, Up, Renaming

(* A save that loading starts is one of the value that was found.          *)
LEMMA AfterLoadingType ==
  ASSUME FilesTypeOK
  PROVE  \/ AfterLoading = Up
         \/ AfterLoading \in Writes /\ AfterLoading.value = Loaded /\ AfterLoading.do = "write"
<1>1. ASSUME NEW migrating \in BOOLEAN, Loaded \in Saved \cup {Legacy}
      PROVE  Writing(Loaded, 0, migrating) \in Writes
  BY <1>1 DEF Writing, Writes
<1>2. ASSUME NEW migrating \in BOOLEAN
      PROVE  Writing(Loaded, 0, migrating).value = Loaded /\ Writing(Loaded, 0, migrating).do = "write"
  BY DEF Writing
<1>3. CASE MustResave
  <2>1. Loaded \in Saved \cup {Legacy}
    BY <1>3, LoadedType DEF MustResave, Wholes
  <2>. QED
    BY <1>1, <1>2, <1>3, <2>1 DEF AfterLoading
<1>4. CASE ~ MustResave /\ BinaryIsUsed
  <2>1. Loaded = Legacy
    BY <1>4 DEF BinaryIsUsed, Loaded
  <2>. QED
    BY <1>1, <1>2, <1>4, <2>1 DEF AfterLoading
<1>5. CASE ~ MustResave /\ ~ BinaryIsUsed
  BY <1>5 DEF AfterLoading
<1>. QED
  BY <1>3, <1>4, <1>5

(* A step of the writing: three that spoil the file, and one that ends it. *)
LEMMA WriteSteps ==
  ASSUME FilesTypeOK, WriteFile
  PROVE  \/ /\ json' \in Broken
            /\ task' \in Writes /\ task'.do = "write" /\ task'.value = task.value
         \/ /\ json' = Whole(task.value) /\ json' \in Wholes
            /\ task' \in {Up, Renaming}
<1>1. task \in Writes
  BY TaskType DEF WriteFile
<1>2. /\ task.at \in 0 .. 3 /\ task.value \in Saved \cup {Legacy} /\ task.do = "write"
  BY <1>1 DEF Writes
<1>3. CASE task.at < 3
  <2>1. task' = [task EXCEPT !.at = @ + 1]
    BY <1>3 DEF WriteFile
  <2>2. task' \in Writes /\ task'.do = "write" /\ task'.value = task.value
    BY <1>1, <1>2, <1>3, <2>1 DEF Writes
  <2>3. task.at = 0 \/ task.at = 1 \/ task.at = 2
    BY <1>2, <1>3
  <2>4. json' \in Broken
    BY <2>3 DEF WriteFile, Broken
  <2>. QED
    BY <2>2, <2>4
<1>4. CASE ~ (task.at < 3)
  <2>1. task.at = 3
    BY <1>2, <1>4
  <2>2. json' = Whole(task.value)
    BY <2>1 DEF WriteFile
  <2>3. json' \in Wholes
    BY <1>2, <2>2 DEF Whole, Wholes
  <2>4. task' \in {Up, Renaming}
    BY <1>4 DEF WriteFile
  <2>. QED
    BY <2>2, <2>3, <2>4
<1>. QED
  BY <1>3, <1>4

-----------------------------------------------------------------------------
LEMMA FilesInvNext == FilesInv /\ [FilesNext]_filesVars => FilesInv'
<1> SUFFICES ASSUME FilesInv, [FilesNext]_filesVars PROVE FilesInv'
  OBVIOUS
<1>. USE DEF FilesInv
<1>1. /\ Off.do = "off" /\ Up.do = "up" /\ Renaming.do = "rename"
      /\ Idle \cup Writes = {Off, Up, Renaming} \cup Writes
  BY DEF Off, Up, Renaming, Idle
<1>2. CASE UNCHANGED filesVars
  BY <1>2 DEF FilesTypeOK, filesVars
<1>3. CASE LoadFromFile
  <2>1. task' \in {Up} \cup Writes /\ task'.do # "rename"
    BY <1>1, <1>3, AfterLoadingType DEF LoadFromFile
  <2>2. ram' \in Saved \cup {Legacy, Default, NoValue}
    BY <1>3, LoadedType DEF LoadFromFile, Wholes
  <2>. QED
    BY <1>3, <2>1, <2>2 DEF LoadFromFile, FilesTypeOK, Writes
<1>4. CASE SaveToFile
  <2>1. PICK v \in Saved : ram' = v /\ task' = Writing(v, 0, FALSE)
    BY <1>4 DEF SaveToFile
  <2>2. task' \in Writes /\ task'.do = "write"
    BY <2>1 DEF Writing, Writes
  <2>. QED
    BY <1>4, <2>1, <2>2 DEF SaveToFile, FilesTypeOK, Writes
<1>5. CASE WriteFile
  <2>1. json' \in Broken \cup Wholes
    BY <1>5, WriteSteps
  <2>2. task' \in Idle \cup Writes
    BY <1>5, WriteSteps DEF Idle
  <2>3. task'.do = "rename" => json'.is = "whole"
    BY <1>1, <1>5, WriteSteps DEF Whole
  <2>. QED
    BY <1>5, <2>1, <2>2, <2>3 DEF WriteFile, FilesTypeOK, Broken, Wholes, Idle, Writes
<1>6. CASE WriteFails
  BY <1>1, <1>6 DEF WriteFails, FilesTypeOK
<1>7. CASE RenameBinary
  BY <1>1, <1>7 DEF RenameBinary, FilesTypeOK
<1>8. CASE PowerCut
  BY <1>1, <1>8 DEF PowerCut, FilesTypeOK
<1>. QED
  BY <1>2, <1>3, <1>4, <1>5, <1>6, <1>7, <1>8 DEF FilesNext

LEMMA FilesInvAlways == FilesSpec => []FilesInv
<1>1. FilesInit => FilesInv
  <2> SUFFICES ASSUME FilesInit PROVE FilesInv
    OBVIOUS
  <2>1. json \in {NoFile} \cup Wholes
    BY DEF FilesInit, Wholes
  <2>. QED
    BY <2>1 DEF FilesInit, FilesInv, FilesTypeOK, Wholes, Off
<1>. QED
  BY <1>1, FilesInvNext, PTL DEF FilesSpec

(* The file is one that was never there, never filled, half written or     *)
(* whole, and what is saved was loaded or set (SavedFiles).                *)
THEOREM FilesTypeCorrect == FilesSpec => []FilesTypeOK
<1>1. FilesInv => FilesTypeOK
  BY DEF FilesInv
<1>. QED
  BY <1>1, FilesInvAlways, PTL

-----------------------------------------------------------------------------
(* Every step is one of KeptValue, or changes neither the value that a     *)
(* start would find nor the one that is being saved.                       *)
LEMMA StepIsKept ==
  ASSUME FilesInv, [FilesNext]_filesVars
  PROVE  [Kept!KeptNext]_<<Loaded, Saving>>
<1>. USE DEF FilesInv
<1>1. Off.do = "off" /\ Up.do = "up" /\ Renaming.do = "rename"
  BY DEF Off, Up, Renaming
<1>2. FilesInv'
  BY FilesInvNext
<1>3. ASSUME NEW v \in Saved \cup {Legacy, Default} PROVE v # NoValue
  BY FilesAssumption
<1>4. task.do = "write" => Saving = task.value /\ Saving # NoValue
  BY <1>3, TaskType DEF Saving, Writes
<1>5. task.do # "write" => Saving = NoValue
  BY DEF Saving
<1>6. CASE UNCHANGED filesVars
  BY <1>6 DEF filesVars, Saving, Loaded, JsonIsUsed, BinaryIsUsed
<1>7. CASE LoadFromFile
  <2>1. Loaded' = Loaded
    BY <1>7 DEF LoadFromFile, Loaded, JsonIsUsed, BinaryIsUsed
  <2>2. Saving = NoValue
    BY <1>1, <1>5, <1>7 DEF LoadFromFile
  <2>3. CASE task' = Up
    BY <1>1, <2>1, <2>2, <2>3 DEF Saving
  <2>4. CASE AfterLoading \in Writes /\ AfterLoading.value = Loaded /\ AfterLoading.do = "write"
    <3>1. Saving' = Loaded
      BY <1>7, <2>4 DEF LoadFromFile, Saving
    <3>2. Loaded \in Saved \cup {Legacy, Default}
      BY LoadedType DEF Wholes
    <3>. QED
      BY <2>1, <2>2, <3>1, <3>2 DEF Kept!KeptNext, Kept!StartSave, Saving
  <2>. QED
    BY <1>7, <2>3, <2>4, AfterLoadingType DEF LoadFromFile
<1>8. CASE SaveToFile
  <2>1. Loaded' = Loaded
    BY <1>8 DEF SaveToFile, Loaded, JsonIsUsed, BinaryIsUsed
  <2>2. Saving = NoValue
    BY <1>1, <1>5, <1>8 DEF SaveToFile
  <2>3. PICK v \in Saved : task' = Writing(v, 0, FALSE)
    BY <1>8 DEF SaveToFile
  <2>4. Saving' = v
    BY <2>3 DEF Saving, Writing
  <2>. QED
    BY <2>1, <2>2, <2>4 DEF Kept!KeptNext, Kept!StartSave, Saving
<1>9. CASE WriteFile
  <2>1. Saving = task.value /\ Saving # NoValue
    BY <1>4, <1>9 DEF WriteFile
  <2>2. CASE json' \in Broken /\ task' \in Writes /\ task'.do = "write" /\ task'.value = task.value
    <3>1. json'.is # "whole"
      BY <2>2 DEF Broken, NoFile, EmptyFile, TornFile
    <3>2. Loaded' \in {Legacy, Default}
      BY <3>1 DEF Loaded, JsonIsUsed
    <3>3. Saving' = Saving
      BY <2>1, <2>2 DEF Saving
    <3>. QED
      BY <2>1, <3>2, <3>3 DEF Kept!KeptNext, Kept!Spoil, Saving
  <2>3. CASE json' = Whole(task.value) /\ json' \in Wholes /\ task' \in {Up, Renaming}
    <3>1. Loaded' = task.value
      BY <2>3 DEF Whole, Loaded, JsonIsUsed
    <3>2. Saving' = NoValue
      BY <1>1, <2>3 DEF Saving
    <3>. QED
      BY <2>1, <3>1, <3>2 DEF Kept!KeptNext, Kept!FinishSave, Saving
  <2>. QED
    BY <1>9, <2>2, <2>3, WriteSteps
<1>10. CASE WriteFails
  <2>1. Loaded' = Loaded
    BY <1>10 DEF WriteFails, Loaded, JsonIsUsed, BinaryIsUsed
  <2>2. Saving # NoValue /\ Saving' = NoValue
    BY <1>1, <1>4, <1>10 DEF WriteFails, Saving
  <2>. QED
    BY <2>1, <2>2 DEF Kept!KeptNext, Kept!BreakOff, Saving
<1>11. CASE RenameBinary
  <2>1. json.is = "whole" /\ json' = json
    BY <1>1, <1>11 DEF RenameBinary
  <2>2. Loaded' = Loaded
    BY <2>1 DEF Loaded, JsonIsUsed
  <2>3. Saving' = Saving
    BY <1>1, <1>11 DEF RenameBinary, Saving
  <2>. QED
    BY <2>2, <2>3
<1>12. CASE PowerCut
  <2>1. Loaded' = Loaded
    BY <1>12 DEF PowerCut, Loaded, JsonIsUsed, BinaryIsUsed
  <2>2. Saving' = NoValue
    BY <1>1, <1>12 DEF PowerCut, Saving
  <2>3. CASE task.do = "write"
    BY <1>4, <2>1, <2>2, <2>3 DEF Kept!KeptNext, Kept!BreakOff, Saving
  <2>4. CASE task.do # "write"
    BY <1>5, <2>1, <2>2, <2>4
  <2>. QED
    BY <2>3, <2>4
<1>. QED
  BY <1>6, <1>7, <1>8, <1>9, <1>10, <1>11, <1>12 DEF FilesNext

(* Whatever cuts a save off, a start finds what was saved, what a save was *)
(* putting in its place, or one of the values it falls back to             *)
(* (CrossPointSettings.cpp:80-117, CrossPointState.cpp:33-62,              *)
(* WifiCredentialStore.cpp:32-66, JsonSettingsIO.cpp:15-149).              *)
THEOREM FilesKeepTheirValue == FilesSpec => ValueIsKept
<1>1. FilesInit => Kept!KeptInit
  <2> SUFFICES ASSUME FilesInit PROVE Kept!KeptInit
    OBVIOUS
  <2>1. FilesTypeOK
    <3>1. json \in {NoFile} \cup Wholes
      BY DEF FilesInit, Wholes
    <3>. QED
      BY <3>1 DEF FilesInit, FilesTypeOK, Wholes
  <2>2. Loaded \in Saved \cup {Legacy, Default}
    BY <2>1, LoadedType DEF Wholes
  <2>3. Saving = NoValue
    BY DEF FilesInit, Saving, Off
  <2>. QED
    BY <2>2, <2>3 DEF Kept!KeptInit, Saving
<1>2. FilesInv /\ [FilesNext]_filesVars => [Kept!KeptNext]_<<Loaded, Saving>>
  BY StepIsKept
<1>. QED
  BY <1>1, <1>2, FilesInvAlways, PTL DEF FilesSpec, ValueIsKept, Kept!KeptSpec, Saving

-----------------------------------------------------------------------------
(***************************************************************************)
(* HttpDownloader: for bodies of any size, with or without their length.   *)
(***************************************************************************)
(* While the pieces come, no more of them is counted than was sent, and a  *)
(* transfer that was not spoiled has all of them in the file.              *)
Calls == [pc : {"stream"}, body : Nat, known : BOOLEAN, got : Nat, written : Nat, ok : BOOLEAN]
Counted(t) ==
  /\ t.known => t.body > 0
  /\ t.got <= t.body
  /\ t.ok => t.written = t.got
Streams == {t \in Calls : Counted(t)}
Ends ==
  [pc : {"ended"}, result : {"OK", "HTTP_ERROR", "FILE_ERROR"}, body : Nat, known : BOOLEAN, lapse : BOOLEAN]

StreamInv ==
  /\ transfer \in {NoTransfer} \cup Streams \cup Ends
  /\ dest \in Int
  /\ transfer.pc = "stream" /\ transfer.ok => dest = transfer.written
  /\ DownloadIsWholeOrGone

LEMMA StreamInit == DownloadInit => StreamInv
  BY DEF DownloadInit, StreamInv, NoTransfer, DownloadIsWholeOrGone, Absent, Older

(* A call that ended with an error, whatever it found.                     *)
LEMMA FailedEarlyKeeps ==
  ASSUME NEW t \in Streams, NEW result \in {"HTTP_ERROR", "FILE_ERROR"}, NEW lapse \in BOOLEAN,
         transfer' = EndedWith(result, t, lapse), dest' \in {Absent, Older}
  PROVE  StreamInv'
<1>1. transfer' \in Ends /\ transfer'.pc = "ended" /\ transfer'.result = result
  <2>1. t.body \in Nat /\ t.known \in BOOLEAN
    BY DEF Streams, Calls
  <2>2. transfer' = [pc |-> "ended", result |-> result, body |-> t.body, known |-> t.known, lapse |-> lapse]
    BY DEF EndedWith
  <2>3. transfer' \in Ends
    BY <2>1, <2>2 DEF Ends
  <2>. QED
    BY <2>2, <2>3
<1>2. dest' \in Int
  BY DEF Absent, Older
<1>. QED
  BY <1>1, <1>2 DEF StreamInv, DownloadIsWholeOrGone

(* The file is made only after an answer that says it has a body.          *)
LEMMA StreamStartKeeps ==
  ASSUME StreamInv, NEW body \in 0 .. MaxBody, NEW known \in BOOLEAN, StartTransfer(body, known)
  PROVE  StreamInv'
<1> DEFINE t == [pc |-> "stream", body |-> body, known |-> known /\ body > 0, got |-> 0, written |-> 0, ok |-> TRUE]
<1>1. body \in Nat
  BY DownloaderAssumption
<1>2. t \in Streams
  <2>1. (known /\ body > 0) \in BOOLEAN
    OBVIOUS
  <2>2. t \in Calls
    BY <1>1, <2>1 DEF Calls
  <2>3. (t.known => t.body > 0) /\ t.body = body /\ t.got = 0 /\ t.written = 0
    BY Zenon
  <2>4. Counted(t)
    BY <1>1, <2>3 DEF Counted
  <2>. QED
    BY <2>2, <2>4 DEF Streams
<1>3. Found \in {Absent, Older}
  BY DEF Found
<1>4. CASE transfer' = EndedWith("HTTP_ERROR", t, FALSE) /\ dest' = Found
  BY <1>2, <1>3, <1>4, FailedEarlyKeeps
<1>5. CASE transfer' = EndedWith("FILE_ERROR", t, FALSE) /\ dest' \in {Absent, Found}
  BY <1>2, <1>3, <1>5, FailedEarlyKeeps
<1>6. CASE transfer' = t /\ dest' = 0
  <2>1. transfer'.pc = "stream" /\ transfer'.written = 0 /\ transfer' \in Streams
    BY <1>2, <1>6
  <2>. QED
    BY <1>6, <2>1 DEF StreamInv, DownloadIsWholeOrGone, NoTransfer
<1>. QED
  BY <1>4, <1>5, <1>6 DEF StartTransfer

(* A piece the card does not take whole spoils the transfer for good.      *)
LEMMA StreamPieceKeeps ==
  ASSUME StreamInv, NEW size \in 1 .. MaxBody, NEW taken \in 0 .. MaxBody, StreamPiece(size, taken)
  PROVE  StreamInv'
<1>1. size \in Nat /\ taken \in Nat
  BY DownloaderAssumption
<1>2. transfer \in Streams
  BY DEF StreamInv, StreamPiece, NoTransfer, Ends
<1>3. transfer' = [transfer EXCEPT !.got = @ + size, !.written = @ + taken, !.ok = @ /\ taken = size]
  BY DEF StreamPiece
<1>4. /\ transfer'.pc = "stream" /\ transfer'.written = transfer.written + taken
      /\ transfer'.ok = (transfer.ok /\ taken = size)
  BY <1>2, <1>3 DEF Streams, Calls
<1>5. transfer' \in Streams
  <2>1. (transfer.ok /\ taken = size) \in BOOLEAN
    BY <1>2 DEF Streams, Calls
  <2>2. transfer.got + size \in Nat /\ transfer.written + taken \in Nat
    BY <1>1, <1>2 DEF Streams, Calls
  <2>3. transfer' \in Calls
    BY <1>2, <1>3, <2>1, <2>2 DEF Streams, Calls
  <2>4. /\ transfer'.got = transfer.got + size /\ transfer'.body = transfer.body
        /\ transfer'.known = transfer.known
    BY <1>2, <1>3 DEF Streams, Calls
  <2>5. Counted(transfer')
    BY <1>1, <1>2, <1>4, <2>4 DEF Streams, Calls, Counted, StreamPiece
  <2>. QED
    BY <2>3, <2>5 DEF Streams
<1>6. dest' \in Int /\ (transfer'.ok => dest' = transfer'.written)
  <2>1. transfer.written \in Nat /\ dest \in Int /\ (transfer.ok => dest = transfer.written)
    BY <1>2 DEF StreamInv, Streams, Calls
  <2>2. dest' = (IF ~ transfer.ok \/ dest = Gap THEN Gap ELSE dest + taken)
    BY DEF StreamPiece
  <2>3. transfer'.ok => transfer.ok
    BY <1>4, Zenon
  <2>. QED
    BY <1>1, <1>4, <2>1, <2>2, <2>3 DEF Gap
<1>. QED
  BY <1>4, <1>5, <1>6 DEF StreamInv, DownloadIsWholeOrGone, NoTransfer

(* What the checks after the transfer let through is whole.                *)
LEMMA StreamEndKeeps ==
  ASSUME StreamInv, NEW writeResult \in {-1, 0}, EndTransfer(writeResult)
  PROVE  StreamInv'
<1> DEFINE result == Outcome(transfer, writeResult)
<1>1. transfer \in Streams
  BY DEF StreamInv, EndTransfer, NoTransfer, Ends
<1>2. result \in {"OK", "HTTP_ERROR", "FILE_ERROR"}
  BY DEF Outcome
<1>3. transfer.body \in Nat /\ transfer.known \in BOOLEAN /\ dest \in Int
  BY <1>1 DEF StreamInv, Streams, Calls
<1>4. PICK lapse \in BOOLEAN :
        /\ transfer' = EndedWith(result, transfer, lapse)
        /\ lapse => dest' \in Unflushed
        /\ ~ lapse => dest' = (IF result = "OK" THEN dest ELSE Absent)
  <2>1. CASE transfer' = EndedWith(result, transfer, FALSE) /\ dest' = (IF result = "OK" THEN dest ELSE Absent)
    BY <2>1
  <2>2. CASE transfer' = EndedWith(result, transfer, TRUE) /\ dest' \in Unflushed
    BY <2>2
  <2>. QED
    BY <2>1, <2>2 DEF EndTransfer
<1>5. /\ transfer' \in Ends /\ transfer'.result = result /\ transfer'.lapse = lapse
      /\ transfer'.body = transfer.body /\ transfer'.known = transfer.known
  <2>1. transfer' = [pc |-> "ended", result |-> result, body |-> transfer.body, known |-> transfer.known,
                     lapse |-> lapse]
    BY <1>4 DEF EndedWith
  <2>2. transfer' \in Ends
    BY <1>2, <1>3, <2>1 DEF Ends
  <2>. QED
    BY <2>1, <2>2
<1>6. dest' \in Int
  BY <1>3, <1>4 DEF Unflushed, Gap, Absent
<1>7. DownloadIsWholeOrGone'
  <2>1. CASE result = "OK"
    <3>1. dest = transfer.written
      BY <2>1 DEF StreamInv, EndTransfer, Outcome
    <3>2. /\ transfer.written \in Nat /\ transfer.written <= transfer.body
          /\ transfer.written > 0 /\ (transfer.known => transfer.written = transfer.body)
      BY <1>1, <2>1 DEF Outcome, Streams, Calls, Counted
    <3>3. CASE lapse
      <4>1. dest' \in 0 .. transfer.body
        BY <1>3, <1>4, <3>1, <3>2, <3>3 DEF Unflushed, Gap
      <4>. QED
        BY <1>5, <2>1, <3>3, <4>1 DEF DownloadIsWholeOrGone
    <3>4. CASE ~ lapse
      <4>1. dest' = transfer.written /\ dest' \in 0 .. transfer.body
        BY <1>3, <1>4, <2>1, <3>1, <3>2, <3>4
      <4>. QED
        BY <1>5, <2>1, <3>2, <3>4, <4>1 DEF DownloadIsWholeOrGone
    <3>. QED
      BY <3>3, <3>4
  <2>2. CASE result # "OK"
    BY <1>4, <1>5, <2>2 DEF DownloadIsWholeOrGone
  <2>. QED
    BY <2>1, <2>2
<1>8. transfer'.pc = "ended"
  BY <1>5 DEF Ends
<1>. QED
  BY <1>5, <1>6, <1>7, <1>8 DEF StreamInv

(* While the card removes and closes what it is told to, a download that   *)
(* is reported whole is whole, and one that is reported as an error leaves *)
(* no part of itself; however the card fails, the first has no gap         *)
(* (HttpDownloader.cpp:104-196).                                           *)
THEOREM DownloadsAreWholeOrGone == DownloadSpec => []DownloadIsWholeOrGone
<1>1. StreamInv /\ [DownloadNext]_downloadVars => StreamInv'
  <2> SUFFICES ASSUME StreamInv, [DownloadNext]_downloadVars PROVE StreamInv'
    OBVIOUS
  <2>1. CASE UNCHANGED downloadVars
    BY <2>1 DEF StreamInv, DownloadIsWholeOrGone, downloadVars
  <2>. QED
    BY <2>1, StreamStartKeeps, StreamPieceKeeps, StreamEndKeeps DEF DownloadNext
<1>2. StreamInv => DownloadIsWholeOrGone
  BY DEF StreamInv
<1>. QED
  BY <1>1, <1>2, StreamInit, PTL DEF DownloadSpec

-----------------------------------------------------------------------------
(***************************************************************************)
(* FrontButtons: for any hardware button a role can be mapped to.          *)
(***************************************************************************)
Spread(m) == \A i, j \in 1 .. 4 : i # j => m[i] # m[j]

(* Every role is on a button, and on one of its own unless the mapping was *)
(* read from JSON, which nobody validates.                                 *)
MappingInv ==
  /\ ButtonsTypeOK
  /\ source # "json" => Spread(mapping)

-----------------------------------------------------------------------------
LEMMA FirstOne ==
  ASSUME NEW S, S \subseteq 1 .. 4, S # {}
  PROVE  Min(S) \in S
<1>1. \E x \in S : \A y \in S : x <= y
  <2>1. CASE 1 \in S
    BY <2>1
  <2>2. CASE 1 \notin S /\ 2 \in S
    BY <2>2
  <2>3. CASE 1 \notin S /\ 2 \notin S /\ 3 \in S
    BY <2>3
  <2>4. CASE 1 \notin S /\ 2 \notin S /\ 3 \notin S
    <3>1. PICK x \in S : TRUE
      OBVIOUS
    <3>2. \A y \in S : y = 4
      BY <2>4
    <3>. QED
      BY <3>1, <3>2
  <2>. QED
    BY <2>1, <2>2, <2>3, <2>4
<1>. QED
  BY <1>1 DEF Min

LEMMA DefaultIsSpread == DefaultMapping \in [1 .. 4 -> Hardware] /\ Spread(DefaultMapping)
  BY DEF DefaultMapping, Hardware, Spread

(* Every layout of older firmware puts the roles on four buttons.          *)
LEMMA LegacyIsSpread ==
  ASSUME NEW layout
  PROVE  LegacyMapping(layout) \in [1 .. 4 -> Hardware] /\ Spread(LegacyMapping(layout))
<1>1. CASE layout = 1
  BY <1>1 DEF LegacyMapping, Hardware, Spread
<1>2. CASE layout = 2
  BY <1>2 DEF LegacyMapping, Hardware, Spread
<1>3. CASE layout = 3
  BY <1>3 DEF LegacyMapping, Hardware, Spread
<1>4. CASE layout \notin {1, 2, 3}
  BY <1>4, DefaultIsSpread DEF LegacyMapping
<1>. QED
  BY <1>1, <1>2, <1>3, <1>4

(* What is read in the place of a button is a button.                      *)
LEMMA ReadIsButton ==
  ASSUME NEW old \in Hardware, NEW number \in Numbers
  PROVE  ReadAndValidate(old, number, 4) \in Hardware
  BY ButtonsAssumption DEF ReadAndValidate, Hardware

(* What is read in the place of a side layout is one.                      *)
LEMMA ReadIsLayout ==
  ASSUME NEW old \in 0 .. 1, NEW number \in {0, 1, 7}
  PROVE  ReadAndValidate(old, number, 2) \in 0 .. 1
  BY DEF ReadAndValidate

LEMMA ValidatedIsSpread ==
  ASSUME NEW m \in [1 .. 4 -> Hardware]
  PROVE  /\ ValidateFrontButtonMapping(m) \in [1 .. 4 -> Hardware]
         /\ Spread(ValidateFrontButtonMapping(m))
<1>1. CASE \E i, j \in 1 .. 4 : i < j /\ m[i] = m[j]
  BY <1>1, DefaultIsSpread DEF ValidateFrontButtonMapping
<1>2. CASE ~ \E i, j \in 1 .. 4 : i < j /\ m[i] = m[j]
  <2>1. \A i, j \in 1 .. 4 : i # j => i < j \/ j < i
    OBVIOUS
  <2>2. Spread(m)
    BY <1>2, <2>1 DEF Spread
  <2>. QED
    BY <1>2, <2>2 DEF ValidateFrontButtonMapping
<1>. QED
  BY <1>1, <1>2

-----------------------------------------------------------------------------
LEMMA JsonKeeps ==
  ASSUME MappingInv, NEW fields \in [1 .. 4 -> Numbers], NEW layout \in {0, 1, 7}, LoadSettings(fields, layout)
  PROVE  MappingInv'
<1>1. mapping' \in [1 .. 4 -> Hardware]
  BY ReadIsButton DEF MappingInv, ButtonsTypeOK, LoadSettings
<1>2. side' \in 0 .. 1
  BY ReadIsLayout DEF MappingInv, ButtonsTypeOK, LoadSettings
<1>. QED
  BY <1>1, <1>2 DEF MappingInv, ButtonsTypeOK, LoadSettings

LEMMA BinaryKeeps ==
  ASSUME MappingInv, NEW count, NEW layout \in Numbers, NEW sideLayout \in {0, 1, 7},
         NEW fields \in [1 .. 4 -> Numbers],
         LoadFromBinaryFile(count, layout, sideLayout, fields)
  PROVE  MappingInv'
<1> DEFINE read == [i \in 1 .. 4 |-> IF 24 + i <= count THEN ReadAndValidate(mapping[i], fields[i], 4) ELSE mapping[i]]
<1>1. read \in [1 .. 4 -> Hardware]
  BY ReadIsButton DEF MappingInv, ButtonsTypeOK
<1>2. mapping' = ValidateFrontButtonMapping(read) \/ \E old : mapping' = LegacyMapping(old)
  BY DEF LoadFromBinaryFile
<1>3. mapping' \in [1 .. 4 -> Hardware] /\ Spread(mapping')
  BY <1>1, <1>2, ValidatedIsSpread, LegacyIsSpread
<1>4. side' \in 0 .. 1
  BY ReadIsLayout DEF MappingInv, ButtonsTypeOK, LoadFromBinaryFile
<1>. QED
  BY <1>3, <1>4 DEF MappingInv, ButtonsTypeOK, LoadFromBinaryFile, Spread

LEMMA MappingAlways == ButtonsSpec => []MappingInv
<1>1. ButtonsInit => MappingInv
  BY DefaultIsSpread DEF ButtonsInit, MappingInv, ButtonsTypeOK
<1>2. MappingInv /\ [ButtonsNext]_buttonVars => MappingInv'
  <2> SUFFICES ASSUME MappingInv, [ButtonsNext]_buttonVars PROVE MappingInv'
    OBVIOUS
  <2>1. CASE UNCHANGED buttonVars
    BY <2>1 DEF MappingInv, ButtonsTypeOK, Spread, buttonVars
  <2>. QED
    BY <2>1, JsonKeeps, BinaryKeeps DEF ButtonsNext
<1>. QED
  BY <1>1, <1>2, PTL DEF ButtonsSpec

(* Every button of the settings is one of the four, and the side layout    *)
(* one of the two, out of any file (CrossPointSettings.cpp:16-77).         *)
THEOREM ButtonsTypeCorrect == ButtonsSpec => []ButtonsTypeOK
<1>1. MappingInv => ButtonsTypeOK
  BY DEF MappingInv
<1>. QED
  BY <1>1, MappingAlways, PTL

-----------------------------------------------------------------------------
(* A button of the hardware is the one on which the role is.               *)
LEMMA RoleOnButton ==
  ASSUME NEW k \in 1 .. 4, NEW down
  PROVE  MapButton(Roles[k], down) <=> mapping[k] \in down
<1>1. CASE k = 1
  BY <1>1 DEF MapButton, Roles
<1>2. CASE k = 2
  BY <1>2 DEF MapButton, Roles
<1>3. CASE k = 3
  BY <1>3 DEF MapButton, Roles
<1>4. CASE k = 4
  BY <1>4 DEF MapButton, Roles
<1>. QED
  BY <1>1, <1>2, <1>3, <1>4

LEMMA LabelOfButton ==
  ASSUME NEW hw \in Hardware
  PROVE  LET on == {i \in 1 .. 4 : mapping[i] = hw}
         IN  MapLabels[hw] = IF on = {} THEN "" ELSE Roles[Min(on)]
  BY DEF MapLabels

(* A button does what its label says; and read from a binary file every    *)
(* role has a button with its label (MappedInputManager.cpp:10-93).        *)
THEOREM LabelsAreTrue == ButtonsSpec => []LabelsTellTheTruth
<1>1. MappingInv => LabelsTellTheTruth
  <2> SUFFICES ASSUME MappingInv PROVE LabelsTellTheTruth
    OBVIOUS
  <2> DEFINE on(hw) == {i \in 1 .. 4 : mapping[i] = hw}
  <2>1. ASSUME NEW hw \in Hardware, MapLabels[hw] # "" PROVE MapButton(MapLabels[hw], {hw})
    <3>1. on(hw) # {} /\ MapLabels[hw] = Roles[Min(on(hw))]
      BY <2>1, LabelOfButton
    <3>2. Min(on(hw)) \in on(hw)
      BY <3>1, FirstOne
    <3>. QED
      BY <3>1, <3>2, RoleOnButton
  <2>2. ASSUME NEW hw \in 4 .. 5 PROVE MapButton("pageBack", {hw}) # MapButton("pageForward", {hw})
    <3>1. /\ MapButton("pageBack", {hw}) <=> (IF side = 0 THEN 4 ELSE 5) \in {hw}
          /\ MapButton("pageForward", {hw}) <=> (IF side = 0 THEN 5 ELSE 4) \in {hw}
      BY DEF MapButton
    <3>2. MapButton("pageBack", {hw}) \in BOOLEAN /\ MapButton("pageForward", {hw}) \in BOOLEAN
      BY DEF MapButton
    <3>3. hw = 4 \/ hw = 5
      OBVIOUS
    <3>4. ((IF side = 0 THEN 4 ELSE 5) \in {hw}) <=> ~ ((IF side = 0 THEN 5 ELSE 4) \in {hw})
      BY <3>3
    <3>. QED
      BY <3>1, <3>2, <3>4, Zenon
  <2>3. ASSUME source = "binary", NEW i \in 1 .. 4 PROVE \E hw \in Hardware : MapLabels[hw] = Roles[i]
    <3>1. mapping[i] \in Hardware /\ Spread(mapping)
      BY <2>3 DEF MappingInv, ButtonsTypeOK
    <3>2. on(mapping[i]) = {i}
      BY <3>1 DEF Spread
    <3>3. Min(on(mapping[i])) = i
      BY <3>2, FirstOne
    <3>. QED
      BY <3>1, <3>2, <3>3, LabelOfButton
  <2>. QED
    BY <2>1, <2>2, <2>3 DEF LabelsTellTheTruth
<1>. QED
  BY <1>1, MappingAlways, PTL

-----------------------------------------------------------------------------
(***************************************************************************)
(* CrossPointState: for any ring of recent pictures.                       *)
(***************************************************************************)
Rings == [images : [RingSlots -> SleepImages], pos : RingSlots, fill : 0 .. SleepRecentCount]

(* The slot of the picture that was shown i pictures before the last.      *)
Back(pos, i) == (pos + SleepRecentCount - 1 - i) % SleepRecentCount

(* Backwards from its position a ring holds the last pictures of a list.   *)
Remembers(r, pictures) ==
  /\ r.fill = Fewer(Len(pictures), SleepRecentCount)
  /\ \A i \in 0 .. r.fill - 1 : r.images[Back(r.pos, i)] = pictures[Len(pictures) - i]

(* The ring remembers what was shown, and the file what was shown when it  *)
(* was written; without a file nothing was remembered.                     *)
RecentInv ==
  /\ recent \in Rings /\ shown \in Seq(SleepImages) /\ shownSaved \in Seq(SleepImages)
  /\ Remembers(recent, shown)
  /\ stateJson = NoStateJson => shownSaved = <<>>
  /\ stateJson # NoStateJson => \E r \in Rings : stateJson = StateJson(r) /\ Remembers(r, shownSaved)

-----------------------------------------------------------------------------
LEMMA BackIsSlot ==
  ASSUME NEW pos \in RingSlots, NEW i \in RingSlots
  PROVE  /\ Back(pos, i) \in RingSlots
         /\ Back(pos, i) = IF pos > i THEN pos - 1 - i ELSE pos + SleepRecentCount - 1 - i
  BY StateAssumption DEF Back, RingSlots

(* What was i back from a position is one more back from the next.         *)
LEMMA BackFromNext ==
  ASSUME NEW pos \in RingSlots
  PROVE  LET next == (pos + 1) % SleepRecentCount
         IN  /\ next \in RingSlots /\ Back(next, 0) = pos
             /\ \A i \in 1 .. SleepRecentCount - 1 :
                  /\ Back(next, i) = Back(pos, i - 1)
                  /\ Back(next, i) \in RingSlots /\ Back(next, i) # pos
<1> DEFINE next == (pos + 1) % SleepRecentCount
<1>1. next = IF pos = SleepRecentCount - 1 THEN 0 ELSE pos + 1
  BY StateAssumption DEF RingSlots
<1>2. next \in RingSlots /\ 0 \in RingSlots
  BY <1>1, StateAssumption DEF RingSlots
<1> HIDE DEF next
<1>3. Back(next, 0) = pos
  <2>1. Back(next, 0) = IF next > 0 THEN next - 1 - 0 ELSE next + SleepRecentCount - 1 - 0
    BY <1>2, BackIsSlot
  <2>. QED
    BY <1>1, <2>1, StateAssumption DEF RingSlots
<1>4. ASSUME NEW i \in 1 .. SleepRecentCount - 1
      PROVE  Back(next, i) = Back(pos, i - 1) /\ Back(next, i) \in RingSlots /\ Back(next, i) # pos
  <2>1. i \in RingSlots /\ i - 1 \in RingSlots
    BY StateAssumption DEF RingSlots
  <2>2. /\ Back(next, i) \in RingSlots
        /\ Back(next, i) = IF next > i THEN next - 1 - i ELSE next + SleepRecentCount - 1 - i
    BY <1>2, <2>1, BackIsSlot
  <2>3. Back(pos, i - 1) = IF pos > i - 1 THEN pos - 1 - (i - 1) ELSE pos + SleepRecentCount - 1 - (i - 1)
    BY <2>1, BackIsSlot
  <2>. QED
    BY <1>1, <2>1, <2>2, <2>3, StateAssumption DEF RingSlots
<1>. QED
  BY <1>2, <1>3, <1>4 DEF next

LEMMA PushRemembers ==
  ASSUME NEW r \in Rings, NEW pictures \in Seq(SleepImages), Remembers(r, pictures), NEW idx \in SleepImages
  PROVE  Pushed(r, idx) \in Rings /\ Remembers(Pushed(r, idx), Append(pictures, idx))
<1> DEFINE p == Pushed(r, idx)
           longer == Append(pictures, idx)
<1>1. r.pos \in RingSlots /\ r.fill \in 0 .. SleepRecentCount /\ r.images \in [RingSlots -> SleepImages]
  BY DEF Rings
<1>2. /\ p.images = [r.images EXCEPT ![r.pos] = idx]
      /\ p.pos = (r.pos + 1) % SleepRecentCount
      /\ p.fill = IF r.fill < SleepRecentCount THEN r.fill + 1 ELSE r.fill
  BY DEF Pushed
<1>3. p \in Rings
  <2>1. (r.pos + 1) % SleepRecentCount \in RingSlots
    BY <1>1, BackFromNext
  <2>2. (IF r.fill < SleepRecentCount THEN r.fill + 1 ELSE r.fill) \in 0 .. SleepRecentCount
    BY <1>1, StateAssumption
  <2>. QED
    BY <1>1, <2>1, <2>2 DEF Pushed, Rings
<1>4. Len(pictures) \in Nat /\ Len(longer) = Len(pictures) + 1 /\ longer[Len(longer)] = idx
      /\ \A k \in 1 .. Len(pictures) : longer[k] = pictures[k]
  OBVIOUS
<1>5. p.fill = Fewer(Len(longer), SleepRecentCount)
  BY <1>2, <1>4, StateAssumption DEF Remembers, Fewer
<1>6. ASSUME NEW i \in 0 .. p.fill - 1
      PROVE  p.images[Back(p.pos, i)] = longer[Len(longer) - i]
  <2>1. CASE i = 0
    <3>1. Back(p.pos, 0) = r.pos
      BY <1>1, <1>2, BackFromNext
    <3>. QED
      BY <1>1, <1>2, <1>4, <2>1, <3>1
  <2>2. CASE i # 0
    <3>1. i \in 1 .. SleepRecentCount - 1 /\ i - 1 \in 0 .. r.fill - 1
      BY <1>1, <1>2, <2>2, StateAssumption
    <3>2. p.images[Back(p.pos, i)] = r.images[Back(r.pos, i - 1)]
      BY <1>1, <1>2, <3>1, BackFromNext
    <3>3. r.images[Back(r.pos, i - 1)] = pictures[Len(pictures) - (i - 1)]
      BY <3>1 DEF Remembers
    <3>4. Len(pictures) - (i - 1) \in 1 .. Len(pictures) /\ Len(longer) - i = Len(pictures) - (i - 1)
      BY <1>4, <3>1, StateAssumption DEF Remembers, Fewer
    <3>. QED
      BY <1>4, <3>2, <3>3, <3>4
  <2>. QED
    BY <2>1, <2>2
<1>. QED
  BY <1>3, <1>5, <1>6 DEF Remembers

LEMMA EmptyRemembers == EmptyRing \in Rings /\ Remembers(EmptyRing, <<>>)
<1>1. 0 \in RingSlots /\ 0 \in 0 .. SleepRecentCount
  BY StateAssumption DEF RingSlots
<1>2. EmptyRing \in Rings
  BY <1>1, StateAssumption DEF EmptyRing, Rings
<1>. QED
  BY <1>2, StateAssumption DEF EmptyRing, Remembers, Fewer

(* What is saved is loaded again, as it was.                               *)
LEMMA LoadIsSave ==
  ASSUME NEW r \in Rings
  PROVE  StateJson(r) # NoStateJson /\ LoadState(StateJson(r)) = r
<1> DEFINE doc == StateJson(r)
<1>1. /\ r.images \in [RingSlots -> SleepImages] /\ r.pos \in RingSlots /\ r.fill \in 0 .. SleepRecentCount
      /\ r = [images |-> r.images, pos |-> r.pos, fill |-> r.fill]
  BY DEF Rings
<1>2. doc.images = [i \in 1 .. SleepRecentCount |-> r.images[i - 1]] /\ doc.pos = r.pos /\ doc.fill = r.fill
  BY DEF StateJson
<1>3. Len(doc.images) = SleepRecentCount
  BY <1>2, StateAssumption
<1>4. Fewer(Len(doc.images), SleepRecentCount) = SleepRecentCount
  BY <1>3 DEF Fewer
<1>5. doc # NoStateJson
  BY <1>3, StateAssumption DEF NoStateJson
<1>6. \A s \in RingSlots : s < SleepRecentCount /\ s + 1 \in 1 .. SleepRecentCount /\ (s + 1) - 1 = s
  BY StateAssumption DEF RingSlots
<1>7. \A s \in RingSlots : doc.images[s + 1] = r.images[s]
  BY <1>2, <1>6
<1>8. [s \in RingSlots |-> IF s < SleepRecentCount THEN doc.images[s + 1] ELSE 0] = r.images
  BY <1>1, <1>6, <1>7
<1>9. r.pos < SleepRecentCount /\ Fewer(r.fill, SleepRecentCount) = r.fill
  BY <1>1, StateAssumption DEF RingSlots, Fewer
<1>10. LoadState(doc) = [images |-> r.images, pos |-> r.pos, fill |-> r.fill]
  BY <1>2, <1>4, <1>8, <1>9 DEF LoadState
<1>. QED
  BY <1>1, <1>5, <1>10

-----------------------------------------------------------------------------
LEMMA RecentAlways == StateSpec => []RecentInv
<1>1. StateInit => RecentInv
  BY EmptyRemembers DEF StateInit, RecentInv
<1>2. RecentInv /\ [StateNext]_stateVars => RecentInv'
  <2> SUFFICES ASSUME RecentInv, [StateNext]_stateVars PROVE RecentInv'
    OBVIOUS
  <2>1. ASSUME NEW idx \in SleepImages, ShowSleepImage(idx) PROVE RecentInv'
    BY <2>1, PushRemembers DEF ShowSleepImage, RecentInv
  <2>2. CASE SaveState
    <3>1. StateJson(recent) # NoStateJson
      BY LoadIsSave DEF RecentInv
    <3>. QED
      BY <2>2, <3>1 DEF SaveState, RecentInv
  <2>3. CASE Restart
    <3>1. CASE stateJson = NoStateJson
      BY <2>3, <3>1, EmptyRemembers DEF Restart, RecentInv
    <3>2. CASE stateJson # NoStateJson
      <4>1. PICK r \in Rings : stateJson = StateJson(r) /\ Remembers(r, shownSaved)
        BY <3>2 DEF RecentInv
      <4>2. recent' = r
        BY <2>3, <3>2, <4>1, LoadIsSave DEF Restart
      <4>. QED
        BY <2>3, <3>2, <4>1, <4>2 DEF Restart, RecentInv
    <3>. QED
      BY <3>1, <3>2
  <2>4. ASSUME NEW version \in 1 .. 5, NEW last \in SleepImages \cup {255}, MigrateState(version, last)
        PROVE  RecentInv'
    <3>1. stateJson = NoStateJson /\ shown = <<>> /\ shownSaved' = shown'
      BY <2>4 DEF MigrateState
    <3>2. recent' \in Rings /\ shown' \in Seq(SleepImages) /\ Remembers(recent', shown')
      <4>1. CASE version \in 2 .. 4 /\ last # 255
        <5>1. recent' = Pushed(recent, last) /\ shown' = Append(shown, last)
          BY <2>4, <3>1, <4>1 DEF MigrateState
        <5>. QED
          BY <4>1, <5>1, PushRemembers DEF RecentInv
      <4>2. CASE ~ (version \in 2 .. 4 /\ last # 255)
        BY <2>4, <3>1, <4>2 DEF MigrateState, RecentInv
      <4>. QED
        BY <4>1, <4>2
    <3>3. CASE version > 4
      <4>1. stateJson' = NoStateJson /\ shown' = <<>>
        BY <2>4, <3>3 DEF MigrateState
      <4>. QED
        BY <3>1, <3>2, <4>1 DEF RecentInv
    <3>4. CASE ~ version > 4
      <4>1. stateJson' = StateJson(recent')
        BY <2>4, <3>4 DEF MigrateState
      <4>2. StateJson(recent') # NoStateJson
        BY <3>2, LoadIsSave
      <4>. QED
        BY <3>1, <3>2, <4>1, <4>2 DEF RecentInv
    <3>. QED
      BY <3>3, <3>4
  <2>5. CASE UNCHANGED stateVars
    BY <2>5 DEF stateVars, RecentInv
  <2>. QED
    BY <2>1, <2>2, <2>3, <2>4, <2>5 DEF StateNext
<1>. QED
  BY <1>1, <1>2, PTL DEF StateSpec

(* Over any number of pictures, saves and restarts, and whatever the       *)
(* length of the ring (CrossPointState.cpp:19-63).                         *)
THEOREM RecentAreAlwaysTheLast == StateSpec => []RecentAreTheLast
<1>1. RecentInv => RecentAreTheLast
  <2> SUFFICES ASSUME RecentInv, NEW idx \in SleepImages, NEW n \in 0 .. SleepRecentCount + 1
               PROVE  IsRecentSleep(idx, n) <=>
                        \E i \in DOMAIN shown : i > Len(shown) - Fewer(n, SleepRecentCount) /\ shown[i] = idx
    BY DEF RecentAreTheLast
  <2>1. /\ Len(shown) \in Nat /\ DOMAIN shown = 1 .. Len(shown)
        /\ recent.fill = Fewer(Len(shown), SleepRecentCount)
        /\ \A i \in 0 .. recent.fill - 1 : recent.images[Back(recent.pos, i)] = shown[Len(shown) - i]
    BY DEF RecentInv, Remembers
  <2>2. IsRecentSleep(idx, n) <=> \E i \in 0 .. Fewer(n, recent.fill) - 1 : shown[Len(shown) - i] = idx
    <3>1. IsRecentSleep(idx, n) <=>
            \E i \in 0 .. Fewer(n, recent.fill) - 1 : recent.images[Back(recent.pos, i)] = idx
      BY DEF IsRecentSleep, Back
    <3>2. \A i \in 0 .. Fewer(n, recent.fill) - 1 : i \in 0 .. recent.fill - 1
      BY <2>1, StateAssumption DEF Fewer
    <3>. QED
      BY <2>1, <3>1, <3>2
  <2>3. ASSUME NEW i \in 0 .. Fewer(n, recent.fill) - 1
        PROVE  Len(shown) - i \in DOMAIN shown /\ Len(shown) - i > Len(shown) - Fewer(n, SleepRecentCount)
    BY <2>1, StateAssumption DEF Fewer
  <2>4. ASSUME NEW k \in DOMAIN shown, k > Len(shown) - Fewer(n, SleepRecentCount)
        PROVE  Len(shown) - k \in 0 .. Fewer(n, recent.fill) - 1 /\ Len(shown) - (Len(shown) - k) = k
    BY <2>1, <2>4, StateAssumption DEF Fewer
  <2>. QED
    BY <2>2, <2>3, <2>4
<1>. QED
  BY <1>1, RecentAlways, PTL

-----------------------------------------------------------------------------
(***************************************************************************)
(* ButtonNavigator: for lists of any length and frames of any pace.        *)
(***************************************************************************)
Lists == [items : Nat \ {0}, perPage : Nat \ {0}, byPage : BOOLEAN, start : Nat]
Presses == [way : {"next", "previous"}, since : Nat]

(* The items a list stops at: all, or the first of every page.             *)
IsStop(i) == \E k \in 0 .. Stops - 1 : i = k * StopSize

(* While a button is down, the list is where the steps of the press lead,  *)
(* and there are steps only once it was down for long enough; the time of  *)
(* the last step is kept for as long as the press.                         *)
NavInv ==
  /\ list \in Lists /\ clock \in Nat \ {0} /\ steps \in Nat /\ lastContinuousNavTime \in Nat
  /\ press = NoPress \/ press \in Presses
  /\ press = NoPress => IsStop(index) /\ lastContinuousNavTime = 0
  /\ press # NoPress =>
       /\ IsStop(list.start) /\ index = After(list.start, press.way, steps)
       /\ lastContinuousNavTime = 0 <=> steps = 0
       /\ steps > 0 => clock - press.since > ContinuousStart

-----------------------------------------------------------------------------
(* One step forward and one step back round a list of s stops.             *)
LEMMA ModForward ==
  ASSUME NEW a \in Int, NEW s \in Nat \ {0}
  PROVE  (a + 1) % s = IF a % s = s - 1 THEN 0 ELSE (a % s) + 1
<1> DEFINE q == a \div s
           r == a % s
<1>1. a = s * q + r /\ r \in 0 .. s - 1 /\ q \in Int
  BY DivMod
<1> HIDE DEF q, r
<1>2. CASE r = s - 1
  <2>1. a + 1 = s * (q + 1) + 0
    BY <1>1, <1>2
  <2>2. (s * (q + 1) + 0) % s = 0
    <3>1. q + 1 \in Int /\ 0 \in 0 .. s - 1
      BY <1>1
    <3>. QED
      BY <3>1, DivModOf
  <2>. QED
    BY <1>2, <2>1, <2>2 DEF r
<1>3. CASE r # s - 1
  <2>1. a + 1 = s * q + (r + 1) /\ r + 1 \in 0 .. s - 1
    BY <1>1, <1>3
  <2>2. (s * q + (r + 1)) % s = r + 1
    BY <1>1, <2>1, DivModOf
  <2>. QED
    BY <1>3, <2>1, <2>2 DEF r
<1>. QED
  BY <1>2, <1>3

LEMMA ModBackward ==
  ASSUME NEW a \in Int, NEW s \in Nat \ {0}
  PROVE  (a + s - 1) % s = IF a % s = 0 THEN s - 1 ELSE (a % s) - 1
<1> DEFINE q == a \div s
           r == a % s
<1>1. a = s * q + r /\ r \in 0 .. s - 1 /\ q \in Int
  BY DivMod
<1> HIDE DEF q, r
<1>2. CASE r = 0
  <2>1. a + s - 1 = s * q + (s - 1) /\ s - 1 \in 0 .. s - 1
    BY <1>1, <1>2
  <2>2. (s * q + (s - 1)) % s = s - 1
    BY <1>1, <2>1, DivModOf
  <2>. QED
    BY <1>2, <2>1, <2>2 DEF r
<1>3. CASE r # 0
  <2>1. a + s - 1 = s * (q + 1) + (r - 1) /\ r - 1 \in 0 .. s - 1
    BY <1>1, <1>3
  <2>2. (s * (q + 1) + (r - 1)) % s = r - 1
    <3>1. q + 1 \in Int
      BY <1>1
    <3>. QED
      BY <2>1, <3>1, DivModOf
  <2>. QED
    BY <1>3, <2>1, <2>2 DEF r
<1>. QED
  BY <1>2, <1>3

-----------------------------------------------------------------------------
Paged == list.byPage /\ list.items > list.perPage

LEMMA StopsTyped ==
  ASSUME list \in Lists
  PROVE  /\ Stops \in Nat \ {0} /\ StopSize \in Nat \ {0}
         /\ Paged => Stops - 1 = (list.items - 1) \div list.perPage /\ Stops - 1 \in Nat /\ StopSize = list.perPage
         /\ ~ Paged => Stops = list.items /\ StopSize = 1
<1>1. list.items \in Nat \ {0} /\ list.perPage \in Nat \ {0}
  BY DEF Lists
<1>2. CASE Paged
  <2>1. list.items - 1 \in Int /\ list.items - 1 >= list.perPage
    BY <1>1, <1>2 DEF Paged
  <2>2. (list.items - 1) \div list.perPage \in Nat
    BY <1>1, <2>1
  <2>. QED
    BY <1>1, <1>2, <2>2 DEF Paged, Stops, StopSize
<1>3. CASE ~ Paged
  BY <1>1, <1>3 DEF Paged, Stops, StopSize
<1>. QED
  BY <1>2, <1>3

(* The stop after a stop, and the one before it.                           *)
NextStop(k, way) ==
  IF way = "next" THEN (IF k = Stops - 1 THEN 0 ELSE k + 1)
                  ELSE (IF k = 0 THEN Stops - 1 ELSE k - 1)

LEMMA CallbackIsNextStop ==
  ASSUME list \in Lists, NEW k \in 0 .. Stops - 1, NEW way \in {"next", "previous"}
  PROVE  Callback(k * StopSize, way) = NextStop(k, way) * StopSize
<1>1. list.items \in Nat \ {0} /\ list.perPage \in Nat \ {0} /\ list.byPage \in BOOLEAN
  BY DEF Lists
<1>2. CASE Paged
  <2>1. Stops - 1 = (list.items - 1) \div list.perPage /\ StopSize = list.perPage /\ Stops \in Nat \ {0}
    BY <1>2, StopsTyped
  <2>2. (k * list.perPage) \div list.perPage = k
    <3>1. (list.perPage * k + 0) \div list.perPage = k
      <4>1. k \in Int /\ 0 \in 0 .. list.perPage - 1
        BY <1>1
      <4>. QED
        BY <1>1, <4>1, DivModOf
    <3>2. list.perPage * k + 0 = k * list.perPage
      BY <1>1
    <3>. QED
      BY <3>1, <3>2
  <2>3. ~ (list.items <= 0 \/ list.perPage <= 0) /\ ~ list.items <= list.perPage /\ list.byPage
    BY <1>1, <1>2 DEF Paged
  <2>4. CASE way = "next"
    <3>1. Callback(k * StopSize, way) = NextPageIndex(k * StopSize, list.items, list.perPage)
      BY <2>3, <2>4 DEF Callback
    <3>2. NextPageIndex(k * StopSize, list.items, list.perPage) =
            IF k < Stops - 1 THEN (k + 1) * list.perPage ELSE 0
      BY <2>1, <2>2, <2>3 DEF NextPageIndex
    <3>3. k < Stops - 1 <=> k # Stops - 1
      BY <2>1
    <3>4. 0 * list.perPage = 0
      BY <1>1
    <3>. QED
      BY <2>1, <2>4, <3>1, <3>2, <3>3, <3>4 DEF NextStop
  <2>5. CASE way = "previous"
    <3>1. Callback(k * StopSize, way) = PreviousPageIndex(k * StopSize, list.items, list.perPage)
      BY <2>3, <2>5 DEF Callback
    <3>2. PreviousPageIndex(k * StopSize, list.items, list.perPage) =
            IF k > 0 THEN (k - 1) * list.perPage ELSE (Stops - 1) * list.perPage
      BY <2>1, <2>2, <2>3 DEF PreviousPageIndex
    <3>3. k > 0 <=> k # 0
      BY <2>1
    <3>. QED
      BY <2>1, <2>5, <3>1, <3>2, <3>3 DEF NextStop
  <2>. QED
    BY <2>4, <2>5
<1>3. CASE ~ Paged
  <2>1. Stops = list.items /\ StopSize = 1 /\ k * StopSize = k
    BY <1>3, StopsTyped
  <2>2. k \in Int /\ k % list.items = k
    <3>1. (list.items * 0 + k) % list.items = k
      BY <1>1, <2>1, DivModOf
    <3>2. list.items * 0 + k = k
      BY <1>1, <2>1
    <3>. QED
      BY <3>1, <3>2
  <2>3. ~ list.items <= 0 /\ (list.byPage => ~ (list.items <= 0 \/ list.perPage <= 0) /\ list.items <= list.perPage)
    BY <1>1, <1>3 DEF Paged
  <2>4. CASE way = "next"
    <3>1. Callback(k, way) = NextIndex(k, list.items)
      BY <1>1, <2>3, <2>4 DEF Callback, NextPageIndex
    <3>2. NextIndex(k, list.items) = IF k = list.items - 1 THEN 0 ELSE k + 1
      BY <1>1, <2>2, <2>3, ModForward DEF NextIndex
    <3>3. NextStop(k, way) \in Int /\ NextStop(k, way) = IF k = list.items - 1 THEN 0 ELSE k + 1
      BY <2>1, <2>2, <2>4 DEF NextStop
    <3>. QED
      BY <2>1, <3>1, <3>2, <3>3
  <2>5. CASE way = "previous"
    <3>1. Callback(k, way) = PreviousIndex(k, list.items)
      BY <1>1, <2>3, <2>5 DEF Callback, PreviousPageIndex
    <3>2. PreviousIndex(k, list.items) = IF k = 0 THEN list.items - 1 ELSE k - 1
      BY <1>1, <2>2, <2>3, ModBackward DEF PreviousIndex
    <3>3. NextStop(k, way) \in Int /\ NextStop(k, way) = IF k = 0 THEN list.items - 1 ELSE k - 1
      BY <1>1, <2>1, <2>2, <2>5 DEF NextStop
    <3>. QED
      BY <2>1, <3>1, <3>2, <3>3
  <2>. QED
    BY <2>4, <2>5
<1>. QED
  BY <1>2, <1>3

(* How far round the list so many steps lead.                              *)
Turned(k, way, n) == k + (IF way = "next" THEN n ELSE Stops * n - n)

LEMMA AfterIsTurned ==
  ASSUME list \in Lists, NEW k \in 0 .. Stops - 1, NEW way \in {"next", "previous"}, NEW n \in Nat
  PROVE  /\ Turned(k, way, n) \in Int /\ Turned(k, way, n) % Stops \in 0 .. Stops - 1
         /\ After(k * StopSize, way, n) = (Turned(k, way, n) % Stops) * StopSize
<1>1. Stops \in Nat \ {0} /\ StopSize \in Nat \ {0}
  BY StopsTyped
<1>2. Turned(k, way, n) \in Int
  BY <1>1 DEF Turned
<1>3. Turned(k, way, n) % Stops \in 0 .. Stops - 1
  BY <1>1, <1>2, DivMod
<1>4. (k * StopSize) \div StopSize = k
  <2>1. (StopSize * k + 0) \div StopSize = k
    <3>1. k \in Int /\ 0 \in 0 .. StopSize - 1
      BY <1>1
    <3>. QED
      BY <1>1, <3>1, DivModOf
  <2>2. StopSize * k + 0 = k * StopSize
    BY <1>1
  <2>. QED
    BY <2>1, <2>2
<1>5. CASE n = 0
  <2>1. Turned(k, way, n) = Stops * 0 + k
    BY <1>1, <1>5 DEF Turned
  <2>2. Turned(k, way, n) % Stops = k
    BY <1>1, <2>1, DivModOf
  <2>. QED
    BY <1>2, <1>3, <1>5, <2>2 DEF After
<1>6. CASE n # 0
  BY <1>2, <1>3, <1>4, <1>6 DEF After, Turned
<1>. QED
  BY <1>5, <1>6

(* One more step of the callback is one more step.                         *)
LEMMA OneStepMore ==
  ASSUME list \in Lists, NEW start, IsStop(start), NEW way \in {"next", "previous"}, NEW n \in Nat
  PROVE  /\ IsStop(After(start, way, n))
         /\ Callback(After(start, way, n), way) = After(start, way, n + 1)
<1>1. PICK k \in 0 .. Stops - 1 : start = k * StopSize
  BY DEF IsStop
<1>2. Stops \in Nat \ {0} /\ StopSize \in Nat \ {0}
  BY StopsTyped
<1> DEFINE t == Turned(k, way, n)
           u == Turned(k, way, n + 1)
<1>3. /\ t \in Int /\ t % Stops \in 0 .. Stops - 1 /\ After(start, way, n) = (t % Stops) * StopSize
      /\ u \in Int /\ After(start, way, n + 1) = (u % Stops) * StopSize
  <2>1. n + 1 \in Nat
    OBVIOUS
  <2>. QED
    BY <1>1, <2>1, AfterIsTurned
<1>4. Callback((t % Stops) * StopSize, way) = NextStop(t % Stops, way) * StopSize
  BY <1>3, CallbackIsNextStop
<1>5. NextStop(t % Stops, way) = u % Stops
  <2>1. CASE way = "next"
    <3>1. u = t + 1
      BY <1>2, <2>1 DEF Turned
    <3>. QED
      BY <1>2, <1>3, <2>1, <3>1, ModForward DEF NextStop
  <2>2. CASE way = "previous"
    <3>1. Stops * (n + 1) - (n + 1) = (Stops * n - n) + Stops - 1
      BY <1>2
    <3>2. u = t + Stops - 1
      BY <1>2, <2>2, <3>1 DEF Turned
    <3>. QED
      BY <1>2, <1>3, <2>2, <3>2, ModBackward DEF NextStop
  <2>. QED
    BY <2>1, <2>2
<1>6. IsStop(After(start, way, n))
  BY <1>3 DEF IsStop
<1>. QED
  BY <1>3, <1>4, <1>5, <1>6

-----------------------------------------------------------------------------
(* What a press does to the list depends on its items alone.               *)
LEMMA SameList ==
  ASSUME list \in Lists, list' \in Lists, list' = [list EXCEPT !.start = list'.start]
  PROVE  /\ Stops' = Stops /\ StopSize' = StopSize
         /\ \A i : IsStop(i)' = IsStop(i)
<1>1. list'.items = list.items /\ list'.perPage = list.perPage /\ list'.byPage = list.byPage
  BY DEF Lists
<1>2. Stops' = Stops /\ StopSize' = StopSize
  BY <1>1 DEF Stops, StopSize
<1>. QED
  BY <1>2 DEF IsStop

LEMMA PressKeeps ==
  ASSUME NavInv, NEW way \in {"next", "previous"}, PressButton(way)
  PROVE  NavInv'
<1>1. IsStop(index) /\ lastContinuousNavTime = 0 /\ list \in Lists /\ clock \in Nat \ {0}
  BY DEF NavInv, PressButton
<1>2. /\ press' = [way |-> way, since |-> clock] /\ steps' = 0 /\ list' = [list EXCEPT !.start = index]
      /\ UNCHANGED <<index, clock, lastContinuousNavTime>>
  BY DEF PressButton
<1>3. index \in Nat
  BY <1>1, StopsTyped DEF IsStop
<1>4. list' \in Lists /\ list'.start = index
  BY <1>1, <1>2, <1>3 DEF Lists
<1>5. press' \in Presses /\ press' # NoPress
  BY <1>1, <1>2 DEF Presses, NoPress
<1>6. Stops' = Stops /\ StopSize' = StopSize
  BY <1>1, <1>2, <1>4, SameList
<1>7. (IsStop(index))' /\ (IsStop(list.start))'
  BY <1>1, <1>2, <1>4, <1>6 DEF IsStop
<1>8. (index = After(list.start, press.way, steps))'
  BY <1>2, <1>4 DEF After
<1>9. (press # NoPress => /\ IsStop(list.start) /\ index = After(list.start, press.way, steps)
                          /\ lastContinuousNavTime = 0 <=> steps = 0
                          /\ steps > 0 => clock - press.since > ContinuousStart)'
  BY <1>1, <1>2, <1>7, <1>8
<1>. QED
  BY <1>1, <1>2, <1>4, <1>5, <1>7, <1>9 DEF NavInv

(* Where nothing but the time and the steps of the press change.           *)
LEMMA AfterIsSame ==
  ASSUME UNCHANGED list
  PROVE  \A s, w, n : After(s, w, n)' = After(s, w, n) /\ (IsStop(s)' <=> IsStop(s))
  BY DEF After, Stops, StopSize, IsStop

LEMMA HoldKeeps ==
  ASSUME NavInv, HoldFrame
  PROVE  NavInv' /\ steps' = steps + 1
<1>1. /\ press \in Presses /\ press # NoPress /\ IsStop(list.start) /\ list \in Lists
      /\ index = After(list.start, press.way, steps) /\ steps \in Nat /\ clock \in Nat \ {0}
  BY DEF NavInv, HoldFrame
<1>2. /\ index' = Callback(index, press.way) /\ steps' = steps + 1 /\ lastContinuousNavTime' = clock
      /\ clock - press.since > ContinuousStart /\ UNCHANGED <<list, clock, press>>
  BY DEF HoldFrame, ShouldNavigateContinuously
<1>3. press.way \in {"next", "previous"}
  BY <1>1 DEF Presses
<1>4. index' = After(list.start, press.way, steps + 1)
  BY <1>1, <1>2, <1>3, OneStepMore
<1>. QED
  BY <1>1, <1>2, <1>4, AfterIsSame DEF NavInv

LEMMA ReleaseKeeps ==
  ASSUME NavInv, ReleaseFrame
  PROVE  /\ NavInv' /\ press' = NoPress /\ steps' >= 1
         /\ index' = After(list.start, press.way, steps')
         /\ clock - press.since <= ContinuousStart => steps' = 1
         /\ steps > 0 => steps' = steps
<1>1. /\ press \in Presses /\ press # NoPress /\ IsStop(list.start) /\ list \in Lists
      /\ index = After(list.start, press.way, steps) /\ steps \in Nat /\ clock \in Nat \ {0}
      /\ lastContinuousNavTime = 0 <=> steps = 0
      /\ steps > 0 => clock - press.since > ContinuousStart
  BY DEF NavInv, ReleaseFrame
<1>2. /\ press' = NoPress /\ lastContinuousNavTime' = 0 /\ UNCHANGED <<list, clock>>
      /\ IF lastContinuousNavTime = 0 THEN index' = Callback(index, press.way) /\ steps' = steps + 1
                                      ELSE UNCHANGED <<index, steps>>
  BY DEF ReleaseFrame, AfterRelease
<1>3. press.way \in {"next", "previous"} /\ press.since \in Nat
  BY <1>1 DEF Presses
<1>4. /\ steps' \in Nat /\ steps' >= 1 /\ index' = After(list.start, press.way, steps')
      /\ steps > 0 => steps' = steps
      /\ steps = 0 => steps' = 1
  <2>1. CASE steps = 0
    <3>1. index' = Callback(index, press.way) /\ steps' = steps + 1
      BY <1>1, <1>2, <2>1
    <3>2. Callback(After(list.start, press.way, steps), press.way) = After(list.start, press.way, steps + 1)
      BY <1>1, <1>3, OneStepMore
    <3>3. steps' = 1
      BY <2>1, <3>1
    <3>. QED
      BY <1>1, <2>1, <3>1, <3>2, <3>3
  <2>2. CASE steps # 0
    BY <1>1, <1>2, <2>2
  <2>. QED
    BY <2>1, <2>2
<1>5. clock - press.since <= ContinuousStart => steps' = 1
  BY <1>1, <1>3, <1>4, NavigatorAssumption
<1>6. IsStop(index')
  BY <1>1, <1>3, <1>4, OneStepMore
<1>7. NavInv'
  BY <1>1, <1>2, <1>4, <1>6, AfterIsSame DEF NavInv
<1>. QED
  BY <1>2, <1>4, <1>5, <1>7

LEMMA PauseKeeps ==
  ASSUME NavInv, NEW n \in 1 .. MaxPause, Pause(n)
  PROVE  NavInv'
<1>1. /\ clock' = clock + n /\ n \in Nat
      /\ UNCHANGED <<list, index, press, lastContinuousNavTime, steps>>
  BY NavigatorAssumption DEF Pause
<1>2. press # NoPress => press.since \in Nat
  BY DEF NavInv, Presses
<1>3. clock \in Nat \ {0} /\ clock' \in Nat \ {0}
  BY <1>1 DEF NavInv
<1>4. press # NoPress /\ steps > 0 => clock' - press.since > ContinuousStart
  BY <1>1, <1>2, <1>3, NavigatorAssumption DEF NavInv
<1>. QED
  BY <1>1, <1>3, <1>4, AfterIsSame DEF NavInv

LEMMA NavAlways == NavSpec => []NavInv
<1>1. NavInit => NavInv
  <2> SUFFICES ASSUME NavInit PROVE NavInv
    OBVIOUS
  <2>1. list \in Lists
    BY NavigatorAssumption DEF NavInit, Lists
  <2>2. IsStop(0)
    BY <2>1, StopsTyped DEF IsStop
  <2>. QED
    BY <2>1, <2>2, NavigatorAssumption DEF NavInit, NavInv
<1>2. NavInv /\ [NavNext]_navVars => NavInv'
  <2> SUFFICES ASSUME NavInv, [NavNext]_navVars PROVE NavInv'
    OBVIOUS
  <2>1. CASE UNCHANGED navVars
    BY <2>1, AfterIsSame DEF NavInv, navVars
  <2>. QED
    BY <2>1, PressKeeps, HoldKeeps, ReleaseKeeps, PauseKeeps DEF NavNext
<1>. QED
  BY <1>1, <1>2, PTL DEF NavSpec

(* However unevenly the frames come, however long a button is held, in     *)
(* lists and pages of any length (ButtonNavigator.cpp:42-124).             *)
THEOREM EveryPressIsAlwaysAStep == NavSpec => EveryPressIsAStep
<1> DEFINE Step ==
      /\ press # NoPress /\ press' = NoPress =>
           /\ steps' >= 1 /\ index' = After(list.start, press.way, steps')
           /\ clock - press.since <= ContinuousStart => steps' = 1
      /\ press # NoPress /\ steps' = steps + 1 /\ steps > 0 =>
           clock - lastContinuousNavTime > ContinuousInterval
<1>1. NavInv /\ [NavNext]_navVars => [Step]_navVars
  <2> SUFFICES ASSUME NavInv, NavNext PROVE Step
    OBVIOUS
  <2>0. steps \in Nat
    BY DEF NavInv
  <2>1. ASSUME NEW way \in {"next", "previous"}, PressButton(way) PROVE Step
    BY <2>1 DEF PressButton
  <2>2. CASE HoldFrame
    BY <2>2 DEF HoldFrame, ShouldNavigateContinuously
  <2>3. CASE ReleaseFrame
    BY <2>0, <2>3, ReleaseKeeps
  <2>4. ASSUME NEW n \in 1 .. MaxPause, Pause(n) PROVE Step
    BY <2>0, <2>4 DEF Pause
  <2>. QED
    BY <2>1, <2>2, <2>3, <2>4 DEF NavNext
<1>2. NavSpec => [][Step]_navVars
  BY <1>1, NavAlways, PTL DEF NavSpec
<1>. QED
  BY <1>2 DEF EveryPressIsAStep

-----------------------------------------------------------------------------
(***************************************************************************)
(* BatteryGauge: for any poll window and any battery.                      *)
(***************************************************************************)
USE BatteryAssumption

Gauges == [soc : Socs, voltage : Voltages]

(* The history is one of the gauge up to now.                              *)
PastInv ==
  /\ millis \in 1 .. MaxMillis
  /\ past \in [1 .. MaxMillis -> Gauges] /\ gauge = past[millis]
  /\ percentPoll \in 0 .. millis /\ voltagePoll \in 0 .. millis

(* A cache holds what the gauge said when its window was opened; of the    *)
(* percentage that is so as long as no transaction failed.                 *)
CacheInv ==
  /\ voltagePoll # 0 => cachedVoltage = past[voltagePoll].voltage
  /\ failed = -1 /\ percentPoll # 0 =>
       \E u \in Within(PollMs, percentPoll) : cachedPercent = TruePercent(percentPoll, u)

AnswerInv ==
  answer # NoAnswer => answer.at \in 1 .. millis

GaugeInv == PastInv /\ CacheInv /\ AnswerInv /\ PercentageIsRecent

-----------------------------------------------------------------------------
LEMMA NowIsWithin ==
  ASSUME NEW t \in Nat \ {0}
  PROVE  t \in Within(PollMs, t)
  BY DEF Within

(* The voltage that is given is of now, or of a time within its window.    *)
LEMMA VoltageIsRecent ==
  ASSUME PastInv, CacheInv, NEW works \in BOOLEAN, VoltageIsFresh \/ works
  PROVE  \E u \in Within(PollMs, millis) : Voltage(works) = past[u].voltage
<1>1. CASE VoltageIsFresh
  <2>1. voltagePoll \in Within(PollMs, millis) /\ Voltage(works) = past[voltagePoll].voltage
    BY <1>1 DEF PastInv, CacheInv, VoltageIsFresh, Voltage, Within
  <2>. QED
    BY <2>1
<1>2. CASE ~ VoltageIsFresh
  <2>1. millis \in Within(PollMs, millis)
    BY NowIsWithin DEF PastInv
  <2>2. Voltage(works) = past[millis].voltage
    BY <1>2 DEF PastInv, Voltage
  <2>. QED
    BY <2>1, <2>2
<1>. QED
  BY <1>1, <1>2

LEMMA ReadKeeps ==
  ASSUME PastInv, CacheInv, NEW works \in BOOLEAN, ReadVoltage(works)
  PROVE  /\ voltagePoll' \in 0 .. millis
         /\ voltagePoll' # 0 => cachedVoltage' = past[voltagePoll'].voltage
<1>1. CASE VoltageIsFresh \/ ~ works
  BY <1>1 DEF ReadVoltage, Voltage, PastInv, CacheInv
<1>2. CASE ~ (VoltageIsFresh \/ ~ works)
  BY <1>2 DEF ReadVoltage, Voltage, PastInv, CacheInv
<1>. QED
  BY <1>1, <1>2

(* A percentage that is read anew is of now, or of a voltage in its place. *)
LEMMA PercentIsTrue ==
  ASSUME PastInv, CacheInv, NEW socWorks \in BOOLEAN, NEW voltageWorks \in BOOLEAN,
         GetBatteryPercentage(socWorks, voltageWorks), ~ PercentIsFresh, failed' = -1
  PROVE  \E u \in Within(PollMs, millis) : cachedPercent' = TruePercent(millis, u)
<1>1. /\ failed' = IF ~ socWorks \/ (gauge.soc = 0 /\ ~ VoltageIsFresh /\ ~ voltageWorks) THEN millis ELSE failed
      /\ IF ~ socWorks THEN UNCHANGED <<cachedPercent, cachedVoltage, voltagePoll>>
         ELSE IF gauge.soc = 0
                THEN ReadVoltage(voltageWorks) /\ cachedPercent' = Voltage(voltageWorks)
                ELSE cachedPercent' = (IF gauge.soc > 100 THEN 100 ELSE gauge.soc)
  BY DEF GetBatteryPercentage
<1>2. millis # -1
  BY DEF PastInv
<1>3. socWorks /\ ~ (gauge.soc = 0 /\ ~ VoltageIsFresh /\ ~ voltageWorks)
  BY <1>1, <1>2
<1>4. gauge = past[millis]
  BY DEF PastInv
<1>5. CASE gauge.soc = 0
  <2>1. cachedPercent' = Voltage(voltageWorks) /\ (VoltageIsFresh \/ voltageWorks)
    BY <1>1, <1>3, <1>5
  <2>2. \E u \in Within(PollMs, millis) : cachedPercent' = past[u].voltage
    BY <2>1, VoltageIsRecent
  <2>. QED
    BY <1>4, <1>5, <2>2 DEF TruePercent
<1>6. CASE gauge.soc # 0
  <2>1. cachedPercent' = IF gauge.soc > 100 THEN 100 ELSE gauge.soc
    BY <1>1, <1>3, <1>6
  <2>2. millis \in Within(PollMs, millis)
    BY NowIsWithin DEF PastInv
  <2>. QED
    BY <1>4, <1>6, <2>1, <2>2 DEF TruePercent
<1>. QED
  BY <1>5, <1>6

LEMMA PercentageKeeps ==
  ASSUME GaugeInv, NEW socWorks \in BOOLEAN, NEW voltageWorks \in BOOLEAN,
         GetBatteryPercentage(socWorks, voltageWorks)
  PROVE  GaugeInv'
<1>1. PastInv /\ CacheInv
  BY DEF GaugeInv
<1>2. /\ UNCHANGED <<millis, gauge, past>>
      /\ answer' = [percent |-> cachedPercent', at |-> millis, failed |-> failed']
  BY DEF GetBatteryPercentage
<1>3. millis \in Nat \ {0} /\ millis \in 1 .. millis
  BY <1>1 DEF PastInv
<1>4. \A t, u : TruePercent(t, u)' = TruePercent(t, u)
  BY <1>2 DEF TruePercent
<1>5. /\ percentPoll' \in 0 .. millis /\ voltagePoll' \in 0 .. millis
      /\ voltagePoll' # 0 => cachedVoltage' = past[voltagePoll'].voltage
  <2>1. percentPoll' \in {percentPoll, millis}
    BY DEF GetBatteryPercentage
  <2>2. UNCHANGED <<cachedVoltage, voltagePoll>> \/ ReadVoltage(voltageWorks)
    BY DEF GetBatteryPercentage
  <2>. QED
    BY <1>1, <1>3, <2>1, <2>2, ReadKeeps DEF PastInv, CacheInv
<1>6. ASSUME failed' = -1
      PROVE  /\ percentPoll' \in Within(PollMs, millis)
             /\ \E u \in Within(PollMs, percentPoll') : cachedPercent' = TruePercent(percentPoll', u)
  <2>1. CASE PercentIsFresh
    <3>1. failed = -1 /\ percentPoll' = percentPoll /\ cachedPercent' = cachedPercent
      BY <1>6, <2>1 DEF GetBatteryPercentage
    <3>2. percentPoll # 0 /\ percentPoll \in Within(PollMs, millis)
      BY <1>1, <2>1 DEF PercentIsFresh, PastInv, Within
    <3>. QED
      BY <1>1, <3>1, <3>2 DEF CacheInv
  <2>2. CASE ~ PercentIsFresh
    <3>1. percentPoll' = millis
      BY <2>2 DEF GetBatteryPercentage
    <3>. QED
      BY <1>1, <1>3, <1>6, <2>2, <3>1, NowIsWithin, PercentIsTrue
  <2>. QED
    BY <2>1, <2>2
<1>7. PastInv'
  BY <1>1, <1>2, <1>5 DEF PastInv
<1>8. CacheInv'
  BY <1>2, <1>4, <1>5, <1>6 DEF CacheInv, Within
<1>9. answer'.at = millis /\ answer'.failed = failed' /\ answer'.percent = cachedPercent'
  BY <1>2
<1>10. AnswerInv' /\ PercentageIsRecent'
  BY <1>2, <1>3, <1>4, <1>6, <1>9 DEF AnswerInv, PercentageIsRecent, Within
<1>. QED
  BY <1>7, <1>8, <1>10 DEF GaugeInv

LEMMA VoltageKeeps ==
  ASSUME GaugeInv, NEW works \in BOOLEAN, GetBatteryVoltageMV(works)
  PROVE  GaugeInv'
<1>1. PastInv /\ CacheInv
  BY DEF GaugeInv
<1>2. /\ UNCHANGED <<millis, gauge, cachedPercent, percentPoll, past, answer>>
      /\ failed' \in {failed, millis} /\ ReadVoltage(works)
  BY DEF GetBatteryVoltageMV
<1>3. failed' = -1 => failed = -1
  BY <1>1, <1>2 DEF PastInv
<1>4. \A t, u : TruePercent(t, u)' = TruePercent(t, u)
  BY <1>2 DEF TruePercent
<1>5. PastInv' /\ AnswerInv'
  BY <1>1, <1>2, ReadKeeps DEF PastInv, AnswerInv, GaugeInv
<1>6. CacheInv'
  BY <1>1, <1>2, <1>3, <1>4, ReadKeeps DEF CacheInv, Within
<1>7. PercentageIsRecent'
  BY <1>2, <1>4 DEF PercentageIsRecent, GaugeInv, Within
<1>. QED
  BY <1>5, <1>6, <1>7 DEF GaugeInv

(* What is past stays as it was.                                           *)
LEMMA WaitKeeps ==
  ASSUME GaugeInv, Wait
  PROVE  GaugeInv'
<1>1. PastInv /\ CacheInv /\ AnswerInv /\ PercentageIsRecent
  BY DEF GaugeInv
<1>2. /\ millis' = millis + 1 /\ millis < MaxMillis /\ gauge' \in Gauges
      /\ past' = [past EXCEPT ![millis'] = gauge']
      /\ UNCHANGED <<cachedPercent, cachedVoltage, percentPoll, voltagePoll, failed, answer>>
  BY DEF Wait, Gauges
<1>3. millis \in 1 .. MaxMillis /\ millis' \in 1 .. MaxMillis
  BY <1>1, <1>2 DEF PastInv
<1>4. \A t \in 1 .. millis : past'[t] = past[t]
  BY <1>1, <1>2, <1>3 DEF PastInv
<1>5. \A t, u \in 1 .. millis : TruePercent(t, u)' = TruePercent(t, u)
  BY <1>4 DEF TruePercent
<1>6. PastInv'
  BY <1>1, <1>2, <1>3 DEF PastInv
<1>7. CacheInv'
  <2>1. voltagePoll # 0 => voltagePoll \in 1 .. millis
    BY <1>1 DEF PastInv
  <2>2. percentPoll # 0 => percentPoll \in 1 .. millis /\ Within(PollMs, percentPoll) \subseteq 1 .. millis
    BY <1>1 DEF PastInv, Within
  <2>3. Within(PollMs, percentPoll)' = Within(PollMs, percentPoll)
    BY <1>2 DEF Within
  <2>. QED
    BY <1>1, <1>2, <1>4, <1>5, <2>1, <2>2, <2>3 DEF CacheInv
<1>8. AnswerInv'
  BY <1>1, <1>2, <1>3 DEF AnswerInv
<1>9. PercentageIsRecent'
  <2> SUFFICES ASSUME answer # NoAnswer, answer.failed = -1
               PROVE  \E t \in Within(PollMs, answer.at) :
                        \E u \in Within(PollMs, t) : answer.percent = TruePercent(t, u)'
    BY <1>2 DEF PercentageIsRecent, Within
  <2>1. PICK t \in Within(PollMs, answer.at) :
               \E u \in Within(PollMs, t) : answer.percent = TruePercent(t, u)
    BY <1>1 DEF PercentageIsRecent
  <2>2. PICK u \in Within(PollMs, t) : answer.percent = TruePercent(t, u)
    BY <2>1
  <2>3. t \in 1 .. millis /\ u \in 1 .. millis
    BY <1>1, <1>3 DEF AnswerInv, Within
  <2>. QED
    BY <1>5, <2>2, <2>3
<1>. QED
  BY <1>6, <1>7, <1>8, <1>9 DEF GaugeInv

(* Without a failed transaction no stale or made-up percentage is given,   *)
(* in whatever order percentage and voltage are asked for                  *)
(* (HalPowerManager.cpp:88-165).                                           *)
THEOREM PercentageIsAlwaysRecent == BatterySpec => []PercentageIsRecent
<1>1. BatteryInit => GaugeInv
  <2> SUFFICES ASSUME BatteryInit PROVE GaugeInv
    OBVIOUS
  <2>1. PastInv
    BY DEF BatteryInit, PastInv, Gauges
  <2>. QED
    BY <2>1 DEF BatteryInit, GaugeInv, CacheInv, AnswerInv, PercentageIsRecent
<1>2. GaugeInv /\ [BatteryNext]_batteryVars => GaugeInv'
  <2> SUFFICES ASSUME GaugeInv, [BatteryNext]_batteryVars PROVE GaugeInv'
    OBVIOUS
  <2>1. CASE UNCHANGED batteryVars
    BY <2>1 DEF GaugeInv, PastInv, CacheInv, AnswerInv, PercentageIsRecent, Within, TruePercent, batteryVars
  <2>. QED
    BY <2>1, PercentageKeeps, VoltageKeeps, WaitKeeps DEF BatteryNext
<1>3. GaugeInv => PercentageIsRecent
  BY DEF GaugeInv
<1>. QED
  BY <1>1, <1>2, <1>3, PTL DEF BatterySpec

-----------------------------------------------------------------------------
(***************************************************************************)
(* Board: the parts share no state.                                        *)
(***************************************************************************)

(* What is proved of a part by itself is so of the part in the board: a    *)
(* step of the board is a step of one part and changes nothing of another. *)
THEOREM PartsAreAsSpecified ==
  BoardSpec => /\ LogSpec /\ FilesSpec /\ ButtonsSpec /\ StateSpec
               /\ NavSpec /\ BatterySpec /\ DownloadSpec /\ ScheduleSpec
<1>1. BoardInit => /\ LogInit /\ FilesInit /\ ButtonsInit /\ StateInit
                   /\ NavInit /\ BatteryInit /\ DownloadInit /\ ScheduleInit
  BY DEF BoardInit
<1>2. [BoardNext]_boardVars => [LogNext]_logVars
  BY DEF BoardNext, boardVars, Moves
<1>3. [BoardNext]_boardVars => [FilesNext]_filesVars
  BY DEF BoardNext, boardVars, Moves
<1>4. [BoardNext]_boardVars => [ButtonsNext]_buttonVars
  BY DEF BoardNext, boardVars, Moves
<1>5. [BoardNext]_boardVars => [StateNext]_stateVars
  BY DEF BoardNext, boardVars, Moves
<1>6. [BoardNext]_boardVars => [NavNext]_navVars
  BY DEF BoardNext, boardVars, Moves
<1>7. [BoardNext]_boardVars => [BatteryNext]_batteryVars
  BY DEF BoardNext, boardVars, Moves
<1>8. [BoardNext]_boardVars => [DownloadNext]_downloadVars
  BY DEF BoardNext, boardVars, Moves
<1>9. [BoardNext]_boardVars => [ScheduleNext]_scheduleVars
  BY DEF BoardNext, boardVars, Moves
<1>. QED
  BY <1>1, <1>2, <1>3, <1>4, <1>5, <1>6, <1>7, <1>8, <1>9, PTL
     DEF BoardSpec, LogSpec, FilesSpec, ButtonsSpec, StateSpec, NavSpec, BatterySpec, DownloadSpec, ScheduleSpec

(* So the board has everything its runs check, over any sequence of        *)
(* starts, crashes, saves, presses, polls and downloads.                   *)
THEOREM BoardIsSafe ==
  BoardSpec => /\ []CrashReportIsGenuine /\ []LabelsTellTheTruth /\ []RecentAreTheLast
               /\ []PercentageIsRecent /\ []DownloadIsWholeOrGone
               /\ []SleepFollowsFailures /\ []GhostingIsCleared
               /\ ValueIsKept /\ EveryPressIsAStep
<1>. QED
  BY PartsAreAsSpecified, CrashReportIsAlwaysGenuine, LabelsAreTrue, RecentAreAlwaysTheLast,
     PercentageIsAlwaysRecent, DownloadsAreWholeOrGone, SleepAlwaysFollowsFailures,
     GhostingIsAlwaysCleared, FilesKeepTheirValue, EveryPressIsAlwaysAStep
=============================================================================
