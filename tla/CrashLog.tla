------------------------------ MODULE CrashLog ------------------------------
(***************************************************************************)
(* The log ring and the crash report (lib/Logging/Logging.cpp,             *)
(* lib/hal/HalSystem.cpp).                                                 *)
(*                                                                         *)
(* The ring lives in RTC memory that no boot initializes: it survives a    *)
(* reset and is garbage when the power was off.  Messages are numbered in  *)
(* the order in which they are put; two tasks log without a lock.          *)
(***************************************************************************)
EXTENDS Naturals, FiniteSets

CONSTANTS
  MaxLogLines,   \* MAX_LOG_LINES
  MaxLogged,     \* bound on the messages of a behaviour
  Loggers,       \* the tasks that log
  MainTask       \* the one that runs setup() and, before it, the static constructors

ASSUME LogAssumption ==
  /\ MaxLogLines \in Nat \ {0} /\ MaxLogged \in Nat
  /\ MainTask \in Loggers

VARIABLES
  logMessages, logHead, rtcLogMagic,   \* the RTC memory
  boot,      \* "off", "static", "begun" (HalSystem::begin()) or "up" (checkPanic())
  panicked,  \* isRebootFromPanic(): the reset reason
  putting,   \* the tasks that have put a message and not moved the head yet
  logged,    \* history: the messages put so far, in all
  cleared,   \* history: how many of them were put before the memory was garbage or the
             \*   device started without a panic, which is when the ring may be cleared
  alone,     \* history: since then no call was cut off or ran beside another
  report     \* crash_report.txt, with the history at the time; NoReport at first

ringVars == <<logMessages, logHead, rtcLogMagic>>
logVars == <<ringVars, boot, panicked, putting, logged, cleared, alone, report>>

Slots == 0 .. MaxLogLines - 1
NoMessage == 0
Garbage == MaxLogged + 1
Positions == 1 .. MaxLogLines
NoLines == [i \in Positions |-> NoMessage]
NoReport == [lines |-> NoLines, first |-> 1, last |-> 0, alone |-> TRUE]

-----------------------------------------------------------------------------
BlankRing == [s \in Slots |-> NoMessage]

HasLost == ~ rtcLogMagic \/ logHead \notin Slots

(* addToLogRingBuffer() to its strncpy: a ring that is not one is cleared  *)
(* first.                                                                  *)
PutMessage(t) ==
  /\ boot # "off" /\ logged < MaxLogged /\ t \notin putting
  /\ boot # "up" => t = MainTask
  /\ LET ring == IF HasLost THEN BlankRing ELSE logMessages
         head == IF HasLost THEN 0 ELSE logHead
     IN  /\ logMessages' = [ring EXCEPT ![head] = logged + 1]
         /\ logHead' = head
  /\ rtcLogMagic' = TRUE
  /\ cleared' = IF rtcLogMagic THEN cleared ELSE logged
  /\ alone' = (IF rtcLogMagic THEN alone /\ putting = {} ELSE TRUE)
  /\ logged' = logged + 1
  /\ putting' = putting \cup {t}
  /\ UNCHANGED <<boot, panicked, report>>

\* A slip to test against: the head does not come round.
Slip_NextHead(head) == head + 1

NextHead(head) == (head + 1) % MaxLogLines

(* The last line of addToLogRingBuffer().                                  *)
MoveHead(t) ==
  /\ t \in putting
  /\ logHead' = NextHead(logHead)
  /\ putting' = putting \ {t}
  /\ UNCHANGED <<logMessages, rtcLogMagic, boot, panicked, logged, cleared, alone, report>>

(* getLastLogs(): from the head on; a blank slot adds nothing.             *)
Slot(i) == (logHead + i - 1) % MaxLogLines
GetLastLogs == IF rtcLogMagic THEN [i \in Positions |-> logMessages[Slot(i)]] ELSE NoLines

(* clearLastLogs().                                                        *)
ClearLastLogs == logMessages' = BlankRing /\ logHead' = 0 /\ rtcLogMagic' = TRUE

(* HalSystem::begin(): after a panic the ring is kept, unless              *)
(* sanitizeLogHead() finds that it is not one.                             *)
HalSystemBegin ==
  /\ boot = "static" /\ putting = {}
  /\ boot' = "begun"
  /\ IF panicked /\ ~ HasLost THEN UNCHANGED ringVars ELSE ClearLastLogs
  /\ IF panicked /\ rtcLogMagic THEN UNCHANGED <<cleared, alone>> ELSE cleared' = logged /\ alone' = TRUE
  /\ UNCHANGED <<panicked, putting, logged, report>>

(* checkPanic(): the report is written, if the card lets it be; what is    *)
(* reported stays in the ring.                                             *)
CheckPanic ==
  /\ boot = "begun" /\ putting = {}
  /\ boot' = "up"
  /\ \/ panicked /\ report' = [lines |-> GetLastLogs, first |-> cleared + 1, last |-> logged, alone |-> alone]
     \/ UNCHANGED report
  /\ UNCHANGED <<ringVars, panicked, putting, logged, cleared, alone>>

-----------------------------------------------------------------------------
(* A reset, from a panic or any other way, in the middle of anything.      *)
Reset(panic) ==
  /\ boot # "off"
  /\ boot' = "static" /\ panicked' = panic
  /\ putting' = {} /\ alone' = (alone /\ putting = {})
  /\ UNCHANGED <<ringVars, logged, cleared, report>>

PowerOff ==
  /\ boot # "off" /\ boot' = "off" /\ putting' = {}
  /\ UNCHANGED <<ringVars, panicked, logged, cleared, alone, report>>

(* With the power the memory comes back as garbage, without the magic and  *)
(* with a head that is in range by chance or not.                          *)
PowerUp ==
  /\ boot = "off" /\ boot' = "static" /\ panicked' = FALSE
  /\ logMessages' = [s \in Slots |-> Garbage]
  /\ logHead' \in {0, MaxLogLines - 1, MaxLogLines}
  /\ rtcLogMagic' = FALSE
  /\ UNCHANGED <<putting, logged, cleared, alone, report>>

LogInit ==
  /\ logMessages = [s \in Slots |-> Garbage] /\ logHead = 0 /\ rtcLogMagic = FALSE
  /\ boot = "off" /\ panicked = FALSE /\ putting = {}
  /\ logged = 0 /\ cleared = 0 /\ alone = TRUE /\ report = NoReport

LogNext ==
  \/ \E t \in Loggers : PutMessage(t) \/ MoveHead(t)
  \/ HalSystemBegin
  \/ CheckPanic
  \/ \E panic \in BOOLEAN : Reset(panic)
  \/ PowerOff
  \/ PowerUp

LogSpec == LogInit /\ [][LogNext]_logVars

-----------------------------------------------------------------------------
LogTypeOK ==
  /\ logMessages \in [Slots -> 0 .. Garbage] /\ logHead \in 0 .. MaxLogLines /\ rtcLogMagic \in BOOLEAN
  /\ boot \in {"off", "static", "begun", "up"} /\ panicked \in BOOLEAN /\ putting \subseteq Loggers
  /\ logged \in 0 .. MaxLogged /\ cleared \in 0 .. logged /\ alone \in BOOLEAN

(* Whatever panics, resets and losses of power come before, between and    *)
(* during the calls that log, a report holds none of the garbage that the  *)
(* memory comes back with and no message from before that or from before a *)
(* start that was no panic; and when no two calls met and none was cut     *)
(* off, it holds the last messages, none missing and in their order        *)
(* (Logging.cpp:19-31, 68-103, HalSystem.cpp:73-102).                      *)
CrashReportIsGenuine ==
  LET Among(m) == m \in report.first .. report.last
  IN  \A i \in Positions :
        /\ report.lines[i] # NoMessage => Among(report.lines[i])
        /\ report.alone => LET m == report.last + i - MaxLogLines
                           IN  report.lines[i] = IF Among(m) THEN m ELSE NoMessage
=============================================================================
