---------------------------- MODULE BatteryGauge ----------------------------
(***************************************************************************)
(* The battery as HalPowerManager reads it from the gauge of the X3, with  *)
(* a poll window for the voltage and one of its own for the percentage.    *)
(*                                                                         *)
(* The charge is percent, the voltage is told by the percentage its curve  *)
(* gives for it; 0 mV is no reading.  Transactions may fail.               *)
(***************************************************************************)
EXTENDS Integers

CONSTANTS
  PollMs,       \* BATTERY_POLL_MS
  MaxMillis,    \* bound on millis()
  Socs,         \* what the charge register may hold
  Voltages      \* what the voltage register may hold, as percentages

ASSUME BatteryAssumption ==
  PollMs \in Nat \ {0} /\ MaxMillis \in Nat \ {0} /\ Socs \subseteq Nat /\ Voltages \subseteq 1 .. 100

VARIABLES
  millis,
  gauge,         \* what its registers hold: [soc, voltage]
  cachedPercent, cachedVoltage,   \* _batteryCachedPercent, _batteryCachedVoltageMV
  percentPoll, voltagePoll,       \* _batteryPercentLastPollMs, _batteryLastPollMs
  failed,        \* history: the last time a transaction failed, or -1
  past,          \* history: the registers at every time so far
  answer         \* what getBatteryPercentage() returned last, and when

batteryVars == <<millis, gauge, cachedPercent, cachedVoltage, percentPoll, voltagePoll, failed, past, answer>>

NoAnswer == [percent |-> -1, at |-> 0, failed |-> -1]

-----------------------------------------------------------------------------
VoltageIsFresh == voltagePoll # 0 /\ millis - voltagePoll < PollMs /\ cachedVoltage # 0

(* getBatteryVoltageMV(): the value it returns, and whether it stamps its  *)
(* window; a failure leaves both as they were.                             *)
Voltage(works) == IF VoltageIsFresh \/ ~ works THEN cachedVoltage ELSE gauge.voltage

ReadVoltage(works) ==
  /\ cachedVoltage' = Voltage(works)
  /\ voltagePoll' = (IF VoltageIsFresh \/ ~ works THEN voltagePoll ELSE millis)

\* A slip to test against: the window of the voltage is used.
Slip_PercentIsFresh == voltagePoll # 0 /\ millis - voltagePoll < PollMs

PercentIsFresh == percentPoll # 0 /\ millis - percentPoll < PollMs

(* getBatteryPercentage(): a gauge that has not learnt its cell says 0,    *)
(* and the voltage is used.                                                *)
GetBatteryPercentage(socWorks, voltageWorks) ==
  /\ IF PercentIsFresh THEN UNCHANGED <<cachedPercent, cachedVoltage, percentPoll, voltagePoll, failed>>
     ELSE /\ percentPoll' = millis
          /\ failed' = (IF ~ socWorks \/ (gauge.soc = 0 /\ ~ VoltageIsFresh /\ ~ voltageWorks) THEN millis ELSE failed)
          /\ IF ~ socWorks THEN UNCHANGED <<cachedPercent, cachedVoltage, voltagePoll>>
             ELSE IF gauge.soc = 0
                    THEN ReadVoltage(voltageWorks) /\ cachedPercent' = Voltage(voltageWorks)
                    ELSE /\ cachedPercent' = (IF gauge.soc > 100 THEN 100 ELSE gauge.soc)
                         /\ UNCHANGED <<cachedVoltage, voltagePoll>>
  /\ answer' = [percent |-> cachedPercent', at |-> millis, failed |-> failed']
  /\ UNCHANGED <<millis, gauge, past>>

GetBatteryVoltageMV(works) ==
  /\ ReadVoltage(works)
  /\ failed' = (IF ~ VoltageIsFresh /\ ~ works THEN millis ELSE failed)
  /\ UNCHANGED <<millis, gauge, cachedPercent, percentPoll, past, answer>>

(* Time passes, and with it the battery.                                   *)
Wait ==
  /\ millis < MaxMillis /\ millis' = millis + 1
  /\ gauge' \in [soc : Socs, voltage : Voltages]
  /\ past' = [past EXCEPT ![millis'] = gauge']
  /\ UNCHANGED <<cachedPercent, cachedVoltage, percentPoll, voltagePoll, failed, answer>>

BatteryInit ==
  /\ millis = 1 /\ gauge \in [soc : Socs, voltage : Voltages]
  /\ past = [t \in 1 .. MaxMillis |-> gauge]
  /\ cachedPercent = 0 /\ cachedVoltage = 0 /\ percentPoll = 0 /\ voltagePoll = 0
  /\ failed = -1 /\ answer = NoAnswer

BatteryNext ==
  \/ \E socWorks, voltageWorks \in BOOLEAN : GetBatteryPercentage(socWorks, voltageWorks)
  \/ \E works \in BOOLEAN : GetBatteryVoltageMV(works)
  \/ Wait

BatterySpec == BatteryInit /\ [][BatteryNext]_batteryVars

-----------------------------------------------------------------------------
(* The percentage of the gauge at one time, by the voltage at another.     *)
TruePercent(t, u) ==
  IF past[t].soc = 0 THEN past[u].voltage ELSE IF past[t].soc > 100 THEN 100 ELSE past[t].soc

Within(n, t) == {u \in 1 .. t : t - u < n}

(* Where no transaction failed, the percentage is one that the gauge had   *)
(* within the poll window (and a voltage in its stead within two): the     *)
(* zero that the cache starts with is never given out, in whatever order   *)
(* the two are asked for (HalPowerManager.cpp:88-169).                     *)
PercentageIsRecent ==
  answer # NoAnswer /\ answer.failed = -1 =>
    \E t \in Within(PollMs, answer.at) : \E u \in Within(PollMs, t) : answer.percent = TruePercent(t, u)
=============================================================================
