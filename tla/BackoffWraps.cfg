SPECIFICATION ScheduleSpec
CONSTANTS
  StartFailures = {254}
  WakeCounts = {254, 255, 256, 257}
  MaxLost = 1
  Rates = {0}
INVARIANT LongSleepsStayLong
