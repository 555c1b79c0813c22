CONSTANTS
  s1 = s1
  s2 = s2
  delete = delete
  r1 = r1
  NoAlarm = NoAlarm
  QuicAlarms <- MCQuicAlarms
  RecurringAlarms <- MCRecurringAlarms
  DeleteAlarm = delete
  timeout_in_us = 3
  UsPerMs = 2
  MaxTime = 4
SYMMETRY Symmetry
SPECIFICATION SessionSpec
INVARIANTS
  SessionTypeOK
  RecordsOutliveServer
  IteratorStaysValid
  DueAlarmsAreRun
  FreedAlarmsAreForgotten
  ClosedSessionsAreDeleted
PROPERTIES
  RecurringRunOncePerLoop
  SleepsUntilFirstAlarm
  ImplementsAlarmService
\* The server may be destroyed.
CHECK_DEADLOCK FALSE
