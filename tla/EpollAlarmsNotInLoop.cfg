CONSTANTS
  q1 = q1
  q2 = q2
  r1 = r1
  NoAlarm = NoAlarm
  QuicAlarms <- MCQuicAlarms
  RecurringAlarms <- MCRecurringAlarms
  timeout_in_us = 3
  UsPerMs = 2
  MaxTime = 3
SPECIFICATION Spec
PROPERTIES
  NotRegisteredInThisLoop
