\* Two writers append at the same time, with the row lock of PostgreSQL
SPECIFICATION Spec
CONSTANTS
  Writer <- MCWriters2
  Scheduler = Scheduler
  Dialects = {"postgresql"}
  Retention = 1
  MaxRecords = 4
  MaxClock = 0
  w1 = w1
  w2 = w2
  w3 = w3
INVARIANTS
  LockPreventsForks
CHECK_DEADLOCK FALSE
