\* Two writers and the retention job on either database
SPECIFICATION Spec
CONSTANTS
  Writer <- MCWriters2
  Scheduler = Scheduler
  Dialects = {"sqlite", "postgresql"}
  Retention = 1
  MaxRecords = 4
  MaxClock = 3
  w1 = w1
  w2 = w2
  w3 = w3
SYMMETRY Symmetry
INVARIANTS
  TypeOK
  SerialChainVerifies
  RecordsKept
PROPERTIES
  PurgeRepairs
  BreakStaysVisible
\* the number of records is bounded
CHECK_DEADLOCK FALSE
