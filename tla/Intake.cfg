\* Poll and webhook bring one incident, approved or rejected; or scans run beside the poll
SPECIFICATION FairSpec
CONSTANTS
  Alert <- MCAlert
  Key <- MCKey
  KeyOf <- MCKeyOf
  NoKey = NoKey
  Matched <- MCMatched
  Feed <- MCFeed
  AlertsOf <- MCAlertsOf
  Scan <- MCScan
  Request <- MCRequest
  About <- MCAbout
  r1 = r1
  r2 = r2
  Window = 0
  MaxClock = 1
  MaxCrashes = 1
CONSTRAINT OneScene
INVARIANTS
  TypeOK
  AlertsAccounted
  StormOpensOneCase
  EveryCaseIsDispatched
  RunsTellTheTruth
PROPERTIES
  IntakeCompletes
\* every feed ends
CHECK_DEADLOCK FALSE
