\* A page that loads and a tab that holds a connection watch a case being signed and executed
SPECIFICATION LiveFairSpec
CONSTANTS
  Account <- MCAccount
  IMSource = {"feishu"}
  LoginRole <- MCLoginRole
  Action <- MCAction
  ActionType <- MCActionType
  Autonomy <- MCAutonomy
  Playbooks <- MCPlaybooks
  Request <- MCRequest
  Votes <- MCVotes
  Outcomes = {"success"}
  AnalysisMayFail = FALSE
  ExecutorMayRaise = TRUE
  MaxCrashes = 0
  Trigger = Trigger
  NoPack = NoPack
  NoVote = NoVote
  r1 = r1
  r2 = r2
  Client <- MCClient
  ViewerOf <- MCViewerOf
  Screens <- MCScreens
  Limit = 1
  MaxNewer = 1
  MaxFailures = 1
  MaxAnswers = 2
  MaxRequests = 1
CONSTRAINTS
  OneDisturbance
INVARIANTS
  ConsoleTypeOK
  OfferedCanBeSigned
PROPERTIES
  WaitingIsOffered
  ClosureIsShown
  SignedLeadsToSealed
CHECK_DEADLOCK FALSE
