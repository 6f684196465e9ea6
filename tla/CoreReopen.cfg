\* A rejection races with the last signature
SPECIFICATION FairSpec
CONSTANTS
  Account <- MCAccount
  IMSource <- MCIMSource
  LoginRole <- MCLoginRole
  Action <- MCAction
  ActionType <- MCActionType
  Autonomy <- MCAutonomy
  Playbooks <- SinglePlaybooks
  Request <- MCRequest3
  Votes <- OneEachVotes
  Outcomes = {"success"}
  AnalysisMayFail = FALSE
  ExecutorMayRaise = FALSE
  MaxCrashes = 0
  Trigger = Trigger
  NoPack = NoPack
  NoVote = NoVote
  r1 = r1
  r2 = r2
  r3 = r3
  r4 = r4
PROPERTIES
  ClosedStaysClosed
\* a case whose workflow has ended has no next step
CHECK_DEADLOCK FALSE
