\* Two final signatures race: both requests resume the workflow
SPECIFICATION Spec
CONSTANTS
  Account <- MCAccount
  IMSource <- MCIMSource
  LoginRole <- MCLoginRole
  Action <- MCAction
  ActionType <- MCActionType
  Autonomy <- MCAutonomy
  Playbooks <- SinglePlaybooks
  Request <- MCRequest2
  Votes <- KillVotes
  Outcomes = {"success"}
  AnalysisMayFail = FALSE
  ExecutorMayRaise = FALSE
  MaxCrashes = 0
  Trigger = Trigger
  NoPack = NoPack
  NoVote = NoVote
  r1 = r1
  r2 = r2
  r3 = r3
  r4 = r4
SYMMETRY Symmetry
INVARIANTS
  ExecutedAtMostOnce
\* a case whose workflow has ended has no next step
CHECK_DEADLOCK FALSE
