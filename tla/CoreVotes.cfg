\* Votes race on every shape of playbook, with failing steps and a crash
SPECIFICATION Spec
CONSTANTS
  Account <- MCAccount
  IMSource <- MCIMSource
  LoginRole <- MCLoginRole
  Action <- MCAction
  ActionType <- MCActionType
  Autonomy <- MCAutonomy
  Playbooks <- VotesPlaybooks
  Request <- MCRequest4
  Votes <- VotesVotes
  Outcomes = {"success", "failed"}
  AnalysisMayFail = TRUE
  ExecutorMayRaise = TRUE
  MaxCrashes = 1
  Trigger = Trigger
  NoPack = NoPack
  NoVote = NoVote
  r1 = r1
  r2 = r2
  r3 = r3
  r4 = r4
CONSTRAINT TwoActionsOneRun
INVARIANTS
  TypeOK
  ExecutedWasSigned
  SoleRunIsAccounted
  NoLostApproval
  ManyEyes
  ContainedWasSigned
PROPERTIES
  RejectionIsFinal
\* a case whose workflow has ended has no next step
CHECK_DEADLOCK FALSE
