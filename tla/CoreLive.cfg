\* Up to four runs over one log, with pollers: it tells the truth, and an answered case ends
SPECIFICATION FairSpec
CONSTANTS
  Account <- MCAccount
  IMSource <- MCIMSource
  LoginRole <- MCLoginRole
  Action <- MCAction
  ActionType <- MCActionType
  Autonomy <- MCAutonomy
  Playbooks <- PollPlaybooks
  Request <- MCRequest3
  Votes <- VetoedVotes
  Outcomes = {"success", "executing"}
  AnalysisMayFail = FALSE
  ExecutorMayRaise = TRUE
  MaxCrashes = 0
  Trigger = Trigger
  NoPack = NoPack
  NoVote = NoVote
  r1 = r1
  r2 = r2
  r3 = r3
  r4 = r4
INVARIANTS
  NoPhantomSteps
PROPERTIES
  SignedLeadsToSealed
  DualControlled
\* a case whose workflow has ended has no next step
CHECK_DEADLOCK FALSE
