\* Votes, crashes and checkpoint writes race on a thread
SPECIFICATION FairSpec
CONSTANTS
  Account <- MCAccount
  IMSource = {}
  LoginRole <- MCLoginRole
  Action <- MCAction
  ActionType <- MCActionType
  Autonomy <- MCAutonomy
  Playbooks <- MCPlaybooks
  Fresh <- MCFresh
  Request <- MCRequest
  Votes <- MCVotes
  Outcomes = {"success", "executing"}
  AnalysisMayFail = TRUE
  ExecutorMayRaise = TRUE
  MaxCrashes = 1
  MaxResumes = 2
  Trigger = Trigger
  NoPack = NoPack
  NoVote = NoVote
  r1 = r1
  r2 = r2
  r3 = r3
  r4 = r4
CONSTRAINTS
  PolledAlone
  RedrawnBound
INVARIANTS
  TypeOK
  SealedWasSigned
PROPERTIES
  EndedStaysEnded
  SignedThreadEnds
  DualControlled
\* a case whose workflow has ended has no next step
CHECK_DEADLOCK FALSE
