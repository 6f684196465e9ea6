\* Every combination of answers, failures, LLM outputs and playbooks of one case
SPECIFICATION Spec
CONSTANTS
  Ioc <- MCIoc
  IocType <- MCIocType
  KnownBad <- MCKnownBad
  Provider <- MCProvider
  FallbackToMock = TRUE
  Alerts <- MCAlerts
  Criticality <- MCCriticality
  Playbooks <- MCPlaybooks
  Outputs <- MCOutputs
  LLMFallback = TRUE
  EmbeddingMayFail = TRUE
INVARIANTS
  TypeOK
  FailuresHideNothing
  EvidencePrecedesContainment
PROPERTIES
  VerdictsAreBacked
\* the run ends
CHECK_DEADLOCK FALSE
