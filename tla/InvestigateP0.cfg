\* A critical incident with an automatic critical action
SPECIFICATION Spec
CONSTANTS
  Ioc <- MCIoc
  IocType <- MCIocType
  KnownBad <- MCKnownBad
  Provider <- MCProvider
  FallbackToMock = TRUE
  Alerts <- MCAlerts
  Criticality <- MCCriticality
  Playbooks <- MCPlaybooks
  Outputs <- MCOutputs
  LLMFallback = TRUE
  EmbeddingMayFail = FALSE
INVARIANTS
  P0NeedsSignatures
\* the run ends
CHECK_DEADLOCK FALSE
