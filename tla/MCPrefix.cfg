\* The CR ci is deleted while ci-x has an agent.
CONSTANTS
  Half = 16
  CRs <- PrefixCRs
  Agents <- AgentOfCix
  Specs <- OneSpec
  QueueLengths <- EmptyQueues
  UserScales = {}
  SecretStates <- GoodSecret
  PodStates = {}
  Listing = {"ok"}
  Progressing <- NoCRs
  MaxUid = 1
  MaxEdits = 4
  MaxFaults = 0
SPECIFICATION Spec
PROPERTY CleansUpOwnAgentsOnly
CHECK_DEADLOCK FALSE
