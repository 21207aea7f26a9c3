\* One CR through creation, deletion and re-creation with its agents; one crash or fault anywhere.
CONSTANTS
  Half = 16
  CRs <- OneCR
  Agents <- TwoAgents
  Specs <- OneSpec
  QueueLengths <- EmptyQueues
  UserScales = {}
  SecretStates <- GoodSecret
  PodStates = {}
  Listing = {"ok", "error"}
  Progressing <- OneCR
  MaxUid = 2
  MaxEdits = 6
  MaxFaults = 1
SPECIFICATION Spec
INVARIANTS TypeOK WorkloadsGuarded NeverForgotten
PROPERTIES NoResurrection StatusStaysWithIncarnation NoAgentSurvivesCleanup ImplementsLifecycle
CHECK_DEADLOCK FALSE
