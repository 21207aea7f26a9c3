\* Scaling converges: spec and queue change, a user scales by hand, one crash or fault.
CONSTANTS
  Half = 16
  CRs <- OneCR
  Agents <- NoAgents
  Specs <- DeploymentSpecs
  QueueLengths <- ShortQueues
  UserScales = {3}
  SecretStates <- GoodSecret
  PodStates = {}
  Listing = {"ok"}
  Progressing <- NoCRs
  MaxUid = 2
  MaxEdits = 3
  MaxFaults = 1
SPECIFICATION FairSpec
PROPERTIES Converges StaysSettled
CHECK_DEADLOCK FALSE
