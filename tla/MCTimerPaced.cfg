\* A CR at rest: what brings a CR back to the queue.
CONSTANTS
  Half = 16
  CRs <- OneCR
  Agents <- NoAgents
  Specs <- OneSpec
  QueueLengths <- EmptyQueues
  UserScales = {}
  SecretStates <- GoodSecret
  PodStates = {}
  Listing = {"ok"}
  Progressing <- NoCRs
  MaxUid = 1
  MaxEdits = 1
  MaxFaults = 0
SPECIFICATION FairSpec
PROPERTY TimerPaced
CHECK_DEADLOCK FALSE
