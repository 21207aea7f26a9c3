\* Deletion with the shipped client, whose listing of agents always fails.
CONSTANTS
  Half = 16
  CRs <- OneCR
  Agents <- NoAgents
  Specs <- OneSpec
  QueueLengths <- EmptyQueues
  UserScales = {}
  SecretStates <- GoodSecret
  PodStates = {}
  Listing = {"error"}
  Progressing <- NoCRs
  MaxUid = 1
  MaxEdits = 2
  MaxFaults = 0
SPECIFICATION FairSpec
PROPERTY DeletionCompletes
CHECK_DEADLOCK FALSE
