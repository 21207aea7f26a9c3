\* Deletion completes when agents can be listed, and lets no listed agent stay; the
\* token may come, go and move, and so may a Pod with the name of the CR.
CONSTANTS
  Half = 16
  CRs <- OneCR
  Agents <- OneAgent
  Specs <- OneSpec
  QueueLengths <- EmptyQueues
  UserScales = {}
  SecretStates <- SecretsThatMove
  PodStates = {"running", "finished"}
  Listing = {"ok"}
  Progressing <- NoCRs
  MaxUid = 2
  MaxEdits = 4
  MaxFaults = 1
SPECIFICATION FairSpec
INVARIANT WorkloadsGuarded
PROPERTIES NoAgentSurvivesCleanup DeletionCompletes ReconcileAdvances
CHECK_DEADLOCK FALSE
