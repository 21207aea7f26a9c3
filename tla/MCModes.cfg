\* All modes of one CR; users edit the spec and lose the secret; one crash or fault anywhere.
CONSTANTS
  Half = 16
  CRs <- OneCR
  Agents <- NoAgents
  Specs <- AllSpecs
  QueueLengths <- EmptyQueues
  UserScales = {}
  SecretStates <- SecretsThatChange
  PodStates = {}
  Listing = {"ok"}
  Progressing <- NoCRs
  MaxUid = 2
  MaxEdits = 3
  MaxFaults = 1
SPECIFICATION Spec
INVARIANTS WorkloadsGuarded NeverForgotten
PROPERTIES NoResurrection UsersDecide FinishedJobStays
CHECK_DEADLOCK FALSE
