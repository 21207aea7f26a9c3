\* Two CRs with pools of their own, one worker and one shared client field.  Neither name
\* is a prefix of the other; an agent of one of them comes and goes.
CONSTANTS
  Half = 16
  CRs <- TwoCRs
  Agents <- AgentOfWeb
  Specs <- OneSpec
  QueueLengths <- OwnQueues
  UserScales = {}
  SecretStates <- GoodSecret
  PodStates = {}
  Listing = {"ok"}
  Progressing <- NoCRs
  MaxUid = 1
  MaxEdits = 4
  MaxFaults = 0
SPECIFICATION Spec
INVARIANTS OwnQueueOnly NeverForgotten
PROPERTY CleansUpOwnAgentsOnly
CHECK_DEADLOCK FALSE
