\* The same pods, and what handlePodEvent is said to do for them.
CONSTANTS
  CRs <- OneCR
  Agents = {"x1"}
  Kinds <- BothKinds
  None = "none"
  Owner <- OwnerIsCI
  WithDind <- OneCR
  MaxUid = 1
  MaxMishaps = 0
SPECIFICATION FairPodSpec
PROPERTY AgentsLeaveWithPods
CHECK_DEADLOCK FALSE
