\* The agents' pods through failed starts, kills, outages and the operator's cleanup.
CONSTANTS
  CRs <- OneCR
  Agents = {"x1"}
  Kinds <- BothKinds
  None = "none"
  Owner <- OwnerIsCI
  WithDind <- OneCR
  MaxUid = 2
  MaxMishaps = 3
SPECIFICATION FairPodSpec
INVARIANTS PodTypeOK OpenHasNoWork
PROPERTIES GracefulAgentsLeave JobPodsEnd AgentsReturn
CHECK_DEADLOCK FALSE
