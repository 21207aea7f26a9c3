CONSTANTS
  Deadline = 60
  RequestTimeout = 20
  BaseDelay = 2
  MaxRetries = 3
  RetryAfter <- RetryAfters
  Starts = {1, 50}
  Plans <- AllPlans
  PoolIDs = {1, 2}
SPECIFICATION FairSpec
INVARIANTS TypeOK OnePool TimeToReport
PROPERTIES ImplementsRemoteCall CallsAdvance
CHECK_DEADLOCK FALSE
