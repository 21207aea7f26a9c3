CONSTANTS
  Half = 16
  \* The conversion wraps at jobsPerReplica * (Half - 1) + 1 = 76 jobs and comes
  \* back to small counts at 151.
  MaxQueue = 160
  Bounds <- SomeBounds
SPECIFICATION Spec
INVARIANTS WithinBounds MatchesReference
PROPERTY SmoothScaling
