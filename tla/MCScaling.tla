------------------------------ MODULE MCScaling ------------------------------
(***************************************************************************)
(* The input of determineDesiredReplicas as it moves: a job joins or       *)
(* leaves the queue one at a time, and the user edits the bounds.  Bounds  *)
(* are the values a user may write and MaxQueue the longest queue; both    *)
(* are parameters, so that what is proved holds for all of them.           *)
(***************************************************************************)
EXTENDS Scaling

CONSTANTS Bounds, MaxQueue

ASSUME MCScalingAssumption == Bounds \subseteq Int /\ MaxQueue \in Nat

\* TLC's values of Bounds: -1 and 0 stand for "not positive", and 12 lies above the
\* default maximum of 10.
SomeBounds == {-1, 0, 1, 2, 3, 7, 12}

VARIABLES queueLength, spec

vars == <<queueLength, spec>>

Init == /\ queueLength = 0
        /\ spec \in [min : Bounds, max : Bounds]

JobQueued == /\ queueLength < MaxQueue
             /\ queueLength' = queueLength + 1
             /\ UNCHANGED spec

JobAssigned == /\ queueLength > 0
               /\ queueLength' = queueLength - 1
               /\ UNCHANGED spec

EditBounds == /\ spec' \in [min : Bounds, max : Bounds]
              /\ UNCHANGED queueLength

Next == JobQueued \/ JobAssigned \/ EditBounds

Spec == Init /\ [][Next]_vars

replicas == DetermineDesiredReplicas(queueLength, spec)

\* Whatever the user wrote in minReplicas and maxReplicas (absent, negative, in
\* the wrong order) and whatever the int32 conversion of the queue length gives,
\* determineDesiredReplicas stays within the two effective bounds and runs at
\* least one agent.
WithinBounds ==
  /\ replicas >= 1
  /\ \E n \in {minReplicas(spec), maxReplicas(spec)} : n <= replicas
  /\ \E n \in {minReplicas(spec), maxReplicas(spec)} : replicas <= n

\* determineDesiredReplicas is the least sufficient number of replicas: rounding,
\* clamping, defaults and the early return for an empty queue together compute
\* what the reference defines.
MatchesReference ==
  Representable(queueLength) => IsLeastSufficient(replicas, queueLength, spec)

\* One job more never removes an agent and one job less never adds one, and
\* neither moves the count by more than one: scaling has no jumps at the
\* boundaries of the rounding or of the clamp.
SmoothScaling ==
  [][(spec' = spec /\ Representable(queueLength) /\ Representable(queueLength'))
       => IF queueLength' >= queueLength
          THEN replicas' \in {replicas, replicas + 1}
          ELSE replicas' \in {replicas, replicas - 1}]_vars
=============================================================================
