--------------------------- MODULE MCScalingProofs ---------------------------
(***************************************************************************)
(* The theorems of ScalingProofs for the behaviours of MCScaling: what TLC *)
(* checks there for one width of int32 and a few bounds, for every width,  *)
(* every set of bounds and every length of the queue.                      *)
(***************************************************************************)
EXTENDS MCScaling, ScalingProofs

ScalingType == queueLength \in Nat /\ spec \in [min : Int, max : Int]

\* The queue length is natural and the bounds are integers in every reachable
\* state.
LEMMA ScalingTypeInvariant == Spec => []ScalingType
<1>1. Init => ScalingType
  <2> SUFFICES ASSUME Init PROVE ScalingType
    OBVIOUS
  <2>1. queueLength = 0 /\ spec \in [min : Int, max : Int]
    BY MCScalingAssumption DEF Init
  <2>. QED BY <2>1 DEF ScalingType
<1>2. ScalingType /\ [Next]_vars => ScalingType'
  <2> SUFFICES ASSUME ScalingType, [Next]_vars PROVE ScalingType'
    OBVIOUS
  <2>1. CASE JobQueued
    BY <2>1 DEF ScalingType, JobQueued
  <2>2. CASE JobAssigned
    BY <2>2 DEF ScalingType, JobAssigned
  <2>3. CASE EditBounds
    BY <2>3, MCScalingAssumption DEF ScalingType, EditBounds
  <2>4. CASE UNCHANGED vars
    BY <2>4 DEF ScalingType, vars
  <2>. QED BY <2>1, <2>2, <2>3, <2>4 DEF Next
<1>. QED BY <1>1, <1>2, PTL DEF Spec

\* In every state of MCScaling, whatever the width of int32 and the bounds, the replica count is
\* within the effective bounds and at least one.
THEOREM ScalingWithinBounds == Spec => []WithinBounds
<1>1. ScalingType => WithinBounds
  <2> SUFFICES ASSUME ScalingType PROVE WithinBounds
    OBVIOUS
  <2>1. replicas \in Low(spec) .. High(spec)
    BY ReplicasWithinBounds DEF ScalingType, replicas
  <2>. QED
    BY <2>1, BoundsInOrder
    DEF ScalingType, WithinBounds, Low, High, minReplicas, maxReplicas, defaultMin,
        defaultMax
<1>. QED BY <1>1, ScalingTypeInvariant, PTL

\* In every state of MCScaling, whatever the width of int32, determineDesiredReplicas
\* computes the reference.
THEOREM ScalingMatchesReference == Spec => []MatchesReference
<1>1. ScalingType => MatchesReference
  BY ReplicasLeastSufficient DEF ScalingType, MatchesReference, replicas
<1>. QED BY <1>1, ScalingTypeInvariant, PTL

\* One job more calls for at most one replica more.
LEMMA OneJobOneReplica ==
  ASSUME NEW q \in Nat, NEW s, s.min \in Int, s.max \in Int, Representable(q + 1)
  PROVE  DetermineDesiredReplicas(q + 1, s)
           \in {DetermineDesiredReplicas(q, s), DetermineDesiredReplicas(q, s) + 1}
<1> DEFINE m == DetermineDesiredReplicas(q, s)
           n == DetermineDesiredReplicas(q + 1, s)
<1>1. Representable(q)
  BY HalfAssumption DEF Representable, jobsPerReplica
<1>2. IsLeastSufficient(m, q, s) /\ IsLeastSufficient(n, q + 1, s)
  <2>1. q + 1 \in Nat
    OBVIOUS
  <2>. QED BY <1>1, <2>1, ReplicasLeastSufficient
<1>3. m <= n
  <2>1. q + 1 \in Nat /\ q <= q + 1
    OBVIOUS
  <2>. QED BY <2>1, ReplicasMonotone
<1> HIDE DEF m, n
<1>4. /\ Low(s) \in Nat /\ High(s) \in Nat
      /\ m \in Low(s) .. High(s) /\ n \in Low(s) .. High(s)
  BY <1>2, BoundsInOrder DEF IsLeastSufficient
<1>5. n <= m + 1
  <2> SUFFICES ASSUME m + 1 < n PROVE FALSE
    BY <1>4
  <2>1. m + 1 \in Low(s) .. High(s)
    BY <1>4
  <2>2. ~Sufficient(m + 1, q + 1)
    BY <1>2, <2>1 DEF IsLeastSufficient
  <2>3. Sufficient(m, q)
    BY <1>2, <1>4 DEF IsLeastSufficient
  <2>. QED BY <1>4, <2>2, <2>3 DEF Sufficient, jobsPerReplica
<1>6. n \in {m, m + 1}
  BY <1>3, <1>4, <1>5
<1>. QED BY <1>6 DEF m, n

\* In every behaviour, whatever the width of int32 and the bounds, one job more or
\* less moves the replica count by at most one, and in the right direction.
THEOREM ScalingIsSmooth == Spec => SmoothScaling
<1>1. ASSUME ScalingType, Next, spec' = spec,
             Representable(queueLength), Representable(queueLength')
      PROVE  IF queueLength' >= queueLength
             THEN replicas' \in {replicas, replicas + 1}
             ELSE replicas' \in {replicas, replicas - 1}
  <2>1. queueLength \in Nat /\ spec.min \in Int /\ spec.max \in Int
    BY <1>1 DEF ScalingType
  <2>2. CASE JobQueued
    <3>1. queueLength' = queueLength + 1
      BY <2>2 DEF JobQueued
    <3>2. replicas' \in {replicas, replicas + 1}
      BY <1>1, <2>1, <3>1, OneJobOneReplica DEF replicas
    <3>. QED BY <2>1, <3>1, <3>2
  <2>3. CASE JobAssigned
    <3>1. queueLength' \in Nat /\ queueLength = queueLength' + 1
      BY <2>1, <2>3 DEF JobAssigned
    <3>2. replicas \in {replicas', replicas' + 1}
      BY <1>1, <2>1, <3>1, OneJobOneReplica DEF replicas
    <3>3. replicas' \in Int
      <4>1. replicas' \in Low(spec) .. High(spec)
        BY <1>1, <2>1, <3>1, ReplicasWithinBounds DEF replicas
      <4>. QED BY <2>1, <4>1, BoundsInOrder
    <3>4. replicas' = replicas \/ replicas' = replicas - 1
      <4>1. ASSUME NEW m \in Int, NEW n, n \in {m, m + 1} PROVE m = n \/ m = n - 1
        BY <4>1
      <4>. QED BY <3>2, <3>3, <4>1
    <3>5. ~(queueLength' >= queueLength)
      BY <2>1, <2>3 DEF JobAssigned
    <3>. QED BY <3>4, <3>5
  <2>4. CASE EditBounds
    <3>1. queueLength' = queueLength /\ replicas' = replicas
      BY <1>1, <2>4 DEF EditBounds, replicas
    <3>. QED BY <2>1, <3>1
  <2>. QED BY <1>1, <2>2, <2>3, <2>4 DEF Next
<1>. QED BY <1>1, ScalingTypeInvariant, PTL DEF Spec, SmoothScaling
=============================================================================
