---------------------------- MODULE ScalingProofs ----------------------------
(***************************************************************************)
(* What determineDesiredReplicas computes, for every queue length and for  *)
(* every pair of bounds a user can write, and for the width of int32 as a  *)
(* parameter.                                                              *)
(***************************************************************************)
EXTENDS Scaling, TLAPS

\* The effective bounds are positive and in order, whatever the user wrote.
LEMMA BoundsInOrder ==
  ASSUME NEW s, s.min \in Int, s.max \in Int
  PROVE  /\ Low(s) \in Nat /\ High(s) \in Nat
         /\ 1 <= Low(s) /\ Low(s) <= High(s)
BY DEF Low, High, minReplicas, maxReplicas, defaultMin, defaultMax

\* The conversion to int32 gives an integer, and the number itself when that fits.
LEMMA ToInt32Fits ==
  ASSUME NEW x \in Nat
  PROVE  /\ ToInt32(x) \in Int
         /\ x < Half => ToInt32(x) = x
<1>1. x + Half \in Nat /\ 2 * Half \in Nat /\ 2 * Half > 0
  BY HalfAssumption
<1>2. (x + Half) % (2 * Half) \in Int
  BY <1>1
<1>3. ToInt32(x) \in Int
  BY <1>2, HalfAssumption DEF ToInt32
<1>4. ASSUME x < Half PROVE ToInt32(x) = x
  <2>1. x + Half < 2 * Half
    BY <1>4, HalfAssumption
  <2>2. (x + Half) % (2 * Half) = x + Half
    BY <1>1, <2>1, SMTT(30)
  <2>. QED BY <2>2, HalfAssumption DEF ToInt32
<1>. QED BY <1>3, <1>4

\* determineDesiredReplicas stays within the effective bounds for every queue
\* length, those whose replica count overflows an int32 included.
THEOREM ReplicasWithinBounds ==
  ASSUME NEW q \in Nat, NEW s, s.min \in Int, s.max \in Int
  PROVE  DetermineDesiredReplicas(q, s) \in Low(s) .. High(s)
<1>1. (q + jobsPerReplica - 1) \div jobsPerReplica \in Nat
  BY DEF jobsPerReplica
<1>. QED
  BY <1>1, BoundsInOrder, ToInt32Fits DEF DetermineDesiredReplicas, Clamp

\* determineDesiredReplicas is the least sufficient number of replicas for every
\* queue length whose replica count is representable.
THEOREM ReplicasLeastSufficient ==
  ASSUME NEW q \in Nat, NEW s, s.min \in Int, s.max \in Int, Representable(q)
  PROVE  IsLeastSufficient(DetermineDesiredReplicas(q, s), q, s)
<1> DEFINE n == (q + 4) \div 5
<1>1. n \in Nat /\ 5 * n >= q /\ 5 * n <= q + 4
  OBVIOUS
<1>2. n < Half
  BY <1>1, HalfAssumption DEF Representable, jobsPerReplica
<1>3. (q + jobsPerReplica - 1) \div jobsPerReplica = n
  BY DEF jobsPerReplica
<1>4. ToInt32(n) = n
  BY <1>1, <1>2, ToInt32Fits
<1> HIDE DEF n
<1>5. DetermineDesiredReplicas(q, s) = IF q = 0 THEN Low(s) ELSE Clamp(n, s)
  BY <1>3, <1>4 DEF DetermineDesiredReplicas
<1>6. DetermineDesiredReplicas(q, s) = Clamp(n, s)
  BY <1>1, <1>5, BoundsInOrder DEF Clamp
<1>. QED
  BY <1>1, <1>6, BoundsInOrder DEF Clamp, IsLeastSufficient, Sufficient, jobsPerReplica

\* A longer queue never calls for fewer replicas.
THEOREM ReplicasMonotone ==
  ASSUME NEW q \in Nat, NEW r \in Nat, q <= r, NEW s, s.min \in Int,
         s.max \in Int, Representable(r)
  PROVE  DetermineDesiredReplicas(q, s) <= DetermineDesiredReplicas(r, s)
<1>1. Representable(q)
  BY HalfAssumption DEF Representable, jobsPerReplica
<1> DEFINE m == DetermineDesiredReplicas(q, s)
           n == DetermineDesiredReplicas(r, s)
<1>2. IsLeastSufficient(m, q, s) /\ IsLeastSufficient(n, r, s)
  BY <1>1, ReplicasLeastSufficient
<1> HIDE DEF m, n
<1>3. m \in Int /\ n \in Int /\ n \in Low(s) .. High(s) /\ m <= High(s)
  BY <1>2, BoundsInOrder DEF IsLeastSufficient
<1>4. CASE n = High(s)
  BY <1>3, <1>4 DEF m, n
<1>5. CASE Sufficient(n, r)
  <2>1. Sufficient(n, q)
    BY <1>3, <1>5 DEF Sufficient, jobsPerReplica
  <2>2. ~(n < m)
    BY <1>2, <1>3, <2>1 DEF IsLeastSufficient
  <2>. QED BY <1>3, <2>2 DEF m, n
<1>. QED BY <1>2, <1>4, <1>5 DEF IsLeastSufficient

\* The longer of the two polling intervals is never used: there is always at least
\* one replica.
THEOREM NeverPolledSlowly ==
  ASSUME NEW q \in Nat, NEW s, s.min \in Int, s.max \in Int
  PROVE  CalculateRequeueInterval(q, DetermineDesiredReplicas(q, s)) = requeueInterval
BY ReplicasWithinBounds, BoundsInOrder DEF CalculateRequeueInterval
=============================================================================
