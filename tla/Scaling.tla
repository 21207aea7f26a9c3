------------------------------- MODULE Scaling -------------------------------
(***************************************************************************)
(* How many agents a custom resource gets: the pure part of                *)
(* internal/app/usecase/reconcile.go.  A spec is a record that has at      *)
(* least the fields min and max (spec.minReplicas and spec.maxReplicas of  *)
(* the custom resource, 0 when the user left them out); a queue length is  *)
(* the number of unassigned jobs of the pool.                              *)
(*                                                                         *)
(* The code computes in Go's 64-bit int and converts to int32.  The        *)
(* conversion is kept, with half the range of int32 as a constant: 2^31 in *)
(* the code, a small number in TLC's instances.                            *)
(***************************************************************************)
EXTENDS Integers

CONSTANT Half

ASSUME HalfAssumption == Half \in Nat /\ Half > 10

Int32 == (-Half) .. (Half - 1)

\* The Go conversion int32(x): the representative of x modulo 2 * Half.
ToInt32(x) == ((x + Half) % (2 * Half)) - Half

jobsPerReplica == 5
defaultMin == 1
defaultMax == 10

(***************************************************************************)
(* The bounds of the CR: a value that is not positive is replaced by its   *)
(* default, and bounds in the wrong order are swapped.                     *)
(***************************************************************************)
minReplicas(spec) == IF spec.min > 0 THEN spec.min ELSE defaultMin
maxReplicas(spec) == IF spec.max > 0 THEN spec.max ELSE defaultMax

Low(spec) ==
  IF minReplicas(spec) > maxReplicas(spec) THEN maxReplicas(spec) ELSE minReplicas(spec)

High(spec) ==
  IF minReplicas(spec) > maxReplicas(spec) THEN minReplicas(spec) ELSE maxReplicas(spec)

Clamp(n, spec) ==
  LET raised == IF n < Low(spec) THEN Low(spec) ELSE n
  IN  IF raised > High(spec) THEN High(spec) ELSE raised

\* Mutant: the rounding is forgotten.
FlooredReplicas(queueLength, spec) ==
  IF queueLength = 0 THEN Low(spec)
  ELSE Clamp(ToInt32(queueLength \div jobsPerReplica), spec)

\* Mutant: the upper bound is forgotten.
UncappedReplicas(queueLength, spec) ==
  LET n == ToInt32((queueLength + jobsPerReplica - 1) \div jobsPerReplica)
  IN  IF n < Low(spec) THEN Low(spec) ELSE n

\* Mutant: an empty queue is handled as "any queue that fits one replica".
IdleAsOneReplica(queueLength, spec) ==
  IF queueLength <= jobsPerReplica THEN 1
  ELSE Clamp(ToInt32((queueLength + jobsPerReplica - 1) \div jobsPerReplica), spec)

(***************************************************************************)
(* determineDesiredReplicas.                                               *)
(***************************************************************************)
DetermineDesiredReplicas(queueLength, spec) ==
  IF queueLength = 0 THEN Low(spec)
  ELSE Clamp(ToInt32((queueLength + jobsPerReplica - 1) \div jobsPerReplica), spec)

(***************************************************************************)
(* calculateRequeueInterval of the use case, in seconds.                   *)
(***************************************************************************)
requeueInterval == 30

CalculateRequeueInterval(queueLength, replicas) ==
  IF queueLength > 0 \/ replicas > 0 THEN requeueInterval ELSE 2 * requeueInterval

-----------------------------------------------------------------------------
(***************************************************************************)
(* The reference: the least number of replicas within the bounds that is   *)
(* enough for the queue at five jobs per replica, the upper bound if no    *)
(* number within the bounds is enough.                                     *)
(***************************************************************************)
Sufficient(n, queueLength) == jobsPerReplica * n >= queueLength

IsLeastSufficient(n, queueLength, spec) ==
  /\ n \in Low(spec) .. High(spec)
  /\ Sufficient(n, queueLength) \/ n = High(spec)
  /\ \A m \in Low(spec) .. High(spec) : m < n => ~Sufficient(m, queueLength)

\* The lengths whose replica count fits an int32: 2^31 * 5 and more waiting
\* jobs would wrap, which no Azure DevOps pool reaches.
Representable(queueLength) == queueLength <= jobsPerReplica * (Half - 1)
=============================================================================
