------------------------------ MODULE Lifecycle ------------------------------
(***************************************************************************)
(* What a user may rely on: the life of a custom resource, its workloads   *)
(* and its agents, with nothing of how the operator brings it about.       *)
(*                                                                         *)
(* A CR is absent, open (it exists and may vanish at once), guarded (its   *)
(* finalizer is stored) or deleting.  A workload comes into being only     *)
(* for the incarnation that is there, and only under its guard.  A guarded *)
(* CR goes only through a listing of the pool, after which every agent of  *)
(* its own that was listed has left.                                       *)
(***************************************************************************)
EXTENDS Naturals

CONSTANTS CRs, Agents, Kinds,
          None,       \* not a CR
          Owner(_)    \* the CR an agent is named after

VARIABLES
  phase,      \* of each CR: "absent", "open", "guarded" or "deleting"
  uid,        \* the number of incarnations each CR has had
  work,       \* for each CR and kind of workload the incarnation it belongs to, as a set
  pool,       \* the agents registered in Azure DevOps
  listed,     \* the CR for whose deletion the pool has been listed, or None
  standing    \* the agents of that listing that have been registered ever since

object == <<phase, uid>>
listing == <<listed, standing>>
vars == <<object, work, pool, listing>>

Init ==
  /\ phase = [c \in CRs |-> "absent"] /\ uid = [c \in CRs |-> 0]
  /\ work = [c \in CRs |-> [k \in Kinds |-> {}]]
  /\ pool = {}
  /\ listed = None /\ standing = {}

Becomes(c, from, to) ==
  /\ phase[c] \in from
  /\ phase' = [phase EXCEPT ![c] = to]

Create(c) ==
  /\ Becomes(c, {"absent"}, "open")
  /\ uid' = [uid EXCEPT ![c] = @ + 1]
  /\ UNCHANGED <<work, pool, listing>>

Vanish(c) == Becomes(c, {"open"}, "absent") /\ UNCHANGED <<uid, work, pool, listing>>
Guard(c) == Becomes(c, {"open"}, "guarded") /\ UNCHANGED <<uid, work, pool, listing>>
Delete(c) == Becomes(c, {"guarded"}, "deleting") /\ UNCHANGED <<uid, work, pool, listing>>

\* The listing is given up, or has served its purpose.
Forget == listed' = None /\ standing' = {}

List(c) ==
  /\ phase[c] = "deleting"
  /\ listed' = c /\ standing' = pool
  /\ UNCHANGED <<object, work, pool>>

Abandon == Forget /\ UNCHANGED <<object, work, pool>>

Release(c) ==
  /\ listed = c /\ \A a \in standing : Owner(a) # c
  /\ Becomes(c, {"deleting"}, "absent")
  /\ Forget
  /\ UNCHANGED <<uid, work, pool>>

\* Mutant: the finalizer is not waited for.
ApplyUnguarded(c, k) ==
  /\ phase[c] # "absent" /\ work[c][k] = {}
  /\ work' = [work EXCEPT ![c][k] = {uid[c]}]
  /\ UNCHANGED <<object, pool, listing>>

Apply(c, k) ==
  /\ phase[c] \in {"guarded", "deleting"} /\ work[c][k] = {}
  /\ work' = [work EXCEPT ![c][k] = {uid[c]}]
  /\ UNCHANGED <<object, pool, listing>>

Collect(c, k) ==
  /\ phase[c] = "absent" \/ uid[c] \notin work[c][k]
  /\ work' = [work EXCEPT ![c][k] = {}]
  /\ UNCHANGED <<object, pool, listing>>

\* An agent of a CR's pods: these may outlive their workload, and the CR too.
Register(a) ==
  /\ Owner(a) \in CRs
  /\ pool' = pool \cup {a}
  /\ UNCHANGED <<object, work, listing>>

\* An agent leaves by itself or is deleted, after which the answer may be lost.
Leave(a) ==
  /\ pool' = pool \ {a}
  /\ \/ listed' = listed /\ standing' = standing \ {a}
     \/ Forget
  /\ UNCHANGED <<object, work>>

Next ==
  \/ \E c \in CRs : \/ Create(c) \/ Vanish(c) \/ Guard(c) \/ Delete(c)
                    \/ List(c) \/ Release(c)
                    \/ \E k \in Kinds : Apply(c, k) \/ Collect(c, k)
  \/ Abandon
  \/ \E a \in Agents : Register(a) \/ Leave(a)

Spec == Init /\ [][Next]_vars
-----------------------------------------------------------------------------

\* A CR that may vanish at once, without a cleanup, has no workload of its own: what
\* an earlier incarnation of its name left behind is not taken for one.
OpenHasNoWork ==
  \A c \in CRs, k \in Kinds : uid[c] \in work[c][k] => phase[c] # "open"
=============================================================================
