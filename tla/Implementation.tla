---------------------------- MODULE Implementation ----------------------------
(***************************************************************************)
(* The operator implements the life of its custom resources: the mapping   *)
(* from the state of Reconciler to that of Lifecycle.                      *)
(***************************************************************************)
EXTENDS Reconciler

\* A CR counts as guarded from the moment its finalizer is stored.
Phase(cr) == IF ~cr.exists THEN "absent"
             ELSE IF cr.deleting THEN "deleting"
             ELSE IF cr.finalizer THEN "guarded"
             ELSE "open"

phaseBar == [c \in CRs |-> Phase(api[c])]
uidBar == [c \in CRs |-> api[c].uid]
workBar == [c \in CRs |-> [k \in Kinds |-> IF wl[c][k].exists THEN {wl[c][k].uid} ELSE {}]]

\* The agents that are registered, disabled ones included.
poolBar == {a \in Agents : agents[a] # "absent"}

\* The worker is between a listing and the Update without the finalizer, and its
\* copy of the CR is still current: only then can the CR go.
Releasing == w.pc = "purge" /\ w.why = "finalizer" /\ fresh
listedBar == IF Releasing THEN w.req ELSE None
standingBar == IF Releasing THEN standing ELSE {}

L == INSTANCE Lifecycle WITH
       phase <- phaseBar, uid <- uidBar, work <- workBar, pool <- poolBar,
       listed <- listedBar, standing <- standingBar

\* Whatever caches show and wherever calls fail or the process dies, what users
\* see is the life of a CR: workloads and agents under the guard of its
\* finalizer, and a guarded CR goes only once its listed agents have left.
ImplementsLifecycle == L!Spec
=============================================================================
