------------------------------ MODULE AgentPod ------------------------------
(***************************************************************************)
(* The pods in which the agents run: the agent container, which executes   *)
(* start.sh under a shell, the sidecar docker-dind-rootless, and what      *)
(* Kubernetes and Azure DevOps do to them.  The operator and its users are *)
(* those of Lifecycle.                                                     *)
(*                                                                         *)
(* pods[a] is the pod whose agent registers as a (its host name):          *)
(*  - at: "none" (not yet there), "starting" (start.sh up to config.sh),   *)
(*    "serving" (run.sh), "removing" (cleanup), "ended" (the container     *)
(*    exited), "killed" (it was killed) or "gone" (there is no pod any     *)
(*    more; its name does not come back).                                  *)
(*  - kind: the kind of its workload, which decides the restart policy.    *)
(*  - done: the file /usr/share/pod/done, in a volume of the pod.          *)
(*  - dind: the sidecar, "off" if the pod has none.                        *)
(*  - dying: the pod has a deletion timestamp.                             *)
(* reachable: whether Azure DevOps answers.  mishaps counts the failures   *)
(* of a container's start, kills and outages.                              *)
(***************************************************************************)
EXTENDS Lifecycle

CONSTANTS WithDind,    \* the CRs with spec.docker = "dind"
          MaxUid,      \* bound: incarnations of one CR
          MaxMishaps   \* bound: failed starts, kills and outages

VARIABLES pods, reachable, mishaps

ASSUME PodAssumption ==
  /\ \A a \in Agents : Owner(a) \in CRs
  /\ MaxUid \in Nat /\ MaxMishaps \in Nat

podvars == <<vars, pods, reachable, mishaps>>

NoPod == [at |-> "none", kind |-> "", done |-> FALSE, dind |-> "off", dying |-> FALSE]
GonePod == [NoPod EXCEPT !.at = "gone"]

PodInit ==
  /\ Init
  /\ pods = [a \in Agents |-> NoPod]
  /\ reachable = TRUE /\ mishaps = 0

Mishap == mishaps < MaxMishaps /\ mishaps' = mishaps + 1

\* Mutant: the restart policy of the Jobs for all.
NeverRestarts(a) == FALSE

\* RestartPolicyAlways for a Deployment, RestartPolicyNever for a Job.
Restarts(a) == pods[a].kind = "Deployment" /\ ~pods[a].dying

\* What becomes of the registrations; an agent that leaves is not one that has been
\* registered ever since the last listing.
Registered(agents) ==
  /\ pool' = agents /\ standing' = standing \cap agents
  /\ UNCHANGED <<object, work, listed>>

\* The agent container goes from one place to another.
Moves(a, from, to, registered) ==
  /\ pods[a].at = from
  /\ pods' = [pods EXCEPT ![a].at = to]
  /\ Registered(registered)
  /\ UNCHANGED reachable

\* The shell ends, and its trap creates the file.
Ends(a, from, registered) ==
  /\ pods[a].at = from
  /\ pods' = [pods EXCEPT ![a].at = "ended", ![a].done = TRUE]
  /\ Registered(registered)
  /\ UNCHANGED reachable

-----------------------------------------------------------------------------
(* start.sh. *)

\* set -e ends it before the traps are set: nothing to clean up.
PrepareFails(a) == Mishap /\ Ends(a, "starting", pool)

\* config.sh --replace.
Configure(a) ==
  /\ reachable /\ Moves(a, "starting", "serving", pool \cup {a})
  /\ UNCHANGED mishaps

\* config.sh fails, before or after it has registered the agent: the EXIT trap.
ConfigureFails(a) ==
  /\ Mishap
  /\ \/ Moves(a, "starting", "removing", pool)
     \/ reachable /\ Moves(a, "starting", "removing", pool \cup {a})

\* run.sh ends: after its one job (--once), or because the agent gives up.
RunEnds(a) == Moves(a, "serving", "removing", pool) /\ UNCHANGED mishaps

\* Mutant: one attempt, whatever comes of it.
RemoveOnce(a) ==
  /\ Ends(a, "removing", IF reachable THEN pool \ {a} ELSE pool)
  /\ UNCHANGED mishaps

\* Mutant: the shell has no trap, and the file is not created.
RemoveSilently(a) ==
  /\ reachable /\ Moves(a, "removing", "ended", pool \ {a})
  /\ UNCHANGED mishaps

\* cleanup repeats config.sh remove every 30 seconds until it succeeds.
Remove(a) ==
  /\ reachable /\ Ends(a, "removing", pool \ {a})
  /\ UNCHANGED mishaps

-----------------------------------------------------------------------------
(* The sidecar. *)

Dind(a, from, to) ==
  /\ pods[a].dind = from
  /\ pods' = [pods EXCEPT ![a].dind = to]
  /\ UNCHANGED <<vars, reachable, mishaps>>

DindExits(a) == pods[a].done /\ Dind(a, "running", "exited")
DindRestarts(a) == Restarts(a) /\ Dind(a, "exited", "running")

-----------------------------------------------------------------------------
(* Kubernetes and Azure DevOps. *)

\* A workload makes pods: a Deployment whenever it likes, a Job again when one has
\* failed.  Each has a name of its own.
Schedule(a, k) ==
  /\ pods[a].at = "none" /\ work[Owner(a)][k] # {}
  /\ pods' = [pods EXCEPT ![a] =
       [at |-> "starting", kind |-> k, done |-> FALSE,
        dind |-> IF Owner(a) \in WithDind THEN "running" ELSE "off", dying |-> FALSE]]
  /\ UNCHANGED <<vars, reachable, mishaps>>

RestartContainer(a) ==
  /\ Restarts(a) /\ \E from \in {"ended", "killed"} : Moves(a, from, "starting", pool)
  /\ UNCHANGED mishaps

\* The container runs out of memory.  If only start.sh is hit, the shell ends and
\* creates the file.
Killed(a) ==
  /\ Mishap
  /\ pods[a].at \in {"starting", "serving", "removing"}
  /\ \E d \in {pods[a].done, TRUE} :
       pods' = [pods EXCEPT ![a].at = "killed", ![a].done = d]
  /\ UNCHANGED <<vars, reachable>>

\* The pod is deleted: by the Deployment controller when there are too many, by the
\* garbage collector when its workload is gone, by users.  The shell, which is
\* process 1 and has no trap for it, ignores TERM, so that start.sh never hears of
\* it; after the grace period everything is killed.
Terminate(a) ==
  /\ pods[a].at \notin {"none", "gone"} /\ ~pods[a].dying
  /\ pods' = [pods EXCEPT ![a].dying = TRUE]
  /\ UNCHANGED <<vars, reachable, mishaps>>

TerminateOrphan(a) == Terminate(a) /\ work[Owner(a)][pods[a].kind] = {}

\* Mutant: the sidecar stays behind.
PodVanishes(a) ==
  /\ pods[a].dying
  /\ pods' = [pods EXCEPT ![a].at = "gone"]
  /\ UNCHANGED <<vars, reachable, mishaps>>

\* The pod's events enqueue nobody, since a ReplicaSet or a Job is its owner, and no
\* request has its name: handlePodEvent does not run.
PodGone(a) ==
  /\ pods[a].dying
  /\ pods' = [pods EXCEPT ![a] = GonePod]
  /\ UNCHANGED <<vars, reachable, mishaps>>

Outage ==
  /\ Mishap /\ reachable /\ reachable' = FALSE
  /\ UNCHANGED <<vars, pods>>

Recover ==
  /\ ~reachable /\ reachable' = TRUE
  /\ UNCHANGED <<vars, pods, mishaps>>

-----------------------------------------------------------------------------
(* The operator, and users. *)

\* deleteExternalAzDOResources deletes an agent of the CR; its answer may be lost.
Cleanup(a) ==
  /\ reachable /\ listed = Owner(a) /\ a \in standing
  /\ Leave(a)

Operator ==
  \/ \E c \in CRs :
       \/ uid[c] < MaxUid /\ Create(c)
       \/ Vanish(c) \/ Guard(c) \/ Delete(c) \/ Release(c)
       \/ reachable /\ List(c)
       \/ \E k \in Kinds : Apply(c, k)
  \/ listed # None /\ Abandon
  \/ \E a \in Agents : Cleanup(a)

CollectWork(c, k) ==
  /\ work[c][k] # {} /\ Collect(c, k)
  /\ UNCHANGED <<pods, reachable, mishaps>>

Script(a) == PrepareFails(a) \/ Configure(a) \/ ConfigureFails(a)

PodStep(a) ==
  \/ Script(a) \/ RunEnds(a) \/ Remove(a)
  \/ DindExits(a) \/ DindRestarts(a)
  \/ \E k \in Kinds : Schedule(a, k)
  \/ RestartContainer(a) \/ Killed(a) \/ Terminate(a) \/ PodGone(a)

PodNext ==
  \/ Operator /\ UNCHANGED <<pods, reachable, mishaps>>
  \/ \E c \in CRs, k \in Kinds : CollectWork(c, k)
  \/ \E a \in Agents : PodStep(a)
  \/ Outage \/ Recover

PodSpec == PodInit /\ [][PodNext]_podvars

(***************************************************************************)
(* Fairness.  Containers run and are restarted, the garbage collector and  *)
(* the kubelet do their work, and outages end.  A job may run for ever,    *)
(* but an agent that is no longer registered gives up.  Nothing is assumed *)
(* of users or of the operator's cleanup.                                  *)
(***************************************************************************)
FairPodSpec ==
  /\ PodSpec
  /\ WF_podvars(Recover)
  /\ \A c \in CRs, k \in Kinds : WF_podvars(CollectWork(c, k))
  /\ \A a \in Agents : /\ WF_podvars(Script(a)) /\ WF_podvars(Remove(a))
                       /\ WF_podvars(a \notin pool /\ RunEnds(a))
                       /\ WF_podvars(RestartContainer(a))
                       /\ WF_podvars(DindExits(a)) /\ WF_podvars(DindRestarts(a))
                       /\ WF_podvars(TerminateOrphan(a)) /\ WF_podvars(PodGone(a))

-----------------------------------------------------------------------------

\* The variables have their types, an agent of the listing is registered, and where
\* there is no pod there is nothing of one: no sidecar, no file.
PodTypeOK ==
  /\ pods \in [Agents -> [at : {"none", "starting", "serving", "removing", "ended", "killed", "gone"},
                          kind : Kinds \cup {""}, done : BOOLEAN,
                          dind : {"off", "running", "exited"}, dying : BOOLEAN]]
  /\ reachable \in BOOLEAN /\ mishaps \in 0 .. MaxMishaps
  /\ pool \subseteq Agents /\ standing \subseteq pool
  /\ \A a \in Agents : pods[a].at \in {"none", "gone"} => pods[a] \in {NoPod, GonePod}

\* A container that ends by itself takes its registration along, through outages and
\* whatever the operator does to it meanwhile, unless it is killed in its cleanup.
GracefulAgentsLeave ==
  \A a \in Agents : pods[a].at = "removing" ~> (a \notin pool \/ pods[a].at \in {"killed", "gone"})

\* The pod of a Job whose agent has run comes to its end, the sidecar included, so
\* that the Job can finish.
JobPodsEnd ==
  \A a \in Agents :
    (pods[a].kind = "Jobs" /\ pods[a].at \in {"removing", "ended"})
      ~> \/ pods[a].at = "ended" /\ pods[a].dind # "running"
         \/ pods[a].at \in {"killed", "gone"}

\* A cleanup that deletes an agent and then fails does not leave a pod of a Deployment
\* idle: the agent gives up, its container is restarted and it registers again.
AgentsReturn ==
  \A a \in Agents :
    (pods[a].kind = "Deployment" /\ pods[a].at = "serving" /\ a \notin pool)
      ~> (a \in pool \/ pods[a].dying)

\* "handlePodEvent processes pod deletions and removes the corresponding Azure DevOps
\* agents": while the CR stays, an agent whose pod has been deleted leaves the pool.
AgentsLeaveWithPods ==
  \A a \in Agents :
    (pods[a].at = "gone" /\ a \in pool) ~> (a \notin pool \/ phase[Owner(a)] # "guarded")
=============================================================================
