----------------------------- MODULE Reconciler -----------------------------
(***************************************************************************)
(* The AzureDevOps operator: one reconcile worker between the Kubernetes   *)
(* API server, which it writes to, the informer caches, which it reads     *)
(* from and which lag behind, the controller's work queue, and the Azure   *)
(* DevOps REST API.                                                        *)
(*                                                                         *)
(*  - api, wl: the API server's AzureDevOps objects and the workloads      *)
(*    (Deployments and Jobs) the operator owns; there is one namespace.    *)
(*  - cache, wcache: what the informers have delivered of them.  A         *)
(*    resource version is compared only for equality with the current one, *)
(*    so it is kept as one bit: synced and wsynced say whether the cached  *)
(*    copy is the current one, fresh whether the worker's copy of the CR   *)
(*    is.  A write from a copy that is not current gets a conflict.        *)
(*  - queue, timers: the work queue, and the keys that will come back to   *)
(*    it later (RequeueAfter, or the rate limiter after an error).         *)
(*  - w: the worker's local state: w.pc is the next call it makes, w.req   *)
(*    the request, w.cr its copy of the CR (with the status that           *)
(*    updateStatus will write), w.phase and w.tries the progress of        *)
(*    updateStatus and of the retry loops, w.why what it lists agents for, *)
(*    w.todo what is left to do with each listed agent, w.want the         *)
(*    replicas to apply.  injected is the CR whose client the shared field *)
(*    Usecase.AzureDevOpsClient holds.                                     *)
(*  - agents, jobs: Azure DevOps: the agents registered in the pool, and   *)
(*    for each CR the length of its pool's queue.                          *)
(*  - secret, pod: the Secrets of the namespaces, and for each CR whether  *)
(*    a Pod has its name.                                                  *)
(*  - standing: the agents that still have the ids under which the         *)
(*    worker's last listing has them: the others have left the pool, if    *)
(*    only to register anew.                                               *)
(*  - released: history, for the properties only: the incarnations of each *)
(*    CR whose finalizer the operator removed.                             *)
(*                                                                         *)
(* A name is a sequence of tokens, with "-" as a token of its own, so that *)
(* the prefix tests on agent names mean what they mean on strings.         *)
(***************************************************************************)
EXTENDS Scaling, Secrets, Sequences

CONSTANTS
  CRs,          \* the names of the custom resources
  Agents,       \* the names under which agents may register
  Specs,        \* the specs a user may write: records min, max, mode, image
  QueueLengths, \* for each CR, the lengths its pool's queue may have
  UserScales,   \* the replica counts a user may set by hand
  SecretStates, \* the states of the secrets a user may bring about
  PodStates,    \* the states of a Pod that has the name of a CR
  Listing,      \* the outcomes of GetAgentsInPool, a subset of {"ok", "error"}
  Progressing,  \* bound: the CRs whose Deployments report progress
  MaxUid,       \* bound: incarnations of one CR
  MaxEdits,     \* bound: actions of users and of Azure DevOps
  MaxFaults     \* bound: failed calls, lost responses and crashes

None == <<>>
Kinds == {"Deployment", "Jobs"}

ASSUME NamesAssumption == None \notin CRs /\ None \notin Agents
\* An agent is called <cr>-<suffix>, after its pod.  (start.sh calls it by AZP_AGENT_NAME,
\* which a CR may set in spec.env, and only by default by the host's name; agents with
\* other names are left out.)
ASSUME AgentsAssumption ==
  \A a \in Agents : a \in Seq(STRING) /\ Len(a) >= 2 /\ a[Len(a) - 1] = "-"
ASSUME SpecsAssumption ==
  /\ Specs # {}
  /\ Specs \subseteq [min : Int32, max : Int32, mode : Kinds \cup {""}, image : STRING]
ASSUME InputsAssumption ==
  /\ QueueLengths \in [CRs -> SUBSET Nat]
  /\ UserScales \subseteq Nat
  /\ SecretStates \subseteq Secrets
  /\ PodStates \subseteq {"running", "finished"}
  /\ Listing \subseteq {"ok", "error"}
ASSUME BoundsAssumption == MaxUid \in Nat /\ MaxEdits \in Nat /\ MaxFaults \in Nat

VARIABLES api, wl, cache, synced, wcache, wsynced, fresh, queue, timers, w,
          injected, agents, jobs, secret, pod, standing, released, edits, faults

kube == <<api, wl>>
informer == <<cache, synced, wcache, wsynced>>
workqueue == <<queue, timers>>
azdo == <<agents, jobs>>
cluster == <<secret, pod>>
history == <<standing, released>>
budget == <<edits, faults>>

vars == <<kube, informer, fresh, workqueue, w, injected, azdo, cluster, history, budget>>

-----------------------------------------------------------------------------
(* The objects. *)

InitStatus == [reason |-> "", queued |-> 0, desired |-> 0, ready |-> 0]

SomeSpec == CHOOSE s \in Specs : TRUE

AbsentCR(uid) ==
  [exists |-> FALSE, uid |-> uid, deleting |-> FALSE, finalizer |-> FALSE,
   spec |-> SomeSpec, status |-> InitStatus]

NewCR(uid, spec) ==
  [exists |-> TRUE, uid |-> uid, deleting |-> FALSE, finalizer |-> FALSE,
   spec |-> spec, status |-> InitStatus]

(***************************************************************************)
(* The pod template the operator builds from a spec, reduced to the image. *)
(* The API server stores it with defaults filled in, so a stored template  *)
(* is never DeepEqual to a built one.                                      *)
(***************************************************************************)
Template(spec) == [image |-> spec.image, defaulted |-> FALSE]
WithDefaults(template) == [template EXCEPT !.defaulted = TRUE]

NoWorkload ==
  [exists |-> FALSE, uid |-> 0, replicas |-> 0, template |-> Template(SomeSpec),
   ready |-> 0, finished |-> FALSE]

NewWorkload(cr, replicas) ==
  [exists |-> TRUE, uid |-> cr.uid, replicas |-> replicas,
   template |-> WithDefaults(Template(cr.spec)), ready |-> 0, finished |-> FALSE]

\* cr with this status and this reason in its Ready condition.
WithReason(cr, status, reason) == [cr EXCEPT !.status = [status EXCEPT !.reason = reason]]

NothingToDo == [a \in Agents |-> "done"]

IdleWorker ==
  [pc |-> "idle", req |-> None, cr |-> AbsentCR(0), phase |-> "", tries |-> 0,
   why |-> "", todo |-> NothingToDo, want |-> 0]

Init ==
  /\ api = [c \in CRs |-> AbsentCR(0)]
  /\ wl = [c \in CRs |-> [k \in Kinds |-> NoWorkload]]
  /\ cache = api /\ synced = [c \in CRs |-> TRUE]
  /\ wcache = wl /\ wsynced = [c \in CRs |-> [k \in Kinds |-> TRUE]]
  /\ fresh = FALSE
  /\ queue = {} /\ timers = {}
  /\ w = IdleWorker
  /\ injected = None
  /\ agents = [a \in Agents |-> "absent"]
  /\ jobs \in {f \in [CRs -> UNION {QueueLengths[c] : c \in CRs}] :
                 \A c \in CRs : f[c] \in QueueLengths[c]}
  /\ secret \in SecretStates
  /\ pod = [c \in CRs |-> "none"]
  /\ standing = {} /\ released = [c \in CRs |-> {}]
  /\ edits = 0 /\ faults = 0

(***************************************************************************)
(* Writes to the API server.  One that changes nothing does not make a new *)
(* resource version, and no watch event follows.                           *)
(***************************************************************************)
WriteCR(c, new) ==
  /\ api' = [api EXCEPT ![c] = new]
  /\ synced' = [synced EXCEPT ![c] = @ /\ new = api[c]]

WriteWorkload(c, k, new) ==
  /\ wl' = [wl EXCEPT ![c][k] = new]
  /\ wsynced' = [wsynced EXCEPT ![c][k] = @ /\ new = wl[c][k]]

Edit == edits < MaxEdits /\ edits' = edits + 1
Fault == faults < MaxFaults /\ faults' = faults + 1

-----------------------------------------------------------------------------
(* Users, the other controllers of the cluster, and Azure DevOps. *)

\* A user's write to the CR c.  (Users do not touch finalizers.)
UserWrite(c, new) ==
  /\ Edit
  /\ WriteCR(c, new)
  /\ fresh' = (fresh /\ w.req # c)
  /\ UNCHANGED <<wl, cache, wcache, wsynced, workqueue, w, injected, azdo,
                 cluster, history, faults>>

CreateCR(c) ==
  /\ ~api[c].exists /\ api[c].uid < MaxUid
  /\ \E s \in Specs : UserWrite(c, NewCR(api[c].uid + 1, s))

EditSpec(c) ==
  /\ api[c].exists
  /\ \E s \in Specs \ {api[c].spec} : UserWrite(c, [api[c] EXCEPT !.spec = s])

\* kubectl delete: an object with a finalizer is only marked.
DeleteCR(c) ==
  /\ api[c].exists /\ ~api[c].deleting
  /\ UserWrite(c, IF api[c].finalizer THEN [api[c] EXCEPT !.deleting = TRUE]
                                      ELSE AbsentCR(api[c].uid))

\* Jobs are queued in, or taken from, the pool of c.
SetQueue(c) ==
  /\ Edit
  /\ \E n \in QueueLengths[c] \ {jobs[c]} : jobs' = [jobs EXCEPT ![c] = n]
  /\ UNCHANGED <<kube, informer, fresh, workqueue, w, injected, agents, cluster,
                 history, faults>>

SetSecret ==
  /\ Edit
  /\ secret' \in SecretStates \ {secret}
  /\ UNCHANGED <<kube, informer, fresh, workqueue, w, injected, azdo, pod, history,
                 faults>>

\* A Pod that has the name of the CR c and belongs to it appears, finishes or
\* goes away; the watch on owned Pods enqueues c.
PodEvent(c) ==
  /\ Edit
  /\ \E s \in (PodStates \cup {"none"}) \ {pod[c]} : pod' = [pod EXCEPT ![c] = s]
  /\ queue' = queue \cup {c}
  /\ UNCHANGED <<kube, informer, fresh, timers, w, injected, azdo, secret, history,
                 faults>>

\* An agent process in a pod of the workload a was named after registers itself, or
\* replaces a registration of its name and keeps the id, or removes itself on shutdown.
\* The pods outlive their workload for a while, and the CR.
Owner(a) == SubSeq(a, 1, Len(a) - 2)

Register(a) ==
  /\ Edit
  /\ agents[a] # "enabled"
  /\ Owner(a) \in CRs
  /\ released[Owner(a)] # {} \/ \E k \in Kinds : wl[Owner(a)][k].exists
  /\ agents' = [agents EXCEPT ![a] = "enabled"]
  /\ UNCHANGED <<kube, informer, fresh, workqueue, w, injected, jobs, cluster,
                 history, faults>>

Deregister(a) ==
  /\ Edit
  /\ agents[a] # "absent"
  /\ agents' = [agents EXCEPT ![a] = "absent"]
  /\ standing' = standing \ {a}
  /\ UNCHANGED <<kube, informer, fresh, workqueue, w, injected, jobs, cluster,
                 released, faults>>

\* Everything in the cluster that writes a workload and is not the operator.
ClusterWrite(c, k, new) ==
  /\ new # wl[c][k]
  /\ WriteWorkload(c, k, new)
  /\ UNCHANGED <<api, cache, synced, wcache, fresh, workqueue, w, injected, azdo,
                 cluster, history, faults>>

UserScale(c) ==
  /\ Edit
  /\ wl[c]["Deployment"].exists
  /\ \E n \in UserScales :
       ClusterWrite(c, "Deployment", [wl[c]["Deployment"] EXCEPT !.replicas = n])

\* The Deployment controller brings the pods up to the replica count, and says so
\* in the status of the Deployment.
Rollout(c) ==
  LET d == wl[c]["Deployment"]
  IN  /\ c \in Progressing /\ d.exists
      /\ ClusterWrite(c, "Deployment", [d EXCEPT !.ready = d.replicas])
      /\ UNCHANGED edits

JobFinishes(c) ==
  /\ wl[c]["Jobs"].exists
  /\ ClusterWrite(c, "Jobs", [wl[c]["Jobs"] EXCEPT !.finished = TRUE])
  /\ UNCHANGED edits

\* The garbage collector removes what the owner's incarnation left behind.
CollectGarbage(c, k) ==
  /\ wl[c][k].exists
  /\ ~(api[c].exists /\ api[c].uid = wl[c][k].uid)
  /\ ClusterWrite(c, k, NoWorkload)
  /\ UNCHANGED edits

-----------------------------------------------------------------------------
(* Informers and work queue. *)

\* Mutant: forgetting to enqueue on a watch event of the CR.
SyncCRSilently(c) ==
  /\ ~synced[c]
  /\ cache' = [cache EXCEPT ![c] = api[c]]
  /\ synced' = [synced EXCEPT ![c] = TRUE]
  /\ UNCHANGED <<kube, wcache, wsynced, fresh, workqueue, w, injected, azdo,
                 cluster, history, budget>>

\* For(&AzureDevOps{}): every event of the CR, its own status updates included,
\* enqueues it.
SyncCR(c) ==
  /\ ~synced[c]
  /\ cache' = [cache EXCEPT ![c] = api[c]]
  /\ synced' = [synced EXCEPT ![c] = TRUE]
  /\ queue' = queue \cup {c}
  /\ UNCHANGED <<kube, wcache, wsynced, fresh, timers, w, injected, azdo, cluster,
                 history, budget>>

\* Owns(&Deployment{}): an event of a Deployment enqueues its owner; Jobs are
\* cached because the operator reads them, but not watched.
SyncWorkload(c, k) ==
  /\ ~wsynced[c][k]
  /\ wcache' = [wcache EXCEPT ![c][k] = wl[c][k]]
  /\ wsynced' = [wsynced EXCEPT ![c][k] = TRUE]
  /\ queue' = IF k = "Deployment" THEN queue \cup {c} ELSE queue
  /\ UNCHANGED <<kube, cache, synced, fresh, timers, w, injected, azdo, cluster,
                 history, budget>>

TimerFires(c) ==
  /\ c \in timers
  /\ timers' = timers \ {c}
  /\ queue' = queue \cup {c}
  /\ UNCHANGED <<kube, informer, fresh, w, injected, azdo, cluster, history, budget>>

(***************************************************************************)
(* The process dies and comes back (or another replica takes the lease):   *)
(* what it had in memory is lost, and the informers' first lists enqueue   *)
(* every CR, every owner of a Deployment and of a Pod.                     *)
(***************************************************************************)
Restart(relisted) ==
  /\ Fault
  /\ w' = IdleWorker /\ injected' = None /\ fresh' = FALSE
  /\ cache' = api /\ synced' = [c \in CRs |-> TRUE]
  /\ wcache' = wl /\ wsynced' = [c \in CRs |-> [k \in Kinds |-> TRUE]]
  /\ queue' = relisted /\ timers' = {}
  /\ standing' = {}
  /\ UNCHANGED <<kube, azdo, cluster, released, edits>>

Crash ==
  Restart({c \in CRs : api[c].exists \/ wl[c]["Deployment"].exists \/ pod[c] # "none"})

-----------------------------------------------------------------------------
(* The worker.  Every return of Reconcile hands the key back to the queue:  *)
(* RequeueAfter, Requeue or an error.                                       *)

\* Mutant: a return that reports success without RequeueAfter.
FinishForGood ==
  /\ w' = IdleWorker
  /\ fresh' = FALSE
  /\ standing' = {}
  /\ timers' = timers

Finish ==
  /\ w' = IdleWorker
  /\ fresh' = FALSE
  /\ standing' = {}
  /\ timers' = timers \cup {w.req}

\* The worker goes on to another call.
Goto(next) == w' = next /\ UNCHANGED <<fresh, standing, timers>>

\* updateStatus is called with this phase.
Report(phase) ==
  Goto([w EXCEPT !.pc = "status", !.phase = phase, !.tries = 0, !.want = 0])

Dequeue(c) ==
  /\ w.pc = "idle"
  /\ c \in queue
  /\ queue' = queue \ {c}
  /\ UNCHANGED <<kube, informer, injected, azdo, cluster, history, budget>>

\* Reconcile returns before it has made any call but the reads of its caches.
ReturnEarly(c) == timers' = timers \cup {c} /\ UNCHANGED <<w, fresh>>

\* Reconcile has read the CR and goes on with it; fresh: the copy will be
\* written back.  The reason of its status is always overwritten before use.
Begin(c, pc, why, phase, current) ==
  /\ w' = [pc |-> pc, req |-> c, cr |-> WithReason(cache[c], cache[c].status, ""),
           phase |-> phase, tries |-> 0, why |-> why, todo |-> NothingToDo, want |-> 0]
  /\ fresh' = current
  /\ UNCHANGED timers

\* A Pod has the request's name: handlePodEvent runs in place of the reconcile.
StartPod(c) ==
  /\ pod[c] # "none"
  /\ Dequeue(c)
  /\ IF pod[c] = "finished" /\ cache[c].exists
     THEN Begin(c, "list", "pod", "", FALSE)
     ELSE ReturnEarly(c)

StartGone(c) ==
  /\ pod[c] = "none" /\ ~cache[c].exists
  /\ Dequeue(c)
  /\ ReturnEarly(c)

StartDeleted(c) ==
  /\ pod[c] = "none" /\ cache[c].exists /\ cache[c].deleting
  /\ Dequeue(c)
  /\ IF cache[c].finalizer THEN Begin(c, "list", "finalizer", "", synced[c])
                           ELSE ReturnEarly(c)

\* Mutant: the workload is created before the finalizer is stored.
StartUnguardedAnyway(c) ==
  /\ pod[c] = "none" /\ cache[c].exists /\ ~cache[c].deleting /\ ~cache[c].finalizer
  /\ Dequeue(c)
  /\ Begin(c, "status", "", "Processing", FALSE)

StartUnguarded(c) ==
  /\ pod[c] = "none" /\ cache[c].exists /\ ~cache[c].deleting /\ ~cache[c].finalizer
  /\ Dequeue(c)
  /\ Begin(c, "addFinalizer", "", "", synced[c])

\* Mutant: the deletion timestamp is not looked at.
StartDespiteDeletion(c) ==
  /\ pod[c] = "none" /\ cache[c].exists /\ cache[c].finalizer
  /\ Dequeue(c)
  /\ Begin(c, "status", "", "Processing", FALSE)

StartGuarded(c) ==
  /\ pod[c] = "none" /\ cache[c].exists /\ ~cache[c].deleting /\ cache[c].finalizer
  /\ Dequeue(c)
  /\ Begin(c, "status", "", "Processing", FALSE)

Start(c) ==
  StartPod(c) \/ StartGone(c) \/ StartDeleted(c) \/ StartUnguarded(c) \/ StartGuarded(c)

\* Mutant: the copy is written whatever has become of the CR meanwhile.
AddFinalizerRegardless ==
  /\ w.pc = "addFinalizer"
  /\ WriteCR(w.req, [w.cr EXCEPT !.finalizer = TRUE])
  /\ Finish
  /\ UNCHANGED <<wl, cache, wcache, wsynced, queue, injected, azdo, cluster,
                 released, budget>>

(***************************************************************************)
(* The Update with the finalizer, and the second Update, which finds       *)
(* nothing left to change: the first one returned the current object, so   *)
(* it is a no-op or a conflict, and Reconcile returns in either case.      *)
(***************************************************************************)
AddFinalizer ==
  /\ w.pc = "addFinalizer"
  /\ IF fresh THEN WriteCR(w.req, [api[w.req] EXCEPT !.finalizer = TRUE])
              ELSE UNCHANGED <<api, synced>>
  /\ Finish
  /\ UNCHANGED <<wl, cache, wcache, wsynced, queue, injected, azdo, cluster,
                 released, budget>>

-----------------------------------------------------------------------------
(* Cleanup: deleteExternalAzDOResources and the end of handlePodEvent. *)

\* The part of a Pod's name before its last two hyphens, as far as it has them.
BeforeLastHyphen(n) ==
  LET hyphens == {i \in 2 .. Len(n) : n[i] = "-"}
  IN  IF hyphens = {} THEN n
      ELSE SubSeq(n, 1, (CHOOSE i \in hyphens : \A j \in hyphens : j <= i) - 1)

PodNameWithoutHash(n) == BeforeLastHyphen(BeforeLastHyphen(n))

HasPrefix(n, p) == Len(p) <= Len(n) /\ SubSeq(n, 1, Len(p)) = p

\* Mutant: the name is compared in place of the prefix.
MatchesExactly(a) == a = w.req

\* Mutant: the prefix is not looked at.
MatchesAny(a) == a \in Agents

\* The agents that the worker's listing is about.
Matches(a) ==
  HasPrefix(a, IF w.why = "finalizer" THEN Append(w.req, "-")
                                      ELSE PodNameWithoutHash(w.req))

\* What the agents of the pool are, when the answer can be read.
GetAgentsInPool == {a \in Agents : agents[a] # "absent"}

\* The token, the pool's id and the agents of the pool.
ListAgents(outcome) ==
  /\ w.pc = "list"
  /\ IF PATFound(secret) /\ outcome = "ok"
     THEN /\ w' = [w EXCEPT !.pc = "purge",
                  !.todo = [a \in Agents |-> IF a \in GetAgentsInPool /\ Matches(a)
                                             THEN agents[a] ELSE "done"]]
          /\ standing' = GetAgentsInPool
          /\ UNCHANGED <<fresh, timers>>
     ELSE Finish
  /\ UNCHANGED <<kube, informer, queue, injected, azdo, cluster, released, budget>>

\* The loop takes the listed agents one after the other: "now" is the one that
\* was disabled and is next to be deleted.
Underway == {a \in Agents : w.todo[a] = "now"}
Remaining == {a \in Agents : w.todo[a] # "done"}

\* The response arrives, or is lost after the call has taken effect.
Answered(reply) == IF reply = "ok" THEN UNCHANGED faults ELSE Fault

\* Mutant: an error on one agent is logged and passed over.
AdvanceRegardless(a, stage, reply) ==
  /\ Answered(reply)
  /\ w' = [w EXCEPT !.todo[a] = IF reply = "ok" THEN stage ELSE "done"]
  /\ UNCHANGED <<fresh, timers>>

\* Mutant: a call without an answer is made again.
AdvanceOrAskAgain(a, stage, reply) ==
  /\ Answered(reply)
  /\ w' = IF reply = "ok" THEN [w EXCEPT !.todo[a] = stage] ELSE w
  /\ UNCHANGED <<fresh, timers>>

\* The worker's loop has done with this agent or goes on with it; without an
\* answer, or with an error, deleteExternalAzDOResources returns.
Advance(a, stage, reply) ==
  /\ Answered(reply)
  /\ IF reply = "ok"
     THEN /\ w' = [w EXCEPT !.todo[a] = stage]
          /\ UNCHANGED <<fresh, timers>>
     ELSE /\ w' = IdleWorker
          /\ fresh' = FALSE
          /\ timers' = timers \cup {w.req}

\* Both go by the id that the listing gave.
DisableAgent(a, reply) ==
  /\ w.pc = "purge" /\ Underway = {} /\ w.todo[a] = "enabled"
  /\ a \in standing
  /\ agents' = [agents EXCEPT ![a] = "disabled"]
  /\ Advance(a, "now", reply)
  /\ UNCHANGED <<kube, informer, queue, injected, jobs, cluster, history, edits>>

DeleteAgent(a, reply) ==
  /\ w.pc = "purge"
  /\ w.todo[a] = "now" \/ (Underway = {} /\ w.todo[a] = "disabled")
  /\ a \in standing
  /\ agents' = [agents EXCEPT ![a] = "absent"]
  /\ standing' = standing \ {a}
  /\ Advance(a, "done", reply)
  /\ UNCHANGED <<kube, informer, queue, injected, jobs, cluster, released, edits>>

\* The agent the loop comes to has meanwhile removed itself, and may have registered
\* again, with another id: 404 is an error.
AgentMissing(a) ==
  /\ w.pc = "purge"
  /\ w.todo[a] = "now" \/ (Underway = {} /\ w.todo[a] \in {"enabled", "disabled"})
  /\ a \notin standing
  /\ Finish
  /\ UNCHANGED <<kube, informer, queue, injected, azdo, cluster, released, budget>>

\* The Update without the finalizer: it was the last one, so the object goes.
RemoveFinalizer ==
  /\ w.pc = "purge" /\ w.why = "finalizer" /\ Remaining = {}
  /\ IF fresh
     THEN /\ WriteCR(w.req, AbsentCR(w.cr.uid))
          /\ released' = [released EXCEPT ![w.req] = @ \cup {w.cr.uid}]
     ELSE UNCHANGED <<api, synced, released>>
  /\ Finish
  /\ UNCHANGED <<wl, cache, wcache, wsynced, queue, injected, azdo, cluster, budget>>

PodHandled ==
  /\ w.pc = "purge" /\ w.why = "pod" /\ Remaining = {}
  /\ Finish
  /\ UNCHANGED <<kube, informer, queue, injected, azdo, cluster, released, budget>>

-----------------------------------------------------------------------------
(* The main path. *)

AfterStatus ==
  IF w.phase = "Processing" THEN Goto([w EXCEPT !.pc = "query", !.tries = 0])
                            ELSE Finish

\* Mutant: one try too many.
MayRetryOnceMore == w.tries < 3

\* Both retry loops, of updateStatus and of reconcileDeploymentInternal, make at
\* most three tries.
MayRetry == w.tries < 2

(***************************************************************************)
(* updateStatus: get the CR from the cache and write the worker's status   *)
(* to it, up to three times while there is a conflict; any other error, or *)
(* a CR that is gone, ends it silently.                                    *)
(***************************************************************************)
UpdateStatus ==
  /\ w.pc = "status"
  /\ LET c == w.req
         new == WithReason(api[c], w.cr.status, w.phase)
         conflict == cache[c].exists /\ api[c].exists /\ ~synced[c]
     IN  /\ IF cache[c].exists /\ synced[c] THEN WriteCR(c, new)
                                            ELSE UNCHANGED <<api, synced>>
         /\ IF conflict /\ MayRetry THEN Goto([w EXCEPT !.tries = @ + 1])
                                       ELSE AfterStatus
  /\ UNCHANGED <<wl, cache, wcache, wsynced, queue, injected, azdo, cluster,
                 released, budget>>

\* Mutant: the client is created once and kept.
InjectOnce(c) == IF injected = None THEN c ELSE injected

Inject(c) == c

WithQueued(cr, n) == [cr EXCEPT !.status = [cr.status EXCEPT !.queued = n]]

\* The unassigned jobs of the pool of c, which the client made for c asks for.  (The
\* client holds the organisation, the project and the token; the pool's name comes with
\* the call, from the CR in hand.  That the client of another CR would find the other's
\* pool is the worst case.)
GetQueueLength(c) == jobs[c]

\* getPATToken, a new client in the shared use case, the first GetQueueLength.
QueryQueue ==
  /\ w.pc = "query"
  /\ IF PATFound(secret)
     THEN /\ injected' = Inject(w.req)
          /\ Goto([w EXCEPT !.pc = "handle", !.cr = WithQueued(@, GetQueueLength(w.req))])
     ELSE /\ UNCHANGED injected
          /\ Report("Failed")
  /\ UNCHANGED <<kube, informer, queue, azdo, cluster, released, budget>>

\* Mutant: the first reading of the queue is used in place of a second one.
HandleFirstReading ==
  /\ w.pc = "handle"
  /\ IF ValidateSecrets(secret) /\ w.cr.spec.mode \in Kinds
     THEN Goto([w EXCEPT !.pc = "apply",
                !.want = DetermineDesiredReplicas(w.cr.status.queued, w.cr.spec)])
     ELSE Report("Failed")
  /\ UNCHANGED <<kube, informer, queue, injected, azdo, cluster, released, budget>>

\* Usecase.Handle up to ReconcileDeployment: ValidateSecrets, the second
\* GetQueueLength, through the shared client, and determineDesiredReplicas.
Handle ==
  /\ w.pc = "handle"
  /\ IF ValidateSecrets(secret) /\ w.cr.spec.mode \in Kinds
     THEN Goto([w EXCEPT !.pc = "apply",
                !.want = DetermineDesiredReplicas(GetQueueLength(injected), w.cr.spec)])
     ELSE Report("Failed")
  /\ UNCHANGED <<kube, informer, queue, injected, azdo, cluster, released, budget>>

\* ReconcileDeployment has succeeded.
Proceed == Goto([w EXCEPT !.pc = "observe", !.tries = 0, !.want = 0])

\* A write of a workload was answered.
Applied(reply) ==
  /\ Answered(reply)
  /\ IF reply = "ok" THEN Proceed ELSE Report("Failed")

ApplyRest == UNCHANGED <<api, cache, synced, wcache, queue, injected, azdo, cluster,
                         released, edits>>

\* reconcileDeploymentInternal and ReconcileJob when the cache has no such
\* object: Create, which fails if the API server has one after all.
CreateWorkload(reply) ==
  LET c == w.req
      k == w.cr.spec.mode
  IN  /\ w.pc = "apply" /\ ~wcache[c][k].exists
      /\ IF wl[c][k].exists
         THEN /\ reply = "ok"
              /\ Report("Failed")
              /\ UNCHANGED <<wl, wsynced, faults>>
         ELSE /\ WriteWorkload(c, k, NewWorkload(w.cr, IF k = "Jobs" THEN 0 ELSE w.want))
              /\ Applied(reply)
      /\ ApplyRest

\* Mutant: the pod template is left out of the comparison.
ReplicasDiffer(d) == d.replicas # w.want

\* What reconcileDeploymentInternal compares of the cached Deployment.  The
\* stored template has the server's defaults, so this is always true.
NeedsUpdate(d) == d.replicas # w.want \/ d.template # Template(w.cr.spec)

\* reconcileDeploymentInternal with a cached Deployment: its owner stays.
UpdateDeployment(reply) ==
  LET c == w.req
      d == wcache[c]["Deployment"]
  IN  /\ w.pc = "apply" /\ w.cr.spec.mode = "Deployment" /\ d.exists
      /\ wsynced[c]["Deployment"] \/ ~NeedsUpdate(d)
      /\ IF NeedsUpdate(d)
         THEN /\ WriteWorkload(c, "Deployment",
                               [d EXCEPT !.replicas = w.want,
                                         !.template = WithDefaults(Template(w.cr.spec))])
              /\ Applied(reply)
         ELSE /\ reply = "ok"
              /\ Proceed
              /\ UNCHANGED <<wl, wsynced, faults>>
      /\ ApplyRest

\* The Deployment is gone (an error), or has changed (a conflict, tried three
\* times in all).
UpdateDeploymentRefused ==
  LET c == w.req
      d == wcache[c]["Deployment"]
  IN  /\ w.pc = "apply" /\ w.cr.spec.mode = "Deployment" /\ d.exists
      /\ NeedsUpdate(d) /\ ~wsynced[c]["Deployment"]
      /\ IF wl[c]["Deployment"].exists /\ MayRetry
         THEN Goto([w EXCEPT !.tries = @ + 1])
         ELSE Report("Failed")
      /\ UNCHANGED <<wl, wsynced, faults>>
      /\ ApplyRest

\* Mutant: a finished Job is made anew.
RenewJob ==
  LET c == w.req
      j == wcache[c]["Jobs"]
  IN  /\ w.pc = "apply" /\ w.cr.spec.mode = "Jobs" /\ j.exists
      /\ IF j.finished THEN WriteWorkload(c, "Jobs", NewWorkload(w.cr, 0))
                       ELSE UNCHANGED <<wl, wsynced>>
      /\ Proceed
      /\ UNCHANGED faults
      /\ ApplyRest

\* ReconcileJob with a cached Job.  A finished one is left alone.  The template
\* of a Job is immutable: the Update is accepted only if it changes nothing, and
\* a conflict counts as success.
UpdateJob ==
  LET c == w.req
      j == wcache[c]["Jobs"]
      accepted == j.template = WithDefaults(Template(w.cr.spec))
  IN  /\ w.pc = "apply" /\ w.cr.spec.mode = "Jobs" /\ j.exists
      /\ IF j.finished \/ (wl[c]["Jobs"].exists /\ (~wsynced[c]["Jobs"] \/ accepted))
         THEN Proceed
         ELSE Report("Failed")
      /\ UNCHANGED <<wl, wsynced, faults>>
      /\ ApplyRest

\* The Deployment that Reconcile reads back is called <cr>-agent.
AgentName(c) == c \o <<"-", "agent">>

WithAgents(cr, desired, ready) ==
  [cr EXCEPT !.status = [reason |-> cr.status.reason, queued |-> cr.status.queued,
                         desired |-> desired, ready |-> ready]]

Observe ==
  /\ w.pc = "observe"
  /\ LET n == AgentName(w.req)
         found == n \in CRs /\ wcache[n]["Deployment"].exists
         d == wcache[n]["Deployment"]
     IN  Goto([w EXCEPT !.pc = "status", !.phase = "Ready",
                        !.cr = IF found THEN WithAgents(@, d.replicas, d.ready) ELSE @])
  /\ UNCHANGED <<kube, informer, queue, injected, azdo, cluster, released, budget>>

\* A call fails and has no effect: an error of the API server or of Azure
\* DevOps, no pool of that name, or the deadline of the reconcile.  Before the first
\* GetQueueLength the new client is in the shared field already.
CallFails ==
  /\ Fault
  /\ \/ w.pc \in {"addFinalizer", "list", "purge"} /\ Finish
     \/ w.pc = "status" /\ AfterStatus
     \/ w.pc \in {"query", "handle", "apply"} /\ Report("Failed")
  /\ injected' \in IF w.pc = "query" /\ PATFound(secret) THEN {injected, Inject(w.req)}
                                                          ELSE {injected}
  /\ UNCHANGED <<kube, informer, queue, azdo, cluster, released, edits>>

-----------------------------------------------------------------------------

Replies == {"ok", "lost"}

Environment ==
  \/ \E c \in CRs : \/ CreateCR(c) \/ EditSpec(c) \/ DeleteCR(c) \/ SetQueue(c)
                    \/ PodEvent(c) \/ UserScale(c) \/ Rollout(c) \/ JobFinishes(c)
                    \/ \E k \in Kinds : CollectGarbage(c, k)
  \/ SetSecret
  \/ \E a \in Agents : Register(a) \/ Deregister(a)

Deliver(c) == SyncCR(c) \/ \E k \in Kinds : SyncWorkload(c, k)

Purge ==
  \/ \E a \in Agents : \/ \E r \in Replies : DisableAgent(a, r) \/ DeleteAgent(a, r)
                       \/ AgentMissing(a)
  \/ RemoveFinalizer
  \/ PodHandled

Work ==
  \/ AddFinalizer
  \/ \E o \in Listing : ListAgents(o)
  \/ Purge
  \/ UpdateStatus \/ QueryQueue \/ Handle
  \/ \E r \in Replies : CreateWorkload(r) \/ UpdateDeployment(r)
  \/ UpdateDeploymentRefused \/ UpdateJob \/ Observe

Next ==
  \/ Environment
  \/ \E c \in CRs : Deliver(c) \/ TimerFires(c) \/ Start(c)
  \/ Work
  \/ CallFails
  \/ Crash

Spec == Init /\ [][Next]_vars

(***************************************************************************)
(* Fairness.  The worker's calls return, watch events arrive and timers    *)
(* fire.  The work queue is first in first out, so a key that keeps coming *)
(* to it is taken: strong fairness of Start for each CR.  The garbage      *)
(* collector and the Deployment controller run.  Nothing is assumed of     *)
(* users, and faults are bounded.                                          *)
(***************************************************************************)
Fairness ==
  /\ WF_vars(Work)
  /\ \A c \in CRs : /\ WF_vars(SyncCR(c))
                    /\ \A k \in Kinds : WF_vars(SyncWorkload(c, k))
                    /\ \A k \in Kinds : WF_vars(CollectGarbage(c, k))
                    /\ WF_vars(Rollout(c))
                    /\ WF_vars(TimerFires(c))
                    /\ SF_vars(Start(c))

FairSpec == Spec /\ Fairness
-----------------------------------------------------------------------------
(* Properties. *)

Status == [reason : {"", "Processing", "Failed", "Ready"}, queued : Nat,
           desired : Nat, ready : Nat]

CRType == [exists : BOOLEAN, uid : Nat, deleting : BOOLEAN, finalizer : BOOLEAN,
           spec : Specs, status : Status]

WorkloadType == [exists : BOOLEAN, uid : Nat, replicas : Nat,
                 template : [image : STRING, defaulted : BOOLEAN], ready : Nat,
                 finished : BOOLEAN]

WorkerType ==
  [pc : {"idle", "addFinalizer", "list", "purge", "status", "query", "handle", "apply",
         "observe"},
   req : CRs \cup {None}, cr : CRType, phase : {"", "Processing", "Failed", "Ready"},
   tries : 0 .. 2, why : {"", "finalizer", "pod"},
   todo : [Agents -> {"done", "enabled", "disabled", "now"}], want : Nat]

\* The variables have their types, the worker has a request, which is a CR, exactly
\* while Reconcile runs, and the agents of its listing that still stand are registered.
TypeOK ==
  /\ api \in [CRs -> CRType] /\ cache \in [CRs -> CRType]
  /\ wl \in [CRs -> [Kinds -> WorkloadType]] /\ wcache \in [CRs -> [Kinds -> WorkloadType]]
  /\ synced \in [CRs -> BOOLEAN] /\ wsynced \in [CRs -> [Kinds -> BOOLEAN]]
  /\ fresh \in BOOLEAN
  /\ queue \subseteq CRs /\ timers \subseteq CRs
  /\ w \in WorkerType /\ (w.req = None <=> w.pc = "idle")
  /\ injected \in CRs \cup {None} /\ (w.pc = "handle" => injected # None)
  /\ agents \in [Agents -> {"absent", "enabled", "disabled"}]
  /\ jobs \in [CRs -> Nat]
  /\ secret \in Secrets
  /\ pod \in [CRs -> {"none", "running", "finished"}]
  /\ standing \subseteq Agents /\ \A a \in standing : agents[a] # "absent"
  /\ released \in [CRs -> SUBSET Nat]
  /\ edits \in 0 .. MaxEdits /\ faults \in 0 .. MaxFaults

\* No agent pods without cleanup: a workload belongs to an incarnation of the CR
\* whose finalizer is stored, or to one that left through the finalizer.  Were a
\* workload ever created for a CR that can vanish at once, its agents would stay
\* registered in Azure DevOps for good.
WorkloadsGuarded ==
  \A c \in CRs : \A k \in Kinds : wl[c][k].exists =>
    \/ api[c].exists /\ api[c].finalizer /\ api[c].uid = wl[c][k].uid
    \/ wl[c][k].uid \in released[c]

\* Stale caches never bring a workload back: one is created only for the
\* incarnation of the CR that exists at that moment, guarded by its finalizer.
NoResurrection ==
  [][\A c \in CRs : \A k \in Kinds : (wl'[c][k].exists /\ ~wl[c][k].exists) =>
       api[c].exists /\ api[c].finalizer /\ api[c].uid = wl'[c][k].uid]_vars

\* updateStatus re-reads the CR by name and writes a status computed from an
\* older copy: it never writes it to a later incarnation of the name.
StatusStaysWithIncarnation ==
  [][\A c \in CRs : (api'[c].exists /\ api'[c].status # api[c].status
                      /\ api'[c].status.reason # "")
       => w.req = c /\ w.cr.uid = api'[c].uid]_vars

\* No CR is lost from sight, whatever fails and whenever the process dies: it is
\* queued, will be queued by a timer or by a watch event still to come, or is
\* being reconciled.
NeverForgotten ==
  \A c \in CRs : api[c].exists => c \in queue \/ c \in timers \/ w.req = c \/ ~synced[c]

\* The replicas of c are what some length of its own queue calls for, or were set by hand.
OwnScale(c) ==
  LET d == wl[c]["Deployment"]
  IN  d.exists => \/ d.replicas \in UserScales
                  \/ \E q \in QueueLengths[c], s \in Specs :
                       d.replicas = DetermineDesiredReplicas(q, s)

\* The Azure DevOps client sits in a field that all reconciles share: still the queue that
\* decides on a CR is read with the client made for it, whatever other reconciles, failures
\* and crashes come before, and every CR is scaled from the queue of its own pool only.
OwnQueueOnly ==
  /\ w.pc = "handle" => injected = w.req
  /\ \A c \in CRs : OwnScale(c)

\* When the operator lets a CR go, no agent of that CR is left which was there
\* when it listed the pool: failures, lost answers and agents that remove
\* themselves half-way end the attempt, they never skip an agent.
NoAgentSurvivesCleanup ==
  [][\A c \in CRs : released'[c] # released[c] => \A a \in standing : Owner(a) # c]_vars

\* "Match agents to CR": the cleanup of a CR removes only agents of that CR.  It goes
\* by a prefix of their names, which is the name of the CR and a hyphen.
CleansUpOwnAgentsOnly ==
  [][\A a \in Agents :
       (w.pc = "purge" /\ w.why = "finalizer" /\ w' # w
          /\ agents[a] # "absent" /\ agents'[a] = "absent") => Owner(a) = w.req]_vars

\* No lost update: the operator writes whole objects from copies it read earlier, yet
\* never undoes what a user did.  It makes no CR, and changes neither the spec of one
\* nor which incarnation it is nor its deletion mark; the only CR it ends is one that
\* a user has deleted.
UsersDecide ==
  [][edits' = edits => \A c \in CRs :
       \/ /\ api[c].exists /\ api'[c].exists
          /\ api'[c].uid = api[c].uid /\ api'[c].spec = api[c].spec
          /\ api'[c].deleting = api[c].deleting
       \/ ~api'[c].exists /\ (api[c].exists => api[c].deleting)]_vars

\* A CR in mode Jobs is served once: a finished Job of the stored incarnation stays as
\* it is, whatever the queue, the spec and the mode become.
FinishedJobStays ==
  [][\A c \in CRs : LET j == wl[c]["Jobs"] IN
       (j.exists /\ j.finished /\ api[c].exists /\ api[c].uid = j.uid)
         => wl'[c]["Jobs"] = j]_vars

\* How far a reconcile has come, and how far the cleanup with one agent.
Stage(x) ==
  CASE x.pc \in {"addFinalizer", "list"} -> 1
    [] x.pc = "status" -> IF x.phase = "Processing" THEN 1 ELSE 6
    [] x.pc \in {"query", "purge"} -> 2
    [] x.pc = "handle" -> 3
    [] x.pc = "apply" -> 4
    [] x.pc = "observe" -> 5
    [] x.pc = "idle" -> 7

AgentStage(s) == CASE s = "enabled" -> 1 [] s \in {"disabled", "now"} -> 2 [] s = "done" -> 3

\* y is further than x: at a later stage, at a later try, or with some agent.
Further(x, y) ==
  \/ Stage(x) < Stage(y)
  \/ Stage(x) = Stage(y) /\ x.tries < y.tries
  \/ /\ Stage(x) = Stage(y) /\ x.tries = y.tries
     /\ \A a \in Agents : AgentStage(x.todo[a]) <= AgentStage(y.todo[a])
     /\ \E a \in Agents : AgentStage(x.todo[a]) < AgentStage(y.todo[a])

\* Reconcile does not run in circles: every call, answered or failed, takes it further,
\* and only the end of the process takes it back.  With the bound on the tries in
\* TypeOK, a reconcile makes finitely many calls, whatever users, agents and caches do
\* between them.
ReconcileAdvances ==
  [][w.req # None => \/ Further(w, w')
                     \/ w' = w /\ ~Work /\ ~CallFails
                     \/ Crash]_vars

\* What the user asks for and the operator can do: the CR is there, in mode
\* Deployment, the secrets are in order, no Pod is in the way.
Serviceable(c) ==
  /\ api[c].exists /\ ~api[c].deleting /\ api[c].spec.mode = "Deployment"
  /\ PATFound(secret) /\ ValidateSecrets(secret) /\ pod[c] = "none"

Served(c) ==
  LET d == wl[c]["Deployment"]
  IN  /\ d.exists /\ d.uid = api[c].uid
      /\ d.replicas = DetermineDesiredReplicas(jobs[c], api[c].spec)
      /\ d.template.image = api[c].spec.image

\* Once users and faults come to rest, every serviceable CR has its own
\* Deployment, with the replicas that its queue calls for and the image of its
\* spec, and keeps it: conflicts, stale caches, deletion and re-creation under
\* the same name, scaling by hand and restarts only delay it.
Converges == <>[](\A c \in CRs : Serviceable(c) => Served(c))

\* c is served, and nothing under way is about to undo it: neither the cache nor the
\* worker has another spec, and the replicas to be applied are the right ones.
Settled(c) ==
  /\ Serviceable(c) /\ Served(c)
  /\ cache[c].spec = api[c].spec
  /\ w.req = c =>
       /\ w.cr.spec = api[c].spec
       /\ w.pc = "apply" => w.want = DetermineDesiredReplicas(jobs[c], api[c].spec)

\* Once settled, a CR stays so until a user or Azure DevOps acts: the endless updates
\* of a Deployment that never equals its template, failed calls, lost answers,
\* conflicts, stale caches and crashes do not disturb it.
StaysSettled ==
  [][\A c \in CRs : (Settled(c) /\ edits' = edits) => Settled(c)']_vars

\* A deleted CR does not stay: with a token at hand and no Pod in the way, the
\* cleanup ends and the finalizer goes.
DeletionCompletes ==
  <>[](\A c \in CRs : (PATFound(secret) /\ pod[c] = "none")
                         => ~(api[c].exists /\ api[c].deleting))
=============================================================================
