# A formal model of the Azure DevOps agent operator

This directory holds TLA+ modules that model the operator in `src/`, the TLC
configurations that check them, and theorems about them with TLAPS proofs.
`PROJECT.json` maps every definition to the lines it models, and lists the
runs, the mutants that show that each checked property can fail, the findings,
the hazards and the theorems.

## 1. The system

The operator watches `AzureDevOps` custom resources (CRs). For each one it asks
Azure DevOps how many jobs wait in the agent pool, computes a number of
replicas, and keeps a Deployment (or one Job) of agent pods. When a CR is
deleted it removes the CR's agents from the pool before it lets the CR go, which
is what its finalizer is for.

| Component | State it keeps | Operations |
|---|---|---|
| Reconciler, `internal/interfaces/controller/azuredevops_controller.go` | `Usecase.AzureDevOpsClient`, a field that all reconciles share; otherwise only local variables | `Reconcile`, `getPATToken`, `updateStatus`, `deleteExternalAzDOResources`, `handlePodEvent`, `calculateRequeueInterval` |
| Use case, `internal/app/usecase/reconcile.go` | none | `Handle`, `determineDesiredReplicas`, `calculateRequeueInterval` |
| Kubernetes client, `internal/infra/kubernetes/` | none | `ReconcileDeployment`, `reconcileDeploymentInternal`, `ReconcileJob`, `ValidateSecrets` |
| Azure DevOps client, `internal/infra/azuredevops/` | a cache of pool ids, a rate limiter; both last one reconcile, because every reconcile makes a new client | `GetQueueLength`, `GetPoolIDByName`, `GetAgentsInPool`, `DisableAgent`, `DeleteAgent`, `doRequestWithBackoff` |
| Agent pod, `dockerfiles/start.sh` and the pod template | the registration of the agent, a signal file shared with the sidecar | register with `--replace`, run, deregister on exit, signal the sidecar |
| API types, `api/` | the schema of spec and status | |
| Manager, `cmd/main.go` | the lease of the leader, the informers | start and stop |
| Manifests, installer, previous implementations, utilities, end-to-end tests | | wiring and data, not modelled |

How they interact:

- Every **read** of the controller goes to an informer cache, which lags behind
  the API server; every **write** goes to the API server and is refused with a
  conflict if the copy it was made from is not current.
- Watch events of the CR and of the Deployments and Pods it owns put the CR's
  key into controller-runtime's **work queue**; so do the timers behind
  `RequeueAfter` and the rate limiter behind an error. One worker takes keys
  first in, first out (`MaxConcurrentReconciles` is left at 1).
- The status that a reconcile writes is an event of the CR: the operator
  triggers itself.
- All calls of one reconcile to Azure DevOps run against one **deadline** of 30
  seconds, the write of its status included.
- Azure DevOps, users, the garbage collector, the Deployment controller, the
  kubelet and the agents act at any time between two calls of the worker.

What is hard about it: the decision to create a workload and the creation lie
several remote calls apart, and the CR may be deleted, or deleted and created
again under the same name, in between; caches are stale; calls fail, or succeed
with the answer lost; an attempt that was given up may still take effect; the
process may die between any two calls; every path has to hand the key back to
the queue or the CR is never looked at again; and the agents that the operator
deletes are processes of their own, which are restarted and register again.

What makes it correct, component by component:

- *Reconciler*: no CR is lost from sight; a workload exists only under the
  protection of a finalizer; a stale copy resurrects nothing and reports to
  nobody else; a finalizer goes only when the agents that were listed have gone;
  a CR is scaled from its own queue; what the user asked for is eventually there;
  nothing a user did is undone by a write of an old copy; every reconcile comes to
  an end, and so does a deletion. In one sentence: users see the life of a CR that `Lifecycle`
  describes.
- *Use case*: the replica count is the least sufficient one within the bounds.
- *Kubernetes client*: concurrent changes are overwritten only by somebody who has
  seen them; three conflicts end a try, not the service.
- *Secrets*: one token, found by the same rule wherever it is looked for (it is
  not, see section 5).
- *Azure DevOps client*: a call that reports success has taken effect; every call
  ends, and early enough for the reconcile to report its failure; the lengths it
  reports are those of one pool.
- *Agent pod*: an agent that ends takes its registration along; a Job's pod comes to
  its end; an agent that was deleted by a cleanup that failed comes back.

## 2. The modules

| Module | Contents |
|---|---|
| `Scaling` | `determineDesiredReplicas` and the use case's `calculateRequeueInterval` as operators, with the int32 conversion, and the reference definition of the replica count |
| `MCScaling` | users and Azure DevOps change bounds and queue, with any bounds and any limit on the queue; the properties of the replica count; bounds for TLC |
| `Secrets` | the two searches for the token, with their different fallbacks |
| `Reconciler` | the operator: `Reconcile` and everything it calls, between API server, caches, work queue, Azure DevOps and users |
| `Lifecycle` | the abstract specification: the life of a CR with its workloads and agents, as a user may rely on it |
| `Implementation` | the refinement mapping from `Reconciler` to `Lifecycle` |
| `MCReconciler` | instances for TLC, and claims of comments as properties |
| `RemoteCall` | the abstract specification of a call to a remote service |
| `AzdoClient`, `MCAzdoClient` | the client of one reconcile, with time, a slow server and lost answers; its refinement of `RemoteCall` |
| `AgentPod`, `MCAgentPod` | the agents' pods: `start.sh`, the shell around it, the dind sidecar, the kubelet, Azure DevOps |
| `ScalingProofs`, `MCScalingProofs` | theorems about the replica count |
| `ReconcilerTypes` | type correctness, and what each kind of step of `Reconciler` does |
| `ReconcilerProofs` | the inductive invariant and the theorems about finalizers, workloads, status, the shared client, settled CRs, users' changes, finished Jobs and the progress of a reconcile |
| `CleanupProofs` | the theorems about the cleanup |
| `ImplementationProofs` | `Reconciler` implements `Lifecycle` |
| `AzdoClientProofs` | the theorems about the client |
| `AgentPodProofs` | what `Lifecycle` promises, and the theorems about the pods |

`Reconciler` extends `Scaling` and `Secrets`. `AgentPod` extends `Lifecycle`: the
operator that its pods live with is the abstract one, which `Reconciler` is shown
to implement. So whatever the pods do with *any* operator that keeps to `Lifecycle`
they do with this one. In the same way `Reconciler` looks at Azure DevOps through
calls that `RemoteCall` describes and `AzdoClient` is shown to implement.

### Reconciler: state

| Variable | In the system |
|---|---|
| `api`, `wl` | the CRs, and the Deployment and the Job of each CR, in the API server |
| `cache`, `wcache` | the informers' copies of them |
| `synced`, `wsynced`, `fresh` | whether a cached copy, or the worker's copy of the CR, has the current resource version |
| `queue`, `timers` | the work queue; the keys that will come back to it later |
| `w` | the worker: `w.pc` is the next remote call `Reconcile` makes, `w.cr` its copy `crCopy`, `w.phase` and `w.tries` the arguments and the loop counter of `updateStatus` (and the counter of the retry loop of `reconcileDeploymentInternal`), `w.todo` what is left of the cleanup loop, `w.want` the replicas to apply |
| `injected` | the CR whose client is in `Usecase.AzureDevOpsClient` |
| `agents`, `jobs` | the agents registered in the pool; the waiting jobs of each CR's pool |
| `secret`, `pod` | the secrets; whether a Pod has the CR's own name |
| `standing` | the agents of the last listing that have been registered ever since: those to which the ids in the worker's list still apply |
| `released` | history for properties: the incarnations whose finalizer was removed |
| `edits`, `faults` | counters that bound users and faults |

### Reconciler: actions

A step of the worker is one remote call together with the local computation up
to the next one, so everything else may happen between any two calls.

| Code | Actions |
|---|---|
| `Reconcile`: the Pod of the key's name, the missing CR, the deleted CR, the missing finalizer, the main path | `StartPod`, `StartGone`, `StartDeleted`, `StartUnguarded`, `StartGuarded` |
| the Update with the finalizer | `AddFinalizer` |
| `deleteExternalAzDOResources`, the end of `handlePodEvent` | `ListAgents`, `DisableAgent`, `DeleteAgent`, `AgentMissing`, `RemoveFinalizer`, `PodHandled` |
| `updateStatus` | `UpdateStatus`, once per try |
| `getPATToken` and the first `GetQueueLength` | `QueryQueue` |
| `Usecase.Handle` | `Handle` |
| `reconcileDeploymentInternal`, `ReconcileJob` | `CreateWorkload`, `UpdateDeployment`, `UpdateDeploymentRefused`, `UpdateJob` |
| reading the Deployment back | `Observe` |
| any call that fails without effect, the deadline of the reconcile | `CallFails` |
| a call that takes effect and whose answer is lost | the reply `"lost"` of `DisableAgent`, `DeleteAgent`, `CreateWorkload`, `UpdateDeployment` |
| process death, restart, change of leader | `Crash` |
| informers, delayed requeues | `SyncCR`, `SyncWorkload`, `TimerFires` |
| users, other controllers, agents, Azure DevOps | the disjuncts of `Environment` |

### Lifecycle and the refinement mapping

| Variable of `Lifecycle` | in `Reconciler` (`Implementation`) |
|---|---|
| `phase` | `absent`, `open` (no finalizer yet), `guarded`, `deleting`, from `api` |
| `uid` | `api[c].uid` |
| `work` | the incarnation each stored workload belongs to, from `wl` |
| `pool` | the agents that are registered, disabled ones included |
| `listed`, `standing` | the worker's request and `standing`, while the worker is in a cleanup that can still succeed: it lists for the finalizer and its copy of the CR is current (`Releasing`); otherwise none |

Caches, queue, timers, retries, status, secrets and the client's field have no
counterpart. `Lifecycle` says what a user may rely on: a workload comes into being
only for the incarnation that is there and guarded; a guarded CR never vanishes at
once; it goes only through a listing of the pool, after every listed agent of its
own has left.

### AzdoClient

| Variable | In the code |
|---|---|
| `now` | the time since the context of the reconcile was made; the client is made later, after `updateStatus(Processing)` and the search for the token, at any of `Starts` |
| `plan`, `results` | the methods the reconcile still calls, and how the others ended |
| `req`, `pc`, `attempt`, `until` | the request under way, the loop counter of `doRequestWithBackoff`, and what is waited for |
| `reply` | the answer to the current attempt: its code, the pool it is about, its `Retry-After` |
| `flight` | attempts the server has not dealt with: a change may take effect long after the client has given it up |
| `gone`, `poolID` | the server: whether what the last changing call was to do is done (its agent is disabled, or deleted), and the id the pool's name stands for |
| `cached` | the cache of pool ids |
| `waited`, `asked` | history for `TimeToReport`: the time that passed before the client was made and while it waited for answers; whether the server has asked for a wait |

| Code | Actions |
|---|---|
| a method begins; its first request (`GetPoolIDByName` with its cache) | `Call` with `FirstRequest` |
| one turn of the loop of `doRequestWithBackoff` up to `client.Do`, limiter included | `Send` |
| `client.Do` returns an error; the backoff with its jitter | `DoFails`, `Sleep`, `Backoffs` |
| 429 with `Retry-After` in its forms | `TooManyRequests` |
| any other answer, judged by the method | `ReceivePool`, `ReceiveJobs`, `ReceiveAgents`, `ReceiveDisabled`, `ReceiveDeleted` |
| the wait is over: the next attempt, or the end of the loop | `Wake` |
| the manager shuts down | `Cancelled` |
| the server takes effect now, later or never; answers, or the answer is lost | `Serve` |
| an administrator replaces the pool | `ReplacePool` |

`DisableAgent` and `GetAgentsInPool` use `client.Do` directly, without attempts and
limiter. The loop sleeps after its last attempt too, and a 429 answer to the last
attempt is returned with its body closed, which every caller turns into an error.
The five minutes of the pool-id cache never pass, because the client is as old as its
reconcile; a failed call ends the plan, for `Reconcile` and
`deleteExternalAzDOResources` return on the first error. The limiter, which a request
waits for once, before its first attempt, lets five requests pass in a second, one
at a time: it holds a request up for 0.2 s at most, less than a tick, and only when
the request before it was answered within that time, and so used none of its own waits.

### AgentPod

`pods[a]` is the pod whose agent registers as `a`: where its agent container is
(`starting`, `serving`, `removing`, `ended`, `killed`), the kind of its workload,
the signal file `/usr/share/pod/done`, the sidecar, and whether the pod is being
deleted. `reachable` is whether Azure DevOps answers. Workloads, registrations and
CRs are the variables of `Lifecycle`.

| Code | Actions |
|---|---|
| `start.sh` up to `config.sh` | `PrepareFails`, `Configure`, `ConfigureFails` |
| `run.sh`, the traps, `cleanup` with its retry loop | `RunEnds`, `Remove` |
| the shell in front of `start.sh` and its trap on EXIT, in the pod template | `Ends`, and what `Terminate` does not do |
| the sidecar's command | `DindExits`, `DindRestarts` |
| restart policies of the two kinds | `Restarts`, `RestartContainer` |
| `Owns(&corev1.Pod{})` and `handlePodEvent` for such a pod | `PodGone`: nothing happens |
| `deleteExternalAzDOResources` | `Cleanup`, with `List`, `Abandon` and `Release` of `Lifecycle` |
| kubelet, kernel, garbage collector, Azure DevOps | `Schedule`, `Killed`, `Terminate`, `CollectWork`, `Outage`, `Recover` |

### Abstractions

- A resource version is compared only with the current one, so it is one bit.
  A write that changes nothing makes no new version and no event, as in the API
  server.
- An informer delivers the current object and may skip intermediate ones. The
  work queue is a set: it removes duplicates, and nothing depends on the order of
  different keys except fairness (below).
- `Reconcile` reads the secrets when it uses them; a stale read of a Secret is not
  modelled.
- In `Reconciler` the pod template is reduced to the image and to whether the API
  server has filled in its defaults. A template read back therefore never equals a
  built one, and `needsUpdate` is true in every reconcile, as it is in the code; the
  Update then changes nothing. `AgentPod` models what the template describes.
- The two Updates of the finalizer are one action: the first returns the stored
  object, so the second finds nothing to change, or fails with a conflict, and
  `Reconcile` returns in either case.
- A name is a sequence of tokens, so that the prefix tests of the cleanup mean
  what they mean on strings. An agent is called `<cr>-<suffix>`
  (`AgentsAssumption`): its host name is its pod's name, and the suffix, one token,
  stands for the hashes that the controllers append. `start.sh` (line 89) prefers
  `AZP_AGENT_NAME`, which `spec.env` can set (`reconcile.go` 82): an agent with such a
  name is outside the model, and no cleanup finds it (section 5).
- `DisableAgent` and `DeleteAgent` go by the id in the listing. An agent that has left the
  pool since and registered again has another one, and the call gets 404
  (`AgentMissing`): `standing` says which of the listed agents still have theirs.
- The pool's name comes with each `GetQueueLength`, from the CR in hand; what the shared
  client fixes is organisation, project and token. In the model the client fixes the
  queue as a whole, which makes a confusion of clients worse than it would be.
- Finalizers are stored and removed by the operator only. A user who removes one by hand
  (the way out of finding 1) ends the CR without a cleanup, and while the worker
  still has its copy, `NoResurrection`, `StatusStaysWithIncarnation`,
  `WorkloadsGuarded`, `UsersDecide` and `ImplementsLifecycle` say nothing about it.
- Azure DevOps refuses to delete an agent that runs a job: a `CallFails` in the
  cleanup.
- The fields of the status that `Handle` sets are not state: the caller reports
  from its own copy. Events, logs, messages, conditions other than the reason of
  `Ready`, and `LastScalingTime` are left out, and so is the length of a requeue
  interval: a timer fires at any time.
- All CRs share one namespace, and the agents one pool.
- `Listing` is the set of outcomes `GetAgentsInPool` may have. `"ok"` is what the
  `Client` interface promises; the shipped implementation only ever has `"error"`
  (finding 1, and `ReceiveAgents` in `AzdoClient`). Runs about the cleanup use
  `"ok"` too: they are about `deleteExternalAzDOResources`, which is written
  against the interface.
- `Half` is half the range of int32, 2^31 in the code. TLC uses 16; the theorems
  hold for any value above 10, the real one included.
- The buildkit sidecar of the pod template has no state and never exits; it is left
  out of `AgentPod` (a Job's pod that has one does not end).

## 3. What the runs check

| Run | Question | Result |
|---|---|---|
| `scaling` | Is `determineDesiredReplicas` within the bounds, least sufficient, and free of jumps, for absent, negative and swapped bounds and across the wrap of int32? | holds |
| `lifecycle` | One CR is created, deleted and created again while its agents register and vanish, with one crash, failed call or lost answer anywhere: do finalizer, workload, status and cleanup stay with the right incarnation, and is every behaviour one of `Lifecycle`? | holds |
| `modes` | The same with every mode, edits of the spec and a token that disappears: is the CR never lost from sight, does no write undo what a user did, and does a finished Job stay? | holds |
| `two_pools` | Two CRs, one shared client field: is the queue that decides on a CR read with its own client, and is each scaled from its own queue, is neither forgotten, and does the cleanup of one spare the other's agent, when no name is a prefix of the other? | holds |
| `converge` | Does a serviceable CR get, and keep, the Deployment it should have? Does only an edit take it away? | holds, the first under fairness |
| `deletion` | Does every deletion end when agents can be listed, while the token comes, goes and moves to the namespace `default`, and a Pod with the CR's own name takes the CR's place in `Reconcile`? Does every call take a reconcile and its cleanup further? | holds, the first under fairness |
| `client` | With the true times, and a client that is made half a second or 25 s into its reconcile: is every call of the client a remote call that ends, are the queue lengths of a reconcile those of one pool, is there time left to report a queue length that cannot be had, and does no step go back? | holds, the first under fairness |
| `agent_pod` | Do agents that end deregister, do Job pods end, do agents that were deleted by a failed cleanup return? Has no CR that may vanish at once a workload of its own? | holds, the first three under fairness |
| `deletion_shipped` | Does a deletion end with `GetAgentsInPool` as it is? | no: finding 1 |
| `timer_paced` | Is a CR at rest reconciled when its timer fires? | no: finding 2 |
| `prefix` | Does the cleanup of a CR leave other CRs' agents alone? | no: finding 3 |
| `teardown` | Does an agent leave the pool with its pod? | no: finding 4 |

The properties of `Reconciler`:

- `WorkloadsGuarded`: a workload belongs to an incarnation that has its finalizer
  stored, or to one that left through the finalizer. This is what the early return
  after adding the finalizer is for.
- `NoResurrection`: at the moment a workload is created, the CR it is created for is
  the stored one and has its finalizer, although the worker has looked at it many
  calls ago, and in a cache. It holds because only the one worker removes a
  finalizer, and only after it has seen the deletion in the same cache.
- `StatusStaysWithIncarnation`: `updateStatus` re-reads by name, yet never writes the
  status of one incarnation to another. It holds for the same reason.
- `NeverForgotten`: every existing CR is in the queue, behind a timer, in the
  worker's hands, or has a watch event to come.
- `OwnQueueOnly`: when `Handle` reads the queue, the client in the shared field is the
  one made for the CR in hand, whatever reconciles of other CRs, failures and crashes came
  before; and the replicas of a Deployment are what *some* length of the queue of its
  own CR calls for with *some* spec, or were set by hand. (That it is the present
  length and spec, once things have settled, is `StaysSettled` and `Converges`.) With
  one worker no two reconciles interleave on the field; with more of them the
  property would fail.
- `NoAgentSurvivesCleanup`: when a finalizer goes, no agent of the CR is left that was
  registered at the listing and has been since. It does not speak of agents that
  register later; these do survive (section 5).
- `ImplementsLifecycle`: all of the above that a user sees, as a refinement: the
  operator's behaviours, mapped by `Implementation`, are behaviours of `Lifecycle`.
- `CleansUpOwnAgentsOnly`: the cleanup of a CR removes agents of that CR only. True in
  `two_pools`, false in `prefix`.
- `Converges`, `DeletionCompletes`: liveness.
- `UsersDecide`: the finalizer is stored and removed by an Update of the whole CR, from
  a copy that is several calls old. No such write changes a spec, an incarnation or
  a deletion mark, and the only CR that ends without a user's step is one a user has
  deleted. The mutant drops the check of the version: an edit is then lost.
- `FinishedJobStays`: a finished Job of the stored incarnation is not touched again
  by anyone, whatever the queue, the spec and the mode become. A CR in mode Jobs is
  served once. (A user who deletes the Job by hand is not modelled; the code sets no TTL.)
- `ReconcileAdvances`: every call takes the reconcile to a later stage, a later try or one
  step further with some agent of the cleanup, also when it fails or its answer is lost;
  nobody but a crash takes it back. The order is bounded, so a reconcile makes
  finitely many calls whatever happens between them: the part of the termination of
  `Reconcile` that needs no fairness.
- `StaysSettled`: the safety side of `Converges`, for faults that never end. A CR is
  `Settled` when it is served and neither the cache nor the worker has a spec other than
  the stored one, nor the worker, about to apply it, an outdated replica count. No
  step undoes that but an edit. It is not obvious: the Deployment is written in every
  reconcile, because it never equals its template; the worker may still have an older
  incarnation of the CR in hand; and it reads the queue twice, of which only the second
  reading may decide.

The properties of `AzdoClient`:

- `OnePool`: a reconcile decides with one `GetQueueLength` and reports another, and the
  pool's name may come to stand for another pool in between; both lengths are of one
  pool because the id is looked up once.
- `TimeToReport`: three attempts, two or three waits with jitter and the time-outs add
  up to just less than the deadline, so that `Reconcile` can still write the status
  `Failed` with the context they share, when a `GetQueueLength` fails. It holds if what
  the reconcile did before it made the client, `updateStatus(Processing)` with its
  sleeps and round trips above all, and all the answers together take no more than one
  time-out, and the server asks for no wait of its own. At worst half a second is
  left: enough for the 0.3 s that the retries of `updateStatus(Failed)` sleep,
  not for slow answers to it. A server that hangs in
  every attempt, or a `Retry-After` of a minute, uses up the deadline, and the status
  is then not written: `CallFails` at `w.pc = "status"`.
- `ImplementsRemoteCall`: a `DisableAgent` or `DeleteAgent` that reports success has
  taken effect, through whichever attempt; after an error it may still take effect,
  later than the call, and no other one is begun; and every call ends. This is what justifies the replies of
  `Reconciler`: `"ok"`, `"lost"`, `CallFails`, and (for the late effect)
  `Deregister`.

- `CallsAdvance`: every step of the client is one forward: in the plan, in the method
  (pool id, then the request proper), in the attempts or within an attempt. The time
  is no part of the measure. A 429 with a negative `Retry-After` is retried at once, and
  then nothing but the number of attempts ends the loop.

The properties of `AgentPod`:

- `GracefulAgentsLeave`: an agent whose container is on its way out leaves the pool,
  through outages and whatever the operator's cleanup does to its registration
  meanwhile, unless it is killed in the middle.
- `JobPodsEnd`: the pod of a Job comes to an end with its sidecar, which waits for the
  file that the agent container has to leave. A container killed as a whole by the
  kernel leaves none: then the sidecar waits for ever, as the property's last
  disjunct admits.
- `AgentsReturn`: a cleanup that deletes an agent and fails before the CR is released
  does not leave the pods of a CR in service idle.

- `OpenHasNoWork`, a property of `Lifecycle`: a CR without its finalizer, which may
  vanish without a cleanup, has no workload of its own, though workloads of earlier
  incarnations of its name may still be there.

The type invariants include facts that are not mere types: no retry loop makes a
fourth try, `Handle` never runs without a client, no wait of the client is planned
beyond the deadline, nothing of a pod is left where there is none, and an agent that a
listing still counts on is registered.

### Bounds, and why they are enough

- `MaxUid = 2` incarnations: a confusion of incarnations needs an old and a new
  one, and a third plays the role of either.
- `MaxEdits` counts what users, agents and Azure DevOps do. `lifecycle` has 6: create,
  delete, create again, delete again, and two steps of agents (or any other six);
  `deletion` and `prefix` 4; `two_pools` 4: create both CRs, register an agent, delete
  one of them; `converge` and `modes` 3, which is enough to create a CR and to take two
  more steps with it: delete it and create another, or change its spec, its queue (there
  and back), its replicas or its Secret. Steps of the cluster and the operator are not
  counted.
- `MaxFaults = 1` in `lifecycle`, `modes`, `converge` and `deletion`: one crash, failed
  call or lost answer, at any call. The theorems hold for any number of faults.
- `lifecycle` has two agents so that the cleanup can fail between them. Two CRs share
  the worker, the client and Azure DevOps in `two_pools`; their queues call for three
  replicas and for one. In `converge` queues of 0 and 8 jobs call for the minimum and
  for two replicas; elsewhere the queue stays as it is, for nothing there depends on it.
- `Progressing` says for which CRs Deployments report readiness. `lifecycle` has
  it, because it makes watch events and conflicts; elsewhere it is off to keep the
  number of states down.
- `scaling`: bounds -1, 0, 1, 2, 3, 7, 12 (not positive, ordered and swapped, below and
  above the defaults), and queues of 0 to 160 jobs, beyond two wraps of the
  conversion with `Half = 16`.
- `client`: the times of the code, a deadline of 30 s, a time-out of 10 s, a base delay
  of 1 s, three attempts. A tick is half a second, the largest that divides them and
  distinguishes a wait from the same wait with its jitter. `Retry-After` is absent (or
  unreadable, or 0), negative, or a minute; two ids for the pool, so that it is
  replaced once; the sequences of methods are those that `Reconcile` calls and
  `deleteExternalAzDOResources` calls for one agent, which it repeats for the others
  (`AllPlans`). `Starts` has the client made after one tick, the regular case, and after
  50 of the 60, so that the deadline falls into every kind of wait.
- `agent_pod`: one agent name, for the pods of a CR influence each other only through the
  operator, which `Lifecycle` leaves free; two incarnations of the CR, so that a pod
  may outlive its own; both kinds of workload; three mishaps, so that a start, a cleanup
  and Azure DevOps can fail in one life of a pod.

Deadlock is not checked in the runs of `Reconciler`, `AzdoClient` and `AgentPod`: with
no CR and nothing queued the operator is at rest, a reconcile's calls come to an end,
and so do pods. None of this is an error. (In any other state `NeverForgotten` says
that something is pending, and the liveness properties that it leads somewhere.)

### Fairness

`Reconciler!FairSpec` assumes

- weak fairness of the worker's calls: every call has a timeout and `Reconcile` a
  deadline, so the worker does not stand still;
- weak fairness of the informers and timers: client-go and controller-runtime deliver
  them;
- strong fairness of `Start(c)` for each CR: the work queue is first in, first out,
  so a key in it is taken before others are taken twice. (Weak fairness would not
  do: `Start(c)` is disabled whenever the worker is busy with another key.)
- weak fairness of the garbage collector and the Deployment controller.

Nothing is assumed of users, agents, Jobs or Azure DevOps, and faults are bounded by
`MaxFaults`: liveness is about what follows the last fault. With unbounded faults
(a secret that is never there, an API that never answers) neither property could
hold.

`AzdoClient!FairSpec` assumes weak fairness of the client's own steps and of time.
`DoFails` is possible in every wait, so fairness demands no answer from the server:
it says that the time-out of `http.Client` works.

`AgentPod!FairPodSpec` assumes that containers run and are restarted (kubelet), that
orphans are collected, and that outages end. An agent may serve for ever, but one that
is no longer registered gives up: Azure DevOps refuses its session. Nothing is
assumed of users or of the operator.

## 4. What is proved

| Theorem | States |
|---|---|
| `TypeCorrect` | `Spec => []TypeOK` for `Reconciler` |
| `NoCRForgotten` | `Spec => []NeverForgotten` |
| `WorkloadsAlwaysGuarded` | `Spec => []WorkloadsGuarded` |
| `WorkloadsNeverResurrected` | `Spec => NoResurrection` |
| `StatusNeverMisplaced` | `Spec => StatusStaysWithIncarnation` |
| `CleanupIsComplete` | `Spec => NoAgentSurvivesCleanup` |
| `CleanupSparesOthers` | `NamesApart => (Spec => CleansUpOwnAgentsOnly)` |
| `SettledForGood` | `Spec => StaysSettled` |
| `ScaledFromOwnQueue` | `Spec => []OwnQueueOnly` |
| `UsersAlwaysDecide` | `Spec => UsersDecide` |
| `FinishedJobsStay` | `Spec => FinishedJobStays` |
| `ReconcilesAdvance` | `Spec => ReconcileAdvances` |
| `OperatorImplementsLifecycle` | `Spec => ImplementsLifecycle` |
| `ClientTypeCorrect` | `Spec => []TypeOK` for `AzdoClient` |
| `QueueLengthsOfOnePool` | `Spec => []OnePool` |
| `FailuresInTime` | `Spec => []TimeToReport`, for waits that fit into the deadline |
| `ClientImplementsRemoteCall` | the safety part of `ImplementsRemoteCall` |
| `ClientAdvances` | `Spec => CallsAdvance` |
| `LifecycleGuards` | `Spec => []OpenHasNoWork` for `Lifecycle` |
| `PodsKeepLifecycle` | `PodSpec => Spec`: the pods implement `Lifecycle`; with it `PodsOfOpenCRs` |
| `PodTypeCorrect` | `PodSpec => []PodTypeOK` |
| `ScalingWithinBounds`, `ScalingMatchesReference` | the replica count, for every width of int32 |
| `ScalingIsSmooth` | `Spec => SmoothScaling` for `MCScaling`, with any bounds and queue |
| `ReplicasMonotone` | a longer queue never gets fewer replicas |
| `NeverPolledSlowly` | the longer requeue interval of the use case is never chosen |

They hold for any set of CRs, agents, specs and queue lengths, any plans and times, and
any bounds. The assumptions are the named ones of `Scaling` (`HalfAssumption`),
`MCScaling` (`MCScalingAssumption`), `Reconciler` (`NamesAssumption`,
`AgentsAssumption`, `SpecsAssumption`, `InputsAssumption`, `BoundsAssumption`),
`AzdoClient` (`TimesAssumption`, `PlansAssumption`, `PoolsAssumption`) and `AgentPod`
(`PodAssumption`). They only say what kind of values the constants are, and in `PlansAssumption` that a
reconcile looks up the id of the pool first and reads nothing any more once it has
changed something. Two theorems have a hypothesis besides:

- `FailuresInTime` assumes `WaitsFit(W, L)`: one time-out and the waits of at most `L`
  requests that succeed and of one that fails end before the deadline, when `W` bounds
  the waits before each attempt. It is a fact about numbers alone; TLC evaluates it for
  the numbers of the client (`DelaysAssumption`).
- `CleanupSparesOthers` assumes `NamesApart`: no agent has the prefix `<cr>-` of a CR that
  it does not belong to. The lemma `ApartByName` puts this in terms of the names of CRs:
  none begins with the name of another one and a hyphen. The CRs of `two_pools` satisfy
  it, those of `prefix` do not.

**The operator.** `ReconcilerTypes` first shows what each kind of step can do: every
step of the running worker is a `WorkStep` (it moves on with the same object or ends
and hands its key to the timers; it writes a CR only from a current copy; it creates
a workload only where there is none), and every step of the environment is a
`UserStep`, a `ClusterStep` or happens elsewhere. The proofs about workloads and
status then no longer look at single actions.

`TypeOK` is inductive together with `ModeKnown` (a workload is applied for a known mode
only), and `NeverForgotten` is inductive with the types alone.
`WorkloadsGuarded` is not: nothing in it says why the CR that the worker read long ago
should still be guarded when the workload is created. The strengthening is

    IInv == TypeOK /\ Coherent /\ CacheGuarded /\ WorkerGuarded /\ CleanupCurrent
              /\ ModeKnown /\ WorkloadsGuarded

- `Coherent`: a cached copy that counts as current equals the stored object.
- `CacheGuarded`: a cached CR that looks guarded, having its finalizer and not being
  deleted, *is* guarded, however old the copy: its incarnation is stored
  with its finalizer.
- `WorkerGuarded`: the same of the worker's copy on its main path. Users
  cannot break it, because deleting a guarded CR only marks it; and the worker cannot
  remove the finalizer while it is on the main path.
- `CleanupCurrent`: while the cleanup may still succeed (its copy is current), the
  cache shows the deletion of the very incarnation the worker has. So removing the
  finalizer cannot break `CacheGuarded`.

**The cleanup.** `CleanupIsComplete` adds `Listed`: every agent of the listing that has
been registered ever since and that the cleanup matches is still on the worker's list.
Each step that takes an agent off the list has deleted it, or has ended the attempt. The
rest is about names: an agent of the CR has the prefix that is looked for
(`OwnAgentsMatch`), which is where `AgentsAssumption` is used. `Listed` says the converse
too: what is on the worker's list matches. `CleanupSparesOthers` follows, for the worker
takes an agent out of the pool only from that list, and a match is an agent of the CR
where names are apart.

**The shared client.** `OwnQueueInv` says that at `Handle` the client in
the field is the request's, and from there to the end of the retries the replicas to
apply are what the request's own queue called for.

**Settled CRs.** `StaysSettled` needs no invariant of its own: `Settled` holds all that a
step relies on about the present, and `IInv` and `OwnQueueInv` what it relies on
about the past. A cleanup under way cannot release a settled CR, because
its copy would have to be current and the CR marked (`CleanupCurrent`); an
update of the Deployment starts from the stored one (`Coherent`) and writes what is
there; `Handle` computes from the request's own queue (`OwnQueueInv`); garbage
collection spares the workload of the stored incarnation; and a crash replaces the cache
by what is stored. The theorem has no bound on faults, which liveness cannot do without.
Together with `Converges` it says that a CR gets to where it belongs after the last
fault, and that faults alone never move it from there.

**Users, Jobs.** For `UsersAlwaysDecide`, a write by the worker is from the stored object
(`Coherent`), so it changes what the worker changed and nothing else; that the cleanup
removes the finalizer of a CR that is marked is `CleanupCurrent`. `FinishedJobsStay` looks at
the writes of Jobs: a `Creates` needs that none is stored, an `Updates` is of a
Deployment, a `ClusterStep` changes no finished Job but to collect it, and the collector
spares that of the stored incarnation.

**Progress.** `ReconcilesAdvance` rests on `TypeOK` alone, which bounds the tries. The fields
that `Further` looks at are changed by few kinds of move (the end, the report of a failure,
the way to the next stage, a retry, a call about an agent), each with a lemma
of its own; the calls follow from them. That the order has no infinite ascent is
plain from its bounds, but it is induction over data, and so is told here and not proved.
`ClientAdvances` is the same for the client and rests on its invariant: when an attempt
is under way the plan is not empty, so a return shortens it.

**The refinement.** Initial states map to initial states (`InitMapped`); for every kind of
step `ImplementationProofs` has a lemma that names the step of `Lifecycle` it maps to, or
that it maps to none. The two hard ones are `CreateWorkload`, which must be an `Apply`
under a guard (`IInv` gives the guard), and `RemoveFinalizer`, which must be a `Release`
with none of the listed agents left (`Listed`). While the worker's copy is current,
nobody else has written the CR, so `Releasing` ends as soon as a user interferes: an
`Abandon`.

**The client.** The inductive invariant is `TypeOK /\ Calling /\ Resting /\ PlanLeft /\
PoolKept`: the request under way belongs to the method under way, a change that was
answered with success has been made, no answer is left over between two methods, and
every queue length so far is one of the remembered pool.

For the deadline, `TimeInv(W, L)` says where the time has gone: in no state has more
passed than was gone when the client was made and the answers have taken (`waited`), plus the longest waits of every request
that has succeeded, plus the waits before the current attempt. There are at most as
many such requests as methods that have returned, and the one that asked for the id
of the pool.

**The pods.** `PodTypeOK` is inductive. `PodsKeepLifecycle` then takes the
actions one by one: a container registers or leaves in `Lifecycle`, everything else the
kubelet does changes no variable of it. `OpenHasNoWork` is not inductive: a workload of
an incarnation still to come would be taken for its own by that incarnation, so
`LifecycleInv` says that there is none.

Every safety property that a passing run checks is proved. Only model-checked are the
liveness properties, for liveness under fairness is beyond the prover: `Converges`,
`DeletionCompletes`, the fairness part of `ImplementsRemoteCall`, `GracefulAgentsLeave`,
`JobPodsEnd` and `AgentsReturn`; and `WaitsFit` for the client's numbers, whose powers of
two the prover cannot compute.

## 5. Findings

1. `GetAgentsInPool` closes the response body before decoding it, so it fails on
   every answer; the cleanup never succeeds and **no deletion ever completes**
   (`deletion_shipped`).
2. The controller watches its own status updates, and every reconcile makes two
   that differ, so a CR is **reconciled without pause**; the requeue interval has no effect
   (`timer_paced`).
3. The cleanup takes every agent whose name begins with `<cr>-` for one of the CR's: with
   CRs `ci` and `ci-x` in one pool, **deleting `ci` removes the agents of `ci-x`**
   (`prefix`). Finding 1 hides it. Nothing but the prefix is to blame
   (`CleanupSparesOthers`).
4. When a pod is deleted, on scaling down for instance, **its agent stays registered** as
   long as the CR lives (`teardown`). The shell in front of `start.sh` is process 1 and
   ignores TERM, so the traps of `start.sh` never run; and `handlePodEvent`, which is
   documented to take care of it, is never called for the pods of a workload: their owner
   is a ReplicaSet or Job, and no request has a pod's name.

Disagreements that need no run, seen while modelling:

- `Reconcile` reads back a Deployment called `<cr>-agent` (`AgentName`), the use case
  creates one called `<cr>`: the status never shows the agents.
- `getPATToken` falls back to the namespace `default` if the Secret lacks the key,
  `ValidateSecrets` only if there is no Secret (`PATFound`, `ValidateSecrets`): a token
  that was found and used is then refused.
- In mode Jobs the Job is created once, with no regard to the queue, and never replaced
  once it has finished (`UpdateJob`, `FinishedJobStays`).
- A CR that is gone is "ignored", says the log (line 105), and requeued every ten seconds
  for ever (`StartGone`).
- The example of the repository's README has no `mode`, and every mode but `Jobs` and
  `Deployment` is an error (`Handle` goes to `Failed`).
- The use case's longer interval for idle pools is dead code (`NeverPolledSlowly`), and the
  controller's exponential backoff always starts over, because `LastFailedCheck` is set on a
  copy that is never stored.
- The loop of `doRequestWithBackoff` sleeps once more after its last attempt.
- The cleanup lists the pool while the pods still run: an agent that registers after the
  listing, or is restarted after its deletion, outlives the CR (`AgentsReturn` is the
  good side of it). After an edit of the pool's name or organisation the cleanup
  looks in the new pool only; and it looks for agents by the names of their pods, so
  those that `spec.env` gives an `AZP_AGENT_NAME` stay behind.
- The dind sidecar's signal file is never removed: after a restart of the agent container in
  place the restarted sidecar finds it and exits at once, again and again.
- The pod selector of every Deployment is `app=azdo-agent`, for all CRs alike.

## 6. Plan

1. `Scaling`, `Secrets`, `Reconciler`, their runs and theorems. **Done.**
2. `Lifecycle` and `Implementation`: the abstract life of a CR and the refinement, checked
   and proved. **Done.**
3. `AzdoClient` and `RemoteCall`: attempts, time-outs, the deadline, the pool-id cache,
   checked and, but for liveness, proved. **Done.**
4. `AgentPod`: `start.sh`, the sidecar, kubelet and outages together with the operator.
   Checked and, but for liveness, proved. **Done.**
5. Theorems for `NoAgentSurvivesCleanup`, `OwnQueueOnly`, `CleansUpOwnAgentsOnly` and
   `TimeToReport`; the safety half of `Converges`; users' changes, finished Jobs,
   and the safety halves of the termination of `Reconcile` and of the client. **Done.**
6. Left: a CR that is moved from one pool to another, with a pool
   per CR in place of the one in `agents`; a stale read of the Secret; a user who removes
   a finalizer by hand; agents with names of their own.

## 7. Not modelled

Of `cmd/main.go` the flags, certificates, metrics and webhook servers and health checks
(what matters of it, restarts and changes of leader, is `Crash`); manifests, CRDs, samples
and installer (data); deep copies and `v0beta0` (generated, or unused by the code above);
the previous implementations under `internal/controller_old` and `old.no` (not
compiled); `internal/domain` and `pkg/utils` (no state); the end-to-end tests;
`GetQueueIdFromName` (no caller). In `Reconciler`, events, logs, messages and the lengths
of requeue intervals; in `AgentPod`, the buildkit sidecar, probes and resource limits other
than a kill by the kernel.
