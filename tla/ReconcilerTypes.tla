--------------------------- MODULE ReconcilerTypes --------------------------
(***************************************************************************)
(* Type correctness of the operator, for every value of the constants, and *)
(* what each kind of step does: the lemmas that the other invariants of    *)
(* ReconcilerProofs rest on.                                               *)
(***************************************************************************)
EXTENDS Reconciler, ScalingProofs

\* The spec that stands for absent objects is a spec.
LEMMA SomeSpecType == SomeSpec \in Specs
BY SpecsAssumption DEF SomeSpec

\* The fields of a spec have their types.
LEMMA SpecFields ==
  ASSUME NEW s \in Specs
  PROVE  s.min \in Int /\ s.max \in Int /\ s.mode \in Kinds \cup {""} /\ s.image \in STRING
<1>1. s \in [min : Int32, max : Int32, mode : Kinds \cup {""}, image : STRING]
  BY SpecsAssumption
<1>2. s.min \in Int32 /\ s.max \in Int32 /\ s.mode \in Kinds \cup {""} /\ s.image \in STRING
  BY <1>1
<1>3. \A n \in Int32 : n \in Int
  BY HalfAssumption DEF Int32
<1>. QED BY <1>2, <1>3

\* The initial objects and the idle worker have their types.
LEMMA ObjectTypes ==
  /\ InitStatus \in Status
  /\ \A u \in Nat : AbsentCR(u) \in CRType
  /\ \A u \in Nat, s \in Specs : NewCR(u, s) \in CRType
  /\ NoWorkload \in WorkloadType
  /\ IdleWorker \in WorkerType
<1>1. InitStatus \in Status
  BY DEF InitStatus, Status
<1>2. \A u \in Nat : AbsentCR(u) \in CRType
  BY <1>1, SomeSpecType DEF AbsentCR, CRType
<1>3. \A u \in Nat, s \in Specs : NewCR(u, s) \in CRType
  BY <1>1 DEF NewCR, CRType
<1>4. NoWorkload \in WorkloadType
  BY SomeSpecType, SpecFields DEF NoWorkload, WorkloadType, Template
<1>5. IdleWorker \in WorkerType
  BY <1>2 DEF IdleWorker, NothingToDo, WorkerType
<1>. QED BY <1>1, <1>2, <1>3, <1>4, <1>5

\* A workload built for a CR has its type.
LEMMA WorkloadTypes ==
  ASSUME NEW cr \in CRType, NEW n \in Nat
  PROVE  NewWorkload(cr, n) \in WorkloadType
BY SpecFields DEF NewWorkload, WorkloadType, CRType, Template, WithDefaults

\* The initial states are type correct.
LEMMA TypeInit == Init => TypeOK
<1> SUFFICES ASSUME Init PROVE TypeOK
  OBVIOUS
<1>1. api \in [CRs -> CRType] /\ cache \in [CRs -> CRType]
  BY ObjectTypes DEF Init
<1>2. wl \in [CRs -> [Kinds -> WorkloadType]] /\ wcache \in [CRs -> [Kinds -> WorkloadType]]
  BY ObjectTypes DEF Init
<1>3. w \in WorkerType /\ (w.req = None <=> w.pc = "idle")
  BY ObjectTypes DEF Init, IdleWorker
<1>4. jobs \in [CRs -> Nat]
  BY InputsAssumption DEF Init
<1>5. secret \in Secrets
  BY InputsAssumption DEF Init
<1>6. /\ synced \in [CRs -> BOOLEAN] /\ wsynced \in [CRs -> [Kinds -> BOOLEAN]]
      /\ fresh \in BOOLEAN /\ queue \subseteq CRs /\ timers \subseteq CRs
  BY DEF Init
<1>7. /\ injected \in CRs \cup {None} /\ (w.pc = "handle" => injected # None)
      /\ agents \in [Agents -> {"absent", "enabled", "disabled"}]
  BY DEF Init, IdleWorker
<1>8. /\ pod \in [CRs -> {"none", "running", "finished"}]
      /\ standing \subseteq Agents /\ \A a \in standing : agents[a] # "absent"
      /\ released \in [CRs -> SUBSET Nat]
      /\ edits \in 0 .. MaxEdits /\ faults \in 0 .. MaxFaults
  BY BoundsAssumption DEF Init
<1>. QED
  BY <1>1, <1>2, <1>3, <1>4, <1>5, <1>6, <1>7, <1>8 DEF TypeOK

\* Updates of one field keep the type of a record.
LEMMA CRUpdates ==
  ASSUME NEW r \in CRType
  PROVE  /\ \A s \in Specs : [r EXCEPT !.spec = s] \in CRType
         /\ \A b \in BOOLEAN : [r EXCEPT !.deleting = b] \in CRType
         /\ \A b \in BOOLEAN : [r EXCEPT !.finalizer = b] \in CRType
         /\ \A s \in Status : [r EXCEPT !.status = s] \in CRType
         /\ r.uid \in Nat /\ r.spec \in Specs /\ r.status \in Status
BY DEF CRType

\* So do the updates of a status that updateStatus and Reconcile make.
LEMMA StatusUpdates ==
  ASSUME NEW st \in Status
  PROVE  /\ \A p \in {"", "Processing", "Failed", "Ready"} : [st EXCEPT !.reason = p] \in Status
         /\ \A n \in Nat : [st EXCEPT !.queued = n] \in Status
         /\ \A m, n \in Nat : [reason |-> st.reason, queued |-> st.queued, desired |-> m,
                               ready |-> n] \in Status
BY DEF Status

\* The updates of the status leave the rest of the CR alone.
LEMMA CRStatusUpdates ==
  ASSUME NEW r \in CRType, NEW st \in Status
  PROVE  LET n == [r EXCEPT !.status = st]
         IN  /\ n \in CRType /\ n.uid = r.uid /\ n.spec = r.spec /\ n.exists = r.exists
             /\ n.finalizer = r.finalizer /\ n.deleting = r.deleting /\ n.status = st
BY DEF CRType

\* The fields of n that say which object it is and what guards it are those of r.
SameObject(n, r) ==
  /\ n \in CRType /\ n.uid = r.uid /\ n.spec = r.spec /\ n.exists = r.exists
  /\ n.finalizer = r.finalizer /\ n.deleting = r.deleting

\* The operators that change the status of a CR keep its type and which object
\* it is.
LEMMA CRHelpers ==
  ASSUME NEW r \in CRType
  PROVE  /\ \A st \in Status, p \in {"", "Processing", "Failed", "Ready"} :
              SameObject(WithReason(r, st, p), r)
         /\ \A n \in Nat : SameObject(WithQueued(r, n), r)
         /\ \A m, n \in Nat : SameObject(WithAgents(r, m, n), r)
<1>1. r.status \in Status
  BY CRUpdates
<1>2. \A st \in Status : SameObject([r EXCEPT !.status = st], r)
  BY CRStatusUpdates, Zenon DEF SameObject
<1>3. ASSUME NEW st \in Status, NEW p \in {"", "Processing", "Failed", "Ready"}
      PROVE  SameObject(WithReason(r, st, p), r)
  BY <1>2, StatusUpdates, Zenon DEF WithReason
<1>4. ASSUME NEW n \in Nat PROVE SameObject(WithQueued(r, n), r)
  BY <1>1, <1>2, StatusUpdates, Zenon DEF WithQueued
<1>5. ASSUME NEW m \in Nat, NEW n \in Nat PROVE SameObject(WithAgents(r, m, n), r)
  BY <1>1, <1>2, StatusUpdates, Zenon DEF WithAgents
<1>. QED BY <1>3, <1>4, <1>5

\* Updates of one field keep the type of a workload.
LEMMA WorkloadUpdates ==
  ASSUME NEW r \in WorkloadType
  PROVE  /\ \A n \in Nat : [r EXCEPT !.replicas = n] \in WorkloadType
         /\ \A n \in Nat : [r EXCEPT !.ready = n] \in WorkloadType
         /\ [r EXCEPT !.finished = TRUE] \in WorkloadType
         /\ r.replicas \in Nat /\ r.ready \in Nat
         /\ \A n \in Nat, s \in Specs :
              [r EXCEPT !.replicas = n, !.template = WithDefaults(Template(s))]
                \in WorkloadType
<1>1. \A s \in Specs : WithDefaults(Template(s)) \in [image : STRING, defaulted : BOOLEAN]
  BY SpecFields DEF WithDefaults, Template
<1>. QED BY <1>1 DEF WorkloadType

\* A stored or cached workload has its type.
LEMMA WorkloadsTyped ==
  ASSUME TypeOK, NEW c \in CRs
  PROVE  /\ \A k \in Kinds : wl[c][k] \in WorkloadType /\ wcache[c][k] \in WorkloadType
         /\ wl[c]["Deployment"] \in WorkloadType /\ wl[c]["Jobs"] \in WorkloadType
         /\ wcache[c]["Deployment"] \in WorkloadType /\ wcache[c]["Jobs"] \in WorkloadType
<1>1. wl[c] \in [Kinds -> WorkloadType] /\ wcache[c] \in [Kinds -> WorkloadType]
  BY DEF TypeOK
<1>. QED BY <1>1 DEF Kinds

-----------------------------------------------------------------------------
(* The building blocks of the actions keep the types of what they write. *)

\* A write of a CR.
LEMMA WriteCRType ==
  ASSUME TypeOK, NEW c \in CRs, NEW new \in CRType, WriteCR(c, new)
  PROVE  api' \in [CRs -> CRType] /\ synced' \in [CRs -> BOOLEAN]
BY DEF TypeOK, WriteCR

\* A write of a workload.
LEMMA WriteWorkloadType ==
  ASSUME TypeOK, NEW c \in CRs, NEW k \in Kinds, NEW new \in WorkloadType,
         WriteWorkload(c, k, new)
  PROVE  /\ wl' \in [CRs -> [Kinds -> WorkloadType]]
         /\ wsynced' \in [CRs -> [Kinds -> BOOLEAN]]
BY DEF TypeOK, WriteWorkload

\* The counters of edits and faults stay within their bounds.
LEMMA BudgetType ==
  ASSUME TypeOK
  PROVE  /\ Edit => edits' \in 0 .. MaxEdits
         /\ Fault => faults' \in 0 .. MaxFaults
BY BoundsAssumption DEF TypeOK, Edit, Fault

\* A user's write to a CR.
LEMMA UserWriteType ==
  ASSUME TypeOK, NEW c \in CRs, NEW new \in CRType, UserWrite(c, new)
  PROVE  TypeOK'
<1>1. api' \in [CRs -> CRType] /\ synced' \in [CRs -> BOOLEAN]
  BY WriteCRType DEF UserWrite
<1>2. edits' \in 0 .. MaxEdits
  BY BudgetType DEF UserWrite
<1>3. fresh' \in BOOLEAN
  BY DEF UserWrite
<1>. QED
  BY <1>1, <1>2, <1>3 DEF UserWrite, TypeOK, workqueue, azdo, cluster, history

\* A write of a workload by somebody else than the operator.
LEMMA ClusterWriteType ==
  ASSUME TypeOK, NEW c \in CRs, NEW k \in Kinds, NEW new \in WorkloadType,
         ClusterWrite(c, k, new), edits' \in 0 .. MaxEdits
  PROVE  TypeOK'
<1>1. /\ wl' \in [CRs -> [Kinds -> WorkloadType]]
      /\ wsynced' \in [CRs -> [Kinds -> BOOLEAN]]
  <2>1. WriteWorkload(c, k, new)
    BY DEF ClusterWrite
  <2>. QED BY <2>1, WriteWorkloadType
<1>2. UNCHANGED <<api, cache, synced, wcache, fresh, workqueue, w, injected, azdo, cluster,
                  history, faults>>
  BY DEF ClusterWrite
<1>. QED
  BY <1>1, <1>2 DEF TypeOK, workqueue, azdo, cluster, history

\* Users, the cluster and Azure DevOps keep the types.
LEMMA EnvironmentType == TypeOK /\ Environment => TypeOK'
<1> SUFFICES ASSUME TypeOK, Environment PROVE TypeOK'
  OBVIOUS
<1>1. ASSUME NEW c \in CRs, CreateCR(c) PROVE TypeOK'
  <2>1. PICK s \in Specs : UserWrite(c, NewCR(api[c].uid + 1, s))
    BY <1>1 DEF CreateCR
  <2>2. api[c] \in CRType
    BY DEF TypeOK
  <2>3. api[c].uid + 1 \in Nat
    BY <2>2 DEF CRType
  <2>4. NewCR(api[c].uid + 1, s) \in CRType
    BY <2>3, ObjectTypes
  <2>. QED BY <2>1, <2>4, UserWriteType
<1>2. ASSUME NEW c \in CRs, EditSpec(c) PROVE TypeOK'
  <2>1. PICK s \in Specs : UserWrite(c, [api[c] EXCEPT !.spec = s])
    BY <1>2 DEF EditSpec
  <2>2. [api[c] EXCEPT !.spec = s] \in CRType
    BY CRUpdates DEF TypeOK
  <2>. QED BY <2>1, <2>2, UserWriteType
<1>3. ASSUME NEW c \in CRs, DeleteCR(c) PROVE TypeOK'
  <2>1. [api[c] EXCEPT !.deleting = TRUE] \in CRType /\ AbsentCR(api[c].uid) \in CRType
    BY ObjectTypes, CRUpdates DEF TypeOK
  <2>. QED BY <1>3, <2>1, UserWriteType DEF DeleteCR
<1>4. ASSUME NEW c \in CRs, SetQueue(c) PROVE TypeOK'
  <2>1. PICK n \in QueueLengths[c] : jobs' = [jobs EXCEPT ![c] = n]
    BY <1>4 DEF SetQueue
  <2>2. n \in Nat
    BY InputsAssumption
  <2>3. jobs' \in [CRs -> Nat]
    BY <2>1, <2>2 DEF TypeOK
  <2>. QED
    BY <1>4, <2>3, BudgetType
    DEF SetQueue, TypeOK, kube, informer, workqueue, cluster, history
<1>5. ASSUME NEW c \in CRs, PodEvent(c) PROVE TypeOK'
  <2>1. pod' \in [CRs -> {"none", "running", "finished"}] /\ queue' \subseteq CRs
    BY <1>5, InputsAssumption DEF PodEvent, TypeOK
  <2>. QED
    BY <1>5, <2>1, BudgetType DEF PodEvent, TypeOK, kube, informer, azdo, history
<1>6. ASSUME NEW c \in CRs, UserScale(c) PROVE TypeOK'
  <2>1. PICK n \in UserScales :
          ClusterWrite(c, "Deployment", [wl[c]["Deployment"] EXCEPT !.replicas = n])
    BY <1>6 DEF UserScale
  <2>2. [wl[c]["Deployment"] EXCEPT !.replicas = n] \in WorkloadType
    BY InputsAssumption, WorkloadUpdates, WorkloadsTyped
  <2>. QED BY <1>6, <2>1, <2>2, ClusterWriteType, BudgetType DEF UserScale, Kinds
<1>7. ASSUME NEW c \in CRs, Rollout(c) PROVE TypeOK'
  <2>1. [wl[c]["Deployment"] EXCEPT !.ready = wl[c]["Deployment"].replicas] \in WorkloadType
    BY WorkloadUpdates, WorkloadsTyped
  <2>. QED BY <1>7, <2>1, ClusterWriteType DEF Rollout, Kinds, TypeOK
<1>8. ASSUME NEW c \in CRs, JobFinishes(c) PROVE TypeOK'
  <2>1. [wl[c]["Jobs"] EXCEPT !.finished = TRUE] \in WorkloadType
    BY WorkloadUpdates, WorkloadsTyped
  <2>. QED BY <1>8, <2>1, ClusterWriteType DEF JobFinishes, Kinds, TypeOK
<1>9. ASSUME NEW c \in CRs, NEW k \in Kinds, CollectGarbage(c, k) PROVE TypeOK'
  BY <1>9, ObjectTypes, ClusterWriteType DEF CollectGarbage, TypeOK
<1>10. ASSUME SetSecret PROVE TypeOK'
  <2>1. secret' \in Secrets
    BY <1>10, InputsAssumption DEF SetSecret
  <2>. QED
    BY <1>10, <2>1, BudgetType
    DEF SetSecret, TypeOK, kube, informer, workqueue, azdo, history
<1>11. ASSUME NEW a \in Agents, Register(a) PROVE TypeOK'
  BY <1>11, BudgetType
  DEF Register, TypeOK, kube, informer, workqueue, cluster, history
<1>12. ASSUME NEW a \in Agents, Deregister(a) PROVE TypeOK'
  BY <1>12, BudgetType
  DEF Deregister, TypeOK, kube, informer, workqueue, cluster
<1>. QED
  BY <1>1, <1>2, <1>3, <1>4, <1>5, <1>6, <1>7, <1>8, <1>9, <1>10, <1>11, <1>12
  DEF Environment

-----------------------------------------------------------------------------
(* The worker's moves. *)

LocalOK ==
  /\ w \in WorkerType /\ (w.req = None <=> w.pc = "idle")
  /\ fresh \in BOOLEAN /\ timers \subseteq CRs /\ standing \subseteq Agents

\* The agents of the listing that still stand are registered.
StandingOK == \A a \in standing : agents[a] # "absent"

\* The worker goes on with the same request and the same incarnation.
SameWork == w'.req = w.req /\ w'.cr.uid = w.cr.uid /\ w'.cr.spec = w.cr.spec

Pcs == {"idle", "addFinalizer", "list", "purge", "status", "query", "handle", "apply",
        "observe"}

\* n is a worker's record with the request and the CR of r.
Keeps(n, r) == n \in WorkerType /\ n.req = r.req /\ n.cr = r.cr

\* Updates of one field of the worker's record.
LEMMA WorkerField ==
  ASSUME NEW r \in WorkerType
  PROVE  /\ \A p \in Pcs : Keeps([r EXCEPT !.pc = p], r) /\ [r EXCEPT !.pc = p].pc = p
         /\ \A t \in 0 .. 2 : Keeps([r EXCEPT !.tries = t], r) /\ [r EXCEPT !.tries = t].pc = r.pc
         /\ \A n \in Nat : Keeps([r EXCEPT !.want = n], r) /\ [r EXCEPT !.want = n].pc = r.pc
         /\ \A p \in {"", "Processing", "Failed", "Ready"} :
              Keeps([r EXCEPT !.phase = p], r) /\ [r EXCEPT !.phase = p].pc = r.pc
<1>1. \A p \in Pcs : Keeps([r EXCEPT !.pc = p], r) /\ [r EXCEPT !.pc = p].pc = p
  BY DEF WorkerType, Pcs, Keeps
<1>2. /\ \A t \in 0 .. 2 : Keeps([r EXCEPT !.tries = t], r) /\ [r EXCEPT !.tries = t].pc = r.pc
      /\ \A n \in Nat : Keeps([r EXCEPT !.want = n], r) /\ [r EXCEPT !.want = n].pc = r.pc
  BY DEF WorkerType, Keeps
<1>3. \A p \in {"", "Processing", "Failed", "Ready"} :
        Keeps([r EXCEPT !.phase = p], r) /\ [r EXCEPT !.phase = p].pc = r.pc
  BY DEF WorkerType, Keeps
<1>. QED BY <1>1, <1>2, <1>3, Zenon

\* The same for the copy of the CR and for what is left to do with the agents.
LEMMA WorkerCRField ==
  ASSUME NEW r \in WorkerType
  PROVE  /\ \A x \in CRType : LET n == [r EXCEPT !.cr = x]
                               IN  n \in WorkerType /\ n.req = r.req /\ n.pc = r.pc /\ n.cr = x
         /\ \A x \in [Agents -> {"done", "enabled", "disabled", "now"}] :
              LET n == [r EXCEPT !.todo = x] IN Keeps(n, r) /\ n.pc = r.pc /\ n.why = r.why
BY DEF WorkerType, Keeps

\* Zero is a number of tries and a number of replicas.
LEMMA ZeroTyped == 0 \in 0 .. 2 /\ 0 \in Nat
OBVIOUS

\* The updates of several fields that the worker's moves make.
LEMMA QueryUpdate ==
  ASSUME NEW r \in WorkerType
  PROVE  LET n == [r EXCEPT !.pc = "query", !.tries = 0]
         IN  Keeps(n, r) /\ n.pc = "query"
<1> DEFINE a == [r EXCEPT !.pc = "query"]
           b == [a EXCEPT !.tries = 0]
<1>1. Keeps(a, r) /\ a.pc = "query"
  BY WorkerField DEF Pcs
<1> HIDE DEF a
<1>2. Keeps(b, a) /\ b.pc = "query"
  BY <1>1, ZeroTyped, WorkerField, Zenon DEF Keeps
<1>. QED BY <1>1, <1>2, Zenon DEF Keeps, a

\* Observe: on to updateStatus, with what was read of the Deployment.
LEMMA ObserveUpdate ==
  ASSUME NEW r \in WorkerType
  PROVE  LET n == [r EXCEPT !.pc = "observe", !.tries = 0, !.want = 0]
         IN  Keeps(n, r) /\ n.pc = "observe"
<1> DEFINE a == [r EXCEPT !.pc = "observe"]
           b == [a EXCEPT !.tries = 0]
           d == [b EXCEPT !.want = 0]
<1>1. Keeps(a, r) /\ a.pc = "observe"
  BY WorkerField DEF Pcs
<1> HIDE DEF a
<1>2. Keeps(b, a) /\ b.pc = "observe"
  BY <1>1, ZeroTyped, WorkerField, Zenon DEF Keeps
<1> HIDE DEF b
<1>3. Keeps(d, b) /\ d.pc = "observe"
  BY <1>2, ZeroTyped, WorkerField, Zenon DEF Keeps
<1>. QED BY <1>1, <1>2, <1>3, Zenon DEF Keeps, a, b

\* Report: on to updateStatus with the phase p.
LEMMA StatusUpdate ==
  ASSUME NEW r \in WorkerType, NEW p \in {"", "Processing", "Failed", "Ready"}
  PROVE  LET n == [r EXCEPT !.pc = "status", !.phase = p, !.tries = 0, !.want = 0]
         IN  Keeps(n, r) /\ n.pc = "status"
<1> DEFINE a == [r EXCEPT !.pc = "status"]
           b == [a EXCEPT !.phase = p]
           d == [b EXCEPT !.tries = 0]
           e == [d EXCEPT !.want = 0]
<1>1. Keeps(a, r) /\ a.pc = "status"
  BY WorkerField DEF Pcs
<1> HIDE DEF a
<1>2. Keeps(b, a) /\ b.pc = "status"
  BY <1>1, WorkerField, Zenon DEF Keeps
<1> HIDE DEF b
<1>3. Keeps(d, b) /\ d.pc = "status"
  BY <1>2, ZeroTyped, WorkerField, Zenon DEF Keeps
<1> HIDE DEF d
<1>4. Keeps(e, d) /\ e.pc = "status"
  BY <1>3, ZeroTyped, WorkerField, Zenon DEF Keeps
<1>. QED BY <1>1, <1>2, <1>3, <1>4, Zenon DEF Keeps, a, b, d

\* A retry, while one is left.
LEMMA RetryUpdate ==
  ASSUME NEW r \in WorkerType, r.tries < 2
  PROVE  LET n == [r EXCEPT !.tries = @ + 1]
         IN  Keeps(n, r) /\ n.pc = r.pc
<1>1. r.tries \in 0 .. 2
  BY DEF WorkerType
<1>2. r.tries + 1 \in 0 .. 2
  BY <1>1
<1>. QED BY <1>2, WorkerField, Zenon

\* The end of a reconcile keeps the types of the worker's variables.
LEMMA FinishType ==
  ASSUME TypeOK, w.pc # "idle", Finish
  PROVE  LocalOK' /\ w'.pc = "idle" /\ w'.req = None /\ fresh' = FALSE
<1>1. w' \in WorkerType /\ w'.pc = "idle" /\ w'.req = None
  BY ObjectTypes DEF Finish, IdleWorker
<1>2. w.req \in CRs
  BY DEF TypeOK, WorkerType
<1>3. timers' \subseteq CRs
  BY <1>2 DEF TypeOK, Finish
<1>. QED BY <1>1, <1>3 DEF LocalOK, Finish

\* So does going on to another call,
LEMMA GotoType ==
  ASSUME TypeOK, w.pc # "idle", NEW next \in WorkerType, next.pc # "idle",
         next.req = w.req, Goto(next)
  PROVE  LocalOK' /\ w' = next /\ fresh' = fresh
BY DEF TypeOK, LocalOK, Goto

\* calling updateStatus,
LEMMA ReportType ==
  ASSUME TypeOK, w.pc # "idle", NEW p \in {"Processing", "Failed", "Ready"}, Report(p)
  PROVE  LocalOK' /\ w'.pc = "status" /\ SameWork /\ fresh' = fresh
<1> DEFINE next == [w EXCEPT !.pc = "status", !.phase = p, !.tries = 0, !.want = 0]
<1>1. w \in WorkerType
  BY DEF TypeOK
<1>2. next \in WorkerType /\ next.pc = "status" /\ next.req = w.req /\ next.cr = w.cr
  <2>1. Keeps(next, w) /\ next.pc = "status"
    BY <1>1, StatusUpdate, Zenon
  <2>. QED BY <2>1, Zenon DEF Keeps
<1>3. Goto(next)
  BY DEF Report
<1> HIDE DEF next
<1>. QED BY <1>2, <1>3, GotoType DEF SameWork

\* going on after ReconcileDeployment,
LEMMA ProceedType ==
  ASSUME TypeOK, w.pc # "idle", Proceed
  PROVE  LocalOK' /\ w'.pc = "observe" /\ SameWork /\ fresh' = fresh
<1> DEFINE next == [w EXCEPT !.pc = "observe", !.tries = 0, !.want = 0]
<1>1. w \in WorkerType
  BY DEF TypeOK
<1>2. next \in WorkerType /\ next.pc = "observe" /\ next.req = w.req /\ next.cr = w.cr
  BY <1>1, ObserveUpdate, Zenon DEF Keeps
<1>3. Goto(next)
  BY DEF Proceed
<1> HIDE DEF next
<1>. QED BY <1>2, <1>3, GotoType DEF SameWork

\* and a retry.
LEMMA RetryType ==
  ASSUME TypeOK, w.pc # "idle", MayRetry, Goto([w EXCEPT !.tries = @ + 1])
  PROVE  LocalOK' /\ w'.pc = w.pc /\ SameWork /\ fresh' = fresh
<1> DEFINE next == [w EXCEPT !.tries = @ + 1]
<1>1. w \in WorkerType
  BY DEF TypeOK
<1>2. next \in WorkerType /\ next.pc = w.pc /\ next.req = w.req /\ next.cr = w.cr
  BY <1>1, RetryUpdate, Zenon DEF Keeps, MayRetry
<1>3. Goto(next)
  OBVIOUS
<1> HIDE DEF next
<1>. QED BY <1>2, <1>3, GotoType DEF SameWork

\* From the parts to the whole: the other variables keep their types.
LEMMA TypeFromParts ==
  ASSUME TypeOK, LocalOK', StandingOK', w'.pc = "handle" => injected' # None,
         injected' \in CRs \cup {None},
         api' \in [CRs -> CRType], synced' \in [CRs -> BOOLEAN],
         wl' \in [CRs -> [Kinds -> WorkloadType]],
         wsynced' \in [CRs -> [Kinds -> BOOLEAN]],
         queue' \subseteq CRs,
         agents' \in [Agents -> {"absent", "enabled", "disabled"}],
         released' \in [CRs -> SUBSET Nat], faults' \in 0 .. MaxFaults,
         UNCHANGED <<cache, wcache, jobs, cluster, edits>>
  PROVE  TypeOK'
BY DEF TypeOK, LocalOK, StandingOK, cluster

-----------------------------------------------------------------------------
(* Informers, work queue, restart. *)

\* Watch events and timers keep the types.
LEMMA DeliverType ==
  ASSUME TypeOK, NEW c \in CRs, Deliver(c) \/ TimerFires(c)
  PROVE  TypeOK'
<1>1. CASE SyncCR(c)
  BY <1>1 DEF SyncCR, TypeOK, kube, azdo, cluster, history, budget
<1>2. ASSUME NEW k \in Kinds, SyncWorkload(c, k) PROVE TypeOK'
  <2>1. wcache' \in [CRs -> [Kinds -> WorkloadType]]
    BY <1>2 DEF SyncWorkload, TypeOK
  <2>2. wsynced' \in [CRs -> [Kinds -> BOOLEAN]] /\ queue' \subseteq CRs
    BY <1>2 DEF SyncWorkload, TypeOK
  <2>. QED
    BY <1>2, <2>1, <2>2 DEF SyncWorkload, TypeOK, kube, azdo, cluster, history, budget
<1>3. CASE TimerFires(c)
  BY <1>3 DEF TimerFires, TypeOK, kube, informer, azdo, cluster, history, budget
<1>. QED BY <1>1, <1>2, <1>3 DEF Deliver

\* A restart keeps the types.
LEMMA CrashType == TypeOK /\ Crash => TypeOK'
<1> SUFFICES ASSUME TypeOK, Crash PROVE TypeOK'
  OBVIOUS
<1>1. w' \in WorkerType /\ w'.pc = "idle" /\ w'.req = None
  BY ObjectTypes DEF Crash, Restart, IdleWorker
<1>2. faults' \in 0 .. MaxFaults
  BY BudgetType DEF Crash, Restart
<1>3. queue' \subseteq CRs /\ timers' \subseteq CRs /\ standing' = {}
  BY DEF Crash, Restart
<1>4. /\ cache' \in [CRs -> CRType] /\ wcache' \in [CRs -> [Kinds -> WorkloadType]]
      /\ synced' \in [CRs -> BOOLEAN] /\ wsynced' \in [CRs -> [Kinds -> BOOLEAN]]
  BY DEF Crash, Restart, TypeOK
<1>. QED
  BY <1>1, <1>2, <1>3, <1>4 DEF Crash, Restart, TypeOK, kube, azdo, cluster

(***************************************************************************)
(* Dequeueing: the worker stays idle, or it takes up the cached object.    *)
(***************************************************************************)
Begins(c, pc, why, phase, current) ==
  /\ Begin(c, pc, why, phase, current)
  /\ pc \in Pcs \ {"idle", "handle"} /\ why \in {"", "finalizer", "pod"}
  /\ phase \in {"", "Processing"} /\ current \in BOOLEAN

LEMMA BeginType ==
  ASSUME TypeOK, NEW c \in CRs, NEW pc, NEW why, NEW phase, NEW current,
         Begins(c, pc, why, phase, current)
  PROVE  /\ w' \in WorkerType /\ w'.pc = pc /\ w'.req = c /\ w'.why = why
         /\ SameObject(w'.cr, cache[c]) /\ fresh' = current /\ timers' = timers
<1>1. cache[c] \in CRType /\ cache[c].status \in Status
  BY CRUpdates DEF TypeOK
<1> DEFINE copy == WithReason(cache[c], cache[c].status, "")
<1>2. SameObject(copy, cache[c])
  BY <1>1, CRHelpers
<1>3. /\ w' = [pc |-> pc, req |-> c, cr |-> copy, phase |-> phase, tries |-> 0,
              why |-> why, todo |-> NothingToDo, want |-> 0]
      /\ fresh' = current /\ timers' = timers
  BY DEF Begin, Begins
<1> HIDE DEF copy
<1>4. copy \in CRType
  BY <1>2 DEF SameObject
<1>5. w'.pc = pc /\ w'.req = c /\ w'.why = why /\ w'.cr = copy
  BY <1>3
<1>6. NothingToDo \in [Agents -> {"done", "enabled", "disabled", "now"}]
  BY DEF NothingToDo
<1>7. w' \in WorkerType
  <2>1. pc \in Pcs /\ why \in {"", "finalizer", "pod"} /\ phase \in {"", "Processing"}
    BY DEF Begins
  <2>2. phase \in {"", "Processing", "Failed", "Ready"}
    BY <2>1
  <2>. QED BY <1>3, <1>4, <1>6, <2>1, <2>2, ZeroTyped, Zenon DEF WorkerType, Pcs
<1>. QED BY <1>2, <1>3, <1>5, <1>7

\* What a dequeue can do.
Taken(c) ==
  /\ timers' = timers /\ w' \in WorkerType /\ w'.req = c /\ SameObject(w'.cr, cache[c])
  /\ cache[c].exists
  /\ \/ w'.pc = "list" /\ w'.why = "pod" /\ fresh' = FALSE
     \/ /\ w'.pc = "list" /\ w'.why = "finalizer" /\ fresh' = synced[c]
        /\ cache[c].deleting /\ cache[c].finalizer
     \/ /\ w'.pc = "addFinalizer" /\ fresh' = synced[c]
        /\ ~cache[c].deleting /\ ~cache[c].finalizer
     \/ /\ w'.pc = "status" /\ fresh' = FALSE
        /\ ~cache[c].deleting /\ cache[c].finalizer

\* Every way Reconcile begins is a dequeue that leaves the worker idle or takes
\* up the cached CR.
LEMMA StartCases ==
  ASSUME TypeOK, NEW c \in CRs, Start(c)
  PROVE  /\ w.pc = "idle" /\ queue' = queue \ {c}
         /\ UNCHANGED <<kube, informer, injected, azdo, cluster, history, budget>>
         /\ \/ w' = w /\ fresh' = fresh /\ timers' = timers \cup {c}
            \/ Taken(c)
<1> DEFINE Common == /\ w.pc = "idle" /\ queue' = queue \ {c}
                     /\ UNCHANGED <<kube, informer, injected, azdo, cluster, history, budget>>
           Early == w' = w /\ fresh' = fresh /\ timers' = timers \cup {c}
<1>1. ASSUME Dequeue(c) PROVE Common
  BY <1>1 DEF Dequeue
<1>2. ASSUME ReturnEarly(c) PROVE Early
  BY <1>2 DEF ReturnEarly
<1>3. synced[c] \in BOOLEAN
  BY DEF TypeOK
<1>4. CASE StartPod(c)
  <2>1. CASE pod[c] = "finished" /\ cache[c].exists
    <3>1. Begins(c, "list", "pod", "", FALSE)
      BY <1>4, <2>1 DEF StartPod, Begins, Pcs
    <3>2. Taken(c)
      BY <2>1, <3>1, BeginType, Zenon DEF Taken
    <3>. QED BY <1>1, <1>4, <3>2 DEF StartPod
  <2>2. CASE ~(pod[c] = "finished" /\ cache[c].exists)
    BY <1>1, <1>2, <1>4, <2>2 DEF StartPod
  <2>. QED BY <2>1, <2>2
<1>5. CASE StartGone(c)
  BY <1>1, <1>2, <1>5 DEF StartGone
<1>6. CASE StartDeleted(c)
  <2>1. CASE cache[c].finalizer
    <3>1. /\ Begins(c, "list", "finalizer", "", synced[c])
          /\ cache[c].exists /\ cache[c].deleting
      BY <1>3, <1>6, <2>1 DEF StartDeleted, Begins, Pcs
    <3>2. /\ w' \in WorkerType /\ w'.pc = "list" /\ w'.req = c /\ w'.why = "finalizer"
          /\ SameObject(w'.cr, cache[c]) /\ fresh' = synced[c] /\ timers' = timers
      BY <3>1, BeginType, Zenon
    <3>3. Taken(c)
      BY <2>1, <3>1, <3>2, Zenon DEF Taken
    <3>. QED BY <1>1, <1>6, <3>3 DEF StartDeleted
  <2>2. CASE ~cache[c].finalizer
    BY <1>1, <1>2, <1>6, <2>2 DEF StartDeleted
  <2>. QED BY <2>1, <2>2
<1>7. CASE StartUnguarded(c)
  <2>1. /\ Begins(c, "addFinalizer", "", "", synced[c])
        /\ cache[c].exists /\ ~cache[c].deleting /\ ~cache[c].finalizer
    BY <1>3, <1>7 DEF StartUnguarded, Begins, Pcs
  <2>2. /\ w' \in WorkerType /\ w'.pc = "addFinalizer" /\ w'.req = c /\ w'.why = ""
        /\ SameObject(w'.cr, cache[c]) /\ fresh' = synced[c] /\ timers' = timers
    <3>1. Begins(c, "addFinalizer", "", "", synced[c])
      BY <2>1
    <3>. QED BY <3>1, BeginType, Zenon
  <2>3. Taken(c)
    BY <2>1, <2>2, Zenon DEF Taken
  <2>. QED BY <1>1, <1>7, <2>3 DEF StartUnguarded
<1>8. CASE StartGuarded(c)
  <2>1. /\ Begins(c, "status", "", "Processing", FALSE)
        /\ cache[c].exists /\ ~cache[c].deleting /\ cache[c].finalizer
    BY <1>8 DEF StartGuarded, Begins, Pcs
  <2>2. Taken(c)
    BY <2>1, BeginType, Zenon DEF Taken
  <2>. QED BY <1>1, <1>8, <2>2 DEF StartGuarded
<1>. QED BY <1>4, <1>5, <1>6, <1>7, <1>8 DEF Start

\* The beginning of Reconcile keeps the types.
LEMMA StartType ==
  ASSUME TypeOK, NEW c \in CRs, Start(c)
  PROVE  TypeOK'
<1>1. c # None
  BY NamesAssumption
<1>2. LocalOK' /\ w'.pc # "handle"
  <2>1. CASE w' = w /\ fresh' = fresh /\ timers' = timers \cup {c}
    BY <2>1, StartCases DEF LocalOK, TypeOK, history
  <2>2. CASE Taken(c)
    <3>1. w' \in WorkerType /\ w'.req = c /\ w'.pc \in {"list", "addFinalizer", "status"}
      BY <2>2 DEF Taken
    <3>2. fresh' \in BOOLEAN
      BY <2>2 DEF Taken, TypeOK
    <3>. QED BY <1>1, <2>2, <3>1, <3>2, StartCases DEF LocalOK, Taken, TypeOK, history
  <2>. QED BY <2>1, <2>2, StartCases
<1>. QED
  BY <1>2, StartCases, TypeFromParts
  DEF TypeOK, StandingOK, kube, informer, azdo, cluster, history, budget

-----------------------------------------------------------------------------
(***************************************************************************)
(* What a step of the running worker does to its local state.  It moves on *)
(* with the same object or ends and hands its key to the timers; the main  *)
(* path and the cleanup never cross.                                       *)
(***************************************************************************)
Main == {"status", "query", "handle", "apply", "observe"}
Cleanup == {"list", "purge"}

MovesOn ==
  /\ w'.pc # "idle" /\ w'.req = w.req /\ SameWork /\ fresh' = fresh /\ timers' = timers
  /\ \/ w.pc \in Main /\ w'.pc \in Main
     \/ w.pc \in Cleanup /\ w'.pc = "purge" /\ w'.why = w.why

Ends ==
  /\ w'.pc = "idle" /\ w'.req = None /\ fresh' = FALSE
  /\ timers' = timers \cup {w.req}

LocalStep ==
  /\ LocalOK' /\ w.pc # "idle"
  /\ MovesOn \/ Ends
  /\ w'.pc = "handle" => injected' # None
  /\ w'.pc = "apply" => w.pc = "apply" \/ w.cr.spec.mode \in Kinds

\* Finish ends the reconcile.
LEMMA FinishStep ==
  ASSUME TypeOK, w.pc # "idle", Finish
  PROVE  LocalStep /\ Ends
<1>1. timers' = timers \cup {w.req}
  BY DEF Finish
<1>. QED BY <1>1, FinishType DEF LocalStep, Ends

\* A call of updateStatus stays on the main path.
LEMMA ReportStep ==
  ASSUME TypeOK, w.pc \in Main, NEW p \in {"Processing", "Failed", "Ready"}, Report(p)
  PROVE  LocalStep
<1>1. timers' = timers
  BY Zenon DEF Report, Goto
<1>2. w.pc # "idle"
  BY DEF Main
<1>. QED BY <1>1, <1>2, ReportType DEF LocalStep, MovesOn, Main, SameWork

\* So does the step after ReconcileDeployment,
LEMMA ProceedStep ==
  ASSUME TypeOK, w.pc \in Main, Proceed
  PROVE  LocalStep
<1>1. timers' = timers
  BY Zenon DEF Proceed, Goto
<1>2. w.pc # "idle"
  BY DEF Main
<1>. QED BY <1>1, <1>2, ProceedType DEF LocalStep, MovesOn, Main, SameWork

\* and a retry.
LEMMA RetryStep ==
  ASSUME TypeOK, w.pc \in {"status", "apply"}, MayRetry, Goto([w EXCEPT !.tries = @ + 1])
  PROVE  LocalStep
<1>1. timers' = timers
  BY Zenon DEF Goto
<1>. QED BY <1>1, RetryType DEF LocalStep, MovesOn, Main, SameWork

\* After updateStatus the main path goes on or ends.
LEMMA AfterStatusStep ==
  ASSUME TypeOK, w.pc \in Main, AfterStatus
  PROVE  LocalStep
<1>1. w.pc # "idle"
  BY DEF Main
<1>2. CASE w.phase = "Processing"
  <2>1. timers' = timers
    BY <1>2, Zenon DEF AfterStatus, Goto
  <2>2. w'.pc = "query" /\ SameWork /\ fresh' = fresh /\ LocalOK'
    <3> DEFINE next == [w EXCEPT !.pc = "query", !.tries = 0]
    <3>1. w \in WorkerType
      BY DEF TypeOK
    <3>2. next \in WorkerType /\ next.pc = "query" /\ next.req = w.req /\ next.cr = w.cr
      BY <3>1, QueryUpdate, Zenon DEF Keeps
    <3>3. Goto(next)
      BY <1>2 DEF AfterStatus
    <3> HIDE DEF next
    <3>. QED BY <1>1, <3>2, <3>3, GotoType DEF SameWork
  <2>. QED BY <1>1, <2>1, <2>2 DEF LocalStep, MovesOn, Main, SameWork
<1>3. CASE w.phase # "Processing"
  BY <1>1, <1>3, FinishStep DEF AfterStatus
<1>. QED BY <1>2, <1>3

\* So it does after a write of a workload, answered or not.
LEMMA AppliedStep ==
  ASSUME TypeOK, w.pc \in Main, NEW r \in Replies, Applied(r)
  PROVE  LocalStep /\ faults' \in 0 .. MaxFaults
<1>1. faults' \in 0 .. MaxFaults
  BY BudgetType DEF Applied, Answered, TypeOK
<1>2. CASE r = "ok"
  BY <1>1, <1>2, ProceedStep DEF Applied
<1>3. CASE r # "ok"
  BY <1>1, <1>3, ReportStep DEF Applied
<1>. QED BY <1>2, <1>3

(***************************************************************************)
(* What such a step does to the API server.  A CR is written from a        *)
(* current copy only; a workload is created where there is none, or        *)
(* updated from a current copy.                                            *)
(***************************************************************************)
Guards ==
  /\ w.pc = "addFinalizer" /\ fresh /\ Ends
  /\ WriteCR(w.req, [api[w.req] EXCEPT !.finalizer = TRUE])
  /\ UNCHANGED released

Releases ==
  /\ w.pc = "purge" /\ w.why = "finalizer" /\ Remaining = {} /\ fresh /\ Ends
  /\ WriteCR(w.req, AbsentCR(w.cr.uid))
  /\ released' = [released EXCEPT ![w.req] = @ \cup {w.cr.uid}]

Reports ==
  /\ w.pc = "status"
  /\ WriteCR(w.req, WithReason(api[w.req], w.cr.status, w.phase))
  /\ UNCHANGED released

Creates ==
  /\ w.pc = "apply"
  /\ ~wl[w.req][w.cr.spec.mode].exists
  /\ \E n \in Nat : WriteWorkload(w.req, w.cr.spec.mode, NewWorkload(w.cr, n))

Updates ==
  /\ w.pc = "apply" /\ w.cr.spec.mode = "Deployment" /\ wsynced[w.req]["Deployment"]
  /\ LET d == wcache[w.req]["Deployment"]
     IN  /\ d.exists
         /\ WriteWorkload(w.req, "Deployment",
                          [d EXCEPT !.replicas = w.want,
                                    !.template = WithDefaults(Template(w.cr.spec))])

CRStep == UNCHANGED <<api, synced, released>> \/ Guards \/ Releases \/ Reports
WorkloadStep == UNCHANGED <<wl, wsynced>> \/ Creates \/ Updates

WorkStep ==
  /\ LocalStep /\ CRStep /\ WorkloadStep
  /\ injected' \in CRs \cup {None} /\ faults' \in 0 .. MaxFaults
  /\ agents' \in [Agents -> {"absent", "enabled", "disabled"}]
  /\ UNCHANGED <<cache, wcache, queue, jobs, cluster, edits>>

\* The steps that write nothing to the API server and reach no agent.
Quiet == UNCHANGED <<kube, informer, queue, azdo, cluster, released, edits>>

\* A quiet step is a step of the worker.
LEMMA QuietStep ==
  ASSUME TypeOK, LocalStep, Quiet, injected' \in CRs \cup {None}, faults' \in 0 .. MaxFaults
  PROVE  WorkStep
BY DEF TypeOK, Quiet, WorkStep, CRStep, WorkloadStep, kube, informer, azdo

\* While Reconcile runs, its request is a CR and its copy of it has the type of
\* a CR.
LEMMA RequestType ==
  ASSUME TypeOK, w.pc # "idle"
  PROVE  /\ w.req \in CRs /\ w \in WorkerType /\ w.cr \in CRType /\ w.want \in Nat
         /\ w.cr.uid \in Nat /\ w.cr.spec \in Specs /\ w.cr.status \in Status
         /\ w.phase \in {"", "Processing", "Failed", "Ready"}
<1>1. w.req \in CRs /\ w \in WorkerType /\ w.cr \in CRType /\ w.want \in Nat
      /\ w.phase \in {"", "Processing", "Failed", "Ready"}
  BY DEF TypeOK, WorkerType
<1>. QED BY <1>1, CRUpdates

\* The effect of storing the finalizer.
LEMMA AddFinalizerStep == TypeOK /\ AddFinalizer => WorkStep
<1> SUFFICES ASSUME TypeOK, AddFinalizer PROVE WorkStep
  OBVIOUS
<1>1. LocalStep /\ Ends /\ w.pc = "addFinalizer"
  BY FinishStep DEF AddFinalizer
<1>2. CRStep
  BY <1>1, Zenon DEF AddFinalizer, CRStep, Guards
<1>. QED
  BY <1>1, <1>2 DEF AddFinalizer, WorkStep, WorkloadStep, TypeOK, azdo, budget

\* The effect of listing the agents.
LEMMA ListAgentsStep ==
  ASSUME TypeOK, NEW o \in Listing, ListAgents(o)
  PROVE  WorkStep
<1>1. w.pc = "list" /\ Quiet /\ injected' = injected /\ faults' = faults
  BY DEF ListAgents, Quiet, budget
<1>2. w \in WorkerType
  BY DEF TypeOK
<1>3. LocalStep
  <2>1. CASE PATFound(secret) /\ o = "ok"
    <3> DEFINE left == [a \in Agents |-> IF a \in GetAgentsInPool /\ Matches(a)
                                         THEN agents[a] ELSE "done"]
               x == [w EXCEPT !.pc = "purge"]
               y == [x EXCEPT !.todo = left]
    <3>1. left \in [Agents -> {"done", "enabled", "disabled", "now"}]
      BY DEF TypeOK, GetAgentsInPool
    <3>2. w' = y /\ fresh' = fresh /\ timers' = timers /\ standing' \subseteq Agents
      BY <2>1, Zenon DEF ListAgents, GetAgentsInPool
    <3> HIDE DEF left
    <3>3. Keeps(x, w) /\ x.pc = "purge" /\ x.why = w.why
      BY <1>2, WorkerField DEF Pcs, WorkerType
    <3> HIDE DEF x
    <3>4. Keeps(y, x) /\ y.pc = x.pc /\ y.why = x.why
      BY <3>1, <3>3, WorkerCRField, Zenon DEF Keeps
    <3> HIDE DEF y
    <3>5. w' \in WorkerType /\ w'.pc = "purge" /\ w'.req = w.req /\ w'.cr = w.cr
          /\ w'.why = w.why
      BY <3>2, <3>3, <3>4, Zenon DEF Keeps
    <3>6. LocalOK'
      BY <1>1, <3>2, <3>5 DEF LocalOK, TypeOK
    <3>. QED BY <1>1, <3>2, <3>5, <3>6 DEF LocalStep, MovesOn, SameWork, Cleanup
  <2>2. CASE ~(PATFound(secret) /\ o = "ok")
    BY <1>1, <2>2, FinishStep DEF ListAgents
  <2>. QED BY <2>1, <2>2
<1>. QED BY <1>1, <1>3, QuietStep DEF TypeOK

\* The effect of one call on one agent.
LEMMA AdvanceStep ==
  ASSUME TypeOK, w.pc = "purge", NEW a \in Agents, NEW stage \in {"now", "done"},
         NEW r \in Replies, Advance(a, stage, r), standing' \subseteq Agents
  PROVE  LocalStep /\ faults' \in 0 .. MaxFaults
<1>1. faults' \in 0 .. MaxFaults
  BY BudgetType DEF Advance, Answered, TypeOK
<1>2. w \in WorkerType /\ w.req \in CRs
  BY RequestType
<1>3. CASE r = "ok"
  <2> DEFINE left == [w.todo EXCEPT ![a] = stage]
             y == [w EXCEPT !.todo = left]
  <2>1. left \in [Agents -> {"done", "enabled", "disabled", "now"}]
    BY <1>2 DEF WorkerType
  <2>2. w' = y /\ fresh' = fresh /\ timers' = timers
    BY <1>3, Zenon DEF Advance
  <2> HIDE DEF left
  <2>3. Keeps(y, w) /\ y.pc = w.pc /\ y.why = w.why
    BY <1>2, <2>1, WorkerCRField, Zenon DEF Keeps
  <2> HIDE DEF y
  <2>4. w' \in WorkerType /\ w'.pc = "purge" /\ w'.req = w.req /\ w'.cr = w.cr
        /\ w'.why = w.why
    BY <2>2, <2>3, Zenon DEF Keeps
  <2>5. LocalOK'
    BY <2>2, <2>4 DEF LocalOK, TypeOK
  <2>. QED BY <1>1, <2>2, <2>4, <2>5 DEF LocalStep, MovesOn, SameWork, Cleanup
<1>4. CASE r # "ok"
  <2>0. w' = IdleWorker
    BY <1>4, Zenon DEF Advance
  <2>1. w' \in WorkerType /\ w'.pc = "idle" /\ w'.req = None
    BY <2>0, ObjectTypes DEF IdleWorker
  <2>2. fresh' = FALSE /\ timers' = timers \cup {w.req}
    BY <1>4, Zenon DEF Advance
  <2>3. LocalOK'
    BY <1>2, <2>1, <2>2 DEF LocalOK, TypeOK
  <2>. QED BY <1>1, <2>1, <2>2, <2>3 DEF LocalStep, Ends
<1>. QED BY <1>3, <1>4

\* The effect of the cleanup loop and of removing the finalizer.
LEMMA PurgeStep == TypeOK /\ Purge => WorkStep
<1> SUFFICES ASSUME TypeOK, Purge PROVE WorkStep
  OBVIOUS
<1>1. ASSUME NEW a \in Agents, NEW r \in Replies, DisableAgent(a, r) PROVE WorkStep
  <2>1. LocalStep /\ faults' \in 0 .. MaxFaults
    BY <1>1, AdvanceStep DEF DisableAgent, history, TypeOK
  <2>2. agents' \in [Agents -> {"absent", "enabled", "disabled"}]
    BY <1>1 DEF DisableAgent, TypeOK
  <2>. QED
    BY <1>1, <2>1, <2>2
    DEF DisableAgent, WorkStep, CRStep, WorkloadStep, TypeOK, kube, informer, history
<1>2. ASSUME NEW a \in Agents, NEW r \in Replies, DeleteAgent(a, r) PROVE WorkStep
  <2>1. LocalStep /\ faults' \in 0 .. MaxFaults
    BY <1>2, AdvanceStep DEF DeleteAgent, TypeOK
  <2>2. agents' \in [Agents -> {"absent", "enabled", "disabled"}]
    BY <1>2 DEF DeleteAgent, TypeOK
  <2>. QED
    BY <1>2, <2>1, <2>2
    DEF DeleteAgent, WorkStep, CRStep, WorkloadStep, TypeOK, kube, informer
<1>3. ASSUME NEW a \in Agents, AgentMissing(a) PROVE WorkStep
  <2>1. LocalStep
    BY <1>3, FinishStep DEF AgentMissing
  <2>. QED BY <1>3, <2>1, QuietStep DEF AgentMissing, Quiet, TypeOK, budget
<1>4. CASE RemoveFinalizer
  <2>1. LocalStep /\ Ends /\ w.pc = "purge"
    BY <1>4, FinishStep DEF RemoveFinalizer
  <2>2. CRStep
    BY <1>4, <2>1, Zenon DEF RemoveFinalizer, CRStep, Releases
  <2>. QED
    BY <1>4, <2>1, <2>2 DEF RemoveFinalizer, WorkStep, WorkloadStep, TypeOK, azdo, budget
<1>5. CASE PodHandled
  <2>1. LocalStep
    BY <1>5, FinishStep DEF PodHandled
  <2>. QED BY <1>5, <2>1, QuietStep DEF PodHandled, Quiet, TypeOK, budget
<1>. QED BY <1>1, <1>2, <1>3, <1>4, <1>5 DEF Purge

\* The effect of updateStatus.
LEMMA UpdateStatusStep == TypeOK /\ UpdateStatus => WorkStep
<1> SUFFICES ASSUME TypeOK, UpdateStatus PROVE WorkStep
  OBVIOUS
<1>1. w.pc = "status" /\ w.pc \in Main
  BY DEF UpdateStatus, Main
<1>2. \/ MayRetry /\ Goto([w EXCEPT !.tries = @ + 1])
      \/ AfterStatus
  BY Zenon DEF UpdateStatus
<1>3. LocalStep
  BY <1>1, <1>2, RetryStep, AfterStatusStep
<1>4. CRStep
  BY <1>1, Zenon DEF UpdateStatus, CRStep, Reports
<1>. QED
  BY <1>3, <1>4 DEF UpdateStatus, WorkStep, WorkloadStep, TypeOK, azdo, budget

\* The effect of reading the token and the queue.
LEMMA QueryQueueStep == TypeOK /\ QueryQueue => WorkStep
<1> SUFFICES ASSUME TypeOK, QueryQueue PROVE WorkStep
  OBVIOUS
<1>1. w.pc = "query" /\ w.pc \in Main /\ Quiet /\ faults' = faults
  BY DEF QueryQueue, Main, Quiet, budget
<1>2. w \in WorkerType /\ w.cr \in CRType /\ w.req \in CRs /\ jobs[w.req] \in Nat
  BY <1>1, RequestType DEF TypeOK
<1>3. CASE PATFound(secret)
  <2> DEFINE cr == WithQueued(w.cr, jobs[w.req])
             x == [w EXCEPT !.pc = "handle"]
             y == [x EXCEPT !.cr = cr]
  <2>1. SameObject(cr, w.cr)
    BY <1>2, CRHelpers
  <2>2. injected' = w.req /\ w' = y /\ fresh' = fresh /\ timers' = timers
        /\ standing' = standing
    BY <1>3, Zenon DEF QueryQueue, Inject, Goto, GetQueueLength
  <2> HIDE DEF cr
  <2>3. Keeps(x, w) /\ x.pc = "handle"
    BY <1>2, WorkerField DEF Pcs
  <2> HIDE DEF x
  <2>4. y \in WorkerType /\ y.req = x.req /\ y.pc = x.pc /\ y.cr = cr
    BY <2>1, <2>3, WorkerCRField, Zenon DEF Keeps, SameObject
  <2> HIDE DEF y
  <2>5. w' \in WorkerType /\ w'.pc = "handle" /\ w'.req = w.req /\ w'.cr.uid = w.cr.uid
        /\ w'.cr.spec = w.cr.spec
    BY <2>1, <2>2, <2>3, <2>4, Zenon DEF Keeps, SameObject
  <2>6. LocalOK'
    BY <1>1, <2>2, <2>5 DEF LocalOK, TypeOK
  <2>7. injected' # None /\ injected' \in CRs \cup {None}
    BY <1>2, <2>2, NamesAssumption
  <2>8. LocalStep
    BY <1>1, <2>2, <2>5, <2>6, <2>7 DEF LocalStep, MovesOn, SameWork, Main
  <2>. QED BY <1>1, <2>7, <2>8, QuietStep DEF TypeOK
<1>4. CASE ~PATFound(secret)
  <2>1. Report("Failed") /\ injected' = injected
    BY <1>4, Zenon DEF QueryQueue
  <2>. QED BY <1>1, <2>1, ReportStep, QuietStep DEF TypeOK
<1>. QED BY <1>3, <1>4

\* The effect of the use case up to ReconcileDeployment.
LEMMA HandleStep == TypeOK /\ Handle => WorkStep
<1> SUFFICES ASSUME TypeOK, Handle PROVE WorkStep
  OBVIOUS
<1>1. w.pc = "handle" /\ w.pc \in Main /\ Quiet /\ faults' = faults /\ injected' = injected
  BY DEF Handle, Main, Quiet, budget
<1>2. w \in WorkerType /\ w.cr.spec \in Specs /\ jobs[injected] \in Nat
  BY <1>1, RequestType DEF TypeOK
<1>3. CASE ValidateSecrets(secret) /\ w.cr.spec.mode \in Kinds
  <2> DEFINE n == DetermineDesiredReplicas(jobs[injected], w.cr.spec)
             x == [w EXCEPT !.pc = "apply"]
             y == [x EXCEPT !.want = n]
  <2>1. n \in Nat
    <3>1. w.cr.spec.min \in Int /\ w.cr.spec.max \in Int
      BY <1>2, SpecFields
    <3>. QED BY <1>2, <3>1, ReplicasWithinBounds, BoundsInOrder
  <2>2. w' = y /\ fresh' = fresh /\ timers' = timers /\ standing' = standing
    BY <1>3, Zenon DEF Handle, Goto, GetQueueLength
  <2> HIDE DEF n
  <2>3. Keeps(x, w) /\ x.pc = "apply"
    BY <1>2, WorkerField DEF Pcs
  <2> HIDE DEF x
  <2>4. Keeps(y, x) /\ y.pc = x.pc
    BY <2>1, <2>3, WorkerField, Zenon DEF Keeps
  <2> HIDE DEF y
  <2>5. w' \in WorkerType /\ w'.pc = "apply" /\ w'.req = w.req /\ w'.cr = w.cr
    BY <2>2, <2>3, <2>4, Zenon DEF Keeps
  <2>6. LocalOK'
    BY <1>1, <2>2, <2>5 DEF LocalOK, TypeOK
  <2>7. LocalStep
    BY <1>1, <1>3, <2>2, <2>5, <2>6 DEF LocalStep, MovesOn, SameWork, Main
  <2>. QED BY <1>1, <2>7, QuietStep DEF TypeOK
<1>4. CASE ~(ValidateSecrets(secret) /\ w.cr.spec.mode \in Kinds)
  <2>1. Report("Failed")
    BY <1>4, Zenon DEF Handle
  <2>. QED BY <1>1, <2>1, ReportStep, QuietStep DEF TypeOK
<1>. QED BY <1>3, <1>4

\* The effect of creating a workload.
LEMMA CreateWorkloadStep ==
  ASSUME TypeOK, NEW r \in Replies, CreateWorkload(r)
  PROVE  WorkStep
<1> DEFINE c == w.req
           k == w.cr.spec.mode
           n == IF k = "Jobs" THEN 0 ELSE w.want
<1>1. w.pc = "apply" /\ w.pc \in Main /\ ApplyRest
  BY Zenon DEF CreateWorkload, Main
<1>2. n \in Nat
  BY <1>1, RequestType, ZeroTyped
<1>3. CASE wl[c][k].exists
  <2>1. Report("Failed") /\ UNCHANGED <<wl, wsynced, faults>>
    BY <1>3, Zenon DEF CreateWorkload
  <2>2. LocalStep
    BY <1>1, <2>1, ReportStep
  <2>. QED BY <1>1, <2>1, <2>2 DEF ApplyRest, WorkStep, CRStep, WorkloadStep, TypeOK, azdo
<1>4. CASE ~wl[c][k].exists
  <2>1. WriteWorkload(c, k, NewWorkload(w.cr, n)) /\ Applied(r)
    BY <1>4, Zenon DEF CreateWorkload
  <2>2. LocalStep /\ faults' \in 0 .. MaxFaults
    BY <1>1, <2>1, AppliedStep
  <2>3. Creates
    BY <1>1, <1>2, <1>4, <2>1, Zenon DEF Creates
  <2>. QED BY <1>1, <2>2, <2>3 DEF ApplyRest, WorkStep, CRStep, WorkloadStep, TypeOK, azdo
<1>. QED BY <1>3, <1>4

\* The effect of updating the Deployment.
LEMMA UpdateDeploymentStep ==
  ASSUME TypeOK, NEW r \in Replies, UpdateDeployment(r)
  PROVE  WorkStep
<1> DEFINE d == wcache[w.req]["Deployment"]
<1>1. w.pc = "apply" /\ w.pc \in Main /\ ApplyRest
  BY Zenon DEF UpdateDeployment, Main
<1>2. CASE NeedsUpdate(d)
  <2>1. Updates /\ Applied(r)
    BY <1>2, Zenon DEF UpdateDeployment, Updates
  <2>2. LocalStep /\ faults' \in 0 .. MaxFaults
    BY <1>1, <2>1, AppliedStep
  <2>. QED BY <1>1, <2>1, <2>2 DEF ApplyRest, WorkStep, CRStep, WorkloadStep, TypeOK, azdo
<1>3. CASE ~NeedsUpdate(d)
  <2>1. Proceed /\ UNCHANGED <<wl, wsynced, faults>>
    BY <1>3, Zenon DEF UpdateDeployment
  <2>2. LocalStep
    BY <1>1, <2>1, ProceedStep
  <2>. QED BY <1>1, <2>1, <2>2 DEF ApplyRest, WorkStep, CRStep, WorkloadStep, TypeOK, azdo
<1>. QED BY <1>2, <1>3

\* A refused update of the Deployment and every update of a Job leave the
\* workloads alone.
LEMMA UnwrittenStep ==
  ASSUME TypeOK, UpdateDeploymentRefused \/ UpdateJob
  PROVE  WorkStep
<1>1. w.pc = "apply" /\ w.pc \in Main /\ ApplyRest /\ UNCHANGED <<wl, wsynced, faults>>
  BY Zenon DEF UpdateDeploymentRefused, UpdateJob, Main
<1>2. \/ MayRetry /\ Goto([w EXCEPT !.tries = @ + 1])
      \/ Report("Failed")
      \/ Proceed
  BY Zenon DEF UpdateDeploymentRefused, UpdateJob
<1>3. LocalStep
  BY <1>1, <1>2, RetryStep, ReportStep, ProceedStep
<1>. QED BY <1>1, <1>3 DEF ApplyRest, WorkStep, CRStep, WorkloadStep, TypeOK, azdo

\* The effect of reading the Deployment back.
LEMMA ObserveStep == TypeOK /\ Observe => WorkStep
<1> SUFFICES ASSUME TypeOK, Observe PROVE WorkStep
  OBVIOUS
<1>1. w.pc = "observe" /\ w.pc \in Main /\ Quiet /\ faults' = faults /\ injected' = injected
  BY DEF Observe, Main, Quiet, budget
<1>2. w \in WorkerType /\ w.cr \in CRType
  BY <1>1, RequestType
<1> DEFINE n == AgentName(w.req)
           found == n \in CRs /\ wcache[n]["Deployment"].exists
           d == wcache[n]["Deployment"]
           cr == IF found THEN WithAgents(w.cr, d.replicas, d.ready) ELSE w.cr
           x == [w EXCEPT !.pc = "status"]
           y == [x EXCEPT !.phase = "Ready"]
           z == [y EXCEPT !.cr = cr]
<1>3. SameObject(cr, w.cr)
  <2>1. CASE found
    <3>1. d.replicas \in Nat /\ d.ready \in Nat
      BY <2>1, WorkloadsTyped, WorkloadUpdates
    <3>. QED BY <1>2, <2>1, <3>1, CRHelpers, Zenon
  <2>2. CASE ~found
    BY <1>2, <2>2 DEF SameObject
  <2>. QED BY <2>1, <2>2
<1>4. w' = z /\ fresh' = fresh /\ timers' = timers /\ standing' = standing
  BY Zenon DEF Observe, Goto
<1> HIDE DEF cr
<1>5. Keeps(x, w) /\ x.pc = "status"
  BY <1>2, WorkerField DEF Pcs
<1> HIDE DEF x
<1>6. Keeps(y, x) /\ y.pc = x.pc
  BY <1>5, WorkerField, Zenon DEF Keeps
<1> HIDE DEF y
<1>7. z \in WorkerType /\ z.req = y.req /\ z.pc = y.pc /\ z.cr = cr
  BY <1>3, <1>6, WorkerCRField, Zenon DEF Keeps, SameObject
<1> HIDE DEF z
<1>8. w' \in WorkerType /\ w'.pc = "status" /\ w'.req = w.req /\ w'.cr.uid = w.cr.uid
      /\ w'.cr.spec = w.cr.spec
  BY <1>3, <1>4, <1>5, <1>6, <1>7, Zenon DEF Keeps, SameObject
<1>9. LocalOK'
  BY <1>1, <1>4, <1>8 DEF LocalOK, TypeOK
<1>10. LocalStep
  BY <1>1, <1>4, <1>8, <1>9 DEF LocalStep, MovesOn, SameWork, Main
<1>. QED BY <1>1, <1>10, QuietStep DEF TypeOK

\* The effect of a failed call.
LEMMA CallFailsStep == TypeOK /\ CallFails => WorkStep
<1> SUFFICES ASSUME TypeOK, CallFails PROVE WorkStep
  OBVIOUS
<1>1. /\ Quiet /\ faults' \in 0 .. MaxFaults
      /\ injected' = injected \/ (w.pc = "query" /\ injected' = w.req)
  BY BudgetType DEF CallFails, Quiet, Inject
<1>2. LocalStep
  <2>1. CASE w.pc \in {"addFinalizer", "list", "purge"} /\ Finish
    BY <2>1, FinishStep
  <2>2. CASE w.pc = "status" /\ AfterStatus
    BY <2>2, AfterStatusStep DEF Main
  <2>3. CASE w.pc \in {"query", "handle", "apply"} /\ Report("Failed")
    BY <2>3, ReportStep DEF Main
  <2>. QED BY <2>1, <2>2, <2>3 DEF CallFails
<1>3. injected' \in CRs \cup {None}
  BY <1>1, RequestType DEF TypeOK
<1>. QED BY <1>1, <1>2, <1>3, QuietStep

\* Every step of the running worker has one of the effects above.
LEMMA WorkEffect == TypeOK /\ (Work \/ CallFails) => WorkStep
BY AddFinalizerStep, ListAgentsStep, PurgeStep, UpdateStatusStep, QueryQueueStep, HandleStep,
   CreateWorkloadStep, UpdateDeploymentStep, UnwrittenStep, ObserveStep, CallFailsStep
DEF Work

\* No step of it leaves an agent standing that is not registered.
LEMMA StandingStep == TypeOK /\ (Work \/ CallFails) => StandingOK'
<1> SUFFICES ASSUME TypeOK, Work \/ CallFails PROVE StandingOK'
  OBVIOUS
<1>1. ASSUME agents' = agents, standing' = standing \/ standing' = {} PROVE StandingOK'
  BY <1>1 DEF TypeOK, StandingOK
<1>2. Finish \/ AfterStatus => standing' = standing \/ standing' = {}
  BY Zenon DEF Finish, AfterStatus, Goto
<1>3. ASSUME NEW next, Goto(next) PROVE standing' = standing
  BY <1>3, Zenon DEF Goto
<1>4. ASSUME NEW reply, Applied(reply) PROVE standing' = standing
  BY <1>4, Zenon DEF Applied, Proceed, Report, Goto
<1>5. CASE AddFinalizer \/ RemoveFinalizer \/ PodHandled \/ UpdateStatus
  <2>1. agents' = agents
    BY <1>5 DEF AddFinalizer, RemoveFinalizer, PodHandled, UpdateStatus, azdo
  <2>2. Finish \/ AfterStatus \/ \E next : Goto(next)
    BY <1>5, Zenon DEF AddFinalizer, RemoveFinalizer, PodHandled, UpdateStatus
  <2>. QED BY <1>1, <1>2, <1>3, <2>1, <2>2
<1>6. ASSUME NEW o \in Listing, ListAgents(o) PROVE StandingOK'
  <2>1. agents' = agents /\ (standing' = GetAgentsInPool \/ standing' = {})
    BY <1>6, Zenon DEF ListAgents, Finish, azdo
  <2>. QED BY <2>1 DEF StandingOK, GetAgentsInPool
<1>7. ASSUME NEW a \in Agents, NEW r \in Replies, DisableAgent(a, r) PROVE StandingOK'
  BY <1>7 DEF DisableAgent, StandingOK, TypeOK, history
<1>8. ASSUME NEW a \in Agents, NEW r \in Replies, DeleteAgent(a, r) PROVE StandingOK'
  BY <1>8 DEF DeleteAgent, StandingOK, TypeOK
<1>9. ASSUME NEW a \in Agents, AgentMissing(a) PROVE StandingOK'
  BY <1>1, <1>2, <1>9 DEF AgentMissing, azdo
<1>10. CASE QueryQueue \/ Handle \/ Observe
  <2>1. agents' = agents
    BY <1>10 DEF QueryQueue, Handle, Observe, azdo
  <2>2. standing' = standing
    BY <1>10, Zenon DEF QueryQueue, Handle, Observe, Report, Goto
  <2>. QED BY <1>1, <2>1, <2>2
<1>11. ASSUME \/ \E r \in Replies : CreateWorkload(r) \/ UpdateDeployment(r)
              \/ UpdateDeploymentRefused \/ UpdateJob
       PROVE  StandingOK'
  <2>1. agents' = agents
    BY <1>11
    DEF CreateWorkload, UpdateDeployment, UpdateDeploymentRefused, UpdateJob, ApplyRest, azdo
  <2>2. \/ \E next : Goto(next)
        \/ \E reply : Applied(reply)
    BY <1>11, Zenon
    DEF CreateWorkload, UpdateDeployment, UpdateDeploymentRefused, UpdateJob, Proceed, Report
  <2>. QED BY <1>1, <1>3, <1>4, <2>1, <2>2
<1>12. CASE CallFails
  <2>1. agents' = agents
    BY <1>12 DEF CallFails, azdo
  <2>2. standing' = standing \/ standing' = {}
    BY <1>2, <1>12, Zenon DEF CallFails, Report, Goto
  <2>. QED BY <1>1, <2>1, <2>2
<1>. QED
  BY <1>5, <1>6, <1>7, <1>8, <1>9, <1>10, <1>11, <1>12 DEF Work, Purge

\* A workload is applied only for a known mode.
ModeKnown == w.pc = "apply" => w.cr.spec.mode \in Kinds

-----------------------------------------------------------------------------
(* Type correctness. *)

\* The objects that the worker writes have their types, and keep what matters.
LEMMA WrittenTypes ==
  ASSUME TypeOK, w.pc # "idle"
  PROVE  LET g == [api[w.req] EXCEPT !.finalizer = TRUE]
             r == WithReason(api[w.req], w.cr.status, w.phase)
         IN  /\ g \in CRType /\ g.finalizer /\ g.uid = api[w.req].uid
             /\ g.exists = api[w.req].exists /\ g.status = api[w.req].status
             /\ SameObject(r, api[w.req])
             /\ AbsentCR(w.cr.uid) \in CRType
<1>1. api[w.req] \in CRType
  BY RequestType DEF TypeOK
<1>2. \A x \in CRType : LET g == [x EXCEPT !.finalizer = TRUE]
                        IN  /\ g \in CRType /\ g.finalizer /\ g.uid = x.uid
                            /\ g.exists = x.exists /\ g.status = x.status
  BY DEF CRType
<1>3. SameObject(WithReason(api[w.req], w.cr.status, w.phase), api[w.req])
  BY <1>1, CRHelpers, RequestType
<1>4. AbsentCR(w.cr.uid) \in CRType
  BY RequestType, ObjectTypes
<1>. QED BY <1>1, <1>2, <1>3, <1>4, Zenon

\* The worker's writes of a CR keep the types.
LEMMA CRStepType ==
  ASSUME TypeOK, w.pc # "idle", CRStep
  PROVE  /\ api' \in [CRs -> CRType] /\ synced' \in [CRs -> BOOLEAN]
         /\ released' \in [CRs -> SUBSET Nat]
<1>1. w.req \in CRs /\ w.cr.uid \in Nat
  BY RequestType
<1>2. CASE UNCHANGED <<api, synced, released>>
  BY <1>2 DEF TypeOK
<1>3. CASE Guards
  <2>1. [api[w.req] EXCEPT !.finalizer = TRUE] \in CRType
    BY WrittenTypes, Zenon
  <2>2. released' = released /\ WriteCR(w.req, [api[w.req] EXCEPT !.finalizer = TRUE])
    BY <1>3, Zenon DEF Guards
  <2>3. api' \in [CRs -> CRType] /\ synced' \in [CRs -> BOOLEAN]
    BY <1>1, <2>1, <2>2, WriteCRType, Zenon
  <2>. QED BY <2>2, <2>3 DEF TypeOK
<1>4. CASE Releases
  <2>1. AbsentCR(w.cr.uid) \in CRType
    BY WrittenTypes, Zenon
  <2>2. released' = [released EXCEPT ![w.req] = @ \cup {w.cr.uid}]
        /\ WriteCR(w.req, AbsentCR(w.cr.uid))
    BY <1>4, Zenon DEF Releases
  <2>3. api' \in [CRs -> CRType] /\ synced' \in [CRs -> BOOLEAN]
    BY <1>1, <2>1, <2>2, WriteCRType, Zenon
  <2>4. released' \in [CRs -> SUBSET Nat]
    BY <1>1, <2>2 DEF TypeOK
  <2>. QED BY <2>3, <2>4
<1>5. CASE Reports
  <2>1. WithReason(api[w.req], w.cr.status, w.phase) \in CRType
    BY WrittenTypes, Zenon DEF SameObject
  <2>2. /\ released' = released
        /\ WriteCR(w.req, WithReason(api[w.req], w.cr.status, w.phase))
    BY <1>5, Zenon DEF Reports
  <2>3. api' \in [CRs -> CRType] /\ synced' \in [CRs -> BOOLEAN]
    BY <1>1, <2>1, <2>2, WriteCRType, Zenon
  <2>. QED BY <2>2, <2>3 DEF TypeOK
<1>. QED BY <1>2, <1>3, <1>4, <1>5 DEF CRStep

\* The updated Deployment has its type, exists as before and has the same owner.
LEMMA UpdatedDeployment ==
  ASSUME NEW d \in WorkloadType, NEW n \in Nat, NEW s \in Specs
  PROVE  LET u == [d EXCEPT !.replicas = n, !.template = WithDefaults(Template(s))]
         IN  u \in WorkloadType /\ u.exists = d.exists /\ u.uid = d.uid
<1>1. WithDefaults(Template(s)) \in [image : STRING, defaulted : BOOLEAN]
  BY SpecFields DEF WithDefaults, Template
<1>. QED BY <1>1 DEF WorkloadType

\* The worker's writes of a workload keep the types.
LEMMA WorkloadStepType ==
  ASSUME TypeOK, w.pc = "apply" => w.cr.spec.mode \in Kinds, w.pc # "idle", WorkloadStep
  PROVE  /\ wl' \in [CRs -> [Kinds -> WorkloadType]]
         /\ wsynced' \in [CRs -> [Kinds -> BOOLEAN]]
<1>1. w.req \in CRs /\ w.cr \in CRType /\ w.want \in Nat /\ w.cr.spec \in Specs
  BY RequestType
<1>2. CASE UNCHANGED <<wl, wsynced>>
  BY <1>2 DEF TypeOK
<1>3. CASE Creates
  <2>1. PICK n \in Nat : WriteWorkload(w.req, w.cr.spec.mode, NewWorkload(w.cr, n))
    BY <1>3, Zenon DEF Creates
  <2>2. w.cr.spec.mode \in Kinds
    BY <1>3, Zenon DEF Creates
  <2>3. NewWorkload(w.cr, n) \in WorkloadType
    BY <1>1, WorkloadTypes
  <2>. QED BY <1>1, <2>1, <2>2, <2>3, WriteWorkloadType, Zenon
<1>4. CASE Updates
  <2> DEFINE d == wcache[w.req]["Deployment"]
             u == [d EXCEPT !.replicas = w.want,
                            !.template = WithDefaults(Template(w.cr.spec))]
  <2>1. d \in WorkloadType /\ "Deployment" \in Kinds
    BY <1>1, WorkloadsTyped DEF Kinds
  <2>2. WriteWorkload(w.req, "Deployment", u)
    BY <1>4, Zenon DEF Updates
  <2>3. u \in WorkloadType
    <3> HIDE DEF d
    <3>. QED BY <1>1, <2>1, UpdatedDeployment, Zenon
  <2> HIDE DEF u
  <2>. QED BY <1>1, <2>1, <2>2, <2>3, WriteWorkloadType, Zenon
<1>. QED BY <1>2, <1>3, <1>4 DEF WorkloadStep

\* TypeOK is inductive together with ModeKnown.
LEMMA WorkType == TypeOK /\ ModeKnown /\ WorkStep /\ StandingOK' => TypeOK' /\ ModeKnown'
<1> SUFFICES ASSUME TypeOK, ModeKnown, WorkStep, StandingOK' PROVE TypeOK' /\ ModeKnown'
  OBVIOUS
<1>1. LocalStep /\ CRStep /\ WorkloadStep /\ w.pc # "idle" /\ LocalOK'
  BY DEF WorkStep, LocalStep
<1>2. TypeOK'
  <2>1. /\ wl' \in [CRs -> [Kinds -> WorkloadType]]
        /\ wsynced' \in [CRs -> [Kinds -> BOOLEAN]]
    BY <1>1, WorkloadStepType DEF ModeKnown
  <2>2. queue' \subseteq CRs /\ (w'.pc = "handle" => injected' # None)
    BY <1>1 DEF WorkStep, LocalStep, TypeOK
  <2>. QED BY <1>1, <2>1, <2>2, CRStepType, TypeFromParts DEF WorkStep
<1>3. ModeKnown'
  <2>1. CASE MovesOn
    BY <1>1, <2>1 DEF LocalStep, ModeKnown, MovesOn, SameWork
  <2>2. CASE Ends
    BY <2>2 DEF ModeKnown, Ends
  <2>. QED BY <1>1, <2>1, <2>2 DEF LocalStep
<1>. QED BY <1>2, <1>3

(***************************************************************************)
(* What a step of the environment does.                                    *)
(***************************************************************************)
UserChange(old, new) ==
  /\ new # old
  /\ \/ ~old.exists /\ new.exists /\ new.status.reason = ""
     \/ /\ old.exists /\ new.exists /\ new.finalizer = old.finalizer
        /\ new.uid = old.uid /\ new.status = old.status
     \/ ~old.finalizer /\ ~new.exists

UserStep == \E c \in CRs, new \in CRType : UserChange(api[c], new) /\ UserWrite(c, new)

ClusterStep ==
  \E c \in CRs, k \in Kinds, new \in WorkloadType :
    /\ wl[c][k].exists
    /\ ~new.exists \/ new.uid = wl[c][k].uid
    /\ ClusterWrite(c, k, new)

ElsewhereStep ==
  UNCHANGED <<kube, informer, fresh, timers, w, released>> /\ queue \subseteq queue'

\* A user's updates of a CR keep its type.
LEMMA EditedCR ==
  ASSUME NEW r \in CRType
  PROVE  /\ \A s \in Specs : LET n == [r EXCEPT !.spec = s]
              IN  /\ n \in CRType /\ n.exists = r.exists /\ n.finalizer = r.finalizer
                  /\ n.uid = r.uid /\ n.status = r.status /\ n.spec = s
         /\ LET n == [r EXCEPT !.deleting = TRUE]
            IN  /\ n \in CRType /\ n.exists = r.exists /\ n.finalizer = r.finalizer
                /\ n.uid = r.uid /\ n.status = r.status /\ n.deleting = TRUE
BY DEF CRType

\* The cluster's updates of a workload keep its type and its owner.
LEMMA EditedWorkload ==
  ASSUME NEW r \in WorkloadType
  PROVE  /\ \A n \in Nat : LET x == [r EXCEPT !.replicas = n]
                           IN  x \in WorkloadType /\ x.uid = r.uid
         /\ \A n \in Nat : LET x == [r EXCEPT !.ready = n]
                           IN  x \in WorkloadType /\ x.uid = r.uid
         /\ LET x == [r EXCEPT !.finished = TRUE]
            IN  x \in WorkloadType /\ x.uid = r.uid
         /\ r.replicas \in Nat
BY DEF WorkloadType

\* Every step of the environment has one of the effects above.
LEMMA EnvironmentEffect ==
  TypeOK /\ Environment => UserStep \/ ClusterStep \/ ElsewhereStep
<1> SUFFICES ASSUME TypeOK, Environment PROVE UserStep \/ ClusterStep \/ ElsewhereStep
  OBVIOUS
<1>1. ASSUME NEW c \in CRs, CreateCR(c) PROVE UserStep
  <2>1. PICK s \in Specs : UserWrite(c, NewCR(api[c].uid + 1, s))
    BY <1>1 DEF CreateCR
  <2> DEFINE new == NewCR(api[c].uid + 1, s)
  <2>2. api[c].uid + 1 \in Nat
    BY DEF TypeOK, CRType
  <2>3. new \in CRType
    BY <2>2, ObjectTypes
  <2>4. new.exists /\ new.status.reason = ""
    BY DEF NewCR, InitStatus
  <2>5. ~api[c].exists
    BY <1>1 DEF CreateCR
  <2> HIDE DEF new
  <2>6. UserChange(api[c], new)
    BY <2>4, <2>5 DEF UserChange
  <2>7. UserWrite(c, new)
    BY <2>1 DEF new
  <2>. QED BY <2>3, <2>6, <2>7 DEF UserStep
<1>2. ASSUME NEW c \in CRs, EditSpec(c) PROVE UserStep
  <2>1. PICK s \in Specs \ {api[c].spec} : UserWrite(c, [api[c] EXCEPT !.spec = s])
    BY <1>2 DEF EditSpec
  <2> DEFINE new == [api[c] EXCEPT !.spec = s]
  <2>2. api[c] \in CRType
    BY DEF TypeOK
  <2>3. /\ new \in CRType /\ new.exists = api[c].exists /\ new.finalizer = api[c].finalizer
        /\ new.uid = api[c].uid /\ new.status = api[c].status /\ new.spec = s
    BY <2>2, EditedCR, Zenon
  <2>4. UserWrite(c, new)
    BY <2>1
  <2> HIDE DEF new
  <2>5. UserChange(api[c], new)
    BY <1>2, <2>3 DEF UserChange, EditSpec
  <2>. QED BY <2>3, <2>4, <2>5 DEF UserStep
<1>3. ASSUME NEW c \in CRs, DeleteCR(c) PROVE UserStep
  <2>1. api[c] \in CRType /\ api[c].uid \in Nat
    BY CRUpdates DEF TypeOK
  <2>2. CASE api[c].finalizer
    <3> DEFINE new == [api[c] EXCEPT !.deleting = TRUE]
    <3>1. /\ new \in CRType /\ new.exists = api[c].exists
          /\ new.finalizer = api[c].finalizer /\ new.deleting = TRUE
          /\ new.uid = api[c].uid /\ new.status = api[c].status
      BY <2>1, EditedCR, Zenon
    <3>2. UserWrite(c, new)
      BY <1>3, <2>2 DEF DeleteCR
    <3> HIDE DEF new
    <3>3. UserChange(api[c], new)
      BY <1>3, <3>1 DEF UserChange, DeleteCR
    <3>. QED BY <3>1, <3>2, <3>3 DEF UserStep
  <2>3. CASE ~api[c].finalizer
    <3> DEFINE new == AbsentCR(api[c].uid)
    <3>1. new \in CRType
      BY <2>1, ObjectTypes
    <3>2. ~new.exists
      BY DEF AbsentCR
    <3>3. UserWrite(c, new)
      BY <1>3, <2>3 DEF DeleteCR
    <3> HIDE DEF new
    <3>4. UserChange(api[c], new)
      BY <1>3, <2>3, <3>2 DEF UserChange, DeleteCR
    <3>. QED BY <3>1, <3>3, <3>4 DEF UserStep
  <2>. QED BY <2>2, <2>3
<1>4. ASSUME NEW c \in CRs, SetQueue(c) \/ PodEvent(c) PROVE ElsewhereStep
  BY <1>4 DEF SetQueue, PodEvent, ElsewhereStep, workqueue, history
<1>5. ASSUME NEW c \in CRs, UserScale(c) PROVE ClusterStep
  <2>1. PICK n \in UserScales :
          ClusterWrite(c, "Deployment", [wl[c]["Deployment"] EXCEPT !.replicas = n])
    BY <1>5 DEF UserScale
  <2> DEFINE new == [wl[c]["Deployment"] EXCEPT !.replicas = n]
  <2>2. new \in WorkloadType /\ new.uid = wl[c]["Deployment"].uid
    BY InputsAssumption, EditedWorkload, WorkloadsTyped
  <2>3. ClusterWrite(c, "Deployment", new) /\ wl[c]["Deployment"].exists
    BY <1>5, <2>1 DEF UserScale
  <2> HIDE DEF new
  <2>. QED BY <2>2, <2>3, Zenon DEF ClusterStep, Kinds
<1>6. ASSUME NEW c \in CRs, Rollout(c) PROVE ClusterStep
  <2> DEFINE new == [wl[c]["Deployment"] EXCEPT !.ready = wl[c]["Deployment"].replicas]
  <2>1. new \in WorkloadType /\ new.uid = wl[c]["Deployment"].uid
    BY EditedWorkload, WorkloadsTyped
  <2>2. ClusterWrite(c, "Deployment", new) /\ wl[c]["Deployment"].exists
    BY <1>6 DEF Rollout
  <2> HIDE DEF new
  <2>. QED BY <2>1, <2>2, Zenon DEF ClusterStep, Kinds
<1>7. ASSUME NEW c \in CRs, JobFinishes(c) PROVE ClusterStep
  <2> DEFINE new == [wl[c]["Jobs"] EXCEPT !.finished = TRUE]
  <2>1. new \in WorkloadType /\ new.uid = wl[c]["Jobs"].uid
    BY EditedWorkload, WorkloadsTyped
  <2>2. ClusterWrite(c, "Jobs", new) /\ wl[c]["Jobs"].exists
    BY <1>7 DEF JobFinishes
  <2> HIDE DEF new
  <2>. QED BY <2>1, <2>2, Zenon DEF ClusterStep, Kinds
<1>8. ASSUME NEW c \in CRs, NEW k \in Kinds, CollectGarbage(c, k) PROVE ClusterStep
  <2>1. NoWorkload \in WorkloadType /\ ~NoWorkload.exists
    BY ObjectTypes DEF NoWorkload
  <2>. QED BY <1>8, <2>1, Zenon DEF CollectGarbage, ClusterStep
<1>9. ASSUME SetSecret PROVE ElsewhereStep
  BY <1>9 DEF SetSecret, ElsewhereStep, workqueue, history
<1>10. ASSUME NEW a \in Agents, Register(a) \/ Deregister(a) PROVE ElsewhereStep
  BY <1>10 DEF Register, Deregister, ElsewhereStep, workqueue, history
<1>. QED
  BY <1>1, <1>2, <1>3, <1>4, <1>5, <1>6, <1>7, <1>8, <1>9, <1>10 DEF Environment

\* Neither users, the cluster nor Azure DevOps touch the worker.
LEMMA EnvironmentLocal == TypeOK /\ Environment => w' = w /\ timers' = timers
BY EnvironmentEffect DEF UserStep, ClusterStep, ElsewhereStep, UserWrite, ClusterWrite, workqueue

\* Every step keeps the types.
LEMMA TypeStep == TypeOK /\ ModeKnown /\ [Next]_vars => TypeOK' /\ ModeKnown'
<1> SUFFICES ASSUME TypeOK, ModeKnown, [Next]_vars PROVE TypeOK' /\ ModeKnown'
  OBVIOUS
<1>1. CASE Environment
  BY <1>1, EnvironmentType, EnvironmentLocal DEF ModeKnown
<1>2. ASSUME NEW c \in CRs, Deliver(c) \/ TimerFires(c) PROVE TypeOK' /\ ModeKnown'
  <2>1. w' = w
    BY <1>2 DEF Deliver, TimerFires, SyncCR, SyncWorkload
  <2>. QED BY <1>2, <2>1, DeliverType DEF ModeKnown
<1>3. ASSUME NEW c \in CRs, Start(c) PROVE TypeOK' /\ ModeKnown'
  <2>1. w' = w \/ w'.pc # "apply"
    BY <1>3, StartCases DEF Taken
  <2>. QED BY <1>3, <2>1, StartType DEF ModeKnown
<1>4. CASE Work \/ CallFails
  BY <1>4, WorkEffect, StandingStep, WorkType
<1>5. CASE Crash
  <2>1. w'.pc = "idle"
    BY <1>5 DEF Crash, Restart, IdleWorker
  <2>. QED BY <1>5, <2>1, CrashType DEF ModeKnown
<1>6. CASE UNCHANGED vars
  BY <1>6
  DEF vars, TypeOK, ModeKnown, kube, informer, workqueue, azdo, cluster, history, budget
<1>. QED BY <1>1, <1>2, <1>3, <1>4, <1>5, <1>6 DEF Next

(***************************************************************************)
(* The variables always have their types; in particular no retry loop of   *)
(* updateStatus or reconcileDeploymentInternal makes a fourth try, and     *)
(* Handle never runs before a client has been put into the use case.       *)
(***************************************************************************)
THEOREM TypeCorrect == Spec => []TypeOK
<1>1. Init => TypeOK /\ ModeKnown
  <2>1. Init => w.pc = "idle"
    <3>1. Init => w = IdleWorker
      BY Zenon DEF Init
    <3>2. IdleWorker.pc = "idle"
      BY DEF IdleWorker
    <3>. QED BY <3>1, <3>2
  <2>. QED BY <2>1, TypeInit DEF ModeKnown
<1>. QED BY <1>1, TypeStep, PTL DEF Spec
=============================================================================
