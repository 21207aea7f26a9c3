------------------------- MODULE ImplementationProofs -------------------------
(***************************************************************************)
(* The operator implements Lifecycle, for every value of the constants:    *)
(* initial states map to initial states, and every step to a step or to    *)
(* none.                                                                   *)
(***************************************************************************)
EXTENDS CleanupProofs, Implementation

-----------------------------------------------------------------------------
(* How the mapped state changes. *)

\* Nothing that is mapped to objects, workloads or agents changes,
SameObjects == phaseBar' = phaseBar /\ uidBar' = uidBar
SameWorkloads == workBar' = workBar
SameAgents == poolBar' = poolBar
SameListing == listedBar' = listedBar /\ standingBar' = standingBar
Forgotten == listedBar' = None /\ standingBar' = {}

\* as long as the variables do not.
LEMMA BarsKept ==
  /\ UNCHANGED api => SameObjects
  /\ UNCHANGED wl => SameWorkloads
  /\ UNCHANGED agents => SameAgents
  /\ UNCHANGED <<w, fresh, standing>> => SameListing
<1>1. UNCHANGED api => SameObjects
  BY DEF SameObjects, phaseBar, uidBar
<1>2. UNCHANGED wl => SameWorkloads
  BY DEF SameWorkloads, workBar
<1>3. UNCHANGED agents => SameAgents
  BY DEF SameAgents, poolBar
<1>4. UNCHANGED <<w, fresh, standing>> => SameListing
  BY DEF SameListing, listedBar, standingBar, Releasing
<1>. QED BY <1>1, <1>2, <1>3, <1>4

\* A worker that is not deleting agents has no listing.
LEMMA NoListing ==
  /\ w.pc # "purge" => listedBar = None /\ standingBar = {}
  /\ w'.pc # "purge" => Forgotten
BY DEF Forgotten, listedBar, standingBar, Releasing

\* A write of a CR is one of its phase and of its number.
LEMMA WriteCRMapped ==
  ASSUME TypeOK, NEW c \in CRs, NEW new, WriteCR(c, new)
  PROVE  /\ phaseBar' = [phaseBar EXCEPT ![c] = Phase(new)]
         /\ uidBar' = [uidBar EXCEPT ![c] = new.uid]
<1>1. api'[c] = new /\ \A d \in CRs \ {c} : api'[d] = api[d]
  BY WriteCREffect
<1> HIDE DEF Phase
<1>. QED BY <1>1 DEF phaseBar, uidBar

\* One that keeps both changes nothing.
LEMMA WriteCRUnseen ==
  ASSUME TypeOK, NEW c \in CRs, NEW new, WriteCR(c, new),
         Phase(new) = Phase(api[c]), new.uid = api[c].uid
  PROVE  SameObjects
<1>1. /\ phaseBar' = [phaseBar EXCEPT ![c] = Phase(new)]
      /\ uidBar' = [uidBar EXCEPT ![c] = new.uid]
  BY WriteCRMapped
<1>2. phaseBar[c] = Phase(new) /\ uidBar[c] = new.uid
  BY DEF phaseBar, uidBar
<1> HIDE DEF Phase
<1>3. phaseBar' = phaseBar
  BY <1>1, <1>2 DEF phaseBar
<1>4. uidBar' = uidBar
  BY <1>1, <1>2 DEF uidBar
<1>. QED BY <1>3, <1>4 DEF SameObjects

\* The incarnation that a workload belongs to, as a set.
Owners(x) == IF x.exists THEN {x.uid} ELSE {}

\* Functions of two arguments with the same values are equal.
LEMMA TwoLevelEqual ==
  ASSUME NEW S, NEW T, NEW V, NEW f \in [S -> [T -> V]], NEW g \in [S -> [T -> V]],
         \A d \in S, l \in T : f[d][l] = g[d][l]
  PROVE  f = g
<1>1. ASSUME NEW d \in S PROVE f[d] = g[d]
  <2>1. f[d] \in [T -> V] /\ g[d] \in [T -> V] /\ \A l \in T : f[d][l] = g[d][l]
    OBVIOUS
  <2>. QED BY <2>1
<1>. QED BY <1>1

\* The owners of stored workloads.
OwnersOf(x) == [c \in CRs |-> [k \in Kinds |-> Owners(x[c][k])]]

LEMMA OwnersMapped ==
  ASSUME NEW x \in [CRs -> [Kinds -> WorkloadType]]
  PROVE  /\ OwnersOf(x) \in [CRs -> [Kinds -> SUBSET Nat]]
         /\ \A c \in CRs, k \in Kinds : OwnersOf(x)[c][k] = Owners(x[c][k])
<1>1. \A t \in WorkloadType : Owners(t) \in SUBSET Nat
  BY DEF Owners, WorkloadType
<1>2. \A c \in CRs, k \in Kinds : x[c][k] \in WorkloadType
  OBVIOUS
<1>. QED BY <1>1, <1>2 DEF OwnersOf

\* A write of a workload is one of its owner.
LEMMA WriteWorkloadMapped ==
  ASSUME TypeOK, NEW c \in CRs, NEW k \in Kinds, NEW new \in WorkloadType,
         WriteWorkload(c, k, new)
  PROVE  workBar' = [workBar EXCEPT ![c][k] = Owners(new)]
<1> DEFINE old == OwnersOf(wl)
           next == OwnersOf(wl')
           upd == [old EXCEPT ![c][k] = Owners(new)]
<1>1. workBar = old /\ workBar' = next
  BY Zenon DEF workBar, OwnersOf, Owners
<1>2. /\ wl'[c][k] = new
      /\ \A d \in CRs : \A l \in Kinds : d # c \/ l # k => wl'[d][l] = wl[d][l]
  BY WriteWorkloadEffect
<1>3. wl \in [CRs -> [Kinds -> WorkloadType]] /\ wl' \in [CRs -> [Kinds -> WorkloadType]]
  BY WriteWorkloadType DEF TypeOK
<1>4. /\ old \in [CRs -> [Kinds -> SUBSET Nat]]
      /\ \A d \in CRs, l \in Kinds : old[d][l] = Owners(wl[d][l])
  BY <1>3, OwnersMapped
<1>5. /\ next \in [CRs -> [Kinds -> SUBSET Nat]]
      /\ \A d \in CRs, l \in Kinds : next[d][l] = Owners(wl'[d][l])
  BY <1>3, OwnersMapped
<1>6. Owners(new) \in SUBSET Nat
  BY DEF Owners, WorkloadType
<1> HIDE DEF old, next
<1>7. /\ upd \in [CRs -> [Kinds -> SUBSET Nat]]
      /\ \A d \in CRs, l \in Kinds :
           upd[d][l] = IF d = c /\ l = k THEN Owners(new) ELSE old[d][l]
  BY <1>4, <1>6, SMT
<1> HIDE DEF upd
<1>8. \A d \in CRs, l \in Kinds : next[d][l] = upd[d][l]
  BY <1>2, <1>4, <1>5, <1>7
<1>9. next = upd
  BY <1>5, <1>7, <1>8, TwoLevelEqual
<1>. QED BY <1>1, <1>9, Zenon DEF upd

\* One that keeps it changes nothing.
LEMMA WriteWorkloadUnseen ==
  ASSUME TypeOK, NEW c \in CRs, NEW k \in Kinds, NEW new \in WorkloadType,
         WriteWorkload(c, k, new), Owners(new) = Owners(wl[c][k])
  PROVE  SameWorkloads
<1>1. /\ wl'[c][k] = new
      /\ \A d \in CRs : \A l \in Kinds : d # c \/ l # k => wl'[d][l] = wl[d][l]
  BY WriteWorkloadEffect
<1>2. \A d \in CRs, l \in Kinds : Owners(wl'[d][l]) = Owners(wl[d][l])
  BY <1>1, Zenon
<1>. QED BY <1>2, Zenon DEF SameWorkloads, workBar, Owners

-----------------------------------------------------------------------------
(* Users, the cluster and Azure DevOps. *)

\* Where nothing that is mapped to objects, workloads or agents changes, the
\* listing may stay or be given up.
Allowed == L!Next \/ UNCHANGED L!vars

LEMMA KeptOrAbandoned ==
  ASSUME SameObjects, SameWorkloads, SameAgents, SameListing \/ Forgotten
  PROVE  Allowed
BY DEF Allowed, SameObjects, SameWorkloads, SameAgents, SameListing, Forgotten, L!Next,
       L!Abandon, L!Forget, L!vars, L!object, L!listing

\* A cleanup that is going to succeed is one of a stored CR that is being deleted.
LEMMA ReleasingCurrent ==
  ASSUME IInv, Releasing
  PROVE  /\ w.req \in CRs /\ api[w.req].exists /\ api[w.req].deleting
         /\ api[w.req].uid = w.cr.uid
<1>1. w.req \in CRs
  BY RequestType DEF IInv, Releasing
<1>2. synced[w.req] /\ cache[w.req].exists /\ cache[w.req].deleting
      /\ cache[w.req].uid = w.cr.uid
  BY Zenon DEF IInv, Releasing, CleanupCurrent
<1>3. cache[w.req] = api[w.req]
  BY <1>1, <1>2 DEF IInv, Coherent
<1>. QED BY <1>1, <1>2, <1>3

\* A user's write changes no workload and no agent, and touches a listing only if
\* it makes the worker's copy of the CR out of date.
LEMMA UserWriteMapped ==
  ASSUME IInv, NEW c \in CRs, NEW new, UserWrite(c, new)
  PROVE  /\ SameWorkloads /\ SameAgents
         /\ SameListing \/ Forgotten
         /\ ~(api[c].exists /\ api[c].deleting) => SameListing
<1>1. SameWorkloads /\ SameAgents
  BY BarsKept DEF UserWrite, azdo
<1>2. w' = w /\ standing' = standing /\ fresh' = (fresh /\ w.req # c)
  BY DEF UserWrite, history
<1>3. CASE Releasing /\ w.req = c
  <2>1. Forgotten
    BY <1>2, <1>3 DEF Forgotten, listedBar, standingBar, Releasing
  <2>. QED BY <1>1, <1>3, <2>1, ReleasingCurrent
<1>4. CASE ~(Releasing /\ w.req = c)
  BY <1>1, <1>2, <1>4 DEF SameListing, listedBar, standingBar, Releasing
<1>. QED BY <1>3, <1>4

\* Creating a CR.
LEMMA CreateCRMapped ==
  ASSUME IInv, NEW c \in CRs, CreateCR(c)
  PROVE  L!Create(c)
<1>1. PICK s \in Specs : UserWrite(c, NewCR(api[c].uid + 1, s)) /\ ~api[c].exists
  BY DEF CreateCR
<1> DEFINE new == NewCR(api[c].uid + 1, s)
<1>2. Phase(new) = "open" /\ new.uid = api[c].uid + 1
  BY DEF NewCR, Phase
<1>3. TypeOK /\ WriteCR(c, new)
  BY <1>1 DEF UserWrite, IInv
<1>4. SameWorkloads /\ SameAgents /\ SameListing
  BY <1>1, UserWriteMapped
<1> HIDE DEF new
<1>5. /\ phaseBar' = [phaseBar EXCEPT ![c] = "open"]
      /\ uidBar' = [uidBar EXCEPT ![c] = api[c].uid + 1]
  BY <1>2, <1>3, WriteCRMapped
<1>6. phaseBar[c] = "absent" /\ uidBar[c] = api[c].uid
  BY <1>1 DEF phaseBar, uidBar, Phase
<1>. QED BY <1>4, <1>5, <1>6
         DEF SameWorkloads, SameAgents, SameListing, L!Create, L!Becomes, L!listing

\* Editing one.
LEMMA EditSpecMapped ==
  ASSUME IInv, NEW c \in CRs, EditSpec(c)
  PROVE  Allowed
<1>1. PICK s \in Specs : UserWrite(c, [api[c] EXCEPT !.spec = s])
  BY DEF EditSpec
<1> DEFINE new == [api[c] EXCEPT !.spec = s]
<1>2. TypeOK /\ api[c] \in CRType
  BY DEF IInv, TypeOK
<1>3. /\ new.exists = api[c].exists /\ new.deleting = api[c].deleting
      /\ new.finalizer = api[c].finalizer /\ new.uid = api[c].uid
  BY <1>2 DEF CRType
<1>4. WriteCR(c, new)
  BY <1>1 DEF UserWrite
<1> HIDE DEF new
<1>5. SameObjects
  BY <1>2, <1>3, <1>4, WriteCRUnseen DEF Phase
<1>. QED BY <1>1, <1>5, UserWriteMapped, KeptOrAbandoned

\* Deleting one: it vanishes, or is marked.
LEMMA DeleteCRMapped ==
  ASSUME IInv, NEW c \in CRs, DeleteCR(c)
  PROVE  L!Delete(c) \/ L!Vanish(c)
<1> DEFINE new == IF api[c].finalizer THEN [api[c] EXCEPT !.deleting = TRUE]
                                      ELSE AbsentCR(api[c].uid)
<1>1. UserWrite(c, new) /\ api[c].exists /\ ~api[c].deleting
  BY DEF DeleteCR
<1>2. TypeOK /\ WriteCR(c, new) /\ api[c] \in CRType
  BY <1>1 DEF UserWrite, IInv, TypeOK
<1>3. SameWorkloads /\ SameAgents /\ SameListing
  BY <1>1, UserWriteMapped
<1>4. new.uid = api[c].uid /\ Phase(new) = IF api[c].finalizer THEN "deleting" ELSE "absent"
  BY <1>1, <1>2 DEF CRType, AbsentCR, Phase
<1> HIDE DEF new
<1>5. /\ phaseBar' = [phaseBar EXCEPT ![c] = Phase(new)]
      /\ uidBar' = [uidBar EXCEPT ![c] = api[c].uid]
  BY <1>2, <1>4, WriteCRMapped
<1>6. phaseBar[c] = IF api[c].finalizer THEN "guarded" ELSE "open"
  BY <1>1 DEF phaseBar, Phase
<1>7. uidBar' = uidBar
  BY <1>5 DEF uidBar
<1>. QED BY <1>3, <1>4, <1>5, <1>6, <1>7
         DEF SameWorkloads, SameAgents, SameListing, L!Delete, L!Vanish, L!Becomes, L!listing

\* A write of a workload by somebody else leaves the rest alone.
LEMMA ClusterWriteMapped ==
  ASSUME TypeOK, NEW c \in CRs, NEW k \in Kinds, NEW new, ClusterWrite(c, k, new)
  PROVE  SameObjects /\ SameAgents /\ SameListing
BY BarsKept DEF ClusterWrite, azdo, history

\* Scaling by hand, a rollout and a Job that finishes keep the owner.
LEMMA OwnerKept ==
  ASSUME TypeOK, NEW c \in CRs, UserScale(c) \/ Rollout(c) \/ JobFinishes(c)
  PROVE  Allowed
<1>1. ASSUME NEW k \in Kinds, NEW new \in WorkloadType, ClusterWrite(c, k, new),
             new.exists = wl[c][k].exists, new.uid = wl[c][k].uid
      PROVE  Allowed
  <2>1. Owners(new) = Owners(wl[c][k]) /\ WriteWorkload(c, k, new)
    BY <1>1 DEF ClusterWrite, Owners
  <2>2. SameWorkloads
    BY <1>1, <2>1, WriteWorkloadUnseen
  <2>. QED BY <1>1, <2>2, ClusterWriteMapped, KeptOrAbandoned
<1>2. wl[c]["Deployment"] \in WorkloadType /\ wl[c]["Jobs"] \in WorkloadType
  BY WorkloadsTyped
<1>3. ASSUME NEW r \in WorkloadType
      PROVE  /\ \A n \in Nat : /\ [r EXCEPT !.replicas = n].exists = r.exists
                               /\ [r EXCEPT !.ready = n].exists = r.exists
             /\ [r EXCEPT !.finished = TRUE].exists = r.exists
  BY DEF WorkloadType
<1>4. CASE UserScale(c)
  <2>1. PICK n \in UserScales :
          ClusterWrite(c, "Deployment", [wl[c]["Deployment"] EXCEPT !.replicas = n])
    BY <1>4 DEF UserScale
  <2>2. n \in Nat
    BY InputsAssumption
  <2>. QED BY <1>1, <1>2, <1>3, <2>1, <2>2, EditedWorkload DEF Kinds
<1>5. CASE Rollout(c)
  <2> DEFINE d == wl[c]["Deployment"]
         new == [d EXCEPT !.ready = d.replicas]
  <2>1. ClusterWrite(c, "Deployment", new)
    BY <1>5 DEF Rollout
  <2>2. d \in WorkloadType /\ d.replicas \in Nat
    BY <1>2, EditedWorkload
  <2>3. new \in WorkloadType /\ new.exists = d.exists /\ new.uid = d.uid
    BY <1>3, <2>2, EditedWorkload
  <2> HIDE DEF new
  <2>. QED BY <1>1, <2>1, <2>3 DEF Kinds
<1>6. CASE JobFinishes(c)
  BY <1>1, <1>2, <1>3, <1>6, EditedWorkload DEF JobFinishes, Kinds
<1>. QED BY <1>4, <1>5, <1>6

\* The garbage collector.
LEMMA CollectGarbageMapped ==
  ASSUME TypeOK, NEW c \in CRs, NEW k \in Kinds, CollectGarbage(c, k)
  PROVE  L!Collect(c, k)
<1>1. /\ ClusterWrite(c, k, NoWorkload) /\ wl[c][k].exists
      /\ ~(api[c].exists /\ api[c].uid = wl[c][k].uid)
  BY DEF CollectGarbage
<1>2. SameObjects /\ SameAgents /\ SameListing
  BY <1>1, ClusterWriteMapped
<1>3. Owners(NoWorkload) = {} /\ NoWorkload \in WorkloadType
  BY ObjectTypes DEF Owners, NoWorkload
<1>4. workBar' = [workBar EXCEPT ![c][k] = {}]
  BY <1>1, <1>3, WriteWorkloadMapped DEF ClusterWrite
<1>5. workBar[c][k] = {wl[c][k].uid} /\ uidBar[c] = api[c].uid
  BY <1>1 DEF workBar, uidBar
<1>6. phaseBar[c] = "absent" \/ uidBar[c] \notin workBar[c][k]
  BY <1>1, <1>5 DEF phaseBar, Phase
<1>. QED BY <1>2, <1>4, <1>6 DEF SameObjects, SameAgents, SameListing, L!Collect, L!object, L!listing

\* Agents come and go.
LEMMA RegisterMapped ==
  ASSUME TypeOK, NEW a \in Agents, Register(a)
  PROVE  L!Register(a)
<1>1. SameObjects /\ SameWorkloads /\ SameListing
  BY BarsKept DEF Register, kube, history
<1>2. poolBar' = poolBar \cup {a}
  BY DEF Register, poolBar, TypeOK
<1>. QED BY <1>1, <1>2
         DEF Register, SameObjects, SameWorkloads, SameListing, L!Register, L!object, L!listing

LEMMA DeregisterMapped ==
  ASSUME TypeOK, NEW a \in Agents, Deregister(a)
  PROVE  L!Leave(a)
<1>1. SameObjects /\ SameWorkloads
  BY BarsKept DEF Deregister, kube
<1>2. poolBar' = poolBar \ {a}
  BY DEF Deregister, poolBar, TypeOK
<1>3. listedBar' = listedBar /\ standingBar' = standingBar \ {a}
  BY DEF Deregister, listedBar, standingBar, Releasing
<1>. QED BY <1>1, <1>2, <1>3 DEF SameObjects, SameWorkloads, L!Leave, L!object

\* All that users, the cluster and Azure DevOps do is a step of Lifecycle or none.
LEMMA EnvironmentMapped == IInv /\ Environment => Allowed
<1> SUFFICES ASSUME IInv, Environment PROVE Allowed
  OBVIOUS
<1>1. TypeOK
  BY DEF IInv
<1>2. ASSUME NEW c \in CRs, CreateCR(c) PROVE Allowed
  BY <1>2, CreateCRMapped DEF Allowed, L!Next
<1>3. ASSUME NEW c \in CRs, EditSpec(c) PROVE Allowed
  BY <1>3, EditSpecMapped
<1>4. ASSUME NEW c \in CRs, DeleteCR(c) PROVE Allowed
  BY <1>4, DeleteCRMapped DEF Allowed, L!Next
<1>5. ASSUME NEW c \in CRs, SetQueue(c) \/ PodEvent(c) PROVE Allowed
  BY <1>5, BarsKept, KeptOrAbandoned DEF SetQueue, PodEvent, kube, azdo, history
<1>6. ASSUME NEW c \in CRs, UserScale(c) \/ Rollout(c) \/ JobFinishes(c) PROVE Allowed
  BY <1>1, <1>6, OwnerKept
<1>7. ASSUME NEW c \in CRs, NEW k \in Kinds, CollectGarbage(c, k) PROVE Allowed
  BY <1>1, <1>7, CollectGarbageMapped DEF Allowed, L!Next
<1>8. CASE SetSecret
  BY <1>8, BarsKept, KeptOrAbandoned DEF SetSecret, kube, azdo, history
<1>9. ASSUME NEW a \in Agents, Register(a) PROVE Allowed
  BY <1>1, <1>9, RegisterMapped DEF Allowed, L!Next
<1>10. ASSUME NEW a \in Agents, Deregister(a) PROVE Allowed
  BY <1>1, <1>10, DeregisterMapped DEF Allowed, L!Next
<1>. QED
  BY <1>2, <1>3, <1>4, <1>5, <1>6, <1>7, <1>8, <1>9, <1>10 DEF Environment

-----------------------------------------------------------------------------
(* The worker. *)

\* Watch events, timers and the beginning of a reconcile are not seen.
LEMMA DeliverMapped ==
  ASSUME IInv, NEW c \in CRs, Deliver(c) \/ TimerFires(c) \/ Start(c)
  PROVE  Allowed
<1>1. TypeOK
  BY DEF IInv
<1>2. CASE Deliver(c) \/ TimerFires(c)
  BY <1>2, BarsKept, KeptOrAbandoned
  DEF Deliver, SyncCR, SyncWorkload, TimerFires, kube, azdo, history
<1>3. CASE Start(c)
  <2>1. SameObjects /\ SameWorkloads /\ SameAgents
    BY <1>1, <1>3, StartCases, BarsKept DEF kube, azdo
  <2>2. w'.pc # "purge"
    BY <1>1, <1>3, StartCases DEF Taken
  <2>. QED BY <2>1, <2>2, NoListing, KeptOrAbandoned
<1>. QED BY <1>2, <1>3

\* Outside the cleanup the worker reaches no agent.
LEMMA MainAgents ==
  ASSUME Work \/ CallFails, w.pc \notin Cleanup
  PROVE  UNCHANGED agents
BY DEF Work, Purge, CallFails, Cleanup, DisableAgent, DeleteAgent, AgentMissing, RemoveFinalizer,
       PodHandled, ListAgents, AddFinalizer, UpdateStatus, QueryQueue, Handle, CreateWorkload,
       UpdateDeployment, UpdateDeploymentRefused, UpdateJob, Observe, ApplyRest, azdo

\* Storing the finalizer.
LEMMA GuardsMapped ==
  ASSUME IInv, Guards, SameWorkloads, SameAgents, Forgotten, listedBar = None, standingBar = {}
  PROVE  Allowed
<1> DEFINE c == w.req
           new == [api[c] EXCEPT !.finalizer = TRUE]
<1>1. TypeOK /\ c \in CRs /\ api[c] \in CRType /\ WriteCR(c, new)
  BY RequestType DEF IInv, TypeOK, Guards
<1>2. new.uid = api[c].uid /\ new.exists = api[c].exists /\ new.deleting = api[c].deleting
      /\ new.finalizer
  BY <1>1 DEF CRType
<1> HIDE DEF new, c
<1>3. CASE Phase(api[c]) = "open"
  <2>1. Phase(new) = "guarded"
    BY <1>2, <1>3 DEF Phase
  <2>2. phaseBar' = [phaseBar EXCEPT ![c] = "guarded"] /\ uidBar' = [uidBar EXCEPT ![c] = api[c].uid]
    BY <1>1, <1>2, <2>1, WriteCRMapped
  <2>3. phaseBar[c] = "open" /\ uidBar' = uidBar
    BY <1>1, <1>3, <2>2 DEF phaseBar, uidBar
  <2>4. L!Guard(c)
    BY <2>2, <2>3 DEF L!Guard, L!Becomes, L!listing, SameWorkloads, SameAgents, Forgotten
  <2>. QED BY <1>1, <2>4 DEF Allowed, L!Next
<1>4. CASE Phase(api[c]) # "open"
  <2>1. Phase(new) = Phase(api[c])
    BY <1>2, <1>4 DEF Phase
  <2>2. SameObjects
    BY <1>1, <1>2, <2>1, WriteCRUnseen
  <2>. QED BY <2>2, KeptOrAbandoned
<1>. QED BY <1>3, <1>4

\* Creating a workload.
LEMMA CreatesMapped ==
  ASSUME IInv, Creates, SameObjects, SameAgents, Forgotten, listedBar = None, standingBar = {}
  PROVE  Allowed
<1> DEFINE c == w.req
           k == w.cr.spec.mode
<1>1. TypeOK /\ c \in CRs /\ k \in Kinds /\ w.cr \in CRType /\ Guarded(c, w.cr)
  BY RequestType DEF IInv, Creates, ModeKnown, WorkerGuarded
<1>2. PICK n \in Nat : WriteWorkload(c, k, NewWorkload(w.cr, n))
  BY DEF Creates
<1> DEFINE new == NewWorkload(w.cr, n)
<1>3. new \in WorkloadType /\ Owners(new) = {w.cr.uid}
  BY <1>1, WorkloadTypes DEF NewWorkload, Owners
<1> HIDE DEF new
<1>4. workBar' = [workBar EXCEPT ![c][k] = {w.cr.uid}]
  BY <1>1, <1>2, <1>3, WriteWorkloadMapped DEF new
<1>5. uidBar[c] = w.cr.uid /\ phaseBar[c] \in {"guarded", "deleting"} /\ workBar[c][k] = {}
  BY <1>1 DEF Guarded, uidBar, phaseBar, Phase, workBar, Creates
<1>6. L!Apply(c, k)
  BY <1>4, <1>5 DEF L!Apply, L!object, L!listing, SameObjects, SameAgents, Forgotten
<1>. QED BY <1>1, <1>6 DEF Allowed, L!Next

\* Updating one.
LEMMA UpdatesMapped ==
  ASSUME IInv, Updates
  PROVE  SameWorkloads
<1> DEFINE c == w.req
           d == wcache[c]["Deployment"]
           new == [d EXCEPT !.replicas = w.want, !.template = WithDefaults(Template(w.cr.spec))]
<1>1. TypeOK /\ c \in CRs /\ d \in WorkloadType /\ w.want \in Nat /\ w.cr.spec \in Specs
  BY RequestType, WorkloadsTyped DEF IInv, Updates
<1>2. d = wl[c]["Deployment"] /\ WriteWorkload(c, "Deployment", new)
  BY <1>1 DEF IInv, Coherent, Updates, Kinds
<1>3. new \in WorkloadType
  BY <1>1, WorkloadUpdates
<1>4. new.exists = d.exists /\ new.uid = d.uid
  BY <1>1 DEF WorkloadType
<1> HIDE DEF new
<1>5. Owners(new) = Owners(wl[c]["Deployment"])
  BY <1>2, <1>4 DEF Owners
<1>6. "Deployment" \in Kinds
  BY DEF Kinds
<1>. HIDE DEF c, d
<1>. QED BY <1>1, <1>2, <1>3, <1>5, <1>6, WriteWorkloadUnseen

\* Reporting the status keeps the object.
LEMMA ReportsMapped ==
  ASSUME IInv, Reports
  PROVE  SameObjects
<1> DEFINE c == w.req
           new == WithReason(api[c], w.cr.status, w.phase)
<1>1. TypeOK /\ c \in CRs /\ api[c] \in CRType /\ w.cr.status \in Status
      /\ w.phase \in {"", "Processing", "Failed", "Ready"}
  BY RequestType DEF IInv, TypeOK, Reports
<1>2. WriteCR(c, new)
  BY DEF Reports
<1>3. SameObject(new, api[c])
  BY <1>1, CRHelpers
<1> HIDE DEF new
<1>. QED BY <1>1, <1>2, <1>3, WriteCRUnseen DEF SameObject, Phase

\* The steps outside the cleanup.
LEMMA MainMapped ==
  ASSUME IInv, Work \/ CallFails, w.pc \notin Cleanup
  PROVE  Allowed
<1>1. TypeOK
  BY DEF IInv
<1>2. WorkStep
  BY <1>1, WorkEffect
<1>3. SameAgents
  BY MainAgents, BarsKept
<1>4. Forgotten /\ listedBar = None /\ standingBar = {}
  <2>1. w'.pc # "purge" /\ w.pc # "purge"
    BY <1>2 DEF WorkStep, LocalStep, MovesOn, Ends, Main, Cleanup
  <2>. QED BY <2>1, NoListing
<1>5. CASE Guards
  <2>1. UNCHANGED wl
    BY <1>2, <1>5 DEF WorkStep, WorkloadStep, Guards, Creates, Updates
  <2>. QED BY <1>3, <1>4, <1>5, <2>1, BarsKept, GuardsMapped
<1>6. CASE SameObjects
  <2>1. CASE Creates
    BY <1>3, <1>4, <1>6, <2>1, CreatesMapped
  <2>2. CASE SameWorkloads
    BY <1>3, <1>4, <1>6, <2>2, KeptOrAbandoned
  <2>. QED BY <1>2, <2>1, <2>2, UpdatesMapped, BarsKept DEF WorkStep, WorkloadStep
<1>. QED BY <1>2, <1>5, <1>6, ReportsMapped, BarsKept DEF WorkStep, CRStep, Releases, Cleanup

\* Listing the pool for a CR that is being deleted; any other listing is not seen.
LEMMA ListAgentsMapped ==
  ASSUME IInv, NEW o \in Listing, ListAgents(o)
  PROVE  Allowed
<1>1. TypeOK /\ w \in WorkerType /\ w.pc = "list"
  BY DEF IInv, TypeOK, ListAgents
<1>2. SameObjects /\ SameWorkloads /\ SameAgents
  BY BarsKept DEF ListAgents, kube, azdo
<1>3. CASE w'.pc # "purge" \/ ~(w'.why = "finalizer" /\ fresh')
  <2>1. Forgotten
    BY <1>3 DEF Forgotten, listedBar, standingBar, Releasing
  <2>. QED BY <1>2, <2>1, KeptOrAbandoned
<1>4. CASE w'.pc = "purge" /\ w'.why = "finalizer" /\ fresh'
  <2> DEFINE left == [a \in Agents |-> IF a \in GetAgentsInPool /\ Matches(a)
                                       THEN agents[a] ELSE "done"]
  <2>1. CASE PATFound(secret) /\ o = "ok"
    <3>1. w' = [w EXCEPT !.pc = "purge", !.todo = left] /\ standing' = poolBar /\ fresh' = fresh
      BY <2>1, Zenon DEF ListAgents, GetAgentsInPool, poolBar
    <3>2. w'.why = w.why /\ w'.req = w.req
      <4> HIDE DEF left
      <4>. QED BY <1>1, <3>1 DEF WorkerType
    <3>3. listedBar' = w.req /\ standingBar' = poolBar
      BY <1>4, <3>1, <3>2 DEF listedBar, standingBar, Releasing
    <3>4. w.req \in CRs /\ synced[w.req] /\ cache[w.req].exists /\ cache[w.req].deleting
      BY <1>1, <1>4, <3>1, <3>2, RequestType DEF IInv, CleanupCurrent
    <3>5. phaseBar[w.req] = "deleting"
      BY <3>4 DEF IInv, Coherent, phaseBar, Phase
    <3>6. L!List(w.req)
      BY <1>2, <3>3, <3>5 DEF SameObjects, SameWorkloads, SameAgents, L!List, L!object
    <3>. QED BY <3>4, <3>6 DEF Allowed, L!Next
  <2>2. CASE ~(PATFound(secret) /\ o = "ok")
    <3>1. w' = IdleWorker
      BY <2>2, Zenon DEF ListAgents, Finish
    <3>. QED BY <1>4, <3>1 DEF IdleWorker
  <2>. QED BY <2>1, <2>2
<1>. QED BY <1>3, <1>4

\* A call on an agent: it keeps the listing, but for that agent if it was deleted,
\* or gives it up.
LEMMA AdvanceMapped ==
  ASSUME IInv, w.pc = "purge", NEW a \in Agents, NEW r \in Replies, NEW stage \in {"now", "done"},
         Advance(a, stage, r)
  PROVE  \/ Forgotten
         \/ w'.pc = w.pc /\ w'.why = w.why /\ w'.req = w.req /\ fresh' = fresh
<1>1. w \in WorkerType
  BY DEF IInv, TypeOK
<1>2. CASE r = "ok"
  <2> DEFINE left == [w.todo EXCEPT ![a] = stage]
  <2>1. w' = [w EXCEPT !.todo = left] /\ fresh' = fresh
    BY <1>2, Zenon DEF Advance
  <2> HIDE DEF left
  <2>. QED BY <1>1, <2>1 DEF WorkerType
<1>3. CASE r # "ok"
  <2>1. w' = IdleWorker
    BY <1>3, Zenon DEF Advance
  <2>2. w'.pc # "purge"
    BY <2>1 DEF IdleWorker
  <2>. QED BY <2>2, NoListing
<1>. QED BY <1>2, <1>3

\* Disabling an agent is not seen.
LEMMA DisableAgentMapped ==
  ASSUME IInv, NEW a \in Agents, NEW r \in Replies, DisableAgent(a, r)
  PROVE  Allowed
<1>1. SameObjects /\ SameWorkloads
  BY BarsKept DEF DisableAgent, kube
<1>2. SameAgents
  BY DEF IInv, TypeOK, DisableAgent, SameAgents, poolBar
<1>3. standing' = standing /\ w.pc = "purge" /\ Advance(a, "now", r)
  BY DEF DisableAgent, history
<1>4. SameListing \/ Forgotten
  BY <1>3, AdvanceMapped DEF SameListing, listedBar, standingBar, Releasing
<1>. QED BY <1>1, <1>2, <1>4, KeptOrAbandoned

\* A deleted agent leaves.
LEMMA DeleteAgentMapped ==
  ASSUME IInv, NEW a \in Agents, NEW r \in Replies, DeleteAgent(a, r)
  PROVE  Allowed
<1>1. SameObjects /\ SameWorkloads
  BY BarsKept DEF DeleteAgent, kube
<1>2. poolBar' = poolBar \ {a}
  BY DEF IInv, TypeOK, DeleteAgent, poolBar
<1>3. standing' = standing \ {a} /\ w.pc = "purge" /\ Advance(a, "done", r)
  BY DEF DeleteAgent
<1>4. \/ listedBar' = listedBar /\ standingBar' = standingBar \ {a}
      \/ Forgotten
  BY <1>3, AdvanceMapped DEF listedBar, standingBar, Releasing
<1>5. L!Leave(a)
  BY <1>1, <1>2, <1>4 DEF SameObjects, SameWorkloads, Forgotten, L!Leave, L!Forget, L!object
<1>. QED BY <1>5 DEF Allowed, L!Next

\* A CR goes with none of its listed agents left.
LEMMA RemoveFinalizerMapped ==
  ASSUME IInv, Listed, RemoveFinalizer
  PROVE  Allowed
<1>1. TypeOK /\ w.pc = "purge" /\ w.why = "finalizer" /\ Remaining = {}
  BY DEF IInv, RemoveFinalizer
<1>2. w' = IdleWorker
  BY DEF RemoveFinalizer, Finish
<1>3. Forgotten
  <2>1. w'.pc # "purge"
    BY <1>2 DEF IdleWorker
  <2>. QED BY <2>1, NoListing
<1>4. SameWorkloads /\ SameAgents
  BY BarsKept DEF RemoveFinalizer, azdo
<1>5. CASE fresh
  <2> DEFINE c == w.req
  <2>1. listedBar = c /\ standingBar = standing /\ Releasing
    BY <1>1, <1>5 DEF listedBar, standingBar, Releasing
  <2>2. c \in CRs /\ api[c].exists /\ api[c].deleting /\ api[c].uid = w.cr.uid
    BY <2>1, ReleasingCurrent
  <2>3. ASSUME NEW a \in standing, Owner(a) = c PROVE FALSE
    <3>1. a \in Agents
      BY <1>1 DEF TypeOK
    <3>. QED BY <1>1, <2>3, <3>1 DEF Listed, Remaining
  <2>4. WriteCR(c, AbsentCR(w.cr.uid))
    BY <1>5 DEF RemoveFinalizer
  <2>5. Phase(AbsentCR(w.cr.uid)) = "absent" /\ AbsentCR(w.cr.uid).uid = w.cr.uid
    BY DEF AbsentCR, Phase
  <2>6. /\ phaseBar' = [phaseBar EXCEPT ![c] = "absent"]
        /\ uidBar' = [uidBar EXCEPT ![c] = w.cr.uid]
    BY <1>1, <2>2, <2>4, <2>5, WriteCRMapped
  <2>7. phaseBar[c] = "deleting" /\ uidBar' = uidBar
    BY <2>2, <2>6 DEF phaseBar, uidBar, Phase
  <2>8. L!Release(c)
    BY <1>3, <1>4, <2>1, <2>3, <2>6, <2>7
    DEF SameWorkloads, SameAgents, Forgotten, L!Release, L!Becomes, L!Forget
  <2>. QED BY <2>2, <2>8 DEF Allowed, L!Next
<1>6. CASE ~fresh
  <2>1. SameObjects
    BY <1>6, BarsKept DEF RemoveFinalizer
  <2>. QED BY <1>3, <1>4, <2>1, KeptOrAbandoned
<1>. QED BY <1>5, <1>6

\* A reconcile that ends with nothing written gives up the listing it has.
LEMMA FinishMapped ==
  ASSUME Finish, UNCHANGED <<kube, azdo>>
  PROVE  Allowed
<1>1. w'.pc # "purge"
  BY DEF Finish, IdleWorker
<1>2. SameObjects /\ SameWorkloads /\ SameAgents
  BY BarsKept DEF kube, azdo
<1>. QED BY <1>1, <1>2, NoListing, KeptOrAbandoned

\* The steps of the cleanup.
LEMMA CleanupMapped ==
  ASSUME IInv, Listed, Work \/ CallFails, w.pc \in Cleanup
  PROVE  Allowed
<1>1. ASSUME NEW o \in Listing, ListAgents(o) PROVE Allowed
  BY <1>1, ListAgentsMapped
<1>2. ASSUME NEW a \in Agents, NEW r \in Replies, DisableAgent(a, r) \/ DeleteAgent(a, r)
      PROVE  Allowed
  BY <1>2, DisableAgentMapped, DeleteAgentMapped
<1>3. CASE RemoveFinalizer
  BY <1>3, RemoveFinalizerMapped
<1>4. CASE Finish /\ UNCHANGED <<kube, azdo>>
  BY <1>4, FinishMapped
<1>. QED
  BY <1>1, <1>2, <1>3, <1>4
  DEF Work, Purge, CallFails, Cleanup, AgentMissing, PodHandled, AddFinalizer, UpdateStatus,
      QueryQueue, Handle, CreateWorkload, UpdateDeployment, UpdateDeploymentRefused, UpdateJob,
      Observe

-----------------------------------------------------------------------------

\* Initial states map to initial states.
LEMMA InitMapped == Init => L!Init
<1> SUFFICES ASSUME Init PROVE L!Init
  OBVIOUS
<1>1. /\ \A c \in CRs : api[c] = AbsentCR(0)
      /\ \A c \in CRs, k \in Kinds : wl[c][k] = NoWorkload
      /\ \A a \in Agents : agents[a] = "absent"
  BY DEF Init
<1>2. phaseBar = [c \in CRs |-> "absent"] /\ uidBar = [c \in CRs |-> 0]
  BY <1>1 DEF phaseBar, uidBar, Phase, AbsentCR
<1>3. workBar = [c \in CRs |-> [k \in Kinds |-> {}]]
  BY <1>1 DEF workBar, NoWorkload
<1>4. poolBar = {}
  BY <1>1 DEF poolBar
<1>5. listedBar = None /\ standingBar = {}
  <2>1. w = IdleWorker
    BY Zenon DEF Init
  <2>2. w.pc # "purge"
    BY <2>1 DEF IdleWorker
  <2>. QED BY <2>2, NoListing
<1>. QED BY <1>2, <1>3, <1>4, <1>5 DEF L!Init

\* Every step maps to a step or to none.
LEMMA StepMapped == IInv /\ Listed /\ [Next]_vars => [L!Next]_(L!vars)
<1> SUFFICES ASSUME IInv, Listed, [Next]_vars PROVE Allowed
  BY DEF Allowed
<1>1. CASE Environment
  BY <1>1, EnvironmentMapped
<1>2. ASSUME NEW c \in CRs, Deliver(c) \/ TimerFires(c) \/ Start(c) PROVE Allowed
  BY <1>2, DeliverMapped
<1>3. CASE Work \/ CallFails
  BY <1>3, CleanupMapped, MainMapped
<1>4. CASE Crash
  <2>1. SameObjects /\ SameWorkloads /\ SameAgents
    BY <1>4, BarsKept DEF Crash, Restart, kube, azdo
  <2>2. w'.pc # "purge"
    BY <1>4 DEF Crash, Restart, IdleWorker
  <2>. QED BY <2>1, <2>2, NoListing, KeptOrAbandoned
<1>5. CASE UNCHANGED vars
  BY <1>5, BarsKept, KeptOrAbandoned DEF vars, kube, azdo, history
<1>. QED BY <1>1, <1>2, <1>3, <1>4, <1>5 DEF Next

(***************************************************************************)
(* What users see of the operator is the life of a CR as Lifecycle states  *)
(* it: however stale the caches are, wherever calls fail, answers are lost *)
(* or the process dies, a workload comes into being only for a guarded     *)
(* incarnation, and a guarded CR goes only after its listed agents.        *)
(***************************************************************************)
THEOREM OperatorImplementsLifecycle == Spec => ImplementsLifecycle
BY InitMapped, StepMapped, AlwaysListed, PTL DEF Spec, ImplementsLifecycle, L!Spec
=============================================================================
