-------------------------- MODULE ReconcilerProofs --------------------------
(***************************************************************************)
(* Invariants of the operator for every set of CRs, agents, specs, queue   *)
(* lengths and secrets, and for every bound on edits, faults and           *)
(* incarnations.                                                           *)
(***************************************************************************)
EXTENDS ReconcilerTypes

(***************************************************************************)
(* No CR is forgotten: the invariant is inductive with the types alone.    *)
(***************************************************************************)
\* What keeps the CR c in the operator's sight.
InSight(c) == c \in queue \/ c \in timers \/ w.req = c \/ ~synced[c]

\* Every step keeps every existing CR in sight.
LEMMA NeverForgottenStep == TypeOK /\ NeverForgotten /\ [Next]_vars => NeverForgotten'
<1> SUFFICES ASSUME TypeOK, NeverForgotten, [Next]_vars, NEW c \in CRs, api'[c].exists
             PROVE  InSight(c)'
  BY DEF NeverForgotten, InSight
<1>1. api[c].exists => InSight(c)
  BY DEF NeverForgotten, InSight
<1>2. ASSUME NEW d \in CRs, NEW new \in CRType, WriteCR(d, new),
             new.exists => api[d].exists \/ new # api[d]
      PROVE  (api[c].exists /\ (synced'[c] => synced[c])) \/ ~synced'[c]
  BY <1>2 DEF WriteCR, TypeOK
<1>3. CASE Environment
  <2>1. CASE UserStep
    <3>1. PICK d \in CRs, new \in CRType : UserChange(api[d], new) /\ UserWrite(d, new)
      BY <2>1 DEF UserStep
    <3>2. (api[c].exists /\ (synced'[c] => synced[c])) \/ ~synced'[c]
      BY <1>2, <3>1 DEF UserChange, UserWrite
    <3>. QED BY <1>1, <3>1, <3>2 DEF UserWrite, InSight, workqueue
  <2>2. CASE ClusterStep
    BY <1>1, <2>2 DEF ClusterStep, ClusterWrite, InSight, workqueue
  <2>3. CASE ElsewhereStep
    BY <1>1, <2>3 DEF ElsewhereStep, InSight, kube, informer
  <2>. QED BY <1>3, <2>1, <2>2, <2>3, EnvironmentEffect
<1>4. ASSUME NEW d \in CRs, Deliver(d) \/ TimerFires(d) PROVE InSight(c)'
  <2>1. CASE SyncCR(d)
    BY <1>1, <2>1 DEF SyncCR, InSight, TypeOK, kube
  <2>2. ASSUME NEW k \in Kinds, SyncWorkload(d, k) PROVE InSight(c)'
    BY <1>1, <2>2 DEF SyncWorkload, InSight, kube
  <2>3. CASE TimerFires(d)
    BY <1>1, <2>3 DEF TimerFires, InSight, kube, informer
  <2>. QED BY <1>4, <2>1, <2>2, <2>3 DEF Deliver
<1>5. ASSUME NEW d \in CRs, Start(d) PROVE InSight(c)'
  <2>1. /\ w.req # c /\ queue' = queue \ {d} /\ UNCHANGED <<api, synced>>
        /\ (w' = w /\ timers' = timers \cup {d}) \/ (timers' = timers /\ w'.req = d)
    BY <1>5, StartCases, NamesAssumption DEF Taken, TypeOK, kube, informer
  <2>. QED BY <1>1, <2>1 DEF InSight
<1>6. CASE Work \/ CallFails
  <2>1. WorkStep
    BY <1>6, WorkEffect
  <2>2. \/ w'.req = w.req /\ timers' = timers
        \/ timers' = timers \cup {w.req}
    BY <2>1 DEF WorkStep, LocalStep, MovesOn, Ends
  <2>3. (api[c].exists /\ (synced'[c] => synced[c])) \/ ~synced'[c]
    <3>1. w.pc # "idle" /\ CRStep /\ w.req \in CRs
      BY <2>1, RequestType DEF WorkStep, LocalStep
    <3>2. CASE UNCHANGED <<api, synced, released>>
      BY <3>2
    <3>3. CASE Guards
      BY <1>2, <3>1, <3>3, WrittenTypes, Zenon DEF Guards
    <3>4. CASE Releases
      <4>1. ~AbsentCR(w.cr.uid).exists
        BY DEF AbsentCR
      <4>. QED BY <1>2, <3>1, <3>4, <4>1, WrittenTypes, Zenon DEF Releases
    <3>5. CASE Reports
      BY <1>2, <3>1, <3>5, WrittenTypes, Zenon DEF Reports, SameObject
    <3>. QED BY <3>1, <3>2, <3>3, <3>4, <3>5 DEF CRStep
  <2>4. queue' = queue
    BY <2>1 DEF WorkStep
  <2>. QED BY <1>1, <2>2, <2>3, <2>4 DEF InSight
<1>7. CASE Crash
  BY <1>7 DEF Crash, Restart, InSight, kube
<1>8. CASE UNCHANGED vars
  BY <1>1, <1>8 DEF vars, InSight, kube, informer, workqueue
<1>. QED BY <1>3, <1>4, <1>5, <1>6, <1>7, <1>8 DEF Next

(***************************************************************************)
(* Every CR that exists is queued, waits for a timer or for a watch event, *)
(* or is being reconciled: no error path of Reconcile, no early return, no *)
(* stale cache and no restart loses it.                                    *)
(***************************************************************************)
THEOREM NoCRForgotten == Spec => []NeverForgotten
<1>1. Init => NeverForgotten
  <2>1. \A u : ~AbsentCR(u).exists
    BY DEF AbsentCR
  <2>2. Init => api = [c \in CRs |-> AbsentCR(0)]
    BY DEF Init
  <2>3. Init => \A c \in CRs : api[c] = AbsentCR(0)
    BY <2>2
  <2>. QED BY <2>1, <2>3 DEF NeverForgotten
<1>. QED BY <1>1, NeverForgottenStep, TypeCorrect, PTL DEF Spec

-----------------------------------------------------------------------------
(***************************************************************************)
(* The inductive invariant behind the guard properties.                    *)
(***************************************************************************)

\* A cached copy that is current is the stored object.
Coherent ==
  /\ \A c \in CRs : synced[c] => cache[c] = api[c]
  /\ \A c \in CRs : \A k \in Kinds : wsynced[c][k] => wcache[c][k] = wl[c][k]

\* obj, a copy of the CR c, belongs to the stored incarnation, which has its
\* finalizer.
Guarded(c, obj) == api[c].exists /\ api[c].finalizer /\ api[c].uid = obj.uid

\* A cached CR that looks guarded is guarded, however old the copy is: the
\* finalizer goes only after the cache has shown the deletion.
CacheGuarded ==
  \A c \in CRs : cache[c].exists /\ cache[c].finalizer /\ ~cache[c].deleting
                   => Guarded(c, cache[c])

\* On its main path the worker's CR stays guarded, whatever users do meanwhile.
WorkerGuarded ==
  w.pc \in {"status", "query", "handle", "apply", "observe"} => Guarded(w.req, w.cr)

\* If the cleanup is going to succeed in removing the finalizer, then the cache
\* shows the object being deleted, and it is the one the worker has a copy of.
CleanupCurrent ==
  (w.pc \in {"list", "purge"} /\ w.why = "finalizer" /\ fresh) =>
    /\ synced[w.req] /\ cache[w.req].exists /\ cache[w.req].deleting
    /\ cache[w.req].uid = w.cr.uid

IInv == /\ TypeOK /\ Coherent /\ CacheGuarded /\ WorkerGuarded /\ CleanupCurrent
        /\ ModeKnown /\ WorkloadsGuarded

\* A write of a CR changes that CR, and leaves its cached copy current only if
\* it changes nothing.
LEMMA WriteCREffect ==
  ASSUME TypeOK, NEW d \in CRs, NEW new, WriteCR(d, new)
  PROVE  /\ api'[d] = new /\ \A c \in CRs \ {d} : api'[c] = api[c] /\ synced'[c] = synced[c]
         /\ synced'[d] => synced[d] /\ new = api[d]
BY DEF WriteCR, TypeOK

\* The same for a workload.
LEMMA WriteWorkloadEffect ==
  ASSUME TypeOK, NEW d \in CRs, NEW l \in Kinds, NEW new, WriteWorkload(d, l, new)
  PROVE  /\ wl'[d][l] = new /\ (wsynced'[d][l] => wsynced[d][l] /\ new = wl[d][l])
         /\ \A c \in CRs : \A k \in Kinds : c # d \/ k # l =>
              wl'[c][k] = wl[c][k] /\ wsynced'[c][k] = wsynced[c][k]
BY DEF WriteWorkload, TypeOK

\* A step keeps the guard of every CR that has one.
GuardsKept ==
  \A c \in CRs : api[c].exists /\ api[c].finalizer =>
    api'[c].exists /\ api'[c].finalizer /\ api'[c].uid = api[c].uid

\* No user can take a finalizer away: kubectl delete only marks a guarded CR.
LEMMA UserKeepsGuards == TypeOK /\ UserStep => GuardsKept
<1> SUFFICES ASSUME TypeOK, NEW d \in CRs, NEW new \in CRType,
                    UserChange(api[d], new), UserWrite(d, new)
             PROVE  GuardsKept
  BY DEF UserStep
<1>1. WriteCR(d, new)
  BY DEF UserWrite
<1>2. api'[d] = new /\ \A c \in CRs \ {d} : api'[c] = api[c]
  BY <1>1, WriteCREffect
<1>3. api[d].exists /\ api[d].finalizer =>
        new.exists /\ new.finalizer /\ new.uid = api[d].uid
  BY DEF UserChange
<1>. QED BY <1>2, <1>3 DEF GuardsKept

\* Where a stored workload comes from: it was there before, for the same
\* incarnation, or the worker creates it for a guarded one.
Origin ==
  \A c \in CRs : \A k \in Kinds : wl'[c][k].exists =>
    \/ wl[c][k].exists /\ wl'[c][k].uid = wl[c][k].uid
    \/ Guarded(c, wl'[c][k]) /\ api' = api

\* What a step of the worker does to the CRs: their guards stay, unless the
\* worker releases the one it cleans up after.
LEMMA WorkKeepsGuards ==
  ASSUME IInv, WorkStep
  PROVE  \/ GuardsKept /\ released' = released
         \/ /\ Releases /\ api[w.req].uid = w.cr.uid /\ cache[w.req].deleting
            /\ \A c \in CRs \ {w.req} : api'[c] = api[c]
            /\ ~api'[w.req].exists
            /\ \A c \in CRs : released[c] \subseteq released'[c]
            /\ w.cr.uid \in released'[w.req]
<1>1. TypeOK /\ CRStep /\ w.pc # "idle" /\ w.req \in CRs
  BY RequestType DEF IInv, WorkStep, LocalStep
<1>2. CASE UNCHANGED <<api, synced, released>>
  BY <1>2 DEF GuardsKept
<1>3. CASE Guards
  <2> DEFINE g == [api[w.req] EXCEPT !.finalizer = TRUE]
  <2>1. /\ g.finalizer /\ g.uid = api[w.req].uid /\ g.exists = api[w.req].exists
    BY <1>1, WrittenTypes, Zenon
  <2>2. WriteCR(w.req, g) /\ released' = released
    BY <1>3, Zenon DEF Guards
  <2> HIDE DEF g
  <2>. QED BY <1>1, <2>1, <2>2, WriteCREffect DEF GuardsKept
<1>4. CASE Reports
  <2> DEFINE r == WithReason(api[w.req], w.cr.status, w.phase)
  <2>1. SameObject(r, api[w.req])
    BY <1>1, WrittenTypes, Zenon
  <2>2. WriteCR(w.req, r) /\ released' = released
    BY <1>4, Zenon DEF Reports
  <2> HIDE DEF r
  <2>. QED BY <1>1, <2>1, <2>2, WriteCREffect DEF GuardsKept, SameObject
<1>5. CASE Releases
  <2>1. /\ w.pc = "purge" /\ w.why = "finalizer" /\ fresh
        /\ WriteCR(w.req, AbsentCR(w.cr.uid))
        /\ released' = [released EXCEPT ![w.req] = @ \cup {w.cr.uid}]
    BY <1>5, Zenon DEF Releases
  <2>2. cache[w.req].deleting /\ api[w.req].uid = w.cr.uid
    BY <1>1, <2>1 DEF IInv, CleanupCurrent, Coherent
  <2>3. ~AbsentCR(w.cr.uid).exists
    BY DEF AbsentCR
  <2>4. ~api'[w.req].exists /\ \A c \in CRs \ {w.req} : api'[c] = api[c]
    BY <1>1, <2>1, <2>3, WriteCREffect
  <2>5. w.cr.uid \in released'[w.req] /\ \A c \in CRs : released[c] \subseteq released'[c]
    BY <1>1, <2>1 DEF TypeOK
  <2>. QED BY <1>5, <2>2, <2>4, <2>5
<1>. QED BY <1>1, <1>2, <1>3, <1>4, <1>5 DEF CRStep

\* The worker's steps leave workloads where they come from.
LEMMA WorkOrigin ==
  ASSUME IInv, WorkStep
  PROVE  Origin
<1>1. TypeOK /\ WorkloadStep /\ CRStep /\ w.pc # "idle" /\ w.req \in CRs
  BY RequestType DEF IInv, WorkStep, LocalStep
<1>2. CASE UNCHANGED <<wl, wsynced>>
  BY <1>2 DEF Origin
<1>3. CASE Creates
  <2>1. PICK n \in Nat : WriteWorkload(w.req, w.cr.spec.mode, NewWorkload(w.cr, n))
    BY <1>3, Zenon DEF Creates
  <2>2. w.pc = "apply" /\ w.cr.spec.mode \in Kinds /\ Guarded(w.req, w.cr)
    BY <1>3, Zenon DEF Creates, IInv, ModeKnown, WorkerGuarded
  <2>3. NewWorkload(w.cr, n).uid = w.cr.uid
    BY DEF NewWorkload
  <2>4. api' = api
    BY <1>1, <2>2 DEF CRStep, Guards, Releases, Reports
  <2>. QED BY <1>1, <2>1, <2>2, <2>3, <2>4, WriteWorkloadEffect DEF Origin, Guarded
<1>4. CASE Updates
  <2> DEFINE d == wcache[w.req]["Deployment"]
             u == [d EXCEPT !.replicas = w.want,
                            !.template = WithDefaults(Template(w.cr.spec))]
  <2>1. d \in WorkloadType /\ "Deployment" \in Kinds
    BY <1>1, WorkloadsTyped DEF Kinds
  <2>2. WriteWorkload(w.req, "Deployment", u) /\ wsynced[w.req]["Deployment"] /\ d.exists
    BY <1>4, Zenon DEF Updates
  <2>3. d = wl[w.req]["Deployment"]
    BY <1>1, <2>1, <2>2 DEF IInv, Coherent
  <2>4. u.exists = d.exists /\ u.uid = d.uid
    <3>1. w.want \in Nat /\ w.cr.spec \in Specs
      BY <1>1, RequestType
    <3> HIDE DEF d
    <3>. QED BY <2>1, <3>1, UpdatedDeployment, Zenon
  <2> HIDE DEF u, d
  <2>. QED BY <1>1, <2>1, <2>2, <2>3, <2>4, WriteWorkloadEffect DEF Origin
<1>. QED BY <1>1, <1>2, <1>3, <1>4 DEF WorkloadStep

\* The worker's writes keep the cached copies that still count as current equal
\* to the stored objects.
LEMMA WorkCoherent ==
  ASSUME IInv, WorkStep
  PROVE  Coherent'
<1>1. TypeOK /\ Coherent /\ w.pc # "idle" /\ w.req \in CRs /\ ModeKnown
  BY RequestType DEF IInv, WorkStep, LocalStep
<1>2. UNCHANGED <<cache, wcache>> /\ CRStep /\ WorkloadStep
  BY DEF WorkStep
<1>3. \/ UNCHANGED <<api, synced>>
      \/ \E new : WriteCR(w.req, new)
  BY <1>2, Zenon DEF CRStep, Guards, Releases, Reports
<1>4. \A c \in CRs : synced'[c] => cache'[c] = api'[c]
  BY <1>1, <1>2, <1>3, WriteCREffect DEF Coherent
<1>5. \/ UNCHANGED <<wl, wsynced>>
      \/ \E k \in Kinds : \E new : WriteWorkload(w.req, k, new)
  BY <1>1, <1>2, Zenon DEF WorkloadStep, Creates, Updates, ModeKnown, Kinds
<1>6. \A c \in CRs : \A k \in Kinds : wsynced'[c][k] => wcache'[c][k] = wl'[c][k]
  <2>1. CASE UNCHANGED <<wl, wsynced>>
    BY <1>1, <1>2, <2>1 DEF Coherent
  <2>2. ASSUME NEW l \in Kinds, NEW new, WriteWorkload(w.req, l, new)
        PROVE  \A c \in CRs : \A k \in Kinds : wsynced'[c][k] => wcache'[c][k] = wl'[c][k]
    BY <1>1, <1>2, <2>2, WriteWorkloadEffect DEF Coherent
  <2>. QED BY <1>5, <2>1, <2>2
<1>. QED BY <1>4, <1>6 DEF Coherent

\* The worker's steps keep the inductive invariant.
LEMMA WorkInv ==
  ASSUME IInv, WorkStep, TypeOK', ModeKnown'
  PROVE  IInv'
<1>1. TypeOK /\ WorkStep /\ LocalStep /\ CRStep /\ w.pc # "idle" /\ w.req \in CRs
  BY RequestType DEF IInv, WorkStep, LocalStep
<1>2. TypeOK' /\ ModeKnown'
  OBVIOUS
<1>3. Coherent'
  BY WorkCoherent
<1>4. CacheGuarded'
  <2>1. cache' = cache
    BY DEF WorkStep
  <2>. QED BY <2>1, WorkKeepsGuards DEF IInv, CacheGuarded, Guarded, GuardsKept
<1>5. WorkerGuarded'
  <2>1. CASE Ends
    BY <2>1 DEF Ends, WorkerGuarded
  <2>2. CASE MovesOn
    <3>1. ~Releases
      BY <2>2 DEF MovesOn, Releases, Ends
    <3>2. GuardsKept
      BY <3>1, WorkKeepsGuards
    <3>. QED
      BY <1>1, <2>2, <3>2
      DEF MovesOn, SameWork, IInv, WorkerGuarded, Guarded, GuardsKept, Main
  <2>. QED BY <1>1, <2>1, <2>2 DEF LocalStep
<1>6. CleanupCurrent'
  <2>1. CASE Ends
    BY <2>1 DEF Ends, CleanupCurrent
  <2>2. CASE MovesOn
    <3>1. CASE w.pc \in Main /\ w'.pc \in Main
      BY <3>1 DEF CleanupCurrent, Main
    <3>2. CASE w.pc \in Cleanup /\ w'.pc = "purge" /\ w'.why = w.why
      <4>1. synced' = synced /\ cache' = cache
        BY <1>1, <2>2, <3>2
        DEF CRStep, Guards, Releases, Reports, MovesOn, Ends, Cleanup, WorkStep
      <4>. QED
        BY <2>2, <3>2, <4>1 DEF IInv, CleanupCurrent, MovesOn, SameWork, Cleanup
    <3>. QED BY <2>2, <3>1, <3>2 DEF MovesOn
  <2>. QED BY <1>1, <2>1, <2>2 DEF LocalStep
<1>7. WorkloadsGuarded'
  <2> SUFFICES ASSUME NEW c \in CRs, NEW k \in Kinds, wl'[c][k].exists
               PROVE  \/ Guarded(c, wl[c][k])'
                      \/ wl'[c][k].uid \in released'[c]
    BY DEF WorkloadsGuarded, Guarded
  <2>1. \/ wl[c][k].exists /\ wl'[c][k].uid = wl[c][k].uid
        \/ Guarded(c, wl'[c][k]) /\ api' = api
    BY WorkOrigin DEF Origin
  <2>2. CASE Guarded(c, wl'[c][k]) /\ api' = api
    BY <2>2 DEF Guarded
  <2>3. CASE wl[c][k].exists /\ wl'[c][k].uid = wl[c][k].uid
    <3>1. Guarded(c, wl[c][k]) \/ wl[c][k].uid \in released[c]
      BY <2>3 DEF IInv, WorkloadsGuarded, Guarded
    <3>. QED BY <2>3, <3>1, WorkKeepsGuards DEF Guarded, GuardsKept
  <2>. QED BY <2>1, <2>2, <2>3
<1>. QED BY <1>2, <1>3, <1>4, <1>5, <1>6, <1>7 DEF IInv

\* So do users, the cluster and Azure DevOps,
LEMMA EnvironmentInv ==
  ASSUME IInv, UserStep \/ ClusterStep \/ ElsewhereStep, TypeOK', ModeKnown'
  PROVE  IInv'
<1>1. TypeOK
  BY DEF IInv
<1>2. CASE UserStep
  <2>1. PICK d \in CRs, new \in CRType : UserChange(api[d], new) /\ UserWrite(d, new)
    BY <1>2 DEF UserStep
  <2>2. /\ WriteCR(d, new) /\ fresh' = (fresh /\ w.req # d)
        /\ UNCHANGED <<wl, cache, wcache, wsynced, w, released>>
    BY <2>1 DEF UserWrite, history
  <2>3. GuardsKept
    BY <1>1, <1>2, UserKeepsGuards
  <2>4. Coherent'
    BY <1>1, <2>2, WriteCREffect DEF IInv, Coherent
  <2>5. CacheGuarded'
    BY <2>2, <2>3 DEF IInv, CacheGuarded, Guarded, GuardsKept
  <2>6. WorkerGuarded'
    <3>1. w.pc # "idle" => w.req \in CRs
      BY <1>1, RequestType
    <3>. QED BY <2>2, <2>3, <3>1 DEF IInv, WorkerGuarded, Guarded, GuardsKept
  <2>7. CleanupCurrent'
    <3>1. w.pc # "idle" => w.req \in CRs
      BY <1>1, RequestType
    <3>2. CASE fresh' /\ w.pc # "idle"
      <4>1. fresh /\ w.req \in CRs \ {d} /\ w' = w /\ cache' = cache
        BY <2>2, <3>1, <3>2
      <4>2. synced'[w.req] = synced[w.req]
        BY <1>1, <2>2, <4>1, WriteCREffect
      <4>. QED BY <4>1, <4>2 DEF IInv, CleanupCurrent
    <3>. QED BY <2>2, <3>2 DEF CleanupCurrent
  <2>8. WorkloadsGuarded'
    BY <2>2, <2>3 DEF IInv, WorkloadsGuarded, GuardsKept
  <2>. QED BY <2>4, <2>5, <2>6, <2>7, <2>8 DEF IInv
<1>3. CASE ClusterStep
  <2>1. PICK d \in CRs, l \in Kinds, new \in WorkloadType :
          /\ wl[d][l].exists
          /\ ~new.exists \/ new.uid = wl[d][l].uid
          /\ ClusterWrite(d, l, new)
    BY <1>3 DEF ClusterStep
  <2>2. /\ WriteWorkload(d, l, new)
        /\ UNCHANGED <<api, cache, synced, wcache, fresh, w, released>>
    BY <2>1 DEF ClusterWrite, history
  <2>3. Coherent'
    BY <1>1, <2>2, WriteWorkloadEffect DEF IInv, Coherent
  <2>4. WorkloadsGuarded'
    BY <1>1, <2>1, <2>2, WriteWorkloadEffect DEF IInv, WorkloadsGuarded
  <2>5. CacheGuarded' /\ WorkerGuarded' /\ CleanupCurrent'
    BY <2>2 DEF IInv, CacheGuarded, WorkerGuarded, CleanupCurrent, Guarded
  <2>. QED BY <2>3, <2>4, <2>5 DEF IInv
<1>4. CASE ElsewhereStep
  BY <1>4 DEF ElsewhereStep, IInv, Coherent, CacheGuarded, WorkerGuarded, CleanupCurrent,
              WorkloadsGuarded, Guarded, kube, informer
<1>. QED BY <1>2, <1>3, <1>4

\* watch events and timers,
LEMMA DeliverInv ==
  ASSUME IInv, NEW d \in CRs, Deliver(d) \/ TimerFires(d), TypeOK', ModeKnown'
  PROVE  IInv'
<1>1. TypeOK /\ (w.pc # "idle" => w.req \in CRs)
  BY RequestType DEF IInv
<1>2. CASE SyncCR(d)
  <2>1. /\ ~synced[d] /\ cache' = [cache EXCEPT ![d] = api[d]]
        /\ synced' = [synced EXCEPT ![d] = TRUE]
        /\ UNCHANGED <<api, wl, wcache, wsynced, fresh, w, released>>
    BY <1>2 DEF SyncCR, kube, history
  <2>2. cache'[d] = api[d] /\ \A c \in CRs \ {d} : cache'[c] = cache[c] /\ synced'[c] = synced[c]
    <3>1. cache \in [CRs -> CRType] /\ synced \in [CRs -> BOOLEAN]
      BY <1>1 DEF TypeOK
    <3>. QED BY <2>1, <3>1
  <2>3. Coherent'
    BY <2>1, <2>2 DEF IInv, Coherent
  <2>4. CacheGuarded'
    BY <2>1, <2>2 DEF IInv, CacheGuarded, Guarded
  <2>5. CleanupCurrent'
    BY <1>1, <2>1, <2>2 DEF IInv, CleanupCurrent
  <2>6. WorkerGuarded' /\ WorkloadsGuarded'
    BY <2>1 DEF IInv, WorkerGuarded, WorkloadsGuarded, Guarded
  <2>. QED BY <2>3, <2>4, <2>5, <2>6 DEF IInv
<1>3. ASSUME NEW l \in Kinds, SyncWorkload(d, l) PROVE IInv'
  <2>1. /\ wcache' = [wcache EXCEPT ![d][l] = wl[d][l]]
        /\ wsynced' = [wsynced EXCEPT ![d][l] = TRUE]
        /\ UNCHANGED <<api, wl, cache, synced, fresh, w, released>>
    BY <1>3 DEF SyncWorkload, kube, history
  <2>2. \A c \in CRs : \A k \in Kinds :
          \/ wcache'[c][k] = wl[c][k]
          \/ wcache'[c][k] = wcache[c][k] /\ wsynced'[c][k] = wsynced[c][k]
    <3>1. /\ wcache \in [CRs -> [Kinds -> WorkloadType]]
          /\ wsynced \in [CRs -> [Kinds -> BOOLEAN]]
      BY <1>1 DEF TypeOK
    <3>. QED BY <2>1, <3>1
  <2>3. Coherent'
    <3>1. \A c \in CRs : synced'[c] => cache'[c] = api'[c]
      BY <2>1 DEF IInv, Coherent
    <3>2. ASSUME NEW c \in CRs, NEW k \in Kinds, wsynced'[c][k]
          PROVE  wcache'[c][k] = wl'[c][k]
      <4>1. wsynced[c][k] => wcache[c][k] = wl[c][k]
        BY DEF IInv, Coherent
      <4>2. wl' = wl
        BY <2>1
      <4>. QED BY <2>2, <3>2, <4>1, <4>2
    <3>. QED BY <3>1, <3>2 DEF Coherent
  <2>4. CacheGuarded' /\ WorkerGuarded' /\ CleanupCurrent' /\ WorkloadsGuarded'
    BY <2>1 DEF IInv, CacheGuarded, WorkerGuarded, CleanupCurrent, WorkloadsGuarded, Guarded
  <2>. QED BY <2>3, <2>4 DEF IInv
<1>4. CASE TimerFires(d)
  BY <1>4 DEF TimerFires, IInv, Coherent, CacheGuarded, WorkerGuarded, CleanupCurrent,
              WorkloadsGuarded, Guarded, kube, informer, history
<1>. QED BY <1>2, <1>3, <1>4 DEF Deliver

\* and the beginning of Reconcile.
LEMMA StartInv ==
  ASSUME IInv, NEW d \in CRs, Start(d), TypeOK', ModeKnown'
  PROVE  IInv'
<1>1. UNCHANGED <<api, wl, cache, synced, wcache, wsynced, released>>
  BY StartCases DEF IInv, kube, informer, history
<1>2. Coherent' /\ CacheGuarded' /\ WorkloadsGuarded'
  BY <1>1 DEF IInv, Coherent, CacheGuarded, WorkloadsGuarded, Guarded
<1>3. WorkerGuarded' /\ CleanupCurrent'
  <2>1. CASE w' = w /\ fresh' = fresh
    BY <1>1, <2>1 DEF IInv, WorkerGuarded, CleanupCurrent, Guarded
  <2>2. CASE Taken(d)
    <3>1. WorkerGuarded'
      BY <1>1, <2>2 DEF Taken, IInv, CacheGuarded, WorkerGuarded, Guarded, SameObject
    <3>2. CleanupCurrent'
      BY <1>1, <2>2 DEF Taken, CleanupCurrent, SameObject
    <3>. QED BY <3>1, <3>2
  <2>. QED BY <2>1, <2>2, StartCases DEF IInv
<1>. QED BY <1>2, <1>3 DEF IInv

\* The invariant is inductive.
LEMMA InvStep == IInv /\ [Next]_vars => IInv'
<1> SUFFICES ASSUME IInv, [Next]_vars PROVE IInv'
  OBVIOUS
<1>1. TypeOK' /\ ModeKnown'
  BY TypeStep DEF IInv
<1>2. CASE Environment
  BY <1>1, <1>2, EnvironmentEffect, EnvironmentInv DEF IInv
<1>3. ASSUME NEW d \in CRs, Deliver(d) \/ TimerFires(d) PROVE IInv'
  BY <1>1, <1>3, DeliverInv
<1>4. ASSUME NEW d \in CRs, Start(d) PROVE IInv'
  BY <1>1, <1>4, StartInv
<1>5. CASE Work \/ CallFails
  BY <1>1, <1>5, WorkEffect, WorkInv DEF IInv
<1>6. CASE Crash
  <2>1. w'.pc = "idle"
    BY <1>6 DEF Crash, Restart, IdleWorker
  <2>2. UNCHANGED <<api, wl, released>> /\ cache' = api /\ wcache' = wl
    BY <1>6 DEF Crash, Restart, kube
  <2>3. Coherent' /\ CacheGuarded' /\ WorkloadsGuarded'
    BY <2>2 DEF IInv, Coherent, CacheGuarded, WorkloadsGuarded, Guarded
  <2>4. WorkerGuarded' /\ CleanupCurrent'
    BY <2>1 DEF WorkerGuarded, CleanupCurrent
  <2>. QED BY <1>1, <2>3, <2>4 DEF IInv
<1>7. CASE UNCHANGED vars
  <2>1. UNCHANGED <<api, wl, cache, synced, wcache, wsynced, fresh, w, released>>
    BY <1>7 DEF vars, kube, informer, history
  <2>. QED
    BY <1>1, <2>1
    DEF IInv, Coherent, CacheGuarded, WorkerGuarded, CleanupCurrent, WorkloadsGuarded, Guarded
<1>. QED BY <1>2, <1>3, <1>4, <1>5, <1>6, <1>7 DEF Next

\* It holds initially.
LEMMA InvInit == Init => IInv
<1> SUFFICES ASSUME Init PROVE IInv
  OBVIOUS
<1>0. /\ cache = api /\ wcache = wl /\ w = IdleWorker
      /\ api = [c \in CRs |-> AbsentCR(0)]
      /\ wl = [c \in CRs |-> [k \in Kinds |-> NoWorkload]]
  BY DEF Init
<1>1. /\ cache = api /\ wcache = wl /\ w = IdleWorker
      /\ \A c \in CRs : api[c] = AbsentCR(0) /\ \A k \in Kinds : wl[c][k] = NoWorkload
  BY <1>0
<1>2. IdleWorker.pc = "idle" /\ ~AbsentCR(0).exists /\ ~NoWorkload.exists
  BY DEF IdleWorker, AbsentCR, NoWorkload
<1>3. TypeOK
  BY TypeInit
<1>4. Coherent
  BY <1>1 DEF Coherent
<1>5. CacheGuarded /\ WorkloadsGuarded
  BY <1>1, <1>2 DEF CacheGuarded, WorkloadsGuarded
<1>6. WorkerGuarded /\ CleanupCurrent /\ ModeKnown
  BY <1>1, <1>2 DEF WorkerGuarded, CleanupCurrent, ModeKnown
<1>. QED BY <1>3, <1>4, <1>5, <1>6 DEF IInv

\* It holds always.
LEMMA Inductive == Spec => []IInv
BY InvInit, InvStep, PTL DEF Spec

(***************************************************************************)
(* A workload always belongs to an incarnation of its CR whose finalizer   *)
(* is stored, or to one that left through the finalizer: Reconcile stores  *)
(* the finalizer before it creates anything, and removes it only after the *)
(* deletion has reached its own cache.                                     *)
(***************************************************************************)
THEOREM WorkloadsAlwaysGuarded == Spec => []WorkloadsGuarded
<1>1. IInv => WorkloadsGuarded
  BY DEF IInv
<1>. QED BY <1>1, Inductive, PTL

\* Every step leaves workloads where they come from.
LEMMA StepOrigin == IInv /\ [Next]_vars => Origin
<1> SUFFICES ASSUME IInv, [Next]_vars PROVE Origin
  OBVIOUS
<1>1. CASE wl' = wl
  BY <1>1 DEF Origin
<1>2. CASE Environment
  <2>1. CASE UserStep \/ ElsewhereStep
    BY <1>1, <2>1 DEF UserStep, UserWrite, ElsewhereStep, kube
  <2>2. CASE ClusterStep
    <3>1. PICK d \in CRs, l \in Kinds, new \in WorkloadType :
            /\ wl[d][l].exists
            /\ ~new.exists \/ new.uid = wl[d][l].uid
            /\ WriteWorkload(d, l, new)
      BY <2>2 DEF ClusterStep, ClusterWrite
    <3>. QED BY <3>1, WriteWorkloadEffect DEF Origin, IInv
  <2>. QED BY <1>2, <2>1, <2>2, EnvironmentEffect DEF IInv
<1>3. ASSUME NEW d \in CRs, Deliver(d) \/ TimerFires(d) PROVE Origin
  BY <1>1, <1>3 DEF Deliver, TimerFires, SyncCR, SyncWorkload, kube
<1>4. ASSUME NEW d \in CRs, Start(d) PROVE Origin
  BY <1>1, <1>4, StartCases DEF IInv, kube
<1>5. CASE Work \/ CallFails
  BY <1>5, WorkEffect, WorkOrigin DEF IInv
<1>6. CASE Crash
  BY <1>1, <1>6 DEF Crash, Restart, kube
<1>7. CASE UNCHANGED vars
  BY <1>1, <1>7 DEF vars, kube
<1>. QED BY <1>2, <1>3, <1>4, <1>5, <1>6, <1>7 DEF Next

(***************************************************************************)
(* A workload is created only for the incarnation of the CR that is stored *)
(* at that moment with its finalizer, although ReconcileDeployment works   *)
(* from a copy of the CR read at the start of Reconcile.                   *)
(***************************************************************************)
THEOREM WorkloadsNeverResurrected == Spec => NoResurrection
<1>1. IInv /\ [Next]_vars =>
        [\A c \in CRs : \A k \in Kinds : (wl'[c][k].exists /\ ~wl[c][k].exists) =>
           api[c].exists /\ api[c].finalizer /\ api[c].uid = wl'[c][k].uid]_vars
  BY StepOrigin DEF Origin, Guarded
<1>. QED BY <1>1, Inductive, PTL DEF Spec, NoResurrection

(***************************************************************************)
(* updateStatus writes the status that a reconcile computed only to the    *)
(* incarnation that reconcile was about, although it re-reads the CR by    *)
(* its name alone.                                                         *)
(***************************************************************************)
THEOREM StatusNeverMisplaced == Spec => StatusStaysWithIncarnation
<1> DEFINE A == \A c \in CRs : (api'[c].exists /\ api'[c].status # api[c].status
                                 /\ api'[c].status.reason # "")
                  => w.req = c /\ w.cr.uid = api'[c].uid
<1>1. IInv /\ [Next]_vars => A
  <2> SUFFICES ASSUME IInv, [Next]_vars PROVE A
    OBVIOUS
  <2>1. CASE api' = api
    BY <2>1
  <2>2. CASE Environment
    <3>1. CASE UserStep
      <4>1. PICK d \in CRs, new \in CRType : UserChange(api[d], new) /\ WriteCR(d, new)
        BY <3>1 DEF UserStep, UserWrite
      <4>2. api'[d] = new /\ \A c \in CRs \ {d} : api'[c] = api[c]
        BY <4>1, WriteCREffect DEF IInv
      <4>. QED BY <4>1, <4>2 DEF UserChange
    <3>2. CASE ClusterStep \/ ElsewhereStep
      <4>1. api' = api
        BY <3>2 DEF ClusterStep, ClusterWrite, ElsewhereStep, kube
      <4>. QED BY <2>1, <4>1
    <3>. QED BY <2>2, <3>1, <3>2, EnvironmentEffect DEF IInv
  <2>3. ASSUME NEW d \in CRs, Deliver(d) \/ TimerFires(d) \/ Start(d) PROVE A
    <3>1. api' = api
      BY <2>3, StartCases DEF IInv, Deliver, TimerFires, SyncCR, SyncWorkload, kube
    <3>. QED BY <2>1, <3>1
  <2>4. CASE Work \/ CallFails
    <3>1. WorkStep /\ TypeOK
      BY <2>4, WorkEffect DEF IInv
    <3>2. CRStep /\ w.pc # "idle" /\ w.req \in CRs
      BY <3>1, RequestType DEF WorkStep, LocalStep
    <3>3. CASE Guards
      <4> DEFINE g == [api[w.req] EXCEPT !.finalizer = TRUE]
      <4>1. g.status = api[w.req].status
        BY <3>1, <3>2, WrittenTypes, Zenon
      <4>2. WriteCR(w.req, g)
        BY <3>3, Zenon DEF Guards
      <4> HIDE DEF g
      <4>3. api'[w.req] = g /\ \A c \in CRs \ {w.req} : api'[c] = api[c]
        BY <3>1, <3>2, <4>2, WriteCREffect, Zenon
      <4>. QED BY <4>1, <4>3
    <3>4. CASE Releases
      <4>1. ~AbsentCR(w.cr.uid).exists
        BY DEF AbsentCR
      <4>2. WriteCR(w.req, AbsentCR(w.cr.uid))
        BY <3>4, Zenon DEF Releases
      <4>3. /\ api'[w.req] = AbsentCR(w.cr.uid)
            /\ \A c \in CRs \ {w.req} : api'[c] = api[c]
        BY <3>1, <3>2, <4>2, WriteCREffect, Zenon
      <4>. QED BY <4>1, <4>3
    <3>5. CASE Reports
      <4> DEFINE r == WithReason(api[w.req], w.cr.status, w.phase)
      <4>1. r.uid = api[w.req].uid
        BY <3>1, <3>2, WrittenTypes, Zenon DEF SameObject
      <4>2. WriteCR(w.req, r) /\ api[w.req].uid = w.cr.uid
        BY <3>5, Zenon DEF Reports, IInv, WorkerGuarded, Guarded
      <4> HIDE DEF r
      <4>3. api'[w.req] = r /\ \A c \in CRs \ {w.req} : api'[c] = api[c]
        BY <3>1, <3>2, <4>2, WriteCREffect, Zenon
      <4>. QED BY <4>1, <4>2, <4>3
    <3>. QED BY <2>1, <3>2, <3>3, <3>4, <3>5 DEF CRStep
  <2>5. CASE Crash
    <3>1. api' = api
      BY <2>5 DEF Crash, Restart, kube
    <3>. QED BY <2>1, <3>1
  <2>6. CASE UNCHANGED vars
    <3>1. api' = api
      BY <2>6 DEF vars, kube
    <3>. QED BY <2>1, <3>1
  <2>. QED BY <2>2, <2>3, <2>4, <2>5, <2>6 DEF Next
<1>2. IInv /\ [Next]_vars => [A]_vars
  BY <1>1
<1>. QED BY <1>2, Inductive, PTL DEF Spec, StatusStaysWithIncarnation

\* A CR stays what the user made it.
KeepsCR(c) ==
  \/ /\ api[c].exists /\ api'[c].exists
     /\ api'[c].uid = api[c].uid /\ api'[c].spec = api[c].spec
     /\ api'[c].deleting = api[c].deleting
  \/ ~api'[c].exists /\ (api[c].exists => api[c].deleting)

\* Storing the finalizer changes nothing else.
LEMMA FinalizerAlone ==
  ASSUME NEW r \in CRType
  PROVE  LET g == [r EXCEPT !.finalizer = TRUE]
         IN  /\ g.exists = r.exists /\ g.uid = r.uid /\ g.spec = r.spec
             /\ g.deleting = r.deleting
BY DEF CRType

\* The worker leaves to the user what is the user's.
LEMMA WorkKeepsCRs ==
  ASSUME IInv, WorkStep, NEW c \in CRs
  PROVE  KeepsCR(c)
<1>1. TypeOK /\ CRStep /\ w.pc # "idle" /\ w.req \in CRs
  BY RequestType DEF IInv, WorkStep, LocalStep
<1>2. CASE api'[c] = api[c]
  BY <1>2 DEF KeepsCR
<1>3. CASE Guards
  <2> DEFINE g == [api[w.req] EXCEPT !.finalizer = TRUE]
  <2>1. /\ g.exists = api[w.req].exists /\ g.uid = api[w.req].uid
        /\ g.spec = api[w.req].spec /\ g.deleting = api[w.req].deleting
    <3>1. api[w.req] \in CRType
      BY <1>1 DEF TypeOK
    <3>. QED BY <3>1, FinalizerAlone, Zenon
  <2>2. WriteCR(w.req, g)
    BY <1>3, Zenon DEF Guards
  <2> HIDE DEF g
  <2>3. api'[w.req] = g /\ \A d \in CRs \ {w.req} : api'[d] = api[d]
    BY <1>1, <2>2, WriteCREffect, Zenon
  <2>. QED BY <1>2, <2>1, <2>3 DEF KeepsCR
<1>4. CASE Reports
  <2> DEFINE r == WithReason(api[w.req], w.cr.status, w.phase)
  <2>1. SameObject(r, api[w.req])
    BY <1>1, WrittenTypes, Zenon
  <2>2. WriteCR(w.req, r)
    BY <1>4, Zenon DEF Reports
  <2> HIDE DEF r
  <2>3. api'[w.req] = r /\ \A d \in CRs \ {w.req} : api'[d] = api[d]
    BY <1>1, <2>2, WriteCREffect, Zenon
  <2>. QED BY <1>2, <2>1, <2>3 DEF KeepsCR, SameObject
<1>5. CASE Releases
  <2>1. WriteCR(w.req, AbsentCR(w.cr.uid)) /\ w.pc = "purge" /\ w.why = "finalizer" /\ fresh
    BY <1>5, Zenon DEF Releases
  <2>2. api[w.req].deleting
    BY <1>1, <2>1 DEF IInv, CleanupCurrent, Coherent
  <2>3. ~AbsentCR(w.cr.uid).exists
    BY DEF AbsentCR
  <2>4. ~api'[w.req].exists /\ \A d \in CRs \ {w.req} : api'[d] = api[d]
    BY <1>1, <2>1, <2>3, WriteCREffect
  <2>. QED BY <1>2, <2>2, <2>4 DEF KeepsCR
<1>. QED BY <1>1, <1>2, <1>3, <1>4, <1>5 DEF CRStep

(***************************************************************************)
(* The operator never undoes what a user did, although it writes whole     *)
(* objects from copies that it read earlier: specs, incarnations and       *)
(* deletion marks change by users' hands alone, and the operator ends no   *)
(* CR but one that a user has deleted.                                     *)
(***************************************************************************)
THEOREM UsersAlwaysDecide == Spec => UsersDecide
<1> DEFINE A == edits' = edits => \A c \in CRs :
                  \/ /\ api[c].exists /\ api'[c].exists
                     /\ api'[c].uid = api[c].uid /\ api'[c].spec = api[c].spec
                     /\ api'[c].deleting = api[c].deleting
                  \/ ~api'[c].exists /\ (api[c].exists => api[c].deleting)
<1>1. IInv /\ [Next]_vars => (edits' = edits => \A c \in CRs : KeepsCR(c))
  <2> SUFFICES ASSUME IInv, [Next]_vars, edits' = edits, NEW c \in CRs
               PROVE  KeepsCR(c)
    OBVIOUS
  <2>1. CASE api' = api
    BY <2>1 DEF KeepsCR
  <2>2. CASE Environment
    <3>1. ~UserStep
      <4>1. edits + 1 # edits
        BY DEF IInv, TypeOK
      <4>. QED BY <4>1 DEF UserStep, UserWrite, Edit
    <3>2. api' = api
      BY <2>2, <3>1, EnvironmentEffect
      DEF IInv, ClusterStep, ClusterWrite, ElsewhereStep, kube
    <3>. QED BY <2>1, <3>2
  <2>3. ASSUME NEW d \in CRs, Deliver(d) \/ TimerFires(d) \/ Start(d) PROVE KeepsCR(c)
    <3>1. api' = api
      BY <2>3, StartCases DEF IInv, Deliver, TimerFires, SyncCR, SyncWorkload, kube
    <3>. QED BY <2>1, <3>1
  <2>4. CASE Work \/ CallFails
    BY <2>4, WorkEffect, WorkKeepsCRs DEF IInv
  <2>5. CASE Crash \/ UNCHANGED vars
    <3>1. api' = api
      BY <2>5 DEF Crash, Restart, vars, kube
    <3>. QED BY <2>1, <3>1
  <2>. QED BY <2>2, <2>3, <2>4, <2>5 DEF Next
<1>2. IInv /\ [Next]_vars => [A]_vars
  BY <1>1 DEF KeepsCR
<1>. QED BY <1>2, Inductive, PTL DEF Spec, UsersDecide

\* The Job of the stored incarnation of c has run.
JobHasRun(c) ==
  LET j == wl[c]["Jobs"]
  IN  j.exists /\ j.finished /\ api[c].exists /\ api[c].uid = j.uid

\* Neither users nor the cluster touch such a Job,
LEMMA EnvironmentKeepsJob ==
  ASSUME TypeOK, Environment, NEW c \in CRs, JobHasRun(c)
  PROVE  wl'[c]["Jobs"] = wl[c]["Jobs"]
<1>1. "Jobs" \in Kinds /\ "Deployment" \in Kinds /\ wl[c]["Jobs"] \in WorkloadType
  BY WorkloadsTyped DEF Kinds
<1>2. ASSUME NEW d \in CRs, NEW k \in Kinds, NEW new, ClusterWrite(d, k, new),
             d # c \/ k # "Jobs"
      PROVE  wl'[c]["Jobs"] = wl[c]["Jobs"]
  <2>1. WriteWorkload(d, k, new)
    BY <1>2 DEF ClusterWrite
  <2>. QED BY <1>1, <1>2, <2>1, WriteWorkloadEffect
<1>3. ASSUME NEW d \in CRs, CreateCR(d) \/ EditSpec(d) \/ DeleteCR(d) PROVE wl' = wl
  BY <1>3 DEF CreateCR, EditSpec, DeleteCR, UserWrite
<1>4. ASSUME NEW d \in CRs, SetQueue(d) \/ PodEvent(d) PROVE wl' = wl
  BY <1>4 DEF SetQueue, PodEvent, kube
<1>5. ASSUME NEW d \in CRs, UserScale(d)
      PROVE  wl'[c]["Jobs"] = wl[c]["Jobs"]
  <2>1. PICK n \in UserScales :
          ClusterWrite(d, "Deployment", [wl[d]["Deployment"] EXCEPT !.replicas = n])
    BY <1>5 DEF UserScale
  <2>. QED BY <1>1, <1>2, <2>1
<1>6. ASSUME NEW d \in CRs, Rollout(d)
      PROVE  wl'[c]["Jobs"] = wl[c]["Jobs"]
  <2>1. PICK new : ClusterWrite(d, "Deployment", new)
    BY <1>6 DEF Rollout
  <2>. QED BY <1>1, <1>2, <2>1
<1>7. ASSUME NEW d \in CRs, JobFinishes(d)
      PROVE  wl'[c]["Jobs"] = wl[c]["Jobs"]
  <2> DEFINE new == [wl[d]["Jobs"] EXCEPT !.finished = TRUE]
  <2>1. ClusterWrite(d, "Jobs", new)
    BY <1>7 DEF JobFinishes
  <2>2. \A j \in WorkloadType : j.finished => [j EXCEPT !.finished = TRUE] = j
    BY DEF WorkloadType
  <2>3. d # c
    <3>1. new # wl[d]["Jobs"]
      BY <2>1 DEF ClusterWrite
    <3>2. wl[c]["Jobs"].finished
      BY DEF JobHasRun
    <3>. QED BY <1>1, <2>2, <3>1, <3>2
  <2> HIDE DEF new
  <2>. QED BY <1>1, <1>2, <2>1, <2>3
<1>8. ASSUME NEW d \in CRs, NEW k \in Kinds, CollectGarbage(d, k)
      PROVE  wl'[c]["Jobs"] = wl[c]["Jobs"]
  <2>1. ClusterWrite(d, k, NoWorkload) /\ (d # c \/ k # "Jobs")
    BY <1>8 DEF CollectGarbage, JobHasRun
  <2>. QED BY <1>2, <2>1
<1>9. SetSecret => wl' = wl
  BY DEF SetSecret, kube
<1>10. ASSUME NEW a \in Agents, Register(a) \/ Deregister(a) PROVE wl' = wl
  BY <1>10 DEF Register, Deregister, kube
<1>. QED BY <1>3, <1>4, <1>5, <1>6, <1>7, <1>8, <1>9, <1>10 DEF Environment

\* and the worker creates a Job only where there is none.
LEMMA WorkKeepsJob ==
  ASSUME IInv, WorkStep, NEW c \in CRs, JobHasRun(c)
  PROVE  wl'[c]["Jobs"] = wl[c]["Jobs"]
<1>1. TypeOK /\ WorkloadStep /\ w.req \in CRs /\ "Jobs" \in Kinds /\ "Deployment" \in Kinds
  BY RequestType DEF IInv, WorkStep, LocalStep, Kinds
<1>2. CASE UNCHANGED <<wl, wsynced>>
  BY <1>2
<1>3. CASE Creates
  <2>1. PICK n \in Nat : WriteWorkload(w.req, w.cr.spec.mode, NewWorkload(w.cr, n))
    BY <1>3, Zenon DEF Creates
  <2>2. w.cr.spec.mode \in Kinds /\ ~wl[w.req][w.cr.spec.mode].exists
    BY <1>3, Zenon DEF Creates, IInv, ModeKnown
  <2>3. w.req # c \/ w.cr.spec.mode # "Jobs"
    BY <2>2 DEF JobHasRun
  <2>. QED BY <1>1, <2>1, <2>2, <2>3, WriteWorkloadEffect
<1>4. CASE Updates
  <2>1. PICK new : WriteWorkload(w.req, "Deployment", new)
    BY <1>4, Zenon DEF Updates
  <2>. QED BY <1>1, <2>1, WriteWorkloadEffect
<1>. QED BY <1>1, <1>2, <1>3, <1>4 DEF WorkloadStep

(***************************************************************************)
(* In mode Jobs a CR is served once: as long as its incarnation is stored, *)
(* its finished Job is neither changed nor replaced, by any step of anyone *)
(* who takes part, and whatever becomes of its spec and of its queue.      *)
(***************************************************************************)
THEOREM FinishedJobsStay == Spec => FinishedJobStays
<1> DEFINE A == \A c \in CRs : LET j == wl[c]["Jobs"] IN
                  (j.exists /\ j.finished /\ api[c].exists /\ api[c].uid = j.uid)
                    => wl'[c]["Jobs"] = j
<1>1. ASSUME IInv, [Next]_vars, NEW c \in CRs, JobHasRun(c)
      PROVE  wl'[c]["Jobs"] = wl[c]["Jobs"]
  <2>1. CASE Environment
    BY <1>1, <2>1, EnvironmentKeepsJob DEF IInv
  <2>2. ASSUME NEW d \in CRs, Deliver(d) \/ TimerFires(d) \/ Start(d) PROVE wl' = wl
    BY <1>1, <2>2, StartCases DEF IInv, Deliver, TimerFires, SyncCR, SyncWorkload, kube
  <2>3. CASE Work \/ CallFails
    BY <1>1, <2>3, WorkEffect, WorkKeepsJob DEF IInv
  <2>4. CASE Crash \/ UNCHANGED vars
    BY <2>4 DEF Crash, Restart, vars, kube
  <2>. QED BY <1>1, <2>1, <2>2, <2>3, <2>4 DEF Next
<1>2. IInv /\ [Next]_vars => [A]_vars
  BY <1>1 DEF JobHasRun
<1>. QED BY <1>2, Inductive, PTL DEF Spec, FinishedJobStays

-----------------------------------------------------------------------------
(***************************************************************************)
(* A CR is scaled from the queue of its own pool only.                     *)
(***************************************************************************)
\* n is what the queue of c calls for, with one of the specs that CRs have.
CalledFor(c, n) ==
  \E q \in QueueLengths[c], s \in Specs : n = DetermineDesiredReplicas(q, s)

AllScaled == \A c \in CRs : OwnScale(c)

\* Every queue has one of its lengths; when Handle runs, the client in the use
\* case is the one of the worker's request; and what the worker is about to apply
\* to a Deployment is what the queue of its request called for.
OwnQueueInv ==
  /\ \A c \in CRs : jobs[c] \in QueueLengths[c]
  /\ w.pc = "handle" => injected = w.req
  /\ w.pc = "apply" /\ w.cr.spec.mode = "Deployment" => CalledFor(w.req, w.want)
  /\ AllScaled

\* The three ways to be at Handle or at ReconcileDeployment.
Queried == w'.pc = "handle" /\ injected' = w.req /\ w'.req = w.req

Computed ==
  /\ w.pc = "handle" /\ w'.pc = "apply" /\ w'.req = w.req /\ w'.cr.spec = w.cr.spec
  /\ w'.want = DetermineDesiredReplicas(jobs[injected], w.cr.spec)

Retried ==
  /\ w.pc = "apply" /\ w'.pc = "apply" /\ w'.req = w.req /\ w'.cr.spec = w.cr.spec
  /\ w'.want = w.want

Elsewhere == w'.pc \notin {"handle", "apply"}

\* The moves that all calls share.
LEMMA SharedMoves ==
  ASSUME TypeOK, w.pc # "idle"
  PROVE  /\ Finish => Elsewhere
         /\ \A p \in {"Processing", "Failed", "Ready"} : Report(p) => Elsewhere
         /\ Proceed => Elsewhere
         /\ \A r \in Replies : Applied(r) => Elsewhere
         /\ AfterStatus => Elsewhere
<1>1. Finish => Elsewhere
  BY FinishType DEF Elsewhere
<1>2. ASSUME NEW p \in {"Processing", "Failed", "Ready"}, Report(p) PROVE Elsewhere
  BY <1>2, ReportType DEF Elsewhere
<1>3. Proceed => Elsewhere
  BY ProceedType DEF Elsewhere
<1>4. ASSUME NEW r \in Replies, Applied(r) PROVE Elsewhere
  BY <1>2, <1>3, <1>4 DEF Applied
<1>5. ASSUME AfterStatus PROVE Elsewhere
  <2>1. CASE w.phase = "Processing"
    <3> DEFINE next == [w EXCEPT !.pc = "query", !.tries = 0]
    <3>1. next.pc = "query"
      BY QueryUpdate, Zenon DEF TypeOK
    <3>2. w' = next
      BY <1>5, <2>1, Zenon DEF AfterStatus, Goto
    <3> HIDE DEF next
    <3>. QED BY <3>1, <3>2 DEF Elsewhere
  <2>2. CASE w.phase # "Processing"
    BY <1>1, <1>5, <2>2 DEF AfterStatus
  <2>. QED BY <2>1, <2>2
<1>. QED BY <1>1, <1>2, <1>3, <1>4, <1>5

\* A retry of the update of the Deployment keeps what is to be applied.
LEMMA RetryMoves ==
  ASSUME TypeOK, w.pc \in {"status", "apply"}, Goto([w EXCEPT !.tries = @ + 1])
  PROVE  Elsewhere \/ Retried
<1>1. w \in WorkerType /\ w' = [w EXCEPT !.tries = @ + 1]
  BY DEF TypeOK, Goto
<1>2. w'.pc = w.pc /\ w'.req = w.req /\ w'.cr = w.cr /\ w'.want = w.want
  BY <1>1 DEF WorkerType
<1>. QED BY <1>2 DEF Elsewhere, Retried

\* The first GetQueueLength.
LEMMA QueryMoves == TypeOK /\ QueryQueue => Elsewhere \/ Queried
<1> SUFFICES ASSUME TypeOK, QueryQueue PROVE Elsewhere \/ Queried
  OBVIOUS
<1>1. w \in WorkerType /\ w.pc = "query"
  BY DEF TypeOK, QueryQueue
<1>2. CASE PATFound(secret)
  <2> DEFINE cr == WithQueued(w.cr, jobs[w.req])
  <2>1. w' = [w EXCEPT !.pc = "handle", !.cr = cr] /\ injected' = w.req
    BY <1>2, Zenon DEF QueryQueue, Inject, Goto, GetQueueLength
  <2> HIDE DEF cr
  <2>2. w'.pc = "handle" /\ w'.req = w.req
    BY <1>1, <2>1 DEF WorkerType
  <2>. QED BY <2>1, <2>2 DEF Queried
<1>3. CASE ~PATFound(secret)
  BY <1>1, <1>3, SharedMoves DEF QueryQueue
<1>. QED BY <1>2, <1>3

\* The use case computes the replicas.
LEMMA HandleMoves == TypeOK /\ Handle => Elsewhere \/ Computed
<1> SUFFICES ASSUME TypeOK, Handle PROVE Elsewhere \/ Computed
  OBVIOUS
<1>1. w \in WorkerType /\ w.pc = "handle"
  BY DEF TypeOK, Handle
<1>2. CASE ValidateSecrets(secret) /\ w.cr.spec.mode \in Kinds
  <2> DEFINE n == DetermineDesiredReplicas(jobs[injected], w.cr.spec)
  <2>1. w' = [w EXCEPT !.pc = "apply", !.want = n]
    BY <1>2, Zenon DEF Handle, Goto, GetQueueLength
  <2> HIDE DEF n
  <2>2. w'.pc = "apply" /\ w'.req = w.req /\ w'.cr = w.cr /\ w'.want = n
    BY <1>1, <2>1 DEF WorkerType
  <2>. QED BY <1>1, <2>2 DEF Computed, n
<1>3. CASE ~(ValidateSecrets(secret) /\ w.cr.spec.mode \in Kinds)
  <2>1. Report("Failed")
    BY <1>3, Zenon DEF Handle
  <2>. QED BY <1>1, <2>1, SharedMoves
<1>. QED BY <1>2, <1>3

\* Every step of the running worker moves in one of these ways.
LEMMA WorkMoves ==
  ASSUME TypeOK, Work \/ CallFails
  PROVE  Elsewhere \/ Queried \/ Computed \/ Retried
<1>1. w.pc # "idle"
  BY WorkEffect DEF WorkStep, LocalStep
<1>3. CASE w.pc \in Cleanup \cup {"addFinalizer"}
  BY <1>3, WorkEffect DEF WorkStep, LocalStep, MovesOn, Ends, Main, Cleanup, Elsewhere
<1>4. CASE UpdateStatus
  <2>1. w.pc = "status" /\ (Goto([w EXCEPT !.tries = @ + 1]) \/ AfterStatus)
    BY <1>4, Zenon DEF UpdateStatus
  <2>. QED BY <1>1, <2>1, SharedMoves, RetryMoves
<1>5. CASE QueryQueue \/ Handle
  BY <1>5, QueryMoves, HandleMoves
<1>6. ASSUME NEW r \in Replies, CreateWorkload(r) \/ UpdateDeployment(r) PROVE Elsewhere
  <2>1. Report("Failed") \/ Applied(r) \/ Proceed
    BY <1>6, Zenon DEF CreateWorkload, UpdateDeployment
  <2>. QED BY <1>1, <2>1, SharedMoves
<1>7. CASE UpdateDeploymentRefused \/ UpdateJob
  <2>1. w.pc = "apply" /\ (Goto([w EXCEPT !.tries = @ + 1]) \/ Report("Failed") \/ Proceed)
    BY <1>7, Zenon DEF UpdateDeploymentRefused, UpdateJob
  <2>. QED BY <1>1, <2>1, SharedMoves, RetryMoves
<1>8. CASE Observe
  <2>1. w.pc = "observe" /\ w'.pc = "status"
    <3> DEFINE n == AgentName(w.req)
               cr == IF n \in CRs /\ wcache[n]["Deployment"].exists
                     THEN WithAgents(w.cr, wcache[n]["Deployment"].replicas,
                                     wcache[n]["Deployment"].ready)
                     ELSE w.cr
    <3>1. w' = [w EXCEPT !.pc = "status", !.phase = "Ready", !.cr = cr] /\ w.pc = "observe"
      BY <1>8, Zenon DEF Observe, Goto
    <3> HIDE DEF cr
    <3>. QED BY <3>1 DEF TypeOK, WorkerType
  <2>. QED BY <2>1 DEF Elsewhere
<1>9. CASE CallFails
  BY <1>1, <1>9, SharedMoves DEF CallFails
<1>. QED
  BY <1>3, <1>4, <1>5, <1>6, <1>7, <1>8, <1>9
  DEF Work, Purge, Cleanup, DisableAgent, DeleteAgent, AgentMissing, RemoveFinalizer, PodHandled,
      ListAgents, AddFinalizer

\* What the worker writes to a Deployment are the replicas it wants.
LEMMA ReplicasWritten ==
  ASSUME TypeOK, ModeKnown, Work \/ CallFails
  PROVE  \/ UNCHANGED wl
         \/ \E new \in WorkloadType, k \in Kinds :
              /\ w.pc = "apply" /\ w.cr.spec.mode = k /\ WriteWorkload(w.req, k, new)
              /\ k = "Deployment" => new.replicas = w.want
<1> DEFINE Written == \E new \in WorkloadType, k \in Kinds :
              /\ w.pc = "apply" /\ w.cr.spec.mode = k /\ WriteWorkload(w.req, k, new)
              /\ k = "Deployment" => new.replicas = w.want
<1>1. ASSUME NEW r \in Replies, CreateWorkload(r) PROVE UNCHANGED wl \/ Written
  <2> DEFINE k == w.cr.spec.mode
             n == IF k = "Jobs" THEN 0 ELSE w.want
             new == NewWorkload(w.cr, n)
  <2>1. w.pc = "apply" /\ (UNCHANGED wl \/ WriteWorkload(w.req, k, new))
    BY <1>1, Zenon DEF CreateWorkload
  <2>2. k \in Kinds /\ n \in Nat /\ w.cr \in CRType
    BY <2>1, RequestType DEF ModeKnown
  <2>3. new \in WorkloadType /\ new.replicas = n
    BY <2>2, WorkloadTypes DEF NewWorkload
  <2>4. k = "Deployment" => new.replicas = w.want
    BY <2>3
  <2> HIDE DEF new, n
  <2>. QED BY <2>1, <2>2, <2>3, <2>4
<1>2. ASSUME NEW r \in Replies, UpdateDeployment(r) PROVE UNCHANGED wl \/ Written
  <2> DEFINE d == wcache[w.req]["Deployment"]
             new == [d EXCEPT !.replicas = w.want, !.template = WithDefaults(Template(w.cr.spec))]
  <2>1. /\ w.pc = "apply" /\ w.cr.spec.mode = "Deployment"
        /\ UNCHANGED wl \/ WriteWorkload(w.req, "Deployment", new)
    BY <1>2, Zenon DEF UpdateDeployment
  <2>2. d \in WorkloadType /\ w.want \in Nat /\ w.cr.spec \in Specs /\ "Deployment" \in Kinds
    BY <2>1, RequestType, WorkloadsTyped DEF Kinds
  <2>3. new \in WorkloadType /\ new.replicas = w.want
    <3>1. new \in WorkloadType
      BY <2>2, WorkloadUpdates
    <3>. QED BY <2>2, <3>1 DEF WorkloadType
  <2> HIDE DEF new
  <2>. QED BY <2>1, <2>2, <2>3
<1> HIDE DEF Written
<1>4. UNCHANGED wl \/ Written
  BY <1>1, <1>2
  DEF Work, Purge, CallFails, DisableAgent, DeleteAgent, AgentMissing, RemoveFinalizer, PodHandled,
      ListAgents, AddFinalizer, UpdateStatus, QueryQueue, Handle, UpdateDeploymentRefused, UpdateJob,
      Observe, kube
<1>. QED BY <1>4 DEF Written

\* The replicas of the stored Deployments.
Scaled(d, c) == d.exists => d.replicas \in UserScales \/ CalledFor(c, d.replicas)

\* A write of a workload keeps them in order if what it writes is.
LEMMA WriteScaled ==
  ASSUME TypeOK, AllScaled, NEW c \in CRs, NEW k \in Kinds, NEW new,
         WriteWorkload(c, k, new), k = "Deployment" => Scaled(new, c)
  PROVE  AllScaled'
<1>1. \A d \in CRs : Scaled(wl[d]["Deployment"], d)
  BY DEF AllScaled, OwnScale, Scaled, CalledFor
<1>2. /\ wl'[c][k] = new
      /\ \A d \in CRs : \A l \in Kinds : d # c \/ l # k => wl'[d][l] = wl[d][l]
  BY WriteWorkloadEffect
<1>3. \A d \in CRs : Scaled(wl'[d]["Deployment"], d)
  <2> HIDE DEF Scaled
  <2>. QED BY <1>1, <1>2 DEF Kinds
<1>. QED BY <1>3 DEF AllScaled, OwnScale, Scaled, CalledFor

\* Users, the cluster and Azure DevOps keep the invariant.
LEMMA EnvironmentScaled ==
  ASSUME TypeOK, OwnQueueInv, Environment
  PROVE  OwnQueueInv'
<1>1. w' = w /\ injected' = injected
  <2>1. w' = w
    BY EnvironmentLocal
  <2>2. injected' = injected
    BY DEF Environment, CreateCR, EditSpec, DeleteCR, UserWrite, SetQueue, PodEvent, UserScale,
           Rollout, JobFinishes, CollectGarbage, ClusterWrite, SetSecret, Register, Deregister
  <2>. QED BY <2>1, <2>2
<1>2. \A c \in CRs : jobs'[c] \in QueueLengths[c]
  <2>1. ASSUME NEW c \in CRs, SetQueue(c) PROVE \A d \in CRs : jobs'[d] \in QueueLengths[d]
    BY <2>1 DEF SetQueue, OwnQueueInv, TypeOK
  <2>2. ASSUME jobs' = jobs PROVE \A d \in CRs : jobs'[d] \in QueueLengths[d]
    BY <2>2 DEF OwnQueueInv
  <2>. QED
    BY <2>1, <2>2
    DEF Environment, CreateCR, EditSpec, DeleteCR, UserWrite, PodEvent, UserScale, Rollout,
        JobFinishes, CollectGarbage, ClusterWrite, SetSecret, Register, Deregister, azdo
<1>3. AllScaled'
  <2>1. ASSUME UNCHANGED wl PROVE AllScaled'
    BY <2>1 DEF OwnQueueInv, AllScaled, OwnScale
  <2>2. ASSUME NEW c \in CRs, NEW k \in Kinds, NEW new, ClusterWrite(c, k, new),
               k = "Deployment" => Scaled(new, c)
        PROVE  AllScaled'
    BY <2>2, WriteScaled DEF ClusterWrite, OwnQueueInv
  <2>3. ASSUME NEW c \in CRs, UserScale(c) PROVE AllScaled'
    <3>1. PICK n \in UserScales :
            ClusterWrite(c, "Deployment", [wl[c]["Deployment"] EXCEPT !.replicas = n])
      BY <2>3 DEF UserScale
    <3>2. wl[c]["Deployment"] \in WorkloadType
      BY WorkloadsTyped
    <3>3. Scaled([wl[c]["Deployment"] EXCEPT !.replicas = n], c)
      BY <3>2 DEF Scaled, WorkloadType
    <3>. QED BY <2>2, <3>1, <3>3 DEF Kinds
  <2>4. ASSUME NEW c \in CRs, Rollout(c) PROVE AllScaled'
    <3> DEFINE d == wl[c]["Deployment"]
               new == [d EXCEPT !.ready = d.replicas]
    <3>1. ClusterWrite(c, "Deployment", new) /\ d \in WorkloadType
      BY <2>4, WorkloadsTyped DEF Rollout
    <3>2. new.exists = d.exists /\ new.replicas = d.replicas
      BY <3>1 DEF WorkloadType
    <3>3. Scaled(d, c)
      BY DEF OwnQueueInv, AllScaled, OwnScale, Scaled, CalledFor
    <3> HIDE DEF new, d
    <3>4. Scaled(new, c)
      BY <3>2, <3>3 DEF Scaled
    <3>. QED BY <2>2, <3>1, <3>4 DEF Kinds
  <2>5. ASSUME NEW c \in CRs, JobFinishes(c) PROVE AllScaled'
    BY <2>2, <2>5 DEF JobFinishes, Kinds
  <2>6. ASSUME NEW c \in CRs, NEW k \in Kinds, CollectGarbage(c, k) PROVE AllScaled'
    BY <2>2, <2>6 DEF CollectGarbage, NoWorkload, Scaled
  <2>. QED
    BY <2>1, <2>3, <2>4, <2>5, <2>6
    DEF Environment, CreateCR, EditSpec, DeleteCR, UserWrite, SetQueue, PodEvent, SetSecret,
        Register, Deregister, kube
<1>. QED BY <1>1, <1>2, <1>3 DEF OwnQueueInv

\* So does the worker.
LEMMA WorkScaled ==
  ASSUME IInv, OwnQueueInv, Work \/ CallFails
  PROVE  OwnQueueInv'
<1>1. TypeOK /\ ModeKnown /\ w.pc # "idle"
  BY WorkEffect DEF IInv, WorkStep, LocalStep
<1>2. \A c \in CRs : jobs'[c] \in QueueLengths[c]
  BY <1>1, WorkEffect DEF WorkStep, OwnQueueInv
<1>3. AllScaled'
  <2>1. CASE UNCHANGED wl
    BY <2>1 DEF OwnQueueInv, AllScaled, OwnScale
  <2>2. ASSUME NEW new \in WorkloadType, NEW k \in Kinds, w.pc = "apply", w.cr.spec.mode = k,
               WriteWorkload(w.req, k, new), k = "Deployment" => new.replicas = w.want
        PROVE  AllScaled'
    <3>1. k = "Deployment" => Scaled(new, w.req)
      BY <2>2 DEF OwnQueueInv, Scaled
    <3>. QED BY <1>1, <2>2, <3>1, WriteScaled, RequestType DEF OwnQueueInv
  <2>. QED BY <1>1, <2>1, <2>2, ReplicasWritten
<1>4. CASE Elsewhere
  BY <1>2, <1>3, <1>4 DEF OwnQueueInv, Elsewhere
<1>5. CASE Queried
  BY <1>2, <1>3, <1>5 DEF OwnQueueInv, Queried
<1>6. CASE Computed
  <2>1. w.req \in CRs /\ w.cr.spec \in Specs /\ injected = w.req
    BY <1>1, <1>6, RequestType DEF Computed, OwnQueueInv
  <2>2. CalledFor(w'.req, w'.want)
    BY <1>6, <2>1 DEF Computed, CalledFor, OwnQueueInv
  <2>. QED BY <1>2, <1>3, <1>6, <2>2 DEF OwnQueueInv, Computed, CalledFor
<1>7. CASE Retried
  BY <1>2, <1>3, <1>7 DEF OwnQueueInv, Retried, CalledFor
<1>. QED BY <1>1, <1>4, <1>5, <1>6, <1>7, WorkMoves

\* Every step keeps it.
LEMMA OwnQueueStep == IInv /\ OwnQueueInv /\ [Next]_vars => OwnQueueInv'
<1> SUFFICES ASSUME IInv, OwnQueueInv, [Next]_vars PROVE OwnQueueInv'
  OBVIOUS
<1>1. TypeOK
  BY DEF IInv
<1>2. ASSUME UNCHANGED <<wl, jobs>>, w'.pc \notin {"handle", "apply"} \/ UNCHANGED <<w, injected>>
      PROVE  OwnQueueInv'
  <2>1. AllScaled' /\ \A c \in CRs : jobs'[c] \in QueueLengths[c]
    BY <1>2 DEF OwnQueueInv, AllScaled, OwnScale
  <2>. QED BY <1>2, <2>1 DEF OwnQueueInv, CalledFor
<1>3. CASE Environment
  BY <1>1, <1>3, EnvironmentScaled
<1>4. ASSUME NEW c \in CRs, Deliver(c) \/ TimerFires(c) PROVE OwnQueueInv'
  BY <1>2, <1>4 DEF Deliver, SyncCR, SyncWorkload, TimerFires, kube, azdo
<1>5. ASSUME NEW c \in CRs, Start(c) PROVE OwnQueueInv'
  BY <1>1, <1>2, <1>5, StartCases DEF Taken, kube, azdo
<1>6. CASE Work \/ CallFails
  BY <1>6, WorkScaled
<1>7. CASE Crash
  BY <1>2, <1>7 DEF Crash, Restart, IdleWorker, kube, azdo
<1>8. CASE UNCHANGED vars
  BY <1>2, <1>8 DEF vars, kube, azdo
<1>. QED BY <1>3, <1>4, <1>5, <1>6, <1>7, <1>8 DEF Next

\* It holds always.
LEMMA OwnQueueHolds == Spec => []OwnQueueInv
<1>1. Init => OwnQueueInv
  <2> SUFFICES ASSUME Init PROVE OwnQueueInv
    OBVIOUS
  <2>1. w = IdleWorker /\ \A c \in CRs : jobs[c] \in QueueLengths[c]
    BY Zenon DEF Init
  <2>2. \A c \in CRs : ~wl[c]["Deployment"].exists
    BY DEF Init, NoWorkload, Kinds
  <2>. QED BY <2>1, <2>2 DEF OwnQueueInv, AllScaled, OwnScale, IdleWorker
<1>. QED BY <1>1, OwnQueueStep, InvInit, InvStep, PTL DEF Spec

(***************************************************************************)
(* When Handle reads the queue, the client in the shared field is the one  *)
(* that this reconcile made for its own CR; and the replicas of a          *)
(* Deployment are what some length of the queue of its own CR calls for    *)
(* with some spec, or were set by hand.                                    *)
(***************************************************************************)
THEOREM ScaledFromOwnQueue == Spec => []OwnQueueOnly
<1>1. OwnQueueInv => OwnQueueOnly
  BY DEF OwnQueueInv, OwnQueueOnly, AllScaled
<1>. QED BY <1>1, OwnQueueHolds, PTL

-----------------------------------------------------------------------------
(***************************************************************************)
(* A settled CR stays settled.                                             *)
(***************************************************************************)
\* The parts of Settled(c): the worker's share,
WorkerSettled(c) ==
  w.req = c => /\ w.cr.spec = api[c].spec
               /\ w.pc = "apply" => w.want = DetermineDesiredReplicas(jobs[c], api[c].spec)

\* and what a step leaves alone of the rest.
SameCR(c) ==
  /\ api'[c].exists = api[c].exists /\ api'[c].deleting = api[c].deleting
  /\ api'[c].uid = api[c].uid /\ api'[c].spec = api[c].spec

SameDeployment(c) ==
  LET d == wl[c]["Deployment"]
      e == wl'[c]["Deployment"]
  IN  /\ e.exists = d.exists /\ e.uid = d.uid /\ e.replicas = d.replicas
      /\ e.template.image = d.template.image

\* Together they are enough.
LEMMA SettledParts ==
  ASSUME NEW c \in CRs, Settled(c), SameCR(c), SameDeployment(c),
         UNCHANGED <<jobs, secret, pod>>, cache'[c].spec = api[c].spec, WorkerSettled(c)'
  PROVE  Settled(c)'
<1>1. Serviceable(c)'
  BY DEF Settled, Serviceable, SameCR, PATFound, ValidateSecrets
<1>2. Served(c)'
  BY DEF Settled, Served, SameCR, SameDeployment
<1>. QED BY <1>1, <1>2 DEF Settled, SameCR, WorkerSettled

\* What the environment does of its own accord, not as a user and not as Azure DevOps:
\* a Job finishes, what has lost its owner is removed, pods of a Deployment come up.
OwnAccord(d, k, new) ==
  /\ ClusterWrite(d, k, new)
  /\ \/ k = "Jobs"
     \/ ~(api[d].exists /\ api[d].uid = wl[d][k].uid)
     \/ new = [wl[d][k] EXCEPT !.ready = wl[d][k].replicas]

\* It does nothing else without an edit.
LEMMA EnvironmentAtRest ==
  ASSUME TypeOK, Environment, edits' = edits
  PROVE  \E d \in CRs : \E k \in Kinds : \E new : OwnAccord(d, k, new)
<1>1. ~Edit
  BY DEF TypeOK, Edit, BoundsAssumption
<1>2. PICK d \in CRs : Rollout(d) \/ JobFinishes(d) \/ \E k \in Kinds : CollectGarbage(d, k)
  BY <1>1 DEF Environment, CreateCR, EditSpec, DeleteCR, UserWrite, SetQueue, PodEvent, UserScale,
              SetSecret, Register, Deregister
<1>3. CASE Rollout(d)
  <2>1. OwnAccord(d, "Deployment", [wl[d]["Deployment"] EXCEPT !.ready = wl[d]["Deployment"].replicas])
    BY <1>3 DEF Rollout, OwnAccord
  <2>. QED BY <2>1 DEF Kinds
<1>4. CASE JobFinishes(d)
  <2>1. OwnAccord(d, "Jobs", [wl[d]["Jobs"] EXCEPT !.finished = TRUE])
    BY <1>4 DEF JobFinishes, OwnAccord
  <2>. QED BY <2>1 DEF Kinds
<1>5. ASSUME NEW k \in Kinds, CollectGarbage(d, k) PROVE OwnAccord(d, k, NoWorkload)
  BY <1>5 DEF CollectGarbage, OwnAccord
<1>. QED BY <1>2, <1>3, <1>4, <1>5

\* A write of another workload, or one that only says how many pods are ready, leaves
\* the Deployment of a settled CR as it is.
LEMMA ClusterKeepsSettled ==
  ASSUME TypeOK, NEW c \in CRs, Settled(c), Environment, edits' = edits
  PROVE  Settled(c)'
<1>1. PICK d \in CRs, k \in Kinds : \E new : OwnAccord(d, k, new)
  BY EnvironmentAtRest
<1> PICK new : OwnAccord(d, k, new)
  BY <1>1
<1>2. /\ WriteWorkload(d, k, new)
      /\ UNCHANGED <<api, cache, w, jobs, secret, pod>>
  BY DEF OwnAccord, ClusterWrite, azdo, cluster
<1>3. SameDeployment(c)
  <2>1. "Deployment" \in Kinds /\ wl[c]["Deployment"] \in WorkloadType
    BY WorkloadsTyped DEF Kinds
  <2>2. CASE d # c \/ k # "Deployment"
    <3>1. wl'[c]["Deployment"] = wl[c]["Deployment"]
      BY <1>2, <2>1, <2>2, WriteWorkloadEffect
    <3>. QED BY <3>1 DEF SameDeployment
  <2>3. CASE d = c /\ k = "Deployment"
    <3>1. wl'[c]["Deployment"] = [wl[c]["Deployment"] EXCEPT !.ready = wl[c]["Deployment"].replicas]
      BY <1>2, <2>1, <2>3, WriteWorkloadEffect DEF OwnAccord, Settled, Serviceable, Served
    <3>. QED BY <2>1, <3>1 DEF SameDeployment, WorkloadType
  <2>. QED BY <2>2, <2>3
<1>4. SameCR(c) /\ cache'[c].spec = api[c].spec /\ WorkerSettled(c)'
  BY <1>2 DEF SameCR, WorkerSettled, Settled
<1>. QED BY <1>2, <1>3, <1>4, SettledParts

\* The worker's write of a CR keeps what users asked for: it cannot take away the
\* finalizer of a CR that is not being deleted.
LEMMA WorkKeepsCR ==
  ASSUME IInv, WorkStep, NEW c \in CRs, ~api[c].deleting
  PROVE  SameCR(c)
<1>1. TypeOK /\ CRStep /\ w.pc # "idle" /\ w.req \in CRs /\ api[w.req] \in CRType
  BY RequestType DEF IInv, WorkStep, LocalStep, TypeOK
<1>2. CASE api'[c] = api[c]
  BY <1>2 DEF SameCR
<1>3. CASE Guards
  <2> DEFINE g == [api[w.req] EXCEPT !.finalizer = TRUE]
  <2>1. /\ g.exists = api[w.req].exists /\ g.deleting = api[w.req].deleting
        /\ g.uid = api[w.req].uid /\ g.spec = api[w.req].spec
    BY <1>1 DEF CRType
  <2>2. WriteCR(w.req, g)
    BY <1>3, Zenon DEF Guards
  <2> HIDE DEF g
  <2>. QED BY <1>1, <2>1, <2>2, WriteCREffect DEF SameCR
<1>4. CASE Reports
  <2> DEFINE r == WithReason(api[w.req], w.cr.status, w.phase)
  <2>1. SameObject(r, api[w.req])
    BY <1>1, WrittenTypes, Zenon
  <2>2. WriteCR(w.req, r)
    BY <1>4, Zenon DEF Reports
  <2> HIDE DEF r
  <2>. QED BY <1>1, <2>1, <2>2, WriteCREffect DEF SameCR, SameObject
<1>5. CASE Releases
  <2>1. /\ w.pc = "purge" /\ w.why = "finalizer" /\ fresh
        /\ WriteCR(w.req, AbsentCR(w.cr.uid))
    BY <1>5, Zenon DEF Releases
  <2>2. api[w.req].deleting
    BY <1>1, <2>1 DEF IInv, CleanupCurrent, Coherent
  <2>3. api'[c] = api[c]
    BY <1>1, <2>1, <2>2, WriteCREffect
  <2>. QED BY <1>2, <2>3
<1>. QED BY <1>1, <1>2, <1>3, <1>4, <1>5 DEF CRStep

\* Its write of a Deployment brings a settled one to where it is.
LEMMA WorkKeepsDeployment ==
  ASSUME IInv, WorkStep, NEW c \in CRs, Settled(c)
  PROVE  SameDeployment(c)
<1>1. TypeOK /\ WorkloadStep /\ w.pc # "idle" /\ w.req \in CRs /\ "Deployment" \in Kinds
  BY RequestType DEF IInv, WorkStep, LocalStep, Kinds
<1>2. CASE wl'[c]["Deployment"] = wl[c]["Deployment"]
  BY <1>2 DEF SameDeployment
<1>3. CASE Creates
  <2>1. PICK n \in Nat : WriteWorkload(w.req, w.cr.spec.mode, NewWorkload(w.cr, n))
    BY <1>3, Zenon DEF Creates
  <2>2. w.cr.spec.mode \in Kinds /\ ~wl[w.req][w.cr.spec.mode].exists
    BY <1>3, Zenon DEF Creates, IInv, ModeKnown
  <2>3. c # w.req \/ "Deployment" # w.cr.spec.mode
    BY <2>2 DEF Settled, Served
  <2>. QED BY <1>1, <1>2, <2>1, <2>2, <2>3, WriteWorkloadEffect
<1>4. CASE Updates
  <2> DEFINE d == wcache[w.req]["Deployment"]
             u == [d EXCEPT !.replicas = w.want,
                            !.template = WithDefaults(Template(w.cr.spec))]
  <2>1. WriteWorkload(w.req, "Deployment", u) /\ wsynced[w.req]["Deployment"] /\ w.pc = "apply"
    BY <1>4, Zenon DEF Updates
  <2>2. d = wl[w.req]["Deployment"] /\ d \in WorkloadType /\ w.cr.spec \in Specs /\ w.want \in Nat
    BY <1>1, <2>1, WorkloadsTyped, RequestType DEF IInv, Coherent
  <2>3. /\ u.exists = d.exists /\ u.uid = d.uid /\ u.replicas = w.want
        /\ u.template.image = w.cr.spec.image
    BY <2>2, SpecFields DEF WorkloadType, WithDefaults, Template
  <2> HIDE DEF u, d
  <2>4. CASE w.req # c
    BY <1>1, <1>2, <2>1, <2>4, WriteWorkloadEffect
  <2>5. CASE w.req = c
    <3>1. wl'[c]["Deployment"] = u
      BY <1>1, <2>1, <2>5, WriteWorkloadEffect
    <3>2. /\ d.replicas = DetermineDesiredReplicas(jobs[c], api[c].spec)
          /\ d.template.image = api[c].spec.image
      BY <2>2, <2>5 DEF Settled, Served
    <3>3. /\ w.want = DetermineDesiredReplicas(jobs[c], api[c].spec)
          /\ w.cr.spec = api[c].spec
      BY <2>1, <2>5 DEF Settled
    <3>4. u.replicas = d.replicas /\ u.template.image = d.template.image
      BY <2>3, <3>2, <3>3
    <3>. QED BY <2>2, <2>3, <2>5, <3>1, <3>4 DEF SameDeployment
  <2>. QED BY <2>4, <2>5
<1>. QED BY <1>1, <1>2, <1>3, <1>4 DEF WorkloadStep

\* The worker's steps keep a CR settled.
LEMMA WorkKeepsSettled ==
  ASSUME IInv, OwnQueueInv, NEW c \in CRs, Settled(c), Work \/ CallFails
  PROVE  Settled(c)'
<1>1. TypeOK /\ WorkStep /\ LocalStep
  BY WorkEffect DEF IInv, WorkStep
<1>2. SameCR(c)
  BY <1>1, WorkKeepsCR DEF Settled, Serviceable
<1>3. SameDeployment(c)
  BY <1>1, WorkKeepsDeployment
<1>4. UNCHANGED <<cache, jobs, secret, pod>>
  BY <1>1 DEF WorkStep, cluster
<1>5. WorkerSettled(c)'
  <2> SUFFICES ASSUME w'.req = c
               PROVE  /\ w'.cr.spec = api'[c].spec
                      /\ w'.pc = "apply" =>
                           w'.want = DetermineDesiredReplicas(jobs'[c], api'[c].spec)
    BY DEF WorkerSettled
  <2>1. w.req = c /\ w'.cr.spec = w.cr.spec
    BY <1>1, NamesAssumption DEF LocalStep, MovesOn, Ends, SameWork
  <2>2. w.cr.spec = api[c].spec /\ api'[c].spec = api[c].spec /\ jobs' = jobs
    BY <1>2, <1>4, <2>1 DEF Settled, SameCR
  <2>3. w'.pc = "apply" => w'.want = DetermineDesiredReplicas(jobs[c], api[c].spec)
    <3>1. Elsewhere \/ Queried \/ Computed \/ Retried
      BY <1>1, WorkMoves
    <3>. QED BY <2>1, <2>2, <3>1
             DEF Elsewhere, Queried, Computed, Retried, OwnQueueInv, Settled
  <2>. QED BY <2>1, <2>2, <2>3
<1>. QED BY <1>2, <1>3, <1>4, <1>5, SettledParts DEF Settled

\* Every step that is not an edit keeps a CR settled.
LEMMA SettledStep ==
  ASSUME IInv, OwnQueueInv, [Next]_vars, edits' = edits, NEW c \in CRs, Settled(c)
  PROVE  Settled(c)'
<1>1. TypeOK
  BY DEF IInv
<1>2. ASSUME UNCHANGED <<api, wl, jobs, secret, pod>>, cache'[c].spec = api[c].spec,
             WorkerSettled(c)'
      PROVE  Settled(c)'
  BY <1>2, SettledParts DEF SameCR, SameDeployment
<1>3. CASE Environment
  BY <1>1, <1>3, ClusterKeepsSettled
<1>4. ASSUME NEW d \in CRs, Deliver(d) \/ TimerFires(d) PROVE Settled(c)'
  <2>1. UNCHANGED <<api, wl, jobs, secret, pod, w>>
    BY <1>4 DEF Deliver, SyncCR, SyncWorkload, TimerFires, kube, azdo, cluster
  <2>2. cache'[c].spec = api[c].spec
    <3>1. cache' = cache \/ cache' = [cache EXCEPT ![d] = api[d]]
      BY <1>4 DEF Deliver, SyncCR, SyncWorkload, TimerFires, informer
    <3>. QED BY <1>1, <3>1 DEF Settled, TypeOK
  <2>3. WorkerSettled(c)'
    BY <2>1 DEF Settled, WorkerSettled
  <2>. QED BY <1>2, <2>1, <2>2, <2>3
<1>5. ASSUME NEW d \in CRs, Start(d) PROVE Settled(c)'
  <2>1. UNCHANGED <<api, wl, jobs, secret, pod, cache>>
    BY <1>1, <1>5, StartCases DEF kube, informer, azdo, cluster
  <2>2. WorkerSettled(c)'
    <3>1. CASE w' = w
      BY <2>1, <3>1 DEF Settled, WorkerSettled
    <3>2. CASE Taken(d)
      BY <2>1, <3>2 DEF Taken, SameObject, Settled, WorkerSettled
    <3>. QED BY <1>1, <1>5, <3>1, <3>2, StartCases
  <2>. QED BY <1>2, <2>1, <2>2 DEF Settled
<1>6. CASE Work \/ CallFails
  BY <1>6, WorkKeepsSettled
<1>7. CASE Crash
  <2>1. w' = IdleWorker /\ cache' = api /\ UNCHANGED <<api, wl, jobs, secret, pod>>
    BY <1>7 DEF Crash, Restart, kube, azdo, cluster
  <2>2. WorkerSettled(c)'
    BY <2>1, NamesAssumption DEF WorkerSettled, IdleWorker
  <2>. QED BY <1>2, <2>1, <2>2
<1>8. CASE UNCHANGED vars
  <2>1. UNCHANGED <<api, wl, jobs, secret, pod, cache, w>>
    BY <1>8 DEF vars, kube, informer, azdo, cluster
  <2>. QED BY <1>2, <2>1 DEF Settled, WorkerSettled
<1>. QED BY <1>3, <1>4, <1>5, <1>6, <1>7, <1>8 DEF Next

(***************************************************************************)
(* Once a CR is settled nothing but users and Azure DevOps disturbs it:    *)
(* every reconcile writes its Deployment anew, and each of these writes,   *)
(* whatever fails and whenever the process dies, leaves it the replicas    *)
(* and the image that it has.                                              *)
(***************************************************************************)
THEOREM SettledForGood == Spec => StaysSettled
<1>1. IInv /\ OwnQueueInv /\ [Next]_vars =>
        [\A c \in CRs : (Settled(c) /\ edits' = edits) => Settled(c)']_vars
  BY SettledStep
<1>. QED BY <1>1, OwnQueueHolds, Inductive, PTL DEF Spec, StaysSettled

-----------------------------------------------------------------------------
(***************************************************************************)
(* A reconcile does not run in circles.                                    *)
(***************************************************************************)
\* Where the stages lie.
LEMMA Stages ==
  ASSUME NEW x \in WorkerType
  PROVE  /\ Stage(x) \in 1 .. 7 /\ (Stage(x) = 7 <=> x.pc = "idle")
         /\ x.pc = "list" => Stage(x) = 1
         /\ x.pc = "status" => Stage(x) = IF x.phase = "Processing" THEN 1 ELSE 6
         /\ x.pc \in {"query", "purge"} => Stage(x) = 2
         /\ x.pc = "handle" => Stage(x) = 3
         /\ x.pc = "apply" => Stage(x) = 4
         /\ x.pc = "observe" => Stage(x) = 5
<1>1. x.pc \in Pcs
  BY DEF WorkerType, Pcs
<1>. QED BY <1>1 DEF Stage, Pcs

\* A later stage is further.
LEMMA LaterIsFurther ==
  ASSUME w \in WorkerType, w' \in WorkerType, Stage(w) < Stage(w')
  PROVE  Further(w, w')
BY DEF Further

\* The fields that the stages look at, after the updates the moves make.
LEMMA MovedFields ==
  ASSUME NEW r \in WorkerType
  PROVE  /\ [r EXCEPT !.pc = "status", !.phase = "Failed", !.tries = 0, !.want = 0].phase = "Failed"
         /\ LET n == [r EXCEPT !.tries = @ + 1]
            IN  n.pc = r.pc /\ n.phase = r.phase /\ n.tries = r.tries + 1
BY DEF WorkerType

\* The end is further than any call,
LEMMA FinishFurther ==
  ASSUME TypeOK, w.pc # "idle", Finish
  PROVE  Further(w, w')
<1>1. w \in WorkerType /\ w' \in WorkerType /\ w'.pc = "idle"
  BY FinishType DEF TypeOK, LocalOK
<1>2. Stage(w) \in 1 .. 7 /\ Stage(w) # 7 /\ Stage(w') = 7
  BY <1>1, Stages
<1>. QED BY <1>1, <1>2, LaterIsFurther

\* a failure's report further than the call that failed,
LEMMA ReportFurther ==
  ASSUME TypeOK, w.pc \in {"query", "handle", "apply"}, Report("Failed")
  PROVE  Further(w, w')
<1>1. w \in WorkerType /\ w' \in WorkerType /\ w'.pc = "status"
  BY ReportType DEF TypeOK, LocalOK
<1>2. w'.phase = "Failed"
  BY <1>1, MovedFields, Zenon DEF Report, Goto
<1>3. Stage(w) < Stage(w')
  BY <1>1, <1>2, Stages
<1>. QED BY <1>1, <1>3, LaterIsFurther

\* reading the Deployment back further than applying it,
LEMMA ProceedFurther ==
  ASSUME TypeOK, w.pc = "apply", Proceed
  PROVE  Further(w, w')
<1>1. w \in WorkerType /\ w' \in WorkerType /\ w'.pc = "observe"
  BY ProceedType DEF TypeOK, LocalOK
<1>2. Stage(w) < Stage(w')
  BY <1>1, Stages
<1>. QED BY <1>1, <1>2, LaterIsFurther

\* a retry further than the try before,
LEMMA RetryFurther ==
  ASSUME TypeOK, w.pc \in {"status", "apply"}, MayRetry, Goto([w EXCEPT !.tries = @ + 1])
  PROVE  Further(w, w')
<1>1. w \in WorkerType /\ w.tries \in 0 .. 2
  BY DEF TypeOK, WorkerType
<1>2. w' \in WorkerType /\ w'.pc = w.pc
  BY RetryType DEF LocalOK
<1>3. w'.phase = w.phase /\ w'.tries = w.tries + 1
  BY <1>1, MovedFields, Zenon DEF Goto
<1>4. Stage(w) = Stage(w')
  BY <1>1, <1>2, <1>3, Stages
<1>5. w.tries < w'.tries
  BY <1>1, <1>3
<1>. QED BY <1>4, <1>5 DEF Further

\* and what follows updateStatus further than updateStatus.
LEMMA AfterStatusFurther ==
  ASSUME TypeOK, w.pc = "status", AfterStatus
  PROVE  Further(w, w')
<1>1. w \in WorkerType /\ w.pc # "idle"
  BY DEF TypeOK
<1>2. CASE w.phase = "Processing"
  <2>1. w' = [w EXCEPT !.pc = "query", !.tries = 0]
    BY <1>2, Zenon DEF AfterStatus, Goto
  <2>2. w' \in WorkerType /\ w'.pc = "query"
    BY <1>1, <2>1, QueryUpdate, Zenon DEF Keeps
  <2>3. Stage(w) < Stage(w')
    BY <1>1, <1>2, <2>2, Stages
  <2>. QED BY <1>1, <2>2, <2>3, LaterIsFurther
<1>3. CASE w.phase # "Processing"
  BY <1>1, <1>3, FinishFurther DEF AfterStatus
<1>. QED BY <1>2, <1>3

\* A write of a workload takes the reconcile further, answered or not.
LEMMA AppliedFurther ==
  ASSUME TypeOK, w.pc = "apply", NEW r \in Replies, Applied(r)
  PROVE  Further(w, w')
BY ProceedFurther, ReportFurther DEF Applied

\* The listing takes the cleanup further,
LEMMA ListFurther ==
  ASSUME TypeOK, NEW o \in Listing, ListAgents(o)
  PROVE  Further(w, w')
<1>1. w.pc = "list" /\ w \in WorkerType /\ w' \in WorkerType
  BY ListAgentsStep DEF ListAgents, TypeOK, WorkStep, LocalStep, LocalOK
<1>2. \/ Finish
      \/ \E left : w' = [w EXCEPT !.pc = "purge", !.todo = left]
  BY Zenon DEF ListAgents
<1>3. CASE Finish
  BY <1>1, <1>3, FinishFurther
<1>4. ASSUME NEW left, w' = [w EXCEPT !.pc = "purge", !.todo = left]
      PROVE  Further(w, w')
  <2>1. w'.pc = "purge"
    <3>1. \A r \in WorkerType : [r EXCEPT !.pc = "purge", !.todo = left].pc = "purge"
      BY DEF WorkerType
    <3>. QED BY <1>1, <1>4, <3>1, Zenon
  <2>2. Stage(w) < Stage(w')
    BY <1>1, <2>1, Stages
  <2>. QED BY <1>1, <2>2, LaterIsFurther
<1>. QED BY <1>2, <1>3, <1>4

\* and so does each call about an agent.
LEMMA AdvanceFurther ==
  ASSUME TypeOK, w.pc = "purge", NEW a \in Agents, NEW stage \in {"now", "done"},
         NEW r \in Replies, Advance(a, stage, r), standing' \subseteq Agents,
         AgentStage(w.todo[a]) < AgentStage(stage)
  PROVE  Further(w, w')
<1>1. w \in WorkerType /\ w' \in WorkerType
  BY AdvanceStep DEF TypeOK, LocalStep, LocalOK
<1>2. CASE r = "ok"
  <2>1. w' = [w EXCEPT !.todo[a] = stage]
    BY <1>2, Zenon DEF Advance
  <2>2. /\ w'.pc = w.pc /\ w'.tries = w.tries
        /\ w'.todo = [w.todo EXCEPT ![a] = stage]
    BY <1>1, <2>1 DEF WorkerType
  <2>3. w.todo \in [Agents -> {"done", "enabled", "disabled", "now"}]
    BY <1>1 DEF WorkerType
  <2>4. w'.todo[a] = stage /\ \A b \in Agents \ {a} : w'.todo[b] = w.todo[b]
    BY <2>2, <2>3
  <2>5. Stage(w) = Stage(w')
    BY <1>1, <2>2, Stages
  <2>6. \A s \in {"done", "enabled", "disabled", "now"} : AgentStage(s) \in 1 .. 3
    BY DEF AgentStage
  <2>7. \A b \in Agents : AgentStage(w.todo[b]) <= AgentStage(w'.todo[b])
    BY <2>3, <2>4, <2>6
  <2>. QED BY <2>2, <2>4, <2>5, <2>7 DEF Further
<1>3. CASE r # "ok"
  <2>1. w'.pc = "idle"
    <3>1. w' = IdleWorker
      BY <1>3, Zenon DEF Advance
    <3>. QED BY <3>1 DEF IdleWorker
  <2>2. Stage(w) < Stage(w')
    BY <1>1, <2>1, Stages
  <2>. QED BY <1>1, <2>2, LaterIsFurther
<1>. QED BY <1>2, <1>3

\* The whole cleanup goes forward.
LEMMA PurgeFurther == TypeOK /\ Purge => Further(w, w')
<1> SUFFICES ASSUME TypeOK, Purge PROVE Further(w, w')
  OBVIOUS
<1>1. ASSUME NEW a \in Agents, NEW r \in Replies, DisableAgent(a, r) PROVE Further(w, w')
  <2>1. AgentStage(w.todo[a]) < AgentStage("now")
    BY <1>1 DEF DisableAgent, AgentStage
  <2>. QED BY <1>1, <2>1, AdvanceFurther DEF DisableAgent, history, TypeOK
<1>2. ASSUME NEW a \in Agents, NEW r \in Replies, DeleteAgent(a, r) PROVE Further(w, w')
  <2>1. AgentStage(w.todo[a]) < AgentStage("done")
    BY <1>2 DEF DeleteAgent, AgentStage
  <2>. QED BY <1>2, <2>1, AdvanceFurther DEF DeleteAgent, TypeOK
<1>3. w.pc = "purge"
  BY DEF Purge, DisableAgent, DeleteAgent, AgentMissing, RemoveFinalizer, PodHandled
<1>4. ASSUME NEW a \in Agents, AgentMissing(a) PROVE Further(w, w')
  BY <1>3, <1>4, FinishFurther DEF AgentMissing
<1>5. RemoveFinalizer \/ PodHandled => Further(w, w')
  BY <1>3, FinishFurther DEF RemoveFinalizer, PodHandled
<1>. QED BY <1>1, <1>2, <1>4, <1>5 DEF Purge

\* So do the calls of the main path up to the workload,
LEMMA MainFurther ==
  ASSUME TypeOK, QueryQueue \/ Handle \/ Observe
  PROVE  Further(w, w')
<1>1. w \in WorkerType
  BY DEF TypeOK
<1>2. w' \in WorkerType
  BY QueryQueueStep, HandleStep, ObserveStep DEF WorkStep, LocalStep, LocalOK
<1>3. CASE QueryQueue
  <2>0. w.pc = "query"
    BY <1>3 DEF QueryQueue
  <2>1. \/ Report("Failed")
        \/ \E x : w' = [w EXCEPT !.pc = "handle", !.cr = x]
    BY <1>3, Zenon DEF QueryQueue, Goto
  <2>2. ASSUME NEW x, w' = [w EXCEPT !.pc = "handle", !.cr = x] PROVE Further(w, w')
    <3>1. \A r \in WorkerType : [r EXCEPT !.pc = "handle", !.cr = x].pc = "handle"
      BY DEF WorkerType
    <3>2. w'.pc = "handle"
      BY <1>1, <2>2, <3>1, Zenon
    <3>3. Stage(w) < Stage(w')
      BY <1>1, <1>2, <2>0, <3>2, Stages
    <3>. QED BY <1>1, <1>2, <3>3, LaterIsFurther
  <2>. QED BY <2>0, <2>1, <2>2, ReportFurther
<1>4. CASE Handle
  <2>0. w.pc = "handle"
    BY <1>4 DEF Handle
  <2>1. \/ Report("Failed")
        \/ \E n : w' = [w EXCEPT !.pc = "apply", !.want = n]
    BY <1>4, Zenon DEF Handle, Goto
  <2>2. ASSUME NEW n, w' = [w EXCEPT !.pc = "apply", !.want = n] PROVE Further(w, w')
    <3>1. \A r \in WorkerType : [r EXCEPT !.pc = "apply", !.want = n].pc = "apply"
      BY DEF WorkerType
    <3>2. w'.pc = "apply"
      BY <1>1, <2>2, <3>1, Zenon
    <3>3. Stage(w) < Stage(w')
      BY <1>1, <1>2, <2>0, <3>2, Stages
    <3>. QED BY <1>1, <1>2, <3>3, LaterIsFurther
  <2>. QED BY <2>0, <2>1, <2>2, ReportFurther
<1>5. CASE Observe
  <2>0. w.pc = "observe"
    BY <1>5 DEF Observe
  <2>1. \E x : w' = [w EXCEPT !.pc = "status", !.phase = "Ready", !.cr = x]
    BY <1>5, Zenon DEF Observe, Goto
  <2>2. PICK x : w' = [w EXCEPT !.pc = "status", !.phase = "Ready", !.cr = x]
    BY <2>1
  <2>3. \A r \in WorkerType : LET n == [r EXCEPT !.pc = "status", !.phase = "Ready", !.cr = x]
                              IN  n.pc = "status" /\ n.phase = "Ready"
    BY DEF WorkerType
  <2>4. w'.pc = "status" /\ w'.phase = "Ready"
    BY <1>1, <2>2, <2>3, Zenon
  <2>5. Stage(w) < Stage(w')
    BY <1>1, <1>2, <2>0, <2>4, Stages
  <2>. QED BY <1>1, <1>2, <2>5, LaterIsFurther
<1>. QED BY <1>3, <1>4, <1>5

\* the writes of workloads, refused ones too,
LEMMA ApplyFurther ==
  ASSUME TypeOK, \/ \E r \in Replies : CreateWorkload(r) \/ UpdateDeployment(r)
                 \/ UpdateDeploymentRefused \/ UpdateJob
  PROVE  Further(w, w')
<1>1. w.pc = "apply"
  BY DEF CreateWorkload, UpdateDeployment, UpdateDeploymentRefused, UpdateJob
<1>2. \/ \E r \in Replies : Applied(r)
      \/ Proceed
      \/ Report("Failed")
      \/ MayRetry /\ Goto([w EXCEPT !.tries = @ + 1])
  BY Zenon DEF CreateWorkload, UpdateDeployment, UpdateDeploymentRefused, UpdateJob
<1>. QED BY <1>1, <1>2, AppliedFurther, ProceedFurther, ReportFurther, RetryFurther

\* and every call there is, whether it works or fails.
LEMMA WorkFurther == TypeOK /\ (Work \/ CallFails) => Further(w, w')
<1> SUFFICES ASSUME TypeOK, Work \/ CallFails PROVE Further(w, w')
  OBVIOUS
<1>1. AddFinalizer => Further(w, w')
  BY FinishFurther DEF AddFinalizer
<1>2. UpdateStatus => Further(w, w')
  <2>1. ASSUME UpdateStatus
        PROVE  w.pc = "status" /\ (AfterStatus \/ (MayRetry /\ Goto([w EXCEPT !.tries = @ + 1])))
    BY <2>1, Zenon DEF UpdateStatus
  <2>. QED BY <2>1, AfterStatusFurther, RetryFurther
<1>3. CallFails => Further(w, w')
  <2>1. w.pc \in {"addFinalizer", "list", "purge"} /\ Finish => Further(w, w')
    BY FinishFurther
  <2>. QED BY <2>1, AfterStatusFurther, ReportFurther DEF CallFails
<1>. QED
  BY <1>1, <1>2, <1>3, ListFurther, PurgeFurther, MainFurther, ApplyFurther DEF Work

(***************************************************************************)
(* Every call of a reconcile, answered or failed, takes it further, and    *)
(* nothing but the end of the process takes it back: no interleaving of    *)
(* users, agents, caches and failures keeps one reconcile going for ever.  *)
(***************************************************************************)
THEOREM ReconcilesAdvance == Spec => ReconcileAdvances
<1> DEFINE A == w.req # None => \/ Further(w, w')
                                \/ w' = w /\ ~Work /\ ~CallFails
                                \/ Crash
<1>1. ASSUME TypeOK, [Next]_vars, w.req # None, ~Crash, ~(Work \/ CallFails)
      PROVE  w' = w
  <2>1. CASE Environment
    BY <1>1, <2>1, EnvironmentLocal
  <2>2. ASSUME NEW d \in CRs, Deliver(d) \/ TimerFires(d) PROVE w' = w
    BY <2>2 DEF Deliver, TimerFires, SyncCR, SyncWorkload
  <2>3. ASSUME NEW d \in CRs, Start(d) PROVE FALSE
    <3>1. w.pc = "idle"
      BY <1>1, <2>3, StartCases
    <3>. QED BY <1>1, <3>1 DEF TypeOK
  <2>4. UNCHANGED vars => w' = w
    BY DEF vars
  <2>. QED BY <1>1, <2>1, <2>2, <2>3, <2>4 DEF Next
<1>2. TypeOK /\ [Next]_vars => [A]_vars
  BY <1>1, WorkFurther
<1>. QED BY <1>2, TypeCorrect, PTL DEF Spec, ReconcileAdvances
=============================================================================
