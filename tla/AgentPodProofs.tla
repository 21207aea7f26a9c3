--------------------------- MODULE AgentPodProofs ---------------------------
(***************************************************************************)
(* What the life of a CR promises, and that the agents' pods keep to it,   *)
(* for every set of CRs, agents and kinds of workloads and every bound.    *)
(***************************************************************************)
EXTENDS AgentPod, TLAPS

(***************************************************************************)
(* Lifecycle: a CR that may vanish at once has no workload of its own.     *)
(* The invariant needs that no workload belongs to an incarnation still to *)
(* come: a new CR would find it.                                           *)
(***************************************************************************)
LifecycleInv ==
  /\ phase \in [CRs -> {"absent", "open", "guarded", "deleting"}]
  /\ uid \in [CRs -> Nat]
  /\ work \in [CRs -> [Kinds -> SUBSET Nat]]
  /\ \A c \in CRs, k \in Kinds : \A u \in work[c][k] : u <= uid[c]
  /\ OpenHasNoWork

\* A step that leaves the workloads alone and makes no CR open.
LEMMA NotOpened ==
  ASSUME LifecycleInv, NEW c \in CRs, NEW from,
         NEW to \in {"absent", "guarded", "deleting"},
         Becomes(c, from, to), UNCHANGED <<uid, work>>
  PROVE  LifecycleInv'
BY DEF LifecycleInv, Becomes, OpenHasNoWork

\* A new incarnation: what is left of earlier ones is not its own.
LEMMA Created ==
  ASSUME LifecycleInv, NEW c \in CRs, Create(c)
  PROVE  LifecycleInv'
<1>1. /\ phase' = [phase EXCEPT ![c] = "open"] /\ uid' = [uid EXCEPT ![c] = uid[c] + 1]
      /\ work' = work
  BY DEF Create, Becomes
<1>2. uid[c] \in Nat /\ \A k \in Kinds : \A u \in work[c][k] : u \in Nat /\ u <= uid[c]
  BY DEF LifecycleInv
<1>3. /\ uid' \in [CRs -> Nat] /\ uid'[c] = uid[c] + 1
      /\ \A d \in CRs : d # c => uid'[d] = uid[d] /\ phase'[d] = phase[d]
      /\ phase' \in [CRs -> {"absent", "open", "guarded", "deleting"}]
  BY <1>1, <1>2 DEF LifecycleInv
<1>4. \A k \in Kinds : \A u \in work[c][k] : u <= uid'[c] /\ u # uid'[c]
  BY <1>2, <1>3
<1>5. ASSUME NEW d \in CRs, NEW k \in Kinds, NEW u \in work'[d][k]
      PROVE  u <= uid'[d]
  BY <1>1, <1>3, <1>4 DEF LifecycleInv
<1>6. ASSUME NEW d \in CRs, NEW k \in Kinds, uid'[d] \in work'[d][k]
      PROVE  phase'[d] # "open"
  BY <1>1, <1>3, <1>4, <1>6 DEF LifecycleInv, OpenHasNoWork
<1>. QED BY <1>1, <1>3, <1>5, <1>6 DEF LifecycleInv, OpenHasNoWork

\* A workload comes or goes.
LEMMA WorkChanged ==
  ASSUME LifecycleInv, NEW c \in CRs, NEW k \in Kinds, Apply(c, k) \/ Collect(c, k)
  PROVE  LifecycleInv'
<1> DEFINE new == IF Apply(c, k) THEN {uid[c]} ELSE {}
<1>1. /\ phase' = phase /\ uid' = uid /\ work' = [work EXCEPT ![c][k] = new]
      /\ new = {} \/ (new = {uid[c]} /\ phase[c] \in {"guarded", "deleting"})
  BY Zenon DEF Apply, Collect, object
<1> HIDE DEF new
<1>2. uid[c] \in Nat /\ uid[c] <= uid[c]
  BY DEF LifecycleInv
<1>3. /\ work' \in [CRs -> [Kinds -> SUBSET Nat]] /\ work'[c][k] = new
      /\ \A d \in CRs, j \in Kinds : <<d, j>> # <<c, k>> => work'[d][j] = work[d][j]
  BY <1>1, <1>2 DEF LifecycleInv
<1>. QED BY <1>1, <1>2, <1>3 DEF LifecycleInv, OpenHasNoWork

\* Every step of Lifecycle.
LEMMA LifecycleStep == LifecycleInv /\ [Next]_vars => LifecycleInv'
<1> SUFFICES ASSUME LifecycleInv, [Next]_vars PROVE LifecycleInv'
  OBVIOUS
<1>1. ASSUME UNCHANGED <<object, work>> PROVE LifecycleInv'
  BY <1>1 DEF LifecycleInv, OpenHasNoWork, object
<1>2. ASSUME NEW c \in CRs, Create(c) PROVE LifecycleInv'
  BY <1>2, Created
<1>3. ASSUME NEW c \in CRs, Vanish(c) \/ Guard(c) \/ Delete(c) \/ Release(c)
      PROVE  LifecycleInv'
  BY <1>3, NotOpened DEF Vanish, Guard, Delete, Release
<1>4. ASSUME NEW c \in CRs, NEW k \in Kinds, Apply(c, k) \/ Collect(c, k)
      PROVE  LifecycleInv'
  BY <1>4, WorkChanged
<1>5. ASSUME NEW c \in CRs, List(c) PROVE LifecycleInv'
  BY <1>1, <1>5 DEF List
<1>6. CASE Abandon
  BY <1>1, <1>6 DEF Abandon
<1>7. ASSUME NEW a \in Agents, Register(a) \/ Leave(a) PROVE LifecycleInv'
  BY <1>1, <1>7 DEF Register, Leave
<1>8. CASE UNCHANGED vars
  BY <1>1, <1>8 DEF vars
<1>. QED BY <1>2, <1>3, <1>4, <1>5, <1>6, <1>7, <1>8 DEF Next

\* A CR that may vanish at once, without a cleanup, has no workload of its own: so the
\* abstract specification promises to users.
THEOREM LifecycleGuards == Spec => []OpenHasNoWork
<1>1. Init => LifecycleInv
  BY DEF Init, LifecycleInv, OpenHasNoWork
<1>2. LifecycleInv => OpenHasNoWork
  BY DEF LifecycleInv
<1>. QED BY <1>1, <1>2, LifecycleStep, PTL DEF Spec

-----------------------------------------------------------------------------
(***************************************************************************)
(* The pods.                                                               *)
(***************************************************************************)
Places == {"none", "starting", "serving", "removing", "ended", "killed", "gone"}

Pod == [at : Places, kind : Kinds \cup {""}, done : BOOLEAN,
        dind : {"off", "running", "exited"}, dying : BOOLEAN]

\* Where there is no pod there is nothing of one.
Consistent(p) == p.at \in {"none", "gone"} => p \in {NoPod, GonePod}

\* No pod is a pod too.
LEMMA NoPods == /\ NoPod \in Pod /\ GonePod \in Pod /\ Consistent(NoPod) /\ Consistent(GonePod)
                /\ NoPod.at = "none" /\ GonePod.at = "gone"
                /\ NoPod.dind = "off" /\ GonePod.dind = "off"
<1>1. NoPod \in Pod /\ NoPod.at = "none" /\ NoPod.dind = "off"
  BY DEF NoPod, Pod, Places
<1>2. GonePod \in Pod /\ GonePod.at = "gone" /\ GonePod.dind = "off"
  BY DEF NoPod, GonePod, Pod, Places
<1>. QED BY <1>1, <1>2 DEF Consistent

\* What the type invariant says of a pod, and what a step has to show.
LEMMA PodTypeParts ==
  PodTypeOK <=> /\ pods \in [Agents -> Pod] /\ \A a \in Agents : Consistent(pods[a])
                /\ reachable \in BOOLEAN /\ mishaps \in 0 .. MaxMishaps
                /\ pool \subseteq Agents /\ standing \subseteq pool
BY Zenon DEF PodTypeOK, Pod, Places, Consistent

\* One pod changes.
LEMMA OnePodChanges ==
  ASSUME PodTypeOK, NEW a \in Agents, NEW p \in Pod, Consistent(p),
         pods' = [pods EXCEPT ![a] = p],
         reachable' \in BOOLEAN, mishaps' \in 0 .. MaxMishaps,
         pool' \subseteq Agents, standing' \subseteq pool'
  PROVE  PodTypeOK'
<1>1. pods' \in [Agents -> Pod] /\ \A b \in Agents : Consistent(pods'[b])
  BY PodTypeParts
<1>2. \A b \in Agents : pods'[b].at \in {"none", "gone"} => pods'[b] \in {NoPod, GonePod}
  BY <1>1 DEF Consistent
<1>. QED BY <1>1, <1>2, Zenon DEF PodTypeOK, Pod, Places

\* The bound on mishaps.
LEMMA MishapType ==
  ASSUME PodTypeOK, Mishap \/ UNCHANGED mishaps
  PROVE  mishaps' \in 0 .. MaxMishaps
BY PodTypeParts, PodAssumption DEF Mishap

\* What a pod does to the pool is what Lifecycle allows.
LEMMA RegisteredStep ==
  ASSUME PodTypeOK, NEW a \in Agents, NEW r \in {pool, pool \cup {a}, pool \ {a}},
         Registered(r)
  PROVE  [Next]_vars /\ pool' \subseteq Agents /\ standing' \subseteq pool'
<1>1. pool \subseteq Agents /\ standing \subseteq pool /\ Owner(a) \in CRs
  BY PodTypeParts, PodAssumption
<1>2. CASE r = pool
  BY <1>1, <1>2 DEF Registered, vars, object, listing
<1>3. CASE r = pool \cup {a}
  <2>1. Register(a)
    BY <1>1, <1>3 DEF Registered, Register, listing
  <2>. QED BY <1>1, <1>3, <2>1 DEF Registered, Next
<1>4. CASE r = pool \ {a}
  <2>1. Leave(a)
    BY <1>1, <1>4 DEF Registered, Leave
  <2>. QED BY <1>1, <1>4, <2>1 DEF Registered, Next
<1>. QED BY <1>2, <1>3, <1>4

\* The agent container goes on to a place where start.sh runs,
LEMMA MovesStep ==
  ASSUME PodTypeOK, NEW a \in Agents, NEW from, NEW to \in {"starting", "serving", "removing"},
         NEW r \in {pool, pool \cup {a}, pool \ {a}},
         Moves(a, from, to, r), Mishap \/ UNCHANGED mishaps
  PROVE  PodTypeOK' /\ [Next]_vars
<1> DEFINE p == [pods[a] EXCEPT !.at = to]
<1>1. pods \in [Agents -> Pod] /\ reachable' \in BOOLEAN
  BY PodTypeParts DEF Moves
<1>2. p \in Pod /\ p.at = to
  <2>1. pods[a] \in Pod /\ to \in Places
    BY <1>1 DEF Places
  <2>. QED BY <2>1 DEF Pod
<1>3. Consistent(p)
  BY <1>2 DEF Consistent
<1>4. pods' = [pods EXCEPT ![a] = p]
  BY <1>1 DEF Moves
<1> HIDE DEF p
<1>5. [Next]_vars /\ pool' \subseteq Agents /\ standing' \subseteq pool'
  BY RegisteredStep DEF Moves
<1>6. mishaps' \in 0 .. MaxMishaps
  BY MishapType
<1>. QED BY <1>1, <1>2, <1>3, <1>4, <1>5, <1>6, OnePodChanges

\* or the shell ends.
LEMMA EndsStep ==
  ASSUME PodTypeOK, NEW a \in Agents, NEW from, NEW r \in {pool, pool \cup {a}, pool \ {a}},
         Ends(a, from, r), Mishap \/ UNCHANGED mishaps
  PROVE  PodTypeOK' /\ [Next]_vars
<1> DEFINE p == [pods[a] EXCEPT !.at = "ended", !.done = TRUE]
<1>1. pods \in [Agents -> Pod] /\ reachable' \in BOOLEAN
  BY PodTypeParts DEF Ends
<1>2. p \in Pod /\ p.at = "ended" /\ p.done
  <2>1. pods[a] \in Pod /\ "ended" \in Places
    BY <1>1 DEF Places
  <2>. QED BY <2>1 DEF Pod
<1>3. Consistent(p)
  BY <1>2 DEF Consistent
<1>4. pods' = [pods EXCEPT ![a] = p]
  BY <1>1 DEF Ends
<1> HIDE DEF p
<1>5. [Next]_vars /\ pool' \subseteq Agents /\ standing' \subseteq pool'
  BY RegisteredStep DEF Ends
<1>6. mishaps' \in 0 .. MaxMishaps
  BY MishapType
<1>. QED BY <1>1, <1>2, <1>3, <1>4, <1>5, <1>6, OnePodChanges

\* The steps that leave the pool alone: the sidecar, the scheduler, a kill, a deletion.
LEMMA AsideStep ==
  ASSUME PodTypeOK, NEW a \in Agents, NEW p \in Pod, Consistent(p),
         pods' = [pods EXCEPT ![a] = p], UNCHANGED <<vars, reachable>>,
         Mishap \/ UNCHANGED mishaps
  PROVE  PodTypeOK' /\ [Next]_vars
<1>1. /\ reachable' \in BOOLEAN /\ mishaps' \in 0 .. MaxMishaps
      /\ pool' \subseteq Agents /\ standing' \subseteq pool'
  BY PodTypeParts, MishapType DEF vars, listing
<1>. QED BY <1>1, OnePodChanges

\* The steps of a pod.
LEMMA PodStepCorrect ==
  ASSUME PodTypeOK, NEW a \in Agents, PodStep(a)
  PROVE  PodTypeOK' /\ [Next]_vars
<1>0. pods \in [Agents -> Pod] /\ pods[a] \in Pod /\ Consistent(pods[a])
  BY PodTypeParts
<1>1. CASE PrepareFails(a) \/ Remove(a)
  BY <1>1, EndsStep DEF PrepareFails, Remove
<1>2. CASE Configure(a) \/ ConfigureFails(a) \/ RunEnds(a) \/ RestartContainer(a)
  BY <1>2, MovesStep DEF Configure, ConfigureFails, RunEnds, RestartContainer
<1>3. CASE DindExits(a) \/ DindRestarts(a)
  <2>1. PICK from \in {"running", "exited"}, to \in {"running", "exited"} : Dind(a, from, to)
    BY <1>3 DEF DindExits, DindRestarts
  <2> DEFINE p == [pods[a] EXCEPT !.dind = to]
  <2>2. p \in Pod /\ p.at = pods[a].at /\ p.done = pods[a].done
    BY <1>0 DEF Pod
  <2>3. pods[a].at \notin {"none", "gone"}
    BY <1>0, <2>1, NoPods DEF Dind, Consistent
  <2>4. Consistent(p)
    BY <1>0, <2>2, <2>3 DEF Consistent
  <2>5. pods' = [pods EXCEPT ![a] = p]
    BY <1>0, <2>1 DEF Dind
  <2> HIDE DEF p
  <2>. QED BY <2>1, <2>2, <2>4, <2>5, AsideStep DEF Dind
<1>4. ASSUME NEW k \in Kinds, Schedule(a, k) PROVE PodTypeOK' /\ [Next]_vars
  <2> DEFINE p == [at |-> "starting", kind |-> k, done |-> FALSE,
                   dind |-> IF Owner(a) \in WithDind THEN "running" ELSE "off", dying |-> FALSE]
  <2>1. p \in Pod /\ p.at = "starting"
    BY DEF Pod, Places
  <2>2. Consistent(p)
    BY <2>1 DEF Consistent
  <2>3. pods' = [pods EXCEPT ![a] = p]
    BY <1>4 DEF Schedule
  <2> HIDE DEF p
  <2>. QED BY <1>4, <2>1, <2>2, <2>3, AsideStep DEF Schedule
<1>5. CASE Killed(a)
  <2>1. PICK d \in {pods[a].done, TRUE} :
          pods' = [pods EXCEPT ![a].at = "killed", ![a].done = d]
    BY <1>5 DEF Killed
  <2> DEFINE p == [pods[a] EXCEPT !.at = "killed", !.done = d]
  <2>2. p \in Pod /\ p.at = "killed"
    BY <1>0 DEF Pod, Places
  <2>3. Consistent(p)
    BY <2>2 DEF Consistent
  <2>4. pods' = [pods EXCEPT ![a] = p]
    BY <1>0, <2>1
  <2> HIDE DEF p
  <2>. QED BY <1>5, <2>2, <2>3, <2>4, AsideStep DEF Killed
<1>6. CASE Terminate(a)
  <2> DEFINE p == [pods[a] EXCEPT !.dying = TRUE]
  <2>1. p \in Pod /\ p.at = pods[a].at /\ p.done = pods[a].done
    BY <1>0 DEF Pod
  <2>2. Consistent(p)
    BY <1>0, <1>6, <2>1 DEF Consistent, Terminate
  <2>3. pods' = [pods EXCEPT ![a] = p]
    BY <1>0, <1>6 DEF Terminate
  <2> HIDE DEF p
  <2>. QED BY <1>6, <2>1, <2>2, <2>3, AsideStep DEF Terminate
<1>7. CASE PodGone(a)
  BY <1>7, NoPods, AsideStep DEF PodGone
<1>. QED BY <1>1, <1>2, <1>3, <1>4, <1>5, <1>6, <1>7 DEF PodStep, Script

\* The pods stay as they are.
LEMMA PodsStay ==
  ASSUME PodTypeOK, UNCHANGED pods, reachable' \in BOOLEAN, mishaps' \in 0 .. MaxMishaps,
         pool' \subseteq Agents, standing' \subseteq pool'
  PROVE  PodTypeOK'
BY DEF PodTypeOK

\* The operator, users and the garbage collector.
LEMMA OperatorStep ==
  ASSUME PodTypeOK,
         \/ Operator /\ UNCHANGED <<pods, reachable, mishaps>>
         \/ \E c \in CRs, k \in Kinds : CollectWork(c, k)
  PROVE  PodTypeOK' /\ [Next]_vars
<1>1. Next /\ UNCHANGED <<pods, reachable, mishaps>>
  BY DEF Operator, CollectWork, Cleanup, Next
<1>2. pool \subseteq Agents /\ standing \subseteq pool
  BY PodTypeParts
<1>3. pool' \subseteq Agents /\ standing' \subseteq pool'
  <2>1. ASSUME NEW a \in Agents, Cleanup(a) PROVE pool' \subseteq Agents /\ standing' \subseteq pool'
    BY <1>2, <2>1 DEF Cleanup, Leave, Forget
  <2>2. ASSUME NEW c \in CRs, List(c) PROVE pool' \subseteq Agents /\ standing' \subseteq pool'
    BY <1>2, <2>2 DEF List
  <2>3. ASSUME NEW c \in CRs,
               \/ Create(c) \/ Vanish(c) \/ Guard(c) \/ Delete(c) \/ Release(c)
               \/ \E k \in Kinds : Apply(c, k) \/ Collect(c, k)
        PROVE  pool' \subseteq Agents /\ standing' \subseteq pool'
    BY <1>2, <2>3
    DEF Create, Vanish, Guard, Delete, Release, Apply, Collect, Forget, listing
  <2>4. CASE Abandon
    BY <1>2, <2>4 DEF Abandon, Forget
  <2>. QED BY <2>1, <2>2, <2>3, <2>4 DEF Operator, CollectWork
<1>. QED BY <1>1, <1>3, PodsStay, PodTypeParts

\* Every step.
LEMMA PodNextStep == PodTypeOK /\ [PodNext]_podvars => PodTypeOK' /\ [Next]_vars
<1> SUFFICES ASSUME PodTypeOK, [PodNext]_podvars PROVE PodTypeOK' /\ [Next]_vars
  OBVIOUS
<1>1. ASSUME UNCHANGED <<vars, pods>>, reachable' \in BOOLEAN, Mishap \/ UNCHANGED mishaps
      PROVE  PodTypeOK' /\ [Next]_vars
  <2>1. pool' \subseteq Agents /\ standing' \subseteq pool'
    BY <1>1, PodTypeParts DEF vars, listing
  <2>. QED BY <1>1, <2>1, PodsStay, MishapType
<1>2. CASE Outage \/ Recover
  BY <1>1, <1>2 DEF Outage, Recover
<1>3. CASE UNCHANGED podvars
  BY <1>1, <1>3, PodTypeParts DEF podvars
<1>. QED BY <1>2, <1>3, OperatorStep, PodStepCorrect DEF PodNext

\* The pods and what surrounds them have their types; no agent of a listing is there
\* that is not registered.
THEOREM PodTypeCorrect == PodSpec => []PodTypeOK
<1>1. PodInit => PodTypeOK
  <2> SUFFICES ASSUME PodInit PROVE PodTypeOK
    OBVIOUS
  <2>1. pods \in [Agents -> Pod] /\ \A a \in Agents : pods[a] = NoPod
    BY NoPods DEF PodInit
  <2>2. /\ reachable \in BOOLEAN /\ mishaps \in 0 .. MaxMishaps
        /\ pool \subseteq Agents /\ standing \subseteq pool
    BY PodAssumption DEF PodInit, Init
  <2>. QED BY <2>1, <2>2, NoPods, PodTypeParts
<1>. QED BY <1>1, PodNextStep, PTL DEF PodSpec

(***************************************************************************)
(* The pods keep to Lifecycle: whatever becomes of a container, all that   *)
(* it does to the pool is to register itself or to leave.                  *)
(***************************************************************************)
THEOREM PodsKeepLifecycle == PodSpec => Spec
<1>1. PodInit => Init
  BY DEF PodInit
<1>. QED BY <1>1, PodTypeCorrect, PodNextStep, PTL DEF PodSpec, Spec

\* What Lifecycle promises holds with the pods as well.
THEOREM PodsOfOpenCRs == PodSpec => []OpenHasNoWork
BY PodsKeepLifecycle, LifecycleGuards, PTL
=============================================================================
