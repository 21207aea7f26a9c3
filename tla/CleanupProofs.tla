---------------------------- MODULE CleanupProofs ----------------------------
(***************************************************************************)
(* The cleanup of a deleted CR leaves none of its listed agents, and takes *)
(* none of another CR's unless a prefix of names confuses them, for every  *)
(* set of CRs and agents and every bound.                                  *)
(***************************************************************************)
EXTENDS ReconcilerProofs, SequenceTheorems

\* A prefix of a name.
LEMMA PrefixProperties ==
  ASSUME NEW s \in Seq(STRING), NEW m \in Nat, m <= Len(s)
  PROVE  /\ SubSeq(s, 1, m) \in Seq(STRING) /\ Len(SubSeq(s, 1, m)) = m
         /\ \A i \in 1 .. m : SubSeq(s, 1, m)[i] = s[i]
OBVIOUS

\* The prefix of an agent's name with the hyphen is the prefix without it and a hyphen.
LEMMA HyphenatedPrefix ==
  ASSUME NEW s \in Seq(STRING), NEW n \in Nat, n >= 2, n = Len(s), s[n - 1] = "-"
  PROVE  Append(SubSeq(s, 1, n - 2), "-") = SubSeq(s, 1, n - 1)
<1> DEFINE p == SubSeq(s, 1, n - 2)
           q == SubSeq(s, 1, n - 1)
<1>1. p \in Seq(STRING) /\ Len(p) = n - 2 /\ \A i \in 1 .. n - 2 : p[i] = s[i]
  <2>1. n - 2 \in Nat /\ n - 2 <= Len(s)
    OBVIOUS
  <2>. QED BY <2>1, PrefixProperties, Zenon
<1>2. q \in Seq(STRING) /\ Len(q) = n - 1 /\ \A i \in 1 .. n - 1 : q[i] = s[i]
  <2>1. n - 1 \in Nat /\ n - 1 <= Len(s)
    OBVIOUS
  <2>. QED BY <2>1, PrefixProperties, Zenon
<1> HIDE DEF p, q
<1>3. /\ Append(p, "-") \in Seq(STRING) /\ Len(Append(p, "-")) = n - 1
      /\ \A i \in 1 .. n - 1 : Append(p, "-")[i] = IF i <= n - 2 THEN p[i] ELSE "-"
  BY <1>1
<1>4. \A i \in 1 .. n - 1 : Append(p, "-")[i] = q[i]
  BY <1>1, <1>2, <1>3
<1>5. Append(p, "-") = q
  BY <1>2, <1>3, <1>4, SeqEqual
<1>. QED BY <1>5 DEF p, q

\* An agent that is named after the worker's CR has the prefix that the cleanup
\* looks for.
LEMMA OwnAgentsMatch ==
  ASSUME NEW a \in Agents, w.why = "finalizer", Owner(a) = w.req
  PROVE  Matches(a)
<1> DEFINE n == Len(a)
<1>1. a \in Seq(STRING) /\ n \in Nat /\ n >= 2 /\ a[n - 1] = "-"
  BY AgentsAssumption, LenProperties
<1>2. Append(w.req, "-") = SubSeq(a, 1, n - 1)
  BY <1>1, HyphenatedPrefix DEF Owner
<1>3. Len(SubSeq(a, 1, n - 1)) = n - 1
  BY <1>1, PrefixProperties
<1> DEFINE p == Append(w.req, "-")
<1> HIDE DEF n, p
<1>4. Len(p) <= n /\ SubSeq(a, 1, Len(p)) = p
  <2>1. Len(p) = n - 1
    BY <1>2, <1>3 DEF p
  <2>2. n - 1 <= n
    BY <1>1
  <2>. QED BY <1>2, <2>1, <2>2, Zenon DEF p
<1>5. HasPrefix(a, p)
  BY <1>4 DEF HasPrefix, n
<1>. QED BY <1>5 DEF Matches, p

\* While the worker cleans up after a deleted CR, the agents of that CR which are
\* left of its listing are still to be dealt with, and every agent still to be dealt
\* with has the prefix.
Listed ==
  (w.pc = "purge" /\ w.why = "finalizer") =>
    /\ \A a \in standing : Owner(a) = w.req => w.todo[a] # "done"
    /\ \A a \in Remaining : Matches(a)

\* A step on the main path says nothing of a listing,
LEMMA ListedElsewhere == w'.pc # "purge" => Listed'
BY DEF Listed

\* nor does the end of the reconcile.
LEMMA ListedAtRest == w' = IdleWorker => Listed'
<1>1. IdleWorker.pc = "idle"
  BY DEF IdleWorker
<1>. QED BY <1>1, ListedElsewhere

\* Listing the pool.
LEMMA ListAgentsListed ==
  ASSUME IInv, NEW o \in Listing, ListAgents(o)
  PROVE  Listed'
<1>1. w \in WorkerType /\ agents \in [Agents -> {"absent", "enabled", "disabled"}]
  BY DEF IInv, TypeOK
<1>2. CASE PATFound(secret) /\ o = "ok"
  <2> DEFINE left == [a \in Agents |-> IF a \in GetAgentsInPool /\ Matches(a)
                                       THEN agents[a] ELSE "done"]
  <2>1. w' = [w EXCEPT !.pc = "purge", !.todo = left] /\ standing' = GetAgentsInPool
    BY <1>2, Zenon DEF ListAgents
  <2>2. w'.todo = left /\ w'.why = w.why /\ w'.req = w.req
    <3> HIDE DEF left
    <3>. QED BY <1>1, <2>1 DEF WorkerType
  <2>3. ASSUME NEW a \in GetAgentsInPool, Owner(a) = w.req, w.why = "finalizer"
        PROVE  left[a] # "done"
    <3>1. a \in Agents /\ agents[a] # "absent"
      BY DEF GetAgentsInPool
    <3>2. Matches(a)
      BY <2>3, <3>1, OwnAgentsMatch
    <3>. QED BY <1>1, <3>1, <3>2
  <2>4. ASSUME NEW a \in Agents, left[a] # "done", w.why = "finalizer"
        PROVE  Matches(a)'
    <3>1. Matches(a)
      BY <2>4
    <3>. QED BY <2>2, <3>1 DEF Matches
  <2> HIDE DEF left
  <2>. QED BY <2>1, <2>2, <2>3, <2>4 DEF Listed, Remaining
<1>3. CASE ~(PATFound(secret) /\ o = "ok")
  BY <1>3, ListedAtRest, Zenon DEF ListAgents, Finish
<1>. QED BY <1>2, <1>3

\* A call on one agent: it is the next to be deleted, or it has left.
LEMMA AdvanceListed ==
  ASSUME IInv, Listed, w.pc = "purge", NEW a \in Remaining, NEW r \in Replies,
         NEW stage \in {"now", "done"}, Advance(a, stage, r),
         standing' = IF stage = "done" THEN standing \ {a} ELSE standing
  PROVE  Listed'
<1>1. w \in WorkerType /\ standing \subseteq Agents /\ a \in Agents
  BY DEF IInv, TypeOK, Remaining
<1>2. CASE r = "ok"
  <2> DEFINE left == [w.todo EXCEPT ![a] = stage]
  <2>1. w' = [w EXCEPT !.todo = left]
    BY <1>2, Zenon DEF Advance
  <2>2. left[a] = stage /\ \A b \in Agents \ {a} : left[b] = w.todo[b]
    BY <1>1 DEF WorkerType
  <2> HIDE DEF left
  <2>3. w'.todo = left /\ w'.why = w.why /\ w'.req = w.req
    BY <1>1, <2>1 DEF WorkerType
  <2>4. \A b \in Agents : Matches(b)' <=> Matches(b)
    BY <2>3 DEF Matches
  <2>5. Remaining' \subseteq Remaining
    BY <2>2, <2>3 DEF Remaining
  <2>6. \A b \in Remaining : b \in Agents
    BY DEF Remaining
  <2>. QED BY <1>1, <2>2, <2>3, <2>4, <2>5, <2>6 DEF Listed
<1>3. CASE r # "ok"
  BY <1>3, ListedAtRest, Zenon DEF Advance
<1>. QED BY <1>2, <1>3

\* The steps of the running worker.
LEMMA WorkListed ==
  ASSUME IInv, Listed, Work \/ CallFails
  PROVE  Listed'
<1>0. TypeOK
  BY DEF IInv
<1>1. CASE w.pc \in Cleanup
  <2>1. ASSUME NEW o \in Listing, ListAgents(o) PROVE Listed'
    BY <2>1, ListAgentsListed
  <2>2. ASSUME NEW a \in Agents, NEW r \in Replies, DisableAgent(a, r) PROVE Listed'
    BY <2>2, AdvanceListed DEF DisableAgent, Remaining, history
  <2>3. ASSUME NEW a \in Agents, NEW r \in Replies, DeleteAgent(a, r) PROVE Listed'
    BY <2>3, AdvanceListed DEF DeleteAgent, Remaining
  <2>4. CASE Finish
    BY <2>4, ListedAtRest DEF Finish
  <2>. QED
    BY <1>1, <2>1, <2>2, <2>3, <2>4
    DEF Work, Purge, CallFails, Cleanup, AgentMissing, RemoveFinalizer, PodHandled, AddFinalizer,
        UpdateStatus, QueryQueue, Handle, CreateWorkload, UpdateDeployment,
        UpdateDeploymentRefused, UpdateJob, Observe
<1>2. CASE w.pc \notin Cleanup
  <2>1. w'.pc # "purge"
    BY <1>0, <1>2, WorkEffect DEF WorkStep, LocalStep, MovesOn, Ends, Main
  <2>. QED BY <2>1, ListedElsewhere
<1>. QED BY <1>1, <1>2

\* Every step.
LEMMA ListedStep == IInv /\ Listed /\ [Next]_vars => Listed'
<1> SUFFICES ASSUME IInv, Listed, [Next]_vars PROVE Listed'
  OBVIOUS
<1>1. TypeOK
  BY DEF IInv
<1>2. CASE w' = w /\ standing' \subseteq standing
  BY <1>2 DEF Listed, Remaining, Matches
<1>3. CASE Environment
  <2>1. w' = w
    BY <1>1, <1>3, EnvironmentLocal
  <2>2. standing' \subseteq standing
    BY <1>3
    DEF Environment, CreateCR, EditSpec, DeleteCR, UserWrite, SetQueue, PodEvent, UserScale,
        Rollout, JobFinishes, CollectGarbage, ClusterWrite, SetSecret, Register, Deregister,
        history
  <2>. QED BY <1>2, <2>1, <2>2
<1>4. ASSUME NEW c \in CRs, Deliver(c) \/ TimerFires(c) PROVE Listed'
  BY <1>2, <1>4 DEF Deliver, SyncCR, SyncWorkload, TimerFires, history
<1>5. ASSUME NEW c \in CRs, Start(c) PROVE Listed'
  <2>1. w'.pc # "purge"
    BY <1>1, <1>5, StartCases DEF Taken
  <2>. QED BY <2>1, ListedElsewhere
<1>6. CASE Work \/ CallFails
  BY <1>6, WorkListed
<1>7. CASE Crash
  BY <1>7, ListedAtRest DEF Crash, Restart
<1>8. CASE UNCHANGED vars
  BY <1>2, <1>8 DEF vars, history
<1>. QED BY <1>3, <1>4, <1>5, <1>6, <1>7, <1>8 DEF Next

\* It holds initially, and so always.
LEMMA AlwaysListed == Spec => [](IInv /\ Listed)
<1>1. Init => Listed
  <2>1. Init => w = IdleWorker
    BY Zenon DEF Init
  <2>2. IdleWorker.pc = "idle"
    BY DEF IdleWorker
  <2>. QED BY <2>1, <2>2 DEF Listed
<1>. QED BY <1>1, InvInit, InvStep, ListedStep, PTL DEF Spec

\* A CR is let go only with nothing left to do.
LEMMA ReleaseStep ==
  ASSUME IInv, [Next]_vars, released' # released
  PROVE  Releases
<1>1. TypeOK
  BY DEF IInv
<1>2. CASE Work \/ CallFails
  BY <1>1, <1>2, WorkEffect DEF WorkStep, CRStep, Guards, Reports
<1>3. CASE Environment
  BY <1>1, <1>3, EnvironmentEffect
  DEF UserStep, UserWrite, ClusterStep, ClusterWrite, ElsewhereStep, history
<1>4. ASSUME NEW c \in CRs, Deliver(c) \/ TimerFires(c) \/ Start(c) PROVE Releases
  BY <1>1, <1>4, StartCases DEF Deliver, SyncCR, SyncWorkload, TimerFires, history
<1>5. CASE Crash \/ UNCHANGED vars
  BY <1>5 DEF Crash, Restart, vars, history
<1>. QED BY <1>2, <1>3, <1>4, <1>5 DEF Next

(***************************************************************************)
(* When the operator removes a finalizer, no agent of that CR is left      *)
(* which was there when it listed the pool and has been registered ever    *)
(* since: an error, a lost answer or a crash ends the attempt, and the     *)
(* loop passes over no agent whose name begins with the name of the CR.    *)
(***************************************************************************)
THEOREM CleanupIsComplete == Spec => NoAgentSurvivesCleanup
<1> DEFINE A == \A c \in CRs : released'[c] # released[c]
                                 => \A a \in standing : Owner(a) # c
<1>1. IInv /\ Listed /\ [Next]_vars => A
  <2> SUFFICES ASSUME IInv, Listed, [Next]_vars, NEW c \in CRs, released'[c] # released[c],
                      NEW a \in standing, Owner(a) = c
               PROVE  FALSE
    OBVIOUS
  <2>1. Releases
    BY ReleaseStep
  <2>2. w.pc = "purge" /\ w.why = "finalizer" /\ Remaining = {}
        /\ released' = [released EXCEPT ![w.req] = @ \cup {w.cr.uid}]
    BY <2>1, Zenon DEF Releases
  <2>3. c = w.req /\ a \in Agents
    BY <2>2 DEF IInv, TypeOK
  <2>. QED BY <2>2, <2>3 DEF Listed, Remaining
<1>2. IInv /\ Listed /\ [Next]_vars => [A]_vars
  BY <1>1
<1>. QED BY <1>2, AlwaysListed, PTL DEF Spec, NoAgentSurvivesCleanup

\* A step of the worker that takes an agent away takes one of those that its listing
\* left it.
LEMMA RemovalStep ==
  ASSUME TypeOK, [Next]_vars, NEW a \in Agents, w.pc = "purge", w' # w,
         agents[a] # "absent", agents'[a] = "absent"
  PROVE  a \in Remaining
<1>1. ASSUME NEW b \in Agents, NEW r \in Replies, DisableAgent(b, r) PROVE FALSE
  BY <1>1 DEF DisableAgent, TypeOK
<1>2. ASSUME NEW b \in Agents, NEW r \in Replies, DeleteAgent(b, r) PROVE a \in Remaining
  BY <1>2 DEF DeleteAgent, TypeOK, Remaining
<1>3. ASSUME agents' = agents PROVE FALSE
  BY <1>3
<1>4. CASE Environment
  BY <1>4, EnvironmentLocal
<1>5. ASSUME NEW c \in CRs, Deliver(c) \/ TimerFires(c) \/ Start(c) PROVE FALSE
  BY <1>3, <1>5, StartCases DEF Deliver, SyncCR, SyncWorkload, TimerFires, azdo, Taken
<1>6. CASE Work
  BY <1>1, <1>2, <1>3, <1>6
  DEF Work, Purge, AddFinalizer, ListAgents, AgentMissing, RemoveFinalizer, PodHandled,
      UpdateStatus, QueryQueue, Handle, CreateWorkload, UpdateDeployment,
      UpdateDeploymentRefused, UpdateJob, Observe, azdo
<1>7. CASE CallFails \/ Crash \/ UNCHANGED vars
  BY <1>3, <1>7 DEF CallFails, Crash, Restart, vars, azdo
<1>. QED BY <1>4, <1>5, <1>6, <1>7 DEF Next

\* No agent has the prefix of a CR that it is not named after.
NamesApart == \A c \in CRs, a \in Agents : HasPrefix(a, Append(c, "-")) => Owner(a) = c

\* So it is when agents are those of CRs and the name of no CR begins with the name
\* of another one and a hyphen.
LEMMA ApartByName ==
  ASSUME CRs \subseteq Seq(STRING),
         \A c, d \in CRs : ~HasPrefix(d, Append(c, "-")),
         \A a \in Agents : Owner(a) \in CRs /\ a[Len(a)] # "-"
  PROVE  NamesApart
<1> SUFFICES ASSUME NEW c \in CRs, NEW a \in Agents, HasPrefix(a, Append(c, "-"))
             PROVE  Owner(a) = c
  BY DEF NamesApart
<1> DEFINE n == Len(a)
           m == Len(c) + 1
           p == Append(c, "-")
<1>1. a \in Seq(STRING) /\ n \in Nat /\ n >= 2 /\ a[n - 1] = "-"
  BY AgentsAssumption, LenProperties
<1>2. c \in Seq(STRING) /\ m \in Nat /\ m >= 1
  BY LenProperties
<1>3. p \in Seq(STRING) /\ Len(p) = m /\ p[m] = "-" /\ \A i \in 1 .. m - 1 : p[i] = c[i]
  <2>1. p \in Seq(STRING) /\ Len(p) = m
    <3>1. "-" \in STRING
      BY <1>1, ElementOfSeq
    <3>. QED BY <1>2, <3>1, AppendProperties
  <2>2. p[m] = "-"
    BY <1>2
  <2>3. \A i \in 1 .. Len(c) : p[i] = c[i]
    BY <1>2
  <2>. QED BY <1>2, <2>1, <2>2, <2>3
<1>4. m <= n /\ SubSeq(a, 1, m) = p
  BY <1>3, Zenon DEF HasPrefix
<1> HIDE DEF n, m, p
<1>5. p[m] = a[m]
  BY <1>1, <1>2, <1>4, PrefixProperties DEF n
<1>6. CASE m = n
  BY <1>3, <1>5, <1>6 DEF n
<1>7. CASE m = n - 1
  <2> DEFINE o == SubSeq(a, 1, n - 2)
  <2>1. n - 2 \in Nat /\ n - 2 <= n
    BY <1>1
  <2>2. o \in Seq(STRING) /\ Len(o) = n - 2 /\ \A i \in 1 .. n - 2 : o[i] = a[i]
    BY <1>1, <2>1, PrefixProperties, Zenon DEF n
  <2>3. \A i \in 1 .. m : p[i] = a[i]
    BY <1>1, <1>2, <1>4, PrefixProperties DEF n
  <2>4. Len(c) = n - 2
    BY <1>1, <1>2, <1>7, LenProperties DEF m
  <2> HIDE DEF o
  <2>5. \A i \in 1 .. n - 2 : c[i] = o[i]
    BY <1>1, <1>3, <1>7, <2>2, <2>3
  <2>6. c = o
    BY <1>2, <2>2, <2>4, <2>5, SeqEqual
  <2>. QED BY <2>6 DEF o, n, Owner
<1>8. CASE m <= n - 2
  <2> DEFINE o == SubSeq(a, 1, n - 2)
  <2>1. n - 2 \in Nat /\ n - 2 <= n
    BY <1>1
  <2>2. o \in Seq(STRING) /\ Len(o) = n - 2 /\ \A i \in 1 .. n - 2 : o[i] = a[i]
    BY <1>1, <2>1, PrefixProperties, Zenon DEF n
  <2>3. \A i \in 1 .. m : p[i] = a[i]
    BY <1>1, <1>2, <1>4, PrefixProperties DEF n
  <2> HIDE DEF o
  <2>4. /\ SubSeq(o, 1, m) \in Seq(STRING) /\ Len(SubSeq(o, 1, m)) = m
        /\ \A i \in 1 .. m : SubSeq(o, 1, m)[i] = o[i]
    BY <1>2, <1>8, <2>2, PrefixProperties
  <2>5. \A i \in 1 .. m : SubSeq(o, 1, m)[i] = p[i]
    BY <1>1, <1>2, <1>8, <2>2, <2>3, <2>4
  <2>6. SubSeq(o, 1, m) = p
    BY <1>3, <2>4, <2>5, SeqEqual
  <2>7. HasPrefix(o, p)
    BY <1>3, <1>8, <2>2, <2>6 DEF HasPrefix
  <2>8. o \in CRs
    BY DEF o, n, Owner
  <2>. QED BY <2>7, <2>8 DEF p
<1>. QED BY <1>1, <1>2, <1>4, <1>6, <1>7, <1>8

(***************************************************************************)
(* Where no agent has the prefix of a CR that it is not named after, the   *)
(* cleanup of a CR removes agents of that CR only: prefixes are the one    *)
(* cause of the removal of somebody else's agents, with any number of CRs, *)
(* stale caches, crashes and agents that come and go during the cleanup.   *)
(***************************************************************************)
THEOREM CleanupSparesOthers ==
  NamesApart => (Spec => CleansUpOwnAgentsOnly)
<1> DEFINE A == \A a \in Agents :
                  (w.pc = "purge" /\ w.why = "finalizer" /\ w' # w
                     /\ agents[a] # "absent" /\ agents'[a] = "absent") => Owner(a) = w.req
<1> SUFFICES ASSUME NamesApart PROVE Spec => CleansUpOwnAgentsOnly
  OBVIOUS
<1>1. IInv /\ Listed /\ [Next]_vars => A
  <2> SUFFICES ASSUME IInv, Listed, [Next]_vars, NEW a \in Agents,
                      w.pc = "purge", w.why = "finalizer", w' # w,
                      agents[a] # "absent", agents'[a] = "absent"
               PROVE  Owner(a) = w.req
    OBVIOUS
  <2>1. TypeOK
    BY DEF IInv
  <2>2. Matches(a)
    BY <2>1, RemovalStep DEF Listed
  <2>3. w.req \in CRs
    BY <2>1, RequestType
  <2>. QED BY <2>2, <2>3 DEF Matches, NamesApart
<1>2. IInv /\ Listed /\ [Next]_vars => [A]_vars
  BY <1>1
<1>. QED BY <1>2, AlwaysListed, PTL DEF Spec, CleansUpOwnAgentsOnly
=============================================================================
