---------------------------- MODULE MCReconciler ----------------------------
(***************************************************************************)
(* Values for the constants of Reconciler, and the properties of the       *)
(* single runs: statements of the repository's documentation and comments. *)
(***************************************************************************)
EXTENDS Implementation

ci == <<"ci">>
web == <<"web">>

NoCRs == {}
OneCR == {ci}
TwoCRs == {ci, web}

\* Two CRs, called "ci" and "ci-x".
cix == <<"ci", "-", "x">>
PrefixCRs == {ci, cix}

x1 == <<"ci", "-", "x1">>
x2 == <<"ci", "-", "x2">>

OneAgent == {x1}
TwoAgents == {x1, x2}
NoAgents == {}
AgentOfCix == {<<"ci", "-", "x", "-", "x1">>}
AgentOfWeb == {<<"web", "-", "x1">>}

small == [min |-> 1, max |-> 3, mode |-> "Deployment", image |-> "v1"]
newImage == [min |-> 1, max |-> 3, mode |-> "Deployment", image |-> "v2"]
asJobs == [min |-> 1, max |-> 3, mode |-> "Jobs", image |-> "v1"]
asJobsV2 == [min |-> 1, max |-> 3, mode |-> "Jobs", image |-> "v2"]
noMode == [min |-> 1, max |-> 10, mode |-> "", image |-> "v1"]

DeploymentSpecs == {small, newImage}
AllSpecs == {small, asJobs, asJobsV2, noMode}
OneSpec == {small}

\* An empty queue, and one that calls for two replicas.
ShortQueues == [c \in CRs |-> {0, 8}]
\* Different pools have lengths that call for different replica counts.
OwnQueues == [c \in CRs |-> IF c = ci THEN {12} ELSE {0}]
EmptyQueues == [c \in CRs |-> {0}]

secretOK == [ns |-> "pat", default |-> "absent", pull |-> TRUE]
\* The token is found in the namespace "default", by getPATToken.
secretNoKey == [ns |-> "nokey", default |-> "pat", pull |-> TRUE]
secretMissing == [ns |-> "absent", default |-> "absent", pull |-> TRUE]

GoodSecret == {secretOK}
SecretsThatChange == {secretOK, secretMissing}
SecretsThatMove == {secretOK, secretMissing, secretNoKey}

-----------------------------------------------------------------------------
(* What comments and documents say of the operator. *)

\* "Calculate next requeue interval based on queue state": once users have come to
\* rest, a CR is reconciled when its timer fires.
TimerPaced == <>[][\A c \in CRs : c \in queue' \ queue => c \in timers]_vars
=============================================================================
