----------------------------- MODULE MCAgentPod -----------------------------
(***************************************************************************)
(* Values for the constants of AgentPod: one CR with dind and its agents.  *)
(***************************************************************************)
EXTENDS AgentPod

OneCR == {"ci"}
BothKinds == {"Deployment", "Jobs"}
OwnerIsCI(a) == "ci"
=============================================================================
