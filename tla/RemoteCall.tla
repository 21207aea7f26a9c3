----------------------------- MODULE RemoteCall -----------------------------
(***************************************************************************)
(* Calls to a remote service, one after the other, as their caller may     *)
(* think of them: a call ends with success only if it has taken effect,    *)
(* with an error whether it has or not, and after an error it may still    *)
(* take effect.                                                            *)
(*                                                                         *)
(* This is how Reconciler looks at the calls that change Azure DevOps: a   *)
(* reply "ok", a reply that is lost, a call that fails, and an agent that  *)
(* disappears by itself.                                                   *)
(***************************************************************************)
VARIABLES stage,   \* "idle", "open", "ok" or "error"
          effect   \* whether the call, or the last one, has taken effect

Init == stage = "idle" /\ effect = FALSE

\* The next call comes only after a success.
Begin == stage \in {"idle", "ok"} /\ stage' = "open" /\ effect' = FALSE

TakeEffect == stage # "idle" /\ effect' = TRUE /\ UNCHANGED stage

Succeed == stage = "open" /\ effect /\ stage' = "ok" /\ UNCHANGED effect
Fail == stage = "open" /\ stage' = "error" /\ UNCHANGED effect

Next == Begin \/ TakeEffect \/ Succeed \/ Fail

vars == <<stage, effect>>

\* A call that has begun ends.
Spec == Init /\ [][Next]_vars /\ WF_vars(Succeed \/ Fail)
=============================================================================
