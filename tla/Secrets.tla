------------------------------- MODULE Secrets -------------------------------
(***************************************************************************)
(* The two places that look for the Secret with the personal access token. *)
(* A Secret of the referenced name may exist in the CR's namespace (field  *)
(* ns) and in the namespace "default" (field default); each is "absent",   *)
(* "nokey" (it exists without the key PAT) or "pat".  The field pull says  *)
(* whether the image pull secret, if the CR references one, is found in    *)
(* either namespace.                                                       *)
(***************************************************************************)

SecretState == {"absent", "nokey", "pat"}

Secrets == [ns : SecretState, default : SecretState, pull : BOOLEAN]

(***************************************************************************)
(* getPATToken succeeds: the namespace's Secret has the key, or, when that *)
(* Secret is missing or lacks the key, the default namespace's one has it. *)
(***************************************************************************)
PATFound(secret) == secret.ns = "pat" \/ secret.default = "pat"

(***************************************************************************)
(* ValidateSecrets succeeds: it falls back to the default namespace only   *)
(* when the namespace has no such Secret.                                  *)
(***************************************************************************)
ValidateSecrets(secret) ==
  /\ IF secret.ns = "absent" THEN secret.default = "pat" ELSE secret.ns = "pat"
  /\ secret.pull
=============================================================================
