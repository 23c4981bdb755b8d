---------------------------- MODULE MCEvalCampaign ----------------------------
(* Instances of EvalCampaign for TLC: one version with, one without SIG target. *)
EXTENDS EvalCampaign, TLC

CONSTANTS v14, v8

TwoVersions == <<v14, v8>>

\* Everything happens to the first version; the second loses no status write.
FaultsPerVersion == v14 :> FaultKinds @@ v8 :> {"start", "kill", "detach"}
=============================================================================
