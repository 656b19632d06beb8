------------------------- MODULE MCDeploymentRunner -------------------------
(* DeploymentRunner with two versions, two sources and two runs. *)
EXTENDS DeploymentRunner
=============================================================================
