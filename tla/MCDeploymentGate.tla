--------------------------- MODULE MCDeploymentGate ---------------------------
(* Instances of DeploymentGate for TLC. *)
EXTENDS DeploymentGate, TLC

CONSTANTS v1, v2, v3

TwoVersions   == {v1, v2}
ThreeVersions == {v1, v2, v3}
=============================================================================
