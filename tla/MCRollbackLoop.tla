---------------------------- MODULE MCRollbackLoop ----------------------------
(* Instances of RollbackLoop for TLC. *)
EXTENDS RollbackLoop, TLC

CONSTANTS d1, d2, v1, v2, v3

OneDeployment  == {d1}
TwoDeployments == {d1, d2}
TwoVersions    == {v1, v2}
ThreeVersions  == {v1, v2, v3}
=============================================================================
