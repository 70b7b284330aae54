----------------------------- MODULE MCOpsConfig -----------------------------
(* Instances of OpsConfig for TLC. *)
EXTENDS OpsConfig

CONSTANTS r1

OneReader == {r1}

\* A percentage that leaves nothing of three replicas, a negative one, and one whose
\* product with three replicas overflows ten bits.
SomeCounts == {10, -50, -171}

Three == {3}
=============================================================================
