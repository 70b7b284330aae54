--------------------------- MODULE MCChangeWorkload ---------------------------
(* Instances of ChangeWorkload for TLC. *)
EXTENDS ChangeWorkload, MCUtilities, TLC

CONSTANTS p1, p2, p3, w1, w2

TwoPods   == {p1, p2}
ThreePods == {p1, p2, p3}
OnePod    == {p1}
NoPod     == {}
OneWorker == {w1}
TwoWorkers == {w1, w2}

\* Pods and workers are interchangeable; for runs without liveness in which no pod is mortal.
Symmetry == Permutations(TwoPods) \cup Permutations(TwoWorkers)
=============================================================================
