----------------------------- MODULE MCUtilities -----------------------------
(* The functions of Utilities against their reference definitions, over bounded inputs. *)
EXTENDS Utilities

\* Every list of at most three summaries of two pods.
SomeSummaries == [pod : {"a", "b"}, verdict : {"PASS", "FAIL"}]
SomeLists     == UNION {[1 .. n -> SomeSummaries] : n \in 0 .. 3}

ASSUME PercentBounds ==
    \A v \in 0 .. 20, percent \in -511 .. 511 : PercentInRange(v, percent, 512)

ASSUME DuplicatesRemoved ==
    \A list \in SomeLists, pods \in SUBSET {"a", "b"} : Deduplicates(list, pods)

ASSUME ComparisonOfSets ==
    \A a, b \in SomeLists : ComparesAsSets(a, b)

\* On lists that name a pod twice the comparison depends on the order of its arguments.
ASSUME ComparisonIsOneSided ==
    \E a, b \in SomeLists : IsPodSummarySliceEqual(a, b) /\ ~IsPodSummarySliceEqual(b, a)
=============================================================================
