------------------------------ MODULE Utilities ------------------------------
(***************************************************************************)
(* The pure functions of controllers/utils/common_utils.go that decide      *)
(* something: the threshold of a batch, and the comparison of lists of      *)
(* pods by which a workload tells whether outcomes are new.                 *)
(*                                                                          *)
(* A PodSummary is reduced to its pod and its verdict; a Go map from pods   *)
(* to values is a set of keys where only the keys matter.                   *)
(***************************************************************************)
EXTENDS Integers, Sequences
LOCAL INSTANCE SequencesExt

-----------------------------------------------------------------------------
(* Percent, in integers of the given width: an int of w bits is one of -bound .. bound - 1, *)
(* where bound is 2^(w - 1)                                                                *)

\* Two's complement: what is kept of n.
Wrapped(n, bound) == ((n + bound) % (2 * bound)) - bound

\* Division of Go: towards zero, where \div rounds down.
Quotient(n, d) == IF n < 0 THEN -((-n) \div d) ELSE n \div d

\* Mutant: a negative result is returned as it is.
PercentUnchecked(value, percent, bound) ==
    IF percent = 0 \/ value = 0 THEN 1
    ELSE IF percent > 100 THEN value
    ELSE Quotient(Wrapped(value * percent, bound), 100)

\* The quotient may be 0 or, after an overflow, more than the value itself.
Percent(value, percent, bound) ==
    IF percent = 0 \/ value = 0 THEN 1
    ELSE IF percent > 100 THEN value
    ELSE LET result == Quotient(Wrapped(value * percent, bound), 100)
         IN IF result < 0 THEN 1 ELSE result

-----------------------------------------------------------------------------
(* Lists of pods *)

Lists(list, pod) == \E i \in DOMAIN list : list[i].pod = pod

\* The first summary of each pod that still exists, in the order of the list.
RemoveDuplicatePod(arr, podMap) ==
    LET AppendNew(unique, v) ==
            IF v.pod \in podMap /\ ~Lists(unique, v.pod) THEN Append(unique, v) ELSE unique
    IN FoldLeft(AppendNew, <<>>, arr)

\* What a map filled from the list holds for the pod: the last summary wins.
Mapped(list, pod) ==
    list[CHOOSE i \in DOMAIN list :
            list[i].pod = pod /\ \A j \in DOMAIN list : list[j].pod = pod => j <= i]

\* Only the first map is walked: the keys of the second are not.
IsPodSummarySliceEqual(a, b) ==
    /\ Len(a) = Len(b)
    /\ \A i \in DOMAIN a : /\ Lists(b, a[i].pod)
                           /\ Mapped(b, a[i].pod) = Mapped(a, a[i].pod)

-----------------------------------------------------------------------------
(* Reference definitions *)

IsDuplicateFree(list) ==
    \A i, j \in DOMAIN list : list[i].pod = list[j].pod => i = j

Summaries(list) == {list[i] : i \in DOMAIN list}

\* What is left is duplicate free, is part of the list, and names its existing pods.
Deduplicates(arr, podMap) ==
    LET unique == RemoveDuplicatePod(arr, podMap)
    IN /\ IsDuplicateFree(unique)
       /\ Summaries(unique) \subseteq Summaries(arr)
       /\ {s.pod : s \in Summaries(unique)} = {s.pod : s \in Summaries(arr)} \cap podMap

\* On lists without duplicates, as RemoveDuplicatePod returns them, the comparison is
\* that of the sets of their summaries.
ComparesAsSets(a, b) ==
    IsDuplicateFree(a) /\ IsDuplicateFree(b) =>
        (IsPodSummarySliceEqual(a, b) <=> Summaries(a) = Summaries(b))

\* As long as the product fits, a threshold is at most the value, and never negative.
PercentInRange(value, percent, bound) ==
    LET threshold == Percent(value, percent, bound)
    IN /\ threshold >= 0
       /\ value >= 0 /\ Wrapped(value * percent, bound) = value * percent
             => threshold <= IF value = 0 THEN 1 ELSE value
=============================================================================
