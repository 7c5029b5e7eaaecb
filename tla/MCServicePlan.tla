--------------------------- MODULE MCServicePlan ---------------------------
(* ServicePlan for TLC: every graph over four services, and lists that     *)
(* name a requirement twice.                                               *)
EXTENDS ServicePlan, SequencesExt

Sorted == {SetToSortSeq(S, <) : S \in SUBSET Names}
Twice == {<<1, 1>>, <<1, 2, 2>>}
AllLists == Sorted \cup Twice
ShortLists == {<<>>, <<1>>}
=============================================================================
