--------------------------------- MODULE Lists ---------------------------------
(***************************************************************************)
(* The loops with which the program takes a list apart: "for each element, *)
(* if it is wanted, append it to the result".  SequencesExt's SelectSeq    *)
(* says the same of a predicate; a set of wanted elements instead of an    *)
(* operator makes it something that can be proved about (ListTheorems).    *)
(***************************************************************************)
EXTENDS Naturals, Sequences, FiniteSets, SequencesExt

\* The elements of s that are in S, in their order.
Keep(s, S) ==
    LET kept[i \in 0..Len(s)] ==
            IF i = 0 THEN <<>>
            ELSE IF s[i] \in S THEN Append(kept[i - 1], s[i]) ELSE kept[i - 1]
    IN  kept[Len(s)]

\* The elements of s, each once, in the order in which they first come.
Distinct(s) ==
    LET first == {i \in 1..Len(s) : \A j \in 1..(i - 1) : s[j] # s[i]}
        at == Keep([i \in 1..Len(s) |-> i], first)
    IN  [k \in 1..Len(at) |-> s[at[k]]]
=============================================================================
