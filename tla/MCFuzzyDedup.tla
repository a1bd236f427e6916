----------------------------- MODULE MCFuzzyDedup -----------------------------
(* Every tree of up to MaxNodes nodes over contents of three sizes,         *)
(* up to the order in which its nodes were created: classes are named by     *)
(* nodes and filled in node order, nothing else depends on a node's number,   *)
(* so one numbering of each tree is enough.                                  *)
EXTENDS FuzzyDedup

MCContent == {1, 2, 3}
MCSize == [c \in MCContent |-> IF c = 3 THEN 3 ELSE c - 1]

\* breadth first, and the children of a directory by content
Canonical ==
    \A i, j \in Node : i < j =>
        \/ Parent(i) < Parent(j)
        \/ Parent(i) = Parent(j) /\ nodes[i].content <= nodes[j].content
=============================================================================
