----------------------------- MODULE MCDirCompare -----------------------------
(* Three paths and three contents: every pair of directories with up to three *)
(* files, among them a copy, a rename with two targets, a swap, and a file   *)
(* whose old content moved while it got a new one.                           *)
EXTENDS DirCompare, TLC

Symmetry == Permutations(Path) \cup Permutations(Hash)
=============================================================================
