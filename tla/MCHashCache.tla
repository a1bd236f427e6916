----------------------------- MODULE MCHashCache -----------------------------
(* Two threads, two paths and two inodes: hard links, or one inode per path, *)
(* or a path that moves to the other inode.  Two changes of files; contents  *)
(* that differ in size or, at the same size, in every block.                 *)
EXTENDS HashCache, TLC

CONSTANTS a, b

MCContents == {<<>>, <<a, a>>, <<b, b>>}

Symmetry == Permutations(Paths) \cup Permutations(Inodes)
            \cup Permutations(Workers) \cup Permutations({a, b})
=============================================================================
