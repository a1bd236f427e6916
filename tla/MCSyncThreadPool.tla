-------------------------- MODULE MCSyncThreadPool --------------------------
(* Two threads and two submitters: the queue holds three tasks, so five     *)
(* tasks let both submitters sleep on a full queue.                         *)
EXTENDS SyncThreadPool, TLC

Symmetry ==
    Permutations(Workers) \cup Permutations(Users) \cup Permutations(Tasks)
=============================================================================
