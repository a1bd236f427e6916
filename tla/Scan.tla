-------------------------------- MODULE Scan --------------------------------
(***************************************************************************)
(* What a ScanProcessor (scanner.h) may rely on, whichever scanner calls    *)
(* it: the root is announced first, every other directory and every file    *)
(* once and below a directory that has been announced before.               *)
(*                                                                         *)
(* A path may be announced as a directory and as a file: a cache may hold   *)
(* rows from a time when the one was the other.                             *)
(***************************************************************************)
EXTENDS Naturals

CONSTANT None       \* the parent of a root

VARIABLE reported   \* how often each [kind, path, parent] has been announced

Known == DOMAIN reported
Directories == {e \in Known : e.kind # "file"}

\* Whether a call is due: a root, or an entry of a known directory
Acceptable(e) ==
    IF Known = {}
    THEN e.kind = "root" /\ e.parent = None
    ELSE /\ e.kind \in {"dir", "file"}
         /\ \E d \in Directories : d.path = e.parent
         /\ \A other \in IF e.kind = "file" THEN Known \ Directories
                                            ELSE Directories :
                other.path # e.path

Init == reported = <<>>

\* One callback, with an entry that has not been reported before
Call ==
    \E e \in DOMAIN reported' \ Known :
        /\ Acceptable(e)
        /\ reported' = [known \in Known \cup {e} |->
                            IF known = e THEN 1 ELSE reported[known]]

Next == Call

Spec == Init /\ [][Next]_reported
=============================================================================
