--------------------------- MODULE MCScanDirectory ---------------------------
(* Two workers, so that the queue holds three tasks, and trees with four    *)
(* entries: four files of one directory, one of them empty, fill the queue   *)
(* and one more; nested and sibling directories; a link and a device.       *)
EXTENDS ScanDirectory, TLC

CONSTANTS n1, n2, n3, n4

Tree(k, p) ==
    LET At(s) == n1 :> s[1] @@ n2 :> s[2] @@ n3 :> s[3] @@ n4 :> s[4]
    IN  [kind |-> At(k), parent |-> At(p)]

MCNames == {n1, n2, n3, n4}

MCTrees ==
    { Tree(<<"file", "file", "file", "empty">>, <<Root, Root, Root, Root>>),
      Tree(<<"dir", "dir", "file", "file">>, <<Root, n1, n2, n1>>),
      Tree(<<"dir", "dir", "file", "empty">>, <<Root, Root, n1, n2>>),
      Tree(<<"dir", "link", "other", "file">>, <<Root, Root, n1, n1>>) }
=============================================================================
