----------------------------- MODULE MCProgram -----------------------------
(* Two processes, one after the other or at once, on a new file or on what   *)
(* an earlier run has left.  Three results: two with the same ids, one with  *)
(* others.  Two reports, neither a part of the other.                        *)
EXTENDS Program, TLC

CONSTANTS p1, p2, f1, f2, n1, n2, n3, c1, c2, c3

MCProcesses == {p1, p2}
Symmetry == Permutations(MCProcesses)

MCFiles == {Row(f1, None), Row(f2, None)}

MCResults == { None,
    [class |-> n1 :> c1 @@ n2 :> c1, interesting |-> {c1}],
    [class |-> n1 :> c1 @@ n2 :> c2, interesting |-> {c2}],
    [class |-> n3 :> c3, interesting |-> {c3}] }

Line(table, path, candidates) ==
    [table |-> table, path |-> path, candidates |-> candidates]
MCReports ==
    { [lines |-> <<Line("Removed", f1, <<>>), Line("RenameTo", f2, <<f1, f2>>)>>],
      [lines |-> <<Line("RenameTo", f1, <<f2>>)>>] }

Conf(mode, reads, lists, dumps, out) ==
    [mode |-> mode, reads |-> reads, lists |-> lists, dumps |-> dumps, out |-> out]
MCConfs == { Conf("fuzzy", TRUE, FALSE, TRUE, TRUE),
             Conf("fuzzy", FALSE, TRUE, FALSE, TRUE),
             Conf("compare", TRUE, TRUE, FALSE, TRUE),
             Conf("compare", FALSE, FALSE, TRUE, TRUE),
             Conf("cache only", TRUE, FALSE, TRUE, FALSE) }

OldResult == [class |-> n1 :> c2 @@ n3 :> c2, interesting |-> {}]
MCEarlier ==
    { NewFile,
      [rows |-> [t \in Tables |->
                    CASE t = "FileList" -> {Row(f1, None)}
                      [] t = "EqClass" -> ClassRows(OldResult)
                      [] t = "Node" -> NodeRows(OldResult)
                      [] OTHER -> Absent],
       damaged |-> {}] }
=============================================================================
