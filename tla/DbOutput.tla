------------------------------ MODULE DbOutput ------------------------------
(***************************************************************************)
(* What the program writes to databases: the results of the fuzzy analysis   *)
(* and the report of a comparison (db_output.cpp), the checksum cache        *)
(* (hash_cache.cpp), each as the sequence of its statements.                 *)
(*                                                                         *)
(* A result is [class, interesting], a function from nodes to classes and a  *)
(* set of classes; a node's and a class's id is its address, so different    *)
(* runs may use the same ids.  A report is [lines], a sequence of lines      *)
(* [table, path, candidates]; those for Removed have no candidates.          *)
(***************************************************************************)
EXTENDS Database, Functions, FiniteSets

Row(key, val) == [key |-> key, val |-> val]
NumNodes(res, c) == Cardinality({n \in DOMAIN res.class : res.class[n] = c})
ClassRows(res) == {Row(c, <<NumNodes(res, c), FALSE>>) : c \in Range(res.class)}
NodeRows(res) == {Row(n, res.class[n]) : n \in DOMAIN res.class}

\* Faulty variants for mutation testing: no specification uses them.
BadCreateResultsDatabase ==                   \* the parent is dropped first
    <<Drop("EqClass"), Drop("Node"), Create("EqClass"), Create("Node")>>
BadDumpFuzzyDedupRes(res) ==                  \* a transaction for each table
    <<Begin>> \o OutStream("EqClass", ClassRows(res)) \o <<Commit, Begin>>
              \o OutStream("Node", NodeRows(res)) \o <<Commit>>
BadDirCompDBStream ==                         \* the tables, then a transaction
    <<Drop("Removed"), Drop("RenameTo"), Create("Removed"), Create("RenameTo"), Begin>>
BadPrintLine(line, out) ==                    \* a row for the first candidate only
    LET row == Row(line.path, IF line.candidates = <<>> THEN None ELSE line.candidates[1])
    IN  <<Statement("print", None, line)>>
            \o (IF out THEN <<Insert(line.table, row)>> ELSE <<>>)
BadStoreCksums(cache) ==                      \* without a transaction
    <<Drop("FileList"), Create("FileList")>> \o OutStream("FileList", cache)

CreateResultsDatabase ==
    <<Drop("Node"), Drop("EqClass"), Create("EqClass"), Create("Node")>>

DumpFuzzyDedupRes(res) ==
    <<Begin>> \o OutStream("EqClass", ClassRows(res))
              \o OutStream("Node", NodeRows(res)) \o <<Commit>>

DumpInterestingEqClasses(res) ==
    LET seq == SetToSeq(res.interesting)
    IN  <<Begin, Prepare("EqClass")>>
            \o [i \in DOMAIN seq |-> Update("EqClass", seq[i])]
            \o <<Commit>>

\* The constructor's transaction stays open until DirCompDBStream::Commit.
DirCompDBStream ==
    <<Begin, Drop("Removed"), Drop("RenameTo"), Create("Removed"), Create("RenameTo"),
      Prepare("Removed"), Prepare("RenameTo")>>

\* The rows of a line: its path, or a row per candidate
LineRows(line) ==
    IF line.table = "Removed" THEN {Row(line.path, None)}
    ELSE {Row(line.path, c) : c \in Range(line.candidates)}

\* What a report leaves in a table
RowsIn(table, lines) == UNION {LineRows(l) : l \in {l \in Range(lines) : l.table = table}}

\* CompareOutputStreams: each line goes to stdout, then to the database.
PrintLine(line, out) ==
    LET seq == SetToSeq(LineRows(line))
    IN  <<Statement("print", None, line)>>
            \o (IF out THEN [i \in DOMAIN seq |-> Insert(line.table, seq[i])] ELSE <<>>)

StoreCksums(cache) ==
    <<Drop("FileList"), Create("FileList"), Begin>>
        \o OutStream("FileList", cache) \o <<Commit>>
=============================================================================
