------------------------------ MODULE Database ------------------------------
(***************************************************************************)
(* The database library, db_lib.{h,cpp} and db_lib_impl.h, over SQLite:      *)
(* what a statement does to the tables of a file, when SQLite refuses it,    *)
(* and how the rows of a query are read one by one.  Values only: the files, *)
(* locks and transactions of running processes are in Program.tla.           *)
(*                                                                         *)
(* A table is a set of rows [key, val], or Absent.  Removed stands for the   *)
(* tables with a unique path (also NewFile and ContentChanged), RenameTo for *)
(* those with one row per candidate (also OverwrittenBy and CopiedFrom).     *)
(***************************************************************************)
EXTENDS Naturals, SequencesExt

CONSTANT None      \* no row, no value

Absent == {None}    \* a table that does not exist, which no table equals

Tables == {"FileList", "EqClass", "Node", "Removed", "RenameTo"}
ResultTables == {"EqClass", "Node"}
ReportTables == {"Removed", "RenameTo"}
Unique == Tables \ {"RenameTo"}     \* the first column is a key

NewFile == [rows |-> [t \in Tables |-> Absent], damaged |-> {}]

-----------------------------------------------------------------------------
(* Statements *)

Statement(op, table, row) == [op |-> op, table |-> table, row |-> row]

Begin == Statement("begin", None, None)
Commit == Statement("commit", None, None)
Drop(table) == Statement("drop", table, None)       \* DROP TABLE IF EXISTS
Create(table) == Statement("create", table, None)
Prepare(table) == Statement("prepare", table, None)
Insert(table, row) == Statement("insert", table, row)
Update(table, key) == Statement("update", table, key)   \* SET interesting = 1
Select(into) == Statement("select", "FileList", into)

\* A DBOutStream: Prepare, then one Write per row, in some order
OutStream(table, rows) ==
    LET seq == SetToSeq(rows)
    IN  <<Prepare(table)>> \o [i \in DOMAIN seq |-> Insert(table, seq[i])]

Keys(table) == {r.key : r \in table}

\* SQLite refuses a statement because of the schema or of a constraint; the
\* foreign key of Node is enforced (PRAGMA foreign_keys = 1).
Refuses(rows, s) ==
    \/ s.op = "create" /\ rows[s.table] # Absent
    \/ s.op \in {"prepare", "insert", "update"} /\ rows[s.table] = Absent
    \/ /\ s.op = "insert" /\ s.table \in Unique
       /\ s.row.key \in Keys(rows[s.table])
    \/ /\ s.op = "insert" /\ s.table = "Node"
       /\ rows["EqClass"] = Absent \/ s.row.val \notin Keys(rows["EqClass"])
    \/ /\ s.op = "drop" /\ s.table = "EqClass"
       /\ rows["Node"] # Absent /\ rows["EqClass"] # Absent
       /\ \E n \in rows["Node"] : n.val \in Keys(rows["EqClass"])

Marked(table, key) ==
    {IF r.key = key THEN [key |-> key, val |-> <<r.val[1], TRUE>>] ELSE r : r \in table}

\* What a write leaves.  A table that is dropped takes its damage with it.
Apply(db, s) ==
    LET Set(table) == [db.rows EXCEPT ![s.table] = table]
    IN  CASE s.op = "drop" -> [rows |-> Set(Absent), damaged |-> db.damaged \ {s.table}]
          [] s.op = "create" -> [db EXCEPT !.rows = Set({})]
          [] s.op = "insert" -> [db EXCEPT !.rows = Set(db.rows[s.table] \cup {s.row})]
          [] s.op = "update" -> [db EXCEPT !.rows = Set(Marked(db.rows[s.table], s.row))]

-----------------------------------------------------------------------------
(* Reading: a DBInStream keeps the next row in hand, because only a step     *)
(* tells whether there is one, and ends the statement (and its lock) when    *)
(* there is none; a DBInputIt keeps the current one.                         *)

\* DBInStream::Fetch
StreamFetch(c) ==
    IF c.rest = <<>> THEN [c EXCEPT !.next = None, !.locked = FALSE]
    ELSE [c EXCEPT !.next = Head(c.rest), !.rest = Tail(c.rest)]

\* Faulty variant for mutation testing: at the end one row early
BadFetch(c) ==
    IF StreamFetch(c).next = None THEN [c EXCEPT !.atEnd = TRUE]
    ELSE StreamFetch([c EXCEPT !.value = c.next])

\* DBInputIt::Fetch, with Eof and Read of the stream
Fetch(c) ==
    IF c.next = None THEN [c EXCEPT !.atEnd = TRUE]
    ELSE StreamFetch([c EXCEPT !.value = c.next])

\* Query and begin(): the constructors of the stream and of the iterator
OpenQuery(rows) ==
    Fetch(StreamFetch([all |-> rows, got |-> {}, rest |-> SetToSeq(rows),
                       next |-> None, value |-> None,
                       locked |-> TRUE, atEnd |-> FALSE]))

\* One turn of the range-for over a query: *it, then ++it
NextRow(c) == Fetch([c EXCEPT !.got = @ \cup {c.value}])
=============================================================================
