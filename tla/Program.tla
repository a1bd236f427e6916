------------------------------ MODULE Program ------------------------------
(***************************************************************************)
(* main of dupa.cpp, as far as it can be seen in a database: processes that  *)
(* read a checksum cache (-c), list the files of a database (db:), analyse,  *)
(* write their results (-o) and store the cache (-C), on one SQLite file     *)
(* that may serve all of these and several processes at once.               *)
(*                                                                         *)
(* What a process has still to do in a phase is a script of statements.  A   *)
(* statement is executed, or the process dies of it: nothing retries, no    *)
(* one waits for a lock (there is no busy timeout), and main does not catch  *)
(* DBException, so no destructor is relied on to roll back or to store.      *)
(***************************************************************************)
EXTENDS DbOutput

CONSTANTS Processes,
          Files,    \* the rows of the files a scan may add to the cache
          Results,  \* the possible results of FuzzyDedup; None: no files
          Reports,  \* the possible reports of DirCompare
          Confs,    \* [mode : {"fuzzy", "compare", "cache only"},
                    \*  reads (-c), lists (db:), dumps (-C), out (-o) : BOOLEAN]
          Earlier   \* what earlier runs may have left in the file

ASSUME ConfsAssumption ==
    Confs \subseteq [mode : {"fuzzy", "compare", "cache only"}, reads : BOOLEAN,
                    lists : BOOLEAN, dumps : BOOLEAN, out : BOOLEAN]

\* A row of the cache is told from another by its path; the rest of it is not
\* modelled.
IsFileList(rows) == IsFiniteSet(rows) /\ \A r \in rows : r = Row(r.key, None)

ASSUME FilesAssumption == IsFileList(Files)

ASSUME ResultsAssumption ==
    \A r \in Results \ {None} :
        /\ IsFiniteSet(DOMAIN r.class) /\ r.interesting \subseteq Range(r.class)
        /\ r.class = [n \in DOMAIN r.class |-> r.class[n]]

\* No two lines of a report have the same path for Removed, where the path is
\* a key (DirCompare!OneLinePerPath).
ASSUME ReportsAssumption ==
    \A r \in Reports :
        /\ r.lines \in Seq(Range(r.lines))
        /\ \A i, j \in DOMAIN r.lines :
               /\ r.lines[i].table \in ReportTables
               /\ r.lines[i].candidates \in Seq(Range(r.lines[i].candidates))
               /\ i # j /\ r.lines[i].table = "Removed" /\ r.lines[j].table = "Removed"
                      => r.lines[i].path # r.lines[j].path

\* There are as many nodes of a class as its row says, or, if they may be
\* lost, none; and there is a class for each node.
Fit(rows, lost) ==
    rows["Node"] # Absent =>
        LET classes == IF rows["EqClass"] = Absent THEN {} ELSE rows["EqClass"]
            nodes(c) == {n \in rows["Node"] : n.val = c.key}
        IN  /\ \A c \in classes : \/ Cardinality(nodes(c)) = c.val[1]
                                  \/ nodes(c) = {} /\ lost
            /\ \A n \in rows["Node"] : n.val \in Keys(classes)

\* What earlier runs have left is of the tables of this version; nodes that no
\* death has damaged fit their classes, and a report is whole.
ASSUME EarlierAssumption ==
    \A e \in Earlier :
        /\ e = [rows |-> [t \in Tables |-> e.rows[t]], damaged |-> e.damaged]
        /\ e.damaged \subseteq Tables
        /\ \A t \in Tables : e.rows[t] # Absent =>
               \A r \in e.rows[t] : r = Row(r.key, r.val)
        /\ e.rows["FileList"] # Absent => IsFileList(e.rows["FileList"])
        /\ "Node" \notin e.damaged => Fit(e.rows, TRUE)
        /\ e.damaged \cap ReportTables = {} =>
               \/ \A t \in ReportTables : e.rows[t] = Absent
               \/ \E r \in Reports : \A t \in ReportTables : e.rows[t] = RowsIn(t, r.lines)

ASSUME NoneAssumption ==
    /\ None \notin Processes \cup Files
    /\ \A e \in Earlier : \A t \in Tables : e.rows[t] = Absent \/ None \notin e.rows[t]
    /\ \A e \in Earlier : e.rows["EqClass"] # Absent =>
           \A r \in e.rows["EqClass"] : Row(r.key, <<r.val[1], TRUE>>) # None
    /\ \A r \in Results \ {None} :
           /\ None \notin NodeRows(r)
           /\ \A c \in Range(r.class), b \in BOOLEAN : Row(c, <<NumNodes(r, c), b>>) # None
    /\ \A r \in Reports : \A t \in ReportTables : None \notin RowsIn(t, r.lines)

VARIABLES disk,     \* the committed file: [rows, damaged]
          writer,   \* the process whose transaction has the write lock
          work,     \* the file as that transaction sees it
          phase,    \* of each process: "start", "open", "report", "finalize",
                    \* "exit", "died", "refused"
          conf, script, cursor, cache, result,
          begun,    \* inside BEGIN ... COMMIT
          printed,  \* the lines printed so far
          meddled   \* history: tables another process has changed since this
                    \* one dropped them

file == <<disk, writer, work>>
memory == <<conf, cache, result>>
vars == <<file, phase, memory, script, cursor, begun, printed, meddled>>

Step(p) == Head(script[p])
Todo(p) == phase[p] \in {"open", "report", "finalize"} /\ script[p] # <<>>
View(p) == IF writer = p THEN work ELSE disk

Readers == {p \in Processes : cursor[p] # None /\ cursor[p].locked}

Init ==
    /\ disk \in Earlier
    /\ writer = None /\ work = NewFile
    /\ phase = [p \in Processes |-> "start"]
    /\ conf = [p \in Processes |-> None]
    /\ script = [p \in Processes |-> <<>>]
    /\ cursor = [p \in Processes |-> None]
    /\ cache = [p \in Processes |-> {}]
    /\ result = [p \in Processes |-> None]
    /\ begun = [p \in Processes |-> FALSE]
    /\ printed = [p \in Processes |-> <<>>]
    /\ meddled = [p \in Processes |-> {}]

If(condition, statements) == IF condition THEN statements ELSE <<>>

-----------------------------------------------------------------------------
(* main: from phase to phase *)

\* The Initializer and what precedes the analysis: a comparison opens its
\* transaction before it scans.
Opening(c) ==
    If(c.reads, <<Select("cache")>>)
        \o If(c.mode = "compare" /\ c.out, DirCompDBStream)
        \o If(c.lists, <<Select("listing")>>)

\* ParseArgv; an error of usage or --help end the process before anything.
Start(p) ==
    /\ phase[p] = "start"
    /\ \E c \in Confs :
           /\ conf' = [conf EXCEPT ![p] = c]
           /\ script' = [script EXCEPT ![p] = Opening(c)]
    /\ phase' = [phase EXCEPT ![p] = "open"]
    /\ UNCHANGED <<file, cache, result, cursor, begun, printed, meddled>>

Output(c, r) ==
    CASE c.mode = "fuzzy" ->
             If(c.out /\ r # None, CreateResultsDatabase \o DumpFuzzyDedupRes(r)
                                       \o DumpInterestingEqClasses(r))
      [] c.mode = "compare" ->
             FlattenSeq([i \in DOMAIN r.lines |-> PrintLine(r.lines[i], c.out)])
                 \o If(c.out, <<Commit>>)
      [] c.mode = "cache only" -> <<>>

\* FuzzyDedup, DirCompare or WarmupCache: files are added to the cache, and
\* what is to be reported is known.
Analyse(p) ==
    /\ phase[p] = "open" /\ script[p] = <<>>
    /\ \E scanned \in SUBSET Files :
           cache' = [cache EXCEPT ![p] = @ \cup scanned]
    /\ \E r \in CASE conf[p].mode = "fuzzy" -> Results
                  [] conf[p].mode = "compare" -> Reports
                  [] conf[p].mode = "cache only" -> {None} :
           /\ result' = [result EXCEPT ![p] = r]
           /\ script' = [script EXCEPT ![p] = Output(conf[p], r)]
    /\ phase' = [phase EXCEPT ![p] = "report"]
    /\ UNCHANGED <<file, conf, cursor, begun, printed, meddled>>

\* main leaves its block: ~Initializer, Finalize, ~HashCache
Finalize(p) ==
    /\ phase[p] = "report" /\ script[p] = <<>>
    /\ phase' = [phase EXCEPT ![p] = "finalize"]
    /\ script' = [script EXCEPT ![p] = If(conf[p].dumps, StoreCksums(cache[p]))]
    /\ UNCHANGED <<file, memory, cursor, begun, printed, meddled>>

\* The exit status is 0.
Exit(p) ==
    /\ phase[p] = "finalize" /\ script[p] = <<>>
    /\ phase' = [phase EXCEPT ![p] = "exit"]
    /\ UNCHANGED <<file, memory, script, cursor, begun, printed, meddled>>

-----------------------------------------------------------------------------
(* Statements *)

Done(p) == script' = [script EXCEPT ![p] = Tail(@)]
Writes(s) == s.op \in {"drop", "create", "insert", "update"}

Dropped(p) == IF Step(p).op = "drop" THEN {Step(p).table} ELSE {}

\* The history when p writes db to the file
Meddled(p, db, dropped) ==
    [q \in Processes |->
        IF q = p THEN meddled[q] \ dropped
        ELSE meddled[q] \cup {t \in Tables : db.rows[t] # disk.rows[t]}]

Publish(p, db) == disk' = db /\ meddled' = Meddled(p, db, {})

\* DBTransaction's constructor.  SQLite takes no lock yet.
BeginTransaction(p) ==
    /\ Todo(p) /\ Step(p).op = "begin" /\ ~begun[p]
    /\ begun' = [begun EXCEPT ![p] = TRUE]
    /\ Done(p)
    /\ UNCHANGED <<file, phase, memory, cursor, printed, meddled>>

\* A write outside a transaction is committed at once: no one may have the
\* write lock or be reading.
Autocommit(p) ==
    /\ Todo(p) /\ Writes(Step(p)) /\ ~begun[p]
    /\ writer = None /\ Readers = {}
    /\ ~Refuses(disk.rows, Step(p))
    /\ disk' = Apply(disk, Step(p))
    /\ meddled' = Meddled(p, disk', Dropped(p))
    /\ Done(p)
    /\ UNCHANGED <<writer, work, phase, memory, cursor, begun, printed>>

\* The first write of a transaction takes the write lock.
WriteInTransaction(p) ==
    /\ Todo(p) /\ Writes(Step(p)) /\ begun[p]
    /\ writer \in {None, p}
    /\ ~Refuses(View(p).rows, Step(p))
    /\ work' = Apply(View(p), Step(p))
    /\ writer' = p
    /\ meddled' = [meddled EXCEPT ![p] = @ \ Dropped(p)]
    /\ Done(p)
    /\ UNCHANGED <<disk, phase, memory, cursor, begun, printed>>

\* Faulty variant for mutation testing: ongoing_ is not reset
BadCommitTransaction(p) ==
    /\ Todo(p) /\ Step(p).op = "commit" /\ begun[p]
    /\ writer = p /\ Readers = {} /\ Publish(p, work)
    /\ writer' = None /\ work' = NewFile
    /\ Done(p)
    /\ UNCHANGED <<phase, memory, cursor, begun, printed>>

\* DBTransaction::Commit
CommitTransaction(p) ==
    /\ Todo(p) /\ Step(p).op = "commit" /\ begun[p]
    /\ IF writer = p
       THEN Readers = {} /\ Publish(p, work) /\ writer' = None /\ work' = NewFile
       ELSE UNCHANGED <<file, meddled>>
    /\ begun' = [begun EXCEPT ![p] = FALSE]
    /\ Done(p)
    /\ UNCHANGED <<phase, memory, cursor, printed>>

PrepareStmt(p) ==
    /\ Todo(p) /\ Step(p).op = "prepare"
    /\ ~Refuses(View(p).rows, Step(p))
    /\ Done(p)
    /\ UNCHANGED <<file, phase, memory, cursor, begun, printed, meddled>>

PrintToStdout(p) ==
    /\ Todo(p) /\ Step(p).op = "print"
    /\ printed' = [printed EXCEPT ![p] = Append(@, Step(p).row)]
    /\ Done(p)
    /\ UNCHANGED <<file, phase, memory, cursor, begun, meddled>>

\* ReadCacheFromDb, on a connection of its own
BeginRead(p) ==
    /\ Todo(p) /\ Step(p).op = "select" /\ cursor[p] = None
    /\ disk.rows["FileList"] # Absent
    /\ cursor' = [cursor EXCEPT ![p] = OpenQuery(disk.rows["FileList"])]
    /\ UNCHANGED <<file, phase, memory, script, begun, printed, meddled>>

ReadRow(p) ==
    /\ cursor[p] # None /\ ~cursor[p].atEnd
    /\ cursor' = [cursor EXCEPT ![p] = NextRow(@)]
    /\ UNCHANGED <<file, phase, memory, script, begun, printed, meddled>>

\* HashCache's constructor swaps the cache in once it is complete.
EndRead(p) ==
    /\ cursor[p] # None /\ cursor[p].atEnd
    /\ cache' = IF Step(p).row = "cache"
                THEN [cache EXCEPT ![p] = cursor[p].got] ELSE cache
    /\ cursor' = [cursor EXCEPT ![p] = None]
    /\ Done(p)
    /\ UNCHANGED <<file, phase, conf, result, begun, printed, meddled>>

-----------------------------------------------------------------------------
\* SQLite refuses the next write because of the schema or a constraint.
Refused(p) ==
    /\ Todo(p)
    /\ \/ Step(p).op # "select" /\ Refuses(View(p).rows, Step(p))
       \/ Step(p).op = "begin" /\ begun[p]
       \/ Step(p).op = "commit" /\ ~begun[p]

\* The process ends: a statement fails (a lock, an I/O error, a refusal), any
\* other exception, a signal.  A transaction is lost; without a journal
\* (journal_mode = OFF), and because it may be rolled back, any of the tables
\* it has changed may be on the disk.
Die(p) ==
    /\ phase[p] \in {"open", "report", "finalize"}
    /\ phase' = [phase EXCEPT ![p] = IF Refused(p) THEN "refused" ELSE "died"]
    /\ cursor' = [cursor EXCEPT ![p] = None]
    /\ begun' = [begun EXCEPT ![p] = FALSE]
    /\ IF writer = p
       THEN /\ \E torn \in SUBSET {t \in Tables : Readers = {} /\ work.rows[t] # disk.rows[t]} :
                   Publish(p, [rows |-> [t \in Tables |-> IF t \in torn THEN work.rows[t]
                                                          ELSE disk.rows[t]],
                               damaged |-> disk.damaged \cup torn])
            /\ writer' = None /\ work' = NewFile
       ELSE UNCHANGED <<file, meddled>>
    /\ UNCHANGED <<memory, script, printed>>

Ended == \A p \in Processes : phase[p] \in {"exit", "died", "refused"}
Terminated == Ended /\ UNCHANGED vars

Main(p) == Start(p) \/ Analyse(p) \/ Finalize(p) \/ Exit(p)

Execute(p) ==
    \/ BeginTransaction(p) \/ Autocommit(p) \/ WriteInTransaction(p)
    \/ CommitTransaction(p) \/ PrepareStmt(p) \/ PrintToStdout(p)
    \/ BeginRead(p) \/ ReadRow(p) \/ EndRead(p)

Next ==
    \/ \E p \in Processes : Main(p) \/ Execute(p) \/ Die(p)
    \/ Terminated

Spec == Init /\ [][Next]_vars

-----------------------------------------------------------------------------
IsFile(db) ==
    /\ \A t \in Tables : db.rows[t] = Absent \/ \A r \in db.rows[t] : DOMAIN r = {"key", "val"}
    /\ db.damaged \subseteq Tables

TypeOK ==
    /\ IsFile(disk) /\ IsFile(work)
    /\ writer \in Processes \cup {None}
    /\ writer # None => begun[writer]
    /\ \A p \in Processes :
           /\ phase[p] \in {"start", "open", "report", "finalize", "exit", "died", "refused"}
           /\ conf[p] \in Confs \cup {None}
           /\ result[p] # None =>
                  result[p] \in IF conf[p].mode = "fuzzy" THEN Results ELSE Reports
           /\ Range(printed[p]) \subseteq UNION {Range(r.lines) : r \in Reports}
           /\ meddled[p] \subseteq Tables
           /\ cursor[p] # None => Step(p).op = "select"
           /\ begun[p] => phase[p] \in {"open", "report", "finalize"}

\* What a process with exit status 0 has promised is in the database, but for
\* tables another process has changed since: the result with its interesting
\* classes, the lines it has printed, with all their candidates, and the
\* cache, whatever was there before and with one file for all of them.
ExitMeansStored ==
    \A p \in Processes : phase[p] = "exit" =>
        LET Mine(tables) == meddled[p] \cap tables = {}
            r == result[p]
        IN  /\ conf[p].out /\ conf[p].mode = "fuzzy" /\ r # None /\ Mine(ResultTables) =>
                   /\ disk.rows["Node"] = NodeRows(r)
                   /\ disk.rows["EqClass"] =
                          {Row(c, <<NumNodes(r, c), c \in r.interesting>>) : c \in Range(r.class)}
            /\ conf[p].out /\ conf[p].mode = "compare" /\ Mine(ReportTables) =>
                   \A t \in ReportTables :
                       disk.rows[t] = RowsIn(t, printed[p])
            /\ conf[p].dumps /\ Mine({"FileList"}) => disk.rows["FileList"] = cache[p]

\* The processes that replace the results in the database
Storing ==
    {p \in Processes : /\ phase[p] \notin {"start", "open"} /\ result[p] # None
                       /\ conf[p].mode = "fuzzy" /\ conf[p].out}

\* One can drop the nodes of another's classes, and a third go on to create
\* the table anew.
Crowded == \E p, q, r \in Storing : p # q /\ q # r /\ r # p

\* Whoever opens a file between any two statements of any processes finds for
\* each class as many nodes as its row says and a class for each node, or no
\* table of nodes.  A death that damages the classes, or three processes, can
\* leave classes that have lost their nodes, all of them.
ClassesMatchNodes ==
    LET lost == \/ "EqClass" \in disk.damaged \/ Crowded
                \/ \E e \in Earlier : ~Fit(e.rows, FALSE)
    IN  "Node" \notin disk.damaged => Fit(disk.rows, lost)

\* The tables of a comparison are those of one report, whole, or there are
\* none: the old ones are replaced in the transaction that writes the new.
ReportIsAtomic ==
    disk.damaged \cap ReportTables = {} =>
        \/ \A t \in ReportTables : disk.rows[t] = Absent
        \/ \E r \in Reports : \A t \in ReportTables :
               disk.rows[t] = RowsIn(t, r.lines)

\* "we will [enforce them] so that we find bugs" (db_lib.cpp:66): no key, no
\* foreign key, no missing or existing table makes a statement fail, over
\* whatever earlier runs have left, whole or torn, unless another process has
\* changed a table this one works on.
NothingIsRefused ==
    \A p \in Processes : phase[p] = "refused" => meddled[p] # {}

\* A query is read to its last row, and nobody can change the table before.
ReadsAll ==
    \A p \in Processes : cursor[p] # None =>
        /\ cursor[p].atEnd => cursor[p].got = cursor[p].all
        /\ cursor[p].locked => cursor[p].all = disk.rows["FileList"]

\* The table that -c and db: read holds complete dumps, not parts of one,
\* unless a process died while it wrote it.
DumpIsWhole ==
    LET dumps == {cache[p] : p \in {p \in Processes : phase[p] \notin {"start", "open"}}}
                     \cup ({e.rows["FileList"] : e \in Earlier} \ {Absent})
    IN  "FileList" \in disk.damaged \/ disk.rows["FileList"] = Absent
            \/ \E D \in SUBSET dumps : disk.rows["FileList"] = UNION D
=============================================================================
