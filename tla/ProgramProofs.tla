---------------------------- MODULE ProgramProofs ----------------------------
(***************************************************************************)
(* What the database holds when a process has ended, and what the others    *)
(* find in it before, for any number of processes, rows, results, reports   *)
(* and combinations of options.                                             *)
(*                                                                         *)
(* Two things are known of each process: its script is one the program      *)
(* writes, whatever has been executed of it (ScriptOK, Ordered, Legal,      *)
(* PlanOK); and each table it works on, unless another process has changed  *)
(* it since, is at the point where the rest of the script takes it to what  *)
(* the process wants to store (TablesOK).                                   *)
(***************************************************************************)
EXTENDS Program, SequenceLemmas

Names == {"drop", "create", "prepare", "insert", "update", "begin", "commit",
          "print", "select"}

-----------------------------------------------------------------------------
(* The script: which statement may come after which *)

\* Tables are dropped, children first, created, filled, parents first, and
\* updated.
Level(s) ==
    CASE s.op = "drop" -> IF s.table = "Node" THEN 0 ELSE 1
      [] s.op = "create" -> 2
      [] s.op = "insert" -> IF s.table = "EqClass" THEN 3 ELSE 4
      [] s.op = "update" -> 5

Follows(y, x) ==
    /\ Writes(x) /\ Writes(y) => Level(x) <= Level(y)
    /\ x.op \in {"drop", "create", "update"} => y # x
    /\ x.op = "prepare" => y.op \notin {"drop", "create"}
    /\ x.op = "commit" => y.op \notin {"drop", "create", "insert"}
    /\ x.op = "insert" /\ y.op = "insert" /\ x.table = y.table /\ x.table \in Unique
           => x.row.key # y.row.key

Ordered(s) == \A i, j \in 1..Len(s) : i < j => Follows(s[j], s[i])

\* A statement in a transaction (b) or not, and whether one is open after it:
\* only the tables of a report are replaced in a transaction.
LegalStep(s, b, e) ==
    /\ s.op = "begin" => ~b /\ e
    /\ s.op = "commit" => b /\ ~e
    /\ s.op \notin {"begin", "commit"} => (e <=> b)
    /\ s.op \in {"insert", "update"} => b
    /\ s.op \in {"drop", "create"} => (b <=> s.table \in ReportTables)

Legal(s, b, e) ==
    \E f \in [0..Len(s) -> BOOLEAN] :
        /\ (f[0] <=> b) /\ (f[Len(s)] <=> e)
        /\ \A i \in 1..Len(s) : LegalStep(s[i], f[i - 1], f[i])

-----------------------------------------------------------------------------
(* The plan: what the rest of a script does *)

Busy(p) == phase[p] \in {"open", "report", "finalize"}
Alive(p) == Busy(p) \/ phase[p] = "exit"

Left(p) == Range(script[p])
ToInsert(p, t) == {s.row : s \in {s \in Left(p) : s.op = "insert" /\ s.table = t}}
ToPrint(p) == {s.row : s \in {s \in Left(p) : s.op = "print"}}

Compares(p) == conf[p].mode = "compare" /\ conf[p].out

\* The tables a process works on
Hands(p) ==
    {t \in Tables :
        \/ Compares(p) /\ t \in ReportTables
        \/ /\ conf[p].mode = "fuzzy" /\ conf[p].out /\ phase[p] # "open" /\ result[p] # None
           /\ t \in ResultTables
        \/ conf[p].dumps /\ phase[p] \in {"finalize", "exit"} /\ t = "FileList"}

\* The rows of the classes, of which some have been marked
ClassesMarked(res, marked) ==
    {Row(c, <<NumNodes(res, c), TRUE>>) : c \in Range(res.class) \cap marked}
        \cup {Row(c, <<NumNodes(res, c), FALSE>>) : c \in Range(res.class) \ marked}

\* What is to be in a table when all that is left has been executed, but for
\* the interesting classes: those still to be marked are not.
Target(p, t) ==
    CASE t = "FileList" -> cache[p]
      [] t = "Node" -> NodeRows(result[p])
      [] t = "EqClass" ->
             ClassesMarked(result[p], {c \in result[p].interesting :
                                           Update("EqClass", c) \notin Left(p)})
      [] t \in ReportTables ->
             IF phase[p] = "open" THEN {} ELSE RowsIn(t, result[p].lines)

StatementOK(p, s) ==
    /\ s.op \in Names
    /\ s.op \in {"drop", "create", "prepare", "insert", "update"} => s.table \in Hands(p)
    /\ s.op = "drop" => s = Drop(s.table)
    /\ s.op = "create" => s = Create(s.table)
    /\ s.op = "update" => /\ s = Update("EqClass", s.row)
                          /\ s.row \in result[p].interesting
    /\ s.op = "commit" => phase[p] # "open"
    /\ s.op = "select" => phase[p] = "open"
    /\ s.op = "begin" /\ conf[p].mode = "compare" => phase[p] # "report"
    /\ s.op \in {"drop", "create", "prepare", "insert", "update"} /\ phase[p] = "finalize"
           => s.table = "FileList"

ScriptOK(p) ==
    /\ IsSeq(script[p]) /\ Ordered(script[p])
    /\ \A s \in Left(p) : StatementOK(p, s)
    /\ phase[p] = "exit" => script[p] = <<>>

\* Outside a script a transaction is open only before a comparison.
LegalOK(p) == Legal(script[p], begun[p], phase[p] = "open" /\ Compares(p))

PlanOK(p) ==
    \A t \in Hands(p) :
        /\ ToInsert(p, t) \subseteq Target(p, t)
        /\ Create(t) \in Left(p) => ToInsert(p, t) = Target(p, t)
        /\ Drop(t) \in Left(p) => Create(t) \in Left(p)
        /\ t = "EqClass" /\ Drop(t) \in Left(p) => Create("Node") \in Left(p)

\* rows, with the rows still to be inserted, are what is to be stored.
Stored(p, t, rows) ==
    /\ rows \cup ToInsert(p, t) = Target(p, t)
    /\ t \in Unique => Keys(rows) \cap Keys(ToInsert(p, t)) = {}

TablesOK(p) ==
    \A t \in Hands(p) \ meddled[p] : Drop(t) \notin Left(p) =>
        IF Create(t) \in Left(p) THEN View(p).rows[t] = Absent
        ELSE Stored(p, t, View(p).rows[t])

PrintsOK(p) ==
    /\ IsSeq(printed[p])
    /\ IF conf[p].mode = "compare" /\ phase[p] # "open"
       THEN Range(printed[p]) \cup ToPrint(p) = Range(result[p].lines)
       ELSE printed[p] = <<>> /\ ToPrint(p) = {}

-----------------------------------------------------------------------------
(* Types *)

IsMap(f) == f = [p \in Processes |-> f[p]]

MapsOK ==
    /\ IsMap(phase) /\ IsMap(conf) /\ IsMap(script) /\ IsMap(cursor) /\ IsMap(cache)
    /\ IsMap(result) /\ IsMap(begun) /\ IsMap(printed) /\ IsMap(meddled)

\* A table of checksums, whose rows are told apart by their paths
IsCache(rows) == IsFileList(rows) /\ None \notin rows

IsDb(db) ==
    /\ db = [rows |-> [t \in Tables |-> db.rows[t]], damaged |-> db.damaged]
    /\ db.damaged \subseteq Tables
    /\ \A t \in Tables : db.rows[t] = Absent \/ \A r \in db.rows[t] : r = Row(r.key, r.val)
    /\ db.rows["FileList"] = Absent \/ IsCache(db.rows["FileList"])

FilesOK ==
    /\ IsDb(disk) /\ IsDb(work)
    /\ writer \in Processes \cup {None}
    /\ writer # None => begun[writer]

MemoryOK(p) ==
    /\ phase[p] \in {"start", "open", "report", "finalize", "exit", "died", "refused"}
    /\ begun[p] \in BOOLEAN /\ (begun[p] => Busy(p))
    /\ IF phase[p] = "start" THEN conf[p] = None ELSE conf[p] \in Confs
    /\ result[p] # None =>
           result[p] \in IF conf[p].mode = "fuzzy" THEN Results ELSE Reports
    /\ phase[p] \in {"start", "open"} => result[p] = None /\ printed[p] = <<>>
    /\ phase[p] \in {"report", "finalize", "exit"} =>
           result[p] \in CASE conf[p].mode = "fuzzy" -> Results
                           [] conf[p].mode = "compare" -> Reports
                           [] conf[p].mode = "cache only" -> {None}
    /\ IsCache(cache[p])
    /\ Range(printed[p]) \subseteq UNION {Range(r.lines) : r \in Reports}
    /\ meddled[p] \subseteq Tables

\* Each row of the table has been read, is in hand, or is to come; the lock is
\* held as long as the stream has not seen the end.
CursorOK(c, table) ==
    /\ IsSeq(c.rest) /\ None \notin Range(c.rest)
    /\ IsCache(c.all)
    /\ c.got \subseteq c.all
    /\ c.next = None => c.rest = <<>>
    /\ c.all = c.got \cup (IF c.atEnd THEN {} ELSE {c.value})
                     \cup (IF c.next = None THEN {} ELSE {c.next}) \cup Range(c.rest)
    /\ c.atEnd \in BOOLEAN /\ (c.atEnd => c.next = None)
    /\ c.locked \in BOOLEAN /\ (c.locked <=> c.next # None)
    /\ c.locked => c.all = table
    /\ c = [all |-> c.all, got |-> c.got, rest |-> c.rest, next |-> c.next,
            value |-> c.value, locked |-> c.locked, atEnd |-> c.atEnd]

ReadingOK ==
    \A p \in Processes : cursor[p] # None =>
        /\ phase[p] = "open" /\ script[p] # <<>> /\ Step(p).op = "select"
        /\ CursorOK(cursor[p], disk.rows["FileList"])

Shape == MapsOK /\ FilesOK /\ (\A p \in Processes : MemoryOK(p)) /\ ReadingOK

ProcessOK(p) ==
    Alive(p) => ScriptOK(p) /\ LegalOK(p) /\ PlanOK(p) /\ TablesOK(p) /\ PrintsOK(p)

-----------------------------------------------------------------------------
(* What a transaction holds back *)

Replacing(p) == phase[p] \in {"open", "report"} /\ Compares(p)

\* A comparison that has dropped the tables of its report has them to itself,
\* and undamaged; other transactions do not touch them.
HeldBack(p) ==
    \A t \in ReportTables :
        IF Replacing(p)
        THEN Drop(t) \notin Left(p) => t \notin meddled[p] \cup work.damaged
        ELSE /\ work.rows[t] = disk.rows[t]
             /\ t \in work.damaged <=> t \in disk.damaged

\* A comparison without the write lock has dropped nothing yet, or is over.
NotWriting(p) ==
    \/ phase[p] = "open" /\ \A t \in ReportTables : Drop(t) \in Left(p)
    \/ phase[p] = "report" /\ ~begun[p]

ReportsOK ==
    /\ writer # None => HeldBack(writer)
    /\ \A p \in Processes : Replacing(p) /\ writer # p => NotWriting(p)

Dumps ==
    {cache[p] : p \in {p \in Processes : phase[p] \notin {"start", "open"}}}
        \cup ({e.rows["FileList"] : e \in Earlier} \ {Absent})

\* Rows that are complete dumps, with those to come
WholeOf(rows, dumps) == \E D \in SUBSET dumps : rows = UNION D
Whole(rows) == WholeOf(rows, Dumps)

\* A dump is inserted by one transaction, and others do not touch its table.
DumpHeld(p) ==
    IF phase[p] = "finalize"
    THEN /\ work.rows["FileList"] # Absent
         /\ \/ "FileList" \in work.damaged
            \/ Whole(work.rows["FileList"] \cup ToInsert(p, "FileList"))
    ELSE /\ work.rows["FileList"] = disk.rows["FileList"]
         /\ "FileList" \in work.damaged <=> "FileList" \in disk.damaged

\* All or nothing of it is still to be inserted.
DumpAhead(p) ==
    phase[p] = "finalize" /\ conf[p].dumps => ToInsert(p, "FileList") \in {{}, cache[p]}

DumpsOK ==
    /\ writer # None => DumpHeld(writer)
    /\ \A p \in Processes : writer # p => DumpAhead(p)

Inv == Shape /\ \A p \in Processes : ProcessOK(p)

-----------------------------------------------------------------------------
(* Nodes and classes *)

ClassesIn(db) == IF db.rows["EqClass"] = Absent THEN {} ELSE db.rows["EqClass"]

MayLose(db, crowded) ==
    "EqClass" \in db.damaged \/ crowded \/ \E e \in Earlier : ~Fit(e.rows, FALSE)

\* The nodes of a class, with those to come (moreNodes) unless its own row is
\* to come (moreClasses)
NodesOf(key, nodes, moreClasses, moreNodes) ==
    {n \in nodes : n.val = key}
        \cup {n \in moreNodes : n.val = key /\ key \notin Keys(moreClasses)}

FitRows(classes, nodes, moreClasses, moreNodes, lost) ==
    /\ \A c \in classes :
           LET mine == NodesOf(c.key, nodes, moreClasses, moreNodes)
           IN  Cardinality(mine) = c.val[1] \/ (mine = {} /\ lost)
    /\ \A n \in nodes : n.val \in Keys(classes)

\* Rows of classes are added and marked.
Grown(old, new) ==
    /\ Keys(old) \subseteq Keys(new)
    /\ \A c \in new : c.key \in Keys(old) =>
           \E d \in old : d.key = c.key /\ d.val[1] = c.val[1]

\* A class is not None even when it is marked.
NotNone(classes) == \A c \in classes : Row(c.key, <<c.val[1], TRUE>>) # None

\* A transaction has taken the file from old to new, and has classes and nodes
\* to insert.
HeldIn(old, new, moreClasses, moreNodes, filling, crowded) ==
    /\ \A t \in ResultTables : t \in new.damaged <=> t \in old.damaged
    /\ old.rows["Node"] # Absent => new.rows["Node"] # Absent
    /\ NotNone(ClassesIn(new)) /\ Grown(ClassesIn(old), ClassesIn(new))
    /\ ClassesIn(old) = {} /\ ClassesIn(new) # {} =>
           filling /\ (new.rows["Node"] # Absent \/ moreNodes # {})
    /\ "Node" \notin new.damaged /\ new.rows["Node"] # Absent =>
           FitRows(ClassesIn(new), new.rows["Node"], moreClasses, moreNodes,
                   MayLose(new, crowded))

\* A process at work on the tables of its result
Filling(p) == p \in Storing /\ phase[p] = "report"

ResultHeld(p) ==
    HeldIn(disk, work, ToInsert(p, "EqClass"), ToInsert(p, "Node"), Filling(p), Crowded)

\* The classes are inserted before the nodes, in the transaction of the nodes.
ResultAhead(p) ==
    Filling(p) =>
        /\ Drop("Node") \in Left(p) => Drop("EqClass") \in Left(p)
        /\ ToInsert(p, "EqClass") \subseteq ClassRows(result[p])
        /\ ToInsert(p, "Node") \subseteq NodeRows(result[p])
        /\ ToInsert(p, "EqClass") # {} => ToInsert(p, "Node") = NodeRows(result[p])
        /\ writer # p => \/ ToInsert(p, "EqClass") = {} /\ ToInsert(p, "Node") = {}
                         \/ /\ ToInsert(p, "EqClass") = ClassRows(result[p])
                            /\ ToInsert(p, "Node") = NodeRows(result[p])

\* The processes that have dropped the nodes of others
Droppers == {p \in Storing : Drop("Node") \notin Left(p)}

\* A process that is about to create the table of nodes after it has dropped
\* that of the classes: if there are classes, another has inserted them with
\* their nodes, and if these are gone, a third has dropped them.
Renews(p) == Filling(p) /\ Drop("EqClass") \notin Left(p) /\ Create("Node") \in Left(p)

RenewOK(r) ==
    Renews(r) /\ ClassesIn(disk) # {} /\ "EqClass" \notin disk.damaged =>
        \E p \in Droppers \ {r} :
            disk.rows["Node"] # Absent \/ \E q \in Droppers : q # p /\ q # r

ResultsOK ==
    /\ NotNone(ClassesIn(disk))
    /\ writer # None => ResultHeld(writer)
    /\ \A p \in Processes : ResultAhead(p) /\ RenewOK(p)

MatchIn(db, crowded) ==
    "Node" \notin db.damaged => Fit(db.rows, MayLose(db, crowded))

-----------------------------------------------------------------------------
(* Scripts as sequences *)

LEMMA OrderedTail ==
    ASSUME NEW s, IsSeq(s), s # <<>>, Ordered(s)
    PROVE  Ordered(Tail(s)) /\ \A x \in Range(Tail(s)) : Follows(x, Head(s))
<1>1. /\ Head(s) = s[1] /\ Len(Tail(s)) = Len(s) - 1 /\ Len(s) \in Nat \ {0}
      /\ \A i \in 1..Len(Tail(s)) : Tail(s)[i] = s[i + 1]
  BY TailRange
<1>2. Ordered(Tail(s))
  <2> SUFFICES ASSUME NEW i \in 1..Len(Tail(s)), NEW j \in 1..Len(Tail(s)), i < j
               PROVE  Follows(Tail(s)[j], Tail(s)[i])
    BY DEF Ordered
  <2>1. i + 1 \in 1..Len(s) /\ j + 1 \in 1..Len(s) /\ i + 1 < j + 1
    BY <1>1
  <2> QED
    BY <1>1, <2>1 DEF Ordered
<1>3. ASSUME NEW x \in Range(Tail(s))
      PROVE  Follows(x, Head(s))
  <2>1. PICK i \in 1..Len(Tail(s)) : x = Tail(s)[i]
    <3> DEFINE t == Tail(s)
    <3>1. IsSeq(t)
      BY TailRange
    <3> HIDE DEF t
    <3>2. Range(t) = {t[i] : i \in 1..Len(t)}
      BY <3>1, IsSeqFacts
    <3> QED
      BY <3>2 DEF t
  <2>2. 1 \in 1..Len(s) /\ i + 1 \in 1..Len(s) /\ 1 < i + 1
    BY <1>1
  <2>3. Follows(s[i + 1], s[1])
    BY <2>2 DEF Ordered
  <2> QED
    BY <1>1, <2>1, <2>3
<1> QED
  BY <1>2, <1>3

LEMMA OrderedConcat ==
    ASSUME NEW s, NEW t, IsSeq(s), IsSeq(t), Ordered(s), Ordered(t),
           \A x \in Range(s), y \in Range(t) : Follows(y, x)
    PROVE  Ordered(s \o t)
<1>1. /\ Len(s) \in Nat /\ Len(t) \in Nat /\ Len(s \o t) = Len(s) + Len(t)
      /\ \A i \in 1..Len(s) : (s \o t)[i] = s[i] /\ s[i] \in Range(s)
      /\ \A i \in 1..Len(t) : (s \o t)[Len(s) + i] = t[i] /\ t[i] \in Range(t)
  BY ConcatRange, IsSeqFacts
<1> SUFFICES ASSUME NEW i \in 1..Len(s \o t), NEW j \in 1..Len(s \o t), i < j
             PROVE  Follows((s \o t)[j], (s \o t)[i])
  BY DEF Ordered
<1>2. CASE j <= Len(s)
  <2>1. i \in 1..Len(s) /\ j \in 1..Len(s)
    BY <1>1, <1>2
  <2> QED
    BY <1>1, <2>1 DEF Ordered
<1>3. CASE i > Len(s)
  <2>1. /\ i - Len(s) \in 1..Len(t) /\ i = Len(s) + (i - Len(s))
        /\ j - Len(s) \in 1..Len(t) /\ j = Len(s) + (j - Len(s))
        /\ i - Len(s) < j - Len(s)
    BY <1>1, <1>3
  <2> QED
    BY <1>1, <2>1 DEF Ordered
<1>4. CASE i <= Len(s) /\ j > Len(s)
  <2>1. /\ i \in 1..Len(s)
        /\ j - Len(s) \in 1..Len(t) /\ j = Len(s) + (j - Len(s))
    BY <1>1, <1>4
  <2> QED
    BY <1>1, <2>1
<1>5. Len(s) \in Nat /\ i \in Nat /\ j \in Nat
  BY <1>1
<1> QED
  BY <1>2, <1>3, <1>4, <1>5

LEMMA OrderedUnit == \A x : Ordered(<<x>>)
BY DEF Ordered

LEMMA OrderedEmpty == Ordered(<<>>)
BY DEF Ordered

LEMMA LegalEmpty == \A b, e \in BOOLEAN : Legal(<<>>, b, e) <=> b = e
<1> SUFFICES ASSUME NEW b \in BOOLEAN, NEW e \in BOOLEAN
             PROVE  Legal(<<>>, b, e) <=> b = e
  OBVIOUS
<1>1. ASSUME b = e PROVE Legal(<<>>, b, e)
  <2> DEFINE f == [i \in 0..0 |-> b]
  <2>1. f \in [0..0 -> BOOLEAN] /\ f[0] = b
    OBVIOUS
  <2> HIDE DEF f
  <2> QED
    BY <1>1, <2>1 DEF Legal
<1>2. Legal(<<>>, b, e) => b = e
  BY DEF Legal
<1> QED
  BY <1>1, <1>2

LegalFirst(s, b, e) == \E m \in BOOLEAN : LegalStep(Head(s), b, m) /\ Legal(Tail(s), m, e)

LEMMA LegalTail ==
    ASSUME NEW s, IsSeq(s), s # <<>>, NEW b \in BOOLEAN, NEW e \in BOOLEAN, Legal(s, b, e)
    PROVE  LegalFirst(s, b, e)
<1>1. PICK f \in [0..Len(s) -> BOOLEAN] :
          /\ (f[0] <=> b) /\ (f[Len(s)] <=> e)
          /\ \A i \in 1..Len(s) : LegalStep(s[i], f[i - 1], f[i])
  BY DEF Legal
<1>2. /\ Head(s) = s[1] /\ Len(Tail(s)) = Len(s) - 1 /\ Len(s) \in Nat \ {0}
      /\ \A i \in 1..Len(Tail(s)) : Tail(s)[i] = s[i + 1]
  BY TailRange
<1> DEFINE n == Len(Tail(s))
           g == [i \in 0..n |-> f[i + 1]]
<1>3. n \in Nat /\ Len(s) = n + 1
  BY <1>2
<1>4. g \in [0..n -> BOOLEAN]
  BY <1>1, <1>3
<1>5. (g[0] <=> f[1]) /\ (g[n] <=> e) /\ f[1] \in BOOLEAN
  BY <1>1, <1>3
<1>6. ASSUME NEW i \in 1..n
      PROVE  LegalStep(Tail(s)[i], g[i - 1], g[i])
  <2>1. i + 1 \in 1..Len(s) /\ (i + 1) - 1 = i /\ i - 1 \in 0..n /\ i \in 0..n
        /\ (i - 1) + 1 = i
    BY <1>3
  <2>2. g[i - 1] = f[i] /\ g[i] = f[i + 1]
    BY <2>1
  <2>3. Tail(s)[i] = s[i + 1]
    BY <1>2
  <2>4. LegalStep(s[i + 1], f[(i + 1) - 1], f[i + 1])
    BY <1>1, <2>1
  <2> QED
    BY <2>1, <2>2, <2>3, <2>4
<1>7. LegalStep(Head(s), b, f[1])
  <2>1. LegalStep(s[1], f[1 - 1], f[1])
    BY <1>1, <1>2
  <2>2. f[1 - 1] = b
    BY <1>1, <1>3
  <2> QED
    BY <1>2, <2>1, <2>2
<1>8. Legal(Tail(s), f[1], e)
  <2> HIDE DEF g
  <2> QED
    BY <1>4, <1>5, <1>6 DEF Legal
<1> QED
  BY <1>5, <1>7, <1>8 DEF LegalFirst

LEMMA LegalConcat ==
    ASSUME NEW s, NEW t, IsSeq(s), IsSeq(t),
           NEW b \in BOOLEAN, NEW m \in BOOLEAN, NEW e \in BOOLEAN,
           Legal(s, b, m), Legal(t, m, e)
    PROVE  Legal(s \o t, b, e)
<1>1. PICK f \in [0..Len(s) -> BOOLEAN] :
          /\ (f[0] <=> b) /\ (f[Len(s)] <=> m)
          /\ \A i \in 1..Len(s) : LegalStep(s[i], f[i - 1], f[i])
  BY DEF Legal
<1>2. PICK g \in [0..Len(t) -> BOOLEAN] :
          /\ (g[0] <=> m) /\ (g[Len(t)] <=> e)
          /\ \A i \in 1..Len(t) : LegalStep(t[i], g[i - 1], g[i])
  BY DEF Legal
<1>3. /\ Len(s) \in Nat /\ Len(t) \in Nat /\ Len(s \o t) = Len(s) + Len(t)
      /\ \A i \in 1..Len(s) : (s \o t)[i] = s[i]
      /\ \A i \in 1..Len(t) : (s \o t)[Len(s) + i] = t[i]
  BY ConcatRange, IsSeqFacts
<1> DEFINE n == Len(s)
           k == Len(t)
           h == [i \in 0..(n + k) |-> IF i <= n THEN f[i] ELSE g[i - n]]
<1>4. /\ n \in Nat /\ k \in Nat /\ f \in [0..n -> BOOLEAN] /\ g \in [0..k -> BOOLEAN]
      /\ f[n] = g[0] /\ (f[0] <=> b) /\ (g[k] <=> e)
  BY <1>1, <1>2, <1>3
<1>5. \A i \in 0..n : i \in 0..(n + k) /\ h[i] = f[i]
  BY <1>4
<1>6. \A i \in 0..k : n + i \in 0..(n + k) /\ h[n + i] = g[i]
  <2> SUFFICES ASSUME NEW i \in 0..k
               PROVE  n + i \in 0..(n + k) /\ h[n + i] = g[i]
    OBVIOUS
  <2>1. n + i \in 0..(n + k) /\ (n + i) - n = i /\ (n + i <= n <=> i = 0)
    BY <1>4
  <2> QED
    BY <1>4, <2>1
<1>7. h \in [0..(n + k) -> BOOLEAN]
  <2> SUFFICES ASSUME NEW i \in 0..(n + k)
               PROVE  (IF i <= n THEN f[i] ELSE g[i - n]) \in BOOLEAN
    OBVIOUS
  <2>1. (i <= n => i \in 0..n) /\ (~(i <= n) => i - n \in 0..k)
    BY <1>4
  <2> QED
    BY <1>4, <2>1
<1>8. (h[0] <=> b) /\ (h[n + k] <=> e)
  <2>1. 0 \in 0..n /\ k \in 0..k
    BY <1>4
  <2> HIDE DEF h, n, k
  <2> QED
    BY <1>4, <1>5, <1>6, <2>1
<1> HIDE DEF h
<1>9. ASSUME NEW i \in 1..(n + k)
      PROVE  LegalStep((s \o t)[i], h[i - 1], h[i])
  <2>1. CASE i <= n
    <3>1. i \in 1..n /\ i \in 0..n /\ i - 1 \in 0..n
      BY <1>4, <2>1
    <3>2. LegalStep(s[i], f[i - 1], f[i])
      BY <1>1, <3>1
    <3> QED
      BY <1>3, <1>5, <3>1, <3>2
  <2>2. CASE i > n
    <3>1. PICK j \in 1..k : i = n + j
      <4>1. i - n \in 1..k /\ i = n + (i - n)
        BY <1>4, <2>2
      <4> QED
        BY <4>1
    <3>2. j \in 0..k /\ j - 1 \in 0..k /\ i - 1 = n + (j - 1)
      BY <1>4, <3>1
    <3>3. LegalStep(t[j], g[j - 1], g[j])
      BY <1>2, <3>1
    <3>4. h[i - 1] = g[j - 1] /\ h[i] = g[j] /\ (s \o t)[i] = t[j]
      BY <1>3, <1>6, <3>1, <3>2
    <3> QED
      BY <3>3, <3>4
  <2> QED
    BY <1>4, <2>1, <2>2
<1>10. Len(s \o t) = n + k
  BY <1>3
<1> QED
  BY <1>7, <1>8, <1>9, <1>10 DEF Legal

\* Statements between which no transaction begins or ends
LEMMA LegalSame ==
    ASSUME NEW s, IsSeq(s), NEW b \in BOOLEAN, \A x \in Range(s) : LegalStep(x, b, b)
    PROVE  Legal(s, b, b)
<1> DEFINE f == [i \in 0..Len(s) |-> b]
<1>1. Len(s) \in Nat /\ \A i \in 1..Len(s) : s[i] \in Range(s)
  BY IsSeqFacts
<1>2. f \in [0..Len(s) -> BOOLEAN] /\ f[0] = b /\ f[Len(s)] = b
  BY <1>1
<1>3. ASSUME NEW i \in 1..Len(s)
      PROVE  LegalStep(s[i], f[i - 1], f[i])
  <2>1. i - 1 \in 0..Len(s) /\ i \in 0..Len(s)
    BY <1>1
  <2>2. f[i - 1] = b /\ f[i] = b
    BY <2>1
  <2> QED
    BY <1>1, <2>2
<1> HIDE DEF f
<1> QED
  BY <1>2, <1>3 DEF Legal

LEMMA LegalUnit ==
    ASSUME NEW x, NEW b \in BOOLEAN, NEW e \in BOOLEAN, LegalStep(x, b, e)
    PROVE  Legal(<<x>>, b, e)
<1> DEFINE f == [i \in 0..1 |-> IF i = 0 THEN b ELSE e]
<1>1. f \in [0..1 -> BOOLEAN] /\ f[0] = b /\ f[1] = e
  OBVIOUS
<1>2. Len(<<x>>) = 1 /\ <<x>>[1] = x
  OBVIOUS
<1>3. LegalStep(<<x>>[1], f[1 - 1], f[1])
  <2>1. f[1 - 1] = b
    BY <1>1
  <2> HIDE DEF f
  <2> QED
    BY <1>1, <1>2, <2>1
<1> HIDE DEF f
<1>4. \A i \in 1..Len(<<x>>) : i = 1
  BY <1>2
<1>5. \A i \in 1..Len(<<x>>) : LegalStep(<<x>>[i], f[i - 1], f[i])
  BY <1>3, <1>4
<1> QED
  BY <1>1, <1>2, <1>5 DEF Legal

-----------------------------------------------------------------------------
(* The scripts of the program *)

LEMMA StatementFacts ==
    /\ Begin.op = "begin" /\ Commit.op = "commit"
    /\ \A t : /\ Drop(t).op = "drop" /\ Drop(t).table = t /\ Drop(t).row = None
              /\ Create(t).op = "create" /\ Create(t).table = t /\ Create(t).row = None
              /\ Prepare(t).op = "prepare" /\ Prepare(t).table = t
              /\ Select(t).op = "select"
              /\ \A r : /\ Insert(t, r).op = "insert" /\ Insert(t, r).table = t
                        /\ Insert(t, r).row = r
                        /\ Update(t, r).op = "update" /\ Update(t, r).table = t
                        /\ Update(t, r).row = r
    /\ \A l : Statement("print", None, l).op = "print" /\ Statement("print", None, l).row = l
BY DEF Begin, Commit, Drop, Create, Prepare, Select, Insert, Update, Statement

\* What follows whatever is before it, and what anything may follow
LEMMA FollowsAny ==
    ASSUME NEW x, NEW y,
           \/ x.op \in {"begin", "print", "select"}
           \/ y.op \in {"begin", "commit", "prepare", "print", "select"}
    PROVE  Follows(y, x)
BY DEF Follows, Writes

LEMMA FollowsInsert ==
    ASSUME NEW x, NEW y, y.op = "insert",
           \/ x.op \in {"drop", "create", "prepare"}
           \/ /\ x.op = "insert"
              /\ y.table # "EqClass" \/ x.table = "EqClass"
              /\ y.table # x.table \/ x.table \notin Unique \/ x.row.key # y.row.key
    PROVE  Follows(y, x)
BY DEF Follows, Writes, Level

LEMMA FollowsUpdate ==
    ASSUME NEW x, NEW y, y.op = "update", y # x
    PROVE  Follows(y, x)
BY DEF Follows, Writes, Level

LEMMA FollowsDropCreate ==
    /\ \A t \in Tables : Follows(Drop(t), Drop("Node")) <=> t # "Node"
    /\ \A t \in ReportTables \cup {"EqClass", "FileList"}, u \in ReportTables :
           t # u => Follows(Drop(u), Drop(t))
    /\ \A t, u \in Tables : Follows(Create(u), Drop(t))
    /\ \A t, u \in Tables : t # u => Follows(Create(u), Create(t))
<1>1. \A t, u : t # u => Drop(t) # Drop(u) /\ Create(t) # Create(u)
  BY StatementFacts
<1>2. \A t, u : Drop(t) # Create(u)
  BY StatementFacts
<1>3. \A t \in Tables : Follows(Drop(t), Drop("Node")) <=> t # "Node"
  BY <1>1, StatementFacts DEF Follows, Writes, Level, Tables
<1>4. \A t \in ReportTables \cup {"EqClass", "FileList"}, u \in ReportTables :
           t # u => Follows(Drop(u), Drop(t))
  BY <1>1, StatementFacts DEF Follows, Writes, Level, ReportTables
<1>5. \A t, u \in Tables : Follows(Create(u), Drop(t))
  BY <1>2, StatementFacts DEF Follows, Writes, Level, Tables
<1>6. \A t, u \in Tables : t # u => Follows(Create(u), Create(t))
  BY <1>1, StatementFacts DEF Follows, Writes, Level, Tables
<1> QED
  BY <1>3, <1>4, <1>5, <1>6

Inserts(table, rows) == {Insert(table, r) : r \in rows}

LEMMA InsertsOrdered ==
    ASSUME NEW table, NEW rows, IsFiniteSet(rows),
           table \in Unique => \A r, q \in rows : r.key = q.key => r = q
    PROVE  LET seq == SetToSeq(rows)
               s == [i \in DOMAIN seq |-> Insert(table, seq[i])]
           IN  IsSeq(s) /\ Range(s) = Inserts(table, rows) /\ Ordered(s)
<1> DEFINE seq == SetToSeq(rows)
           n == Len(seq)
           s == [i \in DOMAIN seq |-> Insert(table, seq[i])]
<1>1. /\ IsSeq(seq) /\ Range(seq) = rows
      /\ \A i, j \in 1..n : seq[i] = seq[j] => i = j
  BY SetToSeqOf
<1> HIDE DEF seq
<1>2. n \in Nat /\ DOMAIN seq = 1..n /\ rows = {seq[i] : i \in 1..n}
  BY <1>1, IsSeqFacts
<1>3. \A i \in 1..n : s[i] = Insert(table, seq[i])
  BY <1>2
<1>4. s = [i \in DOMAIN seq |-> s[i]]
  OBVIOUS
<1> HIDE DEF s
<1>5. IsSeq(s) /\ Len(s) = n /\ Range(s) = {s[i] : i \in 1..n}
  BY <1>1, <1>4, MappedRange
<1>6. Range(s) = Inserts(table, rows)
  BY <1>2, <1>3, <1>5 DEF Inserts
<1>7. Ordered(s)
  <2> SUFFICES ASSUME NEW i \in 1..n, NEW j \in 1..n, i < j
               PROVE  Follows(s[j], s[i])
    BY <1>5 DEF Ordered
  <2>1. seq[i] # seq[j] /\ seq[i] \in rows /\ seq[j] \in rows
    <3>1. i # j
      BY <1>2
    <3> QED
      BY <1>1, <1>2, <3>1
  <2>2. table \in Unique => seq[i].key # seq[j].key
    BY <2>1
  <2> QED
    BY <1>3, <2>2, StatementFacts, FollowsInsert
<1> QED
  BY <1>5, <1>6, <1>7 DEF s, seq

LEMMA OutStreamOrdered ==
    ASSUME NEW table, NEW rows, IsFiniteSet(rows),
           table \in Unique => \A r, q \in rows : r.key = q.key => r = q
    PROVE  LET s == OutStream(table, rows)
           IN  /\ IsSeq(s) /\ Ordered(s)
               /\ Range(s) = {Prepare(table)} \cup Inserts(table, rows)
<1> DEFINE seq == SetToSeq(rows)
           s == [i \in DOMAIN seq |-> Insert(table, seq[i])]
<1>1. IsSeq(s) /\ Range(s) = Inserts(table, rows) /\ Ordered(s)
  BY InsertsOrdered
<1>2. OutStream(table, rows) = <<Prepare(table)>> \o s
  BY DEF OutStream
<1> HIDE DEF s
<1>3. \A y \in Range(s) : Follows(y, Prepare(table))
  BY <1>1, StatementFacts, FollowsInsert DEF Inserts
<1>4. /\ IsSeq(<<Prepare(table)>>) /\ Range(<<Prepare(table)>>) = {Prepare(table)}
      /\ Ordered(<<Prepare(table)>>)
  BY UnitRange, OrderedUnit
<1>5. Ordered(<<Prepare(table)>> \o s)
  BY <1>1, <1>3, <1>4, OrderedConcat
<1> QED
  BY <1>1, <1>2, <1>4, <1>5, ConcatRange

LEMMA ReportsOrdered ==
    LET s == DirCompDBStream
    IN  /\ IsSeq(s) /\ Ordered(s) /\ Legal(s, FALSE, TRUE)
        /\ Range(s) = {Begin, Drop("Removed"), Drop("RenameTo"), Create("Removed"),
                       Create("RenameTo"), Prepare("Removed"), Prepare("RenameTo")}
<1> DEFINE s == DirCompDBStream
<1>1. /\ Len(s) = 7 /\ DOMAIN s = 1..7
      /\ s[1] = Begin /\ s[2] = Drop("Removed") /\ s[3] = Drop("RenameTo")
      /\ s[4] = Create("Removed") /\ s[5] = Create("RenameTo")
      /\ s[6] = Prepare("Removed") /\ s[7] = Prepare("RenameTo")
  BY DEF DirCompDBStream
<1>2. IsSeq(s)
  BY DEF DirCompDBStream, IsSeq, Range
<1> HIDE DEF s
<1>3. \A i \in 1..7 : i = 1 \/ i = 2 \/ i = 3 \/ i = 4 \/ i = 5 \/ i = 6 \/ i = 7
  OBVIOUS
<1>4. Range(s) = {Begin, Drop("Removed"), Drop("RenameTo"), Create("Removed"),
                  Create("RenameTo"), Prepare("Removed"), Prepare("RenameTo")}
  <2>1. Range(s) = {s[i] : i \in 1..7}
    BY <1>1 DEF Range
  <2> QED
    BY <1>1, <1>3, <2>1
<1>5. ASSUME NEW i \in 1..7, NEW j \in 1..7, i < j
      PROVE  Follows(s[j], s[i])
  <2>1. CASE i = 1 \/ j = 6 \/ j = 7
    BY <1>1, <2>1, FollowsAny, StatementFacts
  <2>2. CASE i \in {2, 3} /\ j \in {4, 5}
    BY <1>1, <2>2, FollowsDropCreate DEF Tables
  <2>3. CASE i = 2 /\ j = 3
    BY <1>1, <2>3, FollowsDropCreate DEF ReportTables
  <2>4. CASE i = 4 /\ j = 5
    BY <1>1, <2>4, FollowsDropCreate DEF Tables
  <2> QED
    BY <1>3, <1>5, <2>1, <2>2, <2>3, <2>4
<1>6. Legal(s, FALSE, TRUE)
  <2> DEFINE f == [i \in 0..7 |-> IF i = 0 THEN FALSE ELSE TRUE]
  <2>1. f \in [0..7 -> BOOLEAN] /\ f[0] = FALSE /\ f[7] = TRUE
    OBVIOUS
  <2>2. LegalStep(s[1], FALSE, TRUE)
    BY <1>1, StatementFacts DEF LegalStep
  <2>3. \A i \in 2..7 : LegalStep(s[i], TRUE, TRUE)
    BY <1>1, <1>3, StatementFacts DEF LegalStep, ReportTables
  <2>4. \A i \in 1..7 : LegalStep(s[i], f[i - 1], f[i])
    <3>1. f[1 - 1] = FALSE /\ f[1] = TRUE
      OBVIOUS
    <3>2. \A i \in 2..7 : f[i - 1] = TRUE /\ f[i] = TRUE
      OBVIOUS
    <3>3. \A i \in 1..7 : i = 1 \/ i \in 2..7
      OBVIOUS
    <3> HIDE DEF f
    <3> QED
      BY <2>2, <2>3, <3>1, <3>2, <3>3
  <2> HIDE DEF f
  <2> QED
    BY <1>1, <2>1, <2>4 DEF Legal
<1> QED
  BY <1>1, <1>2, <1>4, <1>5, <1>6 DEF s, Ordered

LEMMA ResultsDatabaseOrdered ==
    LET s == CreateResultsDatabase
    IN  /\ IsSeq(s) /\ Ordered(s) /\ Legal(s, FALSE, FALSE)
        /\ Range(s) = {Drop("Node"), Drop("EqClass"), Create("EqClass"), Create("Node")}
<1> DEFINE s == CreateResultsDatabase
<1>1. /\ Len(s) = 4 /\ DOMAIN s = 1..4
      /\ s[1] = Drop("Node") /\ s[2] = Drop("EqClass")
      /\ s[3] = Create("EqClass") /\ s[4] = Create("Node")
  BY DEF CreateResultsDatabase
<1>2. IsSeq(s)
  BY DEF CreateResultsDatabase, IsSeq, Range
<1> HIDE DEF s
<1>3. \A i \in 1..4 : i = 1 \/ i = 2 \/ i = 3 \/ i = 4
  OBVIOUS
<1>4. Range(s) = {Drop("Node"), Drop("EqClass"), Create("EqClass"), Create("Node")}
  <2>1. Range(s) = {s[i] : i \in 1..4}
    BY <1>1 DEF Range
  <2> QED
    BY <1>1, <1>3, <2>1
<1>5. ASSUME NEW i \in 1..4, NEW j \in 1..4, i < j
      PROVE  Follows(s[j], s[i])
  <2>1. CASE i \in {1, 2} /\ j \in {3, 4}
    BY <1>1, <2>1, FollowsDropCreate DEF Tables
  <2>2. CASE i = 1 /\ j = 2
    BY <1>1, <2>2, FollowsDropCreate DEF Tables
  <2>3. CASE i = 3 /\ j = 4
    BY <1>1, <2>3, FollowsDropCreate DEF Tables
  <2> QED
    BY <1>3, <1>5, <2>1, <2>2, <2>3
<1>6. \A x \in Range(s) : LegalStep(x, FALSE, FALSE)
  BY <1>4, StatementFacts DEF LegalStep, ReportTables
<1> QED
  BY <1>1, <1>2, <1>4, <1>5, <1>6, LegalSame DEF s, Ordered

\* A script that may follow another in a transaction (b) or not
Script(s, b, e) == IsSeq(s) /\ Ordered(s) /\ Legal(s, b, e)

LEMMA ScriptConcat ==
    ASSUME NEW s, NEW t, NEW b \in BOOLEAN, NEW m \in BOOLEAN, NEW e \in BOOLEAN,
           Script(s, b, m), Script(t, m, e),
           \A x \in Range(s), y \in Range(t) : Follows(y, x)
    PROVE  Script(s \o t, b, e) /\ Range(s \o t) = Range(s) \cup Range(t)
<1>1. IsSeq(s \o t) /\ Range(s \o t) = Range(s) \cup Range(t)
  BY ConcatRange DEF Script
<1>2. Ordered(s \o t)
  BY OrderedConcat DEF Script
<1>3. Legal(s \o t, b, e)
  BY LegalConcat DEF Script
<1> QED
  BY <1>1, <1>2, <1>3 DEF Script

LEMMA ScriptUnit ==
    ASSUME NEW x, NEW b \in BOOLEAN, NEW e \in BOOLEAN, LegalStep(x, b, e)
    PROVE  Script(<<x>>, b, e) /\ Range(<<x>>) = {x}
BY UnitRange, OrderedUnit, LegalUnit DEF Script

LEMMA ScriptEmpty == \A b \in BOOLEAN : Script(<<>>, b, b) /\ Range(<<>>) = {}
BY EmptyRange, OrderedEmpty, LegalEmpty DEF Script

LEMMA ScriptIf ==
    ASSUME NEW s, NEW c \in BOOLEAN, NEW b \in BOOLEAN, c => Script(s, b, b)
    PROVE  Script(If(c, s), b, b) /\ Range(If(c, s)) = IF c THEN Range(s) ELSE {}
BY ScriptEmpty DEF If

LEMMA ScriptStream ==
    ASSUME NEW table, NEW rows, IsFiniteSet(rows),
           table \in Unique => \A r, q \in rows : r.key = q.key => r = q
    PROVE  /\ Script(OutStream(table, rows), TRUE, TRUE)
           /\ Range(OutStream(table, rows)) = {Prepare(table)} \cup Inserts(table, rows)
<1>1. \A x \in {Prepare(table)} \cup Inserts(table, rows) : LegalStep(x, TRUE, TRUE)
  BY StatementFacts DEF Inserts, LegalStep
<1> QED
  BY <1>1, OutStreamOrdered, LegalSame DEF Script

LEMMA FiniteRange ==
    ASSUME NEW f, IsFiniteSet(DOMAIN f), f = [x \in DOMAIN f |-> f[x]]
    PROVE  IsFiniteSet(Range(f))
<1>1. f \in Surjection(DOMAIN f, Range(f))
  BY DEF Surjection, Range
<1> QED
  BY <1>1, FS_Surjection

LEMMA RowFields == \A k, v : Row(k, v).key = k /\ Row(k, v).val = v
BY DEF Row

LEMMA ResultRows ==
    ASSUME NEW res \in Results \ {None}
    PROVE  /\ IsFiniteSet(ClassRows(res)) /\ IsFiniteSet(NodeRows(res))
           /\ \A r, q \in ClassRows(res) : r.key = q.key => r = q
           /\ \A r, q \in NodeRows(res) : r.key = q.key => r = q
           /\ IsFiniteSet(res.interesting)
           /\ \A r \in ClassRows(res) \cup NodeRows(res) : r = Row(r.key, r.val)
<1>1. /\ IsFiniteSet(DOMAIN res.class) /\ res.interesting \subseteq Range(res.class)
      /\ res.class = [n \in DOMAIN res.class |-> res.class[n]]
  BY ResultsAssumption
<1>2. IsFiniteSet(Range(res.class)) /\ IsFiniteSet(res.interesting)
  BY <1>1, FiniteRange, FS_Subset
<1>3. IsFiniteSet(ClassRows(res))
  <2> DEFINE f == [c \in Range(res.class) |-> Row(c, <<NumNodes(res, c), FALSE>>)]
  <2>1. Range(f) = ClassRows(res)
    BY DEF Range, ClassRows
  <2>2. DOMAIN f = Range(res.class) /\ f = [x \in DOMAIN f |-> f[x]]
    OBVIOUS
  <2> HIDE DEF f
  <2> QED
    BY <1>2, <2>1, <2>2, FiniteRange
<1>4. IsFiniteSet(NodeRows(res))
  <2> DEFINE f == [n \in DOMAIN res.class |-> Row(n, res.class[n])]
  <2>1. Range(f) = NodeRows(res)
    BY DEF Range, NodeRows
  <2>2. DOMAIN f = DOMAIN res.class /\ f = [x \in DOMAIN f |-> f[x]]
    OBVIOUS
  <2> HIDE DEF f
  <2> QED
    BY <1>1, <2>1, <2>2, FiniteRange
<1>5. \A r \in ClassRows(res) : \E c : r = Row(c, <<NumNodes(res, c), FALSE>>)
  BY DEF ClassRows
<1>6. \A r \in NodeRows(res) : \E n : r = Row(n, res.class[n])
  BY DEF NodeRows
<1>7. ASSUME NEW r \in ClassRows(res), NEW q \in ClassRows(res), r.key = q.key
      PROVE  r = q
  <2>1. PICK c : r = Row(c, <<NumNodes(res, c), FALSE>>)
    BY <1>5
  <2>2. PICK d : q = Row(d, <<NumNodes(res, d), FALSE>>)
    BY <1>5
  <2>3. c = d
    BY <1>7, <2>1, <2>2, RowFields
  <2> QED
    BY <2>1, <2>2, <2>3
<1>8. \A r, q \in NodeRows(res) : r.key = q.key => r = q
  BY <1>6, RowFields
<1>9. ASSUME NEW r \in ClassRows(res) \cup NodeRows(res)
      PROVE  r = Row(r.key, r.val)
  <2>1. CASE r \in ClassRows(res)
    <3>1. PICK c : r = Row(c, <<NumNodes(res, c), FALSE>>)
      BY <1>5, <2>1
    <3>2. r.key = c /\ r.val = <<NumNodes(res, c), FALSE>>
      BY <3>1, RowFields
    <3> QED
      BY <3>1, <3>2
  <2>2. CASE r \in NodeRows(res)
    BY <1>6, <2>2, RowFields
  <2> QED
    BY <2>1, <2>2
<1> QED
  BY <1>2, <1>3, <1>4, <1>7, <1>8, <1>9

Updates(res) == {Update("EqClass", c) : c \in res.interesting}

LEMMA InterestingScript ==
    ASSUME NEW res \in Results \ {None}
    PROVE  LET s == DumpInterestingEqClasses(res)
           IN  /\ Script(s, FALSE, FALSE)
               /\ Range(s) = {Begin, Prepare("EqClass"), Commit} \cup Updates(res)
<1> DEFINE seq == SetToSeq(res.interesting)
           n == Len(seq)
           u == [i \in DOMAIN seq |-> Update("EqClass", seq[i])]
           b == <<Begin, Prepare("EqClass")>>
<1>1. /\ IsSeq(seq) /\ Range(seq) = res.interesting
      /\ \A i, j \in 1..n : seq[i] = seq[j] => i = j
  BY ResultRows, SetToSeqOf
<1>2. DumpInterestingEqClasses(res) = (b \o u) \o <<Commit>>
  BY DEF DumpInterestingEqClasses
<1> HIDE DEF seq
<1>3. n \in Nat /\ DOMAIN seq = 1..n /\ res.interesting = {seq[i] : i \in 1..n}
  BY <1>1, IsSeqFacts
<1>4. \A i \in 1..n : u[i] = Update("EqClass", seq[i])
  BY <1>3
<1>5. u = [i \in DOMAIN seq |-> u[i]]
  OBVIOUS
<1> HIDE DEF u
<1>6. IsSeq(u) /\ Len(u) = n /\ Range(u) = {u[i] : i \in 1..n}
  BY <1>1, <1>5, MappedRange
<1>7. Range(u) = Updates(res)
  BY <1>3, <1>4, <1>6 DEF Updates
<1>8. Ordered(u)
  <2> SUFFICES ASSUME NEW i \in 1..n, NEW j \in 1..n, i < j
               PROVE  Follows(u[j], u[i])
    BY <1>6 DEF Ordered
  <2>1. seq[i] # seq[j]
    <3>1. i # j
      BY <1>3
    <3> QED
      BY <1>1, <1>3, <3>1
  <2>2. u[i] # u[j]
    BY <1>4, <2>1, StatementFacts
  <2> QED
    BY <1>4, <2>2, StatementFacts, FollowsUpdate
<1>9. Script(u, TRUE, TRUE)
  <2>1. \A x \in Range(u) : LegalStep(x, TRUE, TRUE)
    BY <1>7, StatementFacts DEF Updates, LegalStep
  <2> QED
    BY <1>6, <1>8, <2>1, LegalSame DEF Script
<1>10. Script(b, FALSE, TRUE) /\ Range(b) = {Begin, Prepare("EqClass")}
  <2> DEFINE b1 == <<Begin>>
             b2 == <<Prepare("EqClass")>>
  <2>1. b = b1 \o b2
    OBVIOUS
  <2>2. Script(b1, FALSE, TRUE) /\ Range(b1) = {Begin}
    BY StatementFacts, ScriptUnit DEF LegalStep
  <2>3. Script(b2, TRUE, TRUE) /\ Range(b2) = {Prepare("EqClass")}
    BY StatementFacts, ScriptUnit DEF LegalStep
  <2>4. \A x \in {Begin}, y \in {Prepare("EqClass")} : Follows(y, x)
    BY StatementFacts, FollowsAny
  <2> HIDE DEF b, b1, b2
  <2>5. \A x \in Range(b1), y \in Range(b2) : Follows(y, x)
    BY <2>2, <2>3, <2>4
  <2>6. Script(b, FALSE, TRUE) /\ Range(b) = Range(b1) \cup Range(b2)
    BY <2>1, <2>2, <2>3, <2>5, ScriptConcat
  <2> QED
    BY <2>2, <2>3, <2>6
<1> HIDE DEF b
<1>11. Script(<<Commit>>, TRUE, FALSE) /\ Range(<<Commit>>) = {Commit}
  BY StatementFacts, ScriptUnit DEF LegalStep
<1>12. \A x \in Range(b), y \in Range(u) : Follows(y, x)
  <2>1. ASSUME NEW c PROVE Follows(Update("EqClass", c), Prepare("EqClass"))
    BY StatementFacts, FollowsUpdate
  <2> QED
    BY <1>7, <1>10, <2>1, StatementFacts, FollowsAny DEF Updates
<1>13. Script(b \o u, FALSE, TRUE) /\ Range(b \o u) = Range(b) \cup Range(u)
  BY <1>9, <1>10, <1>12, ScriptConcat
<1>14. \A x \in Range(b \o u), y \in Range(<<Commit>>) : Follows(y, x)
  BY <1>11, StatementFacts, FollowsAny
<1>15. /\ Script((b \o u) \o <<Commit>>, FALSE, FALSE)
       /\ Range((b \o u) \o <<Commit>>) = Range(b \o u) \cup Range(<<Commit>>)
  BY <1>11, <1>13, <1>14, ScriptConcat
<1> QED
  BY <1>2, <1>7, <1>10, <1>11, <1>13, <1>15

FuzzyStatements(res) ==
    {Drop("Node"), Drop("EqClass"), Create("EqClass"), Create("Node"),
     Begin, Commit, Prepare("EqClass"), Prepare("Node")}
        \cup Inserts("EqClass", ClassRows(res)) \cup Inserts("Node", NodeRows(res))
        \cup Updates(res)

LEMMA DumpScript ==
    ASSUME NEW res \in Results \ {None}
    PROVE  LET s == DumpFuzzyDedupRes(res)
           IN  /\ Script(s, FALSE, FALSE)
               /\ Range(s) = {Begin, Commit, Prepare("EqClass"), Prepare("Node")}
                                 \cup Inserts("EqClass", ClassRows(res))
                                 \cup Inserts("Node", NodeRows(res))
<1> DEFINE b == <<Begin>>
           q == OutStream("EqClass", ClassRows(res))
           n == OutStream("Node", NodeRows(res))
           c == <<Commit>>
<1>1. Script(b, FALSE, TRUE) /\ Range(b) = {Begin}
  BY StatementFacts, ScriptUnit DEF LegalStep
<1>2. /\ Script(q, TRUE, TRUE)
      /\ Range(q) = {Prepare("EqClass")} \cup Inserts("EqClass", ClassRows(res))
  BY ResultRows, ScriptStream
<1>3. /\ Script(n, TRUE, TRUE)
      /\ Range(n) = {Prepare("Node")} \cup Inserts("Node", NodeRows(res))
  BY ResultRows, ScriptStream
<1>4. Script(c, TRUE, FALSE) /\ Range(c) = {Commit}
  BY StatementFacts, ScriptUnit DEF LegalStep
<1>5. DumpFuzzyDedupRes(res) = ((b \o q) \o n) \o c
  BY DEF DumpFuzzyDedupRes
<1> HIDE DEF b, q, n, c
<1>6. Script(b \o q, FALSE, TRUE) /\ Range(b \o q) = Range(b) \cup Range(q)
  <2>1. \A x \in Range(b), y \in Range(q) : Follows(y, x)
    BY <1>1, StatementFacts, FollowsAny
  <2> QED
    BY <1>1, <1>2, <2>1, ScriptConcat
<1>7. /\ Script((b \o q) \o n, FALSE, TRUE)
      /\ Range((b \o q) \o n) = Range(b \o q) \cup Range(n)
  <2>1. ASSUME NEW x \in Range(b \o q), NEW y \in Range(n)
        PROVE  Follows(y, x)
    <3>1. x = Begin \/ x = Prepare("EqClass") \/ (x.op = "insert" /\ x.table = "EqClass")
      BY <1>1, <1>2, <1>6, StatementFacts DEF Inserts
    <3>2. y = Prepare("Node") \/ (y.op = "insert" /\ y.table = "Node")
      BY <1>3, StatementFacts DEF Inserts
    <3> QED
      BY <3>1, <3>2, StatementFacts, FollowsAny, FollowsInsert
  <2> QED
    BY <1>3, <1>6, <2>1, ScriptConcat
<1>8. /\ Script(((b \o q) \o n) \o c, FALSE, FALSE)
      /\ Range(((b \o q) \o n) \o c) = Range((b \o q) \o n) \cup Range(c)
  <2> DEFINE s == (b \o q) \o n
  <2>1. Script(s, FALSE, TRUE)
    BY <1>7
  <2> HIDE DEF s
  <2>2. \A x \in Range(s), y \in Range(c) : Follows(y, x)
    BY <1>4, StatementFacts, FollowsAny
  <2>3. Script(s \o c, FALSE, FALSE) /\ Range(s \o c) = Range(s) \cup Range(c)
    BY <1>4, <2>1, <2>2, ScriptConcat
  <2> QED
    BY <2>3 DEF s
<1> QED
  BY <1>1, <1>2, <1>3, <1>4, <1>5, <1>6, <1>7, <1>8

LEMMA FuzzyScript ==
    ASSUME NEW res \in Results \ {None}
    PROVE  LET s == CreateResultsDatabase \o DumpFuzzyDedupRes(res)
                        \o DumpInterestingEqClasses(res)
           IN  Script(s, FALSE, FALSE) /\ Range(s) = FuzzyStatements(res)
<1> DEFINE d == CreateResultsDatabase
           f == DumpFuzzyDedupRes(res)
           i == DumpInterestingEqClasses(res)
<1>1. /\ Script(d, FALSE, FALSE)
      /\ Range(d) = {Drop("Node"), Drop("EqClass"), Create("EqClass"), Create("Node")}
  BY ResultsDatabaseOrdered DEF Script
<1>2. /\ Script(f, FALSE, FALSE)
      /\ Range(f) = {Begin, Commit, Prepare("EqClass"), Prepare("Node")}
                        \cup Inserts("EqClass", ClassRows(res))
                        \cup Inserts("Node", NodeRows(res))
  BY DumpScript
<1>3. /\ Script(i, FALSE, FALSE)
      /\ Range(i) = {Begin, Prepare("EqClass"), Commit} \cup Updates(res)
  BY InterestingScript
<1> HIDE DEF d, f, i
<1>4. Script(d \o f, FALSE, FALSE) /\ Range(d \o f) = Range(d) \cup Range(f)
  <2>1. ASSUME NEW x \in Range(d), NEW y \in Range(f)
        PROVE  Follows(y, x)
    <3>1. x.op \in {"drop", "create"}
      BY <1>1, StatementFacts
    <3>2. y.op \in {"begin", "commit", "prepare"} \/ y.op = "insert"
      BY <1>2, StatementFacts DEF Inserts
    <3> QED
      BY <3>1, <3>2, FollowsAny, FollowsInsert
  <2> QED
    BY <1>1, <1>2, <2>1, ScriptConcat
<1>5. /\ Script((d \o f) \o i, FALSE, FALSE)
      /\ Range((d \o f) \o i) = Range(d \o f) \cup Range(i)
  <2>1. ASSUME NEW x \in Range(d \o f), NEW y \in Range(i)
        PROVE  Follows(y, x)
    <3>1. x.op # "update"
      BY <1>1, <1>2, <1>4, StatementFacts DEF Inserts
    <3>2. y.op \in {"begin", "commit", "prepare"} \/ y.op = "update"
      BY <1>3, StatementFacts DEF Updates
    <3> QED
      BY <3>1, <3>2, FollowsAny, FollowsUpdate
  <2> QED
    BY <1>3, <1>4, <2>1, ScriptConcat
<1> QED
  <2>1. Range((d \o f) \o i) = FuzzyStatements(res)
    BY <1>1, <1>2, <1>3, <1>4, <1>5 DEF FuzzyStatements
  <2> QED
    BY <1>5, <2>1 DEF d, f, i

LEMMA TupleConcat == \A x, y, z : <<x, y>> \o <<z>> = <<x, y, z>>
<1> SUFFICES ASSUME NEW x, NEW y, NEW z
             PROVE  <<x, y>> \o <<z>> = <<x, y, z>>
  OBVIOUS
<1> DEFINE S == {x, y, z}
           s == <<x, y>>
           t == <<z>>
           u == <<x, y, z>>
<1>1. /\ s \in Seq(S) /\ t \in Seq(S) /\ u \in Seq(S)
      /\ Len(s) = 2 /\ Len(t) = 1 /\ Len(u) = 3
      /\ s[1] = x /\ s[2] = y /\ t[1] = z /\ u[1] = x /\ u[2] = y /\ u[3] = z
  OBVIOUS
<1> HIDE DEF S, s, t, u
<1>2. /\ s \o t \in Seq(S) /\ Len(s \o t) = Len(s) + Len(t)
      /\ \A i \in 1..Len(s) + Len(t) :
             (s \o t)[i] = IF i <= Len(s) THEN s[i] ELSE t[i - Len(s)]
  BY <1>1, ConcatProperties
<1>3. \A i \in 1..3 : (s \o t)[i] = u[i]
  <2>1. (s \o t)[1] = s[1] /\ (s \o t)[2] = s[2] /\ (s \o t)[3] = t[1]
    <3>1. 1 \in 1..2 + 1 /\ 2 \in 1..2 + 1 /\ 3 \in 1..2 + 1 /\ 3 - 2 = 1 /\ ~(3 <= 2)
      OBVIOUS
    <3> QED
      BY <1>1, <1>2, <3>1
  <2>2. \A i \in 1..3 : i = 1 \/ i = 2 \/ i = 3
    OBVIOUS
  <2> QED
    BY <1>1, <2>1, <2>2
<1>4. s \o t = u
  BY <1>1, <1>2, <1>3, SeqEqual
<1> QED
  BY <1>4 DEF s, t, u

CacheStatements(rows) ==
    {Drop("FileList"), Create("FileList"), Begin, Prepare("FileList"), Commit}
        \cup Inserts("FileList", rows)

LEMMA CacheScript ==
    ASSUME NEW rows, IsCache(rows)
    PROVE  Script(StoreCksums(rows), FALSE, FALSE)
           /\ Range(StoreCksums(rows)) = CacheStatements(rows)
<1> DEFINE d == <<Drop("FileList"), Create("FileList")>>
           b == <<Begin>>
           f == OutStream("FileList", rows)
           c == <<Commit>>
<1>1. /\ Script(d, FALSE, FALSE)
      /\ Range(d) = {Drop("FileList"), Create("FileList")}
  <2>1. IsSeq(d) /\ Range(d) = {Drop("FileList"), Create("FileList")}
    BY DEF IsSeq, Range
  <2>2. Ordered(d)
    BY FollowsDropCreate DEF Ordered, Tables
  <2>3. \A x \in Range(d) : LegalStep(x, FALSE, FALSE)
    BY <2>1, StatementFacts DEF LegalStep, ReportTables
  <2> QED
    BY <2>1, <2>2, <2>3, LegalSame DEF Script
<1>2. Script(b, FALSE, TRUE) /\ Range(b) = {Begin}
  BY StatementFacts, ScriptUnit DEF LegalStep
<1>3. /\ Script(f, TRUE, TRUE)
      /\ Range(f) = {Prepare("FileList")} \cup Inserts("FileList", rows)
  <2>1. IsFiniteSet(rows) /\ \A r, q \in rows : r.key = q.key => r = q
    BY DEF IsCache, IsFileList
  <2> QED
    BY <2>1, ScriptStream
<1>4. Script(c, TRUE, FALSE) /\ Range(c) = {Commit}
  BY StatementFacts, ScriptUnit DEF LegalStep
<1>5. StoreCksums(rows) = ((d \o b) \o f) \o c
  <2>1. d \o b = <<Drop("FileList"), Create("FileList"), Begin>>
    BY TupleConcat
  <2> HIDE DEF d, b, f, c
  <2> QED
    BY <2>1 DEF StoreCksums, f, c
<1> HIDE DEF d, b, f, c
<1>6. Script(d \o b, FALSE, TRUE) /\ Range(d \o b) = Range(d) \cup Range(b)
  <2>1. \A x \in Range(d), y \in Range(b) : Follows(y, x)
    BY <1>2, StatementFacts, FollowsAny
  <2> QED
    BY <1>1, <1>2, <2>1, ScriptConcat
<1>7. /\ Script((d \o b) \o f, FALSE, TRUE)
      /\ Range((d \o b) \o f) = Range(d \o b) \cup Range(f)
  <2>1. ASSUME NEW x \in Range(d \o b), NEW y \in Range(f)
        PROVE  Follows(y, x)
    <3>1. x.op \in {"drop", "create"} \/ x.op = "begin"
      BY <1>1, <1>2, <1>6, StatementFacts
    <3>2. y.op = "prepare" \/ y.op = "insert"
      BY <1>3, StatementFacts DEF Inserts
    <3> QED
      BY <3>1, <3>2, FollowsAny, FollowsInsert
  <2> QED
    BY <1>3, <1>6, <2>1, ScriptConcat
<1>8. /\ Script(((d \o b) \o f) \o c, FALSE, FALSE)
      /\ Range(((d \o b) \o f) \o c) = Range((d \o b) \o f) \cup Range(c)
  <2> DEFINE s == (d \o b) \o f
  <2>1. Script(s, FALSE, TRUE)
    BY <1>7
  <2> HIDE DEF s
  <2>2. \A x \in Range(s), y \in Range(c) : Follows(y, x)
    BY <1>4, StatementFacts, FollowsAny
  <2>3. Script(s \o c, FALSE, FALSE) /\ Range(s \o c) = Range(s) \cup Range(c)
    BY <1>4, <2>1, <2>2, ScriptConcat
  <2> QED
    BY <2>3 DEF s
<1> QED
  BY <1>1, <1>2, <1>3, <1>4, <1>5, <1>6, <1>7, <1>8 DEF CacheStatements

OpeningStatements(c) ==
    (IF c.reads THEN {Select("cache")} ELSE {})
        \cup (IF c.mode = "compare" /\ c.out THEN Range(DirCompDBStream) ELSE {})
        \cup (IF c.lists THEN {Select("listing")} ELSE {})

LEMMA OpeningScript ==
    ASSUME NEW c \in Confs
    PROVE  /\ Script(Opening(c), FALSE, c.mode = "compare" /\ c.out)
           /\ Range(Opening(c)) = OpeningStatements(c)
<1> PICK out \in BOOLEAN : out = (c.mode = "compare" /\ c.out)
  OBVIOUS
<1> DEFINE r == If(c.reads, <<Select("cache")>>)
           d == If(c.mode = "compare" /\ c.out, DirCompDBStream)
           l == If(c.lists, <<Select("listing")>>)
<1>1. c.reads \in BOOLEAN /\ c.lists \in BOOLEAN
  BY ConfsAssumption
<1>2. \A b \in BOOLEAN : \A t : Script(<<Select(t)>>, b, b) /\ Range(<<Select(t)>>) = {Select(t)}
  BY StatementFacts, ScriptUnit DEF LegalStep
<1>3. /\ Script(r, FALSE, FALSE)
      /\ Range(r) = IF c.reads THEN {Select("cache")} ELSE {}
  <2> DEFINE s == <<Select("cache")>>
  <2>1. Script(s, FALSE, FALSE) /\ Range(s) = {Select("cache")}
    BY <1>2
  <2> HIDE DEF s
  <2>2. Script(If(c.reads, s), FALSE, FALSE)
        /\ Range(If(c.reads, s)) = IF c.reads THEN Range(s) ELSE {}
    BY <1>1, <2>1, ScriptIf
  <2> QED
    BY <2>1, <2>2 DEF s
<1>4. /\ Script(d, FALSE, out)
      /\ Range(d) = IF out THEN Range(DirCompDBStream) ELSE {}
  <2>1. CASE out
    <3>1. out = TRUE /\ d = DirCompDBStream
      BY <2>1 DEF If
    <3> QED
      BY <3>1, ReportsOrdered DEF Script
  <2>2. CASE ~out
    <3>1. out = FALSE /\ d = <<>>
      BY <2>2 DEF If
    <3> HIDE DEF d
    <3> QED
      BY <3>1, ScriptEmpty
  <2> QED
    BY <2>1, <2>2
<1>5. /\ Script(l, out, out)
      /\ Range(l) = IF c.lists THEN {Select("listing")} ELSE {}
  <2> DEFINE s == <<Select("listing")>>
  <2>1. Script(s, out, out) /\ Range(s) = {Select("listing")}
    BY <1>1, <1>2
  <2> HIDE DEF s
  <2>2. Script(If(c.lists, s), out, out)
        /\ Range(If(c.lists, s)) = IF c.lists THEN Range(s) ELSE {}
    BY <1>1, <2>1, ScriptIf
  <2> QED
    BY <2>1, <2>2 DEF s
<1>6. Opening(c) = (r \o d) \o l
  BY DEF Opening
<1> HIDE DEF r, d, l
<1>7. Script(r \o d, FALSE, out) /\ Range(r \o d) = Range(r) \cup Range(d)
  <2>1. \A x \in Range(r), y \in Range(d) : Follows(y, x)
    BY <1>3, StatementFacts, FollowsAny
  <2> QED
    BY <1>1, <1>3, <1>4, <2>1, ScriptConcat
<1>8. /\ Script((r \o d) \o l, FALSE, out)
      /\ Range((r \o d) \o l) = Range(r \o d) \cup Range(l)
  <2> DEFINE s == r \o d
  <2>1. Script(s, FALSE, out)
    BY <1>7
  <2> HIDE DEF s
  <2>2. \A x \in Range(s), y \in Range(l) : Follows(y, x)
    BY <1>5, StatementFacts, FollowsAny
  <2>3. Script(s \o l, FALSE, out) /\ Range(s \o l) = Range(s) \cup Range(l)
    BY <1>1, <1>5, <2>1, <2>2, ScriptConcat
  <2> QED
    BY <2>3 DEF s
<1> QED
  BY <1>3, <1>4, <1>5, <1>6, <1>7, <1>8 DEF OpeningStatements

LEMMA ScriptFlatten ==
    ASSUME NEW seqs, IsSeq(seqs), NEW b \in BOOLEAN,
           \A i \in 1..Len(seqs) : Script(seqs[i], b, b),
           \A i, j \in 1..Len(seqs) : i < j =>
               \A x \in Range(seqs[i]), y \in Range(seqs[j]) : Follows(y, x)
    PROVE  /\ Script(FlattenSeq(seqs), b, b)
           /\ Range(FlattenSeq(seqs)) = UNION {Range(seqs[i]) : i \in 1..Len(seqs)}
<1> DEFINE n == Len(seqs)
           U(k) == UNION {Range(seqs[i]) : i \in 1..k}
<1>1. n \in Nat /\ (n = 0 <=> seqs = <<>>)
  BY IsSeqFacts DEF IsSeq
<1>2. CASE n = 0
  <2>1. FlattenSeq(seqs) = <<>>
    BY <1>1, <1>2 DEF FlattenSeq
  <2> QED
    BY <1>2, <2>1, ScriptEmpty
<1>3. CASE n # 0
  <2>0. PICK f : Flattens(seqs, f)
    BY <1>1, <1>3, Flattening
  <2>1. /\ f[1] = seqs[1]
        /\ \A i \in 2..n : f[i] = f[i - 1] \o seqs[i]
        /\ FlattenSeq(seqs) = f[n]
    BY <2>0 DEF Flattens
  <2> DEFINE m == n - 1
             P == {k \in 0..m : Script(f[k + 1], b, b) /\ Range(f[k + 1]) = U(k + 1)}
  <2>2. m \in Nat /\ n = m + 1
    BY <1>1, <1>3
  <2>3. 0 \in P
    <3>1. U(1) = Range(seqs[1]) /\ 1 \in 1..n
      BY <2>2
    <3> QED
      BY <2>1, <2>2, <3>1
  <2>4. ASSUME NEW k \in 0..m, k \in P, k < m
        PROVE  k + 1 \in P
    <3>1. /\ k + 1 \in 0..m /\ k + 2 \in 2..n /\ (k + 2) - 1 = k + 1 /\ (k + 1) + 1 = k + 2
          /\ k + 2 \in 1..n
      BY <2>2, <2>4
    <3>2. f[k + 2] = f[k + 1] \o seqs[k + 2]
      BY <2>1, <3>1
    <3> DEFINE s == f[k + 1]
               t == seqs[k + 2]
    <3>3. Script(s, b, b) /\ Range(s) = U(k + 1)
      BY <2>4
    <3>4. Script(t, b, b)
      BY <3>1
    <3>5. ASSUME NEW x \in Range(s), NEW y \in Range(t)
          PROVE  Follows(y, x)
      <4>1. PICK i \in 1..(k + 1) : x \in Range(seqs[i])
        BY <3>3
      <4>2. i \in 1..n /\ i < k + 2
        BY <2>2, <3>1
      <4> QED
        BY <3>1, <4>1, <4>2
    <3> HIDE DEF s, t
    <3>6. Script(s \o t, b, b) /\ Range(s \o t) = Range(s) \cup Range(t)
      BY <3>3, <3>4, <3>5, ScriptConcat
    <3>7. U(k + 2) = U(k + 1) \cup Range(seqs[k + 2])
      <4>1. \A i \in 1..(k + 2) : i \in 1..(k + 1) \/ i = k + 2
        OBVIOUS
      <4>2. \A i \in 1..(k + 1) : i \in 1..(k + 2)
        OBVIOUS
      <4>3. k + 2 \in 1..(k + 2)
        OBVIOUS
      <4> QED
        BY <4>1, <4>2, <4>3
    <3> QED
      BY <3>1, <3>2, <3>3, <3>6, <3>7 DEF s, t
  <2>5. m \in P
    <3> HIDE DEF P, m
    <3>1. \A k \in 0..m : k \in P /\ k < m => k + 1 \in P
      BY <2>4
    <3>2. \A k \in 0..m : k \in P
      BY <2>2, <2>3, <3>1, IntervalInduction
    <3> QED
      BY <2>2, <3>2
  <2> QED
    BY <2>1, <2>2, <2>5
<1> QED
  BY <1>2, <1>3

PrintOf(line) == Statement("print", None, line)

LEMMA LineScript ==
    ASSUME NEW r \in Reports, NEW i \in DOMAIN r.lines, NEW out \in BOOLEAN
    PROVE  LET line == r.lines[i]
               s == PrintLine(line, out)
           IN  /\ Script(s, out, out)
               /\ Range(s) = {PrintOf(line)} \cup
                      (IF out THEN Inserts(line.table, LineRows(line)) ELSE {})
<1> DEFINE line == r.lines[i]
           rows == LineRows(line)
           seq == SetToSeq(rows)
           s == [j \in DOMAIN seq |-> Insert(line.table, seq[j])]
           p == <<PrintOf(line)>>
           q == IF out THEN s ELSE <<>>
<1>1. /\ line.table \in ReportTables
      /\ line.candidates \in Seq(Range(line.candidates))
  BY ReportsAssumption
<1>2. IsFiniteSet(rows)
  <2>1. CASE line.table = "Removed"
    BY <2>1, FS_Singleton DEF LineRows
  <2>2. CASE line.table # "Removed"
    <3> DEFINE c == line.candidates
               f == [j \in DOMAIN c |-> Row(line.path, c[j])]
    <3>1. DOMAIN c = 1..Len(c) /\ Len(c) \in Nat
      BY <1>1, IsSeqFacts DEF IsSeq
    <3>2. IsFiniteSet(DOMAIN f) /\ f = [x \in DOMAIN f |-> f[x]]
      <4>1. DOMAIN f = DOMAIN c /\ f = [x \in DOMAIN f |-> f[x]]
        OBVIOUS
      <4>2. IsFiniteSet(1..Len(c))
        <5> PICK k \in Nat : k = Len(c)
          BY <3>1
        <5> QED
          BY FS_Interval, k \in Int, 1 \in Int
      <4> QED
        BY <3>1, <4>1, <4>2
    <3>3. Range(f) = rows
      BY <2>2 DEF LineRows, Range
    <3> HIDE DEF f
    <3> QED
      BY <3>2, <3>3, FiniteRange
  <2> QED
    BY <2>1, <2>2
<1>3. line.table \in Unique => \A x, y \in rows : x.key = y.key => x = y
  <2>1. ASSUME line.table \in Unique
        PROVE  rows = {Row(line.path, None)}
    BY <1>1, <2>1 DEF LineRows, Unique, ReportTables
  <2> QED
    BY <2>1
<1>4. IsSeq(s) /\ Range(s) = Inserts(line.table, rows) /\ Ordered(s)
  <2> HIDE DEF line, rows
  <2> QED
    BY <1>2, <1>3, InsertsOrdered
<1> HIDE DEF s
<1>5. Script(p, out, out) /\ Range(p) = {PrintOf(line)}
  <2>1. LegalStep(PrintOf(line), out, out)
    BY StatementFacts DEF PrintOf, LegalStep
  <2> QED
    BY <2>1, ScriptUnit
<1>6. Script(q, out, out) /\ Range(q) = IF out THEN Inserts(line.table, rows) ELSE {}
  <2>1. CASE out = TRUE
    <3>1. \A x \in Range(s) : LegalStep(x, TRUE, TRUE)
      BY <1>4, StatementFacts DEF LegalStep, Inserts
    <3> QED
      BY <1>4, <2>1, <3>1, LegalSame DEF Script
  <2>2. CASE out = FALSE
    <3>1. q = <<>>
      BY <2>2
    <3> QED
      BY <2>2, <3>1, ScriptEmpty
  <2> QED
    BY <2>1, <2>2
<1>7. PrintLine(line, out) = p \o q
  BY DEF PrintLine, PrintOf, s
<1> HIDE DEF p, q
<1>8. \A x \in Range(p), y \in Range(q) : Follows(y, x)
  BY <1>5, StatementFacts, FollowsAny DEF PrintOf
<1>9. Script(p \o q, out, out) /\ Range(p \o q) = Range(p) \cup Range(q)
  BY <1>5, <1>6, <1>8, ScriptConcat
<1> QED
  BY <1>5, <1>6, <1>7, <1>9

\* The statements of a report's lines
LineStatements(lines, out) ==
    UNION {{PrintOf(l)} \cup (IF out THEN Inserts(l.table, LineRows(l)) ELSE {}) :
              l \in Range(lines)}

LEMMA LinesScript ==
    ASSUME NEW r \in Reports, NEW out \in BOOLEAN
    PROVE  LET s == FlattenSeq([i \in DOMAIN r.lines |-> PrintLine(r.lines[i], out)])
           IN  Script(s, out, out) /\ Range(s) = LineStatements(r.lines, out)
<1> DEFINE lines == r.lines
           n == Len(lines)
           seqs == [i \in DOMAIN lines |-> PrintLine(lines[i], out)]
           Of(l) == {PrintOf(l)} \cup (IF out THEN Inserts(l.table, LineRows(l)) ELSE {})
<1>1. /\ lines \in Seq(Range(lines))
      /\ \A i, j \in DOMAIN lines :
             /\ lines[i].table \in ReportTables
             /\ i # j /\ lines[i].table = "Removed" /\ lines[j].table = "Removed"
                    => lines[i].path # lines[j].path
  BY ReportsAssumption
<1>2. n \in Nat /\ DOMAIN lines = 1..n /\ Range(lines) = {lines[i] : i \in 1..n}
  BY <1>1, IsSeqFacts DEF IsSeq
<1>3. \A i \in 1..n : Script(seqs[i], out, out) /\ Range(seqs[i]) = Of(lines[i])
  <2> SUFFICES ASSUME NEW i \in 1..n
               PROVE  Script(seqs[i], out, out) /\ Range(seqs[i]) = Of(lines[i])
    OBVIOUS
  <2>1. i \in DOMAIN r.lines
    BY <1>2
  <2>2. seqs[i] = PrintLine(r.lines[i], out)
    BY <2>1
  <2> HIDE DEF seqs
  <2> QED
    BY <2>1, <2>2, LineScript
<1>4. IsSeq(seqs) /\ Len(seqs) = n
  <2>1. seqs = [i \in DOMAIN lines |-> seqs[i]]
    OBVIOUS
  <2>2. IsSeq(lines)
    BY <1>1 DEF IsSeq
  <2> HIDE DEF seqs, lines
  <2> QED
    BY <2>1, <2>2, MappedRange
<1> HIDE DEF seqs
<1>5. ASSUME NEW i \in 1..n, NEW j \in 1..n, i < j,
             NEW x \in Range(seqs[i]), NEW y \in Range(seqs[j])
      PROVE  Follows(y, x)
  <2>1. CASE x = PrintOf(lines[i]) \/ y = PrintOf(lines[j])
    BY <2>1, StatementFacts, FollowsAny DEF PrintOf
  <2>2. CASE x # PrintOf(lines[i]) /\ y # PrintOf(lines[j])
    <3>1. /\ x \in Inserts(lines[i].table, LineRows(lines[i]))
          /\ y \in Inserts(lines[j].table, LineRows(lines[j]))
      BY <1>3, <2>2
    <3>2. PICK q \in LineRows(lines[i]) : x = Insert(lines[i].table, q)
      BY <3>1 DEF Inserts
    <3>3. PICK w \in LineRows(lines[j]) : y = Insert(lines[j].table, w)
      BY <3>1 DEF Inserts
    <3>4. /\ x.op = "insert" /\ x.table = lines[i].table /\ x.row = q
          /\ y.op = "insert" /\ y.table = lines[j].table /\ y.row = w
      BY <3>2, <3>3, StatementFacts
    <3>5. lines[i].table \in ReportTables /\ lines[j].table \in ReportTables
      BY <1>1, <1>2
    <3>6. ASSUME lines[i].table = lines[j].table, lines[i].table \in Unique
          PROVE  q.key # w.key
      <4>1. lines[i].table = "Removed" /\ lines[j].table = "Removed"
        BY <3>5, <3>6 DEF ReportTables, Unique
      <4>2. q = Row(lines[i].path, None) /\ w = Row(lines[j].path, None)
        BY <4>1 DEF LineRows
      <4>3. i # j
        BY <1>2, <1>5
      <4>4. lines[i].path # lines[j].path
        BY <1>1, <1>2, <4>1, <4>3
      <4> QED
        BY <4>2, <4>4, RowFields
    <3> QED
      BY <3>4, <3>5, <3>6, FollowsInsert DEF ReportTables
  <2> QED
    BY <2>1, <2>2
<1>6. /\ Script(FlattenSeq(seqs), out, out)
      /\ Range(FlattenSeq(seqs)) = UNION {Range(seqs[i]) : i \in 1..n}
  BY <1>3, <1>4, <1>5, ScriptFlatten
<1>7. UNION {Range(seqs[i]) : i \in 1..n} = UNION {Of(l) : l \in Range(lines)}
  <2> HIDE DEF Of
  <2> QED
    BY <1>2, <1>3
<1> QED
  BY <1>6, <1>7 DEF seqs, LineStatements

CompareStatements(r, out) ==
    LineStatements(r.lines, out) \cup (IF out THEN {Commit} ELSE {})

LEMMA CompareScript ==
    ASSUME NEW r \in Reports, NEW out \in BOOLEAN
    PROVE  LET s == FlattenSeq([i \in DOMAIN r.lines |-> PrintLine(r.lines[i], out)])
                        \o If(out, <<Commit>>)
           IN  Script(s, out, FALSE) /\ Range(s) = CompareStatements(r, out)
<1> DEFINE s == FlattenSeq([i \in DOMAIN r.lines |-> PrintLine(r.lines[i], out)])
           t == If(out, <<Commit>>)
<1>1. Script(s, out, out) /\ Range(s) = LineStatements(r.lines, out)
  BY LinesScript
<1>2. Script(t, out, FALSE) /\ Range(t) = IF out THEN {Commit} ELSE {}
  <2>1. CASE out = TRUE
    <3>1. t = <<Commit>>
      BY <2>1 DEF If
    <3>2. LegalStep(Commit, TRUE, FALSE)
      BY StatementFacts DEF LegalStep
    <3> HIDE DEF t
    <3> QED
      BY <2>1, <3>1, <3>2, ScriptUnit
  <2>2. CASE out = FALSE
    <3>1. t = <<>>
      BY <2>2 DEF If
    <3> HIDE DEF t
    <3> QED
      BY <2>2, <3>1, ScriptEmpty
  <2> QED
    BY <2>1, <2>2
<1> HIDE DEF s, t
<1>3. \A x \in Range(s), y \in Range(t) : Follows(y, x)
  BY <1>2, StatementFacts, FollowsAny
<1>4. Script(s \o t, out, FALSE) /\ Range(s \o t) = Range(s) \cup Range(t)
  BY ZenonT(60), <1>1, <1>2, <1>3, ScriptConcat
<1> QED
  BY <1>1, <1>2, <1>4 DEF s, t, CompareStatements

-----------------------------------------------------------------------------
(* What a step leaves to the other processes *)

\* What a process knows by itself
SamePlan(q) ==
    /\ phase'[q] = phase[q] /\ conf'[q] = conf[q] /\ script'[q] = script[q]
    /\ cache'[q] = cache[q] /\ result'[q] = result[q]
    /\ begun'[q] = begun[q] /\ printed'[q] = printed[q]

Same(q) == SamePlan(q) /\ cursor'[q] = cursor[q]

LEMMA MainMaps ==
    ASSUME NEW p \in Processes, MapsOK, Main(p)
    PROVE  MapsOK' /\ \A q \in Processes \ {p} : Same(q)
<1> USE DEF MapsOK, IsMap, Same, SamePlan, memory
<1>1. CASE Start(p)
  BY <1>1 DEF Start
<1>2. CASE Analyse(p)
  <2>1. PICK s : cache' = [cache EXCEPT ![p] = s]
    BY <1>2 DEF Analyse
  <2>2. PICK r : /\ result' = [result EXCEPT ![p] = r]
                 /\ script' = [script EXCEPT ![p] = Output(conf[p], r)]
    BY <1>2 DEF Analyse
  <2> QED
    BY <1>2, <2>1, <2>2 DEF Analyse
<1>3. CASE Finalize(p)
  BY <1>3 DEF Finalize
<1>4. CASE Exit(p)
  BY <1>4 DEF Exit
<1> QED
  BY <1>1, <1>2, <1>3, <1>4 DEF Main

LEMMA ExecuteMaps ==
    ASSUME NEW p \in Processes, MapsOK, Execute(p)
    PROVE  MapsOK' /\ \A q \in Processes \ {p} : Same(q)
<1> USE DEF MapsOK, IsMap, Same, SamePlan, memory, Done
<1>1. CASE BeginTransaction(p)
  BY <1>1 DEF BeginTransaction
<1>2. CASE Autocommit(p)
  BY <1>2 DEF Autocommit, Meddled
<1>3. CASE WriteInTransaction(p)
  BY <1>3 DEF WriteInTransaction
<1>4. CASE CommitTransaction(p)
  BY <1>4 DEF CommitTransaction, Publish, Meddled
<1>5. CASE PrepareStmt(p)
  BY <1>5 DEF PrepareStmt
<1>6. CASE PrintToStdout(p)
  BY <1>6 DEF PrintToStdout
<1>7. CASE BeginRead(p)
  BY <1>7 DEF BeginRead
<1>8. CASE ReadRow(p)
  BY <1>8 DEF ReadRow
<1>9. CASE EndRead(p)
  BY <1>9 DEF EndRead
<1> QED
  BY <1>1, <1>2, <1>3, <1>4, <1>5, <1>6, <1>7, <1>8, <1>9 DEF Execute

\* What a death leaves in the file, if the process had the write lock
Torn(torn) ==
    [rows |-> [t \in Tables |-> IF t \in torn THEN work.rows[t] ELSE disk.rows[t]],
     damaged |-> disk.damaged \cup torn]

LEMMA DeathEffect ==
    ASSUME NEW p \in Processes, MapsOK, Die(p)
    PROVE  /\ MapsOK' /\ \A q \in Processes \ {p} : Same(q)
           /\ Busy(p) /\ phase'[p] = (IF Refused(p) THEN "refused" ELSE "died")
           /\ cursor'[p] = None /\ begun'[p] = FALSE
           /\ conf'[p] = conf[p] /\ cache'[p] = cache[p] /\ result'[p] = result[p]
           /\ script'[p] = script[p] /\ printed'[p] = printed[p]
           /\ meddled'[p] = meddled[p]
           /\ writer # p => UNCHANGED <<disk, writer, work, meddled>>
           /\ writer = p =>
                  /\ writer' = None /\ work' = NewFile
                  /\ \E torn \in SUBSET {t \in Tables : Readers = {}
                                                  /\ work.rows[t] # disk.rows[t]} :
                         Publish(p, Torn(torn))
<1>1. \A db : Publish(p, db) => meddled' = Meddled(p, db, {}) /\ disk' = db
  BY DEF Publish
<1>2. \A db : IsMap(Meddled(p, db, {})) /\ Meddled(p, db, {})[p] = meddled[p]
  BY DEF Meddled, IsMap
<1>3. writer = p =>
          \E torn \in SUBSET {t \in Tables : Readers = {} /\ work.rows[t] # disk.rows[t]} :
              Publish(p, Torn(torn))
  BY DEF Die, Torn
<1>4. IsMap(meddled)' /\ meddled'[p] = meddled[p]
  <2>1. CASE writer = p
    BY <1>1, <1>2, <1>3, <2>1 DEF IsMap
  <2>2. CASE writer # p
    BY <2>2 DEF Die, MapsOK, IsMap
  <2> QED
    BY <2>1, <2>2
<1>5. /\ phase' = [phase EXCEPT ![p] = IF Refused(p) THEN "refused" ELSE "died"]
      /\ cursor' = [cursor EXCEPT ![p] = None] /\ begun' = [begun EXCEPT ![p] = FALSE]
      /\ UNCHANGED <<conf, cache, result, script, printed>>
  BY DEF Die, memory
<1>6. MapsOK'
  BY <1>4, <1>5 DEF MapsOK, IsMap
<1>7. \A q \in Processes \ {p} : Same(q)
  BY <1>5 DEF MapsOK, IsMap, Same, SamePlan
<1>8. /\ writer # p => UNCHANGED <<disk, writer, work, meddled>>
      /\ writer = p => writer' = None /\ work' = NewFile
  BY DEF Die, file
<1>9. /\ Busy(p) /\ phase'[p] = (IF Refused(p) THEN "refused" ELSE "died")
      /\ cursor'[p] = None /\ begun'[p] = FALSE
      /\ conf'[p] = conf[p] /\ cache'[p] = cache[p] /\ result'[p] = result[p]
      /\ script'[p] = script[p] /\ printed'[p] = printed[p]
  BY <1>5 DEF Die, Busy, MapsOK, IsMap
<1> QED
  BY <1>3, <1>4, <1>6, <1>7, <1>8, <1>9

\* A table a process sees stays as it is, unless another has meddled with it.
Keeps(q) ==
    /\ meddled[q] \subseteq meddled'[q] /\ meddled'[q] \subseteq Tables
    /\ \A t \in Tables : View(q)'.rows[t] = View(q).rows[t] \/ t \in meddled'[q]

LEMMA KeepsFile ==
    ASSUME NEW q \in Processes, meddled[q] \subseteq Tables,
           UNCHANGED <<disk, writer, work, meddled>>
    PROVE  Keeps(q)
BY DEF Keeps, View

LEMMA KeepsPublished ==
    ASSUME NEW p \in Processes, NEW q \in Processes \ {p}, meddled[q] \subseteq Tables,
           writer \in {None, p}, writer' = None,
           NEW dropped, meddled' = Meddled(p, disk', dropped)
    PROVE  Keeps(q)
<1>1. meddled'[q] = meddled[q] \cup {t \in Tables : disk'.rows[t] # disk.rows[t]}
  BY DEF Meddled
<1>2. View(q) = disk /\ View(q)' = disk'
  BY NoneAssumption DEF View
<1> QED
  BY <1>1, <1>2 DEF Keeps

LEMMA KeepsOthers ==
    ASSUME NEW p \in Processes, NEW q \in Processes \ {p}, Shape,
           Main(p) \/ Execute(p) \/ Die(p)
    PROVE  Keeps(q)
<1>1. meddled[q] \subseteq Tables /\ MapsOK
  BY DEF Shape, MemoryOK
<1>2. CASE Main(p)
  <2>1. UNCHANGED <<disk, writer, work, meddled>>
    BY <1>2 DEF Main, Start, Analyse, Finalize, Exit, file
  <2> QED
    BY <1>1, <2>1, KeepsFile
<1>3. CASE BeginTransaction(p) \/ PrepareStmt(p) \/ PrintToStdout(p) \/ BeginRead(p)
           \/ ReadRow(p) \/ EndRead(p)
  <2>1. UNCHANGED <<disk, writer, work, meddled>>
    BY <1>3 DEF BeginTransaction, PrepareStmt, PrintToStdout, BeginRead, ReadRow, EndRead, file
  <2> QED
    BY <1>1, <2>1, KeepsFile
<1>4. CASE Autocommit(p)
  <2>1. writer = None /\ writer' = None /\ meddled' = Meddled(p, disk', Dropped(p))
    BY <1>4 DEF Autocommit
  <2> QED
    BY <1>1, <2>1, KeepsPublished
<1>5. CASE WriteInTransaction(p)
  <2>1. /\ writer \in {None, p} /\ writer' = p /\ disk' = disk
        /\ meddled' = [meddled EXCEPT ![p] = @ \ Dropped(p)]
    BY <1>5 DEF WriteInTransaction
  <2>2. View(q) = disk /\ View(q)' = disk'
    BY <2>1, NoneAssumption DEF View
  <2>3. meddled'[q] = meddled[q]
    BY <1>1, <2>1 DEF MapsOK, IsMap
  <2> QED
    BY <1>1, <2>1, <2>2, <2>3 DEF Keeps
<1>6. CASE CommitTransaction(p)
  <2>1. CASE writer = p
    <3>1. writer' = None /\ disk' = work /\ meddled' = Meddled(p, work, {})
      BY <1>6, <2>1 DEF CommitTransaction, Publish
    <3>2. meddled' = Meddled(p, disk', {})
      BY <3>1
    <3> QED
      BY <1>1, <2>1, <3>1, <3>2, KeepsPublished
  <2>2. CASE writer # p
    <3>1. UNCHANGED <<disk, writer, work, meddled>>
      BY <1>6, <2>2 DEF CommitTransaction, file
    <3> QED
      BY <1>1, <3>1, KeepsFile
  <2> QED
    BY <2>1, <2>2
<1>7. CASE Die(p)
  <2>1. CASE writer = p
    <3>1. writer' = None /\ \E db : disk' = db /\ meddled' = Meddled(p, db, {})
      BY <1>1, <1>7, <2>1, DeathEffect DEF Publish
    <3>2. meddled' = Meddled(p, disk', {})
      BY <3>1
    <3> QED
      BY <1>1, <2>1, <3>1, <3>2, KeepsPublished
  <2>2. CASE writer # p
    BY <1>1, <1>7, <2>2, DeathEffect, KeepsFile
  <2> QED
    BY <2>1, <2>2
<1> QED
  BY <1>2, <1>3, <1>4, <1>5, <1>6, <1>7 DEF Execute

LEMMA SameProcess ==
    ASSUME NEW q \in Processes, SamePlan(q), Keeps(q), ProcessOK(q)
    PROVE  ProcessOK(q)'
<1> SUFFICES ASSUME Alive(q)'
             PROVE  ScriptOK(q)' /\ LegalOK(q)' /\ PlanOK(q)' /\ TablesOK(q)' /\ PrintsOK(q)'
  BY DEF ProcessOK
<1>1. Alive(q) /\ ScriptOK(q) /\ LegalOK(q) /\ PlanOK(q) /\ TablesOK(q) /\ PrintsOK(q)
  BY DEF ProcessOK, Alive, Busy, SamePlan
<1>2. /\ Left(q)' = Left(q) /\ (Compares(q)' <=> Compares(q)) /\ Hands(q)' = Hands(q)
      /\ \A t : Target(q, t)' = Target(q, t) /\ ToInsert(q, t)' = ToInsert(q, t)
      /\ ToPrint(q)' = ToPrint(q)
  BY DEF SamePlan, Left, Compares, Hands, Target, ToInsert, ToPrint
<1>3. ScriptOK(q)'
  <2>1. \A s : StatementOK(q, s) => StatementOK(q, s)'
    BY <1>2 DEF SamePlan, StatementOK
  <2> QED
    BY <1>1, <1>2, <2>1 DEF ScriptOK, SamePlan
<1>4. LegalOK(q)'
  BY <1>1, <1>2 DEF LegalOK, SamePlan
<1>5. PlanOK(q)'
  BY <1>1, <1>2 DEF PlanOK
<1>6. TablesOK(q)'
  <2> SUFFICES ASSUME NEW t \in Hands(q), t \notin meddled'[q], Drop(t) \notin Left(q)
               PROVE  IF Create(t) \in Left(q) THEN View(q)'.rows[t] = Absent
                      ELSE Stored(q, t, View(q).rows[t])'
    BY <1>2 DEF TablesOK
  <2>1. t \in Tables
    BY DEF Hands
  <2>2. t \notin meddled[q] /\ View(q)'.rows[t] = View(q).rows[t]
    BY <2>1 DEF Keeps
  <2>3. IF Create(t) \in Left(q) THEN View(q).rows[t] = Absent
        ELSE Stored(q, t, View(q).rows[t])
    BY <1>1, <2>2 DEF TablesOK
  <2>4. \A rows : Stored(q, t, rows) => /\ rows \cup ToInsert(q, t)' = Target(q, t)'
                                        /\ t \in Unique => Keys(rows) \cap Keys(ToInsert(q, t)') = {}
    BY <1>2 DEF Stored
  <2> QED
    BY <2>2, <2>3, <2>4 DEF Stored
<1>7. PrintsOK(q)'
  BY <1>1, <1>2 DEF PrintsOK, SamePlan
<1> QED
  BY <1>3, <1>4, <1>5, <1>6, <1>7

-----------------------------------------------------------------------------
(* What a statement does to its own process *)

LEMMA Executed ==
    ASSUME NEW p \in Processes, MapsOK, Todo(p), ScriptOK(p), Done(p)
    PROVE  /\ script'[p] = Tail(script[p])
           /\ IsSeq(script'[p]) /\ Ordered(script'[p])
           /\ Left(p) = {Step(p)} \cup Left(p)'
           /\ \A y \in Left(p)' : Follows(y, Step(p))
           /\ StatementOK(p, Step(p)) /\ \A y \in Left(p)' : StatementOK(p, y)
<1>1. script'[p] = Tail(script[p])
  BY DEF Done, MapsOK, IsMap
<1>2. IsSeq(script[p]) /\ script[p] # <<>> /\ Ordered(script[p])
  BY DEF Todo, ScriptOK
<1>3. /\ IsSeq(Tail(script[p]))
      /\ Range(script[p]) = {Head(script[p])} \cup Range(Tail(script[p]))
  BY <1>2, TailRange
<1>4. Ordered(Tail(script[p])) /\ \A y \in Range(Tail(script[p])) : Follows(y, Head(script[p]))
  BY <1>2, OrderedTail
<1>5. Left(p)' = Range(Tail(script[p]))
  BY <1>1 DEF Left
<1>6. Left(p) = {Step(p)} \cup Left(p)' /\ \A y \in Left(p)' : Follows(y, Step(p))
  BY <1>3, <1>4, <1>5 DEF Left, Step
<1>7. StatementOK(p, Step(p)) /\ \A y \in Left(p)' : StatementOK(p, y)
  BY <1>6 DEF ScriptOK
<1> QED
  BY <1>1, <1>3, <1>4, <1>6, <1>7

\* The process stays in its phase, and executes its next statement.
Executes(p) ==
    /\ MapsOK /\ MemoryOK(p) /\ Todo(p) /\ ProcessOK(p) /\ Done(p)
    /\ phase'[p] = phase[p] /\ conf'[p] = conf[p] /\ result'[p] = result[p]
    /\ cache'[p] = cache[p] \/ phase[p] = "open"

LEMMA ExecutesScript ==
    ASSUME NEW p \in Processes, Executes(p)
    PROVE  /\ Alive(p) /\ ScriptOK(p) /\ LegalOK(p) /\ PlanOK(p) /\ TablesOK(p) /\ PrintsOK(p)
           /\ Hands(p)' = Hands(p) /\ (Compares(p)' <=> Compares(p))
           /\ ScriptOK(p)'
           /\ \A t \in Hands(p) : t = "FileList" => cache'[p] = cache[p]
<1>1. Alive(p) /\ ScriptOK(p) /\ LegalOK(p) /\ PlanOK(p) /\ TablesOK(p) /\ PrintsOK(p)
  BY DEF Executes, ProcessOK, Alive, Busy, Todo
<1>2. Hands(p)' = Hands(p) /\ (Compares(p)' <=> Compares(p))
  BY DEF Executes, Hands, Compares
<1>3. /\ IsSeq(script'[p]) /\ Ordered(script'[p])
      /\ \A y \in Left(p)' : StatementOK(p, y)
  BY <1>1, Executed DEF Executes
<1>4. \A y : StatementOK(p, y) => StatementOK(p, y)'
  BY <1>2 DEF StatementOK, Executes
<1>5. phase'[p] # "exit"
  BY DEF Executes, Todo
<1>6. ScriptOK(p)'
  BY <1>3, <1>4, <1>5 DEF ScriptOK
<1>7. \A t \in Hands(p) : t = "FileList" => cache'[p] = cache[p]
  BY DEF Hands, Executes, ReportTables, ResultTables
<1> QED
  BY <1>1, <1>2, <1>6, <1>7

LEMMA LegalNext ==
    ASSUME NEW p \in Processes, Executes(p), begun'[p] \in BOOLEAN,
           LegalStep(Step(p), begun[p], begun'[p]) \/ begun'[p] = begun[p],
           Step(p).op \in {"begin", "commit"} => begun'[p] = (Step(p).op = "begin")
    PROVE  LegalOK(p)' /\ LegalStep(Step(p), begun[p], begun'[p])
<1>1. /\ ScriptOK(p) /\ LegalOK(p) /\ script'[p] = Tail(script[p])
      /\ (Compares(p)' <=> Compares(p))
  BY ExecutesScript, Executed DEF Executes
<1> PICK e \in BOOLEAN : e = (phase[p] = "open" /\ Compares(p))
  OBVIOUS
<1>2. IsSeq(script[p]) /\ script[p] # <<>> /\ Legal(script[p], begun[p], e)
      /\ begun[p] \in BOOLEAN
  BY <1>1 DEF LegalOK, ScriptOK, Todo, Executes, MemoryOK
<1>3. PICK m \in BOOLEAN : LegalStep(Step(p), begun[p], m) /\ Legal(Tail(script[p]), m, e)
  <2> PICK s : s = script[p]
    OBVIOUS
  <2> PICK b \in BOOLEAN : b = begun[p]
    BY <1>2
  <2>1. IsSeq(s) /\ s # <<>> /\ Legal(s, b, e)
    BY <1>2
  <2>2. LegalFirst(s, b, e)
    BY <2>1, LegalTail
  <2> QED
    BY <2>2 DEF Step, LegalFirst
<1>4. m = begun'[p]
  BY <1>2, <1>3 DEF LegalStep
<1>5. Legal(script'[p], begun'[p], e)
  BY <1>1, <1>3, <1>4
<1>6. e = (phase'[p] = "open" /\ Compares(p)')
  BY <1>1 DEF Executes
<1> QED
  BY <1>3, <1>4, <1>5, <1>6 DEF LegalOK

LEMMA SameTarget ==
    ASSUME NEW p \in Processes, NEW t \in Hands(p),
           result'[p] = result[p], phase'[p] = phase[p],
           t = "FileList" => cache'[p] = cache[p],
           t = "EqClass" =>
               \A c : Update("EqClass", c) \in Left(p)' <=> Update("EqClass", c) \in Left(p)
    PROVE  Target(p, t)' = Target(p, t)
<1>1. t \in Tables
  BY DEF Hands
<1>2. CASE t \in {"FileList", "Node"}
  BY <1>2 DEF Target
<1>3. CASE t \in ReportTables
  BY <1>3 DEF Target, ReportTables
<1>4. CASE t = "EqClass"
  <2>1. {c \in result[p].interesting : Update("EqClass", c) \notin Left(p)}
            = {c \in result[p].interesting : Update("EqClass", c) \notin Left(p)'}
    BY <1>4
  <2> QED
    BY <1>4, <2>1 DEF Target
<1> QED
  BY <1>1, <1>2, <1>3, <1>4 DEF Tables, ReportTables

\* A statement that writes nothing
LEMMA QuietStatement ==
    ASSUME NEW p \in Processes, Executes(p), ~Writes(Step(p)),
           meddled'[p] = meddled[p],
           \A t \in Tables : View(p)'.rows[t] = View(p).rows[t]
    PROVE  PlanOK(p)' /\ TablesOK(p)'
<1>1. /\ PlanOK(p) /\ TablesOK(p) /\ Hands(p)' = Hands(p)
      /\ \A t \in Hands(p) : t = "FileList" => cache'[p] = cache[p]
  BY ExecutesScript
<1>2. Left(p) = {Step(p)} \cup Left(p)'
  BY ExecutesScript, Executed DEF Executes
<1>3. \A x : Writes(x) => (x \in Left(p)' <=> x \in Left(p))
  BY <1>2
<1>4. \A t, r : /\ Drop(t) \in Left(p)' <=> Drop(t) \in Left(p)
                /\ Create(t) \in Left(p)' <=> Create(t) \in Left(p)
                /\ Update(t, r) \in Left(p)' <=> Update(t, r) \in Left(p)
  BY <1>3, StatementFacts DEF Writes
<1>5. \A t : ToInsert(p, t)' = ToInsert(p, t)
  BY <1>3 DEF ToInsert, Writes
<1>6. \A t \in Hands(p) : Target(p, t)' = Target(p, t)
  BY <1>1, <1>4, SameTarget DEF Executes
<1>7. PlanOK(p)'
  BY <1>1, <1>4, <1>5, <1>6 DEF PlanOK
<1>8. TablesOK(p)'
  <2> SUFFICES ASSUME NEW t \in Hands(p), t \notin meddled[p], Drop(t) \notin Left(p)
               PROVE  IF Create(t) \in Left(p) THEN View(p)'.rows[t] = Absent
                      ELSE Stored(p, t, View(p).rows[t])'
    BY <1>1, <1>4 DEF TablesOK
  <2>1. View(p)'.rows[t] = View(p).rows[t]
    BY DEF Hands
  <2>2. IF Create(t) \in Left(p) THEN View(p).rows[t] = Absent
        ELSE Stored(p, t, View(p).rows[t])
    BY <1>1 DEF TablesOK
  <2> QED
    BY <1>5, <1>6, <2>1, <2>2 DEF Stored
<1> QED
  BY <1>7, <1>8

\* The process writes a statement to the file as it sees it.
WritesTo(p) ==
    /\ Executes(p) /\ Writes(Step(p))
    /\ View(p).rows = [t \in Tables |-> View(p).rows[t]]
    /\ View(p)' = Apply(View(p), Step(p))
    /\ meddled'[p] = meddled[p] \ Dropped(p)

LEMMA WritesToScript ==
    ASSUME NEW p \in Processes, WritesTo(p)
    PROVE  /\ PlanOK(p) /\ TablesOK(p) /\ Hands(p)' = Hands(p) /\ Hands(p) \subseteq Tables
           /\ Left(p) = {Step(p)} \cup Left(p)' /\ \A y \in Left(p)' : Follows(y, Step(p))
           /\ StatementOK(p, Step(p)) /\ Step(p).table \in Hands(p)
           /\ \A t \in Hands(p) : t = "FileList" => cache'[p] = cache[p]
           /\ \A t \in Hands(p) :
                  (\A c : Update("EqClass", c) \in Left(p)' <=> Update("EqClass", c) \in Left(p))
                      => Target(p, t)' = Target(p, t)
<1>1. Executes(p)
  BY DEF WritesTo
<1>2. /\ PlanOK(p) /\ TablesOK(p) /\ Hands(p)' = Hands(p)
      /\ \A t \in Hands(p) : t = "FileList" => cache'[p] = cache[p]
  BY <1>1, ExecutesScript
<1>3. /\ Left(p) = {Step(p)} \cup Left(p)' /\ \A y \in Left(p)' : Follows(y, Step(p))
      /\ StatementOK(p, Step(p))
  BY <1>1, ExecutesScript, Executed DEF Executes
<1>4. Step(p).table \in Hands(p)
  BY <1>3 DEF StatementOK, WritesTo, Writes
<1>5. \A t \in Hands(p) :
          (\A c : Update("EqClass", c) \in Left(p)' <=> Update("EqClass", c) \in Left(p))
              => Target(p, t)' = Target(p, t)
  BY <1>1, <1>2, SameTarget DEF Executes
<1>6. Hands(p) \subseteq Tables
  BY DEF Hands
<1> QED
  BY <1>2, <1>3, <1>4, <1>5, <1>6

LEMMA DropStatement ==
    ASSUME NEW p \in Processes, WritesTo(p), Step(p).op = "drop"
    PROVE  PlanOK(p)' /\ TablesOK(p)'
<1> DEFINE u == Step(p).table
<1>1. /\ PlanOK(p) /\ TablesOK(p) /\ Hands(p)' = Hands(p) /\ Hands(p) \subseteq Tables
      /\ Left(p) = {Step(p)} \cup Left(p)' /\ \A y \in Left(p)' : Follows(y, Step(p))
      /\ StatementOK(p, Step(p)) /\ u \in Hands(p)
      /\ \A t \in Hands(p) :
             (\A c : Update("EqClass", c) \in Left(p)' <=> Update("EqClass", c) \in Left(p))
                 => Target(p, t)' = Target(p, t)
  BY WritesToScript
<1>2. Step(p) = Drop(u)
  BY <1>1 DEF StatementOK
<1>3. Drop(u) \in Left(p) /\ Drop(u) \notin Left(p)'
  BY <1>1, <1>2, StatementFacts DEF Follows
<1>4. \A x : x.op # "drop" => (x \in Left(p)' <=> x \in Left(p))
  BY <1>1
<1>5. \A t, r : /\ Create(t) \in Left(p)' <=> Create(t) \in Left(p)
                /\ Update(t, r) \in Left(p)' <=> Update(t, r) \in Left(p)
                /\ t # u => (Drop(t) \in Left(p)' <=> Drop(t) \in Left(p))
  BY <1>1, <1>2, <1>4, StatementFacts
<1>6. \A t : ToInsert(p, t)' = ToInsert(p, t)
  BY <1>4 DEF ToInsert
<1>7. \A t \in Hands(p) : Target(p, t)' = Target(p, t)
  BY <1>1, <1>5
<1>8. PlanOK(p)'
  BY <1>1, <1>3, <1>5, <1>6, <1>7 DEF PlanOK
<1>9. View(p)'.rows = [View(p).rows EXCEPT ![u] = Absent] /\ meddled'[p] = meddled[p] \ {u}
  BY DEF WritesTo, Apply, Dropped
<1>10. ASSUME NEW t \in Hands(p), t \notin meddled'[p], Drop(t) \notin Left(p)'
       PROVE  IF Create(t) \in Left(p) THEN View(p)'.rows[t] = Absent
              ELSE Stored(p, t, View(p).rows[t])'
  <2>1. CASE t = u
    <3>1. View(p)'.rows[t] = Absent
      BY <1>1, <1>9, <2>1 DEF WritesTo
    <3>2. Create(t) \in Left(p)
      BY <1>1, <1>3, <2>1 DEF PlanOK
    <3> QED
      BY <3>1, <3>2
  <2>2. CASE t # u
    <3>1. View(p)'.rows[t] = View(p).rows[t] /\ t \notin meddled[p] /\ Drop(t) \notin Left(p)
      BY <1>1, <1>5, <1>9, <1>10, <2>2 DEF WritesTo
    <3>2. IF Create(t) \in Left(p) THEN View(p).rows[t] = Absent
          ELSE Stored(p, t, View(p).rows[t])
      BY <1>1, <3>1 DEF TablesOK
    <3> QED
      BY <1>6, <1>7, <3>1, <3>2 DEF Stored
  <2> QED
    BY <2>1, <2>2
<1>11. TablesOK(p)'
  BY <1>1, <1>5, <1>10 DEF TablesOK
<1> QED
  BY <1>8, <1>11

LEMMA CreateStatement ==
    ASSUME NEW p \in Processes, WritesTo(p), Step(p).op = "create"
    PROVE  PlanOK(p)' /\ TablesOK(p)'
<1> DEFINE u == Step(p).table
<1>1. /\ PlanOK(p) /\ TablesOK(p) /\ Hands(p)' = Hands(p) /\ Hands(p) \subseteq Tables
      /\ Left(p) = {Step(p)} \cup Left(p)' /\ \A y \in Left(p)' : Follows(y, Step(p))
      /\ StatementOK(p, Step(p)) /\ u \in Hands(p)
      /\ \A t \in Hands(p) :
             (\A c : Update("EqClass", c) \in Left(p)' <=> Update("EqClass", c) \in Left(p))
                 => Target(p, t)' = Target(p, t)
  BY WritesToScript
<1>2. Step(p) = Create(u)
  BY <1>1 DEF StatementOK
<1>3. Create(u) \in Left(p) /\ Create(u) \notin Left(p)'
  BY <1>1, <1>2, StatementFacts DEF Follows
<1>4. \A y \in Left(p) : y.op # "drop"
  <2>1. \A y \in Left(p)' : y.op # "drop"
    BY <1>1, <1>2, StatementFacts DEF Follows, Writes, Level
  <2> QED
    BY <1>1, <2>1
<1>5. \A x : x.op # "create" => (x \in Left(p)' <=> x \in Left(p))
  BY <1>1
<1>6. \A t, r : /\ Drop(t) \notin Left(p) /\ Drop(t) \notin Left(p)'
                /\ Update(t, r) \in Left(p)' <=> Update(t, r) \in Left(p)
                /\ t # u => (Create(t) \in Left(p)' <=> Create(t) \in Left(p))
  BY <1>1, <1>2, <1>4, <1>5, StatementFacts
<1>7. \A t : ToInsert(p, t)' = ToInsert(p, t)
  BY <1>5 DEF ToInsert
<1>8. \A t \in Hands(p) : Target(p, t)' = Target(p, t)
  BY <1>1, <1>6
<1>9. PlanOK(p)'
  BY <1>1, <1>3, <1>6, <1>7, <1>8 DEF PlanOK
<1>10. View(p)'.rows = [View(p).rows EXCEPT ![u] = {}] /\ meddled'[p] = meddled[p]
  <2>1. View(p)' = [View(p) EXCEPT !.rows = [View(p).rows EXCEPT ![u] = {}]]
    BY DEF WritesTo, Apply
  <2> QED
    BY <2>1 DEF WritesTo, Dropped
<1>11. ASSUME NEW t \in Hands(p), t \notin meddled'[p]
       PROVE  IF Create(t) \in Left(p)' THEN View(p)'.rows[t] = Absent
              ELSE Stored(p, t, View(p).rows[t])'
  <2>1. CASE t = u
    <3>1. View(p)'.rows[t] = {}
      BY <1>1, <1>10, <2>1 DEF WritesTo
    <3>2. ToInsert(p, t) = Target(p, t)
      BY <1>1, <1>3, <2>1 DEF PlanOK
    <3> QED
      BY <1>3, <1>7, <1>8, <2>1, <3>1, <3>2 DEF Stored, Keys
  <2>2. CASE t # u
    <3>1. View(p)'.rows[t] = View(p).rows[t] /\ t \notin meddled[p]
      BY <1>1, <1>10, <1>11, <2>2 DEF WritesTo
    <3>2. IF Create(t) \in Left(p) THEN View(p).rows[t] = Absent
          ELSE Stored(p, t, View(p).rows[t])
      BY <1>1, <1>6, <3>1 DEF TablesOK
    <3> QED
      BY <1>6, <1>7, <1>8, <2>2, <3>1, <3>2 DEF Stored
  <2> QED
    BY <2>1, <2>2
<1>12. TablesOK(p)'
  BY <1>1, <1>11 DEF TablesOK
<1> QED
  BY <1>9, <1>12

LEMMA InsertStatement ==
    ASSUME NEW p \in Processes, WritesTo(p), Step(p).op = "insert"
    PROVE  PlanOK(p)' /\ TablesOK(p)'
<1> PICK u, r : u = Step(p).table /\ r = Step(p).row
  OBVIOUS
<1>1. /\ PlanOK(p) /\ TablesOK(p) /\ Hands(p)' = Hands(p) /\ Hands(p) \subseteq Tables
      /\ Left(p) = {Step(p)} \cup Left(p)' /\ \A y \in Left(p)' : Follows(y, Step(p))
      /\ StatementOK(p, Step(p)) /\ u \in Hands(p)
      /\ \A t \in Hands(p) :
             (\A c : Update("EqClass", c) \in Left(p)' <=> Update("EqClass", c) \in Left(p))
                 => Target(p, t)' = Target(p, t)
  BY WritesToScript
<1>2. \A y \in Left(p) : y.op # "drop" /\ y.op # "create"
  <2>1. \A y \in Left(p)' : y.op # "drop" /\ y.op # "create"
    BY <1>1 DEF Follows, Writes, Level
  <2> QED
    BY <1>1, <2>1
<1>3. \A x : x.op # "insert" => (x \in Left(p)' <=> x \in Left(p))
  BY <1>1
<1>4. \A t, c : /\ Drop(t) \notin Left(p) /\ Drop(t) \notin Left(p)'
                /\ Create(t) \notin Left(p) /\ Create(t) \notin Left(p)'
                /\ Update(t, c) \in Left(p)' <=> Update(t, c) \in Left(p)
  BY <1>1, <1>2, <1>3, StatementFacts
<1>5. \A t \in Hands(p) : Target(p, t)' = Target(p, t)
  BY <1>1, <1>4
<1>6. /\ \A t : t # u => ToInsert(p, t)' = ToInsert(p, t)
      /\ ToInsert(p, u) = ToInsert(p, u)' \cup {r}
  <2>1. /\ \A t : ToInsert(p, t)' = {s.row : s \in {s \in Left(p)' : s.op = "insert" /\ s.table = t}}
        /\ \A t : ToInsert(p, t) = {s.row : s \in {s \in Left(p) : s.op = "insert" /\ s.table = t}}
    BY DEF ToInsert
  <2>2. ASSUME NEW t, t # u
        PROVE  ToInsert(p, t)' = ToInsert(p, t)
    <3>1. {s \in Left(p) : s.op = "insert" /\ s.table = t}
              = {s \in Left(p)' : s.op = "insert" /\ s.table = t}
      BY <1>1, <2>2
    <3> QED
      BY <2>1, <3>1
  <2>3. {s \in Left(p) : s.op = "insert" /\ s.table = u}
            = {Step(p)} \cup {s \in Left(p)' : s.op = "insert" /\ s.table = u}
    BY <1>1
  <2>4. ToInsert(p, u) = ToInsert(p, u)' \cup {r}
    BY <2>1, <2>3
  <2> QED
    BY <2>2, <2>4
<1>7. PlanOK(p)'
  <2> SUFFICES ASSUME NEW t \in Hands(p)
               PROVE  ToInsert(p, t)' \subseteq Target(p, t)'
    BY <1>1, <1>4 DEF PlanOK
  <2>1. ToInsert(p, t) \subseteq Target(p, t)
    BY <1>1 DEF PlanOK
  <2> QED
    BY <1>5, <1>6, <2>1
<1>8. u \in Unique => r.key \notin Keys(ToInsert(p, u)')
  <2> SUFFICES ASSUME u \in Unique, NEW y \in Left(p)', y.op = "insert", y.table = u
               PROVE  y.row.key # r.key
    BY DEF ToInsert, Keys
  <2> QED
    BY <1>1 DEF Follows
<1>9. /\ View(p)'.rows = [View(p).rows EXCEPT ![u] = View(p).rows[u] \cup {r}]
      /\ meddled'[p] = meddled[p]
  <2>1. View(p)' = [View(p) EXCEPT !.rows =
                        [View(p).rows EXCEPT ![u] = View(p).rows[u] \cup {r}]]
    BY DEF WritesTo, Apply
  <2> QED
    BY <2>1 DEF WritesTo, Dropped
<1>10. ASSUME NEW t \in Hands(p), t \notin meddled'[p]
       PROVE  Stored(p, t, View(p).rows[t])'
  <2>1. Stored(p, t, View(p).rows[t])
    BY <1>1, <1>4, <1>9, <1>10 DEF TablesOK
  <2>2. CASE t = u
    <3>1. View(p)'.rows[t] = View(p).rows[t] \cup {r}
      BY <1>1, <1>9, <2>2 DEF WritesTo
    <3>2. View(p)'.rows[t] \cup ToInsert(p, t)' = Target(p, t)'
      BY <1>5, <1>6, <2>1, <2>2, <3>1 DEF Stored
    <3>3. Keys(View(p)'.rows[t]) = Keys(View(p).rows[t]) \cup {r.key}
      BY <3>1 DEF Keys
    <3>4. t \in Unique => Keys(View(p)'.rows[t]) \cap Keys(ToInsert(p, t)') = {}
      <4>1. Keys(ToInsert(p, t)') \subseteq Keys(ToInsert(p, t))
        BY <1>6, <2>2 DEF Keys
      <4> QED
        BY <1>8, <2>1, <2>2, <3>3, <4>1 DEF Stored
    <3> QED
      BY <3>2, <3>4 DEF Stored
  <2>3. CASE t # u
    <3>1. View(p)'.rows[t] = View(p).rows[t]
      BY <1>1, <1>9, <2>3 DEF WritesTo
    <3> QED
      BY <1>5, <1>6, <2>1, <2>3, <3>1 DEF Stored
  <2> QED
    BY <2>2, <2>3
<1>11. TablesOK(p)'
  BY <1>1, <1>4, <1>10 DEF TablesOK
<1> QED
  BY <1>7, <1>11

LEMMA MarkedClasses ==
    ASSUME NEW res, NEW marked, NEW k
    PROVE  Marked(ClassesMarked(res, marked), k) = ClassesMarked(res, marked \cup {k})
<1> DEFINE yes(c) == Row(c, <<NumNodes(res, c), TRUE>>)
           no(c) == Row(c, <<NumNodes(res, c), FALSE>>)
           mark(r) == IF r.key = k THEN [key |-> k, val |-> <<r.val[1], TRUE>>] ELSE r
           S == Range(res.class)
<1>1. \A c : yes(c).key = c /\ no(c).key = c
  BY RowFields
<1>2. \A c : mark(yes(c)) = yes(c)
  BY <1>1 DEF Row
<1>3. \A c : mark(no(c)) = IF c = k THEN yes(c) ELSE no(c)
  BY <1>1 DEF Row
<1> HIDE DEF yes, no, mark
<1>4. /\ ClassesMarked(res, marked) = {yes(c) : c \in S \cap marked} \cup {no(c) : c \in S \ marked}
      /\ ClassesMarked(res, marked \cup {k})
             = {yes(c) : c \in S \cap (marked \cup {k})} \cup {no(c) : c \in S \ (marked \cup {k})}
  BY DEF ClassesMarked, yes, no
<1>5. Marked(ClassesMarked(res, marked), k) = {mark(r) : r \in ClassesMarked(res, marked)}
  BY DEF Marked, mark
<1> HIDE DEF S
<1>6. {mark(r) : r \in ClassesMarked(res, marked)} \subseteq ClassesMarked(res, marked \cup {k})
  BY <1>2, <1>3, <1>4
<1>7. ASSUME NEW r \in ClassesMarked(res, marked \cup {k})
      PROVE  \E q \in ClassesMarked(res, marked) : r = mark(q)
  <2>1. CASE \E c \in S \cap (marked \cup {k}) : r = yes(c)
    <3>1. PICK c \in S \cap (marked \cup {k}) : r = yes(c)
      BY <2>1
    <3>2. CASE c \in marked
      BY <1>2, <1>4, <3>1, <3>2
    <3>3. CASE c \notin marked
      <4>1. c = k /\ no(c) \in ClassesMarked(res, marked)
        BY <1>4, <3>1, <3>3
      <4> QED
        BY <1>3, <3>1, <4>1
    <3> QED
      BY <3>2, <3>3
  <2>2. CASE \E c \in S \ (marked \cup {k}) : r = no(c)
    BY <1>3, <1>4, <2>2
  <2> QED
    BY <1>4, <1>7, <2>1, <2>2
<1> QED
  BY <1>5, <1>6, <1>7

LEMMA UpdateStatement ==
    ASSUME NEW p \in Processes, WritesTo(p), Step(p).op = "update"
    PROVE  PlanOK(p)' /\ TablesOK(p)'
<1> PICK k : k = Step(p).row
  OBVIOUS
<1> DEFINE M == {c \in result[p].interesting : Update("EqClass", c) \notin Left(p)}
           N == {c \in result[p].interesting : Update("EqClass", c) \notin Left(p)'}
<1>1. /\ PlanOK(p) /\ TablesOK(p) /\ Hands(p)' = Hands(p) /\ Hands(p) \subseteq Tables
      /\ Left(p) = {Step(p)} \cup Left(p)' /\ \A y \in Left(p)' : Follows(y, Step(p))
      /\ StatementOK(p, Step(p)) /\ Step(p).table \in Hands(p)
      /\ \A t \in Hands(p) : t = "FileList" => cache'[p] = cache[p]
  BY WritesToScript
<1>2. Step(p) = Update("EqClass", k) /\ k \in result[p].interesting /\ "EqClass" \in Hands(p)
  BY <1>1, StatementFacts DEF StatementOK
<1>3. \A y \in Left(p) : y.op # "drop" /\ y.op # "create" /\ y.op # "insert"
  <2>1. \A y \in Left(p)' : y.op # "drop" /\ y.op # "create" /\ y.op # "insert"
    BY <1>1 DEF Follows, Writes, Level
  <2> QED
    BY <1>1, <2>1
<1>4. \A t : /\ Drop(t) \notin Left(p) /\ Drop(t) \notin Left(p)'
             /\ Create(t) \notin Left(p) /\ Create(t) \notin Left(p)'
             /\ ToInsert(p, t) = {} /\ ToInsert(p, t)' = {}
  BY <1>1, <1>3, StatementFacts DEF ToInsert
<1>5. PlanOK(p)'
  BY <1>1, <1>4 DEF PlanOK
<1>6. N = M \cup {k}
  <2>1. Step(p) \notin Left(p)'
    BY <1>1 DEF Follows
  <2>2. \A c : Update("EqClass", c) = Step(p) <=> c = k
    BY <1>2, StatementFacts
  <2> QED
    BY <1>1, <1>2, <2>1, <2>2
<1>7. /\ View(p)'.rows = [View(p).rows EXCEPT !["EqClass"] = Marked(View(p).rows["EqClass"], k)]
      /\ meddled'[p] = meddled[p]
  <2>1. View(p)' = [View(p) EXCEPT !.rows =
                        [View(p).rows EXCEPT !["EqClass"] = Marked(View(p).rows["EqClass"], k)]]
    BY <1>2, StatementFacts DEF WritesTo, Apply
  <2> QED
    BY <2>1 DEF WritesTo, Dropped
<1>8. ASSUME NEW t \in Hands(p), t \notin meddled'[p]
      PROVE  View(p)'.rows[t] = Target(p, t)'
  <2>1. View(p).rows[t] = Target(p, t)
    BY <1>1, <1>4, <1>7, <1>8 DEF TablesOK, Stored
  <2>2. CASE t = "EqClass"
    <3>1. Target(p, t) = ClassesMarked(result[p], M) /\ Target(p, t)' = ClassesMarked(result[p], N)
      <4>1. result'[p] = result[p]
        BY DEF WritesTo, Executes
      <4>2. Target(p, "EqClass") = ClassesMarked(result[p], M)
        BY DEF Target, ReportTables
      <4>3. Target(p, "EqClass")' = ClassesMarked(result'[p], {c \in result'[p].interesting :
                                                Update("EqClass", c) \notin Left(p)'})
        BY DEF Target, ReportTables
      <4>4. Target(p, "EqClass")' = ClassesMarked(result[p], N)
        BY <4>1, <4>3
      <4> QED
        BY <2>2, <4>2, <4>4
    <3>2. View(p)'.rows[t] = Marked(Target(p, t), k)
      BY <1>1, <1>7, <2>1, <2>2 DEF WritesTo
    <3> QED
      BY <1>6, <3>1, <3>2, MarkedClasses
  <2>3. CASE t # "EqClass"
    <3>1. View(p)'.rows[t] = View(p).rows[t]
      BY <1>1, <1>7, <2>3 DEF WritesTo
    <3>2. Target(p, t)' = Target(p, t)
      BY <1>1, <2>3, SameTarget DEF WritesTo, Executes
    <3> QED
      BY <2>1, <3>1, <3>2
  <2> QED
    BY <2>2, <2>3
<1>9. TablesOK(p)'
  BY <1>1, <1>4, <1>8 DEF TablesOK, Stored, Keys
<1> QED
  BY <1>5, <1>9

LEMMA WrittenStatement ==
    ASSUME NEW p \in Processes, WritesTo(p)
    PROVE  PlanOK(p)' /\ TablesOK(p)'
BY DropStatement, CreateStatement, InsertStatement, UpdateStatement DEF WritesTo, Writes

LEMMA NotPrinted ==
    ASSUME NEW p \in Processes, Executes(p), Step(p).op # "print", printed'[p] = printed[p]
    PROVE  PrintsOK(p)'
<1>1. PrintsOK(p) /\ Left(p) = {Step(p)} \cup Left(p)'
  BY ExecutesScript, Executed DEF Executes
<1>2. ToPrint(p)' = ToPrint(p)
  <2>1. {s \in Left(p)' : s.op = "print"} = {s \in Left(p) : s.op = "print"}
    BY <1>1
  <2> QED
    BY <2>1 DEF ToPrint
<1> QED
  BY <1>1, <1>2 DEF PrintsOK, Executes

LEMMA PrintStatement ==
    ASSUME NEW p \in Processes, Executes(p), Step(p).op = "print",
           printed'[p] = Append(printed[p], Step(p).row)
    PROVE  PrintsOK(p)'
<1>1. PrintsOK(p) /\ Left(p) = {Step(p)} \cup Left(p)'
  BY ExecutesScript, Executed DEF Executes
<1>2. ToPrint(p) = {Step(p).row} \cup ToPrint(p)'
  <2>1. {s \in Left(p) : s.op = "print"} = {Step(p)} \cup {s \in Left(p)' : s.op = "print"}
    BY <1>1
  <2> QED
    BY <2>1 DEF ToPrint
<1>3. conf[p].mode = "compare" /\ phase[p] # "open"
  BY <1>1, <1>2 DEF PrintsOK
<1>4. IsSeq(printed'[p]) /\ Range(printed'[p]) = Range(printed[p]) \cup {Step(p).row}
  BY <1>1, AppendRange DEF PrintsOK
<1> QED
  BY <1>1, <1>2, <1>3, <1>4 DEF PrintsOK, Executes

\* A statement that writes nothing leaves its process well.
LEMMA QuietProcess ==
    ASSUME NEW p \in Processes, Executes(p), ~Writes(Step(p)),
           meddled'[p] = meddled[p],
           \A t \in Tables : View(p)'.rows[t] = View(p).rows[t],
           begun'[p] \in BOOLEAN,
           LegalStep(Step(p), begun[p], begun'[p]) \/ begun'[p] = begun[p],
           Step(p).op \in {"begin", "commit"} => begun'[p] = (Step(p).op = "begin"),
           printed'[p] = IF Step(p).op = "print" THEN Append(printed[p], Step(p).row)
                         ELSE printed[p]
    PROVE  ProcessOK(p)'
<1>1. ScriptOK(p)'
  BY ExecutesScript
<1>2. LegalOK(p)'
  BY LegalNext
<1>3. PlanOK(p)' /\ TablesOK(p)'
  BY QuietStatement
<1>4. PrintsOK(p)'
  BY NotPrinted, PrintStatement
<1> QED
  BY <1>1, <1>2, <1>3, <1>4 DEF ProcessOK

LEMMA WrittenProcess ==
    ASSUME NEW p \in Processes, WritesTo(p), begun'[p] = begun[p], printed'[p] = printed[p]
    PROVE  ProcessOK(p)'
<1>1. Executes(p) /\ Step(p).op \notin {"begin", "commit", "print"} /\ begun[p] \in BOOLEAN
  BY DEF WritesTo, Writes, Executes, MemoryOK
<1>2. ScriptOK(p)'
  BY <1>1, ExecutesScript
<1>3. LegalOK(p)'
  BY <1>1, LegalNext
<1>4. PlanOK(p)' /\ TablesOK(p)'
  BY WrittenStatement
<1>5. PrintsOK(p)'
  BY <1>1, NotPrinted
<1> QED
  BY <1>2, <1>3, <1>4, <1>5 DEF ProcessOK

LEMMA BeginProcess ==
    ASSUME NEW p \in Processes, Inv, BeginTransaction(p)
    PROVE  ProcessOK(p)'
<1>1. MapsOK /\ MemoryOK(p) /\ ProcessOK(p)
  BY DEF Inv, Shape
<1>2. Executes(p)
  BY <1>1 DEF BeginTransaction, Executes, memory
<1>3. Step(p).op = "begin" /\ begun'[p] = TRUE /\ printed'[p] = printed[p]
      /\ UNCHANGED <<disk, writer, work, meddled>>
  BY <1>1 DEF BeginTransaction, MapsOK, IsMap, file
<1>4. ~Writes(Step(p)) /\ begun[p] = FALSE
  BY <1>1, <1>3 DEF Writes, BeginTransaction, MemoryOK
<1>5. \A t \in Tables : View(p)'.rows[t] = View(p).rows[t]
  BY <1>3 DEF View
<1>6. LegalStep(Step(p), begun[p], begun'[p])
  BY <1>3, <1>4 DEF LegalStep
<1> QED
  BY <1>2, <1>3, <1>4, <1>5, <1>6, QuietProcess

LEMMA CommitProcess ==
    ASSUME NEW p \in Processes, Inv, CommitTransaction(p)
    PROVE  ProcessOK(p)'
<1>1. MapsOK /\ MemoryOK(p) /\ ProcessOK(p)
  BY DEF Inv, Shape
<1>2. Executes(p)
  BY <1>1 DEF CommitTransaction, Executes, memory
<1>3. Step(p).op = "commit" /\ begun'[p] = FALSE /\ printed'[p] = printed[p] /\ begun[p] = TRUE
  BY <1>1 DEF CommitTransaction, MapsOK, IsMap, MemoryOK
<1>4. ~Writes(Step(p))
  BY <1>1, <1>3 DEF Writes, CommitTransaction
<1>5. meddled'[p] = meddled[p] /\ \A t \in Tables : View(p)'.rows[t] = View(p).rows[t]
  <2>1. CASE writer = p
    <3>1. writer' = None /\ disk' = work /\ meddled' = Meddled(p, work, {})
      BY <2>1 DEF CommitTransaction, Publish
    <3>2. View(p)' = View(p)
      BY <2>1, <3>1, NoneAssumption DEF View
    <3> QED
      BY <3>1, <3>2 DEF Meddled
  <2>2. CASE writer # p
    <3>1. UNCHANGED <<disk, writer, work, meddled>>
      BY <2>2 DEF CommitTransaction, file
    <3> QED
      BY <3>1 DEF View
  <2> QED
    BY <2>1, <2>2
<1>6. LegalStep(Step(p), begun[p], begun'[p])
  BY <1>3 DEF LegalStep
<1> QED
  BY <1>2, <1>3, <1>4, <1>5, <1>6, QuietProcess

LEMMA PrepareProcess ==
    ASSUME NEW p \in Processes, Inv, PrepareStmt(p) \/ PrintToStdout(p)
    PROVE  ProcessOK(p)'
<1>1. MapsOK /\ MemoryOK(p) /\ ProcessOK(p)
  BY DEF Inv, Shape
<1>2. Executes(p)
  BY <1>1 DEF PrepareStmt, PrintToStdout, Executes, memory
<1>3. /\ Step(p).op \in {"prepare", "print"} /\ begun'[p] = begun[p] /\ begun[p] \in BOOLEAN
      /\ printed'[p] = IF Step(p).op = "print" THEN Append(printed[p], Step(p).row)
                       ELSE printed[p]
      /\ UNCHANGED <<disk, writer, work, meddled>>
  BY <1>1 DEF PrepareStmt, PrintToStdout, MapsOK, IsMap, file, MemoryOK
<1>4. ~Writes(Step(p)) /\ Step(p).op \notin {"begin", "commit"}
  BY <1>3 DEF Writes
<1>5. \A t \in Tables : View(p)'.rows[t] = View(p).rows[t]
  BY <1>3 DEF View
<1> QED
  BY <1>2, <1>3, <1>4, <1>5, QuietProcess

LEMMA EndReadProcess ==
    ASSUME NEW p \in Processes, Inv, EndRead(p)
    PROVE  ProcessOK(p)'
<1>1. MapsOK /\ MemoryOK(p) /\ ProcessOK(p)
  BY DEF Inv, Shape
<1>2. phase[p] = "open" /\ Todo(p) /\ Step(p).op = "select"
  BY DEF Inv, Shape, ReadingOK, EndRead, Todo
<1>3. Executes(p)
  BY <1>1, <1>2 DEF EndRead, Executes
<1>4. /\ begun'[p] = begun[p] /\ begun[p] \in BOOLEAN /\ printed'[p] = printed[p]
      /\ UNCHANGED <<disk, writer, work, meddled>>
  BY <1>1 DEF EndRead, file, MemoryOK
<1>5. ~Writes(Step(p)) /\ Step(p).op \notin {"begin", "commit", "print"}
  BY <1>2 DEF Writes
<1>6. \A t \in Tables : View(p)'.rows[t] = View(p).rows[t]
  BY <1>4 DEF View
<1> QED
  BY <1>3, <1>4, <1>5, <1>6, QuietProcess

LEMMA WriteProcess ==
    ASSUME NEW p \in Processes, Inv, Autocommit(p) \/ WriteInTransaction(p)
    PROVE  ProcessOK(p)'
<1>1. MapsOK /\ MemoryOK(p) /\ ProcessOK(p) /\ IsDb(disk) /\ IsDb(work)
  BY DEF Inv, Shape, FilesOK
<1>2. Executes(p) /\ Writes(Step(p))
  BY <1>1 DEF Autocommit, WriteInTransaction, Executes, memory
<1>3. /\ begun'[p] = begun[p] /\ printed'[p] = printed[p]
      /\ ~Refuses(View(p).rows, Step(p))
      /\ View(p)' = Apply(View(p), Step(p))
      /\ meddled'[p] = meddled[p] \ Dropped(p)
  <2>1. CASE Autocommit(p)
    <3>1. View(p) = disk /\ View(p)' = disk'
      BY <2>1, NoneAssumption DEF Autocommit, View
    <3> QED
      BY <2>1, <3>1 DEF Autocommit, Meddled
  <2>2. CASE WriteInTransaction(p)
    <3>1. View(p)' = work' /\ work' = Apply(View(p), Step(p))
      BY <2>2 DEF WriteInTransaction, View
    <3>2. meddled'[p] = meddled[p] \ Dropped(p)
      BY <1>1, <2>2 DEF WriteInTransaction, MapsOK, IsMap
    <3> QED
      BY <2>2, <3>1, <3>2 DEF WriteInTransaction
  <2> QED
    BY <2>1, <2>2
<1>4. View(p) \in {disk, work} /\ View(p).rows = [t \in Tables |-> View(p).rows[t]]
  <2>1. \A db : IsDb(db) => db.rows = [t \in Tables |-> db.rows[t]]
    BY DEF IsDb
  <2>2. View(p) \in {disk, work}
    BY DEF View
  <2> QED
    BY <1>1, <2>1, <2>2
<1>5. WritesTo(p)
  BY <1>2, <1>3, <1>4 DEF WritesTo
<1> QED
  BY <1>3, <1>5, WrittenProcess

-----------------------------------------------------------------------------
(* From phase to phase *)

\* What a set of statements inserts into a table, and prints
RowsOf(S, t) == {s.row : s \in {s \in S : s.op = "insert" /\ s.table = t}}
PrintsOf(S) == {s.row : s \in {s \in S : s.op = "print"}}

LEMMA RowsOfEmpty == PrintsOf({}) = {} /\ \A t : RowsOf({}, t) = {}
BY DEF RowsOf, PrintsOf

LEMMA InsertFacts ==
    ASSUME NEW u, NEW rows
    PROVE  /\ \A t : RowsOf(Inserts(u, rows), t) = IF t = u THEN rows ELSE {}
           /\ PrintsOf(Inserts(u, rows)) = {}
           /\ \A s \in Inserts(u, rows) : s.op = "insert" /\ s.table = u /\ s.row \in rows
<1>1. \A s \in Inserts(u, rows) : s.op = "insert" /\ s.table = u /\ s.row \in rows
  BY StatementFacts DEF Inserts
<1>2. \A r \in rows : \E s \in Inserts(u, rows) : s.row = r
  BY StatementFacts DEF Inserts
<1>3. \A t : t # u => RowsOf(Inserts(u, rows), t) = {}
  BY <1>1 DEF RowsOf
<1>4. RowsOf(Inserts(u, rows), u) = rows
  BY <1>1, <1>2 DEF RowsOf
<1>5. PrintsOf(Inserts(u, rows)) = {}
  BY <1>1 DEF PrintsOf
<1> QED
  BY <1>1, <1>3, <1>4, <1>5

LEMMA RowsOfUnion ==
    \A S, T : /\ PrintsOf(S \cup T) = PrintsOf(S) \cup PrintsOf(T)
              /\ \A t : RowsOf(S \cup T, t) = RowsOf(S, t) \cup RowsOf(T, t)
<1> SUFFICES ASSUME NEW S, NEW T
             PROVE  /\ PrintsOf(S \cup T) = PrintsOf(S) \cup PrintsOf(T)
                    /\ \A t : RowsOf(S \cup T, t) = RowsOf(S, t) \cup RowsOf(T, t)
  OBVIOUS
<1>1. {s \in S \cup T : s.op = "print"} = {s \in S : s.op = "print"} \cup {s \in T : s.op = "print"}
  OBVIOUS
<1>2. PrintsOf(S \cup T) = PrintsOf(S) \cup PrintsOf(T)
  BY <1>1 DEF PrintsOf
<1>3. ASSUME NEW t
      PROVE  RowsOf(S \cup T, t) = RowsOf(S, t) \cup RowsOf(T, t)
  <2>1. {s \in S \cup T : s.op = "insert" /\ s.table = t}
            = {s \in S : s.op = "insert" /\ s.table = t}
                  \cup {s \in T : s.op = "insert" /\ s.table = t}
    OBVIOUS
  <2> QED
    BY <2>1 DEF RowsOf
<1> QED
  BY <1>2, <1>3

LEMMA RowsOfOthers ==
    ASSUME NEW S, \A s \in S : s.op \notin {"insert", "print"}
    PROVE  PrintsOf(S) = {} /\ \A t : RowsOf(S, t) = {}
BY DEF RowsOf, PrintsOf

LEMMA CacheFacts ==
    ASSUME NEW rows
    PROVE  LET S == CacheStatements(rows)
           IN  /\ RowsOf(S, "FileList") = rows /\ \A t : t # "FileList" => RowsOf(S, t) = {}
               /\ PrintsOf(S) = {}
               /\ Drop("FileList") \in S /\ Create("FileList") \in S
               /\ \A s \in S : s.op \notin {"update", "select", "print"}
               /\ \A s \in S : s.op \in {"drop", "create", "insert", "prepare"}
                                  => s.table = "FileList"
               /\ \A s \in S : s.op = "drop" => s = Drop("FileList")
               /\ \A s \in S : s.op = "create" => s = Create("FileList")
               /\ \A s \in S : s.op \in Names
<1> DEFINE O == {Drop("FileList"), Create("FileList"), Begin, Prepare("FileList"), Commit}
           I == Inserts("FileList", rows)
<1>1. CacheStatements(rows) = O \cup I
  BY DEF CacheStatements
<1>2. /\ \A s \in O : s.op \notin {"insert", "print", "update", "select"} /\ s.op \in Names
      /\ \A s \in O : s.op \in {"drop", "create", "insert", "prepare"} => s.table = "FileList"
      /\ \A s \in O : s.op = "drop" => s = Drop("FileList")
      /\ \A s \in O : s.op = "create" => s = Create("FileList")
  BY StatementFacts DEF Names
<1>3. PrintsOf(O) = {} /\ \A t : RowsOf(O, t) = {}
  BY <1>2, RowsOfOthers
<1>4. /\ \A t : RowsOf(I, t) = IF t = "FileList" THEN rows ELSE {}
      /\ PrintsOf(I) = {}
      /\ \A s \in I : s.op = "insert" /\ s.table = "FileList"
  BY InsertFacts
<1>5. Drop("FileList") \in O /\ Create("FileList") \in O
  OBVIOUS
<1> HIDE DEF O, I
<1>6. /\ PrintsOf(O \cup I) = {}
      /\ \A t : RowsOf(O \cup I, t) = IF t = "FileList" THEN rows ELSE {}
  <2>1. /\ PrintsOf(O \cup I) = PrintsOf(O) \cup PrintsOf(I)
        /\ \A t : RowsOf(O \cup I, t) = RowsOf(O, t) \cup RowsOf(I, t)
    BY RowsOfUnion
  <2> QED
    BY <1>3, <1>4, <2>1
<1> QED
  BY <1>1, <1>2, <1>4, <1>5, <1>6 DEF Names

LEMMA FuzzyFacts ==
    ASSUME NEW res
    PROVE  LET S == FuzzyStatements(res)
           IN  /\ RowsOf(S, "EqClass") = ClassRows(res) /\ RowsOf(S, "Node") = NodeRows(res)
               /\ PrintsOf(S) = {}
               /\ \A t \in ResultTables : Drop(t) \in S /\ Create(t) \in S
               /\ \A c \in res.interesting : Update("EqClass", c) \in S
               /\ \A s \in S : s.op \in Names /\ s.op # "select"
               /\ \A s \in S : s.op \in {"drop", "create", "insert", "prepare", "update"}
                                  => s.table \in ResultTables
               /\ \A s \in S : s.op = "drop" => s = Drop(s.table)
               /\ \A s \in S : s.op = "create" => s = Create(s.table)
               /\ \A s \in S : s.op = "update" => s = Update("EqClass", s.row)
                                                  /\ s.row \in res.interesting
<1> DEFINE O == {Drop("Node"), Drop("EqClass"), Create("EqClass"), Create("Node"),
                 Begin, Commit, Prepare("EqClass"), Prepare("Node")}
           C == Inserts("EqClass", ClassRows(res))
           N == Inserts("Node", NodeRows(res))
           U == Updates(res)
<1>1. FuzzyStatements(res) = O \cup C \cup N \cup U
  BY DEF FuzzyStatements
<1>2. /\ \A s \in O : s.op \notin {"insert", "print", "update", "select"} /\ s.op \in Names
      /\ \A s \in O : s.op \in {"drop", "create", "prepare"} => s.table \in ResultTables
      /\ \A s \in O : s.op = "drop" => s = Drop(s.table)
      /\ \A s \in O : s.op = "create" => s = Create(s.table)
  BY StatementFacts DEF Names, ResultTables
<1>3. /\ \A s \in U : s.op = "update" /\ s.table = "EqClass" /\ s = Update("EqClass", s.row)
                      /\ s.row \in res.interesting
      /\ \A c \in res.interesting : Update("EqClass", c) \in U
  BY StatementFacts DEF Updates
<1>4. PrintsOf(O) = {} /\ \A t : RowsOf(O, t) = {}
  BY <1>2, RowsOfOthers
<1>5. PrintsOf(U) = {} /\ \A t : RowsOf(U, t) = {}
  BY <1>3, RowsOfOthers
<1>6. /\ \A t : RowsOf(C, t) = IF t = "EqClass" THEN ClassRows(res) ELSE {}
      /\ PrintsOf(C) = {}
      /\ \A s \in C : s.op = "insert" /\ s.table = "EqClass"
  BY InsertFacts
<1>7. /\ \A t : RowsOf(N, t) = IF t = "Node" THEN NodeRows(res) ELSE {}
      /\ PrintsOf(N) = {}
      /\ \A s \in N : s.op = "insert" /\ s.table = "Node"
  BY InsertFacts
<1>8. \A t \in ResultTables : Drop(t) \in O /\ Create(t) \in O
  BY DEF ResultTables
<1> HIDE DEF O, C, N, U
<1>9. /\ PrintsOf(O \cup C) = PrintsOf(O) \cup PrintsOf(C)
      /\ \A t : RowsOf(O \cup C, t) = RowsOf(O, t) \cup RowsOf(C, t)
  BY RowsOfUnion
<1>10. /\ PrintsOf((O \cup C) \cup N) = PrintsOf(O \cup C) \cup PrintsOf(N)
       /\ \A t : RowsOf((O \cup C) \cup N, t) = RowsOf(O \cup C, t) \cup RowsOf(N, t)
  BY RowsOfUnion
<1>11. /\ PrintsOf(((O \cup C) \cup N) \cup U) = PrintsOf((O \cup C) \cup N) \cup PrintsOf(U)
       /\ \A t : RowsOf(((O \cup C) \cup N) \cup U, t) = RowsOf((O \cup C) \cup N, t) \cup RowsOf(U, t)
  BY RowsOfUnion
<1>12. PrintsOf(O \cup C \cup N \cup U) = {}
  BY <1>4, <1>5, <1>6, <1>7, <1>9, <1>10, <1>11
<1>13. /\ RowsOf(O \cup C \cup N \cup U, "EqClass") = ClassRows(res)
       /\ RowsOf(O \cup C \cup N \cup U, "Node") = NodeRows(res)
  <2>1. \A t : RowsOf(O \cup C \cup N \cup U, t)
                   = RowsOf(O, t) \cup RowsOf(C, t) \cup RowsOf(N, t) \cup RowsOf(U, t)
    BY <1>9, <1>10, <1>11
  <2>2. /\ RowsOf(C, "EqClass") = ClassRows(res) /\ RowsOf(N, "EqClass") = {}
        /\ RowsOf(C, "Node") = {} /\ RowsOf(N, "Node") = NodeRows(res)
    BY <1>6, <1>7
  <2>3. \A t : RowsOf(O, t) = {} /\ RowsOf(U, t) = {}
    BY <1>4, <1>5
  <2> QED
    BY <2>1, <2>2, <2>3
<1> QED
  BY <1>1, <1>2, <1>3, <1>6, <1>7, <1>8, <1>12, <1>13 DEF Names, ResultTables

LEMMA CompareFacts ==
    ASSUME NEW r \in Reports, NEW out \in BOOLEAN
    PROVE  LET S == CompareStatements(r, out)
           IN  /\ PrintsOf(S) = Range(r.lines)
               /\ out => \A t : RowsOf(S, t) = RowsIn(t, r.lines)
               /\ \A s \in S : s.op \in {"print", "insert", "commit"}
               /\ \A s \in S : s.op = "insert" => out /\ s.table \in ReportTables
<1> DEFINE L == Range(r.lines)
           Of(l) == {PrintOf(l)} \cup (IF out THEN Inserts(l.table, LineRows(l)) ELSE {})
           S == CompareStatements(r, out)
<1>1. S = (UNION {Of(l) : l \in L}) \cup (IF out THEN {Commit} ELSE {})
  BY DEF CompareStatements, LineStatements
<1>2. \A l \in L : l.table \in ReportTables
  <2>1. \A i \in DOMAIN r.lines : r.lines[i].table \in ReportTables
    BY ReportsAssumption
  <2> QED
    BY <2>1 DEF Range
<1>3. \A l \in L : \A s \in Inserts(l.table, LineRows(l)) :
          s.op = "insert" /\ s.table = l.table /\ s.row \in LineRows(l)
  BY InsertFacts
<1>4. \A l : PrintOf(l).op = "print" /\ PrintOf(l).row = l
  BY StatementFacts DEF PrintOf
<1>5. \A s \in S : s = Commit \/ \E l \in L : s \in Of(l)
  BY <1>1
<1>6. \A l \in L : \A s \in Of(l) :
          \/ s = PrintOf(l)
          \/ out /\ s \in Inserts(l.table, LineRows(l))
  OBVIOUS
<1>7. \A s \in S : s.op \in {"print", "insert", "commit"}
  BY <1>3, <1>4, <1>5, <1>6, StatementFacts
<1>8. \A s \in S : s.op = "insert" => out /\ s.table \in ReportTables
  BY <1>2, <1>3, <1>4, <1>5, <1>6, StatementFacts
<1>9. PrintsOf(S) = L
  <2>1. \A s \in S : s.op = "print" => s.row \in L
    BY <1>3, <1>4, <1>5, <1>6, StatementFacts
  <2>2. \A l \in L : PrintOf(l) \in S
    BY <1>1
  <2> HIDE DEF S, L
  <2> QED
    BY <1>4, <2>1, <2>2 DEF PrintsOf
<1>10. ASSUME out, NEW t
       PROVE  RowsOf(S, t) = RowsIn(t, r.lines)
  <2>1. ASSUME NEW s \in S, s.op = "insert", s.table = t
        PROVE  s.row \in RowsIn(t, r.lines)
    <3>1. PICK l \in L : s \in Of(l)
      BY <1>5, <2>1, StatementFacts
    <3>2. s.table = l.table /\ s.row \in LineRows(l)
      BY <1>3, <1>4, <1>6, <2>1, <3>1
    <3> QED
      BY <2>1, <3>2 DEF RowsIn
  <2>2. ASSUME NEW l \in L, l.table = t, NEW q \in LineRows(l)
        PROVE  \E s \in S : s.op = "insert" /\ s.table = t /\ s.row = q
    <3>1. Insert(l.table, q) \in Of(l)
      BY <1>10 DEF Inserts
    <3>2. Insert(l.table, q) \in S
      BY <1>1, <3>1
    <3> QED
      BY <2>2, <3>2, StatementFacts
  <2> HIDE DEF S, L
  <2>3. RowsOf(S, t) \subseteq RowsIn(t, r.lines)
    BY <2>1 DEF RowsOf
  <2>4. \A q \in RowsIn(t, r.lines) : \E l \in L : l.table = t /\ q \in LineRows(l)
    BY DEF RowsIn, L
  <2>5. RowsIn(t, r.lines) \subseteq RowsOf(S, t)
    BY <2>2, <2>4 DEF RowsOf
  <2> QED
    BY <2>3, <2>5
<1> QED
  BY <1>7, <1>8, <1>9, <1>10

LEMMA RowsLeft ==
    ASSUME NEW p \in Processes
    PROVE  /\ ToPrint(p) = PrintsOf(Left(p)) /\ \A t : ToInsert(p, t) = RowsOf(Left(p), t)
           /\ ToPrint(p)' = PrintsOf(Left(p)')
           /\ \A t : ToInsert(p, t)' = RowsOf(Left(p)', t)
BY DEF ToPrint, ToInsert, PrintsOf, RowsOf

\* A process that has nothing left to do in its phase
LEMMA NothingLeft ==
    ASSUME NEW p \in Processes, Shape, ProcessOK(p), Busy(p), script[p] = <<>>
    PROVE  /\ Left(p) = {} /\ ToPrint(p) = {} /\ \A t : ToInsert(p, t) = {}
           /\ begun[p] = (phase[p] = "open" /\ Compares(p))
           /\ \A t \in Hands(p) \ meddled[p] : View(p).rows[t] = Target(p, t)
           /\ PrintsOK(p) /\ IsMap(phase) /\ MapsOK /\ MemoryOK(p)
<1>1. Left(p) = {}
  BY EmptyRange DEF Left
<1>2. ToPrint(p) = {} /\ \A t : ToInsert(p, t) = {}
  BY <1>1 DEF ToPrint, ToInsert
<1>3. /\ LegalOK(p) /\ TablesOK(p) /\ PrintsOK(p) /\ MapsOK /\ MemoryOK(p)
  BY DEF ProcessOK, Alive, Shape
<1>4. begun[p] = (phase[p] = "open" /\ Compares(p))
  <2> PICK b \in BOOLEAN, e \in BOOLEAN : b = begun[p] /\ e = (phase[p] = "open" /\ Compares(p))
    BY <1>3 DEF MemoryOK
  <2>1. Legal(<<>>, b, e)
    BY <1>3 DEF LegalOK
  <2> QED
    BY <2>1, LegalEmpty
<1>5. \A t \in Hands(p) \ meddled[p] : View(p).rows[t] = Target(p, t)
  BY <1>1, <1>2, <1>3 DEF TablesOK, Stored
<1> QED
  BY <1>1, <1>2, <1>3, <1>4, <1>5 DEF MapsOK

LEMMA ExitProcess ==
    ASSUME NEW p \in Processes, Inv, Exit(p)
    PROVE  ProcessOK(p)'
<1>1. Shape /\ ProcessOK(p) /\ phase[p] = "finalize" /\ script[p] = <<>> /\ Busy(p)
  BY DEF Inv, Exit, Busy
<1>2. /\ Left(p) = {} /\ ToPrint(p) = {} /\ \A t : ToInsert(p, t) = {}
      /\ begun[p] = FALSE
      /\ \A t \in Hands(p) \ meddled[p] : View(p).rows[t] = Target(p, t)
      /\ PrintsOK(p) /\ IsMap(phase)
  BY <1>1, NothingLeft
<1>3. /\ phase'[p] = "exit" /\ UNCHANGED <<disk, writer, work, conf, cache, result, script,
                                           begun, printed, meddled>>
  BY <1>2 DEF Exit, file, memory, IsMap
<1>4. /\ Left(p)' = {} /\ ToPrint(p)' = {} /\ \A t : ToInsert(p, t)' = {}
      /\ Hands(p)' = Hands(p) /\ View(p)' = View(p)
  BY <1>1, <1>2, <1>3, RowsLeft, RowsOfEmpty DEF Left, Hands, Compares, View
<1>5. ScriptOK(p)'
  BY <1>1, <1>3, <1>4, EmptyRange, OrderedEmpty DEF ScriptOK
<1>6. LegalOK(p)'
  <2>1. Legal(<<>>, FALSE, FALSE)
    BY LegalEmpty
  <2>2. (phase'[p] = "open" /\ Compares(p)') = FALSE
    BY <1>3
  <2> QED
    BY <1>1, <1>2, <1>3, <2>1, <2>2 DEF LegalOK
<1>7. PlanOK(p)'
  BY <1>4 DEF PlanOK
<1>8. TablesOK(p)'
  <2>1. \A t \in Hands(p) : Target(p, t)' = Target(p, t)
    <3> SUFFICES ASSUME NEW t \in Hands(p)
                 PROVE  Target(p, t)' = Target(p, t)
      OBVIOUS
    <3>1. CASE t # "EqClass"
      BY <1>1, <1>3, <3>1 DEF Target
    <3>2. CASE t = "EqClass"
      <4>1. Target(p, "EqClass") = ClassesMarked(result[p], {c \in result[p].interesting : TRUE})
        BY <1>2 DEF Target, ReportTables
      <4>2. Target(p, "EqClass")' = ClassesMarked(result'[p], {c \in result'[p].interesting : TRUE})
        BY <1>4 DEF Target, ReportTables
      <4> QED
        BY <1>3, <3>2, <4>1, <4>2
    <3> QED
      BY <3>1, <3>2
  <2>2. \A t \in Hands(p) \ meddled[p] : View(p)'.rows[t] = Target(p, t)'
    BY <1>2, <1>4, <2>1
  <2> QED
    BY <1>3, <1>4, <2>2 DEF TablesOK, Stored, Keys
<1>9. PrintsOK(p)'
  BY <1>1, <1>2, <1>3, <1>4 DEF PrintsOK
<1> QED
  BY <1>5, <1>6, <1>7, <1>8, <1>9 DEF ProcessOK

LEMMA FinalizeProcess ==
    ASSUME NEW p \in Processes, Inv, Finalize(p)
    PROVE  ProcessOK(p)'
<1>1. Shape /\ ProcessOK(p) /\ phase[p] = "report" /\ script[p] = <<>> /\ Busy(p)
  BY DEF Inv, Finalize, Busy
<1>2. /\ Left(p) = {} /\ ToPrint(p) = {} /\ \A t : ToInsert(p, t) = {}
      /\ begun[p] = FALSE
      /\ \A t \in Hands(p) \ meddled[p] : View(p).rows[t] = Target(p, t)
      /\ PrintsOK(p) /\ MapsOK /\ MemoryOK(p)
  BY <1>1, NothingLeft
<1>3. /\ phase'[p] = "finalize" /\ script'[p] = If(conf[p].dumps, StoreCksums(cache[p]))
      /\ UNCHANGED <<disk, writer, work, conf, cache, result, begun, printed, meddled>>
  BY <1>2 DEF Finalize, file, memory, MapsOK, IsMap
<1>4. conf[p].dumps \in BOOLEAN /\ IsCache(cache[p])
  BY <1>1, <1>2, ConfsAssumption DEF MemoryOK
<1>5. Script(script'[p], FALSE, FALSE)
      /\ Left(p)' = IF conf[p].dumps THEN CacheStatements(cache[p]) ELSE {}
  <2> PICK rows : rows = cache[p]
    OBVIOUS
  <2> PICK d \in BOOLEAN : d = conf[p].dumps
    BY <1>4
  <2>1. Script(StoreCksums(rows), FALSE, FALSE)
        /\ Range(StoreCksums(rows)) = CacheStatements(rows)
    BY <1>4, CacheScript
  <2>2. /\ Script(If(d, StoreCksums(rows)), FALSE, FALSE)
        /\ Range(If(d, StoreCksums(rows))) = IF d THEN Range(StoreCksums(rows)) ELSE {}
    BY <2>1, ScriptIf
  <2> QED
    BY <1>3, <2>1, <2>2 DEF Left
<1>6. /\ Hands(p)' = Hands(p) \cup (IF conf[p].dumps THEN {"FileList"} ELSE {})
      /\ "FileList" \notin Hands(p) /\ View(p)' = View(p)
  BY <1>1, <1>3 DEF Hands, Compares, View, Tables, ReportTables, ResultTables
<1>7. /\ ToPrint(p)' = {}
      /\ \A t : ToInsert(p, t)' = IF conf[p].dumps /\ t = "FileList" THEN cache[p] ELSE {}
  <2>1. ToPrint(p)' = PrintsOf(Left(p)') /\ \A t : ToInsert(p, t)' = RowsOf(Left(p)', t)
    BY RowsLeft
  <2>2. LET S == CacheStatements(cache[p])
        IN  /\ RowsOf(S, "FileList") = cache[p] /\ \A t : t # "FileList" => RowsOf(S, t) = {}
            /\ PrintsOf(S) = {}
    BY CacheFacts
  <2>3. CASE conf[p].dumps
    BY <1>5, <2>1, <2>2, <2>3
  <2>4. CASE ~conf[p].dumps
    BY <1>5, <2>1, <2>4, RowsOfEmpty
  <2> QED
    BY <2>3, <2>4
<1>8. /\ \A s \in Left(p)' : s.op \notin {"update", "select", "print"} /\ s.op \in Names
      /\ \A s \in Left(p)' : s.op \in {"drop", "create", "insert", "prepare"}
             => s.table = "FileList" /\ conf[p].dumps
      /\ \A s \in Left(p)' : s.op = "drop" => s = Drop("FileList")
      /\ \A s \in Left(p)' : s.op = "create" => s = Create("FileList")
      /\ conf[p].dumps => Drop("FileList") \in Left(p)' /\ Create("FileList") \in Left(p)'
  BY <1>5, CacheFacts
<1>9. ScriptOK(p)'
  <2>1. \A s \in Left(p)' : StatementOK(p, s)'
    BY <1>3, <1>6, <1>8, StatementFacts DEF StatementOK
  <2> QED
    BY <1>3, <1>5, <2>1 DEF ScriptOK, Script
<1>10. LegalOK(p)'
  <2>1. (phase'[p] = "open" /\ Compares(p)') = FALSE
    BY <1>3
  <2> QED
    BY <1>2, <1>3, <1>5, <2>1 DEF LegalOK, Script
<1>11. \A t \in Hands(p) : /\ Drop(t) \notin Left(p)' /\ Create(t) \notin Left(p)'
                           /\ ToInsert(p, t)' = {} /\ t # "FileList"
  BY <1>6, <1>7, <1>8, StatementFacts
<1>12. Target(p, "FileList")' = cache[p]
  BY <1>3 DEF Target, ReportTables
<1>13. PlanOK(p)'
  BY <1>6, <1>7, <1>8, <1>11, <1>12 DEF PlanOK
<1>14. \A t \in Hands(p) : Target(p, t)' = Target(p, t)
  <2> SUFFICES ASSUME NEW t \in Hands(p)
               PROVE  Target(p, t)' = Target(p, t)
    OBVIOUS
  <2>1. CASE t # "EqClass"
    BY <1>1, <1>3, <2>1 DEF Target
  <2>2. CASE t = "EqClass"
    <3>1. Target(p, "EqClass") = ClassesMarked(result[p], {c \in result[p].interesting : TRUE})
      BY <1>2 DEF Target, ReportTables
    <3>2. \A c : Update("EqClass", c) \notin Left(p)'
      BY <1>8, StatementFacts
    <3>3. Target(p, "EqClass")' = ClassesMarked(result'[p], {c \in result'[p].interesting : TRUE})
      BY <3>2 DEF Target, ReportTables
    <3> QED
      BY <1>3, <2>2, <3>1, <3>3
  <2> QED
    BY <2>1, <2>2
<1>15. TablesOK(p)'
  <2> SUFFICES ASSUME NEW t \in Hands(p)', t \notin meddled[p], Drop(t) \notin Left(p)'
               PROVE  Create(t) \notin Left(p)' /\ Stored(p, t, View(p).rows[t])'
    BY <1>3 DEF TablesOK
  <2>1. t \in Hands(p)
    BY <1>6, <1>8
  <2>2. View(p)'.rows[t] = Target(p, t)'
    BY <1>2, <1>6, <1>14, <2>1
  <2> QED
    BY <1>11, <2>1, <2>2 DEF Stored, Keys
<1>16. PrintsOK(p)'
  BY <1>1, <1>2, <1>3, <1>7 DEF PrintsOK
<1> QED
  BY <1>9, <1>10, <1>13, <1>15, <1>16 DEF ProcessOK

LEMMA ClassesUnmarked ==
    ASSUME NEW res
    PROVE  ClassesMarked(res, {}) = ClassRows(res)
BY DEF ClassesMarked, ClassRows

\* What Analyse leaves to its process, but for the script
Analysed(p) ==
    /\ Shape /\ ProcessOK(p) /\ phase[p] = "open" /\ script[p] = <<>>
    /\ phase'[p] = "report" /\ script'[p] = Output(conf[p], result'[p])
    /\ UNCHANGED <<disk, writer, work, conf, begun, printed, meddled>>

LEMMA AnalysedFacts ==
    ASSUME NEW p \in Processes, Analysed(p)
    PROVE  /\ begun[p] \in BOOLEAN /\ (begun[p] <=> Compares(p)) /\ conf[p] \in Confs
           /\ \A t \in Hands(p) \ meddled[p] : View(p).rows[t] = Target(p, t)
           /\ IsSeq(printed[p]) /\ printed[p] = <<>>
           /\ View(p)' = View(p) /\ (Compares(p)' <=> Compares(p))
           /\ phase'[p] # "exit" /\ phase'[p] # "open"
<1>1. Busy(p)
  BY DEF Analysed, Busy
<1>2. /\ Left(p) = {} /\ begun[p] = (phase[p] = "open" /\ Compares(p))
      /\ \A t \in Hands(p) \ meddled[p] : View(p).rows[t] = Target(p, t)
      /\ PrintsOK(p) /\ MemoryOK(p)
  BY <1>1, NothingLeft DEF Analysed
<1>3. begun[p] \in BOOLEAN /\ conf[p] \in Confs /\ IsSeq(printed[p]) /\ printed[p] = <<>>
  BY <1>2 DEF MemoryOK, Analysed, PrintsOK
<1>4. View(p)' = View(p) /\ (Compares(p)' <=> Compares(p))
  BY DEF Analysed, View, Compares
<1> QED
  BY <1>2, <1>3, <1>4 DEF Analysed

\* Nothing is to be written.
LEMMA AnalysedNothing ==
    ASSUME NEW p \in Processes, Analysed(p), script'[p] = <<>>, conf[p].mode # "compare",
           conf[p].mode = "fuzzy" => ~conf[p].out \/ result'[p] = None
    PROVE  ProcessOK(p)'
<1>1. begun[p] = FALSE /\ IsSeq(printed[p]) /\ printed[p] = <<>>
  BY AnalysedFacts DEF Compares
<1>2. Left(p)' = {} /\ ToPrint(p)' = {} /\ Hands(p)' = {}
  BY EmptyRange, RowsLeft, RowsOfEmpty DEF Left, Hands, Analysed, Compares
<1>3. ScriptOK(p)'
  BY <1>2, EmptyRange, OrderedEmpty DEF ScriptOK
<1>4. LegalOK(p)'
  <2>1. Legal(<<>>, FALSE, FALSE)
    BY LegalEmpty
  <2>2. (phase'[p] = "open" /\ Compares(p)') = FALSE
    BY DEF Analysed
  <2> QED
    BY <1>1, <2>1, <2>2 DEF LegalOK, Analysed
<1>5. PlanOK(p)' /\ TablesOK(p)'
  BY <1>2 DEF PlanOK, TablesOK
<1>6. PrintsOK(p)'
  BY <1>1, <1>2 DEF PrintsOK, Analysed
<1> QED
  BY <1>3, <1>4, <1>5, <1>6 DEF ProcessOK

LEMMA AnalysedFuzzy ==
    ASSUME NEW p \in Processes, Analysed(p), conf[p].mode = "fuzzy", conf[p].out,
           result'[p] \in Results, result'[p] # None
    PROVE  ProcessOK(p)'
<1> PICK res : res = result'[p]
  OBVIOUS
<1>1. begun[p] = FALSE /\ IsSeq(printed[p]) /\ printed[p] = <<>>
  BY AnalysedFacts DEF Compares
<1>2. script'[p] = CreateResultsDatabase \o DumpFuzzyDedupRes(res)
                       \o DumpInterestingEqClasses(res)
  BY DEF Analysed, Output, If
<1>3. Script(script'[p], FALSE, FALSE) /\ Left(p)' = FuzzyStatements(res)
  BY <1>2, FuzzyScript DEF Left
<1>4. Hands(p)' = ResultTables
  BY DEF Hands, Analysed, Compares, Tables, ResultTables
<1> PICK S : S = FuzzyStatements(res)
  OBVIOUS
<1>5. /\ RowsOf(S, "EqClass") = ClassRows(res) /\ RowsOf(S, "Node") = NodeRows(res)
      /\ PrintsOf(S) = {}
      /\ \A t \in ResultTables : Drop(t) \in S /\ Create(t) \in S
      /\ \A c \in res.interesting : Update("EqClass", c) \in S
      /\ \A s \in S : s.op \in Names /\ s.op # "select"
      /\ \A s \in S : s.op \in {"drop", "create", "insert", "prepare", "update"}
                         => s.table \in ResultTables
      /\ \A s \in S : s.op = "drop" => s = Drop(s.table)
      /\ \A s \in S : s.op = "create" => s = Create(s.table)
      /\ \A s \in S : s.op = "update" => s = Update("EqClass", s.row)
                                         /\ s.row \in res.interesting
  BY FuzzyFacts
<1>6. Left(p)' = S
  BY <1>3
<1>7. ScriptOK(p)'
  <2>1. \A s \in Left(p)' : StatementOK(p, s)'
    BY <1>4, <1>5, <1>6 DEF StatementOK, Analysed
  <2> QED
    BY <1>3, <2>1 DEF ScriptOK, Script, Analysed
<1>8. LegalOK(p)'
  <2>1. (phase'[p] = "open" /\ Compares(p)') = FALSE
    BY DEF Analysed
  <2> QED
    BY <1>1, <1>3, <2>1 DEF LegalOK, Script, Analysed
<1>9. /\ ToInsert(p, "EqClass")' = ClassRows(res) /\ ToInsert(p, "Node")' = NodeRows(res)
      /\ ToPrint(p)' = {}
  BY <1>5, <1>6, RowsLeft
<1>10. Target(p, "EqClass")' = ClassRows(res) /\ Target(p, "Node")' = NodeRows(res)
  <2>1. {c \in res.interesting : Update("EqClass", c) \notin S} = {}
    BY <1>5
  <2>2. Target(p, "EqClass")' = ClassesMarked(res, {c \in res.interesting :
                                                        Update("EqClass", c) \notin S})
    BY <1>6 DEF Target, ReportTables
  <2>3. Target(p, "Node")' = NodeRows(res)
    BY DEF Target, ReportTables
  <2> QED
    BY <2>1, <2>2, <2>3, ClassesUnmarked
<1>11. PlanOK(p)'
  BY <1>4, <1>5, <1>6, <1>9, <1>10 DEF PlanOK, ResultTables
<1>12. TablesOK(p)'
  BY <1>4, <1>5, <1>6 DEF TablesOK
<1>13. PrintsOK(p)'
  BY <1>1, <1>9 DEF PrintsOK, Analysed
<1> QED
  BY <1>7, <1>8, <1>11, <1>12, <1>13 DEF ProcessOK

LEMMA AnalysedCompare ==
    ASSUME NEW p \in Processes, Analysed(p), conf[p].mode = "compare",
           result'[p] \in Reports
    PROVE  ProcessOK(p)'
<1> PICK r \in Reports : r = result'[p]
  OBVIOUS
<1>1. /\ begun[p] = conf[p].out /\ conf[p].out \in BOOLEAN
      /\ IsSeq(printed[p]) /\ printed[p] = <<>>
      /\ \A t \in Hands(p) \ meddled[p] : View(p).rows[t] = Target(p, t)
      /\ View(p)' = View(p)
  BY AnalysedFacts, ConfsAssumption DEF Compares
<1> PICK out \in BOOLEAN : out = conf[p].out
  BY <1>1
<1>2. script'[p] = FlattenSeq([i \in DOMAIN r.lines |-> PrintLine(r.lines[i], out)])
                       \o If(out, <<Commit>>)
  BY DEF Analysed, Output
<1>3. Script(script'[p], out, FALSE) /\ Left(p)' = CompareStatements(r, out)
  BY <1>2, CompareScript DEF Left
<1>4. Hands(p)' = (IF out THEN ReportTables ELSE {}) /\ Hands(p) = Hands(p)'
  BY DEF Hands, Analysed, Compares, Tables, ReportTables
<1> PICK S : S = CompareStatements(r, out)
  OBVIOUS
<1>5. /\ PrintsOf(S) = Range(r.lines)
      /\ out => \A t : RowsOf(S, t) = RowsIn(t, r.lines)
      /\ \A s \in S : s.op \in {"print", "insert", "commit"}
      /\ \A s \in S : s.op = "insert" => out /\ s.table \in ReportTables
  BY CompareFacts
<1>6. Left(p)' = S
  BY <1>3
<1>7. ScriptOK(p)'
  <2>1. \A s \in Left(p)' : StatementOK(p, s)'
    BY <1>4, <1>5, <1>6 DEF StatementOK, Analysed, Names
  <2> QED
    BY <1>3, <2>1 DEF ScriptOK, Script, Analysed
<1>8. LegalOK(p)'
  <2>1. (phase'[p] = "open" /\ Compares(p)') = FALSE
    BY DEF Analysed
  <2> QED
    BY <1>1, <1>3, <2>1 DEF LegalOK, Script, Analysed
<1>9. /\ out => \A t : ToInsert(p, t)' = RowsIn(t, r.lines)
      /\ ToPrint(p)' = Range(r.lines)
  BY <1>5, <1>6, RowsLeft
<1>10. \A t \in ReportTables : Target(p, t) = {} /\ Target(p, t)' = RowsIn(t, r.lines)
  BY DEF Target, ReportTables, Analysed
<1>11. \A t : Drop(t) \notin Left(p)' /\ Create(t) \notin Left(p)'
  BY <1>5, <1>6, StatementFacts
<1>12. PlanOK(p)'
  BY <1>4, <1>9, <1>10, <1>11 DEF PlanOK
<1>13. TablesOK(p)'
  <2> SUFFICES ASSUME NEW t \in Hands(p), t \notin meddled[p]
               PROVE  Stored(p, t, View(p).rows[t])'
    BY <1>4, <1>11 DEF TablesOK, Analysed
  <2>1. View(p)'.rows[t] = {} /\ t \in ReportTables /\ out
    BY <1>1, <1>4, <1>10
  <2> QED
    BY <1>9, <1>10, <2>1 DEF Stored, Keys
<1>14. PrintsOK(p)'
  BY <1>1, <1>9, EmptyRange DEF PrintsOK, Analysed
<1> QED
  BY <1>7, <1>8, <1>12, <1>13, <1>14 DEF ProcessOK

LEMMA AnalyseProcess ==
    ASSUME NEW p \in Processes, Inv, Analyse(p)
    PROVE  ProcessOK(p)'
<1>1. MapsOK /\ conf[p] \in Confs
  BY DEF Inv, Shape, Analyse, MemoryOK
<1>2. PICK r \in CASE conf[p].mode = "fuzzy" -> Results
                   [] conf[p].mode = "compare" -> Reports
                   [] conf[p].mode = "cache only" -> {None} :
          /\ result' = [result EXCEPT ![p] = r]
          /\ script' = [script EXCEPT ![p] = Output(conf[p], r)]
  BY DEF Analyse
<1>3. result'[p] = r /\ script'[p] = Output(conf[p], r)
  BY <1>1, <1>2 DEF MapsOK, IsMap
<1>4. Analysed(p)
  BY <1>1, <1>3 DEF Analyse, Inv, Analysed, MapsOK, IsMap, file
<1>5. conf[p].mode \in {"fuzzy", "compare", "cache only"}
  BY <1>1, ConfsAssumption
<1>6. CASE conf[p].mode = "fuzzy" /\ conf[p].out /\ r # None
  BY <1>2, <1>3, <1>4, <1>6, AnalysedFuzzy
<1>7. CASE conf[p].mode = "fuzzy" /\ ~(conf[p].out /\ r # None)
  <2>1. script'[p] = <<>>
    BY <1>3, <1>7 DEF Output, If
  <2> QED
    BY <1>3, <1>4, <1>7, <2>1, AnalysedNothing
<1>8. CASE conf[p].mode = "compare"
  BY <1>2, <1>3, <1>4, <1>8, AnalysedCompare
<1>9. CASE conf[p].mode = "cache only"
  <2>1. script'[p] = <<>>
    BY <1>3, <1>9 DEF Output
  <2> QED
    BY <1>3, <1>4, <1>9, <2>1, AnalysedNothing
<1> QED
  BY <1>5, <1>6, <1>7, <1>8, <1>9

LEMMA StartProcess ==
    ASSUME NEW p \in Processes, Inv, Start(p)
    PROVE  ProcessOK(p)'
<1>1. MapsOK /\ MemoryOK(p) /\ phase[p] = "start"
  BY DEF Inv, Shape, Start
<1>2. PICK c \in Confs : conf'[p] = c /\ script'[p] = Opening(c)
  <2>1. PICK c \in Confs : /\ conf' = [conf EXCEPT ![p] = c]
                           /\ script' = [script EXCEPT ![p] = Opening(c)]
    BY DEF Start
  <2> QED
    BY <1>1, <2>1 DEF MapsOK, IsMap
<1>3. /\ phase'[p] = "open"
      /\ UNCHANGED <<disk, writer, work, cache, result, begun, printed, meddled>>
  BY <1>1 DEF Start, file, MapsOK, IsMap
<1>4. begun[p] = FALSE /\ printed[p] = <<>>
  BY <1>1 DEF MemoryOK, Busy
<1> PICK o \in BOOLEAN : o = (c.mode = "compare" /\ c.out)
  OBVIOUS
<1>5. Script(script'[p], FALSE, o) /\ Left(p)' = OpeningStatements(c)
  BY <1>2, OpeningScript DEF Left
<1>6. (Compares(p)' <=> o) /\ Hands(p)' = IF o THEN ReportTables ELSE {}
  BY <1>2, <1>3 DEF Compares, Hands, Tables, ReportTables
<1>7. Range(DirCompDBStream) = {Begin, Drop("Removed"), Drop("RenameTo"), Create("Removed"),
                                Create("RenameTo"), Prepare("Removed"), Prepare("RenameTo")}
  BY ReportsOrdered
<1>8. /\ \A s \in Left(p)' : s.op \in {"begin", "drop", "create", "prepare", "select"}
      /\ \A s \in Left(p)' : s.op \in {"drop", "create", "prepare"} => o /\ s.table \in ReportTables
      /\ \A s \in Left(p)' : s.op = "drop" => s = Drop(s.table)
      /\ \A s \in Left(p)' : s.op = "create" => s = Create(s.table)
      /\ o => \A t \in ReportTables : Drop(t) \in Left(p)' /\ Create(t) \in Left(p)'
  <2>1. \A s \in Left(p)' : s.op = "select" \/ (o /\ s \in Range(DirCompDBStream))
    <3>1. Left(p)' = (IF c.reads THEN {Select("cache")} ELSE {})
                         \cup (IF c.mode = "compare" /\ c.out THEN Range(DirCompDBStream) ELSE {})
                         \cup (IF c.lists THEN {Select("listing")} ELSE {})
      BY <1>5 DEF OpeningStatements
    <3>2. \A s \in Left(p)' : \/ s \in {Select("cache"), Select("listing")}
                              \/ o /\ s \in Range(DirCompDBStream)
      BY <3>1
    <3> QED
      BY <3>2, StatementFacts
  <2>2. o => Range(DirCompDBStream) \subseteq Left(p)'
    BY <1>5 DEF OpeningStatements
  <2>3. \A s \in Range(DirCompDBStream) :
            \/ s = Begin
            \/ \E t \in ReportTables : s = Drop(t) \/ s = Create(t) \/ s = Prepare(t)
    BY <1>7 DEF ReportTables
  <2>4. \A t \in ReportTables : Drop(t) \in Range(DirCompDBStream) /\ Create(t) \in Range(DirCompDBStream)
    BY <1>7 DEF ReportTables
  <2>5. \A s \in Range(DirCompDBStream) :
            /\ s.op \in {"begin", "drop", "create", "prepare"}
            /\ s.op # "begin" => s.table \in ReportTables
            /\ s.op = "drop" => s = Drop(s.table)
            /\ s.op = "create" => s = Create(s.table)
    BY <2>3, StatementFacts
  <2> QED
    BY <2>1, <2>2, <2>4, <2>5
<1>9. ToPrint(p)' = {} /\ \A t : ToInsert(p, t)' = {}
  BY <1>8 DEF ToPrint, ToInsert
<1>10. ScriptOK(p)'
  <2>1. \A s \in Left(p)' : StatementOK(p, s)'
    BY <1>3, <1>6, <1>8 DEF StatementOK, Names
  <2> QED
    BY <1>3, <1>5, <2>1 DEF ScriptOK, Script
<1>11. LegalOK(p)'
  <2>1. (phase'[p] = "open" /\ Compares(p)') = o
    BY <1>3, <1>6
  <2> QED
    BY <1>3, <1>4, <1>5, <2>1 DEF LegalOK, Script
<1>12. \A t \in ReportTables : Target(p, t)' = {}
  BY <1>3 DEF Target, ReportTables
<1>13. PlanOK(p)'
  BY <1>6, <1>8, <1>9, <1>12 DEF PlanOK, ReportTables
<1>14. TablesOK(p)'
  BY <1>6, <1>8 DEF TablesOK
<1>15. PrintsOK(p)'
  BY <1>3, <1>4, <1>9, EmptyRange DEF PrintsOK
<1> QED
  BY <1>10, <1>11, <1>13, <1>14, <1>15 DEF ProcessOK

\* Each step keeps the plan of each process.
LEMMA ProcessStep ==
    ASSUME NEW p \in Processes, NEW q \in Processes, Inv, Main(p) \/ Execute(p) \/ Die(p)
    PROVE  ProcessOK(q)'
<1>1. Shape /\ MapsOK /\ ProcessOK(q)
  BY DEF Inv, Shape
<1>2. CASE q # p
  <2>1. Same(q)
    BY <1>1, <1>2, MainMaps, ExecuteMaps, DeathEffect
  <2>2. Keeps(q)
    BY <1>1, <1>2, KeepsOthers
  <2> QED
    BY <1>1, <2>1, <2>2, SameProcess DEF Same
<1>3. CASE q = p /\ Main(p)
  BY <1>3, StartProcess, AnalyseProcess, FinalizeProcess, ExitProcess DEF Main
<1>4. CASE q = p /\ Die(p)
  BY <1>1, <1>4, DeathEffect DEF ProcessOK, Alive, Busy
<1>5. CASE q = p /\ (BeginRead(p) \/ ReadRow(p))
  <2>1. UNCHANGED <<disk, writer, work, phase, conf, cache, result, script, begun, printed, meddled>>
    BY <1>5 DEF BeginRead, ReadRow, file, memory
  <2>2. SamePlan(p)
    BY <2>1 DEF SamePlan
  <2>3. Keeps(p)
    BY <1>1, <2>1, KeepsFile DEF Shape, MemoryOK
  <2> QED
    BY <1>1, <1>5, <2>2, <2>3, SameProcess
<1>6. CASE q = p /\ Execute(p) /\ ~(BeginRead(p) \/ ReadRow(p))
  BY <1>6, BeginProcess, CommitProcess, PrepareProcess, EndReadProcess, WriteProcess DEF Execute
<1> QED
  BY <1>2, <1>3, <1>4, <1>5, <1>6

-----------------------------------------------------------------------------
(* Reading a table row by row *)

\* The stream has a row in hand, or has seen the end; the iterator has not
\* taken it.
Ready(c, table) ==
    /\ IsSeq(c.rest) /\ None \notin Range(c.rest)
    /\ IsCache(c.all)
    /\ c.next = None => c.rest = <<>>
    /\ c.all = c.got \cup (IF c.next = None THEN {} ELSE {c.next}) \cup Range(c.rest)
    /\ c.atEnd = FALSE /\ c.locked \in BOOLEAN
    /\ c.locked <=> c.next # None
    /\ c.locked => c.all = table
    /\ c = [all |-> c.all, got |-> c.got, rest |-> c.rest, next |-> c.next,
            value |-> c.value, locked |-> c.locked, atEnd |-> c.atEnd]

Cursor(all, got, rest, next, value, locked, atEnd) ==
    [all |-> all, got |-> got, rest |-> rest, next |-> next,
     value |-> value, locked |-> locked, atEnd |-> atEnd]

ReadyParts(all, got, rest, next, value, locked, atEnd, table) ==
    /\ IsSeq(rest) /\ None \notin Range(rest) /\ IsCache(all)
    /\ next = None => rest = <<>>
    /\ locked \in BOOLEAN /\ (locked <=> next # None) /\ (locked => all = table)
    /\ all = got \cup (IF next = None THEN {} ELSE {next}) \cup Range(rest)
    /\ atEnd = FALSE

LEMMA MakeReady ==
    ASSUME NEW all, NEW got, NEW rest, NEW next, NEW value, NEW locked, NEW atEnd, NEW table,
           ReadyParts(all, got, rest, next, value, locked, atEnd, table)
    PROVE  Ready(Cursor(all, got, rest, next, value, locked, atEnd), table)
<1> PICK c : c = Cursor(all, got, rest, next, value, locked, atEnd)
  OBVIOUS
<1>1. /\ c.all = all /\ c.got = got /\ c.rest = rest /\ c.next = next /\ c.value = value
      /\ c.locked = locked /\ c.atEnd = atEnd
  BY DEF Cursor
<1>2. c = [all |-> c.all, got |-> c.got, rest |-> c.rest, next |-> c.next,
           value |-> c.value, locked |-> c.locked, atEnd |-> c.atEnd]
  BY <1>1 DEF Cursor
<1>3. Ready(c, table)
  BY <1>1, <1>2 DEF Ready, ReadyParts
<1> QED
  BY <1>3

CursorParts(all, got, rest, next, value, locked, atEnd, table) ==
    /\ IsSeq(rest) /\ None \notin Range(rest) /\ IsCache(all)
    /\ next = None => rest = <<>>
    /\ locked \in BOOLEAN /\ (locked <=> next # None) /\ (locked => all = table)
    /\ all = got \cup (IF atEnd THEN {} ELSE {value})
                 \cup (IF next = None THEN {} ELSE {next}) \cup Range(rest)
    /\ atEnd \in BOOLEAN /\ (atEnd => next = None)

LEMMA MakeCursor ==
    ASSUME NEW all, NEW got, NEW rest, NEW next, NEW value, NEW locked, NEW atEnd, NEW table,
           CursorParts(all, got, rest, next, value, locked, atEnd, table)
    PROVE  CursorOK(Cursor(all, got, rest, next, value, locked, atEnd), table)
<1> PICK c : c = Cursor(all, got, rest, next, value, locked, atEnd)
  OBVIOUS
<1>1. /\ c.all = all /\ c.got = got /\ c.rest = rest /\ c.next = next /\ c.value = value
      /\ c.locked = locked /\ c.atEnd = atEnd
  BY DEF Cursor
<1>2. c = [all |-> c.all, got |-> c.got, rest |-> c.rest, next |-> c.next,
           value |-> c.value, locked |-> c.locked, atEnd |-> c.atEnd]
  BY <1>1 DEF Cursor
<1>3. CursorOK(c, table)
  BY <1>1, <1>2 DEF CursorOK, CursorParts
<1> QED
  BY <1>3

LEMMA FetchReady ==
    ASSUME NEW c, NEW table, Ready(c, table)
    PROVE  CursorOK(Fetch(c), table)
<1>1. /\ c = Cursor(c.all, c.got, c.rest, c.next, c.value, c.locked, c.atEnd)
      /\ c.locked \in BOOLEAN /\ c.atEnd = FALSE
  BY DEF Ready, Cursor
<1>2. CASE c.next = None
  <2>1. Fetch(c) = Cursor(c.all, c.got, c.rest, c.next, c.value, c.locked, TRUE)
    BY <1>1, <1>2 DEF Fetch, Cursor
  <2>2. c.all = c.got /\ c.rest = <<>> /\ Range(c.rest) = {} /\ ~c.locked
    BY <1>2, EmptyRange DEF Ready
  <2>3. CursorParts(c.all, c.got, c.rest, c.next, c.value, c.locked, TRUE, table)
    BY <1>1, <1>2, <2>2 DEF Ready, CursorParts
  <2> QED
    BY <2>1, <2>3, MakeCursor, Zenon
<1>3. CASE c.next # None
  <2> DEFINE d == [c EXCEPT !.value = c.next]
  <2>1. d = Cursor(c.all, c.got, c.rest, c.next, c.next, c.locked, c.atEnd)
    BY <1>1 DEF Cursor
  <2>2. Fetch(c) = StreamFetch(d)
    BY <1>3 DEF Fetch
  <2> HIDE DEF d
  <2>3. CASE c.rest = <<>>
    <3>1. StreamFetch(d) = Cursor(c.all, c.got, c.rest, None, c.next, FALSE, c.atEnd)
      BY <2>1, <2>3 DEF StreamFetch, Cursor
    <3>2. c.all = c.got \cup {c.next} /\ Range(c.rest) = {}
      BY <1>3, <2>3, EmptyRange DEF Ready
    <3>3. CursorParts(c.all, c.got, c.rest, None, c.next, FALSE, c.atEnd, table)
      BY <1>1, <2>3, <3>2 DEF Ready, CursorParts
    <3> QED
      BY <2>2, <3>1, <3>3, MakeCursor, Zenon
  <2>4. CASE c.rest # <<>>
    <3>1. StreamFetch(d) = Cursor(c.all, c.got, Tail(c.rest), Head(c.rest), c.next, c.locked, c.atEnd)
      BY <2>1, <2>4 DEF StreamFetch, Cursor
    <3>2. IsSeq(Tail(c.rest)) /\ Range(c.rest) = {Head(c.rest)} \cup Range(Tail(c.rest))
      BY <2>4, TailRange DEF Ready
    <3>3. Head(c.rest) # None /\ None \notin Range(Tail(c.rest)) /\ c.locked
      BY <1>3, <3>2 DEF Ready
    <3>4. c.all = c.got \cup {c.next} \cup {Head(c.rest)} \cup Range(Tail(c.rest))
      BY <1>3, <3>2 DEF Ready
    <3>5. CursorParts(c.all, c.got, Tail(c.rest), Head(c.rest), c.next, c.locked, c.atEnd, table)
      BY <1>1, <3>2, <3>3, <3>4 DEF Ready, CursorParts
    <3> QED
      BY <2>2, <3>1, <3>5, MakeCursor, Zenon
  <2> QED
    BY <2>3, <2>4
<1> QED
  BY <1>2, <1>3

LEMMA OpenQueryCursor ==
    ASSUME NEW rows, IsCache(rows)
    PROVE  CursorOK(OpenQuery(rows), rows)
<1> DEFINE seq == SetToSeq(rows)
           c == Cursor(rows, {}, seq, None, None, TRUE, FALSE)
<1>1. IsSeq(seq) /\ Range(seq) = rows /\ None \notin rows
  BY SetToSeqOf DEF IsCache, IsFileList
<1> HIDE DEF seq
<1>2. OpenQuery(rows) = Fetch(StreamFetch(c))
  BY DEF OpenQuery, Cursor, seq
<1>3. Ready(StreamFetch(c), rows)
  <2>1. CASE seq = <<>>
    <3>1. StreamFetch(c) = Cursor(rows, {}, seq, None, None, FALSE, FALSE)
      BY <2>1 DEF StreamFetch, Cursor
    <3>2. ReadyParts(rows, {}, seq, None, None, FALSE, FALSE, rows)
      BY <1>1, <2>1, EmptyRange DEF ReadyParts
    <3> QED
      BY <3>1, <3>2, MakeReady, Zenon
  <2>2. CASE seq # <<>>
    <3>1. StreamFetch(c) = Cursor(rows, {}, Tail(seq), Head(seq), None, TRUE, FALSE)
      BY <2>2 DEF StreamFetch, Cursor
    <3>2. IsSeq(Tail(seq)) /\ rows = {Head(seq)} \cup Range(Tail(seq))
      BY <1>1, <2>2, TailRange
    <3>3. Head(seq) # None /\ None \notin Range(Tail(seq))
      BY <1>1, <3>2
    <3>4. ReadyParts(rows, {}, Tail(seq), Head(seq), None, TRUE, FALSE, rows)
      BY <3>2, <3>3 DEF ReadyParts
    <3> QED
      BY <3>1, <3>4, MakeReady, Zenon
  <2> QED
    BY <2>1, <2>2
<1> HIDE DEF c
<1> QED
  BY <1>2, <1>3, FetchReady

LEMMA NextRowCursor ==
    ASSUME NEW c, NEW table, CursorOK(c, table), ~c.atEnd
    PROVE  CursorOK(NextRow(c), table)
<1> DEFINE d == [c EXCEPT !.got = @ \cup {c.value}]
<1>1. c = Cursor(c.all, c.got, c.rest, c.next, c.value, c.locked, c.atEnd)
  BY DEF CursorOK, Cursor
<1>2. d = Cursor(c.all, c.got \cup {c.value}, c.rest, c.next, c.value, c.locked, c.atEnd)
  BY <1>1 DEF Cursor
<1>3. NextRow(c) = Fetch(d)
  BY DEF NextRow
<1> HIDE DEF d
<1>4. c.all = (c.got \cup {c.value}) \cup (IF c.next = None THEN {} ELSE {c.next}) \cup Range(c.rest)
  BY DEF CursorOK
<1>5. Ready(d, table)
  <2>1. c.locked \in BOOLEAN /\ c.atEnd \in BOOLEAN
    BY DEF CursorOK
  <2>2. ReadyParts(c.all, c.got \cup {c.value}, c.rest, c.next, c.value, c.locked, c.atEnd, table)
    BY <1>4, <2>1 DEF CursorOK, ReadyParts
  <2> QED
    BY <1>2, <2>2, MakeReady, Zenon
<1> QED
  BY <1>3, <1>5, FetchReady

LEMMA CursorAtEnd ==
    ASSUME NEW c, NEW table, CursorOK(c, table), c.atEnd
    PROVE  c.got = c.all /\ IsCache(c.got)
<1>1. c.next = None /\ c.rest = <<>> /\ Range(c.rest) = {}
  BY EmptyRange DEF CursorOK
<1>2. c.all = c.got
  BY <1>1 DEF CursorOK
<1> QED
  BY <1>2 DEF CursorOK

LEMMA CursorTable ==
    ASSUME NEW c, NEW table, NEW other, CursorOK(c, table), c.locked => other = table
    PROVE  CursorOK(c, other)
BY DEF CursorOK

-----------------------------------------------------------------------------
(* Types *)

IsTable(t, table) ==
    \/ table = Absent
    \/ /\ \A r \in table : r = Row(r.key, r.val)
       /\ t = "FileList" => IsCache(table)

LEMMA IsDbTables ==
    \A db : IsDb(db) <=>
        /\ db = [rows |-> [t \in Tables |-> db.rows[t]], damaged |-> db.damaged]
        /\ db.damaged \subseteq Tables
        /\ \A t \in Tables : IsTable(t, db.rows[t])
<1> SUFFICES ASSUME NEW db
             PROVE  IsDb(db) <=>
                        /\ db = [rows |-> [t \in Tables |-> db.rows[t]], damaged |-> db.damaged]
                        /\ db.damaged \subseteq Tables
                        /\ \A t \in Tables : IsTable(t, db.rows[t])
  OBVIOUS
<1>1. "FileList" \in Tables
  BY DEF Tables
<1> QED
  BY <1>1 DEF IsDb, IsTable

LEMMA MakeDb ==
    ASSUME NEW rows, NEW damaged, rows = [t \in Tables |-> rows[t]], damaged \subseteq Tables,
           \A t \in Tables : IsTable(t, rows[t])
    PROVE  IsDb([rows |-> rows, damaged |-> damaged])
<1> DEFINE db == [rows |-> rows, damaged |-> damaged]
<1>1. db.rows = rows /\ db.damaged = damaged
  OBVIOUS
<1> HIDE DEF db
<1>2. db = [rows |-> [t \in Tables |-> db.rows[t]], damaged |-> db.damaged]
  BY <1>1 DEF db
<1> QED
  BY <1>1, <1>2, IsDbTables DEF db

LEMMA NewFileDb == IsDb(NewFile)
BY MakeDb DEF NewFile, IsTable

LEMMA DbParts ==
    ASSUME NEW db, IsDb(db)
    PROVE  /\ db.rows = [t \in Tables |-> db.rows[t]] /\ db.damaged \subseteq Tables
           /\ db = [rows |-> db.rows, damaged |-> db.damaged]
           /\ \A t \in Tables : IsTable(t, db.rows[t])
<1>1. db = [rows |-> [t \in Tables |-> db.rows[t]], damaged |-> db.damaged]
      /\ db.damaged \subseteq Tables /\ \A t \in Tables : IsTable(t, db.rows[t])
  BY IsDbTables
<1>2. db.rows = [t \in Tables |-> db.rows[t]]
  BY <1>1
<1> QED
  BY <1>1, <1>2

\* One table is replaced.
LEMMA ReplacedDb ==
    ASSUME NEW db, IsDb(db), NEW u \in Tables, NEW table, IsTable(u, table),
           NEW damaged \in SUBSET Tables
    PROVE  IsDb([rows |-> [db.rows EXCEPT ![u] = table], damaged |-> damaged])
<1> DEFINE rows == [db.rows EXCEPT ![u] = table]
<1>1. db.rows = [t \in Tables |-> db.rows[t]] /\ \A t \in Tables : IsTable(t, db.rows[t])
  BY DbParts
<1>2. rows = [t \in Tables |-> rows[t]] /\ \A t \in Tables : IsTable(t, rows[t])
  BY <1>1
<1> HIDE DEF rows
<1>3. IsDb([rows |-> rows, damaged |-> damaged])
  BY <1>2, MakeDb
<1> QED
  BY <1>3 DEF rows

LEMMA MarkedTable ==
    ASSUME NEW table, NEW k, \A r \in table : r = Row(r.key, r.val)
    PROVE  IsTable("EqClass", Marked(table, k))
<1>1. ASSUME NEW r \in Marked(table, k)
      PROVE  r = Row(r.key, r.val)
  <2>1. PICK q \in table : r = IF q.key = k THEN Row(k, <<q.val[1], TRUE>>) ELSE q
    BY DEF Marked, Row
  <2>2. CASE q.key = k
    BY <2>1, <2>2, RowFields
  <2>3. CASE q.key # k
    BY <2>1, <2>3
  <2> QED
    BY <2>2, <2>3
<1> QED
  BY <1>1 DEF IsTable

\* What is to be stored are rows of the table.
LEMMA TargetTable ==
    ASSUME NEW p \in Processes, MemoryOK(p), Alive(p), NEW t \in Hands(p)
    PROVE  /\ \A r \in Target(p, t) : r = Row(r.key, r.val)
           /\ t = "FileList" => Target(p, t) = cache[p] /\ IsCache(cache[p])
<1>1. t \in Tables
  BY DEF Hands
<1>2. CASE t = "FileList"
  <2>1. Target(p, t) = cache[p] /\ IsCache(cache[p])
    BY <1>2 DEF Target, ReportTables, MemoryOK
  <2>2. \A r \in cache[p] : r = Row(r.key, None)
    BY <2>1 DEF IsCache, IsFileList
  <2> QED
    BY <2>1, <2>2, RowFields
<1>3. CASE t = "Node"
  <2>1. Target(p, t) = NodeRows(result[p])
    BY <1>3 DEF Target, ReportTables
  <2> QED
    BY <1>3, <2>1, RowFields DEF NodeRows
<1>4. CASE t = "EqClass"
  <2>1. \E m : Target(p, t) = ClassesMarked(result[p], m)
    BY <1>4 DEF Target, ReportTables
  <2> QED
    BY <1>4, <2>1, RowFields DEF ClassesMarked
<1>5. CASE t \in ReportTables
  <2>1. Target(p, t) = {} \/ Target(p, t) = RowsIn(t, result[p].lines)
    BY <1>5 DEF Target, ReportTables
  <2>2. ASSUME NEW r \in RowsIn(t, result[p].lines)
        PROVE  r = Row(r.key, r.val)
    <3>1. PICK l : r \in LineRows(l)
      BY DEF RowsIn
    <3> QED
      BY <3>1, RowFields DEF LineRows
  <2>3. t # "FileList"
    BY <1>5 DEF ReportTables
  <2> QED
    BY <2>1, <2>2, <2>3
<1> QED
  BY <1>1, <1>2, <1>3, <1>4, <1>5 DEF Tables, ReportTables

LEMMA AddedRow ==
    ASSUME NEW t, NEW table, IsTable(t, table), table # Absent, NEW r, r = Row(r.key, r.val),
           t = "FileList" => r # None /\ r = Row(r.key, None)
    PROVE  IsTable(t, table \cup {r})
<1>1. \A q \in table \cup {r} : q = Row(q.key, q.val)
  BY DEF IsTable
<1>2. t = "FileList" => IsFiniteSet(table \cup {r})
  BY FS_AddElement DEF IsTable, IsCache, IsFileList
<1> QED
  BY <1>1, <1>2 DEF IsTable, IsCache, IsFileList

LEMMA ApplyDb ==
    ASSUME NEW p \in Processes, Inv, Todo(p), Writes(Step(p)), NEW db, IsDb(db),
           ~Refuses(db.rows, Step(p))
    PROVE  IsDb(Apply(db, Step(p)))
<1> PICK s, u : s = Step(p) /\ u = Step(p).table
  OBVIOUS
<1>1. ScriptOK(p) /\ PlanOK(p) /\ Alive(p) /\ Busy(p) /\ MemoryOK(p)
  BY DEF Inv, Shape, ProcessOK, Alive, Busy, Todo
<1>2. s \in Left(p)
  BY <1>1, TailRange DEF ScriptOK, Todo, Step, Left
<1>3. StatementOK(p, s) /\ u \in Hands(p) /\ u \in Tables /\ s.table = u
  BY <1>1, <1>2 DEF ScriptOK, StatementOK, Hands, Writes
<1>4. /\ db.damaged \subseteq Tables /\ db.damaged \ {u} \subseteq Tables
      /\ db = [rows |-> db.rows, damaged |-> db.damaged]
      /\ \A t \in Tables : IsTable(t, db.rows[t])
  BY DbParts
<1>5. CASE s.op = "drop"
  <2>1. Apply(db, s) = [rows |-> [db.rows EXCEPT ![u] = Absent], damaged |-> db.damaged \ {u}]
    BY <1>3, <1>5 DEF Apply
  <2>2. IsTable(u, Absent)
    BY DEF IsTable
  <2>3. IsDb([rows |-> [db.rows EXCEPT ![u] = Absent], damaged |-> db.damaged \ {u}])
    BY <1>3, <1>4, <2>2, ReplacedDb
  <2> QED
    BY <2>1, <2>3
<1>6. CASE s.op # "drop"
  <2>1. PICK table : Apply(db, s) = [rows |-> [db.rows EXCEPT ![u] = table], damaged |-> db.damaged]
                     /\ table = (CASE s.op = "create" -> {}
                                   [] s.op = "insert" -> db.rows[u] \cup {s.row}
                                   [] s.op = "update" -> Marked(db.rows[u], s.row))
    BY <1>3, <1>4, <1>6 DEF Apply, Writes
  <2>2. IsTable(u, table)
    <3>1. CASE s.op = "create"
      <4>1. IsFiniteSet({})
        BY FS_EmptySet
      <4> QED
        BY <2>1, <3>1, <4>1 DEF IsTable, IsCache, IsFileList
    <3>2. CASE s.op = "insert"
      <4>1. s.row \in Target(p, u)
        BY <1>1, <1>2, <1>3, <3>2 DEF PlanOK, ToInsert
      <4>2. s.row = Row(s.row.key, s.row.val)
            /\ (u = "FileList" => s.row # None /\ s.row = Row(s.row.key, None))
        BY <1>1, <1>3, <4>1, TargetTable DEF IsCache, IsFileList
      <4>3. db.rows[u] # Absent
        BY <1>3, <3>2 DEF Refuses
      <4>4. table = db.rows[u] \cup {s.row}
        BY <2>1, <3>2
      <4> QED
        BY <1>3, <1>4, <4>2, <4>3, <4>4, AddedRow
    <3>3. CASE s.op = "update"
      <4>1. u = "EqClass"
        BY <1>3, <3>3, StatementFacts DEF StatementOK
      <4>2. db.rows[u] # Absent
        BY <1>3, <3>3 DEF Refuses
      <4>3. table = Marked(db.rows[u], s.row)
        BY <2>1, <3>3
      <4> QED
        BY <1>3, <1>4, <4>1, <4>2, <4>3, MarkedTable DEF IsTable
    <3> QED
      BY <1>6, <3>1, <3>2, <3>3 DEF Writes
  <2>3. IsDb([rows |-> [db.rows EXCEPT ![u] = table], damaged |-> db.damaged])
    BY <1>3, <1>4, <2>2, ReplacedDb
  <2> QED
    BY <2>1, <2>3
<1> QED
  BY <1>5, <1>6

LEMMA TornDb ==
    ASSUME IsDb(disk), IsDb(work), NEW torn \in SUBSET Tables
    PROVE  IsDb(Torn(torn))
<1> DEFINE rows == [t \in Tables |-> IF t \in torn THEN work.rows[t] ELSE disk.rows[t]]
<1>1. /\ rows = [t \in Tables |-> rows[t]] /\ \A t \in Tables : IsTable(t, rows[t])
      /\ disk.damaged \cup torn \subseteq Tables
  BY DbParts
<1> HIDE DEF rows
<1>2. IsDb([rows |-> rows, damaged |-> disk.damaged \cup torn])
  BY <1>1, MakeDb
<1> QED
  BY <1>2 DEF Torn, rows

\* What a statement leaves of the shape of the files
LEMMA FilesStep ==
    ASSUME NEW p \in Processes, Inv, Main(p) \/ Execute(p) \/ Die(p)
    PROVE  FilesOK'
<1>1. MapsOK /\ FilesOK /\ MemoryOK(p) /\ (\A q \in Processes \ {p} : Same(q)) /\ MapsOK'
  BY MainMaps, ExecuteMaps, DeathEffect DEF Inv, Shape
<1>2. IsDb(disk) /\ IsDb(work) /\ IsDb(NewFile)
  BY <1>1, NewFileDb DEF FilesOK
<1>3. \A q \in Processes \ {p} : begun'[q] = begun[q]
  BY <1>1 DEF Same, SamePlan
<1>4. ASSUME UNCHANGED <<disk, writer, work>>, writer = p => begun'[p] = begun[p]
      PROVE  FilesOK'
  BY <1>1, <1>3, <1>4 DEF FilesOK
<1>5. CASE Main(p)
  <2>1. UNCHANGED <<disk, writer, work, begun>>
    BY <1>5 DEF Main, Start, Analyse, Finalize, Exit, file
  <2> QED
    BY <1>4, <2>1
<1>6. CASE PrepareStmt(p) \/ PrintToStdout(p) \/ BeginRead(p) \/ ReadRow(p) \/ EndRead(p)
  <2>1. UNCHANGED <<disk, writer, work, begun>>
    BY <1>6 DEF PrepareStmt, PrintToStdout, BeginRead, ReadRow, EndRead, file
  <2> QED
    BY <1>4, <2>1
<1>7. CASE BeginTransaction(p)
  <2>1. UNCHANGED <<disk, writer, work>> /\ ~begun[p]
    BY <1>7 DEF BeginTransaction, file
  <2> QED
    BY <1>1, <1>4, <2>1 DEF FilesOK
<1>8. CASE Autocommit(p)
  <2>1. /\ disk' = Apply(disk, Step(p)) /\ UNCHANGED <<writer, work>> /\ writer = None
        /\ Todo(p) /\ Writes(Step(p)) /\ ~Refuses(disk.rows, Step(p))
    BY <1>8 DEF Autocommit
  <2>2. IsDb(disk')
    BY <1>2, <2>1, ApplyDb
  <2> QED
    BY <1>2, <2>1, <2>2 DEF FilesOK
<1>9. CASE WriteInTransaction(p)
  <2>1. /\ work' = Apply(View(p), Step(p)) /\ disk' = disk /\ writer' = p /\ begun[p]
        /\ begun' = begun
        /\ Todo(p) /\ Writes(Step(p)) /\ ~Refuses(View(p).rows, Step(p))
    BY <1>9 DEF WriteInTransaction
  <2>2. IsDb(View(p))
    BY <1>2 DEF View
  <2>3. IsDb(work')
    BY <2>1, <2>2, ApplyDb
  <2> QED
    BY <1>2, <2>1, <2>3 DEF FilesOK
<1>10. CASE CommitTransaction(p)
  <2>1. CASE writer = p
    <3>1. disk' = work /\ work' = NewFile /\ writer' = None
      BY <1>10, <2>1 DEF CommitTransaction, Publish
    <3> QED
      BY <1>2, <3>1 DEF FilesOK
  <2>2. CASE writer # p
    <3>1. UNCHANGED <<disk, writer, work>>
      BY <1>10, <2>2 DEF CommitTransaction, file
    <3> QED
      BY <1>4, <2>2, <3>1
  <2> QED
    BY <2>1, <2>2
<1>11. CASE Die(p)
  <2>1. CASE writer = p
    <3>1. /\ writer' = None /\ work' = NewFile
          /\ \E torn \in SUBSET {t \in Tables : Readers = {} /\ work.rows[t] # disk.rows[t]} :
                 Publish(p, Torn(torn))
      BY <1>1, <1>11, <2>1, DeathEffect
    <3>2. PICK torn \in SUBSET Tables : disk' = Torn(torn)
      BY <3>1 DEF Publish
    <3>3. IsDb(disk')
      BY <1>2, <3>2, TornDb
    <3> QED
      BY <1>2, <3>1, <3>3 DEF FilesOK
  <2>2. CASE writer # p
    <3>1. UNCHANGED <<disk, writer, work>>
      BY <1>1, <1>11, <2>2, DeathEffect
    <3> QED
      BY <1>4, <2>2, <3>1
  <2> QED
    BY <2>1, <2>2
<1> QED
  BY <1>5, <1>6, <1>7, <1>8, <1>9, <1>10, <1>11 DEF Execute

LEMMA SameMemory ==
    ASSUME NEW q \in Processes, MemoryOK(q), SamePlan(q), meddled'[q] \subseteq Tables
    PROVE  MemoryOK(q)'
BY DEF MemoryOK, SamePlan, Busy

LEMMA FilesNone == None \notin Files
<1>1. None \notin Processes \cup Files
  BY NoneAssumption
<1> QED
  BY <1>1

LEMMA MemoryMain ==
    ASSUME NEW p \in Processes, Inv, Main(p)
    PROVE  MemoryOK(p)'
<1>1. MapsOK /\ MemoryOK(p)
  BY DEF Inv, Shape
<1>2. CASE Start(p)
  <2>1. PICK c \in Confs : conf' = [conf EXCEPT ![p] = c]
    BY <1>2 DEF Start
  <2>2. conf'[p] \in Confs /\ phase[p] = "start" /\ phase'[p] = "open"
        /\ UNCHANGED <<cache, result, begun, printed, meddled>>
    BY <1>1, <1>2, <2>1 DEF Start, MapsOK, IsMap
  <2>3. ~begun[p] /\ result[p] = None
    BY <1>1, <2>2 DEF MemoryOK, Busy
  <2> QED
    BY <1>1, <2>2, <2>3 DEF MemoryOK
<1>3. CASE Analyse(p)
  <2>1. PICK scanned \in SUBSET Files : cache' = [cache EXCEPT ![p] = @ \cup scanned]
    BY <1>3 DEF Analyse
  <2>2. PICK r \in CASE conf[p].mode = "fuzzy" -> Results
                     [] conf[p].mode = "compare" -> Reports
                     [] conf[p].mode = "cache only" -> {None} :
            result' = [result EXCEPT ![p] = r]
    BY <1>3 DEF Analyse
  <2>3. /\ cache'[p] = cache[p] \cup scanned /\ result'[p] = r
        /\ phase[p] = "open" /\ phase'[p] = "report"
        /\ UNCHANGED <<conf, begun, printed, meddled>>
    BY <1>1, <1>3, <2>1, <2>2 DEF Analyse, MapsOK, IsMap
  <2>4. conf[p] \in Confs /\ conf[p].mode \in {"fuzzy", "compare", "cache only"}
    BY <1>1, <2>3, ConfsAssumption DEF MemoryOK
  <2>5. r # None => r \in IF conf[p].mode = "fuzzy" THEN Results ELSE Reports
    BY <2>2, <2>4
  <2>6. IsCache(cache[p] \cup scanned)
    <3>1. IsFiniteSet(scanned) /\ None \notin scanned /\ \A q \in scanned : q = Row(q.key, None)
      <4>1. IsFiniteSet(Files) /\ \A q \in Files : q = Row(q.key, None)
        BY FilesAssumption DEF IsFileList
      <4>2. IsFiniteSet(scanned)
        BY <4>1, FS_Subset
      <4> QED
        BY <4>1, <4>2, FilesNone
    <3>2. IsFiniteSet(cache[p]) /\ None \notin cache[p] /\ \A q \in cache[p] : q = Row(q.key, None)
      BY <1>1 DEF MemoryOK, IsCache, IsFileList
    <3>3. IsFiniteSet(cache[p] \cup scanned)
      BY <3>1, <3>2, FS_Union
    <3> QED
      BY <3>1, <3>2, <3>3 DEF IsCache, IsFileList
  <2> QED
    BY <1>1, <2>2, <2>3, <2>4, <2>5, <2>6 DEF MemoryOK, Busy
<1>4. CASE Finalize(p)
  <2>1. phase[p] = "report" /\ phase'[p] = "finalize"
        /\ UNCHANGED <<conf, cache, result, begun, printed, meddled>>
    BY <1>1, <1>4 DEF Finalize, MapsOK, IsMap, memory
  <2> QED
    BY <1>1, <2>1 DEF MemoryOK, Busy
<1>5. CASE Exit(p)
  <2>1. phase[p] = "finalize" /\ phase'[p] = "exit"
        /\ UNCHANGED <<conf, cache, result, begun, printed, meddled>>
    BY <1>1, <1>5 DEF Exit, MapsOK, IsMap, memory
  <2>2. ~begun[p]
    BY <1>5, NothingLeft DEF Exit, Inv, Busy
  <2> QED
    BY <1>1, <2>1, <2>2 DEF MemoryOK
<1> QED
  BY <1>2, <1>3, <1>4, <1>5 DEF Main

LEMMA MemoryStep ==
    ASSUME NEW p \in Processes, NEW q \in Processes, Inv, Main(p) \/ Execute(p) \/ Die(p)
    PROVE  MemoryOK(q)'
<1>1. Shape /\ MapsOK /\ MemoryOK(p) /\ MemoryOK(q) /\ ProcessOK(p)
  BY DEF Inv, Shape
<1>2. CASE q # p
  <2>1. Same(q)
    BY <1>1, <1>2, MainMaps, ExecuteMaps, DeathEffect
  <2>2. Keeps(q)
    BY <1>1, <1>2, KeepsOthers
  <2> QED
    BY <1>1, <2>1, <2>2, SameMemory DEF Same, Keeps
<1>3. CASE q = p /\ Main(p)
  BY <1>3, MemoryMain
<1>4. CASE q = p /\ Die(p)
  <2>1. /\ Busy(p) /\ phase'[p] \in {"refused", "died"} /\ begun'[p] = FALSE
        /\ conf'[p] = conf[p] /\ cache'[p] = cache[p] /\ result'[p] = result[p]
        /\ printed'[p] = printed[p] /\ meddled'[p] = meddled[p]
    BY <1>1, <1>4, DeathEffect
  <2> QED
    BY <1>1, <1>4, <2>1 DEF MemoryOK, Busy
<1>5. CASE q = p /\ (BeginTransaction(p) \/ PrepareStmt(p) \/ BeginRead(p) \/ ReadRow(p))
  <2>1. /\ UNCHANGED <<phase, conf, cache, result, printed, meddled>>
        /\ begun'[p] \in BOOLEAN /\ (begun'[p] => begun[p] \/ Busy(p))
    BY <1>1, <1>5 DEF BeginTransaction, PrepareStmt, BeginRead, ReadRow, memory, Todo, Busy,
                      MapsOK, IsMap, MemoryOK
  <2> QED
    BY <1>1, <1>5, <2>1 DEF MemoryOK, Busy
<1>6. CASE q = p /\ (Autocommit(p) \/ WriteInTransaction(p) \/ CommitTransaction(p))
  <2>1. /\ UNCHANGED <<phase, conf, cache, result, printed>>
        /\ begun'[p] \in BOOLEAN /\ (begun'[p] => begun[p])
    BY <1>1, <1>6 DEF Autocommit, WriteInTransaction, CommitTransaction, memory,
                      MapsOK, IsMap, MemoryOK
  <2>2. meddled'[p] \subseteq meddled[p]
    <3>1. CASE Autocommit(p)
      BY <3>1 DEF Autocommit, Meddled
    <3>2. CASE WriteInTransaction(p)
      BY <1>1, <3>2 DEF WriteInTransaction, MapsOK, IsMap
    <3>3. CASE CommitTransaction(p)
      BY <3>3 DEF CommitTransaction, Publish, Meddled
    <3> QED
      BY <1>6, <3>1, <3>2, <3>3
  <2> QED
    BY <1>1, <1>6, <2>1, <2>2 DEF MemoryOK, Busy
<1>7. CASE q = p /\ PrintToStdout(p)
  <2>1. /\ UNCHANGED <<phase, conf, cache, result, begun, meddled>>
        /\ Todo(p) /\ Step(p).op = "print"
        /\ printed'[p] = Append(printed[p], Step(p).row)
    BY <1>1, <1>7 DEF PrintToStdout, memory, MapsOK, IsMap
  <2>2. ScriptOK(p) /\ PrintsOK(p)
    BY <1>1, <2>1 DEF ProcessOK, Alive, Busy, Todo
  <2>3. Step(p) \in Left(p)
    BY <2>1, <2>2, TailRange DEF ScriptOK, Todo, Step, Left
  <2>4. Step(p).row \in ToPrint(p)
    BY <2>1, <2>3 DEF ToPrint
  <2>5. conf[p].mode = "compare" /\ phase[p] # "open" /\ Step(p).row \in Range(result[p].lines)
        /\ IsSeq(printed[p])
    BY <2>2, <2>4 DEF PrintsOK
  <2>6. result[p] \in Reports
    BY <1>1, <2>1, <2>5 DEF MemoryOK, Todo
  <2>7. Range(printed'[p]) \subseteq UNION {Range(r.lines) : r \in Reports}
    <3>1. Range(printed'[p]) = Range(printed[p]) \cup {Step(p).row}
      BY <2>1, <2>5, AppendRange
    <3> QED
      BY <1>1, <2>5, <2>6, <3>1 DEF MemoryOK
  <2> QED
    BY <1>1, <1>7, <2>1, <2>5, <2>7 DEF MemoryOK, Todo, Busy
<1>8. CASE q = p /\ EndRead(p)
  <2>1. /\ UNCHANGED <<phase, conf, result, begun, printed, meddled>>
        /\ cursor[p] # None /\ cursor[p].atEnd
        /\ cache' = IF Step(p).row = "cache" THEN [cache EXCEPT ![p] = cursor[p].got] ELSE cache
    BY <1>8 DEF EndRead
  <2>2. IsCache(cursor[p].got)
    <3>1. CursorOK(cursor[p], disk.rows["FileList"])
      BY <1>1, <2>1 DEF Shape, ReadingOK
    <3> QED
      BY <2>1, <3>1, CursorAtEnd
  <2>3. IsCache(cache'[p])
    BY <1>1, <2>1, <2>2 DEF MemoryOK, MapsOK, IsMap
  <2> QED
    BY <1>1, <1>8, <2>1, <2>3 DEF MemoryOK, Busy
<1> QED
  BY <1>2, <1>3, <1>4, <1>5, <1>6, <1>7, <1>8 DEF Execute

\* Nobody changes the table of checksums while somebody reads it.
LEMMA ReadersKeep ==
    ASSUME NEW p \in Processes, Inv, Main(p) \/ Execute(p) \/ Die(p),
           NEW q \in Processes, cursor[q] # None, cursor[q].locked
    PROVE  disk'.rows["FileList"] = disk.rows["FileList"]
<1>1. Readers # {}
  BY DEF Readers
<1>2. CASE Main(p)
  BY <1>2 DEF Main, Start, Analyse, Finalize, Exit, file
<1>3. CASE Execute(p)
  BY <1>1, <1>3 DEF Execute, BeginTransaction, Autocommit, WriteInTransaction,
                    CommitTransaction, PrepareStmt, PrintToStdout, BeginRead, ReadRow, EndRead, file
<1>4. CASE Die(p)
  <2>1. MapsOK
    BY DEF Inv, Shape
  <2>2. CASE writer = p
    <3>1. PICK torn \in SUBSET {t \in Tables : Readers = {} /\ work.rows[t] # disk.rows[t]} :
              Publish(p, Torn(torn))
      BY <1>4, <2>1, <2>2, DeathEffect
    <3>2. disk' = Torn(torn) /\ torn = {}
      BY <1>1, <3>1 DEF Publish
    <3> QED
      BY <3>2 DEF Torn, Tables
  <2>3. CASE writer # p
    BY <1>4, <2>1, <2>3, DeathEffect
  <2> QED
    BY <2>2, <2>3
<1> QED
  BY <1>2, <1>3, <1>4

LEMMA ReadingStep ==
    ASSUME NEW p \in Processes, NEW q \in Processes, Inv, Main(p) \/ Execute(p) \/ Die(p),
           cursor'[q] # None
    PROVE  /\ phase'[q] = "open" /\ script'[q] # <<>> /\ Step(q)'.op = "select"
           /\ CursorOK(cursor'[q], disk'.rows["FileList"])
<1>1. /\ MapsOK /\ ReadingOK /\ MemoryOK(p) /\ ProcessOK(p)
      /\ cursor[p] # None => phase[p] = "open" /\ script[p] # <<>> /\ Step(p).op = "select"
  BY DEF Inv, Shape, ReadingOK
<1>2. ASSUME cursor'[q] = cursor[q], phase'[q] = phase[q], script'[q] = script[q]
      PROVE  /\ phase'[q] = "open" /\ script'[q] # <<>> /\ Step(q)'.op = "select"
             /\ CursorOK(cursor'[q], disk'.rows["FileList"])
  <2>1. /\ phase[q] = "open" /\ script[q] # <<>> /\ Step(q).op = "select"
        /\ CursorOK(cursor[q], disk.rows["FileList"])
    BY <1>1, <1>2 DEF ReadingOK
  <2>2. cursor[q].locked => disk'.rows["FileList"] = disk.rows["FileList"]
    BY <1>2, ReadersKeep
  <2>3. CursorOK(cursor[q], disk'.rows["FileList"])
    BY <2>1, <2>2, CursorTable
  <2> QED
    BY <1>2, <2>1, <2>3 DEF Step
<1>3. CASE q # p
  <2>1. Same(q)
    BY <1>1, <1>3, MainMaps, ExecuteMaps, DeathEffect
  <2> QED
    BY <1>2, <2>1 DEF Same, SamePlan
<1>4. CASE q = p /\ Main(p)
  <2>1. cursor' = cursor /\ (phase[p] # "open" \/ script[p] = <<>>)
    BY <1>4 DEF Main, Start, Analyse, Finalize, Exit
  <2> QED
    BY <1>1, <1>4, <2>1
<1>5. CASE q = p /\ (BeginTransaction(p) \/ Autocommit(p) \/ WriteInTransaction(p)
                       \/ CommitTransaction(p) \/ PrepareStmt(p) \/ PrintToStdout(p))
  <2>1. cursor' = cursor /\ Step(p).op # "select"
    BY <1>5 DEF BeginTransaction, Autocommit, WriteInTransaction, CommitTransaction,
                PrepareStmt, PrintToStdout, Writes
  <2> QED
    BY <1>1, <1>5, <2>1
<1>6. CASE q = p /\ BeginRead(p)
  <2>1. /\ Todo(p) /\ Step(p).op = "select" /\ disk.rows["FileList"] # Absent
        /\ UNCHANGED <<disk, phase, script>>
        /\ cursor'[p] = OpenQuery(disk.rows["FileList"])
    BY <1>1, <1>6 DEF BeginRead, MapsOK, IsMap, file
  <2>2. ScriptOK(p)
    BY <1>1, <2>1 DEF ProcessOK, Alive, Busy, Todo
  <2>3. Step(p) \in Left(p)
    BY <2>1, <2>2, TailRange DEF ScriptOK, Todo, Step, Left
  <2>4. phase[p] = "open"
    BY <2>1, <2>2, <2>3 DEF ScriptOK, StatementOK
  <2>5. IsCache(disk.rows["FileList"])
    BY <2>1 DEF Inv, Shape, FilesOK, IsDb
  <2>6. CursorOK(OpenQuery(disk.rows["FileList"]), disk.rows["FileList"])
    BY <2>5, OpenQueryCursor
  <2> QED
    BY <1>6, <2>1, <2>4, <2>6 DEF Todo, Step
<1>7. CASE q = p /\ ReadRow(p)
  <2>1. /\ cursor[p] # None /\ ~cursor[p].atEnd /\ cursor'[p] = NextRow(cursor[p])
        /\ UNCHANGED <<disk, phase, script>>
    BY <1>1, <1>7 DEF ReadRow, MapsOK, IsMap, file
  <2>2. CursorOK(cursor[p], disk.rows["FileList"])
    BY <1>1, <2>1 DEF ReadingOK
  <2>3. CursorOK(NextRow(cursor[p]), disk.rows["FileList"])
    BY <2>1, <2>2, NextRowCursor
  <2> QED
    BY <1>1, <1>7, <2>1, <2>3 DEF Step
<1>8. CASE q = p /\ EndRead(p)
  BY <1>1, <1>8 DEF EndRead, MapsOK, IsMap
<1>9. CASE q = p /\ Die(p)
  BY <1>1, <1>9, DeathEffect
<1> QED
  BY <1>3, <1>4, <1>5, <1>6, <1>7, <1>8, <1>9 DEF Execute

LEMMA InvInit == Init => Inv
<1> SUFFICES ASSUME Init PROVE Inv
  OBVIOUS
<1>1. MapsOK
  BY DEF Init, MapsOK, IsMap
<1>2. FilesOK
  <2>1. IsDb(disk)
    <3>1. disk \in Earlier
      BY DEF Init
    <3>2. /\ disk = [rows |-> [t \in Tables |-> disk.rows[t]], damaged |-> disk.damaged]
          /\ disk.damaged \subseteq Tables
          /\ \A t \in Tables : disk.rows[t] # Absent =>
                 \A r \in disk.rows[t] : r = Row(r.key, r.val)
          /\ disk.rows["FileList"] # Absent => IsFileList(disk.rows["FileList"])
      BY <3>1, EarlierAssumption
    <3>3. disk.rows["FileList"] # Absent => None \notin disk.rows["FileList"]
      BY <3>1, NoneAssumption DEF Tables
    <3> QED
      BY <3>2, <3>3 DEF IsDb, IsCache
  <2> QED
    BY <2>1, NewFileDb DEF Init, FilesOK
<1>3. ASSUME NEW p \in Processes
      PROVE  MemoryOK(p) /\ ProcessOK(p) /\ cursor[p] = None
  <2>1. IsCache({})
    BY FS_EmptySet DEF IsCache, IsFileList
  <2>2. /\ phase[p] = "start" /\ conf[p] = None /\ cache[p] = {} /\ result[p] = None
        /\ begun[p] = FALSE /\ printed[p] = <<>> /\ meddled[p] = {} /\ cursor[p] = None
    BY DEF Init
  <2> QED
    BY <2>1, <2>2, EmptyRange DEF MemoryOK, ProcessOK, Alive, Busy
<1> QED
  BY <1>1, <1>2, <1>3 DEF Inv, Shape, ReadingOK

LEMMA InvNext == Inv /\ [Next]_vars => Inv'
<1> SUFFICES ASSUME Inv, [Next]_vars PROVE Inv'
  OBVIOUS
<1>1. CASE UNCHANGED vars
  <2> USE <1>1 DEF vars, file, memory
  <2>1. MapsOK' /\ FilesOK' /\ (\A p \in Processes : MemoryOK(p)') /\ ReadingOK'
    BY DEF Inv, Shape, MapsOK, FilesOK, MemoryOK, Busy, ReadingOK, Step
  <2>2. ASSUME NEW p \in Processes PROVE ProcessOK(p)'
    <3>1. SamePlan(p) /\ Keeps(p)
      BY KeepsFile DEF SamePlan, Inv, Shape, MemoryOK
    <3> QED
      BY <3>1, SameProcess DEF Inv
  <2> QED
    BY <2>1, <2>2 DEF Inv, Shape
<1>2. ASSUME NEW p \in Processes, Main(p) \/ Execute(p) \/ Die(p)
      PROVE  Inv'
  <2>1. MapsOK'
    BY <1>2, MainMaps, ExecuteMaps, DeathEffect DEF Inv, Shape
  <2>2. FilesOK' /\ \A q \in Processes : MemoryOK(q)' /\ ProcessOK(q)'
    BY <1>2, FilesStep, MemoryStep, ProcessStep
  <2>3. ReadingOK'
    BY <1>2, ReadingStep DEF ReadingOK
  <2> QED
    BY <2>1, <2>2, <2>3 DEF Inv, Shape
<1> QED
  BY <1>1, <1>2 DEF Next, Terminated

\* Each process follows its script, and the tables are where it takes them.
THEOREM InvTheorem == Spec => []Inv
BY InvInit, InvNext, PTL DEF Spec

-----------------------------------------------------------------------------
(* The properties *)

\* TypeOK of every state: the record structure of the file, the write lock
\* with a process that is in a transaction, a cursor only at a query.
THEOREM TypeOKTheorem == Spec => []TypeOK
<1>1. Inv => TypeOK
  <2> SUFFICES ASSUME Inv PROVE TypeOK
    OBVIOUS
  <2>1. \A r : r = Row(r.key, r.val) => DOMAIN r = {"key", "val"}
    BY DEF Row
  <2>2. \A db : IsDb(db) => IsFile(db)
    BY <2>1 DEF IsDb, IsFile
  <2>3. IsFile(disk) /\ IsFile(work) /\ writer \in Processes \cup {None}
        /\ (writer # None => begun[writer])
    BY <2>2 DEF Inv, Shape, FilesOK
  <2>4. ASSUME NEW p \in Processes
        PROVE  /\ phase[p] \in {"start", "open", "report", "finalize", "exit", "died", "refused"}
               /\ conf[p] \in Confs \cup {None}
               /\ result[p] # None =>
                      result[p] \in IF conf[p].mode = "fuzzy" THEN Results ELSE Reports
               /\ Range(printed[p]) \subseteq UNION {Range(r.lines) : r \in Reports}
               /\ meddled[p] \subseteq Tables
               /\ cursor[p] # None => Step(p).op = "select"
               /\ begun[p] => phase[p] \in {"open", "report", "finalize"}
    <3>1. MemoryOK(p) /\ ReadingOK
      BY DEF Inv, Shape
    <3> QED
      BY <3>1 DEF MemoryOK, ReadingOK, Busy
  <2> QED
    BY <2>3, <2>4 DEF TypeOK
<1> QED
  BY <1>1, InvTheorem, PTL

\* A range-for over a query (DBInputIt over DBInStream) has read every row
\* when it ends, and as long as the stream has not seen the end the table is
\* the one the query was made on.
THEOREM ReadsAllTheorem == Spec => []ReadsAll
<1>1. Inv => ReadsAll
  <2> SUFFICES ASSUME Inv, NEW p \in Processes, cursor[p] # None
               PROVE  /\ cursor[p].atEnd => cursor[p].got = cursor[p].all
                      /\ cursor[p].locked => cursor[p].all = disk.rows["FileList"]
    BY DEF ReadsAll
  <2>1. CursorOK(cursor[p], disk.rows["FileList"])
    BY DEF Inv, Shape, ReadingOK
  <2> QED
    BY <2>1, CursorAtEnd DEF CursorOK
<1> QED
  BY <1>1, InvTheorem, PTL

\* What a process is about to execute, and what comes after
LEMMA TodoFacts ==
    ASSUME NEW p \in Processes, Inv, Todo(p)
    PROVE  /\ Alive(p) /\ ScriptOK(p) /\ PlanOK(p) /\ TablesOK(p) /\ MemoryOK(p)
           /\ Step(p) \in Left(p) /\ StatementOK(p, Step(p))
           /\ \A y \in Left(p) : y = Step(p) \/ Follows(y, Step(p))
           /\ begun[p] \in BOOLEAN
           /\ \E m \in BOOLEAN : LegalStep(Step(p), begun[p], m)
<1>1. /\ Alive(p) /\ ScriptOK(p) /\ PlanOK(p) /\ TablesOK(p) /\ LegalOK(p) /\ MemoryOK(p)
  BY DEF Inv, Shape, ProcessOK, Alive, Busy, Todo
<1>2. IsSeq(script[p]) /\ script[p] # <<>> /\ Ordered(script[p])
  BY <1>1 DEF ScriptOK, Todo
<1>3. Range(script[p]) = {Head(script[p])} \cup Range(Tail(script[p]))
  BY <1>2, TailRange
<1>4. \A y \in Range(Tail(script[p])) : Follows(y, Head(script[p]))
  BY <1>2, OrderedTail
<1>5. Step(p) \in Left(p) /\ \A y \in Left(p) : y = Step(p) \/ Follows(y, Step(p))
  BY <1>3, <1>4 DEF Left, Step
<1>6. begun[p] \in BOOLEAN
  BY <1>1 DEF MemoryOK
<1>7. \E m \in BOOLEAN : LegalStep(Step(p), begun[p], m)
  <2> PICK e \in BOOLEAN : e = (phase[p] = "open" /\ Compares(p))
    OBVIOUS
  <2> PICK s : s = script[p]
    OBVIOUS
  <2> PICK b \in BOOLEAN : b = begun[p]
    BY <1>6
  <2>1. IsSeq(s) /\ s # <<>> /\ Legal(s, b, e)
    BY <1>1, <1>2 DEF LegalOK
  <2>2. LegalFirst(s, b, e)
    BY <2>1, LegalTail
  <2> QED
    BY <2>2 DEF Step, LegalFirst
<1>8. StatementOK(p, Step(p))
  BY <1>1, <1>5 DEF ScriptOK
<1> QED
  BY <1>1, <1>5, <1>6, <1>7, <1>8

\* No row that is to be stored is None, so that no such table is Absent.
LEMMA TargetNone ==
    ASSUME NEW p \in Processes, MemoryOK(p), Alive(p), NEW t \in Hands(p)
    PROVE  None \notin Target(p, t)
<1>1. t \in Tables
  BY DEF Hands
<1>2. CASE t = "FileList"
  BY <1>2, TargetTable DEF IsCache
<1>3. CASE t \in ResultTables
  <2>1. conf[p].mode = "fuzzy" /\ phase[p] # "open" /\ result[p] # None
    BY <1>3 DEF Hands, Compares, ReportTables, ResultTables
  <2> PICK res : res = result[p]
    OBVIOUS
  <2>2. res \in Results \ {None}
    BY <2>1 DEF MemoryOK
  <2>3. /\ None \notin NodeRows(res)
        /\ \A c \in Range(res.class), b \in BOOLEAN : Row(c, <<NumNodes(res, c), b>>) # None
    BY <2>2, NoneAssumption
  <2>4. \A c \in Range(res.class) : /\ Row(c, <<NumNodes(res, c), TRUE>>) # None
                                    /\ Row(c, <<NumNodes(res, c), FALSE>>) # None
    <3>1. TRUE \in BOOLEAN /\ FALSE \in BOOLEAN
      OBVIOUS
    <3> QED
      BY <2>3, <3>1, Zenon
  <2>5. CASE t = "Node"
    <3>1. Target(p, t) = NodeRows(res)
      BY <2>5 DEF Target, ReportTables
    <3> QED
      BY <2>3, <3>1
  <2>6. CASE t = "EqClass"
    <3>1. \E m : Target(p, t) = ClassesMarked(res, m)
      BY <2>6 DEF Target, ReportTables
    <3> QED
      BY <2>4, <3>1 DEF ClassesMarked
  <2> QED
    BY <1>3, <2>5, <2>6 DEF ResultTables
<1>4. CASE t \in ReportTables
  <2>1. conf[p].mode = "compare"
    BY <1>4 DEF Hands, Compares, ReportTables, ResultTables
  <2>2. Target(p, t) = IF phase[p] = "open" THEN {} ELSE RowsIn(t, result[p].lines)
    BY <1>4 DEF Target, ReportTables
  <2>3. phase[p] # "open" => result[p] \in Reports
    BY <2>1 DEF MemoryOK, Alive, Busy
  <2>4. \A r \in Reports : None \notin RowsIn(t, r.lines)
    BY <1>4, NoneAssumption
  <2> QED
    BY <2>2, <2>3, <2>4
<1> QED
  BY <1>1, <1>2, <1>3, <1>4 DEF Tables, ReportTables, ResultTables

\* A table nobody has meddled with, at a statement of its owner
LEMMA TableAt ==
    ASSUME NEW p \in Processes, Inv, Todo(p), NEW t \in Hands(p), t \notin meddled[p],
           Drop(t) \notin Left(p)
    PROVE  /\ Create(t) \in Left(p) => View(p).rows[t] = Absent
           /\ Create(t) \notin Left(p) =>
                  /\ View(p).rows[t] # Absent
                  /\ View(p).rows[t] \cup ToInsert(p, t) = Target(p, t)
                  /\ t \in Unique => Keys(View(p).rows[t]) \cap Keys(ToInsert(p, t)) = {}
<1>1. TablesOK(p) /\ MemoryOK(p) /\ Alive(p)
  BY TodoFacts
<1>2. None \notin Target(p, t)
  BY <1>1, TargetNone
<1> QED
  BY <1>1, <1>2 DEF TablesOK, Stored, Absent

\* The keys of a stored table of classes
LEMMA ClassKeys ==
    ASSUME NEW res, NEW marked
    PROVE  Keys(ClassesMarked(res, marked)) = Range(res.class)
<1> DEFINE S == Range(res.class)
           C == ClassesMarked(res, marked)
<1>1. \A r \in C : r.key \in S
  BY RowFields DEF ClassesMarked
<1>2. ASSUME NEW c \in S PROVE \E r \in C : r.key = c
  <2>1. CASE c \in marked
    <3>1. Row(c, <<NumNodes(res, c), TRUE>>) \in C
      BY <2>1 DEF ClassesMarked
    <3> QED
      BY <3>1, RowFields
  <2>2. CASE c \notin marked
    <3>1. Row(c, <<NumNodes(res, c), FALSE>>) \in C
      BY <2>2 DEF ClassesMarked
    <3> QED
      BY <3>1, RowFields
  <2> QED
    BY <2>1, <2>2
<1> HIDE DEF S, C
<1>3. Keys(C) = S
  BY <1>1, <1>2 DEF Keys
<1> QED
  BY <1>3 DEF S, C

LEMMA NotRefused ==
    ASSUME NEW p \in Processes, Inv, Todo(p), meddled[p] = {}
    PROVE  ~Refused(p)
<1> PICK s, u : s = Step(p) /\ u = Step(p).table
  OBVIOUS
<1>1. /\ PlanOK(p) /\ s \in Left(p) /\ StatementOK(p, s)
      /\ \A y \in Left(p) : y = s \/ Follows(y, s)
      /\ \E m \in BOOLEAN : LegalStep(s, begun[p], m)
  BY TodoFacts
<1>2. /\ s.op \in Names /\ s.table = u
      /\ s.op \in {"drop", "create", "prepare", "insert", "update"} => u \in Hands(p)
  BY <1>1 DEF StatementOK
<1>3. \A t : Drop(t).op = "drop" /\ Drop(t).table = t /\ Create(t).op = "create" /\ Create(t).table = t
  BY StatementFacts
<1>4. ~(s.op = "begin" /\ begun[p]) /\ ~(s.op = "commit" /\ ~begun[p])
  BY <1>1 DEF LegalStep
<1>5. ASSUME s.op \in {"prepare", "insert", "update"}
      PROVE  \A t : Drop(t) \notin Left(p) /\ Create(t) \notin Left(p)
  BY <1>1, <1>3, <1>5 DEF Follows, Writes, Level
<1>6. ~Refuses(View(p).rows, s)
  <2>1. CASE s.op = "create"
    <3>1. s = Create(u) /\ Drop(u) \notin Left(p)
      BY <1>1, <1>2, <1>3, <2>1 DEF StatementOK, Follows, Writes, Level
    <3>2. View(p).rows[u] = Absent
      BY <1>1, <1>2, <2>1, <3>1, TableAt
    <3> QED
      BY <1>2, <2>1, <3>2 DEF Refuses
  <2>2. CASE s.op \in {"prepare", "update"}
    <3>1. View(p).rows[u] # Absent
      BY <1>2, <1>5, <2>2, TableAt
    <3> QED
      BY <1>2, <2>2, <3>1 DEF Refuses
  <2>3. CASE s.op = "insert"
    <3>1. /\ View(p).rows[u] # Absent
          /\ u \in Unique => Keys(View(p).rows[u]) \cap Keys(ToInsert(p, u)) = {}
      BY <1>2, <1>5, <2>3, TableAt
    <3>2. s.row \in ToInsert(p, u)
      BY <1>1, <1>2, <2>3 DEF ToInsert
    <3>3. u \in Unique => s.row.key \notin Keys(View(p).rows[u])
      BY <3>1, <3>2 DEF Keys
    <3>4. ASSUME u = "Node"
          PROVE  View(p).rows["EqClass"] # Absent /\ s.row.val \in Keys(View(p).rows["EqClass"])
      <4>1. "EqClass" \in Hands(p)
        BY <1>2, <2>3, <3>4 DEF Hands, ReportTables, ResultTables, Tables
      <4>2. \A y \in Left(p) : ~(y.op = "insert" /\ y.table = "EqClass")
        <5> SUFFICES ASSUME NEW y \in Left(p), y.op = "insert", y.table = "EqClass"
                     PROVE  FALSE
          OBVIOUS
        <5>1. s.table = "Node" /\ y # s
          BY <1>2, <3>4
        <5>2. Follows(y, s)
          BY <1>1, <5>1
        <5>3. Level(s) = 4 /\ Level(y) = 3 /\ Writes(s) /\ Writes(y)
          BY <2>3, <5>1 DEF Level, Writes
        <5> QED
          BY <5>2, <5>3 DEF Follows
      <4>3. ToInsert(p, "EqClass") = {}
        BY <4>2 DEF ToInsert
      <4>4. View(p).rows["EqClass"] # Absent /\ View(p).rows["EqClass"] = Target(p, "EqClass")
        BY <1>5, <2>3, <4>1, <4>3, TableAt
      <4>5. \E m : Target(p, "EqClass") = ClassesMarked(result[p], m)
        BY DEF Target, ReportTables
      <4>6. Keys(View(p).rows["EqClass"]) = Range(result[p].class)
        BY <4>4, <4>5, ClassKeys
      <4>7. s.row \in NodeRows(result[p])
        <5>1. s.row \in Target(p, "Node")
          BY <1>1, <1>2, <2>3, <3>2, <3>4 DEF PlanOK
        <5> QED
          BY <5>1 DEF Target, ReportTables
      <4>8. s.row.val \in Range(result[p].class)
        BY <4>7, RowFields DEF NodeRows, Range
      <4> QED
        BY <4>4, <4>6, <4>8
    <3> QED
      BY <1>2, <2>3, <3>1, <3>3, <3>4 DEF Refuses
  <2>4. CASE s.op = "drop"
    <3>1. u = "EqClass" => View(p).rows["Node"] = Absent
      <4> SUFFICES ASSUME u = "EqClass" PROVE View(p).rows["Node"] = Absent
        OBVIOUS
      <4>1. s = Drop("EqClass") /\ "EqClass" \in Hands(p)
        BY <1>1, <1>2, <2>4 DEF StatementOK
      <4>2. "Node" \in Hands(p)
        BY <4>1 DEF Hands, ReportTables, ResultTables, Tables
      <4>3. Create("Node") \in Left(p)
        BY <1>1, <4>1 DEF PlanOK
      <4>4. Drop("Node") \notin Left(p)
        <5> SUFFICES ASSUME Drop("Node") \in Left(p)
                     PROVE  FALSE
          OBVIOUS
        <5> PICK y : y = Drop("Node")
          OBVIOUS
        <5>1. y.op = "drop" /\ y.table = "Node" /\ s.table = "EqClass" /\ y # s
          <6>1. Drop("Node").op = "drop" /\ Drop("Node").table = "Node"
            BY <1>3
          <6>2. s.table = "EqClass"
            BY <1>2
          <6> QED
            BY <6>1, <6>2
        <5>2. Follows(y, s)
          BY <1>1, <5>1
        <5>3. Level(s) = 1 /\ Level(y) = 0 /\ Writes(s) /\ Writes(y)
          BY <2>4, <5>1 DEF Level, Writes
        <5> QED
          BY <5>2, <5>3 DEF Follows
      <4> QED
        BY <4>2, <4>3, <4>4, TableAt
    <3> QED
      BY <1>2, <2>4, <3>1 DEF Refuses
  <2>5. CASE s.op \in {"begin", "commit", "print", "select"}
    BY <2>5 DEF Refuses
  <2> QED
    BY <1>2, <2>1, <2>2, <2>3, <2>4, <2>5 DEF Names
<1> QED
  BY <1>4, <1>6 DEF Refused

\* No statement fails of a constraint or of the schema (SqliteConnection turns
\* foreign keys on "so that we find bugs"), whatever earlier runs and deaths
\* have left, unless another process has changed a table under it.
THEOREM NothingIsRefusedTheorem == Spec => []NothingIsRefused
<1>1. Init => NothingIsRefused
  BY DEF Init, NothingIsRefused
<1>2. Inv /\ NothingIsRefused /\ [Next]_vars => NothingIsRefused'
  <2> SUFFICES ASSUME Inv, NothingIsRefused, [Next]_vars,
                      NEW q \in Processes, phase'[q] = "refused"
               PROVE  meddled'[q] # {}
    BY DEF NothingIsRefused
  <2>1. CASE UNCHANGED vars
    BY <2>1 DEF vars, NothingIsRefused
  <2>2. ASSUME NEW p \in Processes, Main(p) \/ Execute(p) \/ Die(p)
        PROVE  meddled'[q] # {}
    <3>1. MapsOK /\ Shape
      BY DEF Inv, Shape
    <3>2. CASE q # p
      <4>1. Same(q) /\ Keeps(q)
        BY <2>2, <3>1, <3>2, MainMaps, ExecuteMaps, DeathEffect, KeepsOthers
      <4> QED
        BY <4>1 DEF Same, SamePlan, Keeps, NothingIsRefused
    <3>3. CASE q = p /\ Main(p)
      BY <3>1, <3>3 DEF Main, Start, Analyse, Finalize, Exit, MapsOK, IsMap
    <3>4. CASE q = p /\ Execute(p)
      <4>1. phase'[p] = phase[p]
        BY <3>4 DEF Execute, BeginTransaction, Autocommit, WriteInTransaction, CommitTransaction,
                    PrepareStmt, PrintToStdout, BeginRead, ReadRow, EndRead
      <4>2. phase[p] \in {"open", "report", "finalize"}
        <5>1. Todo(p) \/ cursor[p] # None
          BY <3>4 DEF Execute, BeginTransaction, Autocommit, WriteInTransaction, CommitTransaction,
                      PrepareStmt, PrintToStdout, BeginRead, ReadRow, EndRead
        <5> QED
          BY <5>1 DEF Todo, Inv, Shape, ReadingOK
      <4> QED
        BY <3>4, <4>1, <4>2
    <3>5. CASE q = p /\ Die(p)
      <4>1. /\ phase'[p] = (IF Refused(p) THEN "refused" ELSE "died") /\ meddled'[p] = meddled[p]
        BY <3>1, <3>5, DeathEffect
      <4>2. Refused(p) /\ Todo(p)
        BY <3>5, <4>1 DEF Refused
      <4> QED
        BY <3>5, <4>1, <4>2, NotRefused
    <3> QED
      BY <2>2, <3>2, <3>3, <3>4, <3>5
  <2> QED
    BY <2>1, <2>2 DEF Next, Terminated
<1> QED
  BY <1>1, <1>2, InvTheorem, PTL DEF Spec

LEMMA RowsInRange ==
    ASSUME NEW t, NEW a, NEW b, Range(a) = Range(b)
    PROVE  RowsIn(t, a) = RowsIn(t, b)
BY DEF RowsIn

\* The rows of the classes as ExitMeansStored has them
LEMMA AllMarked ==
    ASSUME NEW res
    PROVE  ClassesMarked(res, res.interesting)
               = {Row(c, <<NumNodes(res, c), c \in res.interesting>>) : c \in Range(res.class)}
<1> DEFINE row(c) == Row(c, <<NumNodes(res, c), c \in res.interesting>>)
           S == Range(res.class)
<1>1. \A c : c \in res.interesting => row(c) = Row(c, <<NumNodes(res, c), TRUE>>)
  <2> SUFFICES ASSUME NEW c, c \in res.interesting
               PROVE  row(c) = Row(c, <<NumNodes(res, c), TRUE>>)
    OBVIOUS
  <2>1. (c \in res.interesting) = TRUE
    OBVIOUS
  <2> QED
    BY <2>1, Zenon
<1>2. \A c : c \notin res.interesting => row(c) = Row(c, <<NumNodes(res, c), FALSE>>)
  <2> SUFFICES ASSUME NEW c, c \notin res.interesting
               PROVE  row(c) = Row(c, <<NumNodes(res, c), FALSE>>)
    OBVIOUS
  <2>1. (c \in res.interesting) = FALSE
    OBVIOUS
  <2> QED
    BY <2>1, Zenon
<1>3. {row(c) : c \in S} = {Row(c, <<NumNodes(res, c), TRUE>>) : c \in S \cap res.interesting}
                               \cup {Row(c, <<NumNodes(res, c), FALSE>>) : c \in S \ res.interesting}
  <2> HIDE DEF row
  <2> QED
    BY <1>1, <1>2
<1> QED
  BY <1>3 DEF ClassesMarked

\* Exit status 0 means that what the process was asked to write is in the
\* database, with its interesting classes marked, all that it has printed, and
\* the cache as it was at the end; unless another process has changed it.
THEOREM ExitMeansStoredTheorem == Spec => []ExitMeansStored
<1>1. Inv => ExitMeansStored
  <2> SUFFICES ASSUME Inv, NEW p \in Processes, phase[p] = "exit"
               PROVE  LET Mine(tables) == meddled[p] \cap tables = {}
                          r == result[p]
                      IN  /\ conf[p].out /\ conf[p].mode = "fuzzy" /\ r # None /\ Mine(ResultTables) =>
                                 /\ disk.rows["Node"] = NodeRows(r)
                                 /\ disk.rows["EqClass"] =
                                        {Row(c, <<NumNodes(r, c), c \in r.interesting>>) : c \in Range(r.class)}
                          /\ conf[p].out /\ conf[p].mode = "compare" /\ Mine(ReportTables) =>
                                 \A t \in ReportTables :
                                     disk.rows[t] = RowsIn(t, printed[p])
                          /\ conf[p].dumps /\ Mine({"FileList"}) => disk.rows["FileList"] = cache[p]
    BY DEF ExitMeansStored
  <2>1. /\ MemoryOK(p) /\ FilesOK /\ script[p] = <<>> /\ TablesOK(p) /\ PrintsOK(p)
    BY DEF Inv, Shape, ProcessOK, Alive, ScriptOK
  <2>2. writer # p
    BY <2>1, NoneAssumption DEF FilesOK, MemoryOK, Busy
  <2>3. Left(p) = {} /\ ToPrint(p) = {} /\ \A t : ToInsert(p, t) = {}
    BY <2>1, EmptyRange DEF Left, ToPrint, ToInsert
  <2>4. \A t \in Hands(p) \ meddled[p] : disk.rows[t] = Target(p, t)
    BY <2>1, <2>2, <2>3 DEF TablesOK, Stored, View
  <2>5. ASSUME conf[p].out, conf[p].mode = "fuzzy", result[p] # None, meddled[p] \cap ResultTables = {}
        PROVE  /\ disk.rows["Node"] = NodeRows(result[p])
               /\ disk.rows["EqClass"] = {Row(c, <<NumNodes(result[p], c), c \in result[p].interesting>>) :
                                              c \in Range(result[p].class)}
    <3>1. "Node" \in Hands(p) \ meddled[p] /\ "EqClass" \in Hands(p) \ meddled[p]
      BY <2>5 DEF Hands, Tables, ResultTables
    <3>2. Target(p, "Node") = NodeRows(result[p])
      BY DEF Target, ReportTables
    <3>3. Target(p, "EqClass") = ClassesMarked(result[p], result[p].interesting)
      <4>1. {c \in result[p].interesting : Update("EqClass", c) \notin Left(p)} = result[p].interesting
        BY <2>3
      <4> QED
        BY <4>1 DEF Target, ReportTables
    <3> QED
      BY <2>4, <3>1, <3>2, <3>3, AllMarked
  <2>6. ASSUME conf[p].out, conf[p].mode = "compare", meddled[p] \cap ReportTables = {},
               NEW t \in ReportTables
        PROVE  disk.rows[t] = RowsIn(t, printed[p])
    <3>1. t \in Hands(p) \ meddled[p]
      BY <2>6 DEF Hands, Compares, Tables, ReportTables
    <3>2. Target(p, t) = RowsIn(t, result[p].lines)
      BY DEF Target, ReportTables
    <3>3. Range(printed[p]) = Range(result[p].lines)
      BY <2>1, <2>3, <2>6 DEF PrintsOK
    <3> QED
      BY <2>4, <3>1, <3>2, <3>3, RowsInRange
  <2>7. ASSUME conf[p].dumps, meddled[p] \cap {"FileList"} = {}
        PROVE  disk.rows["FileList"] = cache[p]
    <3>1. "FileList" \in Hands(p) \ meddled[p]
      BY <2>7 DEF Hands, Tables
    <3>2. Target(p, "FileList") = cache[p]
      BY DEF Target, ReportTables
    <3> QED
      BY <2>4, <3>1, <3>2
  <2> QED
    BY <2>5, <2>6, <2>7
<1> QED
  BY <1>1, InvTheorem, PTL

-----------------------------------------------------------------------------
(* Transactions *)

LEMMA ApplyFacts ==
    ASSUME NEW db, IsDb(db), NEW s, s.table \in Tables, Writes(s)
    PROVE  /\ \A t \in Tables \ {s.table} :
                  /\ Apply(db, s).rows[t] = db.rows[t]
                  /\ t \in Apply(db, s).damaged <=> t \in db.damaged
           /\ Apply(db, s).damaged \subseteq db.damaged
           /\ s.op = "drop" => /\ s.table \notin Apply(db, s).damaged
                               /\ Apply(db, s).rows[s.table] = Absent
           /\ s.op = "create" => Apply(db, s).rows[s.table] = {}
           /\ s.op = "insert" => Apply(db, s).rows[s.table] = db.rows[s.table] \cup {s.row}
           /\ s.op # "drop" => Apply(db, s).damaged = db.damaged
<1>1. db = [rows |-> db.rows, damaged |-> db.damaged]
      /\ db.rows = [t \in Tables |-> db.rows[t]]
  BY DbParts
<1>2. CASE s.op = "drop"
  <2>1. Apply(db, s) = [rows |-> [db.rows EXCEPT ![s.table] = Absent],
                        damaged |-> db.damaged \ {s.table}]
    BY <1>2 DEF Apply
  <2> QED
    BY <1>1, <1>2, <2>1
<1>3. CASE s.op # "drop"
  <2> PICK table : table = (CASE s.op = "create" -> {}
                              [] s.op = "insert" -> db.rows[s.table] \cup {s.row}
                              [] s.op = "update" -> Marked(db.rows[s.table], s.row))
    OBVIOUS
  <2>1. Apply(db, s) = [rows |-> [db.rows EXCEPT ![s.table] = table], damaged |-> db.damaged]
    BY <1>1, <1>3 DEF Apply, Writes
  <2> QED
    BY <1>1, <1>3, <2>1
<1> QED
  BY <1>2, <1>3

\* What a statement does, to its process and in the file
LEMMA StatementStep ==
    ASSUME NEW p \in Processes, Inv, Todo(p), Done(p)
    PROVE  /\ script'[p] = Tail(script[p])
           /\ Left(p) = {Step(p)} \cup Left(p)' /\ \A y \in Left(p)' : Follows(y, Step(p))
           /\ \A t : t # Step(p).table \/ Step(p).op # "drop" =>
                         (Drop(t) \in Left(p)' <=> Drop(t) \in Left(p))
           /\ \A t : t # Step(p).table \/ Step(p).op # "insert" => ToInsert(p, t)' = ToInsert(p, t)
           /\ \A t : t = Step(p).table /\ Step(p).op = "insert" =>
                         ToInsert(p, t) = ToInsert(p, t)' \cup {Step(p).row}
<1>1. /\ script'[p] = Tail(script[p])
      /\ Left(p) = {Step(p)} \cup Left(p)' /\ \A y \in Left(p)' : Follows(y, Step(p))
  BY TodoFacts, Executed DEF Inv, Shape
<1>2. \A t : Drop(t).op = "drop" /\ Drop(t).table = t
  BY StatementFacts
<1>3. ASSUME NEW t, t # Step(p).table \/ Step(p).op # "drop"
      PROVE  Drop(t) \in Left(p)' <=> Drop(t) \in Left(p)
  <2> PICK s : s = Step(p)
    OBVIOUS
  <2>1. Drop(t) # s
    BY <1>2, <1>3
  <2> QED
    BY <1>1, <2>1
<1>4. ASSUME NEW t, t # Step(p).table \/ Step(p).op # "insert"
      PROVE  ToInsert(p, t)' = ToInsert(p, t)
  <2> PICK s : s = Step(p)
    OBVIOUS
  <2>1. {x \in Left(p) : x.op = "insert" /\ x.table = t}
            = {x \in Left(p)' : x.op = "insert" /\ x.table = t}
    BY <1>1, <1>4
  <2> QED
    BY <2>1 DEF ToInsert
<1>5. ASSUME NEW u, u = Step(p).table, Step(p).op = "insert"
      PROVE  ToInsert(p, u) = ToInsert(p, u)' \cup {Step(p).row}
  <2> PICK s : s = Step(p)
    OBVIOUS
  <2>1. {x \in Left(p) : x.op = "insert" /\ x.table = u}
            = {s} \cup {x \in Left(p)' : x.op = "insert" /\ x.table = u}
    BY <1>1, <1>5
  <2>2. ToInsert(p, u) = ToInsert(p, u)' \cup {s.row}
    BY <2>1 DEF ToInsert
  <2> QED
    BY <2>2
<1>6. \A t : t # Step(p).table \/ Step(p).op # "drop" =>
          (Drop(t) \in Left(p)' <=> Drop(t) \in Left(p))
  BY <1>3
<1>7. \A t : t # Step(p).table \/ Step(p).op # "insert" => ToInsert(p, t)' = ToInsert(p, t)
  BY <1>4
<1>8. \A t : t = Step(p).table /\ Step(p).op = "insert" =>
          ToInsert(p, t) = ToInsert(p, t)' \cup {Step(p).row}
  BY <1>5
<1> QED
  BY <1>1, <1>6, <1>7, <1>8

\* A write in a transaction: only the tables of a report are dropped there.
LEMMA WriteStep ==
    ASSUME NEW p \in Processes, Inv, WriteInTransaction(p)
    PROVE  /\ Todo(p) /\ Done(p) /\ begun[p] = TRUE /\ writer \in {None, p} /\ writer' = p
           /\ disk' = disk /\ IsDb(View(p)) /\ work' = Apply(View(p), Step(p))
           /\ ~Refuses(View(p).rows, Step(p)) /\ Writes(Step(p))
           /\ StatementOK(p, Step(p)) /\ Step(p).table \in Hands(p) /\ Step(p).table \in Tables
           /\ Step(p).op \in {"drop", "create"} => Step(p).table \in ReportTables
           /\ meddled'[p] = meddled[p] \ Dropped(p)
           /\ phase'[p] = phase[p] /\ conf'[p] = conf[p] /\ cache'[p] = cache[p]
           /\ result'[p] = result[p]
<1>1. /\ Todo(p) /\ Done(p) /\ begun[p] /\ writer \in {None, p} /\ writer' = p
      /\ disk' = disk /\ work' = Apply(View(p), Step(p))
      /\ ~Refuses(View(p).rows, Step(p)) /\ Writes(Step(p))
      /\ meddled' = [meddled EXCEPT ![p] = @ \ Dropped(p)]
      /\ UNCHANGED <<phase, conf, cache, result>>
  BY DEF WriteInTransaction, memory
<1>2. IsDb(View(p)) /\ MapsOK
  BY DEF View, Inv, Shape, FilesOK
<1>3. /\ StatementOK(p, Step(p)) /\ begun[p] \in BOOLEAN
      /\ \E m \in BOOLEAN : LegalStep(Step(p), begun[p], m)
  BY <1>1, TodoFacts
<1>4. Step(p).op \in {"drop", "create"} => Step(p).table \in ReportTables
  BY <1>1, <1>3 DEF LegalStep
<1>5. Step(p).table \in Hands(p) /\ Step(p).table \in Tables
  BY <1>1, <1>3 DEF StatementOK, Writes, Hands
<1>6. meddled'[p] = meddled[p] \ Dropped(p)
  BY <1>1, <1>2 DEF MapsOK, IsMap
<1> QED
  BY <1>1, <1>2, <1>3, <1>4, <1>5, <1>6

\* A write outside: nothing is inserted, and no table of a report is touched.
LEMMA AutocommitStep ==
    ASSUME NEW p \in Processes, Inv, Autocommit(p)
    PROVE  /\ Todo(p) /\ Done(p) /\ begun[p] = FALSE /\ writer = None /\ writer' = None
           /\ disk' = Apply(disk, Step(p)) /\ Writes(Step(p))
           /\ Step(p).op \in {"drop", "create"}
           /\ StatementOK(p, Step(p)) /\ Step(p).table \in Hands(p)
           /\ Step(p).table \in Tables \ ReportTables
<1>1. /\ Todo(p) /\ Done(p) /\ ~begun[p] /\ writer = None /\ writer' = None
      /\ disk' = Apply(disk, Step(p)) /\ Writes(Step(p))
  BY DEF Autocommit
<1>2. /\ StatementOK(p, Step(p)) /\ begun[p] \in BOOLEAN
      /\ \E m \in BOOLEAN : LegalStep(Step(p), begun[p], m)
  BY <1>1, TodoFacts
<1>3. Step(p).op \in {"drop", "create"} /\ Step(p).table \notin ReportTables
  BY <1>1, <1>2 DEF LegalStep, Writes
<1>4. Step(p).table \in Hands(p) /\ Step(p).table \in Tables
  BY <1>1, <1>2 DEF StatementOK, Writes, Hands
<1> QED
  BY <1>1, <1>2, <1>3, <1>4

LEMMA AnalyseEffect ==
    ASSUME NEW p \in Processes, Analyse(p)
    PROVE  /\ phase[p] = "open" /\ script[p] = <<>>
           /\ phase' = [phase EXCEPT ![p] = "report"]
           /\ UNCHANGED <<disk, writer, work, conf, cursor, begun, printed, meddled>>
<1>1. /\ phase[p] = "open" /\ script[p] = <<>>
      /\ phase' = [phase EXCEPT ![p] = "report"]
      /\ UNCHANGED <<file, conf, cursor, begun, printed, meddled>>
  BY Zenon DEF Analyse
<1> QED
  BY <1>1 DEF file

\* The steps that touch neither the file nor what has been changed in it
LEMMA QuietStep ==
    ASSUME NEW p \in Processes, Inv, Main(p) \/ Execute(p) \/ Die(p),
           ~Autocommit(p), ~WriteInTransaction(p),
           ~(CommitTransaction(p) /\ writer = p), ~(Die(p) /\ writer = p)
    PROVE  UNCHANGED <<disk, writer, work, meddled>>
<1>1. CASE Main(p)
  <2>1. Start(p) => UNCHANGED <<disk, writer, work, meddled>>
    BY DEF Start, file
  <2>2. Analyse(p) => UNCHANGED <<disk, writer, work, meddled>>
    BY AnalyseEffect
  <2>3. Finalize(p) => UNCHANGED <<disk, writer, work, meddled>>
    BY DEF Finalize, file
  <2>4. Exit(p) => UNCHANGED <<disk, writer, work, meddled>>
    BY DEF Exit, file
  <2> QED
    BY <1>1, <2>1, <2>2, <2>3, <2>4 DEF Main, file
<1>2. CASE Execute(p)
  <2>1. CommitTransaction(p) => UNCHANGED <<disk, writer, work, meddled>>
    BY DEF CommitTransaction, file
  <2>2. BeginTransaction(p) \/ PrepareStmt(p) \/ PrintToStdout(p)
            => UNCHANGED <<disk, writer, work, meddled>>
    BY DEF BeginTransaction, PrepareStmt, PrintToStdout, file
  <2>3. BeginRead(p) \/ ReadRow(p) \/ EndRead(p) => UNCHANGED <<disk, writer, work, meddled>>
    BY DEF BeginRead, ReadRow, EndRead, file
  <2> QED
    BY <1>2, <2>1, <2>2, <2>3 DEF Execute
<1>3. CASE Die(p)
  BY <1>3, DeathEffect DEF Inv, Shape
<1> QED
  BY <1>1, <1>2, <1>3

\* While one process has the write lock, no other changes anything.
LEMMA WriterAlone ==
    ASSUME NEW p \in Processes, Inv, Main(p) \/ Execute(p) \/ Die(p),
           writer # None, writer # p
    PROVE  UNCHANGED <<disk, writer, work, meddled>>
BY QuietStep DEF Autocommit, WriteInTransaction

LEMMA CommitStep ==
    ASSUME NEW p \in Processes, Inv, CommitTransaction(p)
    PROVE  /\ Todo(p) /\ Done(p) /\ Step(p).op = "commit" /\ begun'[p] = FALSE
           /\ StatementOK(p, Step(p)) /\ phase'[p] = phase[p] /\ conf'[p] = conf[p]
           /\ cache'[p] = cache[p] /\ result'[p] = result[p]
           /\ \A t : Drop(t) \notin Left(p) /\ Create(t) \notin Left(p) /\ ToInsert(p, t) = {}
           /\ writer = p => /\ disk' = work /\ writer' = None /\ work' = NewFile
                            /\ meddled' = Meddled(p, work, {})
           /\ writer # p => UNCHANGED <<disk, writer, work, meddled>>
<1>1. /\ Todo(p) /\ Done(p) /\ Step(p).op = "commit" /\ begun' = [begun EXCEPT ![p] = FALSE]
      /\ UNCHANGED <<phase, conf, cache, result>>
  BY DEF CommitTransaction, memory
<1>2. StatementOK(p, Step(p)) /\ \A y \in Left(p) : y = Step(p) \/ Follows(y, Step(p))
  BY <1>1, TodoFacts
<1>3. \A y \in Left(p) : y.op \notin {"drop", "create", "insert"}
  BY <1>1, <1>2 DEF Follows
<1>4. \A t : Drop(t) \notin Left(p) /\ Create(t) \notin Left(p) /\ ToInsert(p, t) = {}
  BY <1>3, StatementFacts DEF ToInsert
<1>5. begun'[p] = FALSE
  BY <1>1 DEF Inv, Shape, MapsOK, IsMap
<1>6. writer = p => /\ disk' = work /\ writer' = None /\ work' = NewFile
                    /\ meddled' = Meddled(p, work, {})
  BY DEF CommitTransaction, Publish
<1>7. writer # p => UNCHANGED <<disk, writer, work, meddled>>
  BY DEF CommitTransaction, file
<1> QED
  BY <1>1, <1>2, <1>4, <1>5, <1>6, <1>7

LEMMA OtherWriter ==
    ASSUME NEW p \in Processes, NEW q \in Processes \ {p}, Inv,
           Main(p) \/ Execute(p) \/ Die(p), writer' = q
    PROVE  writer = q
<1>1. q # None
  BY NoneAssumption
<1>2. WriteInTransaction(p) => writer' = p
  BY DEF WriteInTransaction
<1>3. Autocommit(p) => writer' = None
  BY DEF Autocommit
<1>4. CommitTransaction(p) /\ writer = p => writer' = None
  BY DEF CommitTransaction
<1>5. Die(p) /\ writer = p => writer' = None
  BY DEF Die
<1> QED
  BY <1>1, <1>2, <1>3, <1>4, <1>5, QuietStep

\* What the others do leaves the plan of a process, and what it holds back.
LEMMA ReportsOthers ==
    ASSUME NEW p \in Processes, NEW q \in Processes \ {p}, Inv, ReportsOK,
           Main(p) \/ Execute(p) \/ Die(p)
    PROVE  /\ writer' = q => HeldBack(q)'
           /\ Replacing(q)' /\ writer' # q => NotWriting(q)'
<1>1. SamePlan(q)
  BY MainMaps, ExecuteMaps, DeathEffect DEF Inv, Shape, Same
<1>2. /\ Left(q)' = Left(q) /\ phase'[q] = phase[q] /\ begun'[q] = begun[q]
      /\ (Replacing(q)' <=> Replacing(q)) /\ (NotWriting(q)' <=> NotWriting(q))
  BY <1>1 DEF SamePlan, Left, Replacing, Compares, NotWriting
<1>3. writer = q => UNCHANGED <<disk, writer, work, meddled>>
  BY WriterAlone, NoneAssumption
<1>4. writer' = q => writer = q
  BY OtherWriter
<1>5. ASSUME writer' = q
      PROVE  HeldBack(q)'
  <2>1. writer = q /\ UNCHANGED <<disk, work, meddled>> /\ HeldBack(q)
    BY <1>3, <1>4, <1>5, NoneAssumption DEF ReportsOK
  <2> QED
    BY <1>2, <2>1 DEF HeldBack
<1>6. ASSUME Replacing(q)', writer' # q
      PROVE  NotWriting(q)'
  BY <1>2, <1>3, <1>6 DEF ReportsOK
<1> QED
  BY <1>5, <1>6

LEMMA ReportsWrite ==
    ASSUME NEW p \in Processes, Inv, ReportsOK, WriteInTransaction(p)
    PROVE  HeldBack(p)'
<1>1. /\ Todo(p) /\ Done(p) /\ begun[p] = TRUE /\ writer \in {None, p}
      /\ disk' = disk /\ IsDb(View(p)) /\ work' = Apply(View(p), Step(p))
      /\ Writes(Step(p)) /\ StatementOK(p, Step(p))
      /\ Step(p).table \in Hands(p) /\ Step(p).table \in Tables
      /\ Step(p).op \in {"drop", "create"} => Step(p).table \in ReportTables
      /\ meddled'[p] = meddled[p] \ Dropped(p)
      /\ phase'[p] = phase[p] /\ conf'[p] = conf[p]
  BY WriteStep
<1>2. Replacing(p)' <=> Replacing(p)
  BY <1>1 DEF Replacing, Compares
<1>3. /\ \A t \in Tables \ {Step(p).table} :
             /\ work'.rows[t] = View(p).rows[t]
             /\ t \in work'.damaged <=> t \in View(p).damaged
      /\ work'.damaged \subseteq View(p).damaged
      /\ Step(p).op = "drop" => Step(p).table \notin work'.damaged
  BY <1>1, ApplyFacts
<1>4. \A t : t # Step(p).table \/ Step(p).op # "drop" =>
          (Drop(t) \in Left(p)' <=> Drop(t) \in Left(p))
  BY <1>1, StatementStep
<1>5. ReportTables \subseteq Tables
  BY DEF ReportTables, Tables
<1>6. CASE Replacing(p)
  <2> SUFFICES ASSUME NEW t \in ReportTables, Drop(t) \notin Left(p)'
               PROVE  t \notin meddled'[p] \cup work'.damaged
    BY <1>2, <1>6 DEF HeldBack
  <2>1. CASE t = Step(p).table /\ Step(p).op = "drop"
    BY <1>1, <1>3, <2>1 DEF Dropped
  <2>2. CASE t # Step(p).table \/ Step(p).op # "drop"
    <3>1. Drop(t) \notin Left(p)
      BY <1>4, <2>2
    <3>2. writer = p
      BY <1>1, <1>6, <3>1, NoneAssumption DEF ReportsOK, NotWriting
    <3>3. t \notin meddled[p] \cup work.damaged
      BY <1>6, <3>1, <3>2, NoneAssumption DEF ReportsOK, HeldBack
    <3> QED
      BY <1>1, <1>3, <3>2, <3>3 DEF View
  <2> QED
    BY <2>1, <2>2
<1>7. CASE ~Replacing(p)
  <2>1. Step(p).table \notin ReportTables
    BY <1>1, <1>7 DEF Hands, Replacing, Todo, StatementOK, Writes, ReportTables, ResultTables
  <2> SUFFICES ASSUME NEW t \in ReportTables
               PROVE  /\ work'.rows[t] = disk.rows[t]
                      /\ t \in work'.damaged <=> t \in disk.damaged
    BY <1>1, <1>2, <1>7 DEF HeldBack
  <2>2. work'.rows[t] = View(p).rows[t] /\ (t \in work'.damaged <=> t \in View(p).damaged)
    BY <1>3, <1>5, <2>1
  <2>3. View(p).rows[t] = disk.rows[t] /\ (t \in View(p).damaged <=> t \in disk.damaged)
    BY <1>1, <1>7, NoneAssumption DEF View, ReportsOK, HeldBack
  <2> QED
    BY <2>2, <2>3
<1> QED
  BY <1>6, <1>7

\* A comparison begins with the tables of its report still to be dropped.
LEMMA StartsWhole ==
    ASSUME NEW p \in Processes, Inv, Start(p), Replacing(p)'
    PROVE  NotWriting(p)'
<1>1. MapsOK
  BY DEF Inv, Shape
<1>2. PICK c \in Confs : /\ conf' = [conf EXCEPT ![p] = c]
                         /\ script' = [script EXCEPT ![p] = Opening(c)]
                         /\ phase' = [phase EXCEPT ![p] = "open"]
  BY DEF Start
<1>3. conf'[p] = c /\ script'[p] = Opening(c) /\ phase'[p] = "open"
  BY <1>1, <1>2 DEF MapsOK, IsMap
<1>4. Left(p)' = OpeningStatements(c)
  BY <1>3, OpeningScript DEF Left
<1>5. Range(DirCompDBStream) \subseteq Left(p)'
  BY <1>3, <1>4 DEF OpeningStatements, Replacing, Compares
<1>6. Range(DirCompDBStream) = {Begin, Drop("Removed"), Drop("RenameTo"), Create("Removed"),
                                Create("RenameTo"), Prepare("Removed"), Prepare("RenameTo")}
  BY ReportsOrdered
<1> QED
  BY <1>3, <1>5, <1>6 DEF NotWriting, ReportTables

LEMMA ReportsMain ==
    ASSUME NEW p \in Processes, Inv, ReportsOK, Main(p)
    PROVE  /\ writer' = p => HeldBack(p)'
           /\ Replacing(p)' /\ writer' # p => NotWriting(p)'
<1>1. /\ MapsOK /\ Shape /\ ProcessOK(p) /\ MemoryOK(p) /\ (writer = p => begun[p])
      /\ UNCHANGED <<disk, writer, work, meddled>>
  <2>2. Start(p) \/ Finalize(p) \/ Exit(p) => UNCHANGED <<disk, writer, work, meddled>>
    BY DEF Start, Finalize, Exit, file
  <2>3. Analyse(p) => UNCHANGED <<disk, writer, work, meddled>>
    BY AnalyseEffect
  <2>4. UNCHANGED <<disk, writer, work, meddled>>
    BY <2>2, <2>3 DEF Main
  <2> QED
    BY <2>4, NoneAssumption DEF Inv, Shape, FilesOK
<1>2. CASE Start(p)
  <2>1. writer # p
    BY <1>1, <1>2 DEF Start, MemoryOK, Busy
  <2> QED
    BY <1>1, <1>2, <2>1, StartsWhole
<1>3. CASE Analyse(p)
  <2>1. /\ Busy(p) /\ script[p] = <<>> /\ phase[p] = "open"
        /\ phase' = [phase EXCEPT ![p] = "report"] /\ conf' = conf
    BY <1>3, AnalyseEffect DEF Busy
  <2>2. Left(p) = {} /\ begun[p] = (phase[p] = "open" /\ Compares(p))
    BY <1>1, <2>1, NothingLeft
  <2>3. phase'[p] = "report" /\ (Replacing(p)' <=> Replacing(p))
    BY <1>1, <2>1 DEF MapsOK, IsMap, Replacing, Compares
  <2>4. Replacing(p) => ~NotWriting(p)
    BY <2>1, <2>2 DEF NotWriting, ReportTables
  <2>5. ASSUME writer' = p
        PROVE  HeldBack(p)'
    <3>1. writer = p /\ HeldBack(p)
      BY <1>1, <2>5, NoneAssumption DEF ReportsOK
    <3>2. Replacing(p)
      BY <1>1, <2>1, <2>2, <3>1 DEF Replacing
    <3> QED
      BY <1>1, <2>2, <2>3, <3>1, <3>2 DEF HeldBack
  <2> QED
    BY <1>1, <2>3, <2>4, <2>5 DEF ReportsOK
<1>4. CASE Finalize(p) \/ Exit(p)
  <2>1. /\ Busy(p) /\ script[p] = <<>> /\ phase[p] # "open"
        /\ phase' = [phase EXCEPT ![p] = "finalize"] \/ phase' = [phase EXCEPT ![p] = "exit"]
    BY <1>4 DEF Finalize, Exit, Busy
  <2>2. begun[p] = (phase[p] = "open" /\ Compares(p))
    BY <1>1, <2>1, NothingLeft
  <2>3. writer # p
    BY <1>1, <2>1, <2>2
  <2>4. ~Replacing(p)'
    BY <1>1, <2>1 DEF MapsOK, IsMap, Replacing
  <2> QED
    BY <1>1, <2>3, <2>4
<1> QED
  BY <1>2, <1>3, <1>4 DEF Main

\* The statements that write nothing, but for the commit
LEMMA ReportsQuiet ==
    ASSUME NEW p \in Processes, Inv, ReportsOK,
           \/ BeginTransaction(p) \/ PrepareStmt(p) \/ PrintToStdout(p)
           \/ BeginRead(p) \/ ReadRow(p) \/ EndRead(p)
    PROVE  /\ writer' = p => HeldBack(p)'
           /\ Replacing(p)' /\ writer' # p => NotWriting(p)'
<1>1. /\ MapsOK /\ (writer = p => begun[p])
      /\ UNCHANGED <<disk, writer, work, meddled>>
  <2>1. UNCHANGED <<disk, writer, work, meddled>>
    BY DEF BeginTransaction, PrepareStmt, PrintToStdout, BeginRead, ReadRow, EndRead, file
  <2> QED
    BY <2>1, NoneAssumption DEF Inv, Shape, FilesOK
<1>2. /\ phase'[p] = phase[p] /\ conf'[p] = conf[p]
      /\ ~BeginTransaction(p) => begun'[p] = begun[p]
  BY DEF BeginTransaction, PrepareStmt, PrintToStdout, BeginRead, ReadRow, EndRead, memory
<1>3. \A t : Drop(t) \in Left(p)' <=> Drop(t) \in Left(p)
  <2>1. CASE BeginRead(p) \/ ReadRow(p)
    <3>1. script' = script
      BY <2>1 DEF BeginRead, ReadRow
    <3> QED
      BY <3>1 DEF Left
  <2>2. CASE BeginTransaction(p) \/ PrepareStmt(p) \/ PrintToStdout(p)
    <3>1. Todo(p) /\ Done(p) /\ Step(p).op # "drop"
      BY <2>2 DEF BeginTransaction, PrepareStmt, PrintToStdout
    <3> QED
      BY <3>1, StatementStep
  <2>3. CASE EndRead(p)
    <3>1. Todo(p) /\ Done(p) /\ Step(p).op # "drop"
      BY <2>3 DEF EndRead, Inv, Shape, ReadingOK, Todo
    <3> QED
      BY <3>1, StatementStep
  <2> QED
    BY <2>1, <2>2, <2>3
<1>4. Replacing(p)' <=> Replacing(p)
  BY <1>2 DEF Replacing, Compares
<1>5. ASSUME writer' = p
      PROVE  HeldBack(p)'
  <2>1. HeldBack(p)
    BY <1>1, <1>5, NoneAssumption DEF ReportsOK
  <2> QED
    BY <1>1, <1>3, <1>4, <2>1 DEF HeldBack
<1>6. ASSUME Replacing(p), writer # p
      PROVE  NotWriting(p)'
  <2>1. NotWriting(p)
    BY <1>6 DEF ReportsOK
  <2>2. ~BeginTransaction(p) \/ phase[p] = "open"
    <3> SUFFICES ASSUME BeginTransaction(p)
                 PROVE  phase[p] = "open"
      OBVIOUS
    <3>1. Todo(p) /\ Step(p).op = "begin"
      BY DEF BeginTransaction
    <3>2. StatementOK(p, Step(p))
      BY <3>1, TodoFacts
    <3> QED
      BY <1>6, <3>1, <3>2 DEF StatementOK, Replacing, Compares
  <2> QED
    BY <1>2, <1>3, <2>1, <2>2 DEF NotWriting
<1> QED
  BY <1>1, <1>4, <1>5, <1>6

\* The statements that reach the file, and death
LEMMA ReportsFile ==
    ASSUME NEW p \in Processes, Inv, ReportsOK,
           Autocommit(p) \/ CommitTransaction(p) \/ Die(p)
    PROVE  /\ writer' = p => HeldBack(p)'
           /\ Replacing(p)' /\ writer' # p => NotWriting(p)'
<1>1. MapsOK /\ p # None /\ (writer = p => begun[p])
  BY NoneAssumption DEF Inv, Shape, FilesOK
<1>2. CASE Autocommit(p)
  <2>1. /\ Todo(p) /\ Done(p) /\ begun[p] = FALSE /\ writer' = None
        /\ Step(p).table \in Hands(p) /\ Step(p).table \in Tables \ ReportTables
    BY <1>2, AutocommitStep
  <2>2. phase'[p] = phase[p] /\ conf'[p] = conf[p]
    BY <1>2 DEF Autocommit, memory
  <2>3. Compares(p) => phase[p] = "finalize"
    BY <2>1 DEF Hands, Compares, Todo, ReportTables, ResultTables
  <2> QED
    BY <1>1, <2>1, <2>2, <2>3 DEF Replacing, Compares
<1>3. CASE CommitTransaction(p)
  <2>1. /\ Todo(p) /\ Step(p).op = "commit" /\ begun'[p] = FALSE /\ begun[p]
        /\ StatementOK(p, Step(p)) /\ phase'[p] = phase[p] /\ conf'[p] = conf[p]
        /\ writer' # p
    BY <1>1, <1>3, CommitStep DEF CommitTransaction
  <2> QED
    BY <2>1 DEF StatementOK, Replacing, NotWriting
<1>4. CASE Die(p)
  <2>1. phase'[p] \in {"refused", "died"} /\ writer' # p
    BY <1>1, <1>4, DeathEffect
  <2> QED
    BY <2>1 DEF Replacing
<1> QED
  BY <1>2, <1>3, <1>4

LEMMA ReportsInit == Init => ReportsOK
BY DEF Init, ReportsOK, Replacing

LEMMA ReportsStep == Inv /\ ReportsOK /\ [Next]_vars => ReportsOK'
<1> SUFFICES ASSUME Inv, ReportsOK, [Next]_vars PROVE ReportsOK'
  OBVIOUS
<1>1. CASE UNCHANGED vars
  <2> USE <1>1 DEF vars, file, memory
  <2>1. writer' = writer /\ \A p : HeldBack(p) => HeldBack(p)'
    BY DEF HeldBack, Replacing, Compares, Left
  <2>2. \A p : (Replacing(p)' => Replacing(p)) /\ (NotWriting(p) => NotWriting(p)')
    BY DEF Replacing, Compares, NotWriting, Left
  <2>3. writer # None => HeldBack(writer)'
    BY <2>1 DEF ReportsOK
  <2> QED
    BY <2>1, <2>2, <2>3 DEF ReportsOK, HeldBack, Replacing, Compares, Left
<1>2. ASSUME NEW p \in Processes, Main(p) \/ Execute(p) \/ Die(p)
      PROVE  ReportsOK'
  <2>1. \A q \in Processes \ {p} : /\ writer' = q => HeldBack(q)'
                                   /\ Replacing(q)' /\ writer' # q => NotWriting(q)'
    BY <1>2, ReportsOthers
  <2>2. WriteInTransaction(p) => writer' = p
    BY DEF WriteInTransaction
  <2>3. /\ writer' = p => HeldBack(p)'
        /\ Replacing(p)' /\ writer' # p => NotWriting(p)'
    BY <1>2, <2>2, ReportsMain, ReportsQuiet, ReportsFile, ReportsWrite DEF Execute
  <2>4. FilesOK'
    BY <1>2, FilesStep
  <2>5. writer' # None => writer' \in Processes
    BY <2>4 DEF FilesOK
  <2>6. \A q \in Processes : /\ writer' = q => HeldBack(q)'
                             /\ Replacing(q)' /\ writer' # q => NotWriting(q)'
    BY <2>1, <2>3
  <2>7. writer' # None => HeldBack(writer)'
    <3> SUFFICES ASSUME writer' # None PROVE HeldBack(writer)'
      OBVIOUS
    <3> PICK q \in Processes : q = writer'
      BY <2>5
    <3>1. HeldBack(q)'
      BY <2>6
    <3> QED
      BY <3>1 DEF HeldBack, Replacing, Compares, Left
  <2> QED
    BY <2>6, <2>7 DEF ReportsOK
<1> QED
  BY <1>1, <1>2 DEF Next, Terminated

\* A comparison that has dropped the tables of its report has them to itself,
\* and whoever else holds the write lock has left them as they are on the disk.
THEOREM ReportsTheorem == Spec => []ReportsOK
<1>1. Inv /\ ReportsOK /\ [Next]_vars => ReportsOK'
  BY ReportsStep
<1> QED
  BY <1>1, InvTheorem, ReportsInit, PTL DEF Spec

AtomicIn(db) ==
    db.damaged \cap ReportTables = {} =>
        \/ \A t \in ReportTables : db.rows[t] = Absent
        \/ \E r \in Reports : \A t \in ReportTables : db.rows[t] = RowsIn(t, r.lines)

LEMMA AtomicSame ==
    ASSUME NEW db, NEW other, AtomicIn(db), db.damaged \cap ReportTables \subseteq other.damaged,
           other.damaged \cap ReportTables = {} =>
               \A t \in ReportTables : other.rows[t] = db.rows[t]
    PROVE  AtomicIn(other)
BY DEF AtomicIn

LEMMA AtomicStep == Inv /\ ReportsOK /\ ReportIsAtomic /\ [Next]_vars => ReportIsAtomic'
<1> SUFFICES ASSUME Inv, ReportsOK, AtomicIn(disk), [Next]_vars
             PROVE  AtomicIn(disk')
  BY DEF ReportIsAtomic, AtomicIn
<1>1. CASE disk' = disk
  BY <1>1
<1>2. ASSUME NEW p \in Processes, Autocommit(p)
      PROVE  AtomicIn(disk')
  <2>1. /\ disk' = Apply(disk, Step(p)) /\ Writes(Step(p))
        /\ Step(p).table \in Tables \ ReportTables
    BY <1>2, AutocommitStep
  <2>2. IsDb(disk)
    BY DEF Inv, Shape, FilesOK
  <2>3. \A t \in Tables \ {Step(p).table} : /\ disk'.rows[t] = disk.rows[t]
                                            /\ t \in disk'.damaged <=> t \in disk.damaged
    BY <2>1, <2>2, ApplyFacts
  <2>4. \A t \in ReportTables : /\ disk'.rows[t] = disk.rows[t]
                                /\ t \in disk'.damaged <=> t \in disk.damaged
    BY <2>1, <2>3 DEF ReportTables, Tables
  <2> QED
    BY <2>4, AtomicSame
<1>3. ASSUME NEW p \in Processes, CommitTransaction(p), writer = p
      PROVE  AtomicIn(disk')
  <2>1. /\ Todo(p) /\ StatementOK(p, Step(p)) /\ Step(p).op = "commit" /\ disk' = work
        /\ \A t : Drop(t) \notin Left(p) /\ Create(t) \notin Left(p) /\ ToInsert(p, t) = {}
    BY <1>3, CommitStep
  <2>2. HeldBack(p) /\ TablesOK(p) /\ MemoryOK(p)
    BY <1>3, <2>1, TodoFacts, NoneAssumption DEF ReportsOK
  <2>3. CASE Replacing(p)
    <3>1. phase[p] = "report" /\ Compares(p) /\ ReportTables \subseteq Hands(p)
      BY <2>1, <2>3 DEF Replacing, StatementOK, Hands, ReportTables, Tables
    <3>2. \A t \in ReportTables : t \notin meddled[p]
      BY <2>1, <2>2, <2>3 DEF HeldBack
    <3>3. \A t \in ReportTables : work.rows[t] = Target(p, t)
      BY <1>3, <2>1, <2>2, <3>1, <3>2 DEF TablesOK, Stored, View
    <3>4. \A t \in ReportTables : work.rows[t] = RowsIn(t, result[p].lines)
      BY <3>1, <3>3 DEF Target, ReportTables
    <3>5. result[p] \in Reports
      BY <2>2, <3>1 DEF MemoryOK, Compares
    <3> QED
      BY <2>1, <3>4, <3>5 DEF AtomicIn
  <2>4. CASE ~Replacing(p)
    BY <2>1, <2>2, <2>4, AtomicSame DEF HeldBack
  <2> QED
    BY <2>3, <2>4
<1>4. ASSUME NEW p \in Processes, Die(p), writer = p
      PROVE  AtomicIn(disk')
  <2>1. PICK torn \in SUBSET Tables : disk' = Torn(torn)
    <3>1. MapsOK
      BY DEF Inv, Shape
    <3> QED
      BY <1>4, <3>1, DeathEffect DEF Publish
  <2>2. /\ disk'.damaged = disk.damaged \cup torn
        /\ \A t \in ReportTables : t \notin torn => disk'.rows[t] = disk.rows[t]
    BY <2>1 DEF Torn, ReportTables, Tables
  <2> QED
    BY <2>2, AtomicSame
<1>5. ASSUME NEW p \in Processes, Main(p) \/ Execute(p) \/ Die(p)
      PROVE  AtomicIn(disk')
  <2>1. WriteInTransaction(p) => disk' = disk
    BY DEF WriteInTransaction
  <2> QED
    BY <1>1, <1>2, <1>3, <1>4, <1>5, <2>1, QuietStep
<1> QED
  BY <1>1, <1>5 DEF Next, Terminated, vars, file

\* ReportIsAtomic of every state: a report replaces the one before it at the
\* commit, and until then the writes of DirCompDBStream are in its transaction
\* only; none of the other writers works on its tables.
THEOREM ReportIsAtomicTheorem == Spec => []ReportIsAtomic
<1>1. Init => ReportIsAtomic
  BY EarlierAssumption DEF Init, ReportIsAtomic
<1>2. Inv /\ ReportsOK /\ ReportIsAtomic /\ [Next]_vars => ReportIsAtomic'
  BY AtomicStep
<1> QED
  BY <1>1, <1>2, InvTheorem, ReportsTheorem, PTL DEF Spec

LEMMA WholeGrows ==
    ASSUME NEW rows, NEW dumps, NEW more, WholeOf(rows, dumps), dumps \subseteq more
    PROVE  /\ WholeOf(rows, more)
           /\ \A dump \in more : WholeOf(rows \cup dump, more)
<1>1. PICK D \in SUBSET dumps : rows = UNION D
  BY DEF WholeOf
<1>2. WholeOf(rows, more)
  BY <1>1 DEF WholeOf
<1>3. ASSUME NEW dump \in more
      PROVE  WholeOf(rows \cup dump, more)
  <2>1. rows \cup dump = UNION (D \cup {dump}) /\ D \cup {dump} \in SUBSET more
    BY <1>1
  <2> QED
    BY <2>1 DEF WholeOf
<1> QED
  BY <1>2, <1>3

LEMMA ReadsOpen ==
    ASSUME NEW p \in Processes, Inv, BeginRead(p) \/ ReadRow(p) \/ EndRead(p)
    PROVE  phase[p] = "open"
<1>1. CASE BeginRead(p)
  <2>1. Todo(p) /\ Step(p).op = "select"
    BY <1>1 DEF BeginRead
  <2> QED
    BY <2>1, TodoFacts DEF StatementOK
<1>2. CASE ReadRow(p) \/ EndRead(p)
  BY <1>2 DEF ReadRow, EndRead, Inv, Shape, ReadingOK
<1> QED
  BY <1>1, <1>2

\* What is known of the dumps of a process that is past its analysis stays so.
LEMMA DumpsGrow ==
    ASSUME NEW p \in Processes, Inv, Main(p) \/ Execute(p) \/ Die(p)
    PROVE  Dumps \subseteq Dumps'
<1>1. MapsOK
  BY DEF Inv, Shape
<1>2. ASSUME phase[p] \notin {"start", "open"}
      PROVE  phase'[p] \notin {"start", "open"} /\ cache'[p] = cache[p]
  <2>1. Start(p) \/ Analyse(p) => FALSE
    BY <1>2, AnalyseEffect DEF Start
  <2>2. CASE Finalize(p) \/ Exit(p)
    <3>1. /\ phase' = [phase EXCEPT ![p] = "finalize"] \/ phase' = [phase EXCEPT ![p] = "exit"]
          /\ cache' = cache
      BY <2>2 DEF Finalize, Exit, memory
    <3> QED
      BY <1>1, <3>1 DEF MapsOK, IsMap
  <2>3. CASE BeginTransaction(p) \/ Autocommit(p) \/ WriteInTransaction(p)
             \/ CommitTransaction(p) \/ PrepareStmt(p) \/ PrintToStdout(p)
    <3>1. phase' = phase /\ cache' = cache
      BY <2>3 DEF BeginTransaction, Autocommit, WriteInTransaction, CommitTransaction,
                  PrepareStmt, PrintToStdout, memory
    <3> QED
      BY <1>2, <3>1
  <2>4. BeginRead(p) \/ ReadRow(p) \/ EndRead(p) => FALSE
    BY <1>2, ReadsOpen
  <2>5. CASE Die(p)
    BY <1>1, <2>5, DeathEffect
  <2> QED
    BY <2>1, <2>2, <2>3, <2>4, <2>5 DEF Main, Execute
<1>3. \A q \in Processes \ {p} : phase'[q] = phase[q] /\ cache'[q] = cache[q]
  BY <1>1, MainMaps, ExecuteMaps, DeathEffect DEF Same, SamePlan
<1>4. \A q \in Processes : phase[q] \notin {"start", "open"} =>
          phase'[q] \notin {"start", "open"} /\ cache'[q] = cache[q]
  BY <1>2, <1>3
<1>5. {cache[q] : q \in {q \in Processes : phase[q] \notin {"start", "open"}}}
          \subseteq {cache'[q] : q \in {q \in Processes : phase'[q] \notin {"start", "open"}}}
  BY <1>4
<1> QED
  BY <1>5 DEF Dumps

DumpWholeIn(db) ==
    \/ "FileList" \in db.damaged \/ db.rows["FileList"] = Absent
    \/ Whole(db.rows["FileList"])

LEMMA DumpIsWholeIn == DumpIsWhole <=> DumpWholeIn(disk)
BY DEF DumpIsWhole, DumpWholeIn, Whole, WholeOf, Dumps

LEMMA DumpsOthers ==
    ASSUME NEW p \in Processes, NEW q \in Processes \ {p}, Inv, DumpsOK,
           Main(p) \/ Execute(p) \/ Die(p)
    PROVE  /\ writer' = q => DumpHeld(q)'
           /\ writer' # q => DumpAhead(q)'
<1>1. SamePlan(q)
  BY MainMaps, ExecuteMaps, DeathEffect DEF Inv, Shape, Same
<1>2. /\ phase'[q] = phase[q] /\ \A t : ToInsert(q, t)' = ToInsert(q, t)
      /\ (DumpAhead(q)' <=> DumpAhead(q))
  BY <1>1 DEF SamePlan, ToInsert, Left, DumpAhead
<1>3. writer = q => UNCHANGED <<disk, writer, work, meddled>>
  BY WriterAlone, NoneAssumption
<1>4. writer' = q => writer = q
  BY OtherWriter
<1>5. Dumps \subseteq Dumps'
  BY DumpsGrow
<1>6. ASSUME writer' = q
      PROVE  DumpHeld(q)'
  <2>1. writer = q /\ UNCHANGED <<disk, work, meddled>> /\ DumpHeld(q)
    BY <1>3, <1>4, <1>6, NoneAssumption DEF DumpsOK
  <2> QED
    BY <1>2, <1>5, <2>1, WholeGrows DEF DumpHeld, Whole
<1>7. ASSUME writer' # q
      PROVE  DumpAhead(q)'
  BY <1>2, <1>3, <1>7 DEF DumpsOK
<1> QED
  BY <1>6, <1>7

LEMMA DumpsWrite ==
    ASSUME NEW p \in Processes, Inv, DumpsOK, DumpWholeIn(disk), WriteInTransaction(p)
    PROVE  DumpHeld(p)'
<1>1. /\ Todo(p) /\ Done(p) /\ writer \in {None, p} /\ disk' = disk
      /\ IsDb(View(p)) /\ work' = Apply(View(p), Step(p)) /\ ~Refuses(View(p).rows, Step(p))
      /\ Writes(Step(p)) /\ StatementOK(p, Step(p))
      /\ Step(p).table \in Hands(p) /\ Step(p).table \in Tables
      /\ Step(p).op \in {"drop", "create"} => Step(p).table \in ReportTables
      /\ phase'[p] = phase[p] /\ cache'[p] = cache[p]
  BY WriteStep
<1>2. "FileList" \in Tables \ ReportTables
  BY DEF Tables, ReportTables
<1>3. /\ \A t \in Tables \ {Step(p).table} :
             /\ work'.rows[t] = View(p).rows[t]
             /\ t \in work'.damaged <=> t \in View(p).damaged
      /\ Step(p).op = "insert" =>
             work'.rows[Step(p).table] = View(p).rows[Step(p).table] \cup {Step(p).row}
      /\ Step(p).op # "drop" => work'.damaged = View(p).damaged
  BY <1>1, ApplyFacts
<1>4. CASE phase[p] # "finalize"
  <2>1. Step(p).table # "FileList"
    BY <1>1, <1>4 DEF Hands, Todo, ReportTables, ResultTables
  <2>2. /\ work'.rows["FileList"] = View(p).rows["FileList"]
        /\ "FileList" \in work'.damaged <=> "FileList" \in View(p).damaged
    BY <1>2, <1>3, <2>1
  <2>3. /\ View(p).rows["FileList"] = disk.rows["FileList"]
        /\ "FileList" \in View(p).damaged <=> "FileList" \in disk.damaged
    BY <1>1, <1>4, NoneAssumption DEF View, DumpsOK, DumpHeld
  <2> QED
    BY <1>1, <1>4, <2>2, <2>3 DEF DumpHeld
<1>5. CASE phase[p] = "finalize"
  <2>1. Step(p).table = "FileList" /\ Step(p).op = "insert"
    <3>1. Step(p).table = "FileList"
      BY <1>1, <1>5 DEF StatementOK, Writes
    <3>2. Step(p).op # "update"
      <4>1. Update("EqClass", Step(p).row).table = "EqClass"
        BY StatementFacts
      <4> QED
        BY <1>1, <3>1, <4>1 DEF StatementOK
    <3> QED
      BY <1>1, <1>2, <3>1, <3>2 DEF Writes
  <2> PICK rows : rows = View(p).rows["FileList"]
    OBVIOUS
  <2> PICK row : row = Step(p).row
    OBVIOUS
  <2>2. /\ work'.rows["FileList"] = rows \cup {row} /\ work'.damaged = View(p).damaged
        /\ rows # Absent
    BY <1>1, <1>3, <2>1 DEF Refuses
  <2>3. /\ ToInsert(p, "FileList") = ToInsert(p, "FileList")' \cup {row}
        /\ Dumps \subseteq Dumps'
    BY <1>1, <2>1, StatementStep, DumpsGrow DEF Execute
  <2>4. row # None /\ conf[p].dumps /\ cache[p] \in Dumps
    <3>1. "FileList" \in Hands(p) /\ PlanOK(p) /\ MemoryOK(p) /\ Alive(p)
      BY <1>1, <2>1, TodoFacts
    <3>2. /\ row \in Target(p, "FileList") /\ Target(p, "FileList") = cache[p]
          /\ IsCache(cache[p])
      BY <2>3, <3>1, TargetTable DEF PlanOK
    <3>3. conf[p].dumps
      BY <3>1 DEF Hands, ReportTables, ResultTables
    <3>4. cache[p] \in Dumps
      BY <1>5 DEF Dumps
    <3> QED
      BY <3>2, <3>3, <3>4 DEF IsCache
  <2>5. work'.rows["FileList"] # Absent
    BY <2>2, <2>4 DEF Absent
  <2>6. "FileList" \in View(p).damaged \/ Whole(rows \cup ToInsert(p, "FileList"))
    <3>1. CASE writer = p
      BY <1>5, <3>1, NoneAssumption DEF DumpsOK, DumpHeld, View
    <3>2. CASE writer # p
      <4>1. View(p) = disk /\ ToInsert(p, "FileList") \in {{}, cache[p]}
        BY <1>5, <2>4, <3>2 DEF DumpsOK, DumpAhead, View
      <4>2. "FileList" \in disk.damaged \/ WholeOf(rows, Dumps)
        BY <2>2, <4>1 DEF DumpWholeIn, Whole
      <4> QED
        BY <2>3, <2>4, <4>1, <4>2, WholeGrows DEF Whole
    <3> QED
      BY <3>1, <3>2
  <2>7. rows \cup ToInsert(p, "FileList") = work'.rows["FileList"] \cup ToInsert(p, "FileList")'
    BY <2>2, <2>3
  <2>8. "FileList" \in work'.damaged
            \/ WholeOf(work'.rows["FileList"] \cup ToInsert(p, "FileList")', Dumps')
    BY <2>2, <2>3, <2>6, <2>7, WholeGrows DEF Whole
  <2> QED
    BY <1>1, <1>5, <2>5, <2>8 DEF DumpHeld, Whole
<1> QED
  BY <1>4, <1>5

LEMMA DumpsMain ==
    ASSUME NEW p \in Processes, Inv, DumpsOK, Main(p)
    PROVE  /\ writer' = p => DumpHeld(p)'
           /\ writer' # p => DumpAhead(p)'
<1>1. /\ MapsOK /\ Shape /\ ProcessOK(p) /\ MemoryOK(p) /\ (writer = p => begun[p])
      /\ p # None
  BY NoneAssumption DEF Inv, Shape, FilesOK
<1>2. CASE Start(p)
  <2>1. writer # p /\ writer' = writer /\ phase' = [phase EXCEPT ![p] = "open"]
    BY <1>1, <1>2 DEF Start, MemoryOK, Busy, file
  <2> QED
    BY <1>1, <2>1 DEF MapsOK, IsMap, DumpAhead
<1>3. CASE Analyse(p)
  <2>1. /\ phase[p] = "open" /\ phase' = [phase EXCEPT ![p] = "report"]
        /\ UNCHANGED <<disk, writer, work>>
    BY <1>3, AnalyseEffect
  <2>2. phase'[p] = "report"
    BY <1>1, <2>1 DEF MapsOK, IsMap
  <2> QED
    BY <1>1, <2>1, <2>2 DEF DumpsOK, DumpHeld, DumpAhead
<1>4. CASE Finalize(p) \/ Exit(p)
  <2>1. /\ Busy(p) /\ script[p] = <<>> /\ phase[p] # "open" /\ writer' = writer
    BY <1>4 DEF Finalize, Exit, Busy, file
  <2>2. begun[p] = (phase[p] = "open" /\ Compares(p))
    BY <1>1, <2>1, NothingLeft
  <2>3. writer' # p
    BY <1>1, <2>1, <2>2
  <2>4. CASE Exit(p)
    <3>1. phase' = [phase EXCEPT ![p] = "exit"]
      BY <2>4 DEF Exit
    <3> QED
      BY <1>1, <2>3, <3>1 DEF MapsOK, IsMap, DumpAhead
  <2>5. CASE Finalize(p)
    <3> SUFFICES ASSUME conf'[p].dumps
                 PROVE  ToInsert(p, "FileList")' = cache'[p]
      BY <2>3 DEF DumpAhead
    <3> PICK rows : rows = cache[p]
      OBVIOUS
    <3>1. conf'[p] = conf[p] /\ cache'[p] = rows
          /\ script'[p] = If(conf[p].dumps, StoreCksums(rows))
      BY <1>1, <2>5 DEF Finalize, memory, MapsOK, IsMap
    <3>2. Left(p)' = CacheStatements(rows)
      <4>1. IsCache(cache[p])
        BY <1>1, Zenon DEF MemoryOK
      <4>2. script'[p] = StoreCksums(rows)
        BY <3>1 DEF If
      <4> QED
        BY <4>1, <4>2, CacheScript DEF Left
    <3>3. RowsOf(CacheStatements(rows), "FileList") = rows
      BY CacheFacts
    <3> QED
      BY <3>1, <3>2, <3>3, RowsLeft
  <2> QED
    BY <1>4, <2>4, <2>5
<1> QED
  BY <1>2, <1>3, <1>4 DEF Main

\* No statement but a write changes what is to be inserted.
LEMMA QuietPlan ==
    ASSUME NEW p \in Processes, Inv,
           \/ BeginTransaction(p) \/ PrepareStmt(p) \/ PrintToStdout(p)
           \/ BeginRead(p) \/ ReadRow(p) \/ EndRead(p)
    PROVE  \A t : ToInsert(p, t)' = ToInsert(p, t)
<1>1. CASE BeginRead(p) \/ ReadRow(p)
  <2>1. script' = script
    BY <1>1 DEF BeginRead, ReadRow
  <2> QED
    BY <2>1 DEF Left, ToInsert
<1>2. CASE BeginTransaction(p) \/ PrepareStmt(p) \/ PrintToStdout(p)
  <2>1. Todo(p) /\ Done(p) /\ Step(p).op # "insert"
    BY <1>2 DEF BeginTransaction, PrepareStmt, PrintToStdout
  <2> QED
    BY <2>1, StatementStep
<1>3. CASE EndRead(p)
  <2>1. Todo(p) /\ Done(p) /\ Step(p).op # "insert"
    BY <1>3 DEF EndRead, Inv, Shape, ReadingOK, Todo
  <2> QED
    BY <2>1, StatementStep
<1> QED
  BY <1>1, <1>2, <1>3

LEMMA DumpsQuiet ==
    ASSUME NEW p \in Processes, Inv, DumpsOK,
           \/ BeginTransaction(p) \/ PrepareStmt(p) \/ PrintToStdout(p)
           \/ BeginRead(p) \/ ReadRow(p) \/ EndRead(p)
    PROVE  /\ writer' = p => DumpHeld(p)'
           /\ writer' # p => DumpAhead(p)'
<1>1. /\ UNCHANGED <<disk, writer, work>> /\ p # None
      /\ phase'[p] = phase[p] /\ conf'[p] = conf[p]
  BY NoneAssumption DEF BeginTransaction, PrepareStmt, PrintToStdout, BeginRead, ReadRow,
                        EndRead, file, memory
<1>2. phase[p] = "open" \/ cache'[p] = cache[p]
  <2>1. BeginRead(p) \/ ReadRow(p) \/ EndRead(p) => phase[p] = "open"
    BY ReadsOpen
  <2> QED
    BY <2>1 DEF BeginTransaction, PrepareStmt, PrintToStdout, memory
<1>3. ToInsert(p, "FileList")' = ToInsert(p, "FileList")
  BY QuietPlan
<1>4. Dumps \subseteq Dumps'
  BY DumpsGrow DEF Execute
<1>5. writer = p => DumpHeld(p)'
  BY <1>1, <1>3, <1>4, WholeGrows DEF DumpsOK, DumpHeld, Whole
<1>6. writer # p => DumpAhead(p)'
  BY <1>1, <1>2, <1>3 DEF DumpsOK, DumpAhead
<1> QED
  BY <1>1, <1>5, <1>6

LEMMA DumpsFile ==
    ASSUME NEW p \in Processes, Inv, DumpsOK,
           Autocommit(p) \/ CommitTransaction(p) \/ Die(p)
    PROVE  /\ writer' = p => DumpHeld(p)'
           /\ writer' # p => DumpAhead(p)'
<1>1. MapsOK /\ p # None
  BY NoneAssumption DEF Inv, Shape
<1>2. CASE Autocommit(p)
  <2>1. /\ Todo(p) /\ Done(p) /\ writer = None /\ writer' = None
        /\ Step(p).op \in {"drop", "create"}
    BY <1>2, AutocommitStep
  <2>2. phase'[p] = phase[p] /\ conf'[p] = conf[p] /\ cache'[p] = cache[p]
    BY <1>2 DEF Autocommit, memory
  <2>3. ToInsert(p, "FileList")' = ToInsert(p, "FileList")
    BY <2>1, StatementStep
  <2> QED
    BY <1>1, <2>1, <2>2, <2>3 DEF DumpsOK, DumpAhead
<1>3. CASE CommitTransaction(p)
  <2>1. /\ Todo(p) /\ Done(p) /\ Step(p).op = "commit" /\ writer' # p
        /\ ToInsert(p, "FileList") = {}
    BY <1>1, <1>3, CommitStep
  <2>2. ToInsert(p, "FileList")' = {}
    BY <2>1, StatementStep
  <2> QED
    BY <2>1, <2>2 DEF DumpAhead
<1>4. CASE Die(p)
  <2>1. phase'[p] \in {"refused", "died"} /\ writer' # p
    BY <1>1, <1>4, DeathEffect
  <2> QED
    BY <2>1 DEF DumpAhead
<1> QED
  BY <1>2, <1>3, <1>4

LEMMA DumpsInit == Init => DumpsOK
BY DEF Init, DumpsOK, DumpAhead

LEMMA DumpsStep == Inv /\ DumpsOK /\ DumpWholeIn(disk) /\ [Next]_vars => DumpsOK'
<1> SUFFICES ASSUME Inv, DumpsOK, DumpWholeIn(disk), [Next]_vars PROVE DumpsOK'
  OBVIOUS
<1>1. CASE UNCHANGED vars
  <2> USE <1>1 DEF vars, file, memory
  <2>1. writer' = writer /\ \A p : DumpHeld(p) => DumpHeld(p)'
    BY DEF DumpHeld, Whole, WholeOf, Dumps, ToInsert, Left
  <2>2. \A p : DumpAhead(p) => DumpAhead(p)'
    BY DEF DumpAhead, ToInsert, Left
  <2>3. writer # None => DumpHeld(writer)'
    BY <2>1 DEF DumpsOK
  <2> QED
    BY <2>1, <2>2, <2>3 DEF DumpsOK, DumpHeld, ToInsert, Left
<1>2. ASSUME NEW p \in Processes, Main(p) \/ Execute(p) \/ Die(p)
      PROVE  DumpsOK'
  <2>1. \A q \in Processes \ {p} : /\ writer' = q => DumpHeld(q)'
                                   /\ writer' # q => DumpAhead(q)'
    BY <1>2, DumpsOthers
  <2>2. WriteInTransaction(p) => writer' = p
    BY DEF WriteInTransaction
  <2>3. /\ writer' = p => DumpHeld(p)'
        /\ writer' # p => DumpAhead(p)'
    BY <1>2, <2>2, DumpsMain, DumpsQuiet, DumpsFile, DumpsWrite DEF Execute
  <2>4. FilesOK'
    BY <1>2, FilesStep
  <2>5. writer' # None => writer' \in Processes
    BY <2>4 DEF FilesOK
  <2>6. \A q \in Processes : /\ writer' = q => DumpHeld(q)'
                             /\ writer' # q => DumpAhead(q)'
    BY <2>1, <2>3
  <2>7. writer' # None => DumpHeld(writer)'
    <3> SUFFICES ASSUME writer' # None PROVE DumpHeld(writer)'
      OBVIOUS
    <3> PICK q \in Processes : q = writer'
      BY <2>5
    <3>1. DumpHeld(q)'
      BY <2>6
    <3> QED
      BY <3>1 DEF DumpHeld, ToInsert, Left
  <2> QED
    BY <2>6, <2>7 DEF DumpsOK
<1> QED
  BY <1>1, <1>2 DEF Next, Terminated

LEMMA DumpSame ==
    ASSUME DumpWholeIn(disk), Dumps \subseteq Dumps', NEW db,
           "FileList" \in disk.damaged => "FileList" \in db.damaged,
           db.rows["FileList"] = disk.rows["FileList"], db = disk'
    PROVE  DumpWholeIn(disk)'
<1>1. Whole(disk.rows["FileList"]) => WholeOf(disk.rows["FileList"], Dumps')
  BY WholeGrows DEF Whole
<1> QED
  BY <1>1 DEF DumpWholeIn, Whole

LEMMA DumpWholeStep ==
    Inv /\ DumpsOK /\ DumpWholeIn(disk) /\ [Next]_vars => DumpWholeIn(disk)'
<1> SUFFICES ASSUME Inv, DumpsOK, DumpWholeIn(disk), [Next]_vars
             PROVE  DumpWholeIn(disk)'
  OBVIOUS
<1>1. CASE UNCHANGED vars
  <2>1. disk' = disk /\ Dumps' = Dumps
    BY <1>1 DEF vars, file, memory, Dumps
  <2> QED
    BY <2>1, DumpSame
<1>2. ASSUME NEW p \in Processes, Main(p) \/ Execute(p) \/ Die(p)
      PROVE  DumpWholeIn(disk)'
  <2>1. Dumps \subseteq Dumps'
    BY <1>2, DumpsGrow
  <2>2. CASE disk' = disk
    BY <2>1, <2>2, DumpSame
  <2>3. CASE Autocommit(p)
    <3>1. /\ disk' = Apply(disk, Step(p)) /\ Writes(Step(p)) /\ Step(p).table \in Tables
          /\ Step(p).op \in {"drop", "create"}
      BY <2>3, AutocommitStep
    <3>2. IsDb(disk)
      BY DEF Inv, Shape, FilesOK
    <3>3. /\ \A t \in Tables \ {Step(p).table} :
                 /\ disk'.rows[t] = disk.rows[t]
                 /\ t \in disk'.damaged <=> t \in disk.damaged
          /\ Step(p).op = "drop" => disk'.rows[Step(p).table] = Absent
          /\ Step(p).op = "create" => disk'.rows[Step(p).table] = {}
      BY <3>1, <3>2, ApplyFacts
    <3>4. CASE Step(p).table # "FileList"
      <4>1. /\ disk'.rows["FileList"] = disk.rows["FileList"]
            /\ "FileList" \in disk.damaged => "FileList" \in disk'.damaged
        BY <3>3, <3>4 DEF Tables
      <4> QED
        BY <2>1, <4>1, DumpSame
    <3>5. CASE Step(p).table = "FileList" /\ Step(p).op = "drop"
      BY <3>3, <3>5 DEF DumpWholeIn
    <3>6. CASE Step(p).table = "FileList" /\ Step(p).op = "create"
      <4>1. disk'.rows["FileList"] = UNION {} /\ {} \in SUBSET Dumps'
        BY <3>3, <3>6
      <4>2. WholeOf(disk'.rows["FileList"], Dumps')
        BY <4>1 DEF WholeOf
      <4> QED
        BY <4>2 DEF DumpWholeIn, Whole
    <3> QED
      BY <3>1, <3>4, <3>5, <3>6
  <2>4. CASE CommitTransaction(p) /\ writer = p
    <3>1. disk' = work /\ ToInsert(p, "FileList") = {} /\ DumpHeld(p)
      BY <2>4, CommitStep, NoneAssumption DEF DumpsOK
    <3>2. CASE phase[p] = "finalize"
      <4> PICK rows : rows = work.rows["FileList"]
        OBVIOUS
      <4>1. "FileList" \in work.damaged \/ WholeOf(rows \cup {}, Dumps)
        BY <3>1, <3>2 DEF DumpHeld, Whole
      <4>2. rows \cup {} = rows
        OBVIOUS
      <4>3. "FileList" \in work.damaged \/ WholeOf(rows, Dumps')
        BY <2>1, <4>1, <4>2, WholeGrows
      <4> QED
        BY <3>1, <4>3 DEF DumpWholeIn, Whole
    <3>3. CASE phase[p] # "finalize"
      BY <2>1, <3>1, <3>3, DumpSame DEF DumpHeld
    <3> QED
      BY <3>2, <3>3
  <2>5. CASE Die(p) /\ writer = p
    <3>1. PICK torn \in SUBSET Tables : disk' = Torn(torn)
      <4>1. MapsOK
        BY DEF Inv, Shape
      <4> QED
        BY <2>5, <4>1, DeathEffect DEF Publish
    <3>2. /\ disk'.damaged = disk.damaged \cup torn
          /\ "FileList" \notin torn => disk'.rows["FileList"] = disk.rows["FileList"]
      BY <3>1 DEF Torn, Tables
    <3>3. CASE "FileList" \in torn
      BY <3>2, <3>3 DEF DumpWholeIn
    <3>4. CASE "FileList" \notin torn
      BY <2>1, <3>2, <3>4, DumpSame
    <3> QED
      BY <3>3, <3>4
  <2>6. WriteInTransaction(p) => disk' = disk
    BY DEF WriteInTransaction
  <2> QED
    BY <1>2, <2>2, <2>3, <2>4, <2>5, <2>6, QuietStep
<1> QED
  BY <1>1, <1>2 DEF Next, Terminated

\* DumpIsWhole of every state: StoreCksums inserts the checksums in one
\* transaction, so that what ReadCacheFromDb finds are the complete caches of
\* one or more processes, or an empty table.
THEOREM DumpIsWholeTheorem == Spec => []DumpIsWhole
<1>1. Init => DumpWholeIn(disk)
  <2> SUFFICES ASSUME Init, disk.rows["FileList"] # Absent
               PROVE  WholeOf(disk.rows["FileList"], Dumps)
    BY DEF DumpWholeIn, Whole
  <2> PICK rows : rows = disk.rows["FileList"]
    OBVIOUS
  <2>1. rows \in Dumps
    BY DEF Init, Dumps
  <2>2. rows = UNION {rows} /\ {rows} \in SUBSET Dumps
    BY <2>1
  <2> QED
    BY <2>2 DEF WholeOf
<1>2. Init => DumpsOK
  BY DumpsInit
<1>3. Inv /\ DumpsOK /\ DumpWholeIn(disk) /\ [Next]_vars
          => (DumpsOK /\ DumpWholeIn(disk))'
  BY DumpsStep, DumpWholeStep
<1>4. DumpWholeIn(disk) => DumpIsWhole
  BY DumpIsWholeIn
<1> QED
  BY <1>1, <1>2, <1>3, <1>4, InvTheorem, PTL DEF Spec

-----------------------------------------------------------------------------
(* Nodes and their classes *)

LEMMA KeysAdd == \A S, r : Keys(S \cup {r}) = Keys(S) \cup {r.key}
BY DEF Keys

LEMMA KeysMember == \A S : \A r \in S : r.key \in Keys(S)
BY DEF Keys

\* What marking a class leaves of a table
MarkedFrom(C, M) ==
    /\ \A r \in C : \E m \in M : m.key = r.key /\ m.val[1] = r.val[1]
    /\ \A m \in M : \E r \in C : m.key = r.key /\ m.val[1] = r.val[1]
    /\ \A m \in M : m \in C \/ \E r \in C : m = Row(r.key, <<r.val[1], TRUE>>)
    /\ \A r \in C : r \in M \/ Row(r.key, <<r.val[1], TRUE>>) \in M
    /\ Keys(M) = Keys(C)

LEMMA MarkedFacts == \A C, k : MarkedFrom(C, Marked(C, k))
<1> SUFFICES ASSUME NEW C, NEW k
             PROVE  MarkedFrom(C, Marked(C, k))
  OBVIOUS
<1> DEFINE Mark(r) == IF r.key = k THEN [key |-> k, val |-> <<r.val[1], TRUE>>] ELSE r
<1>1. Marked(C, k) = {Mark(r) : r \in C}
  BY DEF Marked
<1>2. ASSUME NEW r \in C
      PROVE  /\ Mark(r).key = r.key /\ Mark(r).val[1] = r.val[1]
             /\ Mark(r) = r \/ Mark(r) = Row(r.key, <<r.val[1], TRUE>>)
  BY DEF Row
<1> HIDE DEF Mark
<1>3. /\ \A r \in C : \E m \in Marked(C, k) : m.key = r.key /\ m.val[1] = r.val[1]
      /\ \A m \in Marked(C, k) : \E r \in C : m.key = r.key /\ m.val[1] = r.val[1]
  BY <1>1, <1>2
<1>4. /\ \A m \in Marked(C, k) : m \in C \/ \E r \in C : m = Row(r.key, <<r.val[1], TRUE>>)
      /\ \A r \in C : r \in Marked(C, k) \/ Row(r.key, <<r.val[1], TRUE>>) \in Marked(C, k)
  BY <1>1, <1>2
<1>5. Keys(Marked(C, k)) = Keys(C)
  BY <1>3 DEF Keys
<1> QED
  BY <1>3, <1>4, <1>5 DEF MarkedFrom

LEMMA NotNoneMarked ==
    ASSUME NEW C, NEW k, NotNone(C), C # Absent
    PROVE  NotNone(Marked(C, k)) /\ Marked(C, k) # Absent
<1> PICK M : M = Marked(C, k) /\ MarkedFrom(C, M)
  BY MarkedFacts
<1>1. ASSUME NEW m \in M
      PROVE  Row(m.key, <<m.val[1], TRUE>>) # None
  <2>1. PICK r \in C : m.key = r.key /\ m.val[1] = r.val[1]
    BY DEF MarkedFrom
  <2> QED
    BY <2>1 DEF NotNone
<1>2. ASSUME M = Absent
      PROVE  FALSE
  <2>1. \A m : m \in M <=> m = None
    BY <1>2 DEF Absent
  <2>2. None \in C
    BY <2>1 DEF MarkedFrom, NotNone
  <2>3. PICK r \in C : r # None
    BY <2>2 DEF Absent
  <2>4. r \in M \/ Row(r.key, <<r.val[1], TRUE>>) \in M
    BY DEF MarkedFrom
  <2>5. Row(r.key, <<r.val[1], TRUE>>) # None
    BY DEF NotNone
  <2> QED
    BY <2>1, <2>3, <2>4, <2>5
<1> QED
  BY <1>1, <1>2 DEF NotNone

LEMMA GrownSame == \A C : Grown(C, C)
BY DEF Grown

LEMMA GrownAdd ==
    ASSUME NEW B, NEW C, NEW r, Grown(B, C), r.key \notin Keys(C)
    PROVE  Grown(B, C \cup {r})
BY KeysAdd DEF Grown

LEMMA GrownMark ==
    ASSUME NEW B, NEW C, NEW k, Grown(B, C)
    PROVE  Grown(B, Marked(C, k))
<1> PICK M : M = Marked(C, k) /\ MarkedFrom(C, M)
  BY MarkedFacts
<1>1. ASSUME NEW m \in M, m.key \in Keys(B)
      PROVE  \E d \in B : d.key = m.key /\ d.val[1] = m.val[1]
  <2>1. PICK r \in C : m.key = r.key /\ m.val[1] = r.val[1]
    BY DEF MarkedFrom
  <2> QED
    BY <1>1, <2>1 DEF Grown
<1> QED
  BY <1>1 DEF Grown, MarkedFrom

LEMMA FitLost ==
    ASSUME NEW C, NEW N, NEW E, NEW M, NEW lost \in BOOLEAN, NEW more \in BOOLEAN,
           FitRows(C, N, E, M, lost), lost => more
    PROVE  FitRows(C, N, E, M, more)
BY DEF FitRows

\* At the beginning of the transaction
LEMMA FitStart ==
    ASSUME NEW C, NEW N, NEW E, NEW M, NEW lost, FitRows(C, N, {}, {}, lost),
           \A n \in M : n.val \in Keys(E)
    PROVE  FitRows(C, N, E, M, lost)
<1>1. \A k : NodesOf(k, N, E, M) = NodesOf(k, N, {}, {})
  BY DEF NodesOf
<1> QED
  BY <1>1 DEF FitRows

LEMMA FitInsertNode ==
    ASSUME NEW C, NEW N, NEW M, NEW more, NEW lost, NEW r, FitRows(C, N, {}, M, lost),
           M = more \cup {r}, r.val \in Keys(C)
    PROVE  FitRows(C, N \cup {r}, {}, more, lost)
<1>1. \A k : k \notin Keys({})
  BY DEF Keys
<1>2. \A k : NodesOf(k, N \cup {r}, {}, more) = NodesOf(k, N, {}, M)
  BY <1>1 DEF NodesOf
<1> QED
  BY <1>2 DEF FitRows

LEMMA FitInsertClass ==
    ASSUME NEW C, NEW N, NEW E, NEW more, NEW M, NEW lost, NEW r, FitRows(C, N, E, M, lost),
           E = more \cup {r}, r.key \notin Keys(C), r.key \notin Keys(more),
           Cardinality({n \in M : n.val = r.key}) = r.val[1]
    PROVE  FitRows(C \cup {r}, N, more, M, lost)
<1>1. Keys(C \cup {r}) = Keys(C) \cup {r.key} /\ Keys(E) = Keys(more) \cup {r.key}
  BY KeysAdd
<1>2. ASSUME NEW c \in C
      PROVE  NodesOf(c.key, N, more, M) = NodesOf(c.key, N, E, M)
  <2>1. c.key \in Keys(C)
    BY KeysMember
  <2> QED
    BY <1>1, <2>1 DEF NodesOf
<1>3. NodesOf(r.key, N, more, M) = {n \in M : n.val = r.key}
  BY DEF NodesOf, FitRows
<1> QED
  BY <1>1, <1>2, <1>3 DEF FitRows

LEMMA FitMark ==
    ASSUME NEW C, NEW N, NEW E, NEW M, NEW lost, NEW k, FitRows(C, N, E, M, lost)
    PROVE  FitRows(Marked(C, k), N, E, M, lost)
<1> PICK D : D = Marked(C, k) /\ MarkedFrom(C, D)
  BY MarkedFacts
<1>1. ASSUME NEW d \in D
      PROVE  LET mine == NodesOf(d.key, N, E, M)
             IN  Cardinality(mine) = d.val[1] \/ (mine = {} /\ lost)
  <2>1. PICK c \in C : d.key = c.key /\ d.val[1] = c.val[1]
    BY DEF MarkedFrom
  <2> QED
    BY <2>1 DEF FitRows
<1>2. Keys(D) = Keys(C)
  BY DEF MarkedFrom
<1> QED
  BY <1>1, <1>2 DEF FitRows

\* The classes of a transaction that has died, without its nodes
LEMMA FitTorn ==
    ASSUME NEW C, NEW D, NEW N, NEW lost \in BOOLEAN, FitRows(C, N, {}, {}, lost), Grown(C, D)
    PROVE  FitRows(D, N, {}, {}, TRUE)
<1>1. ASSUME NEW d \in D
      PROVE  LET mine == NodesOf(d.key, N, {}, {})
             IN  Cardinality(mine) = d.val[1] \/ mine = {}
  <2>1. CASE d.key \in Keys(C)
    <3>1. PICK c \in C : c.key = d.key /\ c.val[1] = d.val[1]
      BY <2>1 DEF Grown
    <3> QED
      BY <3>1 DEF FitRows
  <2>2. CASE d.key \notin Keys(C)
    BY <2>2 DEF FitRows, NodesOf
  <2> QED
    BY <2>1, <2>2
<1>2. \A n \in N : n.val \in Keys(D)
  BY DEF FitRows, Grown
<1> QED
  BY <1>1, <1>2 DEF FitRows

LEMMA FitIs ==
    ASSUME NEW db, NEW lost
    PROVE  Fit(db.rows, lost) <=>
               (db.rows["Node"] # Absent =>
                    FitRows(ClassesIn(db), db.rows["Node"], {}, {}, lost))
<1> PICK C, N : C = ClassesIn(db) /\ N = db.rows["Node"]
  OBVIOUS
<1> DEFINE nodes(c) == {n \in N : n.val = c.key}
<1>1. \A c \in C : NodesOf(c.key, N, {}, {}) = nodes(c)
  BY DEF NodesOf
<1>2. Fit(db.rows, lost) <=>
          (N # Absent => /\ \A c \in C : Cardinality(nodes(c)) = c.val[1]
                                         \/ (nodes(c) = {} /\ lost)
                         /\ \A n \in N : n.val \in Keys(C))
  BY Zenon DEF Fit, ClassesIn
<1> HIDE DEF nodes
<1>3. FitRows(C, N, {}, {}, lost) <=>
          /\ \A c \in C : Cardinality(nodes(c)) = c.val[1] \/ (nodes(c) = {} /\ lost)
          /\ \A n \in N : n.val \in Keys(C)
  BY <1>1 DEF FitRows
<1> QED
  BY <1>2, <1>3

LEMMA MayLoseType == \A db, crowded : crowded \in BOOLEAN => MayLose(db, crowded) \in BOOLEAN
BY DEF MayLose

LEMMA HeldGrows ==
    ASSUME NEW old, NEW new, NEW E, NEW M, NEW f, NEW crowded \in BOOLEAN, NEW more \in BOOLEAN,
           HeldIn(old, new, E, M, f, crowded), crowded => more
    PROVE  HeldIn(old, new, E, M, f, more)
<1> PICK lost \in BOOLEAN, larger \in BOOLEAN :
        lost = MayLose(new, crowded) /\ larger = MayLose(new, more)
  BY MayLoseType
<1>1. lost => larger
  BY DEF MayLose
<1>2. "Node" \notin new.damaged /\ new.rows["Node"] # Absent =>
          FitRows(ClassesIn(new), new.rows["Node"], E, M, larger)
  BY <1>1, FitLost DEF HeldIn
<1> QED
  BY <1>2 DEF HeldIn

LEMMA MatchGrows ==
    ASSUME NEW db, NEW crowded \in BOOLEAN, NEW more \in BOOLEAN, MatchIn(db, crowded),
           crowded => more
    PROVE  MatchIn(db, more)
<1> PICK lost \in BOOLEAN, larger \in BOOLEAN :
        lost = MayLose(db, crowded) /\ larger = MayLose(db, more)
  BY MayLoseType
<1>1. lost => larger
  BY DEF MayLose
<1>2. FitRows(ClassesIn(db), db.rows["Node"], {}, {}, lost)
          => FitRows(ClassesIn(db), db.rows["Node"], {}, {}, larger)
  BY <1>1, FitLost
<1> QED
  BY <1>2, FitIs DEF MatchIn

LEMMA HeldStart ==
    ASSUME NEW db, NEW E, NEW M, NEW f, NEW crowded, NotNone(ClassesIn(db)), MatchIn(db, crowded),
           \A n \in M : n.val \in Keys(E)
    PROVE  HeldIn(db, db, E, M, f, crowded)
<1>1. "Node" \notin db.damaged /\ db.rows["Node"] # Absent =>
          FitRows(ClassesIn(db), db.rows["Node"], E, M, MayLose(db, crowded))
  BY FitIs, FitStart DEF MatchIn
<1> QED
  BY <1>1, GrownSame DEF HeldIn

LEMMA HeldEnd ==
    ASSUME NEW old, NEW new, NEW f, NEW crowded, HeldIn(old, new, {}, {}, f, crowded)
    PROVE  MatchIn(new, crowded)
BY FitIs DEF HeldIn, MatchIn

\* The tables of the result and what is known of their damage are the same.
SameResult(db, other) ==
    \A t \in ResultTables : /\ other.rows[t] = db.rows[t]
                            /\ t \in other.damaged <=> t \in db.damaged

LEMMA SameParts ==
    ASSUME NEW db, NEW other, SameResult(db, other)
    PROVE  /\ ClassesIn(other) = ClassesIn(db) /\ other.rows["Node"] = db.rows["Node"]
           /\ "Node" \in other.damaged <=> "Node" \in db.damaged
           /\ "EqClass" \in other.damaged <=> "EqClass" \in db.damaged
           /\ \A crowded : MayLose(other, crowded) <=> MayLose(db, crowded)
BY DEF SameResult, ResultTables, ClassesIn, MayLose

LEMMA HeldSame ==
    ASSUME NEW old, NEW db, NEW new, NEW E, NEW M, NEW f, NEW crowded \in BOOLEAN,
           HeldIn(old, db, E, M, f, crowded), SameResult(db, new)
    PROVE  HeldIn(old, new, E, M, f, crowded)
<1>1. MayLose(new, crowded) = MayLose(db, crowded)
  BY SameParts, MayLoseType
<1>2. /\ ClassesIn(new) = ClassesIn(db) /\ new.rows["Node"] = db.rows["Node"]
      /\ \A t \in ResultTables : t \in new.damaged <=> t \in db.damaged
  BY SameParts DEF SameResult
<1>3. "Node" \in ResultTables
  BY DEF ResultTables
<1> QED
  BY <1>1, <1>2, <1>3 DEF HeldIn

LEMMA MatchSame ==
    ASSUME NEW db, NEW new, NEW crowded \in BOOLEAN, MatchIn(db, crowded), SameResult(db, new)
    PROVE  MatchIn(new, crowded)
<1>1. MayLose(new, crowded) = MayLose(db, crowded)
  BY SameParts, MayLoseType
<1>2. ClassesIn(new) = ClassesIn(db) /\ new.rows["Node"] = db.rows["Node"]
      /\ ("Node" \in new.damaged <=> "Node" \in db.damaged)
  BY SameParts
<1> QED
  BY <1>1, <1>2, FitIs DEF MatchIn

\* A row is inserted into a table of the result, or rows of it are marked.
LEMMA HeldNode ==
    ASSUME NEW old, NEW db, NEW new, NEW M, NEW more, NEW f, NEW crowded, NEW row,
           HeldIn(old, db, {}, M, f, crowded), M = more \cup {row},
           row # None, row.val \in Keys(ClassesIn(db)), db.rows["Node"] # Absent,
           new.rows["Node"] = db.rows["Node"] \cup {row},
           new.rows["EqClass"] = db.rows["EqClass"], new.damaged = db.damaged
    PROVE  HeldIn(old, new, {}, more, f, crowded)
<1>1. new.rows["Node"] # Absent
  BY DEF Absent
<1>2. ClassesIn(new) = ClassesIn(db) /\ (MayLose(new, crowded) <=> MayLose(db, crowded))
  BY DEF ClassesIn, MayLose
<1>3. MayLose(new, crowded) = MayLose(db, crowded)
  BY DEF MayLose
<1>4. ASSUME "Node" \notin new.damaged
      PROVE  FitRows(ClassesIn(new), new.rows["Node"], {}, more, MayLose(new, crowded))
  <2> PICK C, N, lost : C = ClassesIn(db) /\ N = db.rows["Node"] /\ lost = MayLose(db, crowded)
    OBVIOUS
  <2>1. FitRows(C, N, {}, M, lost) /\ row.val \in Keys(C)
    BY <1>4 DEF HeldIn
  <2>2. FitRows(C, N \cup {row}, {}, more, lost)
    BY <2>1, FitInsertNode
  <2> QED
    BY <1>2, <1>3, <2>2
<1> QED
  BY <1>1, <1>2, <1>4 DEF HeldIn

\* The row of a class, with its nodes and the classes that are still to come
NewClass(row, more, M) ==
    /\ Row(row.key, <<row.val[1], TRUE>>) # None /\ row.key \notin Keys(more) /\ M # {}
    /\ Cardinality({n \in M : n.val = row.key}) = row.val[1]

LEMMA HeldClass ==
    ASSUME NEW old, NEW db, NEW new, NEW E, NEW more, NEW M, NEW crowded, NEW row,
           HeldIn(old, db, E, M, TRUE, crowded), E = more \cup {row},
           row # None, db.rows["EqClass"] # Absent, row.key \notin Keys(db.rows["EqClass"]),
           NewClass(row, more, M), new.rows["EqClass"] = db.rows["EqClass"] \cup {row},
           new.rows["Node"] = db.rows["Node"], new.damaged = db.damaged
    PROVE  HeldIn(old, new, more, M, TRUE, crowded)
<1>1. ClassesIn(db) = db.rows["EqClass"] /\ ClassesIn(new) = ClassesIn(db) \cup {row}
  BY DEF ClassesIn, Absent
<1>2. MayLose(new, crowded) = MayLose(db, crowded)
  BY DEF MayLose
<1> PICK C : C = ClassesIn(db)
  OBVIOUS
<1>3. NotNone(C \cup {row}) /\ Grown(ClassesIn(old), C \cup {row})
  BY <1>1, GrownAdd DEF HeldIn, NotNone, NewClass
<1>4. "Node" \notin new.damaged /\ new.rows["Node"] # Absent =>
          FitRows(C \cup {row}, new.rows["Node"], more, M, MayLose(new, crowded))
  BY <1>1, <1>2, FitInsertClass DEF HeldIn, NewClass
<1> QED
  BY <1>1, <1>3, <1>4 DEF HeldIn, NewClass

LEMMA HeldMark ==
    ASSUME NEW old, NEW db, NEW new, NEW E, NEW M, NEW f, NEW crowded, NEW key,
           HeldIn(old, db, E, M, f, crowded), db.rows["EqClass"] # Absent,
           new.rows["EqClass"] = Marked(db.rows["EqClass"], key),
           new.rows["Node"] = db.rows["Node"], new.damaged = db.damaged
    PROVE  HeldIn(old, new, E, M, f, crowded)
<1> PICK C : C = db.rows["EqClass"]
  OBVIOUS
<1>1. ClassesIn(db) = C /\ ClassesIn(new) = Marked(C, key)
  BY NotNoneMarked DEF ClassesIn, HeldIn
<1>2. MayLose(new, crowded) = MayLose(db, crowded)
  BY DEF MayLose
<1>3. NotNone(Marked(C, key)) /\ Grown(ClassesIn(old), Marked(C, key))
  BY <1>1, NotNoneMarked, GrownMark DEF HeldIn
<1>4. "Node" \notin new.damaged /\ new.rows["Node"] # Absent =>
          FitRows(Marked(C, key), new.rows["Node"], E, M, MayLose(new, crowded))
  BY <1>1, <1>2, FitMark DEF HeldIn
<1>5. Marked({}, key) = {}
  BY DEF Marked
<1> QED
  BY <1>1, <1>3, <1>4, <1>5 DEF HeldIn

LEMMA HeldTorn ==
    ASSUME NEW old, NEW new, NEW db, NEW E, NEW M, NEW f, NEW crowded \in BOOLEAN,
           HeldIn(old, new, E, M, f, crowded), MatchIn(old, crowded),
           db.rows["EqClass"] = new.rows["EqClass"], db.rows["Node"] = old.rows["Node"],
           "EqClass" \in db.damaged, "Node" \in old.damaged => "Node" \in db.damaged
    PROVE  MatchIn(db, crowded)
<1>1. ClassesIn(db) = ClassesIn(new) /\ MayLose(db, crowded) = TRUE
  BY DEF ClassesIn, MayLose
<1>2. CASE "Node" \notin db.damaged /\ db.rows["Node"] # Absent
  <2> PICK C, D, N : C = ClassesIn(old) /\ D = ClassesIn(new) /\ N = db.rows["Node"]
    OBVIOUS
  <2> PICK lost \in BOOLEAN : lost = MayLose(old, crowded)
    BY MayLoseType
  <2>1. FitRows(C, N, {}, {}, lost) /\ Grown(C, D)
    BY <1>2, FitIs DEF MatchIn, HeldIn
  <2>2. FitRows(D, N, {}, {}, TRUE)
    BY <2>1, FitTorn
  <2> QED
    BY <1>1, <2>2, FitIs DEF MatchIn
<1> QED
  BY <1>2, FitIs DEF MatchIn

-----------------------------------------------------------------------------
(* A result in the file *)

\* Only the one who stores a result works on its tables.
LEMMA OfResult ==
    ASSUME NEW p \in Processes, Inv, Alive(p), NEW s \in Left(p), s.table \in ResultTables,
           s.op \in {"drop", "create", "prepare", "insert", "update"}
    PROVE  Filling(p) /\ result[p] \in Results \ {None}
<1>1. ScriptOK(p) /\ MemoryOK(p)
  BY DEF Inv, Shape, ProcessOK
<1>2. StatementOK(p, s) /\ s.table \in Hands(p)
  BY <1>1 DEF ScriptOK, StatementOK
<1>3. phase[p] # "exit"
  BY <1>1, EmptyRange DEF ScriptOK, Left
<1>4. phase[p] = "report"
  BY <1>2, <1>3 DEF StatementOK, Hands, Compares, Alive, Busy, ResultTables, ReportTables
<1>5. conf[p].mode = "fuzzy" /\ conf[p].out /\ result[p] # None
  BY <1>2 DEF Hands, Compares, ResultTables, ReportTables
<1>6. result[p] \in Results
  BY <1>1, <1>4, <1>5 DEF MemoryOK
<1> QED
  BY <1>4, <1>5, <1>6 DEF Filling, Storing

InsertsNothing ==
    \A p \in Processes : Alive(p) /\ ~Filling(p) =>
        \A t \in ResultTables : ToInsert(p, t) = {}

LEMMA NothingToInsert == Inv => InsertsNothing
<1> SUFFICES ASSUME Inv, NEW p \in Processes, Alive(p), ~Filling(p), NEW t \in ResultTables
             PROVE  ToInsert(p, t) = {}
  BY DEF InsertsNothing
<1>1. \A s \in Left(p) : ~(s.op = "insert" /\ s.table = t)
  BY OfResult
<1> QED
  BY <1>1 DEF ToInsert

LEMMA NothingToInsertNext == Inv' => InsertsNothing'
<1>1. Inv => InsertsNothing
  BY NothingToInsert
<1> QED
  BY <1>1, PTL

LEMMA CountRows ==
    ASSUME NEW res \in Results \ {None}, NEW c
    PROVE  Cardinality({n \in NodeRows(res) : n.val = c}) = NumNodes(res, c)
<1> DEFINE S == {n \in DOMAIN res.class : res.class[n] = c}
           T == {n \in NodeRows(res) : n.val = c}
           f == [n \in S |-> Row(n, c)]
<1>1. IsFiniteSet(DOMAIN res.class)
  BY ResultsAssumption
<1>2. IsFiniteSet(S)
  BY <1>1, FS_Subset
<1>3. \A n \in S : f[n] \in T
  BY RowFields DEF NodeRows
<1>4. \A t \in T : \E n \in S : f[n] = t
  BY RowFields DEF NodeRows
<1>5. \A m, n \in S : f[m] = f[n] => m = n
  BY RowFields
<1>6. f = [n \in S |-> f[n]]
  OBVIOUS
<1> HIDE DEF f, S, T
<1>7. f \in Bijection(S, T)
  BY <1>3, <1>4, <1>5, <1>6 DEF Bijection, Injection, Surjection, IsInjective
<1>8. Cardinality(T) = Cardinality(S)
  BY <1>2, <1>7, FS_Bijection DEF ExistsBijection
<1> QED
  BY <1>8 DEF S, T, NumNodes

LEMMA ResultFacts ==
    ASSUME NEW res \in Results \ {None}
    PROVE  /\ \A n \in NodeRows(res) : n.val \in Keys(ClassRows(res)) /\ n # None
           /\ \A r \in ClassRows(res) :
                  /\ r # None /\ Row(r.key, <<r.val[1], TRUE>>) # None
                  /\ NodeRows(res) # {}
                  /\ Cardinality({n \in NodeRows(res) : n.val = r.key}) = r.val[1]
<1>1. ASSUME NEW n \in NodeRows(res)
      PROVE  n.val \in Keys(ClassRows(res)) /\ n # None
  <2>1. PICK m \in DOMAIN res.class : n = Row(m, res.class[m])
    BY DEF NodeRows
  <2>2. PICK c \in Range(res.class) : c = res.class[m]
    BY DEF Range
  <2>3. Row(c, <<NumNodes(res, c), FALSE>>) \in ClassRows(res)
    BY DEF ClassRows
  <2>4. n.val = c /\ c \in Keys(ClassRows(res))
    BY <2>1, <2>2, <2>3, RowFields DEF Keys
  <2> QED
    BY <2>4, NoneAssumption
<1>2. ASSUME NEW r \in ClassRows(res)
      PROVE  /\ r # None /\ Row(r.key, <<r.val[1], TRUE>>) # None
             /\ NodeRows(res) # {}
             /\ Cardinality({n \in NodeRows(res) : n.val = r.key}) = r.val[1]
  <2>1. PICK c \in Range(res.class) : r = Row(c, <<NumNodes(res, c), FALSE>>)
    BY DEF ClassRows
  <2>2. r.key = c /\ r.val[1] = NumNodes(res, c)
    BY <2>1, RowFields
  <2>3. /\ Row(c, <<NumNodes(res, c), TRUE>>) # None
        /\ Row(c, <<NumNodes(res, c), FALSE>>) # None
    <3>1. \A b \in BOOLEAN : Row(c, <<NumNodes(res, c), b>>) # None
      BY NoneAssumption
    <3>2. TRUE \in BOOLEAN /\ FALSE \in BOOLEAN
      OBVIOUS
    <3> QED
      BY <3>1, <3>2, Zenon
  <2>4. NodeRows(res) # {}
    BY DEF NodeRows, Range
  <2> QED
    BY <2>1, <2>2, <2>3, <2>4, CountRows
<1> QED
  BY <1>1, <1>2

\* A process that is past its analysis keeps its result and what it has done.
LEMMA PlanKept ==
    ASSUME NEW p \in Processes, Inv, Main(p) \/ Execute(p) \/ Die(p),
           phase[p] \notin {"start", "open"}
    PROVE  /\ phase'[p] \notin {"start", "open"} /\ conf'[p] = conf[p] /\ result'[p] = result[p]
           /\ Drop("Node") \in Left(p)' => Drop("Node") \in Left(p)
<1>1. MapsOK
  BY DEF Inv, Shape
<1>2. Start(p) \/ Analyse(p) => FALSE
  BY AnalyseEffect DEF Start
<1>3. CASE Finalize(p)
  <2>1. /\ phase'[p] = "finalize" /\ conf' = conf /\ result' = result
        /\ script'[p] = If(conf[p].dumps, StoreCksums(cache[p]))
    BY <1>1, <1>3 DEF Finalize, memory, MapsOK, IsMap
  <2> PICK rows : rows = cache[p]
    OBVIOUS
  <2>2. IsCache(cache[p])
    BY Zenon DEF Inv, Shape, MemoryOK
  <2>3. Left(p)' = {} \/ Left(p)' = CacheStatements(rows)
    BY <2>1, <2>2, CacheScript, EmptyRange DEF Left, If
  <2>4. Drop("Node") \notin CacheStatements(rows)
    BY CacheFacts, StatementFacts
  <2> QED
    BY <2>1, <2>3, <2>4
<1>4. CASE Exit(p)
  BY <1>1, <1>4 DEF Exit, memory, MapsOK, IsMap, Left
<1>5. CASE BeginTransaction(p) \/ Autocommit(p) \/ WriteInTransaction(p)
           \/ CommitTransaction(p) \/ PrepareStmt(p) \/ PrintToStdout(p)
  <2>1. Todo(p) /\ Done(p) /\ phase' = phase /\ conf' = conf /\ result' = result
    BY <1>5 DEF BeginTransaction, Autocommit, WriteInTransaction, CommitTransaction,
                PrepareStmt, PrintToStdout, memory
  <2>2. Left(p) = {Step(p)} \cup Left(p)'
    BY <2>1, StatementStep
  <2> QED
    BY <2>1, <2>2
<1>6. BeginRead(p) \/ ReadRow(p) \/ EndRead(p) => FALSE
  BY ReadsOpen
<1>7. CASE Die(p)
  BY <1>1, <1>7, DeathEffect DEF Left
<1> QED
  BY <1>2, <1>3, <1>4, <1>5, <1>6, <1>7 DEF Main, Execute

LEMMA StoringGrows ==
    ASSUME NEW p \in Processes, Inv, Main(p) \/ Execute(p) \/ Die(p)
    PROVE  Storing \subseteq Storing' /\ Droppers \subseteq Droppers' /\ (Crowded => Crowded')
<1>1. \A q \in Processes \ {p} : SamePlan(q)
  BY MainMaps, ExecuteMaps, DeathEffect DEF Inv, Shape, Same
<1>2. \A q \in Processes : phase[q] \notin {"start", "open"} =>
          /\ phase'[q] \notin {"start", "open"} /\ conf'[q] = conf[q] /\ result'[q] = result[q]
          /\ Drop("Node") \in Left(q)' => Drop("Node") \in Left(q)
  BY <1>1, PlanKept DEF SamePlan, Left
<1>3. Storing \subseteq Storing' /\ Droppers \subseteq Droppers'
  BY <1>2 DEF Storing, Droppers
<1> QED
  BY <1>3 DEF Crowded

-----------------------------------------------------------------------------
(* Its script *)

LEMMA AheadOthers ==
    ASSUME NEW p \in Processes, NEW q \in Processes \ {p}, Inv, ResultAhead(q),
           Main(p) \/ Execute(p) \/ Die(p)
    PROVE  ResultAhead(q)'
<1>1. SamePlan(q)
  BY MainMaps, ExecuteMaps, DeathEffect DEF Inv, Shape, Same
<1>2. /\ (Filling(q)' <=> Filling(q)) /\ Left(q)' = Left(q) /\ result'[q] = result[q]
      /\ \A t : ToInsert(q, t)' = ToInsert(q, t)
  BY <1>1 DEF SamePlan, Filling, Storing, Left, ToInsert
<1>3. writer = q => writer' = writer
  BY WriterAlone, NoneAssumption
<1> QED
  BY <1>2, <1>3 DEF ResultAhead

LEMMA AnalysedAnew ==
    ASSUME NEW p \in Processes, Inv, Analyse(p), Filling(p)'
    PROVE  /\ result'[p] \in Results \ {None}
           /\ Left(p)' = FuzzyStatements(result'[p])
           /\ Drop("EqClass") \in Left(p)'
<1>1. MapsOK
  BY DEF Inv, Shape
<1> PICK res : res = result'[p]
  OBVIOUS
<1>2. script'[p] = Output(conf[p], res) /\ conf' = conf
  <2>1. /\ conf' = conf
        /\ \E r : /\ result' = [result EXCEPT ![p] = r]
                  /\ script' = [script EXCEPT ![p] = Output(conf[p], r)]
    BY Zenon DEF Analyse
  <2> QED
    BY <1>1, <2>1 DEF MapsOK, IsMap
<1>3. conf[p].mode = "fuzzy" /\ conf[p].out /\ res # None
  BY <1>2 DEF Filling, Storing
<1>4. script'[p] = CreateResultsDatabase \o DumpFuzzyDedupRes(res)
                       \o DumpInterestingEqClasses(res)
  BY <1>2, <1>3 DEF Output, If
<1>5. res \in Results
  <2>1. conf[p].mode = "fuzzy" => \E r \in Results : result' = [result EXCEPT ![p] = r]
    BY Zenon DEF Analyse
  <2> QED
    BY <1>1, <1>3, <2>1 DEF MapsOK, IsMap
<1>6. Left(p)' = FuzzyStatements(res)
  BY <1>3, <1>4, <1>5, FuzzyScript DEF Left
<1>7. \A t \in ResultTables : Drop(t) \in FuzzyStatements(res)
  BY FuzzyFacts
<1> QED
  BY <1>3, <1>5, <1>6, <1>7 DEF ResultTables

LEMMA AheadMain ==
    ASSUME NEW p \in Processes, Inv, Main(p)
    PROVE  ResultAhead(p)'
<1>1. MapsOK
  BY DEF Inv, Shape
<1>2. CASE Start(p) \/ Finalize(p) \/ Exit(p)
  <2>1. phase'[p] \in {"open", "finalize", "exit"}
    BY <1>1, <1>2 DEF Start, Finalize, Exit, MapsOK, IsMap
  <2> QED
    BY <2>1 DEF ResultAhead, Filling
<1>3. CASE Analyse(p)
  <2> SUFFICES ASSUME Filling(p)'
               PROVE  ResultAhead(p)'
    BY DEF ResultAhead
  <2> PICK res : res = result'[p]
    OBVIOUS
  <2>1. res \in Results \ {None} /\ Left(p)' = FuzzyStatements(res)
    BY <1>3, AnalysedAnew
  <2>2. /\ RowsOf(FuzzyStatements(res), "EqClass") = ClassRows(res)
        /\ RowsOf(FuzzyStatements(res), "Node") = NodeRows(res)
        /\ \A t \in ResultTables : Drop(t) \in FuzzyStatements(res)
    BY FuzzyFacts
  <2>3. /\ ToInsert(p, "EqClass")' = ClassRows(res) /\ ToInsert(p, "Node")' = NodeRows(res)
        /\ Drop("EqClass") \in Left(p)'
    BY <2>1, <2>2, RowsLeft DEF ResultTables
  <2> QED
    BY <2>3 DEF ResultAhead
<1> QED
  BY <1>2, <1>3 DEF Main

\* A statement that is executed in the phase of the report
LEMMA AheadStatement ==
    ASSUME NEW p \in Processes, Inv, ResultAhead(p), Filling(p), Todo(p), Done(p),
           result'[p] = result[p], Step(p).op \in Names
    PROVE  /\ Drop("Node") \in Left(p)' => Drop("EqClass") \in Left(p)'
           /\ ToInsert(p, "EqClass")' \subseteq ClassRows(result'[p])
           /\ ToInsert(p, "Node")' \subseteq NodeRows(result'[p])
           /\ ToInsert(p, "EqClass")' # {} => ToInsert(p, "Node")' = NodeRows(result'[p])
<1> PICK s : s = Step(p)
  OBVIOUS
<1>1. /\ Left(p) = {s} \cup Left(p)' /\ \A y \in Left(p)' : Follows(y, s)
      /\ \A t : t # s.table \/ s.op # "insert" => ToInsert(p, t)' = ToInsert(p, t)
      /\ \A t : t = s.table /\ s.op = "insert" => ToInsert(p, t) = ToInsert(p, t)' \cup {s.row}
  BY StatementStep
<1>2. Drop("Node") \in Left(p)' => Drop("EqClass") \in Left(p)'
  <2> SUFFICES ASSUME Drop("Node") \in Left(p)', Drop("EqClass") \notin Left(p)'
               PROVE  FALSE
    OBVIOUS
  <2>1. s = Drop("EqClass")
    BY <1>1 DEF ResultAhead
  <2>2. /\ Drop("Node").op = "drop" /\ Drop("Node").table = "Node"
        /\ s.op = "drop" /\ s.table = "EqClass"
    BY <2>1, StatementFacts
  <2>3. Level(Drop("Node")) = 0 /\ Level(s) = 1
    BY <2>2 DEF Level
  <2> QED
    BY <1>1, <2>2, <2>3 DEF Follows, Writes
<1>3. /\ ToInsert(p, "EqClass")' \subseteq ToInsert(p, "EqClass")
      /\ ToInsert(p, "Node")' \subseteq ToInsert(p, "Node")
  BY <1>1
<1>4. ASSUME ToInsert(p, "EqClass")' # {}
      PROVE  ToInsert(p, "Node")' = NodeRows(result[p])
  <2>1. s.op = "insert" => s.table # "Node"
    <3> SUFFICES ASSUME s.op = "insert", s.table = "Node"
                 PROVE  FALSE
      OBVIOUS
    <3>1. PICK y \in Left(p)' : y.op = "insert" /\ y.table = "EqClass"
      BY <1>4 DEF ToInsert
    <3>2. Level(y) = 3 /\ Level(s) = 4
      BY <3>1 DEF Level
    <3> QED
      BY <1>1, <3>1, <3>2 DEF Follows, Writes
  <2>2. ToInsert(p, "Node")' = ToInsert(p, "Node")
    BY <1>1, <2>1
  <2> QED
    BY <1>3, <1>4, <2>2 DEF ResultAhead
<1> QED
  BY <1>2, <1>3, <1>4 DEF ResultAhead

LEMMA AheadExecute ==
    ASSUME NEW p \in Processes, Inv, ResultAhead(p), Execute(p)
    PROVE  ResultAhead(p)'
<1> SUFFICES ASSUME Filling(p)'
             PROVE  ResultAhead(p)'
  BY DEF ResultAhead
<1>1. phase' = phase /\ conf' = conf /\ result' = result
  BY DEF Execute, BeginTransaction, Autocommit, WriteInTransaction, CommitTransaction,
         PrepareStmt, PrintToStdout, BeginRead, ReadRow, EndRead, memory
<1>2. Filling(p) /\ phase[p] # "open"
  BY <1>1 DEF Filling, Storing
<1>3. ~BeginRead(p) /\ ~ReadRow(p) /\ ~EndRead(p)
  BY <1>2, ReadsOpen
<1>4. Todo(p) /\ Done(p)
  BY <1>3 DEF Execute, BeginTransaction, Autocommit, WriteInTransaction, CommitTransaction,
              PrepareStmt, PrintToStdout
<1>5. Step(p).op \in Names
  BY <1>4, TodoFacts DEF StatementOK
<1>6. /\ Drop("Node") \in Left(p)' => Drop("EqClass") \in Left(p)'
      /\ ToInsert(p, "EqClass")' \subseteq ClassRows(result'[p])
      /\ ToInsert(p, "Node")' \subseteq NodeRows(result'[p])
      /\ ToInsert(p, "EqClass")' # {} => ToInsert(p, "Node")' = NodeRows(result'[p])
  BY <1>1, <1>2, <1>4, <1>5, AheadStatement
<1>7. ASSUME writer' # p
      PROVE  \/ ToInsert(p, "EqClass")' = {} /\ ToInsert(p, "Node")' = {}
             \/ /\ ToInsert(p, "EqClass")' = ClassRows(result'[p])
                /\ ToInsert(p, "Node")' = NodeRows(result'[p])
  <2>1. \A t : t # Step(p).table \/ Step(p).op # "insert" => ToInsert(p, t)' = ToInsert(p, t)
    BY <1>4, StatementStep
  <2>2. CASE CommitTransaction(p)
    <3>1. Step(p).op # "insert" /\ \A t : ToInsert(p, t) = {}
      BY <2>2, CommitStep
    <3> QED
      BY <2>1, <3>1
  <2>3. CASE ~CommitTransaction(p)
    <3>1. ~WriteInTransaction(p)
      BY <1>7 DEF WriteInTransaction
    <3>2. Step(p).op # "insert"
      BY <1>3, <2>3, <3>1, AutocommitStep
        DEF Execute, BeginTransaction, PrepareStmt, PrintToStdout
    <3>3. writer = p => writer' = p
      <4>1. ~Autocommit(p) \/ writer = None
        BY DEF Autocommit
      <4> QED
        BY <2>3, <3>1, <4>1, QuietStep, NoneAssumption
          DEF Execute, BeginTransaction, PrepareStmt, PrintToStdout, BeginRead, ReadRow,
              EndRead, file
    <3> QED
      BY <1>1, <1>2, <1>7, <2>1, <3>2, <3>3 DEF ResultAhead
  <2> QED
    BY <2>2, <2>3
<1> QED
  BY <1>6, <1>7 DEF ResultAhead

LEMMA AheadStep ==
    ASSUME NEW p \in Processes, Inv, \A q \in Processes : ResultAhead(q),
           Main(p) \/ Execute(p) \/ Die(p), NEW q \in Processes
    PROVE  ResultAhead(q)'
<1>1. CASE q # p
  BY <1>1, AheadOthers
<1>2. CASE q = p /\ (Main(p) \/ Execute(p))
  BY <1>2, AheadMain, AheadExecute
<1>3. CASE q = p /\ Die(p)
  <2>1. phase'[p] \in {"refused", "died"}
    BY <1>3, DeathEffect DEF Inv, Shape
  <2> QED
    BY <1>3, <2>1 DEF ResultAhead, Filling
<1> QED
  BY <1>1, <1>2, <1>3

-----------------------------------------------------------------------------
(* Its transaction *)

LEMMA FillingFacts ==
    ASSUME NEW p \in Processes, Inv, Filling(p)
    PROVE  result[p] \in Results \ {None} /\ Alive(p)
<1>1. result[p] # None /\ conf[p].mode = "fuzzy" /\ phase[p] = "report"
  BY DEF Filling, Storing
<1>2. MemoryOK(p)
  BY DEF Inv, Shape
<1>3. result[p] # None => result[p] \in IF conf[p].mode = "fuzzy" THEN Results ELSE Reports
  BY <1>2, Zenon DEF MemoryOK
<1> QED
  BY <1>1, <1>3 DEF Alive, Busy

LEMMA HeldView ==
    ASSUME NEW p \in Processes, Inv, ResultsOK, MatchIn(disk, Crowded), Alive(p),
           writer \in {None, p}
    PROVE  HeldIn(disk, View(p), ToInsert(p, "EqClass"), ToInsert(p, "Node"), Filling(p), Crowded)
<1>1. CASE writer = p
  BY <1>1, NoneAssumption DEF ResultsOK, ResultHeld, View
<1>2. CASE writer # p
  <2>1. View(p) = disk
    BY <1>2 DEF View
  <2>2. \A n \in ToInsert(p, "Node") : n.val \in Keys(ToInsert(p, "EqClass"))
    <3>1. CASE Filling(p)
      <4>1. ResultAhead(p) /\ result[p] \in Results \ {None}
        BY <3>1, FillingFacts DEF ResultsOK
      <4> QED
        BY <1>2, <3>1, <4>1, ResultFacts DEF ResultAhead
    <3>2. CASE ~Filling(p)
      BY <3>2, NothingToInsert DEF InsertsNothing, ResultTables
    <3> QED
      BY <3>1, <3>2
  <2> QED
    BY <2>1, <2>2, HeldStart DEF ResultsOK
<1> QED
  BY <1>1, <1>2

LEMMA HeldWrite ==
    ASSUME NEW p \in Processes, Inv, ResultsOK, MatchIn(disk, Crowded), WriteInTransaction(p)
    PROVE  ResultHeld(p)'
<1> PICK s : s = Step(p)
  OBVIOUS
<1> PICK db, new : db = View(p) /\ new = work'
  OBVIOUS
<1> PICK E, M, F, N : /\ E = ToInsert(p, "EqClass") /\ F = ToInsert(p, "EqClass")'
                      /\ M = ToInsert(p, "Node") /\ N = ToInsert(p, "Node")'
  OBVIOUS
<1>1. /\ Todo(p) /\ Done(p) /\ writer \in {None, p} /\ disk' = disk
      /\ IsDb(db) /\ new = Apply(db, s) /\ ~Refuses(db.rows, s) /\ Writes(s)
      /\ StatementOK(p, s) /\ s.table \in Tables
      /\ s.op \in {"drop", "create"} => s.table \in ReportTables
      /\ phase'[p] = phase[p] /\ conf'[p] = conf[p] /\ result'[p] = result[p]
  BY WriteStep
<1>2. Alive(p) /\ s \in Left(p)
  BY <1>1, TodoFacts
<1>3. HeldIn(disk, db, E, M, Filling(p), Crowded)
  BY <1>1, <1>2, HeldView
<1>4. /\ \A t : t # s.table \/ s.op # "insert" => ToInsert(p, t)' = ToInsert(p, t)
      /\ \A t : t = s.table /\ s.op = "insert" => ToInsert(p, t) = ToInsert(p, t)' \cup {s.row}
      /\ \A y \in Left(p)' : Follows(y, s)
  BY <1>1, StatementStep
<1>5. /\ \A t \in Tables \ {s.table} : /\ new.rows[t] = db.rows[t]
                                       /\ t \in new.damaged <=> t \in db.damaged
      /\ s.op = "insert" => new.rows[s.table] = db.rows[s.table] \cup {s.row}
      /\ s.op # "drop" => new.damaged = db.damaged
  BY <1>1, ApplyFacts
<1>6. (Filling(p)' <=> Filling(p)) /\ Crowded \in BOOLEAN /\ Crowded' \in BOOLEAN
      /\ Filling(p) \in BOOLEAN /\ Filling(p)' \in BOOLEAN
  BY <1>1 DEF Filling, Storing, Crowded
<1>7. Crowded => Crowded'
  BY StoringGrows DEF Execute
<1>8. "EqClass" \in Tables /\ "Node" \in Tables
  BY DEF Tables
<1>9. HeldIn(disk, new, F, N, Filling(p), Crowded)
  <2>1. CASE s.table \notin ResultTables
    <3>1. F = E /\ N = M
      BY <1>4, <2>1 DEF ResultTables
    <3>2. SameResult(db, new)
      BY <1>5, <1>8, <2>1 DEF SameResult, ResultTables
    <3> QED
      BY <1>3, <1>6, <3>1, <3>2, HeldSame
  <2>2. CASE s.table \in ResultTables
    <3>1. s.op \in {"insert", "update"}
      BY <1>1, <2>2 DEF Writes, ResultTables, ReportTables
    <3>2. Filling(p) /\ result[p] \in Results \ {None} /\ ResultAhead(p)
      BY <1>2, <2>2, <3>1, OfResult DEF ResultsOK
    <3> PICK res \in Results \ {None} : res = result[p]
      BY <3>2
    <3>3. E \subseteq ClassRows(res) /\ M \subseteq NodeRows(res) /\ (E # {} => M = NodeRows(res))
      BY <3>2 DEF ResultAhead
    <3>4. CASE s.op = "insert" /\ s.table = "Node"
      <4> PICK row : row = s.row
        OBVIOUS
      <4>1. M = N \cup {row} /\ F = E /\ row \in NodeRows(res)
        BY <1>4, <3>3, <3>4
      <4>2. E = {}
        <5> SUFFICES ASSUME F # {} PROVE FALSE
          BY <4>1
        <5>1. PICK y \in Left(p)' : y.op = "insert" /\ y.table = "EqClass"
          BY DEF ToInsert
        <5>2. Level(y) = 3 /\ Level(s) = 4
          BY <3>4, <5>1 DEF Level
        <5> QED
          BY <1>4, <3>4, <5>1, <5>2 DEF Follows, Writes
      <4>3. /\ db.rows["Node"] # Absent /\ db.rows["EqClass"] # Absent
            /\ row.val \in Keys(db.rows["EqClass"])
        BY <1>1, <3>4 DEF Refuses
      <4>4. ClassesIn(db) = db.rows["EqClass"] /\ row # None
        BY <4>1, <4>3, ResultFacts DEF ClassesIn
      <4>5. /\ new.rows["Node"] = db.rows["Node"] \cup {row}
            /\ new.rows["EqClass"] = db.rows["EqClass"] /\ new.damaged = db.damaged
        BY <1>5, <1>8, <3>4
      <4>6. HeldIn(disk, db, {}, M, Filling(p), Crowded) /\ row.val \in Keys(ClassesIn(db))
        BY <1>3, <4>2, <4>3, <4>4
      <4>7. HeldIn(disk, new, {}, N, Filling(p), Crowded)
        BY <4>1, <4>3, <4>4, <4>5, <4>6, HeldNode
      <4> QED
        BY <4>1, <4>2, <4>7
    <3>5. CASE s.op = "insert" /\ s.table = "EqClass"
      <4> PICK row : row = s.row
        OBVIOUS
      <4>1. E = F \cup {row} /\ N = M
        BY <1>4, <3>5
      <4>2. M = NodeRows(res) /\ row \in ClassRows(res)
        BY <3>3, <4>1
      <4>3. /\ row # None /\ Row(row.key, <<row.val[1], TRUE>>) # None /\ M # {}
            /\ Cardinality({n \in M : n.val = row.key}) = row.val[1]
        BY <4>2, ResultFacts
      <4>4. db.rows["EqClass"] # Absent /\ row.key \notin Keys(db.rows["EqClass"])
        BY <1>1, <3>5 DEF Refuses, Unique, Tables
      <4>5. row.key \notin Keys(F)
        <5> SUFFICES ASSUME NEW r \in F PROVE r.key # row.key
          BY DEF Keys
        <5>1. PICK y \in Left(p)' : y.op = "insert" /\ y.table = "EqClass" /\ y.row = r
          BY DEF ToInsert
        <5>2. Follows(y, s) /\ "EqClass" \in Unique
          BY <1>4 DEF Unique, Tables
        <5> QED
          BY <3>5, <5>1, <5>2 DEF Follows
      <4>6. /\ new.rows["EqClass"] = db.rows["EqClass"] \cup {row}
            /\ new.rows["Node"] = db.rows["Node"] /\ new.damaged = db.damaged
        BY <1>5, <1>8, <3>5
      <4>7. HeldIn(disk, db, E, M, TRUE, Crowded) /\ Filling(p) = TRUE
        BY <1>3, <1>6, <3>2
      <4>8. NewClass(row, F, M) /\ row # None
        BY <4>3, <4>5 DEF NewClass
      <4>9. HeldIn(disk, new, F, M, TRUE, Crowded)
        BY <4>1, <4>4, <4>6, <4>7, <4>8, HeldClass
      <4> QED
        BY <4>1, <4>7, <4>9
    <3>6. CASE s.op = "update"
      <4>1. s.table = "EqClass" /\ db.rows["EqClass"] # Absent
        <5>1. s.table = "EqClass"
          BY <1>1, <3>6, StatementFacts DEF StatementOK
        <5> QED
          BY <1>1, <3>6, <5>1 DEF Refuses
      <4>2. F = E /\ N = M
        BY <1>4, <3>6
      <4>3. new.rows["EqClass"] = Marked(db.rows["EqClass"], s.row)
        <5>1. new = [db EXCEPT !.rows = [db.rows EXCEPT !["EqClass"] =
                                             Marked(db.rows["EqClass"], s.row)]]
          BY <1>1, <3>6, <4>1 DEF Apply
        <5>2. /\ db = [rows |-> db.rows, damaged |-> db.damaged]
              /\ db.rows = [t \in Tables |-> db.rows[t]]
          BY <1>1, DbParts
        <5> QED
          BY <1>8, <5>1, <5>2
      <4>4. new.rows["Node"] = db.rows["Node"] /\ new.damaged = db.damaged
        BY <1>5, <1>8, <3>6, <4>1
      <4> QED
        BY <1>3, <4>1, <4>2, <4>3, <4>4, HeldMark
    <3> QED
      BY <2>2, <3>1, <3>4, <3>5, <3>6 DEF ResultTables
  <2> QED
    BY <2>1, <2>2
<1>10. HeldIn(disk, new, F, N, Filling(p), Crowded')
  BY <1>6, <1>7, <1>9, HeldGrows
<1>11. Filling(p)' = Filling(p)
  BY <1>6
<1> QED
  BY <1>1, <1>10, <1>11 DEF ResultHeld

LEMMA HeldStep ==
    ASSUME NEW p \in Processes, Inv, Inv', ResultsOK, MatchIn(disk, Crowded),
           Main(p) \/ Execute(p) \/ Die(p), NEW q \in Processes, writer' = q
    PROVE  ResultHeld(q)'
<1>1. CASE WriteInTransaction(p)
  <2>1. q = p
    BY <1>1 DEF WriteInTransaction
  <2> QED
    BY <1>1, <2>1, HeldWrite
<1>2. CASE ~WriteInTransaction(p)
  <2>1. q # None
    BY NoneAssumption
  <2>2. ~Autocommit(p) /\ ~(CommitTransaction(p) /\ writer = p) /\ ~(Die(p) /\ writer = p)
    BY <2>1 DEF Autocommit, CommitTransaction, Die
  <2>3. UNCHANGED <<disk, writer, work>>
    BY <1>2, <2>2, QuietStep
  <2>4. writer = q /\ ResultHeld(q) /\ begun[q] /\ begun'[q]
    BY <2>1, <2>3 DEF ResultsOK, Inv, Shape, FilesOK
  <2>5. /\ Crowded \in BOOLEAN /\ Crowded' \in BOOLEAN /\ (Crowded => Crowded')
    BY StoringGrows DEF Crowded
  <2>6. /\ ToInsert(q, "EqClass")' = ToInsert(q, "EqClass")
        /\ ToInsert(q, "Node")' = ToInsert(q, "Node")
        /\ Filling(q)' = Filling(q)
    <3>1. Filling(q) \in BOOLEAN /\ Filling(q)' \in BOOLEAN
      BY DEF Filling
    <3>2. CASE q # p
      <4>1. SamePlan(q)
        BY <3>2, MainMaps, ExecuteMaps, DeathEffect DEF Inv, Shape, Same
      <4> QED
        BY <3>1, <4>1 DEF SamePlan, ToInsert, Left, Filling, Storing
    <3>3. CASE q = p /\ Main(p)
      <4>1. Shape /\ MapsOK /\ ProcessOK(p) /\ Busy(p)
        BY <2>4, <3>3, Zenon DEF Inv, Shape, MemoryOK
      <4>2. phase[p] # "start" /\ (script[p] = <<>> => phase[p] = "open" /\ Compares(p))
        BY <2>4, <3>3, <4>1, NothingLeft DEF Busy
      <4>3. Analyse(p)
        BY <3>3, <4>2 DEF Main, Start, Finalize, Exit
      <4>4. /\ phase[p] = "open" /\ phase'[p] = "report" /\ conf'[p] = conf[p] /\ Compares(p)
        BY <4>1, <4>2, <4>3, AnalyseEffect DEF MapsOK, IsMap
      <4>5. Alive(p) /\ ~Filling(p)
        BY <4>4 DEF Alive, Busy, Filling
      <4>6. Alive(p)' /\ ~Filling(p)'
        BY <4>4 DEF Alive, Busy, Filling, Storing, Compares
      <4>7. InsertsNothing /\ InsertsNothing'
        BY NothingToInsert, NothingToInsertNext
      <4>8. "EqClass" \in ResultTables /\ "Node" \in ResultTables
        BY DEF ResultTables
      <4>9. ToInsert(p, "EqClass") = {} /\ ToInsert(p, "Node") = {}
        BY <4>5, <4>7, <4>8 DEF InsertsNothing
      <4>10. ToInsert(p, "EqClass")' = {} /\ ToInsert(p, "Node")' = {}
        BY <4>6, <4>7, <4>8 DEF InsertsNothing
      <4> QED
        BY <3>1, <3>3, <4>5, <4>6, <4>9, <4>10
    <3>4. CASE q = p /\ Execute(p)
      <4>1. /\ BeginTransaction(p) \/ PrepareStmt(p) \/ PrintToStdout(p)
                   \/ BeginRead(p) \/ ReadRow(p) \/ EndRead(p)
        BY <1>2, <2>2, <2>4, <3>4 DEF Execute
      <4>2. /\ phase'[p] = phase[p] /\ conf'[p] = conf[p] /\ result'[p] = result[p]
        BY <4>1 DEF BeginTransaction, PrepareStmt, PrintToStdout, BeginRead, ReadRow, EndRead,
                    memory
      <4>3. \A t : ToInsert(p, t)' = ToInsert(p, t)
        BY <4>1, QuietPlan
      <4> QED
        BY <3>1, <3>4, <4>2, <4>3 DEF Filling, Storing
    <3>5. ~(q = p /\ Die(p))
      BY <2>2, <2>4
    <3> QED
      BY <3>2, <3>3, <3>4, <3>5
  <2> QED
    BY <2>3, <2>4, <2>5, <2>6, HeldGrows DEF ResultHeld
<1> QED
  BY <1>1, <1>2


-----------------------------------------------------------------------------
(* The file *)

\* A process comes to renew the results by dropping the table of the classes.
LEMMA RenewsBack ==
    ASSUME NEW p \in Processes, Inv, Main(p) \/ Execute(p) \/ Die(p), NEW r \in Processes,
           Renews(r)', r = p => ~(Autocommit(p) /\ Step(p) = Drop("EqClass"))
    PROVE  Renews(r)
<1>1. MapsOK
  BY DEF Inv, Shape
<1>2. CASE r # p
  <2>1. SamePlan(r)
    BY <1>1, <1>2, MainMaps, ExecuteMaps, DeathEffect DEF Same
  <2> QED
    BY <2>1 DEF SamePlan, Renews, Filling, Storing, Left
<1>3. CASE r = p /\ Main(p)
  <2>1. ~Start(p) /\ ~Finalize(p) /\ ~Exit(p)
    BY <1>1, <1>3 DEF Start, Finalize, Exit, MapsOK, IsMap, Renews, Filling
  <2>2. Analyse(p)
    BY <1>3, <2>1 DEF Main
  <2>3. Drop("EqClass") \in Left(p)'
    BY <1>3, <2>2, AnalysedAnew DEF Renews
  <2> QED
    BY <1>3, <2>3 DEF Renews
<1>4. CASE r = p /\ Execute(p)
  <2>1. phase' = phase /\ conf' = conf /\ result' = result
    BY <1>4 DEF Execute, BeginTransaction, Autocommit, WriteInTransaction, CommitTransaction,
                PrepareStmt, PrintToStdout, BeginRead, ReadRow, EndRead, memory
  <2>2. Filling(p) /\ phase[p] # "open"
    BY <1>4, <2>1 DEF Renews, Filling, Storing
  <2>3. ~BeginRead(p) /\ ~ReadRow(p) /\ ~EndRead(p)
    BY <2>2, ReadsOpen
  <2>4. Todo(p) /\ Done(p)
    BY <1>4, <2>3 DEF Execute, BeginTransaction, Autocommit, WriteInTransaction,
                      CommitTransaction, PrepareStmt, PrintToStdout
  <2>5. Left(p) = {Step(p)} \cup Left(p)'
    BY <2>4, StatementStep
  <2>6. Step(p) # Drop("EqClass")
    <3> SUFFICES ASSUME Step(p) = Drop("EqClass")
                 PROVE  FALSE
      OBVIOUS
    <3>1. Step(p).op = "drop" /\ Step(p).table = "EqClass"
      BY StatementFacts
    <3>2. WriteInTransaction(p)
      BY <1>4, <2>3, <3>1
        DEF Execute, BeginTransaction, CommitTransaction, PrepareStmt, PrintToStdout
    <3> QED
      BY <3>1, <3>2, WriteStep DEF ReportTables
  <2> QED
    BY <1>4, <2>2, <2>5, <2>6 DEF Renews
<1>5. CASE r = p /\ Die(p)
  <2>1. phase'[p] \in {"refused", "died"}
    BY <1>1, <1>5, DeathEffect
  <2> QED
    BY <1>5, <2>1 DEF Renews, Filling
<1> QED
  BY <1>2, <1>3, <1>4, <1>5

\* What a step leaves in the file
FileOK ==
    /\ NotNone(ClassesIn(disk)) /\ MatchIn(disk, Crowded)
    /\ \A r \in Processes : RenewOK(r)

LEMMA FileQuiet ==
    ASSUME NEW p \in Processes, Inv, FileOK, Main(p) \/ Execute(p) \/ Die(p),
           ~Autocommit(p), SameResult(disk, disk')
    PROVE  FileOK'
<1>1. /\ Crowded \in BOOLEAN /\ Crowded' \in BOOLEAN /\ (Crowded => Crowded')
      /\ Droppers \subseteq Droppers'
  BY StoringGrows DEF Crowded
<1>2. /\ ClassesIn(disk') = ClassesIn(disk) /\ disk'.rows["Node"] = disk.rows["Node"]
      /\ "EqClass" \in disk'.damaged <=> "EqClass" \in disk.damaged
  BY SameParts
<1>3. MatchIn(disk', Crowded')
  BY <1>1, MatchSame, MatchGrows DEF FileOK
<1>4. ASSUME NEW r \in Processes
      PROVE  RenewOK(r)'
  <2> SUFFICES ASSUME Renews(r)', ClassesIn(disk') # {}, "EqClass" \notin disk'.damaged
               PROVE  \E w \in Droppers' \ {r} :
                          \/ disk'.rows["Node"] # Absent
                          \/ \E q \in Droppers' : q # w /\ q # r
    BY DEF RenewOK, ClassesIn
  <2>1. Renews(r)
    BY RenewsBack
  <2>2. \E w \in Droppers \ {r} :
            disk.rows["Node"] # Absent \/ \E q \in Droppers : q # w /\ q # r
    BY <1>2, <2>1 DEF FileOK, RenewOK
  <2> QED
    BY <1>1, <1>2, <2>2
<1>5. NotNone(ClassesIn(disk'))
  BY <1>2 DEF FileOK
<1> QED
  BY <1>3, <1>4, <1>5 DEF FileOK, MatchIn, ClassesIn, MayLose


\* Outside a transaction the tables of a result are only dropped and created.
LEMMA FileAutocommit ==
    ASSUME NEW p \in Processes, Inv, ResultsOK, FileOK, Autocommit(p)
    PROVE  FileOK'
<1> PICK s : s = Step(p)
  OBVIOUS
<1>1. /\ Todo(p) /\ Done(p) /\ s.op \in {"drop", "create"} /\ s.table \in Tables \ ReportTables
      /\ disk' = Apply(disk, s) /\ Writes(s) /\ s \in Left(p) /\ Alive(p) /\ StatementOK(p, s)
      /\ ~Refuses(disk.rows, s) /\ IsDb(disk)
  BY AutocommitStep, TodoFacts DEF Autocommit, Inv, Shape, FilesOK
<1>2. /\ phase' = phase /\ conf' = conf /\ result' = result
      /\ Left(p) = {s} \cup Left(p)' /\ \A y \in Left(p)' : Follows(y, s)
  BY <1>1, StatementStep DEF Autocommit, memory
<1>3. /\ \A t \in Tables \ {s.table} : /\ disk'.rows[t] = disk.rows[t]
                                       /\ t \in disk'.damaged <=> t \in disk.damaged
      /\ s.op = "drop" => disk'.rows[s.table] = Absent
      /\ s.op = "create" => disk'.rows[s.table] = {} /\ disk'.damaged = disk.damaged
      /\ disk'.damaged \subseteq disk.damaged
  BY <1>1, ApplyFacts
<1>4. /\ Crowded \in BOOLEAN /\ Crowded' \in BOOLEAN /\ (Crowded => Crowded')
      /\ Droppers \subseteq Droppers'
  BY StoringGrows DEF Crowded, Execute
<1>5. "Node" \in Tables /\ "EqClass" \in Tables
  BY DEF Tables
<1>6. s.table \in {"Node", "EqClass", "FileList"}
  BY <1>1 DEF Tables, ReportTables, ResultTables
<1>7. CASE s.table = "FileList"
  <2>1. SameResult(disk, disk')
    BY <1>3, <1>5, <1>7 DEF SameResult, ResultTables
  <2>2. MatchIn(disk', Crowded') /\ ClassesIn(disk') = ClassesIn(disk)
    BY <1>4, <2>1, MatchSame, MatchGrows, SameParts DEF FileOK
  <2>3. ASSUME NEW r \in Processes, Renews(r)', ClassesIn(disk') # {},
               "EqClass" \notin disk'.damaged
        PROVE  \E w \in Droppers' \ {r} :
                   disk'.rows["Node"] # Absent \/ \E q \in Droppers' : q # w /\ q # r
    <3>1. s # Drop("EqClass")
      BY <1>7, StatementFacts
    <3>2. Renews(r)
      BY <2>3, <3>1, RenewsBack DEF Execute
    <3>3. \E w \in Droppers \ {r} :
              disk.rows["Node"] # Absent \/ \E q \in Droppers : q # w /\ q # r
      BY <1>3, <1>5, <1>7, <2>2, <2>3, <3>2 DEF FileOK, RenewOK
    <3> QED
      BY <1>3, <1>4, <1>5, <1>7, <3>3
  <2> QED
    BY <2>2, <2>3 DEF FileOK, RenewOK, MatchIn, MayLose, ClassesIn
<1>8. CASE s.table = "EqClass"
  <2>1. ClassesIn(disk') = {}
    BY <1>1, <1>3, <1>8 DEF ClassesIn
  <2>2. disk'.rows["Node"] = disk.rows["Node"] /\ ("Node" \in disk'.damaged <=> "Node" \in disk.damaged)
    BY <1>3, <1>5, <1>8
  <2>3. ASSUME "Node" \notin disk'.damaged, disk'.rows["Node"] # Absent
        PROVE  disk'.rows["Node"] = {}
    <3>1. \A n \in disk.rows["Node"] : n.val \in Keys(ClassesIn(disk))
      BY <2>2, <2>3, FitIs DEF FileOK, MatchIn, FitRows
    <3>2. CASE disk.rows["EqClass"] = Absent
      BY <2>2, <3>1, <3>2 DEF ClassesIn, Keys
    <3>3. CASE disk.rows["EqClass"] # Absent
      <4>1. s.op = "drop"
        BY <1>1, <1>8, <3>3 DEF Refuses
      <4>2. ~\E n \in disk.rows["Node"] : n.val \in Keys(disk.rows["EqClass"])
        BY <1>1, <1>8, <2>2, <2>3, <3>3, <4>1 DEF Refuses
      <4> QED
        BY <2>2, <3>1, <3>3, <4>2 DEF ClassesIn
    <3> QED
      BY <3>2, <3>3
  <2>4. MatchIn(disk', Crowded')
    <3>1. \A lost : FitRows({}, {}, {}, {}, lost)
      BY DEF FitRows
    <3> QED
      BY <2>1, <2>3, <3>1, FitIs DEF MatchIn
  <2> QED
    BY <2>1, <2>4 DEF FileOK, RenewOK, NotNone, MatchIn, MayLose, ClassesIn
<1>9. CASE s.table = "Node"
  <2>1. /\ disk'.rows["EqClass"] = disk.rows["EqClass"]
        /\ "EqClass" \in disk'.damaged <=> "EqClass" \in disk.damaged
        /\ ClassesIn(disk') = ClassesIn(disk)
    BY <1>3, <1>5, <1>9 DEF ClassesIn
  <2>2. Filling(p) /\ ResultAhead(p) /\ p \in Storing /\ p \in Storing'
    <3>1. Filling(p)
      BY <1>1, <1>9, OfResult DEF ResultTables
    <3> QED
      BY <1>2, <3>1 DEF Filling, Storing, ResultsOK
  <2>3. s # Drop("EqClass")
    BY <1>9, StatementFacts
  <2>4. ASSUME NEW r \in Processes, Renews(r), ClassesIn(disk) # {},
               "EqClass" \notin disk.damaged
        PROVE  \E w \in Droppers \ {r} :
                   disk.rows["Node"] # Absent \/ \E q \in Droppers : q # w /\ q # r
    BY <2>4 DEF FileOK, RenewOK
  <2>5. CASE s.op = "drop"
    <3>1. s = Drop("Node")
      BY <1>1, <1>9, <2>5 DEF StatementOK
    <3>2. p \notin Droppers /\ Drop("EqClass") \in Left(p)'
      BY <1>1, <1>2, <2>2, <2>3, <3>1 DEF Droppers, ResultAhead
    <3>3. p \in Droppers'
      BY <1>2, <2>2, <2>5, <3>1 DEF Droppers, Follows
    <3>4. ASSUME NEW r \in Processes, Renews(r)', ClassesIn(disk') # {},
                 "EqClass" \notin disk'.damaged
          PROVE  \E w \in Droppers' \ {r} : \E q \in Droppers' : q # w /\ q # r
      <4>1. Renews(r)
        BY <2>3, <3>4, RenewsBack DEF Execute
      <4>2. r # p
        BY <3>2, <3>4 DEF Renews
      <4>3. PICK w \in Droppers : w # r
        BY <2>1, <2>4, <3>4, <4>1
      <4> QED
        BY <1>4, <3>2, <3>3, <4>2, <4>3
    <3>5. disk'.rows["Node"] = Absent
      BY <1>3, <1>9, <2>5
    <3>6. MatchIn(disk', Crowded')
      BY <3>5, FitIs DEF MatchIn
    <3> QED
      BY <2>1, <3>4, <3>6 DEF FileOK, RenewOK, MatchIn, MayLose, ClassesIn
  <2>6. CASE s.op = "create"
    <3>1. /\ s = Create("Node") /\ disk.rows["Node"] = Absent /\ disk'.rows["Node"] = {}
          /\ {} # Absent /\ Create("Node") \notin Left(p)'
      BY <1>1, <1>2, <1>3, <1>9, <2>6 DEF StatementOK, Refuses, Follows, Absent
    <3>2. ASSUME NEW r \in Processes, Renews(r)', ClassesIn(disk') # {},
                 "EqClass" \notin disk'.damaged
          PROVE  \E w \in Droppers' \ {r} : disk'.rows["Node"] # Absent
      <4>1. Renews(r)
        BY <2>3, <3>2, RenewsBack DEF Execute
      <4> QED
        BY <1>4, <2>1, <2>4, <3>1, <3>2, <4>1
    <3>3. Renews(p)
      <4>1. Drop("EqClass") \notin Left(p)
        <5>1. /\ Drop("EqClass").op = "drop" /\ Drop("EqClass").table = "EqClass"
              /\ s.op = "create"
          BY <2>6, StatementFacts
        <5>2. Level(Drop("EqClass")) = 1 /\ Level(s) = 2
          BY <5>1 DEF Level
        <5> QED
          BY <1>2, <2>3, <5>1, <5>2 DEF Follows, Writes
      <4> QED
        BY <1>1, <2>2, <3>1, <4>1 DEF Renews
    <3>4. ASSUME ClassesIn(disk) # {}
          PROVE  MayLose(disk', Crowded') = TRUE
      <4>1. CASE "EqClass" \in disk.damaged
        BY <2>1, <4>1 DEF MayLose
      <4>2. CASE "EqClass" \notin disk.damaged
        <5>1. PICK w \in Droppers \ {p} : \E q \in Droppers : q # w /\ q # p
          BY <2>4, <3>1, <3>3, <3>4, <4>2
        <5>2. Crowded
          BY <2>2, <5>1 DEF Crowded, Droppers
        <5> QED
          BY <1>4, <5>2 DEF MayLose
      <4> QED
        BY <4>1, <4>2
    <3>5. MatchIn(disk', Crowded')
      <4>1. \A C, lost : (C # {} => lost) => FitRows(C, {}, {}, {}, lost)
        BY DEF FitRows, NodesOf
      <4> QED
        BY <2>1, <3>1, <3>4, <4>1, FitIs DEF MatchIn
    <3> QED
      BY <2>1, <3>2, <3>5 DEF FileOK, RenewOK, MatchIn, MayLose, ClassesIn
  <2> QED
    BY <1>1, <2>5, <2>6
<1> QED
  BY <1>6, <1>7, <1>8, <1>9


LEMMA FileCommit ==
    ASSUME NEW p \in Processes, Inv, ResultsOK, FileOK, CommitTransaction(p), writer = p
    PROVE  FileOK'
<1>1. /\ disk' = work /\ phase'[p] = phase[p] /\ conf'[p] = conf[p] /\ result'[p] = result[p]
      /\ \A t : Drop(t) \notin Left(p) /\ Create(t) \notin Left(p) /\ ToInsert(p, t) = {}
  BY CommitStep
<1>2. HeldIn(disk, work, {}, {}, Filling(p), Crowded)
  BY <1>1, NoneAssumption DEF ResultsOK, ResultHeld
<1>3. /\ Crowded \in BOOLEAN /\ Crowded' \in BOOLEAN /\ (Crowded => Crowded')
      /\ Droppers \subseteq Droppers'
  BY StoringGrows DEF Crowded, Execute
<1>4. NotNone(ClassesIn(disk')) /\ MatchIn(disk', Crowded')
  BY <1>1, <1>2, <1>3, HeldEnd, MatchGrows DEF HeldIn
<1>5. ASSUME NEW r \in Processes, Renews(r)', ClassesIn(disk') # {},
             "EqClass" \notin disk'.damaged
      PROVE  \E w \in Droppers' \ {r} :
                 disk'.rows["Node"] # Absent \/ \E q \in Droppers' : q # w /\ q # r
  <2>1. Renews(r) /\ r # p
    <3>1. ~Autocommit(p)
      BY NoneAssumption DEF Autocommit
    <3> QED
      BY <1>1, <1>5, <3>1, RenewsBack DEF Execute, Renews
  <2>2. "EqClass" \notin disk.damaged
    BY <1>1, <1>2, <1>5 DEF HeldIn, ResultTables
  <2>3. CASE ClassesIn(disk) # {}
    <3>1. \E w \in Droppers \ {r} :
              disk.rows["Node"] # Absent \/ \E q \in Droppers : q # w /\ q # r
      BY <2>1, <2>2, <2>3 DEF FileOK, RenewOK
    <3> QED
      BY <1>1, <1>2, <1>3, <3>1 DEF HeldIn
  <2>4. CASE ClassesIn(disk) = {}
    <3>1. Filling(p) /\ disk'.rows["Node"] # Absent
      BY <1>1, <1>2, <1>5, <2>4 DEF HeldIn
    <3>2. p \in Droppers
      BY <1>1, <3>1 DEF Filling, Droppers
    <3> QED
      BY <1>3, <2>1, <3>1, <3>2
  <2> QED
    BY <2>3, <2>4
<1> QED
  BY <1>4, <1>5 DEF FileOK, RenewOK, MatchIn, MayLose, ClassesIn

\* Of a transaction that dies any table may be in the file, and is damaged.
LEMMA FileDeath ==
    ASSUME NEW p \in Processes, Inv, ResultsOK, FileOK, Die(p), writer = p
    PROVE  FileOK'
<1>1. /\ phase'[p] \in {"refused", "died"} /\ MapsOK
      /\ \E torn \in SUBSET Tables : disk' = Torn(torn)
  BY DeathEffect DEF Inv, Shape, Publish
<1> PICK torn \in SUBSET Tables : disk' = Torn(torn)
  BY <1>1
<1> PICK E, M : E = ToInsert(p, "EqClass") /\ M = ToInsert(p, "Node")
  OBVIOUS
<1>2. HeldIn(disk, work, E, M, Filling(p), Crowded)
  BY NoneAssumption DEF ResultsOK, ResultHeld
<1>3. /\ Crowded \in BOOLEAN /\ Crowded' \in BOOLEAN /\ (Crowded => Crowded')
      /\ Droppers \subseteq Droppers'
  BY StoringGrows DEF Crowded
<1>4. /\ \A t \in Tables : /\ disk'.rows[t] = IF t \in torn THEN work.rows[t] ELSE disk.rows[t]
                           /\ t \in disk'.damaged <=> t \in disk.damaged \/ t \in torn
      /\ "Node" \in Tables /\ "EqClass" \in Tables
  BY DEF Torn, Tables
<1>5. disk.rows["Node"] # Absent => disk'.rows["Node"] # Absent
  BY <1>2, <1>4 DEF HeldIn
<1>6. "EqClass" \notin torn => ClassesIn(disk') = ClassesIn(disk)
  BY <1>4 DEF ClassesIn
<1>7. "EqClass" \in torn => ClassesIn(disk') = ClassesIn(work)
  BY <1>4 DEF ClassesIn
<1>8. NotNone(ClassesIn(disk'))
  BY <1>2, <1>6, <1>7 DEF HeldIn, FileOK
<1>9. MatchIn(disk', Crowded')
  <2>1. CASE "Node" \in torn
    BY <1>4, <2>1 DEF MatchIn
  <2>2. CASE "Node" \notin torn /\ "EqClass" \in torn
    <3> PICK db : db = disk'
      OBVIOUS
    <3>1. /\ db.rows["EqClass"] = work.rows["EqClass"] /\ db.rows["Node"] = disk.rows["Node"]
          /\ "EqClass" \in db.damaged /\ ("Node" \in disk.damaged => "Node" \in db.damaged)
      BY <1>4, <2>2
    <3>2. MatchIn(db, Crowded)
      BY <1>2, <1>3, <3>1, HeldTorn DEF FileOK
    <3> QED
      BY <1>3, <3>2, MatchGrows
  <2>3. CASE "Node" \notin torn /\ "EqClass" \notin torn
    <3>1. SameResult(disk, disk')
      BY <1>4, <2>3 DEF SameResult, ResultTables
    <3> QED
      BY <1>3, <3>1, MatchSame, MatchGrows DEF FileOK
  <2> QED
    BY <2>1, <2>2, <2>3
<1>10. ASSUME NEW r \in Processes, Renews(r)', ClassesIn(disk') # {},
              "EqClass" \notin disk'.damaged
       PROVE  \E w \in Droppers' \ {r} :
                  disk'.rows["Node"] # Absent \/ \E q \in Droppers' : q # w /\ q # r
  <2>1. Renews(r)
    <3>1. ~Autocommit(p)
      BY NoneAssumption DEF Autocommit
    <3> QED
      BY <1>10, <3>1, RenewsBack
  <2>2. "EqClass" \notin disk.damaged /\ ClassesIn(disk) # {}
    BY <1>4, <1>6, <1>10
  <2>3. \E w \in Droppers \ {r} :
            disk.rows["Node"] # Absent \/ \E q \in Droppers : q # w /\ q # r
    BY <2>1, <2>2 DEF FileOK, RenewOK
  <2> QED
    BY <1>3, <1>5, <2>3
<1> QED
  BY <1>8, <1>9, <1>10 DEF FileOK, RenewOK, MatchIn, MayLose, ClassesIn

LEMMA FileStep ==
    ASSUME NEW p \in Processes, Inv, ResultsOK, FileOK, Main(p) \/ Execute(p) \/ Die(p)
    PROVE  FileOK'
<1>1. CASE Autocommit(p)
  BY <1>1, FileAutocommit
<1>2. CASE CommitTransaction(p) /\ writer = p
  BY <1>2, FileCommit
<1>3. CASE Die(p) /\ writer = p
  BY <1>3, FileDeath
<1>4. CASE ~Autocommit(p) /\ ~(CommitTransaction(p) /\ writer = p) /\ ~(Die(p) /\ writer = p)
  <2>1. disk' = disk
    <3>1. WriteInTransaction(p) => disk' = disk
      BY DEF WriteInTransaction
    <3> QED
      BY <1>4, <3>1, QuietStep
  <2>2. SameResult(disk, disk')
    BY <2>1 DEF SameResult
  <2> QED
    BY <1>4, <2>2, FileQuiet
<1> QED
  BY <1>1, <1>2, <1>3, <1>4

LEMMA ResultsStep == Inv /\ Inv' /\ ResultsOK /\ MatchIn(disk, Crowded) /\ [Next]_vars
                         => ResultsOK' /\ MatchIn(disk, Crowded)'
<1> SUFFICES ASSUME Inv, Inv', ResultsOK, MatchIn(disk, Crowded), [Next]_vars
             PROVE  ResultsOK' /\ MatchIn(disk, Crowded)'
  OBVIOUS
<1>1. FileOK
  BY DEF FileOK, ResultsOK
<1>2. CASE UNCHANGED vars
  <2>1. UNCHANGED <<disk, writer, work, phase, conf, result, script>>
    BY <1>2 DEF vars, file, memory
  <2>2. /\ Storing' = Storing /\ \A p : Left(p)' = Left(p)
        /\ \A p, t : ToInsert(p, t)' = ToInsert(p, t)
    BY <2>1 DEF Storing, Left, ToInsert
  <2>3. /\ Crowded' = Crowded /\ Droppers' = Droppers
        /\ \A p : Filling(p)' = Filling(p) /\ (Renews(p)' <=> Renews(p))
    BY <2>1, <2>2 DEF Crowded, Droppers, Filling, Renews
  <2>4. \A p : ResultAhead(p) => ResultAhead(p)'
    BY <2>1, <2>2, <2>3 DEF ResultAhead
  <2>5. /\ \A p \in Processes : RenewOK(p)'
        /\ NotNone(ClassesIn(disk))' /\ MatchIn(disk, Crowded)'
    BY <1>1, <2>1, <2>3 DEF FileOK, RenewOK, MatchIn, MayLose, ClassesIn
  <2>6. writer # None => ResultHeld(writer)'
    BY <2>1, <2>2, <2>3 DEF ResultsOK, ResultHeld, ToInsert, Left, Filling
  <2> QED
    BY <2>1, <2>4, <2>5, <2>6 DEF ResultsOK
<1>3. ASSUME NEW p \in Processes, Main(p) \/ Execute(p) \/ Die(p)
      PROVE  ResultsOK' /\ MatchIn(disk, Crowded)'
  <2>1. FileOK'
    BY <1>1, <1>3, FileStep
  <2>2. \A q \in Processes : ResultAhead(q)'
    BY <1>3, AheadStep DEF ResultsOK
  <2>3. \A q \in Processes : writer' = q => ResultHeld(q)'
    BY <1>3, HeldStep
  <2>4. writer' # None => writer' \in Processes
    BY DEF Inv, Shape, FilesOK
  <2>5. writer' # None => ResultHeld(writer)'
    <3> SUFFICES ASSUME writer' # None PROVE ResultHeld(writer)'
      OBVIOUS
    <3> PICK q \in Processes : q = writer'
      BY <2>4
    <3>1. ResultHeld(q)'
      BY <2>3
    <3> QED
      BY <3>1 DEF ResultHeld, ToInsert, Left, Filling
  <2> QED
    BY <2>1, <2>2, <2>5 DEF ResultsOK, FileOK
<1> QED
  BY <1>2, <1>3 DEF Next, Terminated

LEMMA ResultsInit == Init => ResultsOK /\ MatchIn(disk, Crowded)
<1> SUFFICES ASSUME Init
             PROVE  ResultsOK /\ MatchIn(disk, Crowded)
  OBVIOUS
<1>1. disk \in Earlier /\ writer = None /\ \A p \in Processes : phase[p] = "start"
  BY DEF Init
<1>2. \A p \in Processes : ~Filling(p) /\ ResultAhead(p) /\ RenewOK(p)
  BY <1>1 DEF Filling, ResultAhead, RenewOK, Renews
<1>3. NotNone(ClassesIn(disk))
  <2> PICK e \in Earlier : e = disk
    BY <1>1
  <2>1. e.rows["EqClass"] # Absent => NotNone(e.rows["EqClass"])
    BY NoneAssumption, Zenon DEF NotNone
  <2>2. NotNone({})
    BY DEF NotNone
  <2> QED
    BY <2>1, <2>2 DEF ClassesIn
<1>4. MatchIn(disk, Crowded)
  <2>1. Crowded \in BOOLEAN
    BY DEF Crowded
  <2>2. "Node" \notin disk.damaged => Fit(disk.rows, TRUE)
    BY <1>1, EarlierAssumption
  <2>3. Fit(disk.rows, FALSE) \/ MayLose(disk, Crowded) = TRUE
    BY <1>1 DEF MayLose
  <2>4. CASE Fit(disk.rows, FALSE)
    BY <2>1, <2>4, FitIs, FitLost, MayLoseType DEF MatchIn
  <2> QED
    BY <2>2, <2>3, <2>4 DEF MatchIn
<1> QED
  BY <1>1, <1>2, <1>3, <1>4 DEF ResultsOK

\* However many processes store their results in one file, and whichever of
\* them die, whoever opens it finds as many nodes of a class as the row of the
\* class says, and a class for each node: the classes are counted and inserted
\* with their nodes in one transaction, and dropped after them
\* (CreateResultsDatabase and DumpFuzzyDedupRes of db_output.cpp).  Classes
\* lose their nodes, all of them, only by a death or among three processes.
THEOREM ClassesMatchNodesTheorem == Spec => []ClassesMatchNodes
<1>1. Inv /\ Inv' /\ ResultsOK /\ MatchIn(disk, Crowded) /\ [Next]_vars
          => (ResultsOK /\ MatchIn(disk, Crowded))'
  BY ResultsStep
<1>2. Init => ResultsOK /\ MatchIn(disk, Crowded)
  BY ResultsInit
<1>3. MatchIn(disk, Crowded) => ClassesMatchNodes
  BY DEF MatchIn, MayLose, ClassesMatchNodes
<1> QED
  BY <1>1, <1>2, <1>3, InvTheorem, PTL DEF Spec

=============================================================================
