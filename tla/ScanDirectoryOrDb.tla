-------------------------- MODULE ScanDirectoryOrDb --------------------------
(***************************************************************************)
(* ScanDirectoryOrDb of scanner_int.h: the argument of a scan is a directory *)
(* or, after "db:", a checksum database; the ScanProcessor that is called    *)
(* back cannot tell which.  Scan.tla says what it is promised; both scanners *)
(* are shown to keep that promise.                                          *)
(***************************************************************************)
EXTENDS ScanDirectory, ScanDb

VARIABLE source     \* "none" before the call, then "directory" or "db"

scanVars == <<source, vars, dbVars>>

ScanInit == source = "none" /\ Init /\ DbInit

\* ignore_db_prefix_ is -r
Dispatch ==
    /\ source = "none"
    /\ \E prefixed, ignore_db_prefix \in BOOLEAN :
           source' = IF ~ignore_db_prefix /\ prefixed THEN "db" ELSE "directory"
    /\ UNCHANGED <<vars, dbVars>>

InDirectory == source = "directory" /\ Next /\ UNCHANGED <<source, dbVars>>
InDb == source = "db" /\ DbNext /\ UNCHANGED <<source, vars>>
InDbEnded == DbEnded /\ UNCHANGED scanVars

ScanNext == Dispatch \/ InDirectory \/ InDb \/ InDbEnded

ScanSpec == ScanInit /\ [][ScanNext]_scanVars

\* Threads run, callbacks, hashing and queries return.
ScanFairness ==
    /\ WF_scanVars(Dispatch)
    /\ WF_scanVars(source = "directory" /\ MainStep /\ UNCHANGED <<source, dbVars>>)
    /\ \A w \in Workers :
           WF_scanVars(source = "directory" /\ WorkerStep(w)
                           /\ UNCHANGED <<source, dbVars>>)
    /\ WF_scanVars(InDb)

ScanFairSpec == ScanSpec /\ ScanFairness

-----------------------------------------------------------------------------
ScanTypeOK == source \in {"none", "directory", "db"} /\ TypeOK /\ DbTypeOK

\* What the processor has been told, as far as it can see where it came from:
\* entries by the paths their handles lead to, and how often each of them
Entry(kind, path, dir) == [kind |-> kind, path |-> path, parent |-> dir]

DirectoryEntry(call) ==
    Entry(IF call[1] = Root THEN "root" ELSE tree.kind[call[1]], call[1], call[2])

DbEntry(i) ==
    Entry(told[i].kind, PathOf[i],
          IF told[i].parent = NoDir THEN None ELSE PathOf[told[i].parent])

Reported ==
    IF source = "db"
    THEN [e \in {DbEntry(i) : i \in DOMAIN told} |->
              Cardinality({i \in DOMAIN told : DbEntry(i) = e})]
    ELSE [e \in {DirectoryEntry(call) : call \in announced} |-> times[e.path]]

Promise == INSTANCE Scan WITH reported <- Reported

\* Both scanners announce a directory before its entries, with the handle it
\* got, nothing twice, and the root first: from two threads' callbacks that
\* interleave with the walk, and from rows in any order.
Implements == Promise!Spec

\* The scan comes to an end: the pool's full queue, the callbacks' mutex and
\* the destructor do not wait for each other in a circle, and neither loop
\* over the rows runs on.
ScanEnds == <>(Returned \/ DbEnded)
=============================================================================
