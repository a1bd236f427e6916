------------------------------ MODULE DirCompare ------------------------------
(***************************************************************************)
(* DirCompare of dir_compare.cpp: two threads fill a table (path -> hash) of *)
(* each directory, the main thread joins them and then explains how the      *)
(* first directory could have become the second, a line per path.           *)
(*                                                                         *)
(* A path is relative to its directory.  The order in which an index of a    *)
(* table is traversed shows in the layout of the report only and is left    *)
(* open; the candidates of a line are a set.                                *)
(***************************************************************************)
EXTENDS Naturals, Sequences, Functions

CONSTANTS Path,   \* relative paths of files
          Hash,   \* Cksum
          Unseen  \* stands for a content that DIR1 does not have

ASSUME UnseenAssumption == Unseen \notin Hash

Dirs == {1, 2}
Listing == UNION {[S -> Hash] : S \in SUBSET Path}
NoFiles == [p \in {} |-> Unseen]

VARIABLES listing,      \* what the scan of each directory will announce
          res,          \* `res' of each filler's FillPathHashes
          hashes,       \* hashes1, hashes2
          filler,       \* each filler: "start", "scan", "moved"
          main,         \* "join1", "join2", "loop1", "loop2", "done",
                        \* "terminated"
          visited,      \* the paths the current loop is done with
          out,          \* the lines sent to the stream
          skip_renames  \* Conf().skip_renames_

vars == <<listing, res, hashes, filler, main, visited, out, skip_renames>>

Kinds == {"OverwrittenBy", "CopiedFrom", "RenameTo", "ContentChanged",
          "Removed", "NewFile"}
Line == [kind : Kinds, file : Path, candidates : SUBSET Path]

\* Faulty variants for mutation testing: no specification uses them.
BadJoined(d) == TRUE                                  \* a join is forgotten
BadInsert(table, p, h) ==                             \* the fields are swapped
    [q \in DOMAIN table \cup {p} |-> IF q \in DOMAIN table THEN table[q] ELSE p]
BadSources(h) == {q \in DOMAIN hashes[2] : hashes[2][q] = h}  \* the wrong table
BadIsNew(p) == TRUE                                   \* no `continue'
BadSurvives(c) == c \notin DOMAIN hashes[2]           \* a negated test

Has(d, p) == p \in DOMAIN hashes[d]

\* GetPathsForHash
PathsWith(d, h) == {q \in DOMAIN hashes[d] : hashes[d][q] = h}

\* insert into an index that is unique by path: what is there stays
Insert(table, p, h) ==
    [q \in DOMAIN table \cup {p} |-> IF q \in DOMAIN table THEN table[q] ELSE h]

-----------------------------------------------------------------------------
Init ==
    /\ listing \in [Dirs -> Listing]
    /\ res = [d \in Dirs |-> NoFiles]
    /\ hashes = [d \in Dirs |-> NoFiles]
    /\ filler = [d \in Dirs |-> "start"]
    /\ main = "join1"
    /\ visited = {}
    /\ out = <<>>
    /\ skip_renames \in BOOLEAN

(* The fillers *)

Running == main # "terminated"

\* ScanDirectoryOrDb begins: a scan, or a database that could be read
FillStart(d) ==
    /\ Running
    /\ filler[d] = "start"
    /\ filler' = [filler EXCEPT ![d] = "scan"]
    /\ UNCHANGED <<listing, res, hashes, main, visited, out, skip_renames>>

\* reading a database throws: no handler in the thread, std::terminate
FillFails(d) ==
    /\ Running
    /\ filler[d] = "start"
    /\ main' = "terminated"
    /\ UNCHANGED <<listing, res, hashes, filler, visited, out, skip_renames>>

\* PathHashesFiller::File
File(d, p) ==
    /\ Running
    /\ filler[d] = "scan"
    /\ p \in DOMAIN listing[d] \ DOMAIN res[d]
    /\ res' = [res EXCEPT ![d] = Insert(res[d], p, listing[d][p])]
    /\ UNCHANGED <<listing, hashes, filler, main, visited, out, skip_renames>>

\* hashes = FillPathHashes(dir)
FillEnd(d) ==
    /\ Running
    /\ filler[d] = "scan"
    /\ DOMAIN listing[d] \subseteq DOMAIN res[d]
    /\ hashes' = [hashes EXCEPT ![d] = res[d]]
    /\ filler' = [filler EXCEPT ![d] = "moved"]
    /\ UNCHANGED <<listing, res, main, visited, out, skip_renames>>

-----------------------------------------------------------------------------
(* The main thread *)

Joined(d) == filler[d] = "moved"

Join1 ==
    /\ main = "join1" /\ Joined(1)
    /\ main' = "join2"
    /\ UNCHANGED <<listing, res, hashes, filler, visited, out, skip_renames>>

Join2 ==
    /\ main = "join2" /\ Joined(2)
    /\ main' = "loop1"
    /\ UNCHANGED <<listing, res, hashes, filler, visited, out, skip_renames>>

Emit(k, p, ps) ==
    out' = Append(out, [kind |-> k, file |-> p, candidates |-> ps])

Visit(d, p) ==
    /\ p \in DOMAIN hashes[d] \ visited
    /\ visited' = visited \cup {p}
    /\ UNCHANGED <<listing, res, hashes, filler, main, skip_renames>>

\* the paths of DIR1 a content of DIR2 comes from, of DIR2 one of DIR1 went to
Sources(h) == PathsWith(1, h)
Targets(h) == PathsWith(2, h)

NotChanged(p) ==
    /\ Has(2, p) /\ hashes[1][p] = hashes[2][p]
    /\ UNCHANGED out

Overwritten(p) ==
    /\ Has(2, p) /\ hashes[1][p] # hashes[2][p]
    /\ LET ps == Sources(hashes[2][p])
       IN  IF ps # {} THEN Emit("OverwrittenBy", p, ps)
                      ELSE Emit("ContentChanged", p, {})

Renamed(p) ==
    /\ ~Has(2, p)
    /\ LET ps == Targets(hashes[1][p])
       IN  \/ ps # {} /\ skip_renames /\ UNCHANGED out
           \/ ps # {} /\ ~skip_renames /\ Emit("RenameTo", p, ps)
           \/ ps = {} /\ Emit("Removed", p, {})

\* an iteration of the first loop
First(p) ==
    /\ main = "loop1"
    /\ Visit(1, p)
    /\ NotChanged(p) \/ Overwritten(p) \/ Renamed(p)

FirstEnd ==
    /\ main = "loop1" /\ DOMAIN hashes[1] \subseteq visited
    /\ main' = "loop2"
    /\ visited' = {}
    /\ UNCHANGED <<listing, res, hashes, filler, out, skip_renames>>

IsNew(p) == ~Has(1, p)
Survives(c) == Has(2, c)

AlreadyHandled(p) == ~IsNew(p) /\ UNCHANGED out

Appeared(p) ==
    /\ IsNew(p)
    /\ LET ps == Sources(hashes[2][p])
           ps2 == {c \in ps : Survives(c)}
       IN  \/ ps2 # {} /\ Emit("CopiedFrom", p, ps2)
           \/ ps # {} /\ ps2 = {} /\ UNCHANGED out
           \/ ps = {} /\ Emit("NewFile", p, {})

\* an iteration of the second loop
Second(p) ==
    /\ main = "loop2"
    /\ Visit(2, p)
    /\ AlreadyHandled(p) \/ Appeared(p)

SecondEnd ==
    /\ main = "loop2" /\ DOMAIN hashes[2] \subseteq visited
    /\ main' = "done"
    /\ UNCHANGED <<listing, res, hashes, filler, visited, out, skip_renames>>

Terminated == main \in {"done", "terminated"} /\ UNCHANGED vars

FillerStep(d) ==
    FillStart(d) \/ FillFails(d) \/ FillEnd(d) \/ \E p \in Path : File(d, p)

MainStep ==
    \/ Join1 \/ Join2 \/ FirstEnd \/ SecondEnd
    \/ \E p \in Path : First(p) \/ Second(p)

Next == MainStep \/ (\E d \in Dirs : FillerStep(d)) \/ Terminated

Spec == Init /\ [][Next]_vars

-----------------------------------------------------------------------------
(* Properties *)

TypeOK ==
    /\ listing \in [Dirs -> Listing]
    /\ res \in [Dirs -> Listing]
    /\ hashes \in [Dirs -> Listing]
    /\ filler \in [Dirs -> {"start", "scan", "moved"}]
    /\ main \in {"join1", "join2", "loop1", "loop2", "done", "terminated"}
    /\ visited \subseteq Path
    /\ out \in Seq(Line)
    /\ skip_renames \in BOOLEAN

\* The main thread reads the tables without a lock.  It must do so only when
\* both threads have delivered everything their directory holds.
TablesComplete == main \in {"loop1", "loop2", "done"} => hashes = listing

\* No path gets two lines, across both loops (dir_compare_test.cpp asserts
\* that what it inserts into its sets was not there).
OneLinePerPath ==
    \A i, j \in DOMAIN out : out[i].file = out[j].file => i = j

(* The report is read as README.md describes it: actions that transform the *)
(* first directory into the second.                                         *)
Lines == Range(out)
LinesOf(K) == {l \in Lines : l.kind \in K}
FilesOf(K) == {l.file : l \in LinesOf(K)}

RenameTargets == UNION {l.candidates : l \in LinesOf({"RenameTo"})}

RebuiltPaths ==
    (DOMAIN listing[1] \ FilesOf({"Removed", "RenameTo"}))
        \cup FilesOf({"NewFile", "CopiedFrom"}) \cup RenameTargets

\* the paths of DIR1 whose content p has according to the report
Origins(p) ==
    (UNION {l.candidates :
                l \in {m \in LinesOf({"OverwrittenBy", "CopiedFrom"}) : m.file = p}})
    \cup {l.file : l \in {m \in LinesOf({"RenameTo"}) : p \in m.candidates}}
    \cup {q \in DOMAIN listing[1] \ FilesOf(Kinds) : q = p}

RebuiltContents(p) ==
    {listing[1][q] : q \in Origins(p) \cap DOMAIN listing[1]}
    \cup {Unseen : l \in {m \in LinesOf({"NewFile", "ContentChanged"}) : m.file = p}}

\* a content of DIR2, as somebody who has only DIR1 can name it
Seen(h) == IF h \in Range(listing[1]) THEN h ELSE Unseen

\* The complete report turns DIR1 into DIR2: it yields exactly the paths of
\* DIR2, and all the candidates it gives for a path agree on its content.
ReportRebuilds ==
    main = "done" /\ ~skip_renames =>
        /\ RebuiltPaths = DOMAIN listing[2]
        /\ \A p \in DOMAIN listing[2] :
               /\ Origins(p) \subseteq DOMAIN listing[1]
               /\ RebuiltContents(p) = {Seen(listing[2][p])}

Same(p) ==
    /\ p \in DOMAIN listing[1] /\ p \in DOMAIN listing[2]
    /\ listing[1][p] = listing[2][p]

Mentioned(p) == p \in FilesOf(Kinds) \cup RenameTargets

\* --skip_renames drops renames and nothing else: a path that differs and is
\* not mentioned is the source or the target of a file that has moved.
OnlyRenamesHidden ==
    main = "done" =>
        \A p \in DOMAIN listing[1] \cup DOMAIN listing[2] :
            Same(p) \/ Mentioned(p)
            \/ /\ skip_renames
               /\ \E f \in DOMAIN listing[1] \ DOMAIN listing[2],
                     t \in DOMAIN listing[2] :
                      /\ listing[1][f] = listing[2][t]
                      /\ p \in {f, t}
=============================================================================
