------------------------------ MODULE HashCache ------------------------------
(***************************************************************************)
(* HashCache and InodeCache of hash_cache.{h,cpp}: the checksums of files,  *)
(* kept by path with the size and the mtime they had, shared by the threads *)
(* of a process, read from a database at start (-c) and written to one at   *)
(* the end (-C); and, by inode, without size or mtime, for the life of the  *)
(* process.                                                                 *)
(*                                                                         *)
(* A content is a sequence of blocks, read one by one while other programs  *)
(* may write the file.  Its sequence of blocks stands for its checksum (an  *)
(* injective hash; the empty sequence is the sum 0).  Every change of a     *)
(* file gets a new mtime: changes within the resolution of time_t that keep *)
(* the size are outside what any cache keyed by size and mtime can notice.  *)
(* One database file serves -c and -C.                                      *)
(***************************************************************************)
EXTENDS Naturals, Sequences, Functions

CONSTANTS Paths, Inodes, Contents, Workers, None,
          Regimes,   \* which environments to consider, see below
          MaxClock   \* bound on the number of changes of files

Blocks == UNION {Range(c) : c \in Contents}

ASSUME ContentsAssumption == Contents \subseteq Seq(Blocks)
ASSUME ClockAssumption == MaxClock \in Nat

(* The regimes under which the cache is examined:                           *)
(*   "quiet"     files change only while the program does not run;          *)
(*   "distinct"  files change at any time, and no process opens an inode     *)
(*               twice: no hard links, no path scanned twice;                *)
(*   "any"       neither is promised.                                        *)

VARIABLES regime,
          ino, content, mtime, clock, \* the file system
          db,         \* the database: [state, rows]
          proc,       \* "down", "up", or the next step of StoreCksums:
                      \* "drop", "create", "insert"
          dumping,    \* db_ is set (-C)
          cache,      \* cache_: path -> [size, mtime, sum]
          inoCache,   \* ino_cache: inode -> sum
          opened,     \* history: inodes opened by this process
          pc, path, fd, info, buf, \* the call each thread executes
          touched     \* history: the open file has changed since the fstat

fsVars == <<ino, content, mtime, clock>>
memVars == <<dumping, cache, inoCache>>
callVars == <<pc, path, fd, info, buf, touched>>
vars == <<regime, fsVars, db, proc, memVars, opened, callVars>>

Empty == [x \in {} |-> None]
Put(f, x, v) == [y \in DOMAIN f \cup {x} |-> IF y = x THEN v ELSE f[y]]
Attributes == [size : Nat, mtime : Nat]
FileInfos == [size : Nat, mtime : Nat, sum : Seq(Blocks)]

Idle(w) == pc[w] = "idle"
Running == proc = "up"

-----------------------------------------------------------------------------
(* Faulty variants for mutation testing: no specification uses them. *)

BadAttributesOf(i) == [size |-> Len(content[i]) - 1, mtime |-> mtime[i]]
BadMatches(e, a) == e.size = a.size                     \* mtime is not compared
BadResult(w, sum) ==                                    \* fstat after the read
    [size |-> Len(content[fd[w]]), mtime |-> mtime[fd[w]], sum |-> sum]

-----------------------------------------------------------------------------
AttributesOf(i) == [size |-> Len(content[i]), mtime |-> mtime[i]]

NoCall == [pc |-> [w \in Workers |-> "idle"],
           path |-> [w \in Workers |-> None],
           fd |-> [w \in Workers |-> None],
           info |-> [w \in Workers |-> None],
           buf |-> [w \in Workers |-> <<>>],
           touched |-> [w \in Workers |-> FALSE]]

Init ==
    /\ regime \in Regimes
    /\ ino \in [Paths -> Inodes]
    /\ content \in [Inodes -> Contents]
    /\ mtime = [i \in Inodes |-> 0]
    /\ clock = 0
    /\ db = [state |-> "none", rows |-> Empty]
    /\ proc = "down"
    /\ dumping = FALSE
    /\ cache = Empty
    /\ inoCache = Empty
    /\ opened = {}
    /\ pc = NoCall.pc /\ path = NoCall.path /\ fd = NoCall.fd
    /\ info = NoCall.info /\ buf = NoCall.buf /\ touched = NoCall.touched

-----------------------------------------------------------------------------
(* The rest of the world *)

MayChange == (regime = "quiet" => proc = "down") /\ clock < MaxClock

\* A write to a file through any of its names
WriteFile(i, c) ==
    /\ MayChange
    /\ content[i] # c
    /\ content' = [content EXCEPT ![i] = c]
    /\ mtime' = [mtime EXCEPT ![i] = clock + 1]
    /\ clock' = clock + 1
    /\ touched' = [w \in Workers |-> touched[w] \/ (~Idle(w) /\ fd[w] = i)]
    /\ UNCHANGED <<regime, ino, db, proc, memVars, opened, pc, path, fd, info, buf>>

\* A path is removed and created anew; the file system may reuse an inode
\* that no path and no open file refers to.
ReplaceFile(p, i, c) ==
    /\ MayChange
    /\ i \notin Range(ino) \cup {fd[w] : w \in Workers}
    /\ ino' = [ino EXCEPT ![p] = i]
    /\ content' = [content EXCEPT ![i] = c]
    /\ mtime' = [mtime EXCEPT ![i] = clock + 1]
    /\ clock' = clock + 1
    /\ UNCHANGED <<regime, db, proc, memVars, opened, callVars>>

-----------------------------------------------------------------------------
(* The life of a process *)

\* Initialize: with -c the database must be readable, or the program ends
\* with an exception before it does anything.
Initialize(reads) ==
    /\ proc = "down"
    /\ reads => db.state = "table"
    /\ proc' = "up"
    /\ cache' = IF reads THEN db.rows ELSE Empty
    /\ dumping' \in BOOLEAN
    /\ db' = IF dumping' /\ db.state = "none"
             THEN [db EXCEPT !.state = "no table"] ELSE db
    /\ UNCHANGED <<regime, fsVars, inoCache, opened, callVars>>

\* What lived in the memory of the process is gone.
ProcessEnds ==
    /\ proc' = "down"
    /\ dumping' = FALSE
    /\ cache' = Empty
    /\ inoCache' = Empty
    /\ opened' = {}

\* Finalize, when the threads have been joined: ~HashCache, StoreCksums
Finalize ==
    /\ Running
    /\ \A w \in Workers : Idle(w)
    /\ IF dumping THEN proc' = "drop" /\ UNCHANGED <<memVars, opened>>
                  ELSE ProcessEnds
    /\ UNCHANGED <<regime, fsVars, db, callVars>>

DropTable ==
    /\ proc = "drop"
    /\ db' = [state |-> "no table", rows |-> Empty]
    /\ proc' = "create"
    /\ UNCHANGED <<regime, fsVars, memVars, opened, callVars>>

CreateTable ==
    /\ proc = "create"
    /\ db' = [state |-> "table", rows |-> Empty]
    /\ proc' = "insert"
    /\ UNCHANGED <<regime, fsVars, memVars, opened, callVars>>

InsertAllAndCommit ==
    /\ proc = "insert"
    /\ db' = [state |-> "table", rows |-> cache]
    /\ ProcessEnds
    /\ UNCHANGED <<regime, fsVars, callVars>>

\* The process dies: a signal, an exception nobody catches, or one thrown by
\* the destructor that stores the cache.  There is no journal (journal_mode =
\* OFF), so a database that is being written may become unreadable or hold
\* any part of the rows.
Crash ==
    /\ proc # "down"
    /\ ProcessEnds
    /\ \/ db' = db
       \/ /\ proc \in {"drop", "create", "insert"}
          /\ db' = [state |-> "broken", rows |-> Empty]
       \/ /\ proc = "insert"
          /\ \E S \in SUBSET DOMAIN cache :
                 db' = [state |-> "table", rows |-> Restrict(cache, S)]
    /\ pc' = NoCall.pc /\ path' = NoCall.path /\ fd' = NoCall.fd
    /\ info' = NoCall.info /\ buf' = NoCall.buf /\ touched' = NoCall.touched
    /\ UNCHANGED <<regime, fsVars>>

-----------------------------------------------------------------------------
(* HashCache::operator(), as executed by thread w *)

\* open and fstat.  Whatever happens to the path in between might as well
\* happen after both.
Open(w, p) ==
    /\ Running /\ Idle(w)
    /\ regime = "distinct" => ino[p] \notin opened
    /\ pc' = [pc EXCEPT ![w] = "lookup"]
    /\ path' = [path EXCEPT ![w] = p]
    /\ fd' = [fd EXCEPT ![w] = ino[p]]
    /\ info' = [info EXCEPT ![w] = AttributesOf(ino[p])]
    /\ opened' = opened \cup {ino[p]}
    /\ touched' = [touched EXCEPT ![w] = FALSE]
    /\ UNCHANGED <<regime, fsVars, db, proc, memVars, buf>>

Matches(e, a) == e.size = a.size /\ e.mtime = a.mtime

\* cache_.find, under mutex_
LookupHit(w) ==
    /\ pc[w] = "lookup"
    /\ path[w] \in DOMAIN cache
    /\ Matches(cache[path[w]], info[w])
    /\ info' = [info EXCEPT ![w] = cache[path[w]]]
    /\ pc' = [pc EXCEPT ![w] = "return"]
    /\ UNCHANGED <<regime, fsVars, db, proc, memVars, opened, path, fd, buf, touched>>

LookupMiss(w) ==
    /\ pc[w] = "lookup"
    /\ path[w] \in DOMAIN cache => ~Matches(cache[path[w]], info[w])
    /\ pc' = [pc EXCEPT ![w] = "inode"]
    /\ UNCHANGED <<regime, fsVars, db, proc, memVars, opened, path, fd, info, buf, touched>>

\* What operator() stores and returns
Result(w, sum) == [size |-> info[w].size, mtime |-> info[w].mtime, sum |-> sum]

\* ino_cache.Get
InodeHit(w) ==
    /\ pc[w] = "inode"
    /\ fd[w] \in DOMAIN inoCache
    /\ info' = [info EXCEPT ![w] = Result(w, inoCache[fd[w]])]
    /\ pc' = [pc EXCEPT ![w] = "insert"]
    /\ UNCHANGED <<regime, fsVars, db, proc, memVars, opened, path, fd, buf, touched>>

InodeMiss(w) ==
    /\ pc[w] = "inode"
    /\ fd[w] \notin DOMAIN inoCache
    /\ pc' = [pc EXCEPT ![w] = "read"]
    /\ UNCHANGED <<regime, fsVars, db, proc, memVars, opened, path, fd, info, buf, touched>>

ReadBlock(w) ==
    /\ pc[w] = "read"
    /\ Len(buf[w]) < Len(content[fd[w]])
    /\ buf' = [buf EXCEPT ![w] = Append(@, content[fd[w]][Len(@) + 1])]
    /\ UNCHANGED <<regime, fsVars, db, proc, memVars, opened, pc, path, fd, info, touched>>

\* read returns 0; ino_cache.Update inserts unless the inode is there.
ReadEnd(w) ==
    /\ pc[w] = "read"
    /\ Len(buf[w]) >= Len(content[fd[w]])
    /\ inoCache' = IF fd[w] \in DOMAIN inoCache THEN inoCache
                                                ELSE Put(inoCache, fd[w], buf[w])
    /\ info' = [info EXCEPT ![w] = Result(w, buf[w])]
    /\ buf' = [buf EXCEPT ![w] = <<>>]
    /\ pc' = [pc EXCEPT ![w] = "insert"]
    /\ UNCHANGED <<regime, fsVars, db, proc, dumping, cache, opened, path, fd, touched>>

\* cache_[p] = res, under mutex_
Insert(w) ==
    /\ pc[w] = "insert"
    /\ cache' = Put(cache, path[w], info[w])
    /\ pc' = [pc EXCEPT ![w] = "return"]
    /\ UNCHANGED <<regime, fsVars, db, proc, dumping, inoCache, opened, path, fd,
                   info, buf, touched>>

EndCall(w) ==
    /\ pc' = [pc EXCEPT ![w] = "idle"]
    /\ path' = [path EXCEPT ![w] = None]
    /\ fd' = [fd EXCEPT ![w] = None]
    /\ info' = [info EXCEPT ![w] = None]
    /\ buf' = [buf EXCEPT ![w] = <<>>]
    /\ touched' = [touched EXCEPT ![w] = FALSE]
    /\ UNCHANGED <<regime, fsVars, db, proc, memVars, opened>>

Return(w) == pc[w] = "return" /\ EndCall(w)

\* read fails: FsException
ReadFails(w) == pc[w] = "read" /\ EndCall(w)

-----------------------------------------------------------------------------
WorkerStep(w) ==
    \/ \E p \in Paths : Open(w, p)
    \/ LookupHit(w) \/ LookupMiss(w) \/ InodeHit(w) \/ InodeMiss(w)
    \/ ReadBlock(w) \/ ReadEnd(w) \/ ReadFails(w) \/ Insert(w) \/ Return(w)

Store == DropTable \/ CreateTable \/ InsertAllAndCommit

Next ==
    \/ \E i \in Inodes, c \in Contents : WriteFile(i, c)
    \/ \E p \in Paths, i \in Inodes, c \in Contents : ReplaceFile(p, i, c)
    \/ \E reads \in BOOLEAN : Initialize(reads)
    \/ \E w \in Workers : WorkerStep(w)
    \/ Finalize \/ Store \/ Crash

Spec == Init /\ [][Next]_vars

-----------------------------------------------------------------------------
IsRows(f) == DOMAIN f \subseteq Paths /\ Range(f) \subseteq FileInfos

TypeOK ==
    /\ ino \in [Paths -> Inodes]
    /\ content \in [Inodes -> Contents]
    /\ mtime \in [Inodes -> 0..clock] /\ clock \in 0..MaxClock
    /\ db.state \in {"none", "no table", "table", "broken"} /\ IsRows(db.rows)
    /\ proc \in {"down", "up", "drop", "create", "insert"}
    /\ dumping \in BOOLEAN
    /\ IsRows(cache)
    /\ DOMAIN inoCache \subseteq opened /\ opened \subseteq Inodes
    /\ \A w \in Workers :
           CASE pc[w] = "idle" -> path[w] = None /\ fd[w] = None
             [] pc[w] \in {"lookup", "inode", "read"} -> info[w] \in Attributes
             [] pc[w] \in {"insert", "return"} -> info[w] \in FileInfos

\* An entry that would be used for the file a path names now
UsedFor(e, p) == Matches(e, AttributesOf(ino[p]))

Coherent(rows) ==
    \A p \in DOMAIN rows :
        UsedFor(rows[p], p) => rows[p].sum = content[ino[p]]

\* "it will be used if the file name, size and mtime match" (README.md:132):
\* an entry of the running process that matches the file has the sum of what
\* the file holds, even if the file changed between fstat, the reads and the
\* insertion.
CacheCoherent == Running => Coherent(cache)

\* The same for what a later run will read from the database, after any
\* sequence of runs, changes, crashes and half-written databases.
StoredCoherent == Coherent(db.rows)

\* The FileInfo that operator() returns describes the file, unless it changed
\* during the call.
ResultFresh ==
    \A w \in Workers :
        pc[w] = "return" /\ ~touched[w] =>
            /\ Matches(info[w], AttributesOf(fd[w]))
            /\ info[w].sum = content[fd[w]]
=============================================================================
