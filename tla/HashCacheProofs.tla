--------------------------- MODULE HashCacheProofs ---------------------------
(***************************************************************************)
(* Which cached checksums can be trusted, for any number of files, threads, *)
(* runs and changes.                                                        *)
(***************************************************************************)
EXTENDS HashCache, SequenceTheorems, TLAPS

Active(w) == pc[w] # "idle"

-----------------------------------------------------------------------------
(* Types: the parts of TypeOK, and what it leaves open and the proofs need *)

FilesOK ==
    /\ ino \in [Paths -> Inodes]
    /\ content \in [Inodes -> Contents]
    /\ mtime \in [Inodes -> 0..clock] /\ clock \in 0..MaxClock

StatesOK ==
    /\ db.state \in {"none", "no table", "table", "broken"}
    /\ DOMAIN db = {"state", "rows"}
    /\ proc \in {"down", "up", "drop", "create", "insert"}
    /\ dumping \in BOOLEAN

TablesOK ==
    /\ IsRows(db.rows) /\ IsRows(cache)
    /\ DOMAIN inoCache \subseteq opened /\ opened \subseteq Inodes
    /\ \A i \in DOMAIN inoCache : inoCache[i] \in Seq(Blocks)

PhasesOK ==
    \A w \in Workers :
        /\ pc[w] = "idle" => path[w] = None /\ fd[w] = None
        /\ pc[w] \in {"lookup", "inode", "read"} => info[w] \in Attributes
        /\ pc[w] \in {"insert", "return"} => info[w] \in FileInfos

CallsOK ==
    /\ pc \in [Workers -> {"idle", "lookup", "inode", "read", "insert", "return"}]
    /\ path \in [Workers -> Paths \cup {None}]
    /\ fd \in [Workers -> Inodes \cup {None}]
    /\ info \in [Workers -> Attributes \cup FileInfos \cup {None}]
    /\ buf \in [Workers -> Seq(Blocks)]
    /\ touched \in [Workers -> BOOLEAN]
    /\ \A w \in Workers : Active(w) => path[w] \in Paths /\ fd[w] \in Inodes

\* Calls are executed by a process, which knows what it has opened.
LivesOK == \A w \in Workers : Active(w) => proc = "up" /\ fd[w] \in opened

Shape == FilesOK /\ StatesOK /\ TablesOK /\ PhasesOK /\ CallsOK /\ LivesOK

LEMMA ShapeTypes == Shape => TypeOK
BY DEF Shape, FilesOK, StatesOK, TablesOK, PhasesOK, CallsOK, TypeOK

LEMMA EmptyRows == IsRows(Empty) /\ DOMAIN Empty = {}
BY DEF IsRows, Empty, Range

LEMMA Idling ==
    ASSUME pc' = NoCall.pc, path' = NoCall.path, fd' = NoCall.fd,
           info' = NoCall.info, buf' = NoCall.buf, touched' = NoCall.touched
    PROVE  PhasesOK' /\ CallsOK' /\ \A w \in Workers : ~Active(w)'
<1>1. <<>> \in Seq(Blocks)
  OBVIOUS
<1> QED
  BY <1>1 DEF NoCall, PhasesOK, CallsOK, Active

LEMMA InitShape == Init => Shape
<1> SUFFICES ASSUME Init PROVE Shape
  OBVIOUS
<1>1. FilesOK
  BY ClockAssumption DEF Init, FilesOK
<1>2. StatesOK /\ TablesOK
  BY EmptyRows DEF Init, StatesOK, TablesOK
<1>3. PhasesOK /\ CallsOK
  <2>1. <<>> \in Seq(Blocks)
    OBVIOUS
  <2> QED
    BY <2>1 DEF Init, NoCall, PhasesOK, CallsOK, Active
<1>4. LivesOK
  BY DEF Init, NoCall, LivesOK, Active
<1> QED
  BY <1>1, <1>2, <1>3, <1>4 DEF Shape

LEMMA ChangeShape ==
    ASSUME Shape,
           \/ \E i \in Inodes, c \in Contents : WriteFile(i, c)
           \/ \E p \in Paths, i \in Inodes, c \in Contents : ReplaceFile(p, i, c)
    PROVE  Shape'
<1> USE DEF Shape
<1>1. ASSUME NEW i \in Inodes, NEW c \in Contents, WriteFile(i, c)
      PROVE  Shape'
  <2>1. FilesOK'
    BY <1>1, ClockAssumption DEF WriteFile, MayChange, FilesOK
  <2>2. StatesOK' /\ TablesOK' /\ PhasesOK' /\ LivesOK'
    BY <1>1 DEF WriteFile, memVars, StatesOK, TablesOK, PhasesOK, LivesOK, Active, IsRows
  <2>3. CallsOK'
    BY <1>1 DEF WriteFile, CallsOK, Active, Idle
  <2> QED
    BY <2>1, <2>2, <2>3
<1>2. ASSUME NEW p \in Paths, NEW i \in Inodes, NEW c \in Contents, ReplaceFile(p, i, c)
      PROVE  Shape'
  <2>1. FilesOK'
    BY <1>2, ClockAssumption DEF ReplaceFile, MayChange, FilesOK
  <2>2. StatesOK' /\ TablesOK' /\ PhasesOK' /\ LivesOK'
    BY <1>2 DEF ReplaceFile, memVars, callVars, StatesOK, TablesOK, PhasesOK, LivesOK,
                Active, IsRows
  <2>3. CallsOK'
    BY <1>2 DEF ReplaceFile, callVars, CallsOK, Active
  <2> QED
    BY <2>1, <2>2, <2>3
<1> QED
  BY <1>1, <1>2

LEMMA ProcessShape ==
    ASSUME Shape, (\E reads \in BOOLEAN : Initialize(reads)) \/ Finalize \/ Store \/ Crash
    PROVE  Shape'
<1> USE DEF Shape
<1>1. FilesOK'
  BY DEF Initialize, Finalize, Store, DropTable, CreateTable, InsertAllAndCommit, Crash,
         FilesOK, fsVars
<1>2. IsRows(Empty) /\ DOMAIN Empty = {}
  BY EmptyRows
<1>3. IsRows(cache) /\ IsRows(db.rows)
  BY DEF TablesOK
<1>4. ASSUME ProcessEnds
      PROVE  /\ proc' = "down" /\ dumping' = FALSE
             /\ IsRows(cache') /\ opened' = {} /\ DOMAIN inoCache' = {}
  BY <1>2, <1>4 DEF ProcessEnds
<1>5. CASE Crash
  <2>1. PhasesOK' /\ CallsOK' /\ LivesOK'
    BY <1>5, Idling DEF Crash, LivesOK
  <2>2. ASSUME NEW S \in SUBSET DOMAIN cache
        PROVE  IsRows(Restrict(cache, S))
    BY <1>3 DEF IsRows, Restrict, Range
  <2>3. /\ DOMAIN db' = {"state", "rows"} /\ IsRows(db'.rows)
        /\ db'.state \in {"none", "no table", "table", "broken"}
    <3>1. CASE db' = db
      BY <1>3, <3>1 DEF StatesOK
    <3>2. CASE db' = [state |-> "broken", rows |-> Empty]
      BY <1>2, <3>2
    <3>3. ASSUME NEW S \in SUBSET DOMAIN cache,
                 db' = [state |-> "table", rows |-> Restrict(cache, S)]
          PROVE  /\ DOMAIN db' = {"state", "rows"} /\ IsRows(db'.rows)
                 /\ db'.state \in {"none", "no table", "table", "broken"}
      BY <2>2, <3>3
    <3> QED
      BY <1>5, <3>1, <3>2, <3>3 DEF Crash
  <2>4. StatesOK' /\ TablesOK'
    BY <1>4, <1>5, <2>3 DEF Crash, StatesOK, TablesOK
  <2> QED
    BY <1>1, <2>1, <2>4
<1>6. CASE (\E reads \in BOOLEAN : Initialize(reads)) \/ Finalize \/ Store
  <2>1. UNCHANGED callVars
    BY <1>6 DEF Initialize, Finalize, Store, DropTable, CreateTable, InsertAllAndCommit
  <2>2. PhasesOK' /\ CallsOK' /\ LivesOK'
    <3>1. \A w \in Workers : ~Active(w)
      BY <1>6 DEF Initialize, Finalize, Store, DropTable, CreateTable, InsertAllAndCommit,
                  LivesOK, Active, Idle
    <3> QED
      BY <2>1, <3>1 DEF PhasesOK, CallsOK, LivesOK, Active, callVars
  <2>3. ASSUME NEW reads \in BOOLEAN, Initialize(reads)
        PROVE  StatesOK' /\ TablesOK'
    BY <1>2, <1>3, <2>3 DEF Initialize, StatesOK, TablesOK
  <2>4. ASSUME Finalize
        PROVE  StatesOK' /\ TablesOK'
    BY <1>3, <1>4, <2>4 DEF Finalize, StatesOK, TablesOK, memVars
  <2>5. ASSUME DropTable \/ CreateTable
        PROVE  StatesOK' /\ TablesOK'
    <3>1. CASE DropTable
      BY <1>2, <1>3, <3>1 DEF DropTable, StatesOK, TablesOK, memVars
    <3>2. CASE CreateTable
      BY <1>2, <1>3, <3>2 DEF CreateTable, StatesOK, TablesOK, memVars
    <3> QED
      BY <2>5, <3>1, <3>2
  <2>6. ASSUME InsertAllAndCommit
        PROVE  StatesOK' /\ TablesOK'
    BY <1>3, <1>4, <2>6 DEF InsertAllAndCommit, StatesOK, TablesOK
  <2> QED
    BY <1>1, <1>6, <2>2, <2>3, <2>4, <2>5, <2>6 DEF Store
<1> QED
  BY <1>5, <1>6

LEMMA ContentSeqs == FilesOK => \A i \in Inodes : content[i] \in Seq(Blocks)
BY ContentsAssumption DEF FilesOK

LEMMA RowInfo ==
    ASSUME NEW f, IsRows(f), NEW p \in DOMAIN f
    PROVE  p \in Paths /\ f[p] \in FileInfos
BY DEF IsRows, Range

LEMMA ResultInfo ==
    ASSUME Shape, NEW w \in Workers, pc[w] \in {"inode", "read"}, NEW sum \in Seq(Blocks)
    PROVE  /\ Result(w, sum) \in FileInfos
           /\ Result(w, sum).size = info[w].size /\ Result(w, sum).mtime = info[w].mtime
           /\ Result(w, sum).sum = sum
<1>1. info[w] \in [size : Nat, mtime : Nat]
  BY DEF Shape, PhasesOK, Attributes
<1> QED
  BY <1>1 DEF Result, FileInfos

LEMMA InsertedRows ==
    ASSUME NEW f, IsRows(f), NEW p \in Paths, NEW e \in FileInfos
    PROVE  /\ IsRows(Put(f, p, e))
           /\ DOMAIN Put(f, p, e) = DOMAIN f \cup {p}
           /\ Put(f, p, e)[p] = e
           /\ \A x \in DOMAIN f : x # p => Put(f, p, e)[x] = f[x]
BY DEF IsRows, Range, Put

LEMMA WorkerShape ==
    ASSUME Shape, NEW w \in Workers, WorkerStep(w)
    PROVE  Shape'
<1> USE DEF Shape
<1>1. FilesOK' /\ StatesOK'
  BY DEF WorkerStep, Open, LookupHit, LookupMiss, InodeHit, InodeMiss, ReadBlock, ReadEnd,
         ReadFails, Insert, Return, EndCall, FilesOK, StatesOK, fsVars, memVars
<1>2. ASSUME NEW p \in Paths, Open(w, p)
      PROVE  Shape'
  <2>1. ino[p] \in Inodes /\ AttributesOf(ino[p]) \in Attributes
    BY ContentSeqs DEF FilesOK, AttributesOf, Attributes
  <2>2. TablesOK'
    BY <1>2, <2>1 DEF Open, TablesOK, memVars
  <2>3. PhasesOK' /\ CallsOK' /\ LivesOK'
    <3>1. PhasesOK' /\ CallsOK'
      BY <1>2, <2>1 DEF Open, PhasesOK, CallsOK, Active
    <3>2. /\ proc' = "up" /\ fd' = [fd EXCEPT ![w] = ino[p]]
          /\ opened' = opened \cup {ino[p]} /\ \A v \in Workers : v # w => pc'[v] = pc[v]
      BY <1>2 DEF Open, Running, CallsOK
    <3> QED
      BY <3>1, <3>2 DEF CallsOK, LivesOK, Active
  <2> QED
    BY <1>1, <2>2, <2>3
<1> DEFINE Later == \/ LookupHit(w) \/ LookupMiss(w) \/ InodeHit(w) \/ InodeMiss(w)
                    \/ ReadBlock(w) \/ ReadEnd(w) \/ Insert(w) \/ ReadFails(w) \/ Return(w)
<1>a. ASSUME Later
      PROVE  LivesOK'
  <2>1. /\ proc' = proc /\ opened' = opened /\ pc[w] # "idle"
        /\ fd'[w] = fd[w] \/ pc'[w] = "idle"
        /\ \A v \in Workers : v # w => pc'[v] = pc[v] /\ fd'[v] = fd[v]
    BY <1>a DEF LookupHit, LookupMiss, InodeHit, InodeMiss, ReadBlock, ReadEnd, ReadFails,
                Insert, Return, EndCall, CallsOK
  <2> QED
    BY <2>1 DEF LivesOK, Active
<1>3. CASE LookupHit(w)
  <2>1. cache[path[w]] \in FileInfos
    BY <1>3, RowInfo DEF LookupHit, TablesOK
  <2>2. TablesOK'
    BY <1>3 DEF LookupHit, TablesOK, memVars
  <2>3. PhasesOK' /\ CallsOK'
    BY <1>3, <2>1 DEF LookupHit, PhasesOK, CallsOK, Active
  <2> QED
    BY <1>1, <1>a, <2>2, <2>3, <1>3
<1>4. CASE LookupMiss(w) \/ InodeMiss(w)
  <2>1. TablesOK'
    BY <1>4 DEF LookupMiss, InodeMiss, TablesOK, memVars
  <2>2. PhasesOK' /\ CallsOK'
    BY <1>4 DEF LookupMiss, InodeMiss, PhasesOK, CallsOK, Active
  <2> QED
    BY <1>1, <1>a, <2>1, <2>2, <1>4
<1>5. CASE InodeHit(w)
  <2>1. Result(w, inoCache[fd[w]]) \in FileInfos
    BY <1>5, ResultInfo DEF InodeHit, TablesOK
  <2>2. TablesOK'
    BY <1>5 DEF InodeHit, TablesOK, memVars
  <2>3. PhasesOK' /\ CallsOK'
    BY <1>5, <2>1 DEF InodeHit, PhasesOK, CallsOK, Active
  <2> QED
    BY <1>1, <1>a, <2>2, <2>3, <1>5
<1>6. CASE ReadBlock(w)
  <2>1. content[fd[w]] \in Seq(Blocks) /\ buf[w] \in Seq(Blocks)
    BY <1>6, ContentSeqs DEF ReadBlock, CallsOK, Active
  <2>2. Len(buf[w]) + 1 \in 1..Len(content[fd[w]])
    BY <1>6, <2>1 DEF ReadBlock
  <2>3. Append(buf[w], content[fd[w]][Len(buf[w]) + 1]) \in Seq(Blocks)
    BY <2>1, <2>2
  <2>4. TablesOK'
    BY <1>6 DEF ReadBlock, TablesOK, memVars
  <2>5. PhasesOK' /\ CallsOK'
    BY <1>6, <2>3 DEF ReadBlock, PhasesOK, CallsOK, Active
  <2> QED
    BY <1>1, <1>a, <2>4, <2>5, <1>6
<1>7. CASE ReadEnd(w)
  <2>1. /\ Result(w, buf[w]) \in FileInfos /\ buf[w] \in Seq(Blocks) /\ <<>> \in Seq(Blocks)
        /\ fd[w] \in Inodes
    BY <1>7, ResultInfo DEF ReadEnd, CallsOK, Active
  <2>2. TablesOK'
    <3>1. fd[w] \in opened
      BY <1>7 DEF ReadEnd, LivesOK, Active
    <3>2. /\ DOMAIN inoCache' \subseteq DOMAIN inoCache \cup {fd[w]}
          /\ \A i \in DOMAIN inoCache' : inoCache'[i] \in Seq(Blocks)
      BY <1>7, <2>1 DEF ReadEnd, Put, TablesOK
    <3> QED
      BY <1>7, <3>1, <3>2 DEF ReadEnd, TablesOK
  <2>3. PhasesOK' /\ CallsOK'
    BY <1>7, <2>1 DEF ReadEnd, PhasesOK, CallsOK, Active
  <2> QED
    BY <1>1, <1>a, <2>2, <2>3, <1>7
<1>8. CASE Insert(w)
  <2>1. path[w] \in Paths /\ info[w] \in FileInfos
    BY <1>8 DEF Insert, PhasesOK, CallsOK, Active
  <2>2. IsRows(cache')
    BY <1>8, <2>1, InsertedRows DEF Insert, TablesOK
  <2>3. TablesOK'
    BY <1>8, <2>2 DEF Insert, TablesOK
  <2>4. PhasesOK' /\ CallsOK'
    BY <1>8 DEF Insert, PhasesOK, CallsOK, Active
  <2> QED
    BY <1>1, <1>a, <2>3, <2>4, <1>8
<1>9. CASE ReadFails(w) \/ Return(w)
  <2>1. TablesOK'
    BY <1>9 DEF ReadFails, Return, EndCall, TablesOK, memVars
  <2>2. <<>> \in Seq(Blocks)
    OBVIOUS
  <2>3. PhasesOK' /\ CallsOK'
    <3>1. EndCall(w)
      BY <1>9 DEF ReadFails, Return
    <3>2. PhasesOK'
      BY <3>1 DEF EndCall, PhasesOK, CallsOK
    <3>3. CallsOK'
      BY <3>1, <2>2 DEF EndCall, CallsOK, Active
    <3> QED
      BY <3>2, <3>3
  <2> QED
    BY <1>1, <1>a, <2>1, <2>3, <1>9
<1> QED
  BY <1>2, <1>3, <1>4, <1>5, <1>6, <1>7, <1>8, <1>9 DEF WorkerStep

LEMMA NextShape == Shape /\ [Next]_vars => Shape'
<1> SUFFICES ASSUME Shape, [Next]_vars PROVE Shape'
  OBVIOUS
<1>1. CASE UNCHANGED vars
  BY <1>1 DEF vars, fsVars, memVars, callVars, Shape, FilesOK, StatesOK, TablesOK, PhasesOK,
              CallsOK, LivesOK, Active, IsRows
<1>2. CASE Next
  BY <1>2, ChangeShape, ProcessShape, WorkerShape DEF Next
<1> QED
  BY <1>1, <1>2

\* The file system, the tables in memory and on disk and the calls keep their
\* types, for any number of files, threads, processes and crashes.
THEOREM TypeCorrect == Spec => []TypeOK
BY InitShape, NextShape, ShapeTypes, PTL DEF Spec

-----------------------------------------------------------------------------
(* Why a cached sum is right.  Every change of a file takes a new mtime, so an *)
(* mtime tells which version of which file a call or an entry is about: the    *)
(* inode a call has open is the one its path names, or one of another mtime.   *)

\* The file has not changed since the fstat.
Current(w) == info[w].mtime = mtime[fd[w]]

VersionsOK ==
    /\ \A w \in Workers : Active(w) =>
           /\ info[w].mtime <= clock
           /\ info[w].mtime = mtime[ino[path[w]]] => ino[path[w]] = fd[w]
           /\ mtime[fd[w]] = mtime[ino[path[w]]] => ino[path[w]] = fd[w]
           /\ ~touched[w] => Current(w)
    /\ \A v, w \in Workers :
           Active(v) /\ Active(w) /\ path[v] = path[w] /\ info[v].mtime = mtime[fd[w]]
               => fd[v] = fd[w]

IsPart(b, c) == Len(b) <= Len(c) /\ \A j \in 1..Len(b) : b[j] = c[j]

\* What a call knows of a file that has not changed since
ReadsOK ==
    \A w \in Workers :
        /\ pc[w] # "read" => buf[w] = <<>>
        /\ Active(w) /\ Current(w) =>
               /\ info[w].size = Len(content[fd[w]])
               /\ pc[w] = "read" => IsPart(buf[w], content[fd[w]])
               /\ pc[w] \in {"insert", "return"} => info[w].sum = content[fd[w]]

\* An entry that has the attributes of an inode has its sum, if it is used for it.
RightFor(e, i) ==
    e.mtime = mtime[i] /\ e.size = Len(content[i]) => e.sum = content[i]

EntriesOK(rows) ==
    \A p \in DOMAIN rows : rows[p].mtime <= clock /\ RightFor(rows[p], ino[p])

HeldOK ==
    \A w \in Workers :
        Active(w) /\ path[w] \in DOMAIN cache => RightFor(cache[path[w]], fd[w])

\* ino_cache has no notion of change: it is right while nothing changes, or if
\* it is never asked.
InodesOK ==
    /\ proc = "down" => DOMAIN inoCache = {}
    /\ regime = "quiet" =>
           /\ \A w \in Workers : Active(w) => Current(w)
           /\ \A i \in DOMAIN inoCache : inoCache[i] = content[i]
    /\ regime = "distinct" =>
           /\ \A v, w \in Workers : Active(v) /\ Active(w) /\ fd[v] = fd[w] => v = w
           /\ \A w \in Workers :
                  pc[w] \in {"lookup", "inode", "read"} => fd[w] \notin DOMAIN inoCache

Sound ==
    VersionsOK /\ ReadsOK /\ EntriesOK(cache) /\ EntriesOK(db.rows) /\ HeldOK /\ InodesOK

Trusted == regime \in {"quiet", "distinct"}

LEMMA InitSound == Init => Sound
<1> SUFFICES ASSUME Init PROVE Sound
  OBVIOUS
<1>1. /\ \A w \in Workers : pc[w] = "idle" /\ buf[w] = <<>>
      /\ DOMAIN cache = {} /\ DOMAIN inoCache = {} /\ DOMAIN db.rows = {}
  BY EmptyRows DEF Init, NoCall
<1> QED
  BY <1>1 DEF Sound, VersionsOK, ReadsOK, EntriesOK, HeldOK, InodesOK, Active

\* The variables' types as the steps below use them
LEMMA ActiveTypes ==
    ASSUME Shape, NEW w \in Workers, Active(w)
    PROVE  /\ path[w] \in Paths /\ fd[w] \in Inodes /\ ino[path[w]] \in Inodes
           /\ info[w].mtime \in Nat /\ info[w].size \in Nat
           /\ content[fd[w]] \in Seq(Blocks) /\ buf[w] \in Seq(Blocks)
           /\ mtime[fd[w]] \in Nat /\ mtime[ino[path[w]]] \in Nat
           /\ mtime[fd[w]] <= clock /\ mtime[ino[path[w]]] <= clock
<1>1. path[w] \in Paths /\ fd[w] \in Inodes /\ ino[path[w]] \in Inodes
  BY DEF Shape, CallsOK, FilesOK
<1>2. info[w].mtime \in Nat /\ info[w].size \in Nat
  BY DEF Shape, CallsOK, PhasesOK, Active, Attributes, FileInfos
<1>3. content[fd[w]] \in Seq(Blocks) /\ buf[w] \in Seq(Blocks)
  BY <1>1, ContentSeqs DEF Shape, CallsOK
<1>4. \A i \in Inodes : mtime[i] \in Nat /\ mtime[i] <= clock
  BY ClockAssumption DEF Shape, FilesOK
<1> QED
  BY <1>1, <1>2, <1>3, <1>4

\* What is still of an old version is unchanged.
LEMMA Versions ==
    ASSUME Shape, NEW i \in Inodes,
           mtime' = [mtime EXCEPT ![i] = clock + 1], clock' = clock + 1,
           NEW c, content' = [content EXCEPT ![i] = c]
    PROVE  /\ clock \in Nat /\ mtime'[i] = clock + 1
           /\ \A j \in Inodes :
                 /\ mtime[j] \in Nat /\ mtime[j] <= clock
                 /\ j # i => mtime'[j] = mtime[j] /\ content'[j] = content[j]
           /\ \A m \in Nat, j \in Inodes : m <= clock /\ mtime'[j] = m => j # i
BY ClockAssumption DEF Shape, FilesOK

LEMMA WriteSound ==
    ASSUME Shape, Sound, Trusted, NEW i \in Inodes, NEW c \in Contents, WriteFile(i, c)
    PROVE  Sound'
<1>1. /\ mtime' = [mtime EXCEPT ![i] = clock + 1] /\ clock' = clock + 1
      /\ content' = [content EXCEPT ![i] = c]
      /\ UNCHANGED <<regime, ino, db, proc, cache, inoCache, opened, pc, path, fd, info, buf>>
      /\ touched' = [w \in Workers |-> touched[w] \/ (~Idle(w) /\ fd[w] = i)]
      /\ regime = "quiet" => proc = "down"
  BY DEF WriteFile, MayChange, memVars
<1>2. /\ clock \in Nat /\ mtime'[i] = clock + 1
      /\ \A j \in Inodes :
            /\ mtime[j] \in Nat /\ mtime[j] <= clock
            /\ j # i => mtime'[j] = mtime[j] /\ content'[j] = content[j]
  BY <1>1, Versions
<1>3. ASSUME NEW w \in Workers, Active(w)
      PROVE  /\ path[w] \in Paths /\ fd[w] \in Inodes /\ ino[path[w]] \in Inodes
             /\ info[w].mtime \in Nat /\ info[w].mtime <= clock
  BY <1>3, ActiveTypes DEF Sound, VersionsOK
<1>4. VersionsOK'
  <2>1. ASSUME NEW w \in Workers, Active(w)
        PROVE  /\ info[w].mtime = mtime'[ino[path[w]]] => ino[path[w]] = fd[w]
               /\ mtime'[fd[w]] = mtime'[ino[path[w]]] => ino[path[w]] = fd[w]
               /\ ~touched'[w] => info[w].mtime = mtime'[fd[w]]
    <3>1. /\ info[w].mtime = mtime[ino[path[w]]] => ino[path[w]] = fd[w]
          /\ mtime[fd[w]] = mtime[ino[path[w]]] => ino[path[w]] = fd[w]
          /\ ~touched[w] => info[w].mtime = mtime[fd[w]]
      BY <2>1 DEF Sound, VersionsOK, Current
    <3>2. ~touched'[w] => ~touched[w] /\ fd[w] # i
      BY <1>1, <2>1 DEF Idle, Active
    <3>3. /\ info[w].mtime = mtime'[ino[path[w]]] => ino[path[w]] = fd[w]
          /\ mtime'[fd[w]] = mtime'[ino[path[w]]] => ino[path[w]] = fd[w]
      BY <1>2, <1>3, <2>1, <3>1
    <3>4. fd[w] # i => mtime'[fd[w]] = mtime[fd[w]]
      BY <1>2, <1>3, <2>1
    <3> QED
      BY <3>1, <3>2, <3>3, <3>4
  <2>2. ASSUME NEW v \in Workers, NEW w \in Workers, Active(v), Active(w),
               path[v] = path[w], info[v].mtime = mtime'[fd[w]]
        PROVE  fd[v] = fd[w]
    BY <1>2, <1>3, <2>2 DEF Sound, VersionsOK
  <2>3. \A w \in Workers : Active(w) => info[w].mtime <= clock + 1
    BY <1>2, <1>3
  <2> QED
    BY <1>1, <2>1, <2>2, <2>3 DEF VersionsOK, Current, Active
<1>5. ReadsOK'
  <2>1. ASSUME NEW w \in Workers, Active(w), info[w].mtime = mtime'[fd[w]]
        PROVE  Current(w) /\ content'[fd[w]] = content[fd[w]]
    BY <1>2, <1>3, <2>1 DEF Current
  <2> QED
    BY <1>1, <2>1 DEF Sound, ReadsOK, Current, Active
<1>6. ASSUME NEW rows, IsRows(rows), EntriesOK(rows)
      PROVE  \A p \in DOMAIN rows :
                /\ rows[p].mtime <= clock + 1
                /\ rows[p].mtime = mtime'[ino[p]] /\ rows[p].size = Len(content'[ino[p]])
                      => rows[p].sum = content'[ino[p]]
  <2>1. ASSUME NEW p \in DOMAIN rows
        PROVE  ino[p] \in Inodes /\ rows[p].mtime \in Nat /\ rows[p].mtime <= clock
               /\ RightFor(rows[p], ino[p])
    BY <1>6, RowInfo DEF EntriesOK, FileInfos, Shape, FilesOK
  <2> QED
    BY <1>2, <2>1 DEF RightFor
<1>7. EntriesOK(cache)' /\ EntriesOK(db.rows)'
  BY <1>1, <1>6 DEF Sound, Shape, TablesOK, EntriesOK, RightFor
<1>8. HeldOK'
  <2>1. ASSUME NEW w \in Workers, Active(w), path[w] \in DOMAIN cache,
               cache[path[w]].mtime = mtime'[fd[w]]
        PROVE  RightFor(cache[path[w]], fd[w])'
    <3>1. cache[path[w]].mtime \in Nat /\ cache[path[w]].mtime <= clock
      BY <2>1, RowInfo DEF Sound, EntriesOK, FileInfos, Shape, TablesOK
    <3>2. fd[w] # i /\ fd[w] \in Inodes
      BY <1>2, <1>3, <2>1, <3>1
    <3> QED
      BY <1>1, <1>2, <2>1, <3>2 DEF Sound, HeldOK, RightFor
  <2> QED
    BY <1>1, <2>1 DEF HeldOK, Active, RightFor
<1>9. InodesOK'
  <2>1. regime = "quiet" => (\A w \in Workers : ~Active(w)) /\ DOMAIN inoCache = {}
    BY <1>1 DEF Sound, InodesOK, Shape, LivesOK
  <2> QED
    BY <1>1, <2>1 DEF Sound, InodesOK, Active
<1> QED
  BY <1>4, <1>5, <1>7, <1>8, <1>9 DEF Sound

\* The new file has an inode that nobody has open, and a new mtime.
LEMMA ReplaceSound ==
    ASSUME Shape, Sound, Trusted, NEW p \in Paths, NEW i \in Inodes, NEW c \in Contents,
           ReplaceFile(p, i, c)
    PROVE  Sound'
<1>1. /\ mtime' = [mtime EXCEPT ![i] = clock + 1] /\ clock' = clock + 1
      /\ content' = [content EXCEPT ![i] = c]
      /\ ino' = [ino EXCEPT ![p] = i]
      /\ UNCHANGED <<regime, db, proc, cache, inoCache, opened, pc, path, fd, info, buf>>
      /\ touched' = touched
      /\ \A x \in Paths : ino[x] # i
      /\ \A w \in Workers : fd[w] # i
      /\ regime = "quiet" => proc = "down"
  BY DEF ReplaceFile, MayChange, memVars, callVars, Range, Shape, FilesOK
<1>2. /\ clock \in Nat /\ mtime'[i] = clock + 1
      /\ \A j \in Inodes :
            /\ mtime[j] \in Nat /\ mtime[j] <= clock
            /\ j # i => mtime'[j] = mtime[j] /\ content'[j] = content[j]
  BY <1>1, Versions
<1>3. \A x \in Paths : ino[x] \in Inodes /\ ino'[x] = IF x = p THEN i ELSE ino[x]
  BY <1>1 DEF Shape, FilesOK
<1>4. ASSUME NEW w \in Workers, Active(w)
      PROVE  /\ path[w] \in Paths /\ fd[w] \in Inodes /\ fd[w] # i
             /\ mtime'[fd[w]] = mtime[fd[w]] /\ content'[fd[w]] = content[fd[w]]
             /\ mtime[fd[w]] \in Nat /\ mtime[fd[w]] <= clock
             /\ info[w].mtime \in Nat /\ info[w].mtime <= clock
  BY <1>1, <1>2, <1>4, ActiveTypes DEF Sound, VersionsOK
<1>5. VersionsOK'
  <2>1. ASSUME NEW w \in Workers, Active(w)
        PROVE  /\ info[w].mtime = mtime'[ino'[path[w]]] => ino'[path[w]] = fd[w]
               /\ mtime'[fd[w]] = mtime'[ino'[path[w]]] => ino'[path[w]] = fd[w]
    <3>1. CASE path[w] = p
      BY <1>2, <1>3, <1>4, <2>1, <3>1
    <3>2. CASE path[w] # p
      <4>1. ino'[path[w]] = ino[path[w]] /\ mtime'[ino[path[w]]] = mtime[ino[path[w]]]
        BY <1>1, <1>2, <1>3, <1>4, <2>1, <3>2
      <4> QED
        BY <1>4, <2>1, <4>1 DEF Sound, VersionsOK
    <3> QED
      BY <3>1, <3>2
  <2>2. \A w \in Workers : Active(w) => info[w].mtime <= clock + 1
    BY <1>2, <1>4
  <2> QED
    BY <1>1, <1>4, <2>1, <2>2 DEF Sound, VersionsOK, Current, Active
<1>6. ReadsOK'
  BY <1>1, <1>4 DEF Sound, ReadsOK, Current, Active
<1>7. ASSUME NEW rows, IsRows(rows), EntriesOK(rows)
      PROVE  \A x \in DOMAIN rows :
                /\ rows[x].mtime <= clock + 1
                /\ rows[x].mtime = mtime'[ino'[x]] /\ rows[x].size = Len(content'[ino'[x]])
                      => rows[x].sum = content'[ino'[x]]
  <2>1. ASSUME NEW x \in DOMAIN rows
        PROVE  x \in Paths /\ rows[x].mtime \in Nat /\ rows[x].mtime <= clock
               /\ RightFor(rows[x], ino[x])
    BY <1>7, RowInfo DEF EntriesOK, FileInfos
  <2> QED
    BY <1>1, <1>2, <1>3, <2>1 DEF RightFor
<1>8. EntriesOK(cache)' /\ EntriesOK(db.rows)'
  BY <1>1, <1>7 DEF Sound, Shape, TablesOK, EntriesOK, RightFor
<1>9. HeldOK'
  BY <1>1, <1>4 DEF Sound, HeldOK, Active, RightFor
<1>10. InodesOK'
  <2>1. regime = "quiet" => (\A w \in Workers : ~Active(w)) /\ DOMAIN inoCache = {}
    BY <1>1 DEF Sound, InodesOK, Shape, LivesOK
  <2> QED
    BY <1>1, <2>1 DEF Sound, InodesOK, Active
<1> QED
  BY <1>5, <1>6, <1>8, <1>9, <1>10 DEF Sound

\* While a process starts or ends no call is executed.
LEMMA ProcessSound ==
    ASSUME Shape, Sound, (\E reads \in BOOLEAN : Initialize(reads)) \/ Finalize \/ Store \/ Crash
    PROVE  Sound'
<1>1. UNCHANGED <<regime, ino, content, mtime, clock>>
  BY DEF Initialize, Finalize, Store, DropTable, CreateTable, InsertAllAndCommit, Crash, fsVars
<1>2. \A w \in Workers : pc'[w] = "idle" /\ buf'[w] = <<>>
  <2>1. CASE Crash
    BY <2>1 DEF Crash, NoCall
  <2>2. CASE (\E reads \in BOOLEAN : Initialize(reads)) \/ Finalize \/ Store
    <3>1. \A w \in Workers : pc[w] = "idle"
      BY <2>2 DEF Initialize, Finalize, Store, DropTable, CreateTable, InsertAllAndCommit,
                  Shape, LivesOK, Active, Idle
    <3>2. pc' = pc /\ buf' = buf
      BY <2>2 DEF Initialize, Finalize, Store, DropTable, CreateTable, InsertAllAndCommit,
                  callVars
    <3> QED
      BY <3>1, <3>2 DEF Sound, ReadsOK
  <2> QED
    BY <2>1, <2>2
<1>3. VersionsOK' /\ ReadsOK' /\ HeldOK'
  BY <1>2 DEF VersionsOK, ReadsOK, HeldOK, Active
<1>4. EntriesOK(Empty) /\ EntriesOK(cache) /\ EntriesOK(db.rows)
  BY EmptyRows DEF Sound, EntriesOK
<1>5. EntriesOK(cache') /\ EntriesOK(db'.rows)
  <2>1. cache' \in {cache, Empty, db.rows}
    BY DEF Initialize, Finalize, Store, DropTable, CreateTable, InsertAllAndCommit, Crash,
           ProcessEnds, memVars
  <2>2. ASSUME NEW S \in SUBSET DOMAIN cache
        PROVE  EntriesOK(Restrict(cache, S))
    BY <1>4 DEF EntriesOK, Restrict
  <2>3. \/ db'.rows \in {cache, Empty, db.rows}
        \/ \E S \in SUBSET DOMAIN cache : db'.rows = Restrict(cache, S)
    <3>1. CASE \E reads \in BOOLEAN : Initialize(reads)
      BY <3>1 DEF Initialize, Shape, StatesOK
    <3>2. CASE Finalize
      BY <3>2 DEF Finalize
    <3>3. CASE Store
      <4>1. CASE DropTable \/ CreateTable
        <5>1. db'.rows = Empty
          <6>1. CASE DropTable
            BY <6>1 DEF DropTable
          <6>2. CASE CreateTable
            BY <6>2 DEF CreateTable
          <6> QED
            BY <4>1, <6>1, <6>2
        <5> QED
          BY <5>1
      <4>2. CASE InsertAllAndCommit
        BY <4>2 DEF InsertAllAndCommit
      <4> QED
        BY <3>3, <4>1, <4>2 DEF Store
    <3>4. CASE Crash
      BY <3>4 DEF Crash
    <3> QED
      BY <3>1, <3>2, <3>3, <3>4
  <2> QED
    BY <1>4, <2>1, <2>2, <2>3
<1>6. EntriesOK(cache)' /\ EntriesOK(db.rows)'
  BY <1>1, <1>5 DEF EntriesOK, RightFor
<1>7. DOMAIN inoCache' = {} \/ (inoCache' = inoCache /\ (proc' = "down" => proc = "down"))
  BY EmptyRows DEF Initialize, Finalize, Store, DropTable, CreateTable, InsertAllAndCommit,
         Crash, ProcessEnds, memVars
<1>8. InodesOK'
  BY <1>1, <1>2, <1>7 DEF Sound, InodesOK, Active
<1> QED
  BY <1>3, <1>6, <1>8 DEF Sound

LEMMA OpenSound ==
    ASSUME Shape, Sound, Trusted, NEW w \in Workers, NEW p \in Paths, Open(w, p)
    PROVE  Sound'
<1>1. /\ proc = "up" /\ pc[w] = "idle"
      /\ regime = "distinct" => ino[p] \notin opened
      /\ pc' = [pc EXCEPT ![w] = "lookup"] /\ path' = [path EXCEPT ![w] = p]
      /\ fd' = [fd EXCEPT ![w] = ino[p]] /\ info' = [info EXCEPT ![w] = AttributesOf(ino[p])]
      /\ touched' = [touched EXCEPT ![w] = FALSE]
      /\ UNCHANGED <<regime, ino, content, mtime, clock, db, proc, cache, inoCache, buf>>
  BY DEF Open, Running, Idle, fsVars, memVars
<1>2. /\ pc'[w] = "lookup" /\ path'[w] = p /\ fd'[w] = ino[p]
      /\ info'[w] = AttributesOf(ino[p]) /\ buf'[w] = <<>>
      /\ \A v \in Workers \ {w} :
            /\ pc'[v] = pc[v] /\ path'[v] = path[v] /\ fd'[v] = fd[v] /\ info'[v] = info[v]
            /\ touched'[v] = touched[v]
  BY <1>1 DEF Shape, CallsOK, Sound, ReadsOK
<1>3. /\ ino[p] \in Inodes /\ mtime[ino[p]] <= clock
      /\ info'[w].mtime = mtime[ino[p]] /\ info'[w].size = Len(content[ino[p]])
  BY <1>2, ClockAssumption DEF AttributesOf, Shape, FilesOK
<1>4. VersionsOK'
  <2>1. ASSUME NEW v \in Workers, NEW z \in Workers, Active(v)', Active(z)',
               path'[v] = path'[z], info'[v].mtime = mtime[fd'[z]]
        PROVE  fd'[v] = fd'[z]
    <3>1. CASE v # w /\ z # w
      BY <1>2, <2>1, <3>1 DEF Sound, VersionsOK, Active
    <3>2. CASE v # w /\ z = w
      BY <1>2, <2>1, <3>2 DEF Sound, VersionsOK, Active
    <3>3. CASE v = w /\ z # w
      BY <1>2, <1>3, <2>1, <3>3 DEF Sound, VersionsOK, Active
    <3>4. CASE v = w /\ z = w
      BY <3>4
    <3> QED
      BY <3>1, <3>2, <3>3, <3>4
  <2>2. ASSUME NEW v \in Workers, Active(v)'
        PROVE  /\ info'[v].mtime <= clock
               /\ info'[v].mtime = mtime[ino[path'[v]]] => ino[path'[v]] = fd'[v]
               /\ mtime[fd'[v]] = mtime[ino[path'[v]]] => ino[path'[v]] = fd'[v]
               /\ ~touched'[v] => info'[v].mtime = mtime[fd'[v]]
    BY <1>2, <1>3, <2>2 DEF Sound, VersionsOK, Active, Current
  <2> QED
    BY <1>1, <2>1, <2>2 DEF VersionsOK, Current
<1>5. ReadsOK'
  BY <1>1, <1>2, <1>3 DEF Sound, ReadsOK, Active, Current
<1>6. EntriesOK(cache)' /\ EntriesOK(db.rows)'
  BY <1>1 DEF Sound, EntriesOK, RightFor
<1>7. HeldOK'
  BY <1>1, <1>2 DEF Sound, HeldOK, EntriesOK, RightFor, Active
<1>8. InodesOK'
  <2>1. \A v \in Workers : Active(v) => fd[v] \in opened
    BY DEF Shape, LivesOK
  <2>2. DOMAIN inoCache \subseteq opened
    BY DEF Shape, TablesOK
  <2>3. proc' = "up" /\ inoCache' = inoCache /\ content' = content /\ mtime' = mtime
    BY <1>1
  <2>4. regime = "quiet" => \A v \in Workers : Active(v)' => Current(v)'
    BY <1>2, <1>3, <2>3 DEF Sound, InodesOK, Active, Current
  <2>5. ASSUME regime = "distinct"
        PROVE  /\ \A v, z \in Workers : Active(v)' /\ Active(z)' /\ fd'[v] = fd'[z] => v = z
               /\ \A v \in Workers :
                     pc'[v] \in {"lookup", "inode", "read"} => fd'[v] \notin DOMAIN inoCache
    BY <1>1, <1>2, <2>1, <2>2, <2>5 DEF Sound, InodesOK, Active
  <2> QED
    BY <1>1, <2>3, <2>4, <2>5 DEF Sound, InodesOK
<1> QED
  BY <1>4, <1>5, <1>6, <1>7, <1>8 DEF Sound

LEMMA EndSound ==
    ASSUME Shape, Sound, NEW w \in Workers, EndCall(w)
    PROVE  Sound'
<1>1. /\ pc'[w] = "idle" /\ buf'[w] = <<>>
      /\ \A v \in Workers \ {w} :
            /\ pc'[v] = pc[v] /\ path'[v] = path[v] /\ fd'[v] = fd[v] /\ info'[v] = info[v]
            /\ touched'[v] = touched[v] /\ buf'[v] = buf[v]
      /\ UNCHANGED <<regime, ino, content, mtime, clock, db, proc, cache, inoCache>>
  BY DEF EndCall, fsVars, memVars, Shape, CallsOK
<1>2. VersionsOK'
  BY <1>1 DEF Sound, VersionsOK, Active, Current
<1>3. ReadsOK'
  BY <1>1 DEF Sound, ReadsOK, Active, Current
<1>4. EntriesOK(cache)' /\ EntriesOK(db.rows)' /\ HeldOK'
  BY <1>1 DEF Sound, EntriesOK, HeldOK, RightFor, Active
<1>5. InodesOK'
  BY <1>1 DEF Sound, InodesOK, Active, Current
<1> QED
  BY <1>2, <1>3, <1>4, <1>5 DEF Sound

\* A step in the middle of a call
Middle(w) ==
    \/ LookupHit(w) \/ LookupMiss(w) \/ InodeHit(w) \/ InodeMiss(w)
    \/ ReadBlock(w) \/ ReadEnd(w) \/ Insert(w)

\* It leaves the file and the attributes of the call alone.
LEMMA MiddleKeeps ==
    ASSUME Shape, Sound, NEW w \in Workers, Middle(w)
    PROVE  /\ UNCHANGED <<regime, ino, content, mtime, clock, db, proc, path, fd, touched>>
           /\ Active(w) /\ Active(w)' /\ info'[w].mtime = info[w].mtime
           /\ \A v \in Workers \ {w} :
                 pc'[v] = pc[v] /\ info'[v] = info[v] /\ buf'[v] = buf[v]
           /\ VersionsOK'
<1>1. UNCHANGED <<regime, ino, content, mtime, clock, db, proc, path, fd, touched>>
  BY DEF Middle, LookupHit, LookupMiss, InodeHit, InodeMiss, ReadBlock, ReadEnd, Insert,
         fsVars, memVars
<1>2. /\ Active(w) /\ Active(w)'
      /\ \A v \in Workers \ {w} :
            pc'[v] = pc[v] /\ info'[v] = info[v] /\ buf'[v] = buf[v]
  BY DEF Middle, LookupHit, LookupMiss, InodeHit, InodeMiss, ReadBlock, ReadEnd, Insert,
         Shape, CallsOK, Active
<1>3. info'[w].mtime = info[w].mtime
  <2>1. CASE LookupHit(w)
    BY <2>1 DEF LookupHit, Matches, Shape, CallsOK
  <2>2. CASE InodeHit(w)
    BY <2>2, ResultInfo DEF InodeHit, Shape, CallsOK, TablesOK
  <2>3. CASE ReadEnd(w)
    BY <2>3, ResultInfo DEF ReadEnd, Shape, CallsOK
  <2>4. CASE LookupMiss(w) \/ InodeMiss(w) \/ ReadBlock(w) \/ Insert(w)
    BY <2>4 DEF LookupMiss, InodeMiss, ReadBlock, Insert
  <2> QED
    BY <2>1, <2>2, <2>3, <2>4 DEF Middle
<1>4. VersionsOK'
  <2>1. \A v \in Workers : /\ Active(v)' <=> Active(v)
                           /\ info'[v].mtime = info[v].mtime
    BY <1>2, <1>3 DEF Active
  <2> QED
    BY <1>1, <2>1 DEF Sound, VersionsOK, Current
<1> QED
  BY <1>1, <1>2, <1>3, <1>4

\* What is left to show of such a step
LEMMA MiddleSound ==
    ASSUME Shape, Sound, NEW w \in Workers, Middle(w),
           pc'[w] # "read" => buf'[w] = <<>>,
           Current(w) =>
               /\ info'[w].size = Len(content[fd[w]])
               /\ pc'[w] = "read" => IsPart(buf'[w], content[fd[w]])
               /\ pc'[w] \in {"insert", "return"} => info'[w].sum = content[fd[w]],
           EntriesOK(cache'),
           \A v \in Workers : Active(v) /\ path[v] \in DOMAIN cache'
                                  => RightFor(cache'[path[v]], fd[v]),
           regime = "quiet" => \A i \in DOMAIN inoCache' : inoCache'[i] = content[i],
           regime = "distinct" =>
               \A v \in Workers :
                   pc'[v] \in {"lookup", "inode", "read"} => fd[v] \notin DOMAIN inoCache'
    PROVE  Sound'
<1>1. /\ UNCHANGED <<regime, ino, content, mtime, clock, db, proc, path, fd, touched>>
      /\ Active(w) /\ Active(w)' /\ info'[w].mtime = info[w].mtime
      /\ \A v \in Workers \ {w} :
            pc'[v] = pc[v] /\ info'[v] = info[v] /\ buf'[v] = buf[v]
      /\ VersionsOK'
  BY MiddleKeeps
<1>2. \A v \in Workers : Active(v)' <=> Active(v)
  BY <1>1 DEF Active
<1>3. \A v \in Workers : Current(v)' <=> Current(v)
  BY <1>1 DEF Current
<1>4. ReadsOK'
  BY <1>1, <1>2, <1>3 DEF Sound, ReadsOK
<1>5. EntriesOK(cache)' /\ EntriesOK(db.rows)'
  BY <1>1 DEF Sound, EntriesOK, RightFor
<1>6. HeldOK'
  BY <1>1, <1>2 DEF HeldOK, RightFor
<1>7. InodesOK'
  <2>1. proc = "up"
    BY <1>1 DEF Shape, LivesOK
  <2> QED
    BY <1>1, <1>2, <1>3, <2>1 DEF Sound, InodesOK
<1> QED
  BY <1>1, <1>4, <1>5, <1>6, <1>7 DEF Sound

LEMMA WholePart ==
    ASSUME NEW b \in Seq(Blocks), NEW c \in Seq(Blocks), IsPart(b, c), Len(b) >= Len(c)
    PROVE  b = c
<1>1. Len(b) \in Nat /\ Len(c) \in Nat
  OBVIOUS
<1>2. Len(b) = Len(c) /\ \A j \in 1..Len(b) : b[j] = c[j]
  BY <1>1 DEF IsPart
<1> QED
  BY <1>2, SeqEqual

LEMMA CallSound ==
    ASSUME Shape, Sound, Trusted, NEW w \in Workers, Middle(w)
    PROVE  Sound'
<1>1. /\ UNCHANGED <<content, fd, path>> /\ Active(w) /\ info'[w].mtime = info[w].mtime
      /\ \A v \in Workers \ {w} : pc'[v] = pc[v]
  BY MiddleKeeps
<1>2. /\ path[w] \in Paths /\ fd[w] \in Inodes
      /\ content[fd[w]] \in Seq(Blocks) /\ buf[w] \in Seq(Blocks)
      /\ mtime[fd[w]] <= clock
  BY <1>1, ActiveTypes
<1>3. /\ pc[w] # "read" => buf[w] = <<>>
      /\ Current(w) =>
             /\ info[w].size = Len(content[fd[w]])
             /\ pc[w] = "read" => IsPart(buf[w], content[fd[w]])
             /\ pc[w] \in {"insert", "return"} => info[w].sum = content[fd[w]]
  BY <1>1 DEF Sound, ReadsOK
<1>4. EntriesOK(cache) /\ HeldOK /\ InodesOK
  BY DEF Sound
<1>5. regime = "quiet" => Current(w) /\ \A i \in DOMAIN inoCache : inoCache[i] = content[i]
  BY <1>1, <1>4 DEF InodesOK
<1>6. /\ pc \in [Workers -> {"idle", "lookup", "inode", "read", "insert", "return"}]
      /\ DOMAIN info = Workers /\ DOMAIN buf = Workers
  BY DEF Shape, CallsOK
<1>7. \A v \in Workers : v # w /\ pc'[v] \in {"lookup", "inode", "read"} =>
          pc[v] \in {"lookup", "inode", "read"}
  BY <1>1
<1>8. ASSUME cache' = cache, inoCache' = inoCache,
             pc'[w] # "read" => buf'[w] = <<>>,
             pc[w] \in {"lookup", "inode", "read"},
             Current(w) =>
                 /\ info'[w].size = Len(content[fd[w]])
                 /\ pc'[w] = "read" => IsPart(buf'[w], content[fd[w]])
                 /\ pc'[w] \in {"insert", "return"} => info'[w].sum = content[fd[w]]
      PROVE  Sound'
  <2>1. regime = "distinct" =>
            \A v \in Workers :
                pc'[v] \in {"lookup", "inode", "read"} => fd[v] \notin DOMAIN inoCache
    BY <1>4, <1>7, <1>8 DEF InodesOK
  <2>2. \A v \in Workers : Active(v) /\ path[v] \in DOMAIN cache => RightFor(cache[path[v]], fd[v])
    BY <1>4 DEF HeldOK
  <2> QED
    BY <1>4, <1>5, <1>8, <2>1, <2>2, MiddleSound
<1>9. CASE LookupHit(w)
  <2>1. /\ pc'[w] = "return" /\ info'[w] = cache[path[w]] /\ buf' = buf
        /\ path[w] \in DOMAIN cache /\ pc[w] = "lookup"
        /\ cache[path[w]].size = info[w].size /\ cache[path[w]].mtime = info[w].mtime
        /\ cache' = cache /\ inoCache' = inoCache
    BY <1>6, <1>9 DEF LookupHit, Matches, memVars
  <2>2. Current(w) => cache[path[w]].sum = content[fd[w]]
    BY <1>1, <1>3, <1>4, <2>1 DEF HeldOK, RightFor, Current
  <2> QED
    BY <1>3, <1>8, <2>1, <2>2
<1>10. CASE LookupMiss(w) \/ InodeMiss(w)
  <2>1. /\ pc'[w] \in {"inode", "read"} /\ info' = info /\ buf' = buf
        /\ pc[w] \in {"lookup", "inode"} /\ cache' = cache /\ inoCache' = inoCache
    BY <1>6, <1>10 DEF LookupMiss, InodeMiss, memVars
  <2>2. IsPart(<<>>, content[fd[w]])
    BY <1>2 DEF IsPart
  <2> QED
    BY <1>3, <1>8, <2>1, <2>2
<1>11. CASE InodeHit(w)
  <2>1. /\ pc'[w] = "insert" /\ info'[w] = Result(w, inoCache[fd[w]]) /\ buf' = buf
        /\ pc[w] = "inode" /\ fd[w] \in DOMAIN inoCache
        /\ cache' = cache /\ inoCache' = inoCache
    BY <1>6, <1>11 DEF InodeHit, memVars
  <2>2. info'[w].size = info[w].size /\ info'[w].sum = inoCache[fd[w]]
    BY <2>1, ResultInfo DEF Shape, TablesOK
  <2>3. inoCache[fd[w]] = content[fd[w]]
    BY <1>4, <2>1 DEF Trusted, InodesOK
  <2> QED
    BY <1>3, <1>8, <2>1, <2>2, <2>3
<1>12. CASE ReadBlock(w)
  <2>1. /\ pc'[w] = "read" /\ pc[w] = "read" /\ info' = info
        /\ buf'[w] = Append(buf[w], content[fd[w]][Len(buf[w]) + 1])
        /\ Len(buf[w]) < Len(content[fd[w]])
        /\ cache' = cache /\ inoCache' = inoCache
    BY <1>6, <1>12 DEF ReadBlock, memVars
  <2>2. IsPart(buf[w], content[fd[w]]) => IsPart(buf'[w], content[fd[w]])
    <3>1. Len(buf[w]) + 1 \in 1..Len(content[fd[w]]) /\ Len(buf[w]) \in Nat
      BY <1>2, <2>1
    <3>2. content[fd[w]][Len(buf[w]) + 1] \in Blocks
      BY <1>2, <3>1
    <3>3. /\ Len(buf'[w]) = Len(buf[w]) + 1
          /\ \A j \in 1..Len(buf[w]) : buf'[w][j] = buf[w][j]
          /\ buf'[w][Len(buf[w]) + 1] = content[fd[w]][Len(buf[w]) + 1]
      BY <1>2, <2>1, <3>2, AppendProperties
    <3> QED
      BY <3>1, <3>3 DEF IsPart
  <2> QED
    BY <1>3, <1>8, <2>1, <2>2
<1>13. CASE ReadEnd(w)
  <2>1. /\ pc'[w] = "insert" /\ pc[w] = "read" /\ info'[w] = Result(w, buf[w]) /\ buf'[w] = <<>>
        /\ Len(buf[w]) >= Len(content[fd[w]])
        /\ inoCache' = IF fd[w] \in DOMAIN inoCache THEN inoCache
                                                  ELSE Put(inoCache, fd[w], buf[w])
        /\ cache' = cache
    BY <1>6, <1>13 DEF ReadEnd
  <2>2. info'[w].size = info[w].size /\ info'[w].sum = buf[w]
    BY <1>2, <2>1, ResultInfo
  <2>3. Current(w) => buf[w] = content[fd[w]]
    BY <1>2, <1>3, <2>1, WholePart
  <2>4. /\ DOMAIN inoCache' = DOMAIN inoCache \cup {fd[w]}
        /\ \A i \in DOMAIN inoCache : inoCache'[i] = inoCache[i]
        /\ fd[w] \notin DOMAIN inoCache => inoCache'[fd[w]] = buf[w]
    BY <2>1 DEF Put
  <2>5. regime = "quiet" => \A i \in DOMAIN inoCache' : inoCache'[i] = content[i]
    BY <1>5, <2>3, <2>4
  <2>6. regime = "distinct" =>
            \A v \in Workers :
                pc'[v] \in {"lookup", "inode", "read"} => fd[v] \notin DOMAIN inoCache'
    <3>1. ASSUME regime = "distinct", NEW v \in Workers, pc'[v] \in {"lookup", "inode", "read"}
          PROVE  fd[v] \notin DOMAIN inoCache'
      <4>1. v # w /\ pc[v] \in {"lookup", "inode", "read"}
        BY <1>7, <2>1, <3>1
      <4>2. fd[v] # fd[w] /\ fd[v] \notin DOMAIN inoCache
        BY <1>1, <1>4, <3>1, <4>1 DEF InodesOK, Active
      <4> QED
        BY <2>4, <4>2
    <3> QED
      BY <3>1
  <2>7. \A v \in Workers : Active(v) /\ path[v] \in DOMAIN cache => RightFor(cache[path[v]], fd[v])
    BY <1>4 DEF HeldOK
  <2> QED
    BY <1>3, <1>4, <2>1, <2>2, <2>3, <2>5, <2>6, <2>7, MiddleSound
<1>14. CASE Insert(w)
  <2>1. /\ pc'[w] = "return" /\ pc[w] = "insert" /\ info' = info /\ buf' = buf
        /\ cache' = Put(cache, path[w], info[w]) /\ inoCache' = inoCache
    BY <1>6, <1>14 DEF Insert
  <2>2. /\ DOMAIN cache' = DOMAIN cache \cup {path[w]} /\ cache'[path[w]] = info[w]
        /\ \A p \in DOMAIN cache : p # path[w] => cache'[p] = cache[p]
    BY <2>1 DEF Put
  <2>3. info[w].mtime <= clock /\ (info[w].mtime = mtime[ino[path[w]]] => ino[path[w]] = fd[w])
    BY <1>1 DEF Sound, VersionsOK
  <2>4. RightFor(info[w], fd[w])
    BY <1>3, <2>1 DEF RightFor, Current
  <2>5. RightFor(info[w], ino[path[w]])
    BY <2>3, <2>4 DEF RightFor
  <2>6. EntriesOK(cache')
    BY <1>4, <2>2, <2>3, <2>5 DEF EntriesOK
  <2>7. ASSUME NEW v \in Workers, Active(v), path[v] \in DOMAIN cache'
        PROVE  RightFor(cache'[path[v]], fd[v])
    <3>1. CASE path[v] = path[w]
      <4>1. info[w].mtime = mtime[fd[v]] => fd[w] = fd[v]
        BY <1>1, <2>7, <3>1 DEF Sound, VersionsOK
      <4> QED
        BY <2>2, <2>4, <3>1, <4>1 DEF RightFor
    <3>2. CASE path[v] # path[w]
      BY <1>4, <2>2, <2>7, <3>2 DEF HeldOK
    <3> QED
      BY <3>1, <3>2
  <2>8. regime = "distinct" =>
            \A v \in Workers :
                pc'[v] \in {"lookup", "inode", "read"} => fd[v] \notin DOMAIN inoCache'
    BY <1>4, <1>7, <2>1 DEF InodesOK
  <2> QED
    BY <1>3, <1>5, <2>1, <2>6, <2>7, <2>8, MiddleSound
<1> QED
  BY <1>9, <1>10, <1>11, <1>12, <1>13, <1>14 DEF Middle

-----------------------------------------------------------------------------
IInv == Shape /\ (Trusted => Sound)

LEMMA NextIInv == IInv /\ [Next]_vars => IInv'
<1> SUFFICES ASSUME IInv, [Next]_vars PROVE IInv'
  OBVIOUS
<1>1. Shape /\ Shape'
  BY NextShape DEF IInv
<1>2. regime' = regime
  BY DEF Next, WriteFile, ReplaceFile, Initialize, Finalize, Store, DropTable, CreateTable,
         InsertAllAndCommit, Crash, WorkerStep, Open, LookupHit, LookupMiss, InodeHit,
         InodeMiss, ReadBlock, ReadEnd, ReadFails, Insert, Return, EndCall, vars
<1>3. ASSUME Trusted, Sound
      PROVE  Sound'
  <2>1. CASE UNCHANGED vars
    BY <1>3, <2>1
       DEF vars, fsVars, memVars, callVars, Sound, VersionsOK, ReadsOK, EntriesOK, HeldOK,
           InodesOK, Active, Current, RightFor, IsPart
  <2>2. ASSUME NEW w \in Workers, WorkerStep(w)
        PROVE  Sound'
    BY <1>1, <1>3, <2>2, OpenSound, CallSound, EndSound
       DEF WorkerStep, Middle, ReadFails, Return
  <2> QED
    BY <1>1, <1>3, <2>1, <2>2, WriteSound, ReplaceSound, ProcessSound DEF Next
<1> QED
  BY <1>1, <1>2, <1>3 DEF IInv, Trusted

LEMMA Invariance == Spec => []IInv
<1>1. Init => IInv
  BY InitShape, InitSound DEF IInv
<1> QED
  BY <1>1, NextIInv, PTL DEF Spec

\* README.md:132: an entry whose size and mtime match the file of its path has
\* the sum of what the file holds, however many threads hash while files are
\* written and replaced, provided that files change only between runs or that
\* no process opens an inode twice.
THEOREM CacheIsCoherent == Spec => [](Trusted => CacheCoherent)
<1>1. IInv => (Trusted => CacheCoherent)
  BY DEF IInv, Sound, EntriesOK, RightFor, CacheCoherent, Coherent, UsedFor, Matches,
         AttributesOf
<1> QED
  BY <1>1, Invariance, PTL

\* The same of the database, after any number of runs and crashes.
THEOREM StoreIsCoherent == Spec => [](Trusted => StoredCoherent)
<1>1. IInv => (Trusted => StoredCoherent)
  BY DEF IInv, Sound, EntriesOK, RightFor, StoredCoherent, Coherent, UsedFor, Matches,
         AttributesOf
<1> QED
  BY <1>1, Invariance, PTL

\* What operator() returns describes the file if it has not changed during the
\* call.
THEOREM ResultIsFresh == Spec => [](Trusted => ResultFresh)
<1>1. IInv => (Trusted => ResultFresh)
  BY DEF IInv, Sound, VersionsOK, ReadsOK, Current, Active, ResultFresh, Matches, AttributesOf
<1> QED
  BY <1>1, Invariance, PTL
=============================================================================
