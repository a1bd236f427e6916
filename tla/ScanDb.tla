------------------------------- MODULE ScanDb -------------------------------
(***************************************************************************)
(* ScanDb of scanner_int.h: the rows of a checksum database are announced   *)
(* to a ScanProcessor as if the tree they come from were scanned.  The root *)
(* is the longest common prefix of the rows' directories; a directory is    *)
(* created when the first row below it comes up.                            *)
(*                                                                         *)
(* A path is the sequence of its components ("/" is one); a handle is the   *)
(* number of the callback that returned it.                                 *)
(***************************************************************************)
EXTENDS Naturals, FiniteSets, SequencesExt

CONSTANT Databases  \* what may be read: functions from paths to "file" or
                    \* "empty" (the row's sum is 0)

\* A path has at least the component filename() returns.
ASSUME DatabasesAssumption ==
    \A db \in Databases :
        IsFiniteSet(DOMAIN db) /\ \A p \in DOMAIN db : p \in Seq(Range(p)) \ {<<>>}

VARIABLES dbpc,     \* "read", "prefix", "root", "rows", "descend", "done",
                    \* "thrown"
          rows,     \* db
          order,    \* the order in which the unordered_map is iterated
          at,       \* the row the running loop is at
          prefix,   \* common_prefix
          created,  \* created_dirs: path -> handle
          handle,   \* parent_handle
          parent,   \* parent
          rest,     \* the components of the row's directory still ahead
          told      \* the callbacks so far: [kind, name, parent]

iteration == <<rows, order>>
cursor == <<handle, parent, rest>>
dbVars == <<dbpc, iteration, at, prefix, created, cursor, told>>

NoDir == 0
DirOf(path) == Front(path)
LastRow == at = Len(order)

\* Faulty variants for mutation testing: no specification uses them.
BadCommonPathPrefix(p, q) ==              \* gives up at the first difference
    IF IsPrefix(p, q) THEN p ELSE <<>>
BadKnown(path) == FALSE                  \* created_dirs is not consulted

CommonPathPrefix(p, q) ==
    LET n == CHOOSE n \in 0..Len(p) :
                 /\ n <= Len(q) /\ SubSeq(p, 1, n) = SubSeq(q, 1, n)
                 /\ n < Len(p) /\ n < Len(q) => p[n + 1] # q[n + 1]
    IN  SubSeq(p, 1, n)

-----------------------------------------------------------------------------
DbInit ==
    /\ dbpc = "read"
    /\ rows = <<>> /\ order = <<>> /\ at = 1
    /\ prefix = <<>>
    /\ created = <<>>
    /\ handle = NoDir /\ parent = <<>> /\ rest = <<>>
    /\ told = <<>>

\* ReadCacheFromDb.  An empty database is left without a single callback.
Read ==
    /\ dbpc = "read"
    /\ rows' \in Databases
    /\ order' \in SetToSeqs(DOMAIN rows')
    /\ IF order' = <<>>
       THEN dbpc' = "done" /\ UNCHANGED prefix
       ELSE dbpc' = "prefix" /\ prefix' = DirOf(order'[1])
    /\ UNCHANGED <<at, created, cursor, told>>

\* The database cannot be read: an exception.
ReadFails ==
    /\ dbpc = "read"
    /\ dbpc' = "thrown"
    /\ UNCHANGED <<iteration, at, prefix, created, cursor, told>>

ShortenPrefix ==
    /\ dbpc = "prefix"
    /\ prefix' = CommonPathPrefix(prefix, DirOf(order[at]))
    /\ at' = IF LastRow THEN 1 ELSE at + 1
    /\ dbpc' = IF LastRow THEN "root" ELSE "prefix"
    /\ UNCHANGED <<iteration, created, cursor, told>>

Tell(kind, name, dir) ==
    told' = Append(told, [kind |-> kind, name |-> name, parent |-> dir])

RootDir ==
    /\ dbpc = "root"
    /\ Tell("root", prefix, NoDir)
    /\ created' = [d \in {prefix} |-> Len(told')]
    /\ dbpc' = "rows"
    /\ UNCHANGED <<iteration, at, prefix, cursor>>

\* The components of a row's directory below the common prefix
RestOf(path) == SubSeq(DirOf(path), Len(prefix) + 1, Len(path) - 1)

BeginRow ==
    /\ dbpc = "rows"
    /\ rest' = RestOf(order[at])
    /\ parent' = prefix
    /\ handle' = created[prefix]
    /\ dbpc' = "descend"
    /\ UNCHANGED <<iteration, at, prefix, created, told>>

ToInsert == Append(parent, Head(rest))
Known(path) == path \in DOMAIN created      \* created_dirs.find

Descend ==
    /\ dbpc = "descend" /\ rest # <<>>
    /\ IF Known(ToInsert)
       THEN UNCHANGED <<told, created>>
       ELSE /\ Tell("dir", <<Head(rest)>>, handle)
            /\ created' = [d \in DOMAIN created \cup {ToInsert} |->
                              IF d = ToInsert THEN Len(told') ELSE created[d]]
    /\ parent' = ToInsert
    /\ handle' = created'[ToInsert]
    /\ rest' = Tail(rest)
    /\ UNCHANGED <<dbpc, iteration, at, prefix>>

File ==
    /\ dbpc = "descend" /\ rest = <<>>
    /\ Tell("file", <<Last(order[at])>>, handle)
    /\ at' = IF LastRow THEN at ELSE at + 1
    /\ dbpc' = IF LastRow THEN "done" ELSE "rows"
    /\ UNCHANGED <<iteration, prefix, created, cursor>>

DbNext ==
    Read \/ ReadFails \/ ShortenPrefix \/ RootDir \/ BeginRow \/ Descend \/ File

DbEnded == dbpc \in {"done", "thrown"}

-----------------------------------------------------------------------------
\* The path that a processor builds for each call from the parents' names
\* (Node::BuildPath)
PathOf ==
    LET path[i \in DOMAIN told] ==
            IF told[i].parent = NoDir THEN told[i].name
            ELSE path[told[i].parent] \o told[i].name
    IN  path

PathsOf(kind) == {PathOf[i] : i \in {j \in DOMAIN told : told[j].kind = kind}}

DbTypeOK ==
    /\ dbpc \in {"read", "prefix", "root", "rows", "descend", "done", "thrown"}
    /\ rows \in Databases \cup {<<>>} /\ Range(order) = DOMAIN rows
    /\ at \in 1..Len(order) + 1
    /\ Range(created) \subseteq DOMAIN told
    /\ dbpc = "descend" => parent \in DOMAIN created /\ handle = created[parent]
    /\ \A i \in DOMAIN told : /\ told[i].kind \in {"root", "dir", "file"}
                             /\ told[i].parent \in 0..i - 1

\* When ScanDb is done, in whatever order the rows came, the paths that the
\* processor can build from names and handles are exactly the rows, each once,
\* and exactly the directories above them, each once, down from the deepest
\* directory they have in common.
DbReportIsExact ==
    dbpc = "done" /\ told # <<>> =>
        LET dirs == {DirOf(p) : p \in DOMAIN rows}
            root == LongestCommonPrefix(dirs)
            below == UNION {{SubSeq(d, 1, n) : n \in Len(root) + 1..Len(d)} : d \in dirs}
        IN  /\ PathsOf("root") = {root}
            /\ PathsOf("dir") = below
            /\ PathsOf("file") = DOMAIN rows
            /\ Len(told) = 1 + Cardinality(below) + Cardinality(DOMAIN rows)

\* "Empty files are ignored" (README.md:194): none of them is announced.
EmptyFilesIgnored ==
    \A i \in DOMAIN told : told[i].kind = "file" => rows[PathOf[i]] # "empty"
=============================================================================
