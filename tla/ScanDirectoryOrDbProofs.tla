----------------------- MODULE ScanDirectoryOrDbProofs -----------------------
(***************************************************************************)
(* What is true of both scanners, for any tree, any number of workers and   *)
(* any databases: what ScanDb announces is exactly the rows and their       *)
(* directories, in whatever order the rows come, and either scanner keeps   *)
(* the promise of Scan.                                                     *)
(***************************************************************************)
EXTENDS ScanDirectoryOrDb, ScanDirectoryProofs, SequenceLemmas

\* The directory of the i-th row
Dir(i) == DirOf(order[i])

\* The directories above and including d that have more than l components and
\* up to m; all those of the rows I
Above(d, l, m) == {SubSeq(d, 1, n) : n \in (l + 1)..m}
AllAbove(paths, I, l) ==
    UNION {Above(DirOf(paths[i]), l, Len(DirOf(paths[i]))) : i \in I}

\* The rows that the second loop is done with
Finished == IF dbpc = "done" THEN 1..Len(order) ELSE 1..(at - 1)

Begun == dbpc \in {"rows", "descend"} \/ (dbpc = "done" /\ told # <<>>)

DbShape ==
    /\ dbpc \in {"read", "prefix", "root", "rows", "descend", "done", "thrown"}
    /\ rows \in Databases \cup {<<>>}
    /\ IsSeq(order) /\ Range(order) = DOMAIN rows
    /\ \A i, j \in 1..Len(order) : order[i] = order[j] => i = j
    /\ at \in 1..Len(order) + 1
    /\ dbpc \in {"prefix", "root", "rows", "descend"} => at <= Len(order)
    /\ dbpc \in {"read", "root"} => at = 1
    /\ Begun => Len(order) > 0
    /\ ~Begun => told = <<>> /\ created = <<>>

\* p is the longest common prefix of the directories of the rows I.
Greatest(p, paths, I) ==
    /\ IsSeq(p)
    /\ \A i \in I : IsPrefix(p, DirOf(paths[i]))
    /\ \A k \in I : \A n \in 0..Len(DirOf(paths[k])) :
           (\A i \in I : IsPrefix(SubSeq(DirOf(paths[k]), 1, n), DirOf(paths[i])))
               => n <= Len(p)

PrefixRight ==
    /\ dbpc = "prefix" => Greatest(prefix, order, {1} \cup 1..(at - 1))
    /\ dbpc = "root" \/ Begun => Greatest(prefix, order, 1..Len(order))

\* What PathOf is: the handles lead to the root.
Leads(t, path) ==
    path = [i \in DOMAIN t |->
                IF t[i].parent = NoDir THEN t[i].name
                ELSE path[t[i].parent] \o t[i].name]

ToldShape ==
    /\ IsSeq(told)
    /\ \A i \in 1..Len(told) : /\ told[i].kind \in {"root", "dir", "file"}
                               /\ told[i].parent \in 0..(i - 1)
    /\ Leads(told, PathOf)

\* The directories that have been created
Upper ==
    {prefix} \cup AllAbove(order, Finished, Len(prefix))
             \cup (IF dbpc = "descend"
                   THEN Above(DirOf(order[at]), Len(prefix), Len(parent)) ELSE {})

\* created_dirs holds the callbacks for directories, by their paths.
CreatedRight ==
    Begun =>
        /\ DOMAIN created = Upper
        /\ IsFiniteSet(Upper)
        /\ \A d \in Upper :
               /\ created[d] \in 1..Len(told)
               /\ PathOf[created[d]] = d
               /\ told[created[d]].kind = IF d = prefix THEN "root" ELSE "dir"
        /\ \A i \in 1..Len(told) :
               told[i].kind # "file" => PathOf[i] \in Upper /\ created[PathOf[i]] = i

\* The callbacks for files are the finished rows.
FilesRight ==
    Begun =>
        /\ \A i \in 1..Len(told) :
               told[i].kind = "file" => \E j \in Finished : PathOf[i] = order[j]
        /\ \A j \in Finished :
               \E i \in 1..Len(told) : told[i].kind = "file" /\ PathOf[i] = order[j]
        /\ \A i, j \in 1..Len(told) :
               /\ told[i].kind = "file" /\ told[j].kind = "file"
               /\ PathOf[i] = PathOf[j]
               => i = j
        /\ Len(told) = Cardinality(Upper) + Cardinality(Finished)

\* The handle of each callback is that of a directory.
HandlesRight ==
    \A i \in 1..Len(told) :
        /\ told[i].parent = NoDir <=> i = 1
        /\ told[i].kind = "root" <=> i = 1
        /\ i # 1 => told[told[i].parent].kind # "file"

Descending ==
    dbpc = "descend" =>
        /\ IsSeq(parent) /\ IsPrefix(parent, Dir(at))
        /\ Len(prefix) <= Len(parent)
        /\ parent \in Upper /\ handle = created[parent]
        /\ rest = SubSeq(Dir(at), Len(parent) + 1, Len(Dir(at)))

DbInv ==
    /\ DbShape /\ PrefixRight /\ ToldShape /\ CreatedRight /\ FilesRight
    /\ HandlesRight /\ Descending

-----------------------------------------------------------------------------
(* The rows and the paths of the callbacks *)

\* A path's directory is the path without its last component.
LEMMA DirOfFacts ==
    ASSUME NEW p, IsSeq(p), p # <<>>
    PROVE  /\ Len(p) \in Nat \ {0} /\ IsSeq(DirOf(p)) /\ Len(DirOf(p)) = Len(p) - 1
           /\ DirOf(p) = SubSeq(p, 1, Len(p) - 1)
           /\ \A n \in 1..(Len(p) - 1) : DirOf(p)[n] = p[n]
<1>1. Len(p) \in Nat \ {0}
  BY EmptySeq DEF IsSeq
<1>2. DirOf(p) = SubSeq(p, 1, Len(p) - 1)
  BY DEF DirOf, Front
<1>3. Len(p) - 1 \in 0..Len(p)
  BY <1>1
<1> QED
  BY ZenonT(60), <1>1, <1>2, <1>3, FirstOf

LEMMA RowFacts ==
    ASSUME DbShape
    PROVE  /\ Len(order) \in Nat /\ IsFiniteSet(DOMAIN rows)
           /\ DOMAIN rows = {order[i] : i \in 1..Len(order)}
           /\ \A i \in 1..Len(order) :
                  /\ order[i] \in DOMAIN rows
                  /\ IsSeq(order[i]) /\ Len(order[i]) \in Nat \ {0}
                  /\ IsSeq(Dir(i)) /\ Len(Dir(i)) = Len(order[i]) - 1
                  /\ Dir(i) = SubSeq(order[i], 1, Len(order[i]) - 1)
                  /\ \A n \in 1..Len(order[i]) - 1 : Dir(i)[n] = order[i][n]
<1>1. Len(order) \in Nat /\ DOMAIN rows = {order[i] : i \in 1..Len(order)}
  BY IsSeqFacts DEF DbShape
<1>2. IsFiniteSet(DOMAIN rows) /\ \A p \in DOMAIN rows : IsSeq(p) /\ p # <<>>
  <2>1. CASE rows = <<>>
    <3>1. DOMAIN rows = {}
      BY <2>1
    <3> QED
      BY <3>1, FS_EmptySet
  <2>2. CASE rows \in Databases
    BY <2>2, DatabasesAssumption DEF IsSeq
  <2> QED
    BY <2>1, <2>2 DEF DbShape
<1>3. ASSUME NEW i \in 1..Len(order)
      PROVE  /\ order[i] \in DOMAIN rows
             /\ IsSeq(order[i]) /\ Len(order[i]) \in Nat \ {0}
             /\ IsSeq(Dir(i)) /\ Len(Dir(i)) = Len(order[i]) - 1
             /\ Dir(i) = SubSeq(order[i], 1, Len(order[i]) - 1)
             /\ \A n \in 1..Len(order[i]) - 1 : Dir(i)[n] = order[i][n]
  <2>1. order[i] \in DOMAIN rows
    BY <1>1
  <2>2. IsSeq(order[i]) /\ order[i] # <<>>
    BY <1>2, <2>1
  <2> QED
    BY <2>1, <2>2, DirOfFacts DEF Dir
<1> QED
  BY <1>1, <1>2, <1>3

PathsTo(t) == CHOOSE path : Leads(t, path)

LEMMA PathOfIsPathsTo == PathOf = PathsTo(told)
BY DEF PathOf, PathsTo, Leads

Grounded(t) == IsSeq(t) /\ \A i \in 1..Len(t) : t[i].parent \in 0..(i - 1)

\* The callbacks u and their paths, after one more
Extended(t, p, r, u, path) ==
    /\ IsSeq(u) /\ Len(u) = Len(t) + 1 /\ Len(t) \in Nat
    /\ \A i \in 1..Len(t) : u[i] = t[i] /\ path[i] = p[i]
    /\ u[Len(t) + 1] = r
    /\ path[Len(t) + 1] = IF r.parent = NoDir THEN r.name
                          ELSE p[r.parent] \o r.name
    /\ Leads(u, path)

\* A further callback leaves the paths of the earlier ones as they are.
LEMMA PathAppended ==
    ASSUME NEW t, Grounded(t), NEW p, Leads(t, p),
           NEW r, r.parent \in 0..Len(t), NEW u, u = Append(t, r),
           NEW path, path = PathsTo(u)
    PROVE  Extended(t, p, r, u, path)
<1> USE DEF Grounded
<1> DEFINE n == Len(t)
<1>1. n \in Nat /\ DOMAIN t = 1..n
  BY IsSeqFacts
<1>2. /\ IsSeq(u) /\ Len(u) = n + 1 /\ DOMAIN u = 1..(n + 1)
      /\ \A i \in 1..n : u[i] = t[i]
      /\ u[n + 1] = r
  <2>1. t \in Seq(Range(t) \cup {r})
    BY SeqMonotonic DEF IsSeq
  <2>2. /\ u \in Seq(Range(t) \cup {r}) /\ Len(u) = n + 1
        /\ \A i \in 1..n : u[i] = t[i]
        /\ u[n + 1] = r
    BY <2>1, AppendProperties
  <2>3. IsSeq(u)
    BY <2>2, SeqIsSeq
  <2> QED
    BY <2>2, <2>3, IsSeqFacts
<1> DEFINE last == IF r.parent = NoDir THEN r.name ELSE p[r.parent] \o r.name
           f == [i \in 1..(n + 1) |-> IF i <= n THEN p[i] ELSE last]
           Step(g, i) == IF u[i].parent = NoDir THEN u[i].name
                         ELSE g[u[i].parent] \o u[i].name
<1>3. \A i \in 1..n : p[i] = IF t[i].parent = NoDir THEN t[i].name
                             ELSE p[t[i].parent] \o t[i].name
  BY <1>1 DEF Leads
<1>4. \A i \in 1..(n + 1) : u[i].parent \in 0..(i - 1)
  <2>1. ASSUME NEW i \in 1..(n + 1) PROVE u[i].parent \in 0..(i - 1)
    <3>1. CASE i \in 1..n
      BY <1>2, <3>1
    <3>2. CASE i = n + 1
      <4>1. u[i] = r /\ i - 1 = n
        BY <1>1, <1>2, <3>2
      <4> QED
        BY <4>1
    <3> QED
      BY <1>1, <3>1, <3>2
  <2> QED
    BY <2>1
<1>5. Leads(u, f)
  <2>1. ASSUME NEW i \in 1..(n + 1)
        PROVE  f[i] = Step(f, i)
    <3>1. CASE i \in 1..n
      <4>1. f[i] = p[i] /\ u[i] = t[i] /\ t[i].parent \in 0..(i - 1)
        BY <1>1, <1>2, <3>1
      <4>2. t[i].parent # NoDir => t[i].parent \in 1..(n + 1) /\ t[i].parent <= n
        BY <1>1, <3>1, <4>1 DEF NoDir
      <4>3. t[i].parent # NoDir => f[t[i].parent] = p[t[i].parent]
        BY <4>2
      <4> HIDE DEF f
      <4> QED
        BY <1>3, <3>1, <4>1, <4>3
    <3>2. CASE i = n + 1
      <4>1. f[i] = last /\ u[i] = r
        BY <1>1, <1>2, <3>2
      <4>2. r.parent # NoDir => r.parent \in 1..(n + 1) /\ r.parent <= n
        BY <1>1 DEF NoDir
      <4>3. r.parent # NoDir => f[r.parent] = p[r.parent]
        BY <4>2
      <4> HIDE DEF f
      <4> QED
        BY <4>1, <4>3
    <3> QED
      BY <1>1, <3>1, <3>2
  <2>2. f = [i \in 1..(n + 1) |-> f[i]]
    OBVIOUS
  <2> HIDE DEF f
  <2> QED
    BY <1>2, <2>1, <2>2 DEF Leads
<1>6. Leads(u, path)
  <2> HIDE DEF f
  <2> QED
    BY <1>5 DEF PathsTo
<1>7. \A i \in 1..(n + 1) : path[i] = Step(path, i)
  BY <1>2, <1>6 DEF Leads
<1>8. \A i \in 1..n : path[i] = p[i]
  <2> DEFINE P == {m \in 0..n : \A i \in 1..m : path[i] = p[i]}
  <2>1. 0 \in P
    BY <1>1
  <2>2. ASSUME NEW m \in 0..n, m \in P, m < n
        PROVE  m + 1 \in P
    <3>1. m + 1 \in 1..n /\ m + 1 \in 1..(n + 1) /\ m + 1 \in 0..n
      BY <1>1, <2>2
    <3>2. u[m + 1] = t[m + 1] /\ t[m + 1].parent \in 0..m
      <4>1. (m + 1) - 1 = m
        OBVIOUS
      <4> QED
        BY <1>2, <3>1, <4>1
    <3>3. t[m + 1].parent # NoDir => path[t[m + 1].parent] = p[t[m + 1].parent]
      <4>1. t[m + 1].parent # NoDir => t[m + 1].parent \in 1..m
        BY <3>2 DEF NoDir
      <4> QED
        BY <2>2, <4>1
    <3>4. path[m + 1] = p[m + 1]
      BY <1>3, <1>7, <3>1, <3>2, <3>3
    <3>5. \A i \in 1..(m + 1) : i \in 1..m \/ i = m + 1
      OBVIOUS
    <3> QED
      BY <2>2, <3>1, <3>4, <3>5
  <2>3. n \in P
    <3> HIDE DEF P
    <3>1. \A m \in 0..n : m \in P /\ m < n => m + 1 \in P
      BY <2>2
    <3>2. \A m \in 0..n : m \in P
      BY <1>1, <2>1, <3>1, IntervalInduction
    <3> QED
      BY <1>1, <3>2
  <2> QED
    BY <2>3
<1>9. path[n + 1] = last
  <2>1. n + 1 \in 1..(n + 1) /\ u[n + 1] = r
    BY <1>1, <1>2
  <2>2. r.parent # NoDir => r.parent \in 1..n
    BY <1>1 DEF NoDir
  <2>3. r.parent # NoDir => path[r.parent] = p[r.parent]
    BY <1>8, <2>2
  <2> QED
    BY <1>7, <2>1, <2>3
<1> QED
  BY <1>1, <1>2, <1>6, <1>8, <1>9 DEF Extended

-----------------------------------------------------------------------------
(* The common prefix *)

LEMMA CommonPathPrefixFacts ==
    ASSUME NEW p, NEW q_, IsSeq(p), IsSeq(q_), NEW r, r = CommonPathPrefix(p, q_)
    PROVE  /\ IsSeq(r) /\ IsPrefix(r, p) /\ IsPrefix(r, q_)
           /\ \A c : IsSeq(c) /\ IsPrefix(c, p) /\ IsPrefix(c, q_) => Len(c) <= Len(r)
<1> DEFINE Same(n) == \A i \in 1..n : p[i] = q_[i]
           Ends(n) == /\ n <= Len(q_) /\ SubSeq(p, 1, n) = SubSeq(q_, 1, n)
                      /\ n < Len(p) /\ n < Len(q_) => p[n + 1] # q_[n + 1]
           L == IF Len(p) <= Len(q_) THEN Len(p) ELSE Len(q_)
<1>1. /\ Len(p) \in Nat /\ Len(q_) \in Nat /\ L \in Nat
      /\ L <= Len(p) /\ L <= Len(q_) /\ (L = Len(p) \/ L = Len(q_))
  BY IsSeqFacts
<1>2. ASSUME NEW n \in 0..L
      PROVE  SubSeq(p, 1, n) = SubSeq(q_, 1, n) <=> Same(n)
  <2>1. n \in 0..Len(p) /\ n \in 0..Len(q_)
    BY <1>1
  <2>2. /\ IsSeq(SubSeq(p, 1, n)) /\ Len(SubSeq(p, 1, n)) = n
        /\ \A i \in 1..n : SubSeq(p, 1, n)[i] = p[i]
    BY <2>1, FirstOf
  <2>3. /\ IsSeq(SubSeq(q_, 1, n)) /\ Len(SubSeq(q_, 1, n)) = n
        /\ \A i \in 1..n : SubSeq(q_, 1, n)[i] = q_[i]
    BY <2>1, FirstOf
  <2>4. ASSUME SubSeq(p, 1, n) = SubSeq(q_, 1, n)
        PROVE  Same(n)
    BY <2>2, <2>3, <2>4
  <2>5. ASSUME Same(n)
        PROVE  SubSeq(p, 1, n) = SubSeq(q_, 1, n)
    <3>1. \A i \in 1..n : SubSeq(p, 1, n)[i] = SubSeq(q_, 1, n)[i]
      BY <2>2, <2>3, <2>5
    <3> QED
      BY <2>2, <2>3, <3>1, SameSeq
  <2> QED
    BY <2>4, <2>5
<1>3. \E n \in 0..Len(p) : Ends(n)
  <2> SUFFICES ASSUME \A n \in 0..Len(p) : ~Ends(n) PROVE FALSE
    OBVIOUS
  <2> DEFINE P == {n \in 0..L : Same(n)}
  <2>1. 0 \in P
    BY <1>1
  <2>2. ASSUME NEW n \in 0..L, n \in P, n < L
        PROVE  n + 1 \in P
    <3>1. n \in 0..Len(p) /\ n <= Len(q_) /\ n + 1 \in 0..L
      BY <1>1, <2>2
    <3>2. SubSeq(p, 1, n) = SubSeq(q_, 1, n)
      BY <1>2, <2>2
    <3>3. p[n + 1] = q_[n + 1]
      BY <3>1, <3>2
    <3>4. \A i \in 1..(n + 1) : i \in 1..n \/ i = n + 1
      OBVIOUS
    <3> QED
      BY <2>2, <3>1, <3>3, <3>4
  <2>3. L \in P
    <3> HIDE DEF P, L
    <3>1. \A n \in 0..L : n \in P /\ n < L => n + 1 \in P
      BY <2>2
    <3>2. \A n \in 0..L : n \in P
      BY <1>1, <2>1, <3>1, IntervalInduction
    <3> QED
      BY <1>1, <3>2
  <2>4. SubSeq(p, 1, L) = SubSeq(q_, 1, L)
    <3>1. L \in 0..L /\ Same(L)
      BY <1>1, <2>3
    <3> HIDE DEF L
    <3> QED
      BY <1>2, <3>1
  <2>5. L \in 0..Len(p) /\ Ends(L)
    BY <1>1, <2>4
  <2> HIDE DEF L, Ends
  <2> QED
    BY <2>5
<1> DEFINE n == CHOOSE n \in 0..Len(p) : Ends(n)
<1>4. n \in 0..Len(p) /\ Ends(n)
  <2> HIDE DEF Ends
  <2> QED
    BY <1>3
<1>5. r = SubSeq(p, 1, n)
  BY DEF CommonPathPrefix
<1> HIDE DEF n
<1>6. n \in 0..L /\ n \in 0..Len(q_)
  BY <1>1, <1>4
<1>7. Same(n)
  BY <1>2, <1>4, <1>6
<1>8. IsSeq(r) /\ Len(r) = n /\ \A i \in 1..n : r[i] = p[i]
  BY <1>4, <1>5, FirstOf
<1>9. IsPrefix(r, p) /\ IsPrefix(r, q_)
  BY <1>1, <1>6, <1>4, <1>7, <1>8, PrefixElements
<1>10. ASSUME NEW c, IsSeq(c), IsPrefix(c, p), IsPrefix(c, q_)
       PROVE  Len(c) <= Len(r)
  <2>1. /\ Len(c) \in Nat /\ Len(c) <= Len(p) /\ Len(c) <= Len(q_)
        /\ \A i \in 1..Len(c) : c[i] = p[i] /\ c[i] = q_[i]
    BY <1>10, PrefixElements, IsSeqFacts
  <2>2. n + 1 \in 1..Len(c) => p[n + 1] = q_[n + 1]
    BY <2>1
  <2> QED
    BY <1>1, <1>4, <1>8, <2>1, <2>2
<1> QED
  BY <1>8, <1>9, <1>10

\* The loop over the rows: the prefix of one more directory
LEMMA PrefixShortened ==
    ASSUME NEW paths, NEW I, I # {}, NEW p, Greatest(p, paths, I), NEW k,
           \A i \in I \cup {k} : IsSeq(DirOf(paths[i])),
           NEW r, r = CommonPathPrefix(p, DirOf(paths[k]))
    PROVE  Greatest(r, paths, I \cup {k})
<1> DEFINE J == I \cup {k}
           D(i) == DirOf(paths[i])
<1>1. \A i \in J : IsSeq(D(i))
  OBVIOUS
<1>2. /\ IsSeq(r) /\ IsPrefix(r, p) /\ IsPrefix(r, D(k))
      /\ \A c : IsSeq(c) /\ IsPrefix(c, p) /\ IsPrefix(c, D(k))
                    => Len(c) <= Len(r)
  BY <1>1, CommonPathPrefixFacts DEF Greatest
<1>3. ASSUME NEW i \in J
      PROVE  IsPrefix(r, D(i))
  <2>1. CASE i = k
    BY <1>2, <2>1
  <2>2. CASE i \in I
    BY <1>1, <1>2, <2>2, PrefixTransitive DEF Greatest
  <2> QED
    BY <2>1, <2>2
<1>4. ASSUME NEW j \in J, NEW n \in 0..Len(D(j)),
             \A i \in J : IsPrefix(SubSeq(D(j), 1, n), D(i))
      PROVE  n <= Len(r)
  <2> DEFINE c == SubSeq(D(j), 1, n)
  <2>1. j \in J
    OBVIOUS
  <2>2. IsSeq(c) /\ Len(c) = n
    BY <1>1, <2>1, FirstOf
  <2>3. PICK i \in I : TRUE
    OBVIOUS
  <2>4. IsPrefix(c, D(i)) /\ i \in J
    BY <1>4, <2>3
  <2>5. n \in 0..Len(D(i)) /\ c = SubSeq(D(i), 1, n)
    <3> HIDE DEF c
    <3> QED
      BY <1>1, <2>2, <2>4, PrefixIsFirst
  <2>6. \A m \in I : IsPrefix(SubSeq(D(i), 1, n), D(m))
    BY <1>4, <2>5
  <2>7. n <= Len(p)
    BY <2>3, <2>5, <2>6 DEF Greatest
  <2>8. IsPrefix(c, p)
    <3>1. IsSeq(p) /\ IsPrefix(p, D(i))
      BY <2>3 DEF Greatest
    <3> HIDE DEF c
    <3> QED
      BY <1>1, <2>2, <2>4, <2>7, <3>1, ShorterIsPrefix
  <2>9. IsPrefix(c, D(k))
    BY <1>4
  <2> HIDE DEF c
  <2> QED
    BY <1>2, <2>2, <2>8, <2>9
<1> QED
  BY <1>1, <1>2, <1>3, <1>4 DEF Greatest

LEMMA PrefixIsLongest ==
    ASSUME DbShape, Greatest(prefix, order, 1..Len(order)), Len(order) > 0
    PROVE  LongestCommonPrefix({DirOf(p) : p \in DOMAIN rows}) = prefix
<1> DEFINE D == {DirOf(p) : p \in DOMAIN rows}
           C == CommonPrefixes(D)
<1>1. /\ D = {Dir(i) : i \in 1..Len(order)}
      /\ \A i \in 1..Len(order) : IsSeq(Dir(i)) /\ Dir(i) \in D
  BY RowFacts DEF Dir
<1>2. ASSUME NEW c
      PROVE  c \in C <=> /\ \E i \in 1..Len(order) : \E n \in 0..Len(Dir(i)) :
                                c = SubSeq(Dir(i), 1, n)
                         /\ \A i \in 1..Len(order) : IsPrefix(c, Dir(i))
  <2>1. c \in UNION {Prefixes(seq) : seq \in D}
            <=> \E i \in 1..Len(order) : \E n \in 0..Len(Dir(i)) : c = SubSeq(Dir(i), 1, n)
    <3> HIDE DEF D
    <3>1. ASSUME c \in UNION {Prefixes(seq) : seq \in D}
          PROVE  \E i \in 1..Len(order) : \E n \in 0..Len(Dir(i)) : c = SubSeq(Dir(i), 1, n)
      <4>1. PICK seq \in D : c \in Prefixes(seq)
        BY <3>1
      <4>2. PICK i \in 1..Len(order) : seq = Dir(i)
        BY <1>1
      <4> QED
        BY <4>1, <4>2 DEF Prefixes
    <3>2. ASSUME NEW i \in 1..Len(order), NEW n \in 0..Len(Dir(i)), c = SubSeq(Dir(i), 1, n)
          PROVE  c \in UNION {Prefixes(seq) : seq \in D}
      <4>1. c \in Prefixes(Dir(i)) /\ Dir(i) \in D
        BY <1>1, <3>2 DEF Prefixes
      <4> QED
        BY <4>1
    <3> QED
      BY <3>1, <3>2
  <2>2. (\A t \in D : IsPrefix(c, t)) <=> \A i \in 1..Len(order) : IsPrefix(c, Dir(i))
    BY <1>1
  <2> QED
    BY <2>1, <2>2 DEF CommonPrefixes
<1>3. 1 \in 1..Len(order) /\ IsSeq(prefix) /\ Len(prefix) \in Nat
  BY RowFacts, IsSeqFacts DEF Greatest, Dir
<1>4. prefix \in C
  <2>1. Len(prefix) \in 0..Len(Dir(1)) /\ prefix = SubSeq(Dir(1), 1, Len(prefix))
    BY <1>1, <1>3, PrefixIsFirst DEF Greatest, Dir
  <2> QED
    BY <1>2, <1>3, <2>1 DEF Greatest, Dir
<1>5. ASSUME NEW c \in C
      PROVE  /\ IsSeq(c) /\ Len(c) \in Nat /\ Len(c) <= Len(prefix)
             /\ Len(prefix) <= Len(c) => c = prefix
  <2>1. PICK i \in 1..Len(order) : \E n \in 0..Len(Dir(i)) : c = SubSeq(Dir(i), 1, n)
    BY <1>2
  <2> PICK n \in 0..Len(Dir(i)) : c = SubSeq(Dir(i), 1, n)
    BY <2>1
  <2>2. IsSeq(c) /\ Len(c) = n
    BY <1>1, FirstOf
  <2>3. Len(c) <= Len(prefix)
    BY <1>2, <2>1, <2>2 DEF Greatest, Dir
  <2>4. Len(c) \in Nat
    BY <2>2, IsSeqFacts
  <2>5. IsPrefix(c, Dir(1)) /\ IsPrefix(prefix, Dir(1)) /\ IsSeq(Dir(1))
    BY <1>1, <1>2, <1>3 DEF Greatest, Dir
  <2>6. c = SubSeq(Dir(1), 1, Len(c)) /\ prefix = SubSeq(Dir(1), 1, Len(prefix))
    BY <1>3, <2>2, <2>5, PrefixIsFirst
  <2>7. Len(prefix) <= Len(c) => c = prefix
    <3>1. Len(prefix) <= Len(c) => Len(c) = Len(prefix)
      BY <1>3, <2>3, <2>4
    <3> QED
      BY <2>6, <3>1, Zenon
  <2> QED
    BY <2>2, <2>3, <2>4, <2>7
<1> HIDE DEF C
<1> DEFINE longest == CHOOSE longest \in C : \A other \in C : Len(other) <= Len(longest)
<1>6. longest \in C /\ \A other \in C : Len(other) <= Len(longest)
  <2>1. \E l \in C : \A other \in C : Len(other) <= Len(l)
    BY <1>4, <1>5
  <2> QED
    BY <2>1
<1>7. LongestCommonPrefix(D) = longest
  BY DEF LongestCommonPrefix, C
<1> HIDE DEF longest
<1> QED
  BY <1>4, <1>5, <1>6, <1>7

-----------------------------------------------------------------------------
(* The invariant of ScanDb *)

LEMMA OrderOf ==
    ASSUME NEW S, IsFiniteSet(S), NEW s \in SetToSeqs(S)
    PROVE  /\ IsSeq(s) /\ Range(s) = S /\ Len(s) = Cardinality(S)
           /\ \A i, j \in 1..Len(s) : s[i] = s[j] => i = j
<1> DEFINE n == Cardinality(S)
<1>1. n \in Nat
  BY FS_CardinalityType
<1>2. s \in [1..n -> S] /\ \A i, j \in 1..n : i # j => s[i] # s[j]
  BY DEF SetToSeqs
<1>3. Cardinality(1..n) = n
  <2> HIDE DEF n
  <2> QED
    BY <1>1, FS_Interval
<1>4. s \in Injection(1..n, S)
  BY <1>2 DEF Injection, IsInjective
<1>5. s \in Surjection(1..n, S)
  BY <1>3, <1>4, FS_Injection
<1>6. Range(s) = S
  BY <1>2, <1>5 DEF Surjection, Range
<1>7. IsSeq(s) /\ Len(s) = n
  <2> HIDE DEF n
  <2> QED
    BY <1>1, <1>2, FunctionIsSeq
<1> QED
  BY <1>2, <1>6, <1>7

LEMMA InitDbInv == DbInit => DbInv
<1> SUFFICES ASSUME DbInit PROVE DbInv
  OBVIOUS
<1> USE DEF DbInit
<1>1. IsSeq(<<>>) /\ Range(<<>>) = {} /\ Len(<<>>) = 0 /\ DOMAIN <<>> = {}
  BY EmptyRange
<1>2. DbShape
  BY <1>1 DEF DbShape, Begun
<1>3. Leads(told, PathOf)
  <2> DEFINE f == [i \in {} |-> 0]
  <2>1. Leads(<<>>, f)
    BY <1>1 DEF Leads
  <2> HIDE DEF f
  <2>2. Leads(<<>>, PathsTo(<<>>))
    BY <2>1 DEF PathsTo
  <2> QED
    BY <2>2, PathOfIsPathsTo
<1> QED
  BY <1>1, <1>2, <1>3
     DEF DbInv, PrefixRight, ToldShape, CreatedRight, FilesRight, HandlesRight,
         Descending, Begun

LEMMA Telling ==
    ASSUME ToldShape, NEW kind \in {"root", "dir", "file"}, NEW name,
           NEW dir \in 0..Len(told), Tell(kind, name, dir)
    PROVE  /\ ToldShape'
           /\ Len(told) \in Nat /\ Len(told') = Len(told) + 1
           /\ \A i \in 1..Len(told) : told'[i] = told[i] /\ PathOf'[i] = PathOf[i]
           /\ told'[Len(told) + 1] = [kind |-> kind, name |-> name, parent |-> dir]
           /\ PathOf'[Len(told) + 1] = IF dir = NoDir THEN name
                                       ELSE PathOf[dir] \o name
<1> DEFINE r == [kind |-> kind, name |-> name, parent |-> dir]
           n == Len(told)
<1>1. told' = Append(told, r)
  BY DEF Tell
<1>2. PathOf' = PathsTo(told')
  BY PathOfIsPathsTo DEF PathOf, PathsTo, Leads
<1>3. r.parent = dir /\ r.name = name /\ r.kind = kind
  OBVIOUS
<1> HIDE DEF r
<1>4. /\ IsSeq(told') /\ Len(told') = n + 1 /\ n \in Nat
      /\ \A i \in 1..n : told'[i] = told[i] /\ PathOf'[i] = PathOf[i]
      /\ told'[n + 1] = r
      /\ PathOf'[n + 1] = IF r.parent = NoDir THEN r.name ELSE PathOf[r.parent] \o r.name
      /\ Leads(told', PathOf')
  <2>1. Grounded(told) /\ Leads(told, PathOf)
    BY DEF ToldShape, Grounded
  <2>2. r.parent \in 0..Len(told)
    BY <1>3
  <2>3. Extended(told, PathOf, r, told', PathOf')
    BY <1>1, <1>2, <2>1, <2>2, PathAppended
  <2> QED
    BY <2>3 DEF Extended
<1>5. ToldShape'
  <2>1. ASSUME NEW i \in 1..(n + 1)
        PROVE  told'[i].kind \in {"root", "dir", "file"} /\ told'[i].parent \in 0..(i - 1)
    <3>1. CASE i \in 1..n
      BY <1>4, <3>1 DEF ToldShape
    <3>2. CASE i = n + 1
      <4>1. told'[i] = r /\ i - 1 = n
        BY <1>4, <3>2
      <4> QED
        BY <1>3, <4>1
    <3> QED
      BY <1>4, <3>1, <3>2
  <2> QED
    BY <1>4, <2>1 DEF ToldShape
<1> QED
  BY <1>3, <1>4, <1>5 DEF r

\* Nothing is told.
LEMMA Silence ==
    ASSUME UNCHANGED told
    PROVE  PathOf' = PathOf /\ (ToldShape => ToldShape') /\ (HandlesRight => HandlesRight')
<1>1. PathOf' = PathOf
  BY DEF PathOf
<1>2. told' = told
  OBVIOUS
<1> QED
  BY <1>1, <1>2 DEF ToldShape, HandlesRight

LEMMA AllAboveFacts ==
    ASSUME NEW paths, NEW I, NEW l, NEW k
    PROVE  /\ AllAbove(paths, {}, l) = {}
           /\ AllAbove(paths, I \cup {k}, l)
                = AllAbove(paths, I, l)
                    \cup Above(DirOf(paths[k]), l, Len(DirOf(paths[k])))
BY DEF AllAbove

LEMMA ReadStep ==
    ASSUME DbInv, Read
    PROVE  DbInv'
<1> USE DEF Read, cursor
<1>1. /\ rows' \in Databases /\ order' \in SetToSeqs(DOMAIN rows')
      /\ dbpc' = IF order' = <<>> THEN "done" ELSE "prefix"
      /\ at' = 1 /\ UNCHANGED <<created, told>>
      /\ told = <<>> /\ created = <<>>
  BY DEF DbInv, DbShape, Begun
<1>2. IsFiniteSet(DOMAIN rows')
  BY <1>1, DatabasesAssumption
<1>3. /\ IsSeq(order') /\ Range(order') = DOMAIN rows'
      /\ \A i, j \in 1..Len(order') : order'[i] = order'[j] => i = j
  BY <1>1, <1>2, OrderOf
<1>4. Len(order') \in Nat /\ (order' # <<>> => Len(order') > 0)
  BY <1>3, EmptySeq DEF IsSeq
<1>5. ~Begun'
  BY <1>1 DEF Begun
<1>6. DbShape'
  BY <1>1, <1>3, <1>4, <1>5 DEF DbShape
<1>7. ToldShape' /\ HandlesRight'
  BY <1>1, Silence DEF DbInv
<1>8. PrefixRight'
  <2>1. CASE dbpc' = "prefix"
    <3>1. prefix' = Dir(1)' /\ 1 \in 1..Len(order')
      BY <1>1, <1>4, <2>1 DEF Dir
    <3>2. IsSeq(Dir(1)') /\ Len(Dir(1)') \in Nat
      <4>1. order'[1] \in DOMAIN rows'
        BY <1>3, <3>1, IsSeqFacts
      <4>2. IsSeq(order'[1]) /\ order'[1] # <<>>
        BY <1>1, <4>1, DatabasesAssumption DEF IsSeq
      <4>3. Dir(1)' = DirOf(order'[1])
        BY DEF Dir
      <4> QED
        BY <4>2, <4>3, DirOfFacts, IsSeqFacts
    <3>3. IsPrefix(prefix', Dir(1)')
      BY <3>1, <3>2, PrefixElements
    <3>4. {1} \cup 1..(at' - 1) = {1}
      BY <1>1
    <3>5. Greatest(prefix', order', {1})
      BY <3>1, <3>2, <3>3 DEF Greatest
    <3> QED
      BY <1>5, <2>1, <3>4, <3>5 DEF PrefixRight
  <2>2. CASE dbpc' # "prefix"
    BY <1>1, <1>5, <2>2 DEF PrefixRight
  <2> QED
    BY <2>1, <2>2
<1> QED
  BY <1>1, <1>5, <1>6, <1>7, <1>8
     DEF DbInv, CreatedRight, FilesRight, Descending

LEMMA ReadFailsStep ==
    ASSUME DbInv, ReadFails
    PROVE  DbInv'
<1> USE DEF ReadFails, iteration, cursor
<1>1. ~Begun /\ ~Begun' /\ dbpc' = "thrown"
      /\ UNCHANGED <<rows, order, at, prefix, created, told>>
  BY DEF Begun
<1>2. DbShape'
  BY <1>1 DEF DbInv, DbShape
<1>3. ToldShape' /\ HandlesRight'
  BY <1>1, Silence DEF DbInv
<1> QED
  BY <1>1, <1>2, <1>3
     DEF DbInv, PrefixRight, CreatedRight, FilesRight, Descending

LEMMA ShortenPrefixStep ==
    ASSUME DbInv, ShortenPrefix
    PROVE  DbInv'
<1> USE DEF ShortenPrefix, iteration, cursor
<1>1. ~Begun /\ ~Begun' /\ UNCHANGED <<rows, order, created, told>>
  BY DEF Begun
<1>2. /\ Len(order) \in Nat /\ at \in 1..Len(order)
      /\ dbpc' = (IF at = Len(order) THEN "root" ELSE "prefix")
      /\ at' = (IF at = Len(order) THEN 1 ELSE at + 1)
  BY RowFacts DEF DbInv, DbShape, LastRow
<1>3. DbShape'
  BY <1>1, <1>2 DEF DbInv, DbShape
<1>4. ToldShape' /\ HandlesRight'
  BY <1>1, Silence DEF DbInv
<1> DEFINE I == {1} \cup 1..(at - 1)
<1>5. Greatest(prefix, order, I) /\ I # {} /\ I \cup {at} = 1..at
  BY <1>2 DEF DbInv, PrefixRight
<1>6. Greatest(prefix', order, 1..at)
  <2>1. \A i \in I \cup {at} : IsSeq(DirOf(order[i]))
    <3>1. \A i \in 1..Len(order) : IsSeq(Dir(i))
      BY RowFacts DEF DbInv
    <3>2. I \cup {at} \subseteq 1..Len(order)
      BY <1>2, <1>5
    <3> HIDE DEF I, ShortenPrefix
    <3> QED
      BY <3>1, <3>2 DEF Dir
  <2>2. prefix' = CommonPathPrefix(prefix, DirOf(order[at]))
    OBVIOUS
  <2> HIDE DEF I
  <2>3. Greatest(prefix', order, I \cup {at})
    BY <1>5, <2>1, <2>2, PrefixShortened
  <2> QED
    BY <1>5, <2>3
<1>7. PrefixRight'
  <2>1. CASE at = Len(order)
    BY <1>1, <1>2, <1>6, <2>1 DEF PrefixRight
  <2>2. CASE at # Len(order)
    <3>1. {1} \cup 1..(at' - 1) = 1..at
      BY <1>2, <2>2
    <3> QED
      BY <1>1, <1>2, <1>6, <2>2, <3>1 DEF PrefixRight
  <2> QED
    BY <2>1, <2>2
<1> QED
  BY <1>1, <1>2, <1>3, <1>4, <1>7
     DEF DbInv, CreatedRight, FilesRight, Descending

LEMMA RootDirStep ==
    ASSUME DbInv, RootDir
    PROVE  DbInv'
<1> USE DEF RootDir, iteration, cursor
<1>1. /\ ~Begun /\ told = <<>> /\ Len(told) = 0 /\ dbpc' = "rows" /\ at' = 1
      /\ UNCHANGED <<rows, order, prefix>>
      /\ Len(order) \in Nat /\ Len(order) > 0
  BY RowFacts DEF DbInv, DbShape, Begun
<1>2. /\ ToldShape' /\ Len(told') = 1
      /\ told'[1] = [kind |-> "root", name |-> prefix, parent |-> 0]
      /\ PathOf'[1] = prefix
  <2>1. Tell("root", prefix, NoDir) /\ NoDir \in 0..Len(told)
    BY <1>1 DEF NoDir
  <2>2. /\ ToldShape' /\ Len(told') = Len(told) + 1
        /\ told'[Len(told) + 1] = [kind |-> "root", name |-> prefix, parent |-> NoDir]
        /\ PathOf'[Len(told) + 1] = prefix
    BY <2>1, Telling DEF DbInv
  <2> QED
    BY <1>1, <2>2 DEF NoDir
<1>3. Begun'
  BY <1>1 DEF Begun
<1>4. DbShape'
  BY <1>1, <1>3 DEF DbInv, DbShape
<1>5. PrefixRight'
  BY <1>1, <1>3 DEF DbInv, PrefixRight
<1>6. Upper' = {prefix} /\ Finished' = {}
  <2>1. Finished' = {}
    BY <1>1 DEF Finished
  <2> QED
    BY <1>1, <2>1, AllAboveFacts DEF Upper
<1>7. IsFiniteSet({prefix}) /\ Cardinality({prefix}) = 1 /\ Cardinality({}) = 0
  BY FS_Singleton, FS_EmptySet
<1>8. created' = [d \in {prefix} |-> 1]
  BY <1>2
<1>9. \A i \in 1..Len(told') : i = 1
  BY <1>2
<1>10. CreatedRight'
  BY <1>1, <1>2, <1>6, <1>7, <1>8, <1>9 DEF CreatedRight
<1>11. FilesRight'
  BY <1>2, <1>6, <1>7, <1>9 DEF FilesRight
<1>12. HandlesRight'
  BY <1>2, <1>9 DEF HandlesRight, NoDir
<1> QED
  BY <1>1, <1>2, <1>4, <1>5, <1>10, <1>11, <1>12 DEF DbInv, Descending

LEMMA BeginRowStep ==
    ASSUME DbInv, BeginRow
    PROVE  DbInv'
<1> USE DEF BeginRow, iteration
<1>1. /\ Begun /\ Begun' /\ dbpc = "rows" /\ dbpc' = "descend"
      /\ UNCHANGED <<rows, order, at, prefix, created, told>>
      /\ Len(order) \in Nat /\ at \in 1..Len(order)
  BY RowFacts DEF DbInv, DbShape, Begun
<1>2. DbShape' /\ PrefixRight'
  BY <1>1 DEF DbInv, DbShape, PrefixRight
<1>3. ToldShape' /\ HandlesRight' /\ PathOf' = PathOf
  BY <1>1, Silence DEF DbInv
<1>4. /\ IsSeq(prefix) /\ Len(prefix) \in Nat /\ IsPrefix(prefix, DirOf(order[at]))
  BY <1>1, IsSeqFacts DEF DbInv, PrefixRight, Greatest
<1>5. Upper' = Upper /\ Finished' = Finished
  <2>1. Above(DirOf(order[at]), Len(prefix), Len(prefix)) = {}
    <3> DEFINE L == Len(prefix)
    <3>1. L \in Nat
      BY <1>4
    <3>2. Above(DirOf(order[at]), L, L) = {}
      <4> HIDE DEF L
      <4>1. (L + 1)..L = {}
        BY <3>1
      <4> QED
        BY <4>1 DEF Above
    <3> QED
      BY <3>2
  <2>2. Finished' = Finished
    BY <1>1 DEF Finished
  <2> QED
    BY <1>1, <2>1, <2>2 DEF Upper
<1>6. CreatedRight' /\ FilesRight'
  BY <1>1, <1>3, <1>5 DEF DbInv, CreatedRight, FilesRight
<1>7. rest' = SubSeq(DirOf(order[at]), Len(prefix) + 1, Len(DirOf(order[at])))
  BY <1>1, RowFacts DEF DbInv, RestOf, Dir
<1>8. prefix \in Upper
  BY DEF Upper
<1>9. Descending'
  BY <1>1, <1>4, <1>5, <1>7, <1>8 DEF Descending, Dir
<1> QED
  BY <1>2, <1>3, <1>6, <1>9 DEF DbInv

LEMMA DescentFacts ==
    ASSUME DbInv, dbpc = "descend", NEW d, d = DirOf(order[at])
    PROVE  /\ Begun /\ Len(order) \in Nat /\ at \in 1..Len(order)
           /\ Finished = 1..(at - 1) /\ IsFiniteSet(Upper) /\ DOMAIN created = Upper
           /\ IsSeq(d) /\ Len(d) \in Nat /\ d = SubSeq(order[at], 1, Len(order[at]) - 1)
           /\ IsSeq(order[at]) /\ Len(d) = Len(order[at]) - 1 /\ Len(order[at]) \in Nat \ {0}
           /\ Len(prefix) \in Nat /\ Len(prefix) <= Len(parent)
           /\ IsSeq(parent) /\ Len(parent) \in 0..Len(d) /\ IsPrefix(parent, d)
           /\ rest = SubSeq(d, Len(parent) + 1, Len(d))
           /\ Len(rest) = Len(d) - Len(parent) /\ IsSeq(rest)
           /\ parent \in Upper /\ handle = created[parent] /\ handle \in 1..Len(told)
           /\ PathOf[handle] = parent /\ told[handle].kind # "file"
<1>1. Begun
  BY DEF Begun
<1>2. Len(order) \in Nat /\ at \in 1..Len(order)
  BY RowFacts DEF DbInv, DbShape
<1>3. /\ IsSeq(d) /\ d = SubSeq(order[at], 1, Len(order[at]) - 1)
      /\ IsSeq(order[at]) /\ Len(d) = Len(order[at]) - 1
      /\ Len(order[at]) \in Nat \ {0} /\ Len(d) \in Nat
  BY <1>2, RowFacts DEF DbInv, Dir
<1>4. Len(prefix) \in Nat
  BY <1>1, IsSeqFacts DEF DbInv, PrefixRight, Greatest
<1>5. /\ IsSeq(parent) /\ IsPrefix(parent, d) /\ Len(prefix) <= Len(parent)
      /\ rest = SubSeq(d, Len(parent) + 1, Len(d))
      /\ parent \in Upper /\ handle = created[parent]
  BY DEF DbInv, Descending, Dir
<1>6. Len(parent) \in 0..Len(d)
  BY <1>3, <1>5, PrefixIsFirst
<1>7. /\ DOMAIN created = Upper /\ IsFiniteSet(Upper)
      /\ handle \in 1..Len(told) /\ PathOf[handle] = parent
      /\ told[handle].kind # "file"
  BY <1>1, <1>5 DEF DbInv, CreatedRight
<1>8. Finished = 1..(at - 1)
  BY DEF Finished
<1>9. Len(rest) = Len(d) - Len(parent) /\ IsSeq(rest)
  <2>1. Len(parent) + 1 \in 1..Len(d) + 1 /\ Len(d) \in (Len(parent) + 1) - 1..Len(d)
    BY <1>3, <1>6
  <2> DEFINE r == SubSeq(d, Len(parent) + 1, Len(d))
  <2>2. Len(r) = Len(d) + 1 - (Len(parent) + 1) /\ IsSeq(r)
    BY <1>3, <2>1, PartOf
  <2>3. rest = r
    BY <1>5
  <2>4. Len(d) \in Nat /\ Len(parent) \in Nat
    BY <1>3, <1>6
  <2> HIDE DEF r
  <2> QED
    BY <2>2, <2>3, <2>4
<1> QED
  BY <1>1, <1>2, <1>3, <1>4, <1>5, <1>6, <1>7, <1>8, <1>9

LEMMA NextComponent ==
    ASSUME DbInv, Descend, NEW d, d = DirOf(order[at]), NEW n, n = Len(parent) + 1
    PROVE  /\ n \in 1..Len(d) /\ Len(prefix) < n
           /\ ToInsert = SubSeq(d, 1, n) /\ parent \o <<Head(rest)>> = ToInsert
           /\ IsSeq(ToInsert) /\ Len(ToInsert) = n /\ IsPrefix(ToInsert, d)
           /\ ToInsert # prefix
           /\ Tail(rest) = SubSeq(d, n + 1, Len(d))
           /\ Upper' = Upper \cup {ToInsert} /\ Finished' = Finished
           /\ Begun' /\ DbShape' /\ PrefixRight'
<1>1. dbpc = "descend" /\ rest # <<>> /\ parent' = ToInsert
      /\ UNCHANGED <<dbpc, rows, order, at, prefix>>
  BY DEF Descend, iteration
<1>2. /\ IsSeq(d) /\ Len(d) \in Nat /\ Len(prefix) \in Nat /\ Len(prefix) <= Len(parent)
      /\ IsSeq(parent) /\ Len(parent) \in 0..Len(d) /\ IsPrefix(parent, d)
      /\ rest = SubSeq(d, Len(parent) + 1, Len(d))
      /\ Len(rest) = Len(d) - Len(parent) /\ IsSeq(rest)
      /\ Finished = 1..(at - 1)
  BY <1>1, DescentFacts
<1>3. n \in 1..Len(d) /\ Len(parent) < Len(d) /\ Len(prefix) < n
  <2>1. Len(rest) # 0
    BY <1>1, <1>2, EmptySeq DEF IsSeq
  <2> QED
    BY <1>2, <2>1
<1>4. Head(rest) = d[n] /\ Tail(rest) = SubSeq(d, n + 1, Len(d))
  <2>1. d \in Seq(Range(d)) /\ n \in 1..Len(d) /\ Len(d) \in n..Len(d)
    BY <1>2, <1>3 DEF IsSeq
  <2>2. rest = SubSeq(d, n, Len(d))
    BY <1>2
  <2> QED
    BY <2>1, <2>2, HeadTailOfSubSeq
<1>5. ToInsert = SubSeq(d, 1, n) /\ parent \o <<Head(rest)>> = ToInsert
  BY <1>2, <1>3, <1>4, PrefixGrows DEF ToInsert
<1>6. IsSeq(ToInsert) /\ Len(ToInsert) = n /\ IsPrefix(ToInsert, d)
  <2>1. n \in 0..Len(d)
    BY <1>3
  <2> QED
    BY <1>2, <1>5, <2>1, FirstOf, FirstIsPrefix
<1>7. ToInsert # prefix
  BY <1>3, <1>6
<1>8. Finished' = Finished
  BY <1>1 DEF Finished
<1>9. Upper' = Upper \cup {ToInsert}
  <2>1. Above(d, Len(prefix), n) = Above(d, Len(prefix), Len(parent)) \cup {ToInsert}
    <3>1. Len(parent) \in Nat /\ Len(prefix) \in Nat /\ Len(prefix) <= Len(parent)
      BY <1>2
    <3>2. ToInsert = SubSeq(d, 1, n)
      BY <1>5
    <3> DEFINE L == Len(prefix)
               M == Len(parent)
               T == ToInsert
    <3>3. L \in Nat /\ M \in Nat /\ L <= M /\ n = M + 1 /\ T = SubSeq(d, 1, n)
      BY <3>1, <3>2
    <3>4. Above(d, L, n) = Above(d, L, M) \cup {T}
      <4> HIDE DEF L, M, T
      <4>1. \A i : i \in (L + 1)..n <=> i \in (L + 1)..M \/ i = n
        BY <3>3
      <4> QED
        BY <3>3, <4>1 DEF Above
    <3> QED
      BY <3>4
  <2>2. Upper' = {prefix} \cup AllAbove(order, Finished, Len(prefix))
                          \cup Above(d, Len(prefix), Len(ToInsert))
    BY <1>1, <1>8 DEF Upper
  <2>3. Upper = {prefix} \cup AllAbove(order, Finished, Len(prefix))
                         \cup Above(d, Len(prefix), Len(parent))
    BY <1>1 DEF Upper
  <2> QED
    BY <1>6, <2>1, <2>2, <2>3
<1>10. Begun /\ Begun'
  BY <1>1 DEF Begun
<1>11. DbShape' /\ PrefixRight'
  BY <1>1, <1>10 DEF DbInv, DbShape, PrefixRight
<1> QED
  BY <1>3, <1>4, <1>5, <1>6, <1>7, <1>8, <1>9, <1>10, <1>11

LEMMA DescendStep ==
    ASSUME DbInv, Descend
    PROVE  DbInv'
<1> DEFINE d == DirOf(order[at])
           n == Len(parent) + 1
<1>1. /\ dbpc = "descend" /\ parent' = ToInsert
      /\ handle' = created'[ToInsert] /\ rest' = Tail(rest)
      /\ UNCHANGED <<dbpc, rows, order, at, prefix>>
  BY DEF Descend, iteration
<1>2. /\ Begun /\ DOMAIN created = Upper /\ IsFiniteSet(Upper) /\ IsSeq(d)
      /\ handle \in 1..Len(told) /\ PathOf[handle] = parent
      /\ told[handle].kind # "file" /\ Finished = 1..(at - 1)
  BY <1>1, DescentFacts
<1>3. /\ n \in 1..Len(d) /\ Len(prefix) < n
      /\ parent \o <<Head(rest)>> = ToInsert
      /\ IsSeq(ToInsert) /\ Len(ToInsert) = n /\ IsPrefix(ToInsert, d)
      /\ ToInsert # prefix
      /\ Tail(rest) = SubSeq(d, n + 1, Len(d))
      /\ Upper' = Upper \cup {ToInsert} /\ Finished' = Finished
      /\ Begun' /\ DbShape' /\ PrefixRight'
  BY NextComponent
<1> DEFINE t == ToInsert
<1>4. Descending'
  <2>1. Len(prefix') <= Len(parent')
    BY <1>1, <1>3, IsSeqFacts DEF DbInv, PrefixRight, Greatest
  <2> QED
    BY <1>1, <1>3, <2>1 DEF Descending, Dir
<1>5. CASE Known(ToInsert)
  <2>1. UNCHANGED <<told, created>>
    BY <1>5 DEF Descend
  <2>2. Upper' = Upper
    BY <1>2, <1>3, <1>5 DEF Known
  <2>3. ToldShape' /\ HandlesRight' /\ PathOf' = PathOf
    BY <2>1, Silence DEF DbInv
  <2>4. UNCHANGED <<told, created, prefix, order, Upper, Finished, PathOf>>
    BY <1>1, <1>3, <2>1, <2>2, <2>3
  <2>5. CreatedRight'
    BY <1>2, <2>4 DEF DbInv, CreatedRight
  <2>6. FilesRight'
    BY <1>2, <2>4 DEF DbInv, FilesRight
  <2> QED
    BY <1>3, <1>4, <2>3, <2>5, <2>6 DEF DbInv
<1>6. CASE ~Known(ToInsert)
  <2>1. /\ Tell("dir", <<Head(rest)>>, handle)
        /\ created' = [p \in Upper \cup {t} |->
                          IF p = t THEN Len(told') ELSE created[p]]
    BY <1>2, <1>6 DEF Descend
  <2>2. t \notin Upper
    BY <1>2, <1>6 DEF Known
  <2>3. /\ ToldShape' /\ Len(told) \in Nat /\ Len(told') = Len(told) + 1
        /\ \A i \in 1..Len(told) : told'[i] = told[i] /\ PathOf'[i] = PathOf[i]
        /\ told'[Len(told) + 1] = [kind |-> "dir", name |-> <<Head(rest)>>,
                                   parent |-> handle]
        /\ PathOf'[Len(told) + 1] = t
    <3>1. handle \in 0..Len(told) /\ handle # NoDir
      BY <1>2 DEF NoDir
    <3>2. ToldShape
      BY DEF DbInv
    <3>3. /\ ToldShape' /\ Len(told) \in Nat /\ Len(told') = Len(told) + 1
          /\ \A i \in 1..Len(told) : told'[i] = told[i] /\ PathOf'[i] = PathOf[i]
          /\ told'[Len(told) + 1] = [kind |-> "dir", name |-> <<Head(rest)>>,
                                     parent |-> handle]
          /\ PathOf'[Len(told) + 1] = IF handle = NoDir THEN <<Head(rest)>>
                                      ELSE PathOf[handle] \o <<Head(rest)>>
      BY <2>1, <3>1, <3>2, Telling
    <3> QED
      BY <1>2, <1>3, <3>1, <3>3
  <2> HIDE DEF t, d, n
  <2> DEFINE m == Len(told)
  <2>4. \A i \in 1..(m + 1) : i \in 1..m \/ i = m + 1
    BY <2>3
  <2>5. m + 1 \in 1..(m + 1) /\ \A i \in 1..m : i \in 1..(m + 1) /\ i # m + 1
    BY <2>3
  <2>6. told'[m + 1].kind = "dir" /\ told'[m + 1].parent = handle
    BY <2>3
  <2> HIDE DEF m
  <2>7. CreatedRight'
    <3>1. Upper' = Upper \cup {t} /\ IsFiniteSet(Upper \cup {t})
      BY <1>2, <1>3, FS_AddElement DEF t
    <3>2. DOMAIN created' = Upper' /\ created'[t] = m + 1
          /\ \A p \in Upper : created'[p] = created[p]
      BY <2>1, <2>2, <2>3, <3>1 DEF m
    <3>3. t # prefix /\ prefix \in Upper /\ prefix' = prefix
      BY <1>1, <1>3 DEF t, Upper
    <3>4. ASSUME NEW p \in Upper'
          PROVE  /\ created'[p] \in 1..Len(told')
                 /\ PathOf'[created'[p]] = p
                 /\ told'[created'[p]].kind = IF p = prefix' THEN "root" ELSE "dir"
      <4>1. CASE p \in Upper
        <5>1. /\ created[p] \in 1..m /\ PathOf[created[p]] = p
              /\ told[created[p]].kind = IF p = prefix THEN "root" ELSE "dir"
          BY <1>2, <4>1 DEF DbInv, CreatedRight, m
        <5> QED
          BY <2>3, <2>5, <3>2, <3>3, <4>1, <5>1 DEF m
      <4>2. CASE p = t
        BY <2>3, <2>5, <2>6, <3>2, <3>3, <4>2 DEF m
      <4> QED
        BY <3>1, <4>1, <4>2
    <3>5. ASSUME NEW i \in 1..Len(told'), told'[i].kind # "file"
          PROVE  PathOf'[i] \in Upper' /\ created'[PathOf'[i]] = i
      <4>1. CASE i \in 1..m
        <5>1. told'[i] = told[i] /\ PathOf'[i] = PathOf[i]
          BY <2>3, <4>1 DEF m
        <5>2. PathOf[i] \in Upper /\ created[PathOf[i]] = i
          BY <1>2, <3>5, <4>1, <5>1 DEF DbInv, CreatedRight, m
        <5> QED
          BY <3>1, <3>2, <5>1, <5>2
      <4>2. CASE i = m + 1
        BY <2>3, <3>1, <3>2, <4>2 DEF m
      <4> QED
        BY <2>3, <2>4, <4>1, <4>2 DEF m
    <3> QED
      BY <3>1, <3>2, <3>4, <3>5 DEF CreatedRight
  <2>8. FilesRight'
    <3>1. Cardinality(Upper') = Cardinality(Upper) + 1
      BY <1>2, <1>3, <2>2, FS_AddElement DEF t
    <3>2. /\ \A i \in 1..m : told[i].kind = "file" =>
                 \E j \in Finished : PathOf[i] = order[j]
          /\ \A j \in Finished :
                 \E i \in 1..m : told[i].kind = "file" /\ PathOf[i] = order[j]
          /\ \A i, j \in 1..m : /\ told[i].kind = "file" /\ told[j].kind = "file"
                                /\ PathOf[i] = PathOf[j]
                                => i = j
          /\ m = Cardinality(Upper) + Cardinality(Finished)
      BY <1>2 DEF DbInv, FilesRight, m
    <3>3. \A i \in 1..Len(told') : told'[i].kind = "file" =>
              i \in 1..m /\ told[i].kind = "file" /\ PathOf'[i] = PathOf[i]
      BY <2>3, <2>4, <2>6 DEF m
    <3>4. \A i \in 1..m : i \in 1..Len(told') /\ told'[i] = told[i]
                             /\ PathOf'[i] = PathOf[i]
      BY <2>3, <2>5 DEF m
    <3>5. Cardinality(Upper) \in Nat /\ Cardinality(Finished) \in Nat
      <4>1. IsFiniteSet(Finished)
        BY <1>2, FS_Interval DEF DbInv, DbShape
      <4> QED
        BY <1>2, <4>1, FS_CardinalityType
    <3>6. Len(told') = Cardinality(Upper') + Cardinality(Finished')
      BY <1>3, <2>3, <3>1, <3>2, <3>5 DEF m
    <3>7. Finished' = Finished /\ order' = order
      BY <1>1, <1>3
    <3> QED
      BY <3>2, <3>3, <3>4, <3>6, <3>7 DEF FilesRight
  <2>9. HandlesRight'
    <3>1. m # 0
      BY <1>2 DEF m
    <3>2. \A i \in 1..m : told[i].parent \in 0..(i - 1)
      BY DEF DbInv, ToldShape, m
    <3>3. ASSUME NEW i \in 1..Len(told')
          PROVE  /\ told'[i].parent = NoDir <=> i = 1
                 /\ told'[i].kind = "root" <=> i = 1
                 /\ i # 1 => told'[told'[i].parent].kind # "file"
      <4>1. CASE i \in 1..m
        <5>1. /\ told[i].parent = NoDir <=> i = 1
              /\ told[i].kind = "root" <=> i = 1
              /\ i # 1 => told[told[i].parent].kind # "file"
          BY <4>1 DEF DbInv, HandlesRight, m
        <5>2. i # 1 => told[i].parent \in 1..m
          BY <2>3, <3>2, <4>1, <5>1 DEF NoDir, m
        <5> QED
          BY <2>3, <4>1, <5>1, <5>2 DEF m
      <4>2. CASE i = m + 1
        <5>1. told'[i].kind = "dir" /\ told'[i].parent = handle /\ i # 1
          BY <2>3, <2>6, <3>1, <4>2 DEF m
        <5>2. handle \in 1..m /\ told'[handle] = told[handle]
          BY <1>2, <2>3 DEF m
        <5> QED
          BY <1>2, <5>1, <5>2 DEF NoDir
      <4> QED
        BY <2>3, <2>4, <4>1, <4>2 DEF m
    <3> QED
      BY <3>3 DEF HandlesRight
  <2> QED
    BY <1>3, <1>4, <2>3, <2>7, <2>8, <2>9 DEF DbInv
<1> QED
  BY <1>5, <1>6

LEMMA RowEnd ==
    ASSUME DbInv, File
    PROVE  /\ parent = DirOf(order[at])
           /\ parent \o <<Last(order[at])>> = order[at]
           /\ Finished' = Finished \cup {at} /\ at \notin Finished
           /\ Upper' = Upper
           /\ Begun' /\ DbShape' /\ PrefixRight'
<1> DEFINE d == DirOf(order[at])
           p == order[at]
<1>1. /\ dbpc = "descend" /\ rest = <<>>
      /\ UNCHANGED <<rows, order, prefix, created, parent>>
      /\ at' = (IF at = Len(order) THEN at ELSE at + 1)
      /\ dbpc' = (IF at = Len(order) THEN "done" ELSE "rows")
  BY DEF File, iteration, cursor, LastRow
<1>2. /\ Begun /\ Len(order) \in Nat /\ at \in 1..Len(order)
      /\ Finished = 1..(at - 1)
      /\ IsSeq(d) /\ Len(d) \in Nat
      /\ IsSeq(p) /\ Len(d) = Len(p) - 1 /\ Len(p) \in Nat \ {0}
      /\ IsSeq(parent) /\ Len(parent) \in 0..Len(d) /\ IsPrefix(parent, d)
      /\ Len(rest) = Len(d) - Len(parent)
  BY <1>1, DescentFacts
<1>3. d = SubSeq(p, 1, Len(p) - 1)
  BY <1>1, DescentFacts
<1>4. parent = d
  <2>1. Len(parent) = Len(d)
    BY <1>1, <1>2, EmptyRange
  <2>2. parent = SubSeq(d, 1, Len(d)) /\ d = SubSeq(d, 1, Len(d))
    <3>1. IsPrefix(d, d)
      BY <1>2, PrefixElements
    <3> HIDE DEF d
    <3> QED
      BY <1>2, <2>1, <3>1, PrefixIsFirst
  <2> QED
    BY <2>2
<1>5. parent \o <<Last(p)>> = p
  <2>1. IsPrefix(d, p)
    <3>1. Len(p) - 1 \in 0..Len(p)
      BY <1>2
    <3> QED
      BY <1>2, <1>3, <3>1, FirstIsPrefix
  <2>2. IsPrefix(p, p) /\ Len(d) < Len(p) /\ Len(d) + 1 = Len(p)
    BY <1>2, PrefixElements
  <2> HIDE DEF d, p
  <2>3. d \o <<p[Len(d) + 1]>> = SubSeq(p, 1, Len(d) + 1)
    BY <1>2, <2>1, <2>2, PrefixGrows
  <2>4. p = SubSeq(p, 1, Len(p))
    BY <1>2, <2>2, PrefixIsFirst
  <2>5. Last(p) = p[Len(p)]
    BY DEF Last
  <2> QED
    BY <1>4, <2>2, <2>3, <2>4, <2>5
<1>6. Finished' = 1..at /\ Finished' = Finished \cup {at} /\ at \notin Finished
  BY <1>1, <1>2 DEF Finished
<1>7. Upper' = Upper
  <2>1. AllAbove(order, Finished \cup {at}, Len(prefix))
            = AllAbove(order, Finished, Len(prefix)) \cup Above(d, Len(prefix), Len(d))
    BY DEF AllAbove
  <2>2. Upper' = {prefix} \cup AllAbove(order, Finished \cup {at}, Len(prefix))
    BY <1>1, <1>6 DEF Upper
  <2>3. Upper = {prefix} \cup AllAbove(order, Finished, Len(prefix))
                         \cup Above(d, Len(prefix), Len(parent))
    BY <1>1 DEF Upper
  <2>4. Len(parent) = Len(d)
    BY <1>4
  <2> HIDE DEF d
  <2> QED
    BY <2>1, <2>2, <2>3, <2>4
<1>8. Begun'
  <2>1. told' # <<>>
    <3>1. /\ ToldShape /\ handle \in 0..Len(told)
      BY <1>1, DescentFacts DEF DbInv
    <3>2. Len(told') = Len(told) + 1 /\ Len(told) \in Nat
      BY <3>1, Telling DEF File
    <3> QED
      BY <3>2, EmptyRange
  <2> QED
    BY <1>1, <2>1 DEF Begun
<1>9. DbShape'
  BY <1>1, <1>2, <1>8 DEF DbInv, DbShape
<1>10. PrefixRight'
  BY <1>1, <1>2, <1>8 DEF DbInv, PrefixRight
<1> QED
  BY <1>4, <1>5, <1>6, <1>7, <1>8, <1>9, <1>10

LEMMA FileStep ==
    ASSUME DbInv, File
    PROVE  DbInv'
<1> DEFINE m == Len(told)
           p == order[at]
<1>1. /\ dbpc = "descend" /\ dbpc' # "descend"
      /\ UNCHANGED <<rows, order, prefix, created>>
      /\ Tell("file", <<Last(p)>>, handle)
  BY DEF File, iteration, cursor, LastRow
<1>2. /\ Begun /\ Len(order) \in Nat /\ at \in 1..Len(order)
      /\ IsFiniteSet(Upper) /\ DOMAIN created = Upper /\ Finished = 1..(at - 1)
      /\ handle \in 1..m /\ PathOf[handle] = parent
      /\ told[handle].kind # "file"
  BY <1>1, DescentFacts
<1>3. /\ parent \o <<Last(p)>> = p
      /\ Finished' = Finished \cup {at} /\ at \notin Finished
      /\ Upper' = Upper
      /\ Begun' /\ DbShape' /\ PrefixRight'
  BY RowEnd
<1>4. /\ ToldShape' /\ m \in Nat /\ Len(told') = m + 1
      /\ \A i \in 1..m : told'[i] = told[i] /\ PathOf'[i] = PathOf[i]
      /\ told'[m + 1] = [kind |-> "file", name |-> <<Last(p)>>, parent |-> handle]
      /\ PathOf'[m + 1] = p
  <2>1. handle \in 0..m /\ handle # NoDir /\ ToldShape
    BY <1>2 DEF NoDir, DbInv
  <2>2. /\ ToldShape' /\ m \in Nat /\ Len(told') = m + 1
        /\ \A i \in 1..m : told'[i] = told[i] /\ PathOf'[i] = PathOf[i]
        /\ told'[m + 1] = [kind |-> "file", name |-> <<Last(p)>>, parent |-> handle]
        /\ PathOf'[m + 1] = IF handle = NoDir THEN <<Last(p)>>
                            ELSE PathOf[handle] \o <<Last(p)>>
    BY ZenonT(60), <1>1, <2>1, Telling
  <2> QED
    BY <1>2, <1>3, <2>1, <2>2
<1>5. \A i \in 1..(m + 1) : i \in 1..m \/ i = m + 1
  BY <1>4
<1>6. m + 1 \in 1..(m + 1) /\ \A i \in 1..m : i \in 1..(m + 1) /\ i # m + 1
  BY <1>4
<1>7. told'[m + 1].kind = "file" /\ told'[m + 1].parent = handle
  BY <1>4
<1> HIDE DEF m, p
<1>8. CreatedRight'
  <2>1. \A u \in Upper : /\ created[u] \in 1..m
                         /\ PathOf[created[u]] = u
                         /\ told[created[u]].kind = IF u = prefix THEN "root" ELSE "dir"
    BY <1>2 DEF DbInv, CreatedRight, m
  <2>2. \A u \in Upper : /\ created'[u] \in 1..Len(told')
                         /\ PathOf'[created'[u]] = u
                         /\ told'[created'[u]].kind = IF u = prefix' THEN "root" ELSE "dir"
    BY <1>1, <1>4, <1>6, <2>1
  <2>3. \A i \in 1..m : told[i].kind # "file" =>
            PathOf[i] \in Upper /\ created[PathOf[i]] = i
    BY <1>2 DEF DbInv, CreatedRight, m
  <2>4. \A i \in 1..Len(told') : told'[i].kind # "file" =>
            PathOf'[i] \in Upper' /\ created'[PathOf'[i]] = i
    BY <1>1, <1>3, <1>4, <1>5, <1>7, <2>3
  <2> QED
    BY <1>1, <1>2, <1>3, <2>2, <2>4 DEF CreatedRight
<1>9. FilesRight'
  <2>1. /\ \A i \in 1..m : told[i].kind = "file" =>
               \E j \in Finished : PathOf[i] = order[j]
        /\ \A j \in Finished :
               \E i \in 1..m : told[i].kind = "file" /\ PathOf[i] = order[j]
        /\ \A i, j \in 1..m : /\ told[i].kind = "file" /\ told[j].kind = "file"
                              /\ PathOf[i] = PathOf[j]
                              => i = j
        /\ m = Cardinality(Upper) + Cardinality(Finished)
    BY <1>2 DEF DbInv, FilesRight, m
  <2>2. Cardinality(Finished') = Cardinality(Finished) + 1
        /\ Cardinality(Upper) \in Nat /\ Cardinality(Finished) \in Nat
    <3>1. IsFiniteSet(Finished)
      BY <1>2, FS_Interval
    <3> QED
      BY <1>2, <1>3, <3>1, FS_AddElement, FS_CardinalityType
  <2>3. Len(told') = Cardinality(Upper') + Cardinality(Finished')
    BY <1>3, <1>4, <2>1, <2>2
  <2>4. \A i \in 1..m : told[i].kind = "file" => PathOf[i] # p
    <3>1. ASSUME NEW i \in 1..m, told[i].kind = "file", PathOf[i] = p
          PROVE  FALSE
      <4>1. PICK j \in Finished : PathOf[i] = order[j]
        BY <2>1, <3>1
      <4>2. j \in 1..Len(order) /\ j # at
        BY <1>2, <1>3
      <4>3. order[j] = order[at]
        BY <3>1, <4>1 DEF p
      <4> QED
        BY <1>2, <4>2, <4>3 DEF DbInv, DbShape
    <3> QED
      BY <3>1
  <2>5. \A i \in 1..Len(told') : told'[i].kind = "file" =>
            \E j \in Finished' : PathOf'[i] = order'[j]
    <3>1. ASSUME NEW i \in 1..Len(told'), told'[i].kind = "file"
          PROVE  \E j \in Finished' : PathOf'[i] = order'[j]
      <4>1. CASE i \in 1..m
        BY <1>1, <1>3, <1>4, <2>1, <3>1, <4>1
      <4>2. CASE i = m + 1
        BY <1>1, <1>3, <1>4, <4>2 DEF p
      <4> QED
        BY <1>4, <1>5, <4>1, <4>2
    <3> QED
      BY <3>1
  <2>6. \A j \in Finished' :
            \E i \in 1..Len(told') : told'[i].kind = "file" /\ PathOf'[i] = order'[j]
    <3>1. ASSUME NEW j \in Finished
          PROVE  \E i \in 1..Len(told') : told'[i].kind = "file" /\ PathOf'[i] = order'[j]
      <4>1. PICK i \in 1..m : told[i].kind = "file" /\ PathOf[i] = order[j]
        BY <2>1
      <4>2. i \in 1..Len(told') /\ told'[i].kind = "file" /\ PathOf'[i] = order'[j]
        BY <1>1, <1>4, <1>6, <4>1
      <4> QED
        BY <4>2
    <3>2. m + 1 \in 1..Len(told') /\ told'[m + 1].kind = "file"
          /\ PathOf'[m + 1] = order'[at]
      BY <1>1, <1>4, <1>6, <1>7 DEF p
    <3> QED
      BY <1>3, <3>1, <3>2
  <2>7. \A i, j \in 1..Len(told') : /\ told'[i].kind = "file" /\ told'[j].kind = "file"
                                    /\ PathOf'[i] = PathOf'[j]
                                    => i = j
    BY <1>4, <1>5, <2>1, <2>4
  <2> QED
    BY <2>3, <2>5, <2>6, <2>7 DEF FilesRight
<1>10. HandlesRight'
  <2>1. \A i \in 1..m : told[i].parent \in 0..(i - 1)
    BY DEF DbInv, ToldShape, m
  <2>2. ASSUME NEW i \in 1..Len(told')
        PROVE  /\ told'[i].parent = NoDir <=> i = 1
               /\ told'[i].kind = "root" <=> i = 1
               /\ i # 1 => told'[told'[i].parent].kind # "file"
    <3>1. CASE i \in 1..m
      <4>1. /\ told[i].parent = NoDir <=> i = 1
            /\ told[i].kind = "root" <=> i = 1
            /\ i # 1 => told[told[i].parent].kind # "file"
        BY <3>1 DEF DbInv, HandlesRight, m
      <4>2. i # 1 => told[i].parent \in 1..m
        BY <1>4, <2>1, <3>1, <4>1 DEF NoDir
      <4> QED
        BY <1>4, <3>1, <4>1, <4>2
    <3>2. CASE i = m + 1
      <4>1. told'[i].kind = "file" /\ told'[i].parent = handle /\ i # 1
        <5>1. i # 1
          BY <1>2, <1>4, <3>2
        <5> QED
          BY <1>7, <3>2, <5>1
      <4>2. handle \in 1..m /\ told'[handle] = told[handle]
        BY <1>2, <1>4
      <4> QED
        BY <1>2, <4>1, <4>2 DEF NoDir
    <3> QED
      BY <1>4, <1>5, <3>1, <3>2
  <2> QED
    BY <2>2 DEF HandlesRight
<1> QED
  BY <1>1, <1>3, <1>4, <1>8, <1>9, <1>10 DEF DbInv, Descending

LEMMA NextDbInv == DbInv /\ [DbNext]_dbVars => DbInv'
<1> SUFFICES ASSUME DbInv, [DbNext]_dbVars PROVE DbInv'
  OBVIOUS
<1>1. CASE UNCHANGED dbVars
  <2>1. UNCHANGED <<dbpc, rows, order, at, prefix, created, handle, parent, rest, told>>
    BY <1>1 DEF dbVars, iteration, cursor
  <2>2. UNCHANGED <<PathOf, Finished, Upper, Begun>>
    BY <2>1 DEF PathOf, Finished, Upper, Begun
  <2> QED
    BY <2>1, <2>2
       DEF DbInv, DbShape, PrefixRight, ToldShape, CreatedRight, FilesRight,
           HandlesRight, Descending, Dir
<1>2. CASE DbNext
  BY <1>2, ReadStep, ReadFailsStep, ShortenPrefixStep, RootDirStep, BeginRowStep,
     DescendStep, FileStep DEF DbNext
<1> QED
  BY <1>1, <1>2

-----------------------------------------------------------------------------
(* What the invariant says of the report *)

LEMMA TypeOfDb == DbInv => DbTypeOK
<1> SUFFICES ASSUME DbInv PROVE DbTypeOK
  OBVIOUS
<1>1. Range(created) \subseteq DOMAIN told
  <2>1. CASE Begun
    BY <2>1, IsSeqFacts DEF DbInv, CreatedRight, ToldShape, Range
  <2>2. CASE ~Begun
    BY <2>2 DEF DbInv, DbShape, Range
  <2> QED
    BY <2>1, <2>2
<1>2. ASSUME dbpc = "descend"
      PROVE  parent \in DOMAIN created /\ handle = created[parent]
  BY <1>2, DescentFacts
<1>3. ASSUME NEW i \in DOMAIN told
      PROVE  told[i].kind \in {"root", "dir", "file"} /\ told[i].parent \in 0..i - 1
  <2>1. DOMAIN told = 1..Len(told)
    BY IsSeqFacts DEF DbInv, ToldShape
  <2> QED
    BY <2>1 DEF DbInv, ToldShape
<1> QED
  BY <1>1, <1>2, <1>3 DEF DbTypeOK, DbInv, DbShape

LEMMA ExactReport == DbInv => DbReportIsExact
<1> SUFFICES ASSUME DbInv, dbpc = "done", told # <<>> PROVE DbReportIsExact
  BY DEF DbReportIsExact
<1> DEFINE n == Len(order)
           dirs == {DirOf(p) : p \in DOMAIN rows}
           below == AllAbove(order, 1..n, Len(prefix))
<1>1. /\ Begun /\ n \in Nat /\ n > 0 /\ Finished = 1..n
      /\ DOMAIN told = 1..Len(told)
      /\ DOMAIN rows = {order[i] : i \in 1..n}
      /\ Len(prefix) \in Nat
  <2>1. Begun
    BY DEF Begun
  <2> QED
    BY <2>1, RowFacts, IsSeqFacts
       DEF Finished, DbInv, DbShape, ToldShape, PrefixRight, Greatest
<1>2. LongestCommonPrefix(dirs) = prefix
  BY <1>1, PrefixIsLongest DEF DbInv, PrefixRight
<1>3. UNION {{SubSeq(d, 1, k) : k \in Len(prefix) + 1..Len(d)} : d \in dirs} = below
  <2>1. \A i \in 1..n : DirOf(order[i]) \in dirs
    BY <1>1
  <2>2. \A d \in dirs : \E i \in 1..n : d = DirOf(order[i])
    BY <1>1
  <2> HIDE DEF dirs
  <2> DEFINE union == UNION {{SubSeq(d, 1, k) : k \in Len(prefix) + 1..Len(d)} : d \in dirs}
  <2>3. ASSUME NEW x \in union PROVE x \in below
    <3>1. PICK d \in dirs : x \in {SubSeq(d, 1, k) : k \in Len(prefix) + 1..Len(d)}
      BY Zenon
    <3>2. PICK i \in 1..n : d = DirOf(order[i])
      BY <2>2
    <3>3. x \in Above(DirOf(order[i]), Len(prefix), Len(DirOf(order[i])))
      BY <3>1, <3>2, Zenon DEF Above
    <3> QED
      BY <3>3, Zenon DEF AllAbove
  <2>4. ASSUME NEW x \in below PROVE x \in union
    <3>1. PICK i \in 1..n :
              x \in Above(DirOf(order[i]), Len(prefix), Len(DirOf(order[i])))
      BY Zenon DEF AllAbove
    <3> DEFINE d == DirOf(order[i])
    <3>2. x \in {SubSeq(d, 1, k) : k \in Len(prefix) + 1..Len(d)}
      BY <3>1, Zenon DEF Above
    <3>3. d \in dirs
      BY <2>1
    <3> HIDE DEF d
    <3> QED
      BY <3>2, <3>3, Zenon
  <2> HIDE DEF union, below
  <2>5. union = below
    BY <2>3, <2>4, Zenon
  <2> QED
    BY <2>5, Zenon DEF union
<1>4. Upper = {prefix} \cup below
  BY <1>1 DEF Upper
<1>5. prefix \notin below
  <2>1. ASSUME NEW i \in 1..n, NEW k \in (Len(prefix) + 1)..Len(DirOf(order[i]))
        PROVE  SubSeq(DirOf(order[i]), 1, k) # prefix
    <3>1. IsSeq(DirOf(order[i])) /\ Len(DirOf(order[i])) \in Nat
      BY RowFacts, IsSeqFacts DEF DbInv, Dir
    <3>2. k \in 0..Len(DirOf(order[i])) /\ k # Len(prefix)
      BY <1>1, <3>1
    <3>3. Len(SubSeq(DirOf(order[i]), 1, k)) = k
      BY <3>1, <3>2, FirstOf
    <3> QED
      BY <3>2, <3>3
  <2> QED
    BY <2>1 DEF AllAbove, Above
<1> DEFINE At(kind) == {j \in DOMAIN told : told[j].kind = kind}
<1>6. /\ \A d \in Upper : /\ created[d] \in 1..Len(told)
                          /\ PathOf[created[d]] = d
                          /\ told[created[d]].kind = IF d = prefix THEN "root" ELSE "dir"
      /\ \A i \in 1..Len(told) :
             told[i].kind # "file" => PathOf[i] \in Upper /\ created[PathOf[i]] = i
  BY <1>1 DEF DbInv, CreatedRight
<1> HIDE DEF below, dirs, n
<1>7. PathsOf("root") = {prefix}
  <2>1. created[prefix] \in 1..Len(told) /\ told[created[prefix]].kind = "root"
        /\ PathOf[created[prefix]] = prefix
    BY <1>4, <1>6
  <2>2. ASSUME NEW i \in 1..Len(told), told[i].kind = "root"
        PROVE  PathOf[i] = prefix
    BY <1>6, <2>2
  <2> QED
    BY <1>1, <2>1, <2>2 DEF PathsOf
<1>8. PathsOf("dir") = below
  <2>1. ASSUME NEW d \in below
        PROVE  d \in PathsOf("dir")
    BY <1>1, <1>4, <1>5, <1>6, <2>1 DEF PathsOf
  <2>2. ASSUME NEW i \in 1..Len(told), told[i].kind = "dir"
        PROVE  PathOf[i] \in below
    BY <1>4, <1>6, <2>2
  <2> QED
    BY <1>1, <2>1, <2>2 DEF PathsOf
<1>9. PathsOf("file") = DOMAIN rows
  <2>1. ASSUME NEW p \in DOMAIN rows
        PROVE  p \in PathsOf("file")
    <3>1. PICK j \in 1..n : p = order[j]
      BY <1>1
    <3>2. PICK i \in 1..Len(told) : told[i].kind = "file" /\ PathOf[i] = order[j]
      BY <1>1 DEF DbInv, FilesRight
    <3> QED
      BY <1>1, <3>1, <3>2 DEF PathsOf
  <2>2. ASSUME NEW i \in 1..Len(told), told[i].kind = "file"
        PROVE  PathOf[i] \in DOMAIN rows
    <3>1. PICK j \in 1..n : PathOf[i] = order[j]
      BY <1>1, <2>2 DEF DbInv, FilesRight
    <3> QED
      BY <1>1, <3>1
  <2> QED
    BY <1>1, <2>1, <2>2 DEF PathsOf
<1>10. Cardinality(DOMAIN rows) = n
  <2>1. order \in Bijection(1..n, DOMAIN rows)
    <3>1. order \in [1..n -> DOMAIN rows]
      BY <1>1, IsSeqFacts DEF DbInv, DbShape, n, IsSeq
    <3>2. \A i, j \in 1..n : order[i] = order[j] => i = j
      BY DEF DbInv, DbShape, n
    <3>3. order \in Injection(1..n, DOMAIN rows)
      BY <3>1, <3>2 DEF Injection, IsInjective
    <3>4. order \in Surjection(1..n, DOMAIN rows)
      BY <1>1, <3>1 DEF Surjection
    <3> QED
      BY <3>3, <3>4 DEF Bijection
  <2>2. ExistsBijection(1..n, DOMAIN rows)
    BY <2>1 DEF ExistsBijection
  <2> QED
    BY <1>1, <2>2, FS_CountingElements
<1>11. Len(told) = 1 + Cardinality(below) + Cardinality(DOMAIN rows)
  <2>1. IsFiniteSet(Upper) /\ Len(told) = Cardinality(Upper) + Cardinality(1..n)
    BY <1>1 DEF DbInv, CreatedRight, FilesRight
  <2>2. Cardinality(1..n) = n
    BY <1>1, FS_Interval
  <2>3. IsFiniteSet(below) /\ Cardinality(below) \in Nat
    BY <1>4, <2>1, FS_Subset, FS_CardinalityType
  <2>4. Cardinality(Upper) = Cardinality(below) + 1
    <3>1. Upper = below \cup {prefix}
      BY <1>4
    <3> QED
      BY <1>5, <2>3, <3>1, FS_AddElement
  <2> QED
    BY <1>1, <1>10, <2>1, <2>2, <2>3, <2>4
<1> DEFINE all(d) == UNION {{SubSeq(c, 1, k) : k \in Len(d) + 1..Len(c)} : c \in dirs}
<1>12. PathsOf("root") = {LongestCommonPrefix(dirs)}
  BY <1>2, <1>7
<1>13. all(LongestCommonPrefix(dirs)) = below
  <2>1. all(prefix) = below
    BY <1>3
  <2> HIDE DEF all
  <2> QED
    BY <1>2, <2>1
<1>14. Len(told) = 1 + Cardinality(all(LongestCommonPrefix(dirs))) + Cardinality(DOMAIN rows)
  BY <1>11, <1>13, Zenon
<1>15. PathsOf("dir") = all(LongestCommonPrefix(dirs))
  BY <1>8, <1>13
<1> QED
  BY <1>9, <1>12, <1>14, <1>15, Zenon DEF DbReportIsExact, dirs

LEMMA ScanDbStep == [ScanNext]_scanVars => [DbNext]_dbVars
BY DEF ScanNext, Dispatch, InDirectory, InDb, InDbEnded, scanVars

LEMMA DbInvariant == ScanSpec => []DbInv
<1>1. ScanInit => DbInv
  BY InitDbInv DEF ScanInit
<1>2. DbInv /\ [ScanNext]_scanVars => DbInv'
  BY NextDbInv, ScanDbStep
<1> QED
  BY <1>1, <1>2, PTL DEF ScanSpec

\* ScanDb announces exactly the rows and, once each, the directories above
\* them, whatever the database and the order in which its rows come.
THEOREM ReportOfDb == ScanSpec => []DbReportIsExact
BY DbInvariant, ExactReport, PTL

-----------------------------------------------------------------------------
(* ScanDirectory is not disturbed by being called through ScanDirectoryOrDb. *)

LEMMA ScanDirectoryStep == [ScanNext]_scanVars => [Next]_vars
BY DEF ScanNext, Dispatch, InDirectory, InDb, InDbEnded, scanVars

LEMMA ScanIsSpec == ScanSpec => Spec
<1>1. ScanInit => Init
  BY DEF ScanInit
<1> QED
  BY <1>1, ScanDirectoryStep, PTL DEF ScanSpec, Spec

SourceOK == source \in {"none", "directory", "db"}

LEMMA NextSource == SourceOK /\ [ScanNext]_scanVars => SourceOK'
BY DEF SourceOK, ScanNext, Dispatch, InDirectory, InDb, InDbEnded, scanVars

\* Both scanners' variables keep their types.
THEOREM ScanTypes == ScanSpec => []ScanTypeOK
<1>1. ScanInit => SourceOK
  BY DEF ScanInit, SourceOK
<1>2. ScanSpec => []SourceOK
  BY <1>1, NextSource, PTL DEF ScanSpec
<1>3. ScanSpec => []TypeOK
  BY ScanIsSpec, TypeCorrect, PTL
<1>4. SourceOK /\ TypeOK /\ DbInv => ScanTypeOK
  BY TypeOfDb DEF ScanTypeOK, SourceOK
<1> QED
  BY <1>2, <1>3, <1>4, DbInvariant, PTL

-----------------------------------------------------------------------------
(* Scan's promise: what the processor has been told of, each thing once *)

DbEntries == {DbEntry(i) : i \in DOMAIN told}
DirectoryEntries == {DirectoryEntry(call) : call \in announced}
Entries == IF source = "db" THEN DbEntries ELSE DirectoryEntries

Once(S) == [e \in S |-> 1]

\* No two callbacks for directories and no two for files have one path.
Distinct ==
    \A i, j \in 1..Len(told) :
        /\ told[i].kind = "file" <=> told[j].kind = "file"
        /\ PathOf[i] = PathOf[j]
        => i = j

LEMMA DbDistinct == DbInv => Distinct
<1> SUFFICES ASSUME DbInv, NEW i \in 1..Len(told), NEW j \in 1..Len(told),
                    told[i].kind = "file" <=> told[j].kind = "file",
                    PathOf[i] = PathOf[j]
             PROVE  i = j
  BY DEF Distinct
<1>1. Begun
  <2>1. told # <<>>
    OBVIOUS
  <2> QED
    BY <2>1 DEF DbInv, DbShape
<1>2. CASE told[i].kind = "file"
  BY <1>1, <1>2 DEF DbInv, FilesRight
<1>3. CASE told[i].kind # "file"
  <2>1. created[PathOf[i]] = i /\ created[PathOf[j]] = j
    BY <1>1, <1>3 DEF DbInv, CreatedRight
  <2> QED
    BY <2>1
<1> QED
  BY <1>2, <1>3

LEMMA DbReportedOnce ==
    ASSUME DbInv, Distinct, source = "db"
    PROVE  Reported = Once(Entries)
<1>1. DOMAIN told = 1..Len(told)
  BY IsSeqFacts DEF DbInv, ToldShape
<1>2. ASSUME NEW e \in DbEntries
      PROVE  Cardinality({i \in DOMAIN told : DbEntry(i) = e}) = 1
  <2>1. PICK k \in DOMAIN told : e = DbEntry(k)
    BY DEF DbEntries
  <2>2. ASSUME NEW i \in DOMAIN told, DbEntry(i) = DbEntry(k)
        PROVE  i = k
    <3>1. told[i].kind = told[k].kind /\ PathOf[i] = PathOf[k]
      BY <2>2 DEF DbEntry, Entry
    <3> QED
      BY <1>1, <3>1 DEF Distinct
  <2>3. {i \in DOMAIN told : DbEntry(i) = e} = {k}
    BY <2>1, <2>2
  <2> QED
    BY <2>3, FS_Singleton
<1> QED
  BY <1>2 DEF Reported, Once, Entries, DbEntries

\* One more entry, acceptable and not known, is one call.
LEMMA OneMore ==
    ASSUME Reported = Once(Entries), Reported' = Once(Entries'),
           NEW e, e \notin Entries, Entries' = Entries \cup {e},
           Promise!Acceptable(e)
    PROVE  Promise!Next
<1>1. DOMAIN Reported = Entries /\ DOMAIN Reported' = Entries'
  BY DEF Once
<1>2. e \in DOMAIN Reported' \ Promise!Known
  BY <1>1 DEF Promise!Known
<1>3. Reported' = [known \in Promise!Known \cup {e} |->
                       IF known = e THEN 1 ELSE Reported[known]]
  BY <1>1 DEF Promise!Known, Once
<1> QED
  BY <1>2, <1>3 DEF Promise!Next, Promise!Call

\* When a call is acceptable, in terms of the entries
LEMMA AcceptableEntry ==
    ASSUME Reported = Once(Entries), NEW e,
           Entries = {} => e.kind = "root" /\ e.parent = None,
           Entries # {} =>
               /\ e.kind \in {"dir", "file"}
               /\ \E d \in Entries : d.kind # "file" /\ d.path = e.parent
               /\ \A other \in Entries :
                      (other.kind = "file" <=> e.kind = "file") => other.path # e.path
    PROVE  Promise!Acceptable(e)
<1>1. Promise!Known = Entries
  BY DEF Promise!Known, Once
<1>2. CASE Entries = {}
  BY <1>1, <1>2 DEF Promise!Acceptable
<1>3. CASE Entries # {}
  <2>1. Promise!Directories = {d \in Entries : d.kind # "file"}
    BY <1>1 DEF Promise!Directories
  <2>2. \E d \in Promise!Directories : d.path = e.parent
    BY <1>3, <2>1
  <2>3. \A other \in IF e.kind = "file" THEN Entries \ Promise!Directories
                                        ELSE Promise!Directories :
            other.path # e.path
    BY <1>3, <2>1
  <2> QED
    BY <1>1, <1>3, <2>2, <2>3 DEF Promise!Acceptable
<1> QED
  BY <1>2, <1>3

-----------------------------------------------------------------------------
(* ScanDb keeps it. *)

\* One callback has been added, and the earlier ones are as they were.
OneMoreTold ==
    /\ Len(told) \in Nat /\ Len(told') = Len(told) + 1
    /\ \A i \in 1..Len(told) : told'[i] = told[i] /\ PathOf'[i] = PathOf[i]

LEMMA DbTold ==
    ASSUME DbInv, [DbNext]_dbVars
    PROVE  UNCHANGED told \/ OneMoreTold
<1>1. CASE RootDir
  <2>1. ToldShape /\ Tell("root", prefix, NoDir) /\ NoDir \in 0..Len(told)
    BY <1>1, IsSeqFacts DEF RootDir, DbInv, ToldShape, NoDir
  <2> QED
    BY <2>1, Telling DEF OneMoreTold
<1>2. CASE Descend
  <2>1. CASE Known(ToInsert)
    BY <1>2, <2>1 DEF Descend
  <2>2. CASE ~Known(ToInsert)
    <3>1. ToldShape /\ Tell("dir", <<Head(rest)>>, handle) /\ handle \in 0..Len(told)
      BY <1>2, <2>2, DescentFacts DEF Descend, DbInv
    <3> QED
      BY <3>1, Telling DEF OneMoreTold
  <2> QED
    BY <2>1, <2>2
<1>3. CASE File
  <2>1. ToldShape /\ Tell("file", <<Last(order[at])>>, handle) /\ handle \in 0..Len(told)
    BY <1>3, DescentFacts DEF File, DbInv
  <2> QED
    BY <2>1, Telling DEF OneMoreTold
<1>4. CASE Read \/ ReadFails \/ ShortenPrefix \/ BeginRow \/ UNCHANGED dbVars
  BY <1>4 DEF Read, ReadFails, ShortenPrefix, BeginRow, dbVars
<1> QED
  BY <1>1, <1>2, <1>3, <1>4 DEF DbNext

\* DbEntry, of any callbacks and paths
EntryOf(t, path, i) ==
    Entry(t[i].kind, path[i], IF t[i].parent = NoDir THEN None ELSE path[t[i].parent])

LEMMA DbEntriesAre ==
    ASSUME DbInv, source = "db"
    PROVE  Entries = {EntryOf(told, PathOf, i) : i \in 1..Len(told)}
BY IsSeqFacts DEF DbInv, ToldShape, Entries, DbEntries, DbEntry, EntryOf

LEMMA DbCall ==
    ASSUME DbInv, DbInv', Distinct', OneMoreTold, source = "db",
           Entries' = {EntryOf(told', PathOf', i) : i \in 1..Len(told')},
           Reported = Once(Entries), Reported' = Once(Entries')
    PROVE  Promise!Next
<1> DEFINE n == Len(told)
           e == EntryOf(told', PathOf', n + 1)
<1>0. Entries = {EntryOf(told, PathOf, i) : i \in 1..n}
  BY DbEntriesAre
<1>1. /\ n \in Nat /\ DOMAIN told = 1..n /\ DOMAIN told' = 1..(n + 1)
      /\ \A i \in 1..(n + 1) : i \in 1..n \/ i = n + 1
      /\ \A i \in 1..n : i \in 1..(n + 1) /\ i # n + 1
      /\ n + 1 \in 1..(n + 1)
  BY IsSeqFacts DEF DbInv, ToldShape, OneMoreTold
<1>2. \A i \in 1..n : told'[i] = told[i] /\ PathOf'[i] = PathOf[i]
  BY DEF OneMoreTold
<1>3. \A i \in 1..n : told[i].parent = NoDir \/ told[i].parent \in 1..n
  BY <1>1 DEF DbInv, ToldShape, NoDir
<1>4. \A i \in 1..n : EntryOf(told', PathOf', i) = EntryOf(told, PathOf, i)
  BY <1>2, <1>3 DEF EntryOf
<1>5. Entries' = Entries \cup {e}
  <2>1. Entries' = {EntryOf(told', PathOf', i) : i \in 1..(n + 1)}
    BY DEF OneMoreTold
  <2> HIDE DEF n
  <2> QED
    BY <1>1, <1>4, <2>1, <1>0
<1>6. /\ e.kind = told'[n + 1].kind /\ e.path = PathOf'[n + 1]
      /\ e.parent = IF told'[n + 1].parent = NoDir THEN None
                    ELSE PathOf'[told'[n + 1].parent]
  BY DEF EntryOf, Entry
<1>7. /\ told'[n + 1].kind \in {"root", "dir", "file"}
      /\ told'[n + 1].parent \in 0..n
      /\ told'[n + 1].parent = NoDir <=> n + 1 = 1
      /\ told'[n + 1].kind = "root" <=> n + 1 = 1
      /\ n + 1 # 1 => told'[told'[n + 1].parent].kind # "file"
  <2>1. n \in Nat /\ n + 1 \in 1..Len(told') /\ n + 1 - 1 = n
    BY <1>1 DEF OneMoreTold
  <2>2. ToldShape' /\ HandlesRight'
    BY DEF DbInv
  <2>3. \A i \in 1..Len(told') : /\ told'[i].kind \in {"root", "dir", "file"}
                                 /\ told'[i].parent \in 0..(i - 1)
    BY <2>2, Zenon DEF ToldShape
  <2>4. \A i \in 1..Len(told') : /\ told'[i].parent = NoDir <=> i = 1
                                 /\ told'[i].kind = "root" <=> i = 1
                                 /\ i # 1 => told'[told'[i].parent].kind # "file"
    BY <2>2, Zenon DEF HandlesRight
  <2> HIDE DEF n
  <2>5. told'[n + 1].parent \in 0..n
    BY <2>1, <2>3
  <2> QED
    BY <2>1, <2>3, <2>4, <2>5
<1>8. ASSUME NEW i \in 1..n, told[i].kind = "file" <=> e.kind = "file"
      PROVE  PathOf[i] # e.path
  <2>1. i \in 1..Len(told') /\ n + 1 \in 1..Len(told') /\ i # n + 1
    BY <1>1 DEF OneMoreTold
  <2>2. ~(PathOf'[i] = PathOf'[n + 1])
    BY <1>2, <1>6, <1>8, <2>1 DEF Distinct
  <2> QED
    BY <1>2, <1>6, <2>2
<1>9. \A other \in Entries : \E i \in 1..n :
          other.kind = told[i].kind /\ other.path = PathOf[i]
  <2>1. \A i \in 1..n : /\ EntryOf(told, PathOf, i).kind = told[i].kind
                        /\ EntryOf(told, PathOf, i).path = PathOf[i]
    BY DEF EntryOf, Entry
  <2> QED
    BY <1>0, <2>1
<1>10. e \notin Entries
  BY <1>8, <1>9
<1>11. Entries = {} => e.kind = "root" /\ e.parent = None
  <2>1. Entries = {} => n = 0
    BY <1>0, <1>1
  <2> QED
    BY <1>6, <1>7, <2>1
<1>12. ASSUME Entries # {}
       PROVE  /\ e.kind \in {"dir", "file"}
              /\ \E d \in Entries : d.kind # "file" /\ d.path = e.parent
              /\ \A other \in Entries :
                     (other.kind = "file" <=> e.kind = "file") => other.path # e.path
  <2>1. n # 0
    BY <1>0, <1>1, <1>12
  <2>2. told'[n + 1].parent \in 1..n /\ told'[n + 1].parent # NoDir
    BY <1>1, <1>7, <2>1 DEF NoDir
  <2> DEFINE d == EntryOf(told, PathOf, told'[n + 1].parent)
  <2>3. d \in Entries
    BY <1>0, <2>2
  <2>4. d.kind # "file" /\ d.path = e.parent
    <3>1. /\ d.kind = told[told'[n + 1].parent].kind
          /\ d.path = PathOf[told'[n + 1].parent]
      BY DEF EntryOf, Entry
    <3> QED
      BY <1>1, <1>2, <1>6, <1>7, <2>1, <2>2, <3>1
  <2>5. e.kind \in {"dir", "file"}
    BY <1>1, <1>6, <1>7, <2>1
  <2> QED
    BY <1>8, <1>9, <2>3, <2>4, <2>5
<1> HIDE DEF e
<1> QED
  BY <1>5, <1>10, <1>11, <1>12, AcceptableEntry, OneMore

-----------------------------------------------------------------------------
(* ScanDirectory keeps it. *)

\* The callback for an item that is due
DueCall(item) ==
    /\ Announce(item) /\ tree' = tree /\ times[item.path] = 0
    /\ IsParent(item.parent, item.path)
    /\ item.path # Root => /\ times[item.parent] = 1
                           /\ tree.kind[item.path] \in {"dir", "file"}

\* Either nothing is announced, or something that is due.
LEMMA OneCallback ==
    ASSUME IInv, [Next]_vars
    PROVE  \/ UNCHANGED <<tree, announced, times>>
           \/ \E item \in Items : DueCall(item)
<1> USE DEF IInv, Sound
<1>1. CASE DirCallbackReturns
  <2>1. main = "announcing" /\ Announce(cur) /\ tree' = tree
    BY <1>1 DEF DirCallbackReturns
  <2>2. cur \in Items /\ Due(cur) /\ times[cur.path] = 0
    BY <2>1, TreeFacts DEF CurOK
  <2> QED
    BY <2>1, <2>2 DEF DueCall, Due
<1>2. ASSUME NEW w \in Workers, FileCallbackReturns(w)
      PROVE  \E item \in Items : DueCall(item)
  <2>1. tpc[w] = "file" /\ Announce(task[w]) /\ tree' = tree
    BY <1>2 DEF FileCallbackReturns, walk
  <2>2. task[w] \in ScanTasks
    BY <2>1 DEF Handling
  <2>3. /\ task[w] \in submitted /\ task[w] \in Items /\ task[w].path \in Names
        /\ Pending(task[w])
    BY <2>1, <2>2, PoolFacts DEF ScanTasks, Items, Paths, Pending
  <2>4. /\ times[task[w].path] = 0 /\ IsParent(task[w].parent, task[w].path)
        /\ times[task[w].parent] = 1 /\ tree.kind[task[w].path] = "file"
    BY <2>1, <2>2, <2>3 DEF TasksOK
  <2> QED
    BY <2>1, <2>3, <2>4 DEF DueCall
<1>3. CASE \/ OpenDir \/ OpenDirFails \/ DirCallback \/ DirEnd \/ IncrementFails
           \/ Return \/ DestroyPool \/ MainInPool \/ SpuriousWake \/ Terminated
           \/ UNCHANGED vars
  BY <1>3 DEF OpenDir, OpenDirFails, DirCallback, DirEnd, IncrementFails, Return,
              DestroyPool, MainInPool, SpuriousWake, Terminated, vars, walk, report
<1>4. ASSUME NEW n \in Names,
             IgnoreEntry(n) \/ EntryFails(n) \/ FoundDir(n) \/ FoundFile(n)
      PROVE  UNCHANGED <<tree, announced, times>>
  BY <1>4 DEF IgnoreEntry, EntryFails, FoundDir, FoundFile, AtEntry
<1>5. ASSUME NEW w \in Workers,
             \/ TakeTask(w) \/ Hashed(w) \/ HashingFails(w) \/ FileCallback(w)
             \/ TaskReturns(w) \/ WorkerInPool(w)
      PROVE  UNCHANGED <<tree, announced, times>>
  BY <1>5 DEF TakeTask, Hashed, HashingFails, FileCallback, TaskReturns, WorkerInPool,
              walk, report
<1> QED
  BY <1>1, <1>2, <1>3, <1>4, <1>5 DEF Next, MainStep, WorkerStep

\* The callbacks that were counted are known, and the root was the first.
Ledger ==
    /\ tree \in Trees
    /\ \A p \in Paths : times[p] # 0 => \E call \in announced : call[1] = p
    /\ announced # {} => times[Root] # 0

LEMMA InitLedger == Init => Ledger
BY DEF Init, Ledger

LEMMA NextLedger == IInv /\ Ledger /\ [Next]_vars => Ledger'
<1> SUFFICES ASSUME IInv, Ledger, [Next]_vars PROVE Ledger'
  OBVIOUS
<1>1. CASE UNCHANGED <<tree, announced, times>>
  BY <1>1 DEF Ledger
<1>2. ASSUME NEW item \in Items, DueCall(item)
      PROVE  Ledger'
  <2>1. /\ TypeOK /\ Announce(item) /\ tree' = tree
        /\ announced' = announced \cup {<<item.path, item.parent>>}
    BY <1>2 DEF IInv, Sound, DueCall, Announce
  <2>2. /\ times'[item.path] = times[item.path] + 1 /\ times[item.path] = 0
        /\ \A p \in Paths \ {item.path} : times'[p] = times[p]
    BY <1>2, <2>1, Announcing DEF DueCall
  <2>3. ASSUME NEW p \in Paths, times'[p] # 0
        PROVE  \E call \in announced' : call[1] = p
    <3>1. CASE p = item.path
      <4>1. <<item.path, item.parent>> \in announced'
        BY <2>1
      <4>2. <<item.path, item.parent>>[1] = p
        BY <3>1
      <4> QED
        BY <4>1, <4>2
    <3>2. CASE p # item.path
      <4>1. times[p] # 0
        BY <2>2, <2>3, <3>2
      <4>2. PICK call \in announced : call[1] = p
        BY <4>1 DEF Ledger
      <4> QED
        BY <2>1, <4>2
    <3> QED
      BY <3>1, <3>2
  <2>4. times'[Root] # 0
    <3>1. Root \in Paths
      BY DEF Paths
    <3>2. CASE item.path = Root
      BY <2>2, <3>2
    <3>3. CASE item.path # Root
      <4>1. item.path \in Names /\ item.parent \in Paths
        BY <1>2, <2>1, <3>3, TreeFacts DEF DueCall, Items, Paths, IsParent
      <4>2. times[item.parent] # 0
        BY <1>2, <3>3 DEF DueCall
      <4>3. announced # {}
        BY <4>1, <4>2 DEF Ledger
      <4> QED
        BY <2>2, <3>1, <3>3, <4>3 DEF Ledger
    <3> QED
      BY <3>2, <3>3
  <2> QED
    BY <2>1, <2>3, <2>4 DEF Ledger
<1> QED
  BY <1>1, <1>2, OneCallback

LEMMA DirectoryReportedOnce ==
    ASSUME IInv, source # "db"
    PROVE  Reported = Once(Entries)
<1>1. \A e \in DirectoryEntries : times[e.path] = 1
  BY DEF DirectoryEntries, DirectoryEntry, Entry, IInv, ReportIsSubtree
<1> QED
  BY <1>1 DEF Reported, Once, Entries, DirectoryEntries

\* DirectoryEntry, of any tree
EntryIn(t, call) ==
    Entry(IF call[1] = Root THEN "root" ELSE t.kind[call[1]], call[1], call[2])

LEMMA DirectoryCall ==
    ASSUME IInv, Ledger, NEW item \in Items, DueCall(item), source # "db", source' = source,
           Reported = Once(Entries), Reported' = Once(Entries')
    PROVE  Promise!Next
<1> DEFINE c == <<item.path, item.parent>>
           e == EntryIn(tree, c)
<1>1. /\ TypeOK /\ tree' = tree /\ announced' = announced \cup {c}
      /\ times[item.path] = 0 /\ item.path \in Paths
  BY DEF IInv, Sound, DueCall, Announce, Items
<1>2. /\ Entries = {EntryIn(tree, call) : call \in announced}
      /\ Entries' = Entries \cup {e}
  <2>1. Entries = {EntryIn(tree, call) : call \in announced}
    BY DEF Entries, DirectoryEntries, DirectoryEntry, EntryIn
  <2>2. Entries' = {EntryIn(tree', call) : call \in announced'}
    BY DEF Entries, DirectoryEntries, DirectoryEntry, EntryIn
  <2> HIDE DEF c
  <2> QED
    BY <1>1, <2>1, <2>2
<1>3. /\ e.path = item.path /\ e.parent = item.parent
      /\ e.kind = IF item.path = Root THEN "root" ELSE tree.kind[item.path]
  BY DEF EntryIn, Entry
<1>4. \A call \in announced :
          /\ EntryIn(tree, call).path = call[1]
          /\ EntryIn(tree, call).kind = IF call[1] = Root THEN "root" ELSE tree.kind[call[1]]
          /\ times[call[1]] = 1
  BY DEF EntryIn, Entry, IInv, ReportIsSubtree
<1>5. \A other \in Entries : other.path # item.path
  BY <1>1, <1>2, <1>4
<1>6. e \notin Entries
  BY <1>3, <1>5
<1>7. item.path # Root =>
          /\ item.path \in Names /\ item.parent \in Paths
          /\ item.parent = tree.parent[item.path] /\ times[item.parent] = 1
  BY <1>1, TreeFacts DEF DueCall, IsParent, Items, Paths
<1>8. Entries = {} => e.kind = "root" /\ e.parent = None
  <2>1. ASSUME item.path # Root
        PROVE  Entries # {}
    BY <1>2, <1>7, <2>1 DEF Ledger
  <2>2. item.path = Root => e.kind = "root" /\ e.parent = None
    BY <1>3 DEF DueCall, IsParent
  <2> QED
    BY <2>1, <2>2
<1>9. ASSUME Entries # {}
      PROVE  /\ e.kind \in {"dir", "file"}
             /\ \E d \in Entries : d.kind # "file" /\ d.path = e.parent
             /\ \A other \in Entries :
                    (other.kind = "file" <=> e.kind = "file") => other.path # e.path
  <2>1. item.path # Root
    <3>1. announced # {}
      BY <1>2, <1>9
    <3> QED
      BY <1>1, <3>1 DEF Ledger
  <2>2. e.kind \in {"dir", "file"}
    BY <1>3, <2>1 DEF DueCall
  <2>3. PICK call \in announced : call[1] = item.parent
    BY <1>7, <2>1 DEF Ledger
  <2>4. item.parent # Root => tree.kind[item.parent] = "dir"
    BY <1>7, <2>1, ParentsAssumption DEF Ledger
  <2>5. EntryIn(tree, call).kind # "file" /\ EntryIn(tree, call).path = e.parent
    BY <1>3, <1>4, <2>3, <2>4
  <2> HIDE DEF e
  <2> QED
    BY <1>2, <1>3, <1>5, <2>2, <2>3, <2>5
<1> HIDE DEF e
<1> QED
  BY <1>2, <1>6, <1>8, <1>9, AcceptableEntry, OneMore

-----------------------------------------------------------------------------
(* ScanDirectoryOrDb implements Scan. *)

\* Nothing is announced by a scanner that has not been chosen.
OneSource ==
    /\ SourceOK
    /\ source # "directory" => announced = {}
    /\ source # "db" => told = <<>>

ScanInv == OneSource /\ IInv /\ Ledger /\ DbInv

LEMMA InitScanInv == ScanInit => ScanInv
<1>1. ScanInit => Init /\ DbInit
  BY DEF ScanInit
<1>2. ScanInit => OneSource
  BY DEF ScanInit, Init, DbInit, OneSource, SourceOK
<1> QED
  BY <1>1, <1>2, InitIInv, InitLedger, InitDbInv DEF ScanInv

LEMMA NextScanInv == ScanInv /\ [ScanNext]_scanVars => ScanInv'
<1> SUFFICES ASSUME ScanInv, [ScanNext]_scanVars PROVE ScanInv'
  OBVIOUS
<1>1. [Next]_vars /\ [DbNext]_dbVars
  BY ScanDirectoryStep, ScanDbStep
<1>2. IInv'
  BY <1>1, NextSound, NextWalk DEF ScanInv, IInv, Walk
<1>3. Ledger'
  BY <1>1, NextLedger DEF ScanInv
<1>4. DbInv'
  BY <1>1, NextDbInv DEF ScanInv
<1>5. OneSource'
  BY DEF ScanInv, OneSource, SourceOK, ScanNext, Dispatch, InDirectory, InDb, InDbEnded,
         scanVars, vars, dbVars, report
<1> QED
  BY <1>2, <1>3, <1>4, <1>5 DEF ScanInv

\* What has been reported is each entry once.
Accounted == Distinct /\ Reported = Once(Entries)

LEMMA ScanAccounted == ScanInv => Accounted
BY DbDistinct, DbReportedOnce, DirectoryReportedOnce DEF ScanInv, Accounted

LEMMA InitPromise == ScanInit /\ Accounted => Promise!Init
<1> SUFFICES ASSUME ScanInit, Accounted PROVE Reported = <<>>
  BY DEF Promise!Init
<1>1. Entries = {}
  BY DEF ScanInit, Init, Entries, DirectoryEntries
<1> QED
  BY <1>1 DEF Accounted, Once

LEMMA NextPromise ==
    ASSUME ScanInv, ScanInv', Accounted, Accounted', [ScanNext]_scanVars
    PROVE  [Promise!Next]_Reported
<1>1. [Next]_vars /\ [DbNext]_dbVars
  BY ScanDirectoryStep, ScanDbStep
<1>2. Reported = Once(Entries) /\ Reported' = Once(Entries')
  BY DEF Accounted
<1>3. ASSUME Entries' = Entries
      PROVE  Reported' = Reported
  BY <1>2, <1>3
<1>4. CASE Dispatch
  <2>1. announced = {} /\ told = <<>> /\ announced' = {} /\ told' = <<>>
    BY <1>4 DEF ScanInv, OneSource, Dispatch, vars, dbVars, report
  <2>2. Entries = {} /\ Entries' = {}
    BY <2>1 DEF Entries, DbEntries, DirectoryEntries
  <2> QED
    BY <1>3, <2>2
<1>5. CASE InDirectory
  <2>1. source = "directory" /\ source' = source
    BY <1>5 DEF InDirectory
  <2>2. CASE UNCHANGED <<tree, announced, times>>
    BY <1>3, <2>1, <2>2 DEF Entries, DirectoryEntries, DirectoryEntry
  <2>3. ASSUME NEW item \in Items, DueCall(item)
        PROVE  Promise!Next
    BY <1>2, <2>1, <2>3, DirectoryCall DEF ScanInv
  <2> QED
    BY <1>1, <2>2, <2>3, OneCallback DEF ScanInv
<1>6. CASE InDb
  <2>1. source = "db" /\ source' = "db"
    BY <1>6 DEF InDb
  <2>2. CASE UNCHANGED told
    <3>1. PathOf' = PathOf
      BY <2>2, Silence
    <3> QED
      BY <1>3, <2>1, <2>2, <3>1 DEF Entries, DbEntries, DbEntry
  <2>3. CASE OneMoreTold
    <3>1. DbInv' /\ Distinct'
      BY DEF ScanInv, Accounted
    <3>2. Entries' = {EntryOf(told', PathOf', i) : i \in 1..Len(told')}
      <4>1. DOMAIN told' = 1..Len(told')
        BY <3>1, IsSeqFacts DEF DbInv, ToldShape
      <4> QED
        BY <2>1, <4>1 DEF Entries, DbEntries, DbEntry, EntryOf
    <3> QED
      BY <1>2, <2>1, <2>3, <3>1, <3>2, DbCall DEF ScanInv
  <2> QED
    BY <1>1, <2>2, <2>3, DbTold DEF ScanInv
<1>7. CASE InDbEnded \/ UNCHANGED scanVars
  <2>1. UNCHANGED <<source, tree, announced, told>>
    BY <1>7 DEF InDbEnded, scanVars, vars, dbVars, walk, report
  <2>2. PathOf' = PathOf
    BY <2>1, Silence
  <2> QED
    BY <1>3, <2>1, <2>2
       DEF Entries, DbEntries, DbEntry, DirectoryEntries, DirectoryEntry
<1> QED
  BY <1>4, <1>5, <1>6, <1>7 DEF ScanNext

\* Whichever scanner is called, whatever the tree or the database, the
\* failures, the order of the rows and the interleaving of workers and walk:
\* the processor's root comes first, and every other call is for an entry that
\* has not been announced, with the handle of a directory that has.
THEOREM ScanImplements == ScanSpec => Implements
<1>1. ScanSpec => []ScanInv
  BY InitScanInv, NextScanInv, PTL DEF ScanSpec
<1> QED
  BY <1>1, ScanAccounted, InitPromise, NextPromise, PTL
     DEF ScanSpec, Implements, Promise!Spec
=============================================================================
