--------------------------- MODULE DirCompareProofs ---------------------------
(***************************************************************************)
(* What the report of DirCompare is worth, for any sets of paths and hashes *)
(* and any two directories.  The lines sent so far are exactly those of the *)
(* paths visited so far; what README.md promises follows at the end.         *)
(***************************************************************************)
EXTENDS DirCompare, SequenceTheorems, TLAPS

D1 == DOMAIN listing[1]
D2 == DOMAIN listing[2]
From(h) == {q \in D1 : listing[1][q] = h}
To(h) == {q \in D2 : listing[2][q] = h}
Entry(k, p, ps) == [kind |-> k, file |-> p, candidates |-> ps]

-----------------------------------------------------------------------------
(* Types *)

\* A line of the right kind keeps the report a sequence of lines.
LEMMA EmitType ==
    ASSUME out \in Seq(Line), NEW k \in Kinds, NEW p \in Path,
           NEW ps \in SUBSET Path, Emit(k, p, ps)
    PROVE  out' \in Seq(Line)
  <1>1. [kind |-> k, file |-> p, candidates |-> ps] \in Line
    BY DEF Line
  <1> QED  BY <1>1, AppendProperties DEF Emit

\* What an iteration of the first loop does to the report has the right type.
LEMMA FirstType ==
    ASSUME TypeOK, NEW p \in Path, First(p)
    PROVE  out' \in Seq(Line)
  <1>1. \A h : \A d \in Dirs : PathsWith(d, h) \subseteq Path
    BY DEF PathsWith, TypeOK, Listing
  <1>2. CASE NotChanged(p)
    BY <1>2 DEF NotChanged, TypeOK
  <1>3. CASE Overwritten(p)
    BY <1>1, <1>3, EmitType DEF Overwritten, Sources, Kinds, TypeOK, Dirs
  <1>4. CASE Renamed(p)
    BY <1>1, <1>4, EmitType DEF Renamed, Targets, Kinds, TypeOK, Dirs
  <1> QED  BY <1>2, <1>3, <1>4 DEF First

\* The same for the second loop.
LEMMA SecondType ==
    ASSUME TypeOK, NEW p \in Path, Second(p)
    PROVE  out' \in Seq(Line)
  <1>1. \A h : \A d \in Dirs : PathsWith(d, h) \subseteq Path
    BY DEF PathsWith, TypeOK, Listing
  <1>2. CASE AlreadyHandled(p)
    BY <1>2 DEF AlreadyHandled, TypeOK
  <1>3. CASE Appeared(p)
    <2> DEFINE ps == Sources(hashes[2][p])
               ps2 == {c \in ps : Survives(c)}
    <2>1. ps \subseteq Path /\ ps2 \subseteq Path
      BY <1>1 DEF Sources, Dirs
    <2> HIDE DEF ps, ps2
    <2>2. \/ Emit("CopiedFrom", p, ps2)
          \/ UNCHANGED out
          \/ Emit("NewFile", p, {})
      BY <1>3 DEF Appeared, ps, ps2
    <2> QED  BY <2>1, <2>2, EmitType DEF Kinds, TypeOK
  <1> QED  BY <1>2, <1>3 DEF Second

\* A table with one more path is a table.
LEMMA InsertType ==
    ASSUME NEW t \in Listing, NEW p \in Path, NEW h \in Hash
    PROVE  Insert(t, p, h) \in Listing
  <1>1. PICK S \in SUBSET Path : t \in [S -> Hash]
    BY DEF Listing
  <1>2. Insert(t, p, h) \in [S \cup {p} -> Hash]
    BY <1>1 DEF Insert
  <1>3. S \cup {p} \in SUBSET Path
    BY <1>1
  <1> QED  BY <1>2, <1>3 DEF Listing

\* The state keeps its type.
THEOREM TypeCorrect == Spec => []TypeOK
  <1>1. Init => TypeOK
    <2> SUFFICES ASSUME Init PROVE TypeOK  OBVIOUS
    <2>1. NoFiles \in [{} -> Hash]
      BY DEF NoFiles
    <2>2. NoFiles \in Listing
      BY <2>1 DEF Listing
    <2>3. out \in Seq(Line)
      BY EmptySeq DEF Init
    <2> QED  BY <2>2, <2>3 DEF Init, TypeOK
  <1>2. TypeOK /\ [Next]_vars => TypeOK'
    <2> SUFFICES ASSUME TypeOK, [Next]_vars PROVE TypeOK'  OBVIOUS
    <2>1. ASSUME NEW d \in Dirs, NEW p \in Path, File(d, p) PROVE TypeOK'
      <3>1. PICK S \in SUBSET Path : listing[d] \in [S -> Hash]
        BY DEF TypeOK, Listing
      <3>2. listing[d][p] \in Hash
        BY <2>1, <3>1 DEF File
      <3>3. Insert(res[d], p, listing[d][p]) \in Listing
        BY <3>2, InsertType DEF TypeOK
      <3>4. res' \in [Dirs -> Listing]
        BY <2>1, <3>3 DEF File, TypeOK
      <3> QED  BY <2>1, <3>4 DEF File, TypeOK
    <2>2. ASSUME NEW d \in Dirs, FillStart(d) \/ FillFails(d) \/ FillEnd(d)
          PROVE  TypeOK'
      BY <2>2 DEF FillStart, FillFails, FillEnd, TypeOK
    <2>3. CASE Join1 \/ Join2 \/ FirstEnd \/ SecondEnd
      BY <2>3 DEF Join1, Join2, FirstEnd, SecondEnd, TypeOK
    <2>4. ASSUME NEW p \in Path, First(p) PROVE TypeOK'
      BY <2>4, FirstType DEF First, Visit, TypeOK
    <2>5. ASSUME NEW p \in Path, Second(p) PROVE TypeOK'
      BY <2>5, SecondType DEF Second, Visit, TypeOK
    <2>6. CASE UNCHANGED vars
      BY <2>6 DEF vars, TypeOK
    <2> QED  BY <2>1, <2>2, <2>3, <2>4, <2>5, <2>6
             DEF Next, MainStep, FillerStep, Terminated
  <1> QED  BY <1>1, <1>2, PTL DEF Spec

-----------------------------------------------------------------------------
(* The tables *)

Filling ==
    \A d \in Dirs :
        /\ DOMAIN res[d] \subseteq DOMAIN listing[d]
        /\ \A p \in DOMAIN res[d] : res[d][p] = listing[d][p]
        /\ filler[d] = "moved" => hashes[d] = listing[d]

Joining ==
    /\ main \in {"join2", "loop1", "loop2", "done"} => filler[1] = "moved"
    /\ main \in {"loop1", "loop2", "done"} => filler[2] = "moved"

Tables == TypeOK /\ Filling /\ Joining

\* A joined thread has delivered its whole directory.
LEMMA TablesImply == Tables => TablesComplete
  <1> SUFFICES ASSUME Tables, main \in {"loop1", "loop2", "done"}
               PROVE  hashes = listing
    BY DEF TablesComplete
  <1>1. \A d \in Dirs : hashes[d] = listing[d]
    BY DEF Tables, Filling, Joining, Dirs
  <1> QED  BY <1>1 DEF Tables, TypeOK

\* The fillers only add what the scan announces and deliver all of it.
LEMMA NextFilling == Tables /\ [Next]_vars => Filling'
  <1> SUFFICES ASSUME Tables, [Next]_vars PROVE Filling'  OBVIOUS
  <1> USE DEF Tables
  <1>1. ASSUME NEW d \in Dirs, NEW p \in Path, File(d, p) PROVE Filling'
    BY <1>1 DEF File, Insert, Filling, TypeOK
  <1>2. ASSUME NEW d \in Dirs, FillEnd(d) PROVE Filling'
    <2>1. PICK S \in SUBSET Path : res[d] \in [S -> Hash]
      BY DEF TypeOK, Listing
    <2>2. PICK T \in SUBSET Path : listing[d] \in [T -> Hash]
      BY DEF TypeOK, Listing
    <2>3. res[d] = listing[d]
      BY <1>2, <2>1, <2>2 DEF FillEnd, Filling
    <2> QED  BY <1>2, <2>3 DEF FillEnd, Filling, TypeOK
  <1>3. ASSUME NEW d \in Dirs, FillStart(d) \/ FillFails(d) PROVE Filling'
    BY <1>3 DEF FillStart, FillFails, Filling, TypeOK
  <1>4. CASE MainStep
    BY <1>4 DEF MainStep, Join1, Join2, FirstEnd, SecondEnd, First, Second,
                Visit, Filling
  <1>5. CASE UNCHANGED vars
    BY <1>5 DEF vars, Filling
  <1> QED  BY <1>1, <1>2, <1>3, <1>4, <1>5 DEF Next, FillerStep, Terminated

\* The main thread gets past a join only when that filler is done.
LEMMA NextJoining == Tables /\ [Next]_vars => Joining'
  <1> SUFFICES ASSUME Tables, [Next]_vars PROVE Joining'  OBVIOUS
  <1> USE DEF Tables
  <1>1. ASSUME NEW d \in Dirs, FillerStep(d) PROVE Joining'
    BY <1>1 DEF FillerStep, File, FillEnd, FillStart, FillFails, Joining,
                TypeOK, Dirs
  <1>2. CASE MainStep
    BY <1>2 DEF MainStep, Join1, Join2, Joined, FirstEnd, SecondEnd, First,
                Second, Visit, Joining
  <1>3. CASE UNCHANGED vars
    BY <1>3 DEF vars, Joining
  <1> QED  BY <1>1, <1>2, <1>3 DEF Next, Terminated

\* The tables are right whenever the main thread can look at them.
LEMMA TablesInvariant == Spec => []Tables
  <1>1. Init => Filling /\ Joining
    BY DEF Init, Filling, Joining, NoFiles, Dirs
  <1>2. (Filling /\ Joining) /\ TypeOK /\ [Next]_vars => (Filling /\ Joining)'
    BY NextFilling, NextJoining DEF Tables
  <1> QED  BY <1>1, <1>2, TypeCorrect, PTL DEF Spec, Tables

\* The loops read complete tables although they take no lock.
THEOREM TablesAreComplete == Spec => []TablesComplete
  BY TablesInvariant, TablesImply, PTL

-----------------------------------------------------------------------------
(* The lines *)

\* the line that the first loop sends for p, if it sends one
FirstLine(l, p) ==
    \/ /\ p \in D2 /\ listing[1][p] # listing[2][p]
       /\ From(listing[2][p]) # {}
       /\ l = Entry("OverwrittenBy", p, From(listing[2][p]))
    \/ /\ p \in D2 /\ listing[1][p] # listing[2][p]
       /\ From(listing[2][p]) = {}
       /\ l = Entry("ContentChanged", p, {})
    \/ /\ p \notin D2 /\ ~skip_renames
       /\ To(listing[1][p]) # {}
       /\ l = Entry("RenameTo", p, To(listing[1][p]))
    \/ /\ p \notin D2
       /\ To(listing[1][p]) = {}
       /\ l = Entry("Removed", p, {})

\* and the second loop
SecondLine(l, p) ==
    \/ /\ p \notin D1
       /\ From(listing[2][p]) \cap D2 # {}
       /\ l = Entry("CopiedFrom", p, From(listing[2][p]) \cap D2)
    \/ /\ p \notin D1
       /\ From(listing[2][p]) = {}
       /\ l = Entry("NewFile", p, {})

FirstLines(l, V) == \E p \in V : FirstLine(l, p)
SecondLines(l, V) == \E p \in V : SecondLine(l, p)

Reported ==
    /\ main \in {"join1", "join2"} => visited = {} /\ out = <<>>
    /\ main = "loop1" =>
           /\ visited \subseteq D1
           /\ \A l : l \in Lines <=> FirstLines(l, visited)
    /\ main = "loop2" =>
           /\ visited \subseteq D2
           /\ \A l : l \in Lines <=> FirstLines(l, D1) \/ SecondLines(l, visited)
    /\ main = "done" =>
           \A l : l \in Lines <=> FirstLines(l, D1) \/ SecondLines(l, D2)

\* A line more.
LEMMA EmitAdds ==
    ASSUME out \in Seq(Line), NEW k, NEW p, NEW ps, Emit(k, p, ps),
           Entry(k, p, ps) \in Line
    PROVE  /\ out' \in Seq(Line)
           /\ Len(out') = Len(out) + 1
           /\ \A i \in 1 .. Len(out) : out'[i] = out[i]
           /\ out'[Len(out) + 1] = Entry(k, p, ps)
  BY AppendProperties DEF Emit, Entry

\* Its effect on the set of lines.
LEMMA EmitLines ==
    ASSUME out \in Seq(Line), NEW k, NEW p, NEW ps, Emit(k, p, ps),
           Entry(k, p, ps) \in Line
    PROVE  \A l : l \in Lines' <=> l \in Lines \/ l = Entry(k, p, ps)
  <1>1. DOMAIN out = 1 .. Len(out) /\ DOMAIN out' = 1 .. Len(out')
    BY EmitAdds, LenProperties
  <1>2. Len(out) \in Nat
    BY LenProperties
  <1>3. \A l : l \in Lines <=> \E i \in 1 .. Len(out) : out[i] = l
    BY <1>1 DEF Lines, Range
  <1>4. \A l : l \in Lines' <=> \E i \in 1 .. Len(out) + 1 : out'[i] = l
    BY <1>1, EmitAdds DEF Lines, Range
  <1>5. \A i : i \in 1 .. Len(out) + 1 <=> i \in 1 .. Len(out) \/ i = Len(out) + 1
    BY <1>2
  <1> QED  BY <1>3, <1>4, <1>5, EmitAdds

\* The hypotheses under which the loops run.
Reading == Tables /\ hashes = listing

\* The tables the main thread reads are the listings.
LEMMA ReadingPaths ==
    ASSUME Reading
    PROVE  /\ \A h : PathsWith(1, h) = From(h) /\ PathsWith(2, h) = To(h)
           /\ \A p : (Has(1, p) <=> p \in D1) /\ (Has(2, p) <=> p \in D2)
           /\ \A h : From(h) \in SUBSET Path /\ To(h) \in SUBSET Path
           /\ D1 \subseteq Path /\ D2 \subseteq Path
  <1>1. D1 \subseteq Path /\ D2 \subseteq Path
    BY DEF Reading, Tables, TypeOK, Listing, D1, D2, Dirs
  <1>2. \A h : PathsWith(1, h) = From(h) /\ PathsWith(2, h) = To(h)
    BY DEF Reading, PathsWith, From, To, D1, D2
  <1> QED  BY <1>1, <1>2 DEF Reading, Has, From, To, D1, D2

\* Every line is a line.
LEMMA EntryType ==
    ASSUME NEW k \in Kinds, NEW p \in Path, NEW ps \in SUBSET Path
    PROVE  Entry(k, p, ps) \in Line
  BY DEF Entry, Line

\* What the first loop sends in one iteration.
LEMMA FirstAdds ==
    ASSUME Reading, NEW p \in Path, First(p)
    PROVE  \A l : l \in Lines' <=> l \in Lines \/ FirstLine(l, p)
  <1>1. p \in D1
    BY DEF First, Visit, Reading, D1
  <1>2. out \in Seq(Line)
    BY DEF Reading, Tables, TypeOK
  <1>3. CASE NotChanged(p)
    <2>1. \A l : ~FirstLine(l, p)
      BY <1>3, ReadingPaths DEF NotChanged, FirstLine, Reading
    <2> QED  BY <1>3, <2>1 DEF NotChanged, Lines
  <1>4. CASE Overwritten(p)
    <2> DEFINE ps == From(listing[2][p])
    <2>1. p \in D2 /\ listing[1][p] # listing[2][p]
      BY <1>4, ReadingPaths DEF Overwritten, Reading
    <2>2. IF ps # {} THEN Emit("OverwrittenBy", p, ps)
                     ELSE Emit("ContentChanged", p, {})
      BY <1>4, ReadingPaths DEF Overwritten, Sources, Reading
    <2>3. ps \in SUBSET Path
      BY ReadingPaths
    <2>4. CASE ps # {}
      <3>1. Emit("OverwrittenBy", p, ps)
        BY <2>2, <2>4
      <3>2. Entry("OverwrittenBy", p, ps) \in Line
        BY <2>3, EntryType DEF Kinds
      <3>3. \A l : FirstLine(l, p) <=> l = Entry("OverwrittenBy", p, ps)
        BY <2>1, <2>4 DEF FirstLine
      <3> QED  BY <1>2, <3>1, <3>2, <3>3, EmitLines
    <2>5. CASE ps = {}
      <3>1. Emit("ContentChanged", p, {})
        BY <2>2, <2>5
      <3>2. Entry("ContentChanged", p, {}) \in Line
        BY EntryType DEF Kinds
      <3>3. \A l : FirstLine(l, p) <=> l = Entry("ContentChanged", p, {})
        BY <2>1, <2>5 DEF FirstLine
      <3> QED  BY <1>2, <3>1, <3>2, <3>3, EmitLines
    <2> QED  BY <2>4, <2>5
  <1>5. CASE Renamed(p)
    <2> DEFINE ps == To(listing[1][p])
    <2>1. p \notin D2
      BY <1>5, ReadingPaths DEF Renamed
    <2>2. \/ ps # {} /\ skip_renames /\ UNCHANGED out
          \/ ps # {} /\ ~skip_renames /\ Emit("RenameTo", p, ps)
          \/ ps = {} /\ Emit("Removed", p, {})
      BY <1>5, ReadingPaths DEF Renamed, Targets, Reading
    <2>3. ps \in SUBSET Path
      BY ReadingPaths
    <2>4. CASE ps # {} /\ skip_renames /\ UNCHANGED out
      <3>1. \A l : ~FirstLine(l, p)
        BY <2>1, <2>4 DEF FirstLine
      <3> QED  BY <2>4, <3>1 DEF Lines
    <2>5. CASE ps # {} /\ ~skip_renames /\ Emit("RenameTo", p, ps)
      <3>1. Entry("RenameTo", p, ps) \in Line
        BY <2>3, EntryType DEF Kinds
      <3>2. \A l : FirstLine(l, p) <=> l = Entry("RenameTo", p, ps)
        BY <2>1, <2>5 DEF FirstLine
      <3> QED  BY <1>2, <2>5, <3>1, <3>2, EmitLines
    <2>6. CASE ps = {} /\ Emit("Removed", p, {})
      <3>1. Entry("Removed", p, {}) \in Line
        BY EntryType DEF Kinds
      <3>2. \A l : FirstLine(l, p) <=> l = Entry("Removed", p, {})
        BY <2>1, <2>6 DEF FirstLine
      <3> QED  BY <1>2, <2>6, <3>1, <3>2, EmitLines
    <2> QED  BY <2>2, <2>4, <2>5, <2>6
  <1> QED  BY <1>3, <1>4, <1>5 DEF First

\* What the second loop sends in one iteration.
LEMMA SecondAdds ==
    ASSUME Reading, NEW p \in Path, Second(p)
    PROVE  \A l : l \in Lines' <=> l \in Lines \/ SecondLine(l, p)
  <1>1. out \in Seq(Line)
    BY DEF Reading, Tables, TypeOK
  <1>2. CASE AlreadyHandled(p)
    <2>1. \A l : ~SecondLine(l, p)
      BY <1>2, ReadingPaths DEF AlreadyHandled, IsNew, SecondLine
    <2> QED  BY <1>2, <2>1 DEF AlreadyHandled, Lines
  <1>3. CASE Appeared(p)
    <2> DEFINE ps == From(listing[2][p])
               ps2 == ps \cap D2
    <2>1. p \notin D1
      BY <1>3, ReadingPaths DEF Appeared, IsNew
    <2>2. Sources(hashes[2][p]) = ps
      BY ReadingPaths DEF Sources, Reading
    <2>3. {c \in ps : Survives(c)} = ps2
      BY ReadingPaths DEF Survives
    <2>4. \/ ps2 # {} /\ Emit("CopiedFrom", p, ps2)
          \/ ps # {} /\ ps2 = {} /\ UNCHANGED out
          \/ ps = {} /\ Emit("NewFile", p, {})
      <3>1. LET s2 == {c \in ps : Survives(c)}
            IN  \/ s2 # {} /\ Emit("CopiedFrom", p, s2)
                \/ ps # {} /\ s2 = {} /\ UNCHANGED out
                \/ ps = {} /\ Emit("NewFile", p, {})
        BY <1>3, <2>2 DEF Appeared
      <3> QED  BY <2>3, <3>1
    <2>5. ps \in SUBSET Path /\ ps2 \in SUBSET Path
      BY ReadingPaths
    <2>6. CASE ps2 # {} /\ Emit("CopiedFrom", p, ps2)
      <3>1. Entry("CopiedFrom", p, ps2) \in Line
        BY <2>5, EntryType DEF Kinds
      <3>2. \A l : SecondLine(l, p) <=> l = Entry("CopiedFrom", p, ps2)
        BY <2>1, <2>6 DEF SecondLine
      <3>3. \A l : l \in Lines' <=> l \in Lines \/ l = Entry("CopiedFrom", p, ps2)
        <4> HIDE DEF ps2
        <4> QED  BY <1>1, <2>6, <3>1, EmitLines
      <3> QED  BY <3>2, <3>3
    <2>7. CASE ps # {} /\ ps2 = {} /\ UNCHANGED out
      <3>1. \A l : ~SecondLine(l, p)
        BY <2>1, <2>7 DEF SecondLine
      <3> QED  BY <2>7, <3>1 DEF Lines
    <2>8. CASE ps = {} /\ Emit("NewFile", p, {})
      <3>1. Entry("NewFile", p, {}) \in Line
        BY EntryType DEF Kinds
      <3>2. \A l : SecondLine(l, p) <=> l = Entry("NewFile", p, {})
        BY <2>1, <2>8 DEF SecondLine
      <3> QED  BY <1>1, <2>8, <3>1, <3>2, EmitLines
    <2> QED  BY <2>4, <2>6, <2>7, <2>8
  <1> QED  BY <1>2, <1>3 DEF Second

\* The predicates speak of the listings, which no step changes.
LEMMA LinesStay ==
    ASSUME listing' = listing, skip_renames' = skip_renames
    PROVE  /\ D1' = D1 /\ D2' = D2
           /\ \A l, p : FirstLine(l, p)' <=> FirstLine(l, p)
           /\ \A l, p : SecondLine(l, p)' <=> SecondLine(l, p)
  BY DEF D1, D2, FirstLine, SecondLine, From, To

\* An iteration of the first loop.
LEMMA FirstReported ==
    ASSUME Tables, Reported, NEW p \in Path, First(p)
    PROVE  Reported'
  <1>1. main = "loop1" /\ main' = "loop1"
    BY DEF First, Visit
  <1>2. Reading
    BY <1>1, TablesImply DEF Reading, TablesComplete
  <1>3. visited' = visited \cup {p} /\ p \in D1
    BY <1>2 DEF First, Visit, Reading, D1
  <1>4. listing' = listing /\ skip_renames' = skip_renames
    BY DEF First, Visit
  <1>5. \A l : l \in Lines' <=> FirstLines(l, visited')
    <2>1. \A l : l \in Lines <=> FirstLines(l, visited)
      BY <1>1 DEF Reported
    <2> QED  BY <1>2, <1>3, <2>1, FirstAdds DEF FirstLines
  <1>6. visited' \subseteq D1'
    BY <1>1, <1>3, <1>4 DEF Reported, D1
  <1> QED  BY <1>1, <1>4, <1>5, <1>6, LinesStay DEF Reported, FirstLines

\* An iteration of the second loop.
LEMMA SecondReported ==
    ASSUME Tables, Reported, NEW p \in Path, Second(p)
    PROVE  Reported'
  <1>1. main = "loop2" /\ main' = "loop2"
    BY DEF Second, Visit
  <1>2. Reading
    BY <1>1, TablesImply DEF Reading, TablesComplete
  <1>3. visited' = visited \cup {p} /\ p \in D2
    BY <1>2 DEF Second, Visit, Reading, D2
  <1>4. listing' = listing /\ skip_renames' = skip_renames
    BY DEF Second, Visit
  <1>5. \A l : l \in Lines' <=> FirstLines(l, D1) \/ SecondLines(l, visited')
    <2>1. \A l : l \in Lines <=> FirstLines(l, D1) \/ SecondLines(l, visited)
      BY <1>1 DEF Reported
    <2> QED  BY <1>2, <1>3, <2>1, SecondAdds DEF SecondLines
  <1>6. visited' \subseteq D2'
    BY <1>1, <1>3, <1>4 DEF Reported, D2
  <1> QED  BY <1>1, <1>4, <1>5, <1>6, LinesStay
           DEF Reported, FirstLines, SecondLines

\* The report holds the lines of the visited paths and nothing else.
LEMMA NextReported == Tables /\ Reported /\ [Next]_vars => Reported'
  <1> SUFFICES ASSUME Tables, Reported, [Next]_vars PROVE Reported'
    OBVIOUS
  <1>1. ASSUME NEW p \in Path, First(p) \/ Second(p) PROVE Reported'
    BY <1>1, FirstReported, SecondReported
  <1>2. ASSUME NEW d \in Dirs, FillerStep(d) PROVE Reported'
    <2>1. UNCHANGED <<listing, visited, out, skip_renames>>
      BY <1>2 DEF FillerStep, FillStart, FillFails, FillEnd, File
    <2>2. main' \in {main, "terminated"}
      BY <1>2 DEF FillerStep, FillStart, FillFails, FillEnd, File
    <2> QED  BY <2>1, <2>2, LinesStay
             DEF Reported, Lines, FirstLines, SecondLines
  <1>3. CASE Join1
    BY <1>3 DEF Join1, Reported
  <1>4. CASE Join2
    <2>1. visited' = {} /\ out' = <<>> /\ main' = "loop1"
      BY <1>4 DEF Join2, Reported
    <2>2. Lines' = {}
      BY <2>1 DEF Lines, Range
    <2> QED  BY <2>1, <2>2 DEF Reported, FirstLines
  <1>5. CASE FirstEnd
    <2>1. Reading
      BY <1>5, TablesImply DEF FirstEnd, Reading, TablesComplete
    <2>2. visited = D1
      BY <1>5, <2>1 DEF FirstEnd, Reported, Reading, D1
    <2>3. \A l : ~SecondLines(l, {})
      BY DEF SecondLines
    <2> QED  BY <1>5, <2>2, <2>3, LinesStay
             DEF FirstEnd, Reported, Lines, FirstLines, SecondLines
  <1>6. CASE SecondEnd
    <2>1. Reading
      BY <1>6, TablesImply DEF SecondEnd, Reading, TablesComplete
    <2>2. visited = D2
      BY <1>6, <2>1 DEF SecondEnd, Reported, Reading, D2
    <2> QED  BY <1>6, <2>2, LinesStay
             DEF SecondEnd, Reported, Lines, FirstLines, SecondLines
  <1>7. CASE UNCHANGED vars
    BY <1>7, LinesStay DEF vars, Reported, Lines, FirstLines, SecondLines
  <1> QED  BY <1>1, <1>2, <1>3, <1>4, <1>5, <1>6, <1>7
           DEF Next, MainStep, Terminated

\* The report, at any time.
THEOREM ReportInvariant == Spec => [](Tables /\ Reported)
  <1>1. Init => Reported
    BY DEF Init, Reported
  <1> QED  BY <1>1, NextReported, TablesInvariant, PTL DEF Spec

-----------------------------------------------------------------------------
(* One line per path *)

\* An iteration for p sends a line about p or none.
LEMMA IterationEmits ==
    ASSUME Tables, NEW p \in Path, First(p) \/ Second(p)
    PROVE  \/ UNCHANGED out
           \/ /\ main = "loop2" => ~Has(1, p)
              /\ \E k \in Kinds, ps \in SUBSET Path : Emit(k, p, ps)
  <1>1. \A h : \A d \in Dirs : PathsWith(d, h) \in SUBSET Path
    BY DEF PathsWith, Tables, TypeOK, Listing
  <1>2. \A h : Sources(h) \in SUBSET Path /\ Targets(h) \in SUBSET Path
    BY <1>1 DEF Sources, Targets, Dirs
  <1>3. CASE First(p)
    <2>1. main # "loop2"
      BY <1>3 DEF First
    <2> QED  BY <1>2, <1>3, <2>1
             DEF First, NotChanged, Overwritten, Renamed, Kinds
  <1>4. CASE Second(p)
    <2> DEFINE ps == Sources(hashes[2][p])
               ps2 == {c \in ps : Survives(c)}
    <2>1. ps2 \in SUBSET Path
      BY <1>2
    <2>2. \/ UNCHANGED out
          \/ ~Has(1, p) /\ (Emit("CopiedFrom", p, ps2) \/ Emit("NewFile", p, {}))
      BY <1>4 DEF Second, AlreadyHandled, Appeared, IsNew
    <2> HIDE DEF ps, ps2
    <2> QED  BY <2>1, <2>2 DEF Kinds
  <1> QED  BY <1>3, <1>4

\* A line about a path that had none.
LEMMA EmitOne ==
    ASSUME out \in Seq(Line), OneLinePerPath, NEW k \in Kinds, NEW p \in Path,
           NEW ps \in SUBSET Path, Emit(k, p, ps), \A l \in Lines : l.file # p
    PROVE  OneLinePerPath'
  <1>1. Entry(k, p, ps) \in Line
    BY EntryType
  <1>2. /\ out' \in Seq(Line) /\ Len(out') = Len(out) + 1
        /\ \A i \in 1 .. Len(out) : out'[i] = out[i]
        /\ out'[Len(out) + 1] = Entry(k, p, ps)
    BY <1>1, EmitAdds
  <1>3. DOMAIN out = 1 .. Len(out) /\ DOMAIN out' = 1 .. Len(out')
    BY <1>2, LenProperties
  <1>4. Len(out) \in Nat
    BY LenProperties
  <1>5. \A i \in 1 .. Len(out) : out[i].file # p
    BY <1>3 DEF Lines, Range
  <1>6. out'[Len(out) + 1].file = p
    BY <1>2 DEF Entry
  <1> SUFFICES ASSUME NEW i \in DOMAIN out', NEW j \in DOMAIN out',
                      out'[i].file = out'[j].file
               PROVE  i = j
    BY DEF OneLinePerPath
  <1>7. CASE i \in 1 .. Len(out) /\ j \in 1 .. Len(out)
    BY <1>2, <1>3, <1>7 DEF OneLinePerPath
  <1>8. CASE i = Len(out) + 1 /\ j \in 1 .. Len(out)
    BY <1>2, <1>5, <1>6, <1>8
  <1>9. CASE j = Len(out) + 1 /\ i \in 1 .. Len(out)
    BY <1>2, <1>5, <1>6, <1>9
  <1> QED  BY <1>2, <1>3, <1>4, <1>7, <1>8, <1>9

\* A line is about the path for which it was sent.
LEMMA LineFile ==
    ASSUME NEW l, NEW p, FirstLine(l, p) \/ SecondLine(l, p)
    PROVE  l.file = p
  BY DEF FirstLine, SecondLine, Entry

\* No step gives a path a second line.
LEMMA NextOneLine ==
    Tables /\ Reported /\ OneLinePerPath /\ [Next]_vars => OneLinePerPath'
  <1> SUFFICES ASSUME Tables, Reported, OneLinePerPath, [Next]_vars
               PROVE  OneLinePerPath'
    OBVIOUS
  <1>1. ASSUME NEW p \in Path, First(p) \/ Second(p) PROVE OneLinePerPath'
    <2>1. Reading /\ main \in {"loop1", "loop2"}
      BY <1>1, TablesImply DEF First, Second, Reading, TablesComplete
    <2>2. p \notin visited
      BY <1>1 DEF First, Second, Visit
    <2>3. CASE UNCHANGED out
      BY <2>3 DEF OneLinePerPath
    <2>4. CASE /\ main = "loop2" => ~Has(1, p)
               /\ \E k \in Kinds, ps \in SUBSET Path : Emit(k, p, ps)
      <3>1. \A l \in Lines : l.file # p
        BY <2>1, <2>2, <2>4, LineFile, ReadingPaths
           DEF Reported, FirstLines, SecondLines
      <3> QED  BY <2>4, <3>1, EmitOne DEF Tables, TypeOK
    <2> QED  BY <1>1, <2>3, <2>4, IterationEmits
  <1>2. CASE UNCHANGED out
    BY <1>2 DEF OneLinePerPath
  <1> QED  BY <1>1, <1>2
           DEF Next, MainStep, FillerStep, FillStart, FillFails, FillEnd, File,
               Join1, Join2, FirstEnd, SecondEnd, Terminated, vars

\* The mock stream of the tests never sees a path twice.
THEOREM OneLineEach == Spec => []OneLinePerPath
  <1>1. Init => OneLinePerPath
    BY DEF Init, OneLinePerPath
  <1> QED  BY <1>1, NextOneLine, ReportInvariant, PTL DEF Spec

-----------------------------------------------------------------------------
(* What the complete report says *)

Complete == Tables /\ Reported /\ main = "done"

\* The lines of each kind, read.
LEMMA LinesSay ==
    ASSUME Complete, NEW l \in Lines
    PROVE  /\ l.kind \in Kinds
           /\ l.kind = "OverwrittenBy" =>
                  /\ l.file \in D1 \cap D2
                  /\ l.candidates = From(listing[2][l.file])
           /\ l.kind = "ContentChanged" =>
                  l.file \in D1 \cap D2 /\ From(listing[2][l.file]) = {}
           /\ l.kind = "RenameTo" =>
                  /\ l.file \in D1 \ D2
                  /\ l.candidates = To(listing[1][l.file])
           /\ l.kind = "Removed" =>
                  l.file \in D1 \ D2 /\ To(listing[1][l.file]) = {}
           /\ l.kind = "CopiedFrom" =>
                  /\ l.file \in D2 \ D1
                  /\ l.candidates = From(listing[2][l.file]) \cap D2
           /\ l.kind = "NewFile" =>
                  l.file \in D2 \ D1 /\ From(listing[2][l.file]) = {}
  <1>1. FirstLines(l, D1) \/ SecondLines(l, D2)
    BY DEF Complete, Reported
  <1>2. CASE FirstLines(l, D1)
    <2>1. PICK p \in D1 : FirstLine(l, p)
      BY <1>2 DEF FirstLines
    <2> QED  BY <2>1 DEF FirstLine, Entry, Kinds
  <1>3. CASE SecondLines(l, D2)
    <2>1. PICK p \in D2 : SecondLine(l, p)
      BY <1>3 DEF SecondLines
    <2> QED  BY <2>1 DEF SecondLine, Entry, Kinds
  <1> QED  BY <1>1, <1>2, <1>3

\* The lines there must be for a path of DIR1.
LEMMA LinesOfDir1 ==
    ASSUME Complete, NEW p \in D1
    PROVE  /\ p \in D2 /\ listing[1][p] # listing[2][p] =>
                  IF From(listing[2][p]) # {}
                  THEN Entry("OverwrittenBy", p, From(listing[2][p])) \in Lines
                  ELSE Entry("ContentChanged", p, {}) \in Lines
           /\ p \notin D2 /\ To(listing[1][p]) = {} =>
                  Entry("Removed", p, {}) \in Lines
           /\ p \notin D2 /\ To(listing[1][p]) # {} /\ ~skip_renames =>
                  Entry("RenameTo", p, To(listing[1][p])) \in Lines
  <1>1. \A l : FirstLine(l, p) => l \in Lines
    BY DEF Complete, Reported, FirstLines
  <1> QED  BY <1>1 DEF FirstLine

\* The lines there must be for a path that only DIR2 has.
LEMMA LinesOfDir2 ==
    ASSUME Complete, NEW p \in D2 \ D1
    PROVE  /\ From(listing[2][p]) = {} => Entry("NewFile", p, {}) \in Lines
           /\ From(listing[2][p]) \cap D2 # {} =>
                  Entry("CopiedFrom", p, From(listing[2][p]) \cap D2) \in Lines
  <1>1. \A l : SecondLine(l, p) => l \in Lines
    BY DEF Complete, Reported, SecondLines
  <1> QED  BY <1>1 DEF SecondLine

\* A line, among those of its kind.
LEMMA EntryOf ==
    ASSUME NEW k, NEW p, NEW ps, Entry(k, p, ps) \in Lines, NEW K, k \in K
    PROVE  /\ Entry(k, p, ps) \in LinesOf(K)
           /\ Entry(k, p, ps).kind = k
           /\ Entry(k, p, ps).file = p
           /\ Entry(k, p, ps).candidates = ps
           /\ p \in FilesOf(K)
  <1>1. /\ Entry(k, p, ps).kind = k
        /\ Entry(k, p, ps).file = p
        /\ Entry(k, p, ps).candidates = ps
    BY DEF Entry
  <1> QED  BY <1>1 DEF LinesOf, FilesOf

\* The report names as vanished what has vanished.
LEMMA Vanished ==
    ASSUME Complete, ~skip_renames
    PROVE  FilesOf({"Removed", "RenameTo"}) = D1 \ D2
  <1>1. ASSUME NEW p \in FilesOf({"Removed", "RenameTo"}) PROVE p \in D1 \ D2
    <2>1. PICK l \in Lines : l.kind \in {"Removed", "RenameTo"} /\ l.file = p
      BY <1>1 DEF FilesOf, LinesOf
    <2> QED  BY <2>1, LinesSay
  <1>2. ASSUME NEW p \in D1 \ D2 PROVE p \in FilesOf({"Removed", "RenameTo"})
    <2>1. CASE To(listing[1][p]) = {}
      <3>1. Entry("Removed", p, {}) \in Lines
        BY <2>1, LinesOfDir1
      <3> QED  BY <3>1, EntryOf
    <2>2. CASE To(listing[1][p]) # {}
      <3>1. Entry("RenameTo", p, To(listing[1][p])) \in Lines
        BY <2>2, LinesOfDir1
      <3> QED  BY <3>1, EntryOf
    <2> QED  BY <2>1, <2>2
  <1> QED  BY <1>1, <1>2

\* The targets of the renames are paths of DIR2 with the content of a
\* vanished path.
LEMMA RenamedTo ==
    ASSUME Complete, ~skip_renames, NEW q
    PROVE  q \in RenameTargets <=>
               q \in D2 /\ \E p \in D1 \ D2 : listing[1][p] = listing[2][q]
  <1>1. ASSUME q \in RenameTargets
        PROVE  q \in D2 /\ \E p \in D1 \ D2 : listing[1][p] = listing[2][q]
    <2>1. PICK l \in Lines : l.kind = "RenameTo" /\ q \in l.candidates
      BY <1>1 DEF RenameTargets, LinesOf
    <2>2. l.file \in D1 \ D2 /\ q \in To(listing[1][l.file])
      BY <2>1, LinesSay
    <2> QED  BY <2>2 DEF To
  <1>2. ASSUME q \in D2, NEW p \in D1 \ D2, listing[1][p] = listing[2][q]
        PROVE  q \in RenameTargets
    <2>1. q \in To(listing[1][p])
      BY <1>2 DEF To
    <2>2. Entry("RenameTo", p, To(listing[1][p])) \in Lines
      BY <2>1, LinesOfDir1
    <2>3. /\ Entry("RenameTo", p, To(listing[1][p])) \in LinesOf({"RenameTo"})
          /\ Entry("RenameTo", p, To(listing[1][p])).candidates
                 = To(listing[1][p])
      BY <2>2, EntryOf
    <2> QED  BY <2>1, <2>3 DEF RenameTargets
  <1> QED  BY <1>1, <1>2

\* The report yields the paths of DIR2.
LEMMA PathsRebuilt ==
    ASSUME Complete, ~skip_renames
    PROVE  RebuiltPaths = D2
  <1>1. RebuiltPaths = (D1 \cap D2) \cup FilesOf({"NewFile", "CopiedFrom"})
                           \cup RenameTargets
    BY Vanished DEF RebuiltPaths, D1
  <1>2. FilesOf({"NewFile", "CopiedFrom"}) \subseteq D2
    BY LinesSay DEF FilesOf, LinesOf
  <1>3. RenameTargets \subseteq D2
    BY RenamedTo
  <1>4. ASSUME NEW q \in D2 \ D1
        PROVE  q \in FilesOf({"NewFile", "CopiedFrom"}) \cup RenameTargets
    <2>1. CASE From(listing[2][q]) = {}
      <3>1. Entry("NewFile", q, {}) \in Lines
        BY <2>1, LinesOfDir2
      <3> QED  BY <3>1, EntryOf
    <2>2. CASE From(listing[2][q]) \cap D2 # {}
      <3>1. Entry("CopiedFrom", q, From(listing[2][q]) \cap D2) \in Lines
        BY <2>2, LinesOfDir2
      <3> QED  BY <3>1, EntryOf
    <2>3. CASE From(listing[2][q]) # {} /\ From(listing[2][q]) \cap D2 = {}
      <3>1. PICK p \in From(listing[2][q]) : p \notin D2
        BY <2>3
      <3> QED  BY <3>1, RenamedTo DEF From
    <2> QED  BY <2>1, <2>2, <2>3
  <1> QED  BY <1>1, <1>2, <1>3, <1>4

\* A path without a line is as it was.
LEMMA NoLine ==
    ASSUME Complete, NEW p \in D1, p \notin FilesOf(Kinds)
    PROVE  \/ p \in D2 /\ listing[1][p] = listing[2][p]
           \/ p \notin D2 /\ skip_renames /\ To(listing[1][p]) # {}
  <1>1. ASSUME p \in D2, listing[1][p] # listing[2][p] PROVE FALSE
    BY <1>1, LinesOfDir1, EntryOf DEF Kinds
  <1>2. ASSUME p \notin D2, To(listing[1][p]) = {} \/ ~skip_renames PROVE FALSE
    BY <1>2, LinesOfDir1, EntryOf DEF Kinds
  <1> QED  BY <1>1, <1>2

\* What the report names as origins, line by line.
LEMMA OriginsAre ==
    ASSUME NEW p, NEW o
    PROVE  o \in Origins(p) <=>
               \/ \E l \in LinesOf({"OverwrittenBy", "CopiedFrom"}) :
                      l.file = p /\ o \in l.candidates
               \/ \E l \in LinesOf({"RenameTo"}) :
                      p \in l.candidates /\ o = l.file
               \/ o \in DOMAIN listing[1] \ FilesOf(Kinds) /\ o = p
  <1> DEFINE M == {m \in LinesOf({"OverwrittenBy", "CopiedFrom"}) : m.file = p}
             A == UNION {l.candidates : l \in M}
             R == {m \in LinesOf({"RenameTo"}) : p \in m.candidates}
             B == {l.file : l \in R}
             C == {q \in DOMAIN listing[1] \ FilesOf(Kinds) : q = p}
  <1>1. Origins(p) = A \cup B \cup C
    BY DEF Origins
  <1>2. o \in A <=> \E l \in M : o \in l.candidates
    OBVIOUS
  <1>3. o \in B <=> \E l \in R : o = l.file
    OBVIOUS
  <1> QED  BY <1>1, <1>2, <1>3

\* Whatever the report says a path was made from has the path's new content.
LEMMA OriginsRight ==
    ASSUME Complete, ~skip_renames, NEW p \in D2, NEW q \in Origins(p)
    PROVE  q \in From(listing[2][p])
  <1>1. CASE \E l \in LinesOf({"OverwrittenBy", "CopiedFrom"}) :
                 l.file = p /\ q \in l.candidates
    <2>1. PICK l \in Lines : /\ l.kind \in {"OverwrittenBy", "CopiedFrom"}
                             /\ l.file = p /\ q \in l.candidates
      BY <1>1 DEF LinesOf
    <2> QED  BY <2>1, LinesSay
  <1>2. CASE \E l \in LinesOf({"RenameTo"}) : p \in l.candidates /\ q = l.file
    <2>1. PICK l \in Lines : l.kind = "RenameTo" /\ p \in l.candidates /\ q = l.file
      BY <1>2 DEF LinesOf
    <2>2. q \in D1 /\ p \in To(listing[1][q])
      BY <2>1, LinesSay
    <2> QED  BY <2>2 DEF To, From
  <1>3. CASE q \in DOMAIN listing[1] \ FilesOf(Kinds) /\ q = p
    <2>1. listing[1][p] = listing[2][p]
      BY <1>3, NoLine DEF D1
    <2> QED  BY <1>3, <2>1 DEF From, D1
  <1> QED  BY <1>1, <1>2, <1>3, OriginsAre

\* For every path of DIR2 the report names an origin or a new content.
LEMMA OriginOrNew ==
    ASSUME Complete, ~skip_renames, NEW p \in D2
    PROVE  \/ Origins(p) # {}
           \/ \E l \in LinesOf({"NewFile", "ContentChanged"}) : l.file = p
  <1> DEFINE S == From(listing[2][p])
  <1>1. CASE p \in D1 /\ listing[1][p] = listing[2][p] /\ p \notin FilesOf(Kinds)
    <2>1. p \in Origins(p)
      BY <1>1, OriginsAre DEF D1
    <2> QED  BY <2>1
  <1>2. CASE p \in D1 /\ listing[1][p] = listing[2][p] /\ p \in FilesOf(Kinds)
    <2>1. PICK l \in Lines : l.file = p
      BY <1>2 DEF FilesOf, LinesOf
    <2>2. FirstLine(l, p)
      <3>1. FirstLines(l, D1) \/ SecondLines(l, D2)
        BY DEF Complete, Reported
      <3>2. ~SecondLines(l, D2)
        <4> SUFFICES ASSUME NEW o \in D2, SecondLine(l, o) PROVE FALSE
          BY DEF SecondLines
        <4>1. o = p
          BY <2>1, LineFile
        <4> QED  BY <1>2, <4>1 DEF SecondLine
      <3> QED  BY <2>1, <3>1, <3>2, LineFile DEF FirstLines
    <2> QED  BY <1>2, <2>2 DEF FirstLine
  <1>3. CASE p \in D1 /\ listing[1][p] # listing[2][p] /\ S # {}
    <2>1. Entry("OverwrittenBy", p, S) \in Lines
      BY <1>3, LinesOfDir1
    <2>2. S \subseteq Origins(p)
      <3>1. /\ Entry("OverwrittenBy", p, S) \in LinesOf({"OverwrittenBy", "CopiedFrom"})
            /\ Entry("OverwrittenBy", p, S).file = p
            /\ Entry("OverwrittenBy", p, S).candidates = S
        BY <2>1, EntryOf
      <3> QED  BY <3>1, OriginsAre
    <2> QED  BY <1>3, <2>2
  <1>4. CASE p \in D1 /\ listing[1][p] # listing[2][p] /\ S = {}
    <2>1. Entry("ContentChanged", p, {}) \in Lines
      BY <1>4, LinesOfDir1
    <2> QED  BY <2>1, EntryOf
  <1>5. CASE p \notin D1 /\ S = {}
    <2>1. Entry("NewFile", p, {}) \in Lines
      BY <1>5, LinesOfDir2
    <2> QED  BY <2>1, EntryOf
  <1>6. CASE p \notin D1 /\ S # {}
    <2>1. CASE S \cap D2 # {}
      <3> DEFINE T == S \cap D2
      <3>1. Entry("CopiedFrom", p, T) \in Lines
        BY <1>6, <2>1, LinesOfDir2
      <3>2. /\ Entry("CopiedFrom", p, T) \in LinesOf({"OverwrittenBy", "CopiedFrom"})
            /\ Entry("CopiedFrom", p, T).file = p
            /\ Entry("CopiedFrom", p, T).candidates = T
        BY <3>1, EntryOf
      <3>3. T \subseteq Origins(p)
        BY <3>2, OriginsAre
      <3> QED  BY <2>1, <3>3
    <2>2. CASE S \cap D2 = {}
      <3>1. PICK q \in S : q \in D1 /\ q \notin D2
        BY <1>6, <2>2 DEF From
      <3>2. p \in To(listing[1][q])
        BY <3>1 DEF From, To
      <3>3. Entry("RenameTo", q, To(listing[1][q])) \in Lines
        BY <3>1, <3>2, LinesOfDir1
      <3>4. /\ Entry("RenameTo", q, To(listing[1][q])) \in LinesOf({"RenameTo"})
            /\ Entry("RenameTo", q, To(listing[1][q])).file = q
            /\ Entry("RenameTo", q, To(listing[1][q])).candidates = To(listing[1][q])
        BY <3>3, EntryOf
      <3>5. q \in Origins(p)
        BY <3>2, <3>4, OriginsAre
      <3> QED  BY <3>5
    <2> QED  BY <2>1, <2>2
  <1> QED  BY <1>1, <1>2, <1>3, <1>4, <1>5, <1>6

\* All that the report says of the content of a path is its content in DIR2.
LEMMA ContentsRebuilt ==
    ASSUME Complete, ~skip_renames, NEW p \in D2
    PROVE  /\ Origins(p) \subseteq DOMAIN listing[1]
           /\ RebuiltContents(p) = {Seen(listing[2][p])}
  <1>1. \A q \in Origins(p) :
            /\ q \in DOMAIN listing[1]
            /\ listing[1][q] = listing[2][p]
            /\ listing[1][q] = Seen(listing[2][p])
    BY OriginsRight DEF From, D1, Seen, Range
  <1>2. \A l \in LinesOf({"NewFile", "ContentChanged"}) :
            l.file = p => Unseen = Seen(listing[2][p])
    <2> SUFFICES ASSUME NEW l \in Lines, l.kind \in {"NewFile", "ContentChanged"},
                        l.file = p
                 PROVE  Unseen = Seen(listing[2][p])
      BY DEF LinesOf
    <2>1. From(listing[2][p]) = {}
      BY LinesSay
    <2> QED  BY <2>1 DEF From, D1, Seen, Range
  <1>3. RebuiltContents(p) \subseteq {Seen(listing[2][p])}
    BY <1>1, <1>2 DEF RebuiltContents
  <1>4. RebuiltContents(p) # {}
    BY <1>1, OriginOrNew DEF RebuiltContents
  <1> QED  BY <1>1, <1>3, <1>4

\* The report turns DIR1 into DIR2, whatever the two directories hold.
THEOREM ReportIsRight == Spec => []ReportRebuilds
  <1>1. Tables /\ Reported => ReportRebuilds
    BY PathsRebuilt, ContentsRebuilt DEF Complete, ReportRebuilds, D2
  <1> QED  BY <1>1, ReportInvariant, PTL

\* Nothing that changed stays unmentioned, except a rename that was skipped.
LEMMA HiddenRename ==
    ASSUME Complete, NEW p \in D1 \cup D2, ~Same(p), ~Mentioned(p)
    PROVE  /\ skip_renames
           /\ \E f \in D1 \ D2, t \in D2 :
                  listing[1][f] = listing[2][t] /\ p \in {f, t}
  <1>1. CASE p \in D1
    <2>1. p \notin D2 /\ skip_renames /\ To(listing[1][p]) # {}
      BY <1>1, NoLine DEF Mentioned, Same, D1, D2
    <2> QED  BY <1>1, <2>1 DEF To
  <1>2. CASE p \in D2 \ D1
    <2>1. From(listing[2][p]) # {} /\ From(listing[2][p]) \cap D2 = {}
      <3>1. p \notin FilesOf(Kinds)
        BY DEF Mentioned
      <3>2. Entry("NewFile", p, {}) \notin Lines
        BY <3>1, EntryOf DEF Kinds
      <3>3. \A ps : Entry("CopiedFrom", p, ps) \notin Lines
        BY <3>1, EntryOf DEF Kinds
      <3> QED  BY <1>2, <3>2, <3>3, LinesOfDir2
    <2>2. PICK f \in D1 \ D2 : listing[1][f] = listing[2][p]
      BY <2>1 DEF From
    <2>3. skip_renames
      BY <1>2, <2>2, RenamedTo DEF Mentioned
    <2> QED  BY <1>2, <2>2, <2>3
  <1> QED  BY <1>1, <1>2

\* --skip_renames hides renames and nothing else.
THEOREM SkipHidesOnlyRenames == Spec => []OnlyRenamesHidden
  <1>1. Tables /\ Reported => OnlyRenamesHidden
    BY HiddenRename DEF Complete, OnlyRenamesHidden, D1, D2
  <1> QED  BY <1>1, ReportInvariant, PTL
=============================================================================
