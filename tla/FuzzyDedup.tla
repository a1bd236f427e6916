------------------------------ MODULE FuzzyDedup ------------------------------
(***************************************************************************)
(* FuzzyDedup of fuzzy_dedup.cpp: the scan builds the tree; files are       *)
(* classified by content, empty directories all together, and the other     *)
(* directories bottom up, each into the class of the most similar directory *)
(* that is near enough or into a new one; finally the share of its content   *)
(* that is found nowhere else is computed for every directory.              *)
(*                                                                         *)
(* Traverse promises no order (file_tree.h:77) and the candidates come from *)
(* an unordered_set: both orders are left open.  So is that of the classes,  *)
(* which SortEqClasses changes: classes are used as a set.                   *)
(***************************************************************************)
EXTENDS FileTree

CONSTANTS MaxNodes,   \* bound on the size of the tree
          Tolerances  \* the values of --tolerable_diff_pct

ASSUME MaxNodesAssumption == MaxNodes \in Nat \ {0}
ASSUME TolerancesAssumption == Tolerances \subseteq Int

VARIABLES phase,     \* "scan", "files", "emptydirs", "ready", "propagate",
                     \* "uniqueness", "done"
          queue,     \* ready_to_eval
          unique,    \* unique_fraction_ of each node
          tolerance  \* Conf().tolerable_diff_pct_

vars == <<tree, classes, phase, queue, unique, tolerance>>

\* Faulty variants for mutation testing: no specification uses them.
BadFilesAlike(m, n) == TRUE                        \* the range is not ended
BadPushedEarly(n) == IF Parent(n) # 0 THEN <<Parent(n)>> ELSE <<>>
BadPushed(n) == <<>>                               \* leaves' parents only
BadClosest(n, candidates) == candidates            \* min_it is not moved
BadElsewhere(f, here) == ~IsSingle(eq[f])          \* a twin inside counts
BadKeepsInteresting(n) == Parent(n) # 0 /\ IsSingle(eq[Parent(n)])

Init ==
    /\ nodes = <<>> /\ eq = <<>> /\ weight = <<>> /\ notEval = <<>>
    /\ use_size \in BOOLEAN
    /\ phase = "scan"
    /\ queue = <<>>
    /\ unique = <<>>
    /\ tolerance \in Tolerances

-----------------------------------------------------------------------------
(* TreeCtorProcessor *)

Created == UNCHANGED <<use_size, phase, queue, unique, tolerance>>

RootDir ==
    /\ phase = "scan" /\ nodes = <<>>
    /\ AddChild(0, Dir)
    /\ Created

SubDir(p) ==
    /\ phase = "scan" /\ Len(nodes) < MaxNodes
    /\ IsDir(p)
    /\ AddChild(p, Dir)
    /\ Created

File(p, c) ==
    /\ phase = "scan" /\ Len(nodes) < MaxNodes
    /\ IsDir(p)
    /\ AddChild(p, c)
    /\ Created

\* without a root there is nothing to classify
ScanEnd ==
    /\ phase = "scan"
    /\ phase' = IF nodes = <<>> THEN "done" ELSE "files"
    /\ UNCHANGED <<tree, classes, queue, unique, tolerance>>

-----------------------------------------------------------------------------
(* The leaves *)

ClassifyFrame == UNCHANGED <<tree, phase, queue, unique, tolerance>>

FilesAlike(m, n) == nodes[m].content = nodes[n].content

\* ClassifyDuplicateFiles: the next file, into the class of its content
ClassifyFile(n) ==
    /\ phase = "files"
    /\ ~IsDir(n) /\ ~Evaluated(n)
    /\ \A m \in Node : m < n => IsDir(m) \/ Evaluated(m)
    /\ LET alike == {m \in Node : m < n /\ ~IsDir(m) /\ FilesAlike(m, n)}
       IN  AddNode(n, IF alike = {} THEN n ELSE eq[Min(alike)])
    /\ ClassifyFrame

FilesEnd ==
    /\ phase = "files"
    /\ \A n \in Node : IsDir(n) \/ Evaluated(n)
    /\ phase' = "emptydirs"
    /\ UNCHANGED <<tree, classes, queue, unique, tolerance>>

IsEmptyDir(n) == IsDir(n) /\ Children(n) = {}

\* ClassifyEmptyDirs
ClassifyEmptyDir(n) ==
    /\ phase = "emptydirs"
    /\ IsEmptyDir(n) /\ ~Evaluated(n)
    /\ \A m \in Node : m < n => ~IsEmptyDir(m) \/ Evaluated(m)
    /\ AddNode(n, Min({m \in Node : IsEmptyDir(m)}))
    /\ ClassifyFrame

\* the end of ClassifyEmptyDirs, GetNodesReadyToEval
GetNodesReadyToEval ==
    /\ phase = "emptydirs"
    /\ \A n \in Node : IsEmptyDir(n) => Evaluated(n)
    /\ queue' \in SetToSeqs({n \in Node : IsReady(n) /\ ~Evaluated(n)})
    /\ phase' = "propagate"
    /\ UNCHANGED <<tree, classes, unique, tolerance>>

-----------------------------------------------------------------------------
(* PropagateEquivalence *)

\* GetClosestNode: the first candidate at the smallest distance
Closest(n, candidates) ==
    {m \in candidates :
        \A o \in candidates : ~Less(NodeDistance(n, o), NodeDistance(n, m))}

Near(d) == Less(d, <<tolerance, 100>>)

\* the parent, once its last child has been evaluated
Pushed(n) == IF Parent(n) # 0 /\ notEval'[Parent(n)] = 0 THEN <<Parent(n)>> ELSE <<>>

\* an iteration of the loop
Evaluate(n) ==
    /\ phase = "propagate" /\ queue # <<>>
    /\ n = Head(queue)
    /\ LET candidates == PossibleEquivalents(n)
       IN  \/ candidates = {} /\ AddNode(n, n)
           \/ \E m \in Closest(n, candidates) :
                  IF Near(NodeDistance(n, m)) THEN AddNode(n, eq[m])
                                              ELSE AddNode(n, n)
    /\ queue' = Tail(queue) \o Pushed(n)
    /\ UNCHANGED <<tree, phase, unique, tolerance>>

PropagateEnd ==
    /\ phase = "propagate" /\ queue = <<>>
    /\ phase' = "uniqueness"
    /\ UNCHANGED <<tree, classes, queue, unique, tolerance>>

-----------------------------------------------------------------------------
(* CalculateUniqueness *)

\* HasDuplicateElsewhere
Elsewhere(f, here) == Members(eq[f]) \ here # {}

WeightOf(F) == FoldSet(LAMBDA f, sum : Plus(weight[eq[f]], sum), Zero, F)

UniqueFraction(n) ==
    LET F == Files[n]
        own == WeightOf({f \in F : ~Elsewhere(f, F)})
        total == WeightOf(F)
    IN  CASE ~IsDir(n) -> IF IsSingle(eq[n]) THEN <<1, 1>> ELSE Zero
          [] IsDir(n) -> IF total = Zero THEN Zero
                         ELSE Fraction(own[1] * total[2], own[2] * total[1])

CalculateUniqueness ==
    /\ phase = "uniqueness"
    /\ unique' = [n \in Node |-> UniqueFraction(n)]
    /\ phase' = "done"
    /\ UNCHANGED <<tree, classes, queue, tolerance>>

Done == phase = "done" /\ UNCHANGED vars

Next ==
    \/ RootDir \/ ScanEnd \/ FilesEnd \/ GetNodesReadyToEval
    \/ PropagateEnd \/ CalculateUniqueness \/ Done
    \/ \E n \in Node :
           \/ SubDir(n) \/ \E c \in Content : File(n, c)
           \/ ClassifyFile(n) \/ ClassifyEmptyDir(n) \/ Evaluate(n)

Spec == Init /\ [][Next]_vars

-----------------------------------------------------------------------------
(* GetInteresingEqClasses and PrintScatteredDirectories, of the result *)

ClassNames == {eq[n] : n \in Node} \ {0}

\* a parent that is similar to nothing leaves its child worth printing
KeepsInteresting(n) == Parent(n) = 0 \/ IsSingle(eq[Parent(n)])

Interesting ==
    {k \in ClassNames : ~IsSingle(k) /\ \E n \in Members(k) : KeepsInteresting(n)}

Scattered ==
    {n \in Node : /\ IsDir(n) /\ IsSingle(eq[n])
                  /\ unique[n][1] * 100 < tolerance * unique[n][2]}

-----------------------------------------------------------------------------
(* Properties *)

TypeOK ==
    /\ nodes \in Seq([parent : 0 .. MaxNodes, content : Content \cup {Dir}])
    /\ Len(nodes) <= MaxNodes
    /\ eq \in [Node -> Node \cup {0}]
    /\ weight \in [Node -> Fractions]
    /\ notEval \in [Node -> Nat]
    /\ use_size \in BOOLEAN
    /\ phase \in {"scan", "files", "emptydirs", "propagate", "uniqueness", "done"}
    /\ queue \in Seq(Node)
    /\ unique \in {<<>>} \cup [Node -> Fractions]
    /\ tolerance \in Tolerances

\* not_evaluated_children_ is kept up to date by AddChild and by the AddNode of
\* a child; a count that is off would strand a directory or evaluate it early.
CountersRight ==
    \A n \in Node : notEval[n] = Cardinality({c \in Children(n) : ~Evaluated(c)})

\* The assertions of PropagateEquivalence and its comment "there is no risk
\* we're adding it to the queue twice": the queue holds every directory that is
\* ready, once, and none that is not.
QueueExact ==
    phase = "propagate" =>
        /\ \A i, j \in DOMAIN queue : queue[i] = queue[j] => i = j
        /\ \A n \in Node :
               n \in Range(queue) <=> notEval[n] = 0 /\ ~Evaluated(n)

\* assert(root_node.IsEvaluated()) and more: nothing is left without a class
\* by the time the classes are used.
AllClassified ==
    phase \in {"uniqueness", "done"} => \A n \in Node : Evaluated(n)

\* Fuzzy as the classes of directories are, two files share a class exactly
\* if they have the same content, and no directory is classed with a file.
FilesByContent ==
    phase \in {"uniqueness", "done"} =>
        \A m, n \in Node :
            ~IsDir(m) => (eq[m] = eq[n] <=> nodes[m].content = nodes[n].content)

\* README.md: the metric "becomes 0 for identical directories".  Two
\* directories with the same classes of entries, not all of weight 0, end up in
\* the same class although each only goes to one of its nearest candidates.  The
\* tolerance is a percentage; conf.cpp:67 takes any int.
IdenticalTogether ==
    phase = "done" /\ tolerance \in 1 .. 100 =>
        \A m, n \in Node :
            /\ IsDir(m) /\ IsDir(n)
            /\ ChildClasses(m) = ChildClasses(n)
            /\ Truncated(ChildClasses(m)) > 0
            => eq[m] = eq[n]

\* a node and all above it
Lineage ==
    LET f[n \in 0 .. Len(nodes)] == IF n = 0 THEN {} ELSE {n} \cup f[Parent(n)]
    IN  f

Redundant(n) ==
    /\ IsDir(n) /\ Files[n] # {}
    /\ \A f \in Files[n] : \E g \in Node \ Files[n] : nodes[g].content = nodes[f].content

\* A class is left out of the report only because its members' parents have
\* duplicates themselves: every duplicate lies in an entry that is reported,
\* and so does every directory whose files are all found outside of it too,
\* unless it is listed among the scattered ones.
NothingHidden ==
    phase = "done" =>
        \A n \in Node :
            \/ IsSingle(eq[n]) /\ (Redundant(n) /\ tolerance > 0 => n \in Scattered)
            \/ \E a \in Lineage[n] : eq[a] \in Interesting

\* The files that count: those that weigh something, or the file itself.
FilesThatCount(n) == {f \in Files[n] : f = n \/ OwnWeight(f) # Zero}

\* README.md: a fraction "between 0 (all of the files are duplicated elsewhere)
\* and 1 (the files in this directory have no duplicates outside of it)".  By
\* size that is said of files that are not empty; "empty directory is not
\* unique" (fuzzy_dedup.cpp:298), nor is one of empty files.
UniquenessRight ==
    phase = "done" =>
        \A n \in Node :
            LET F == FilesThatCount(n)
                outside(f) ==
                    {g \in Node \ Files[n] : nodes[g].content = nodes[f].content}
            IN  /\ unique[n] = Zero <=> \A f \in F : outside(f) # {}
                /\ F # {} => (unique[n] = <<1, 1>> <=> \A f \in F : outside(f) = {})

\* file_tree.cpp:171: "both are empty directories, so they are the same".
ZeroSumMeansEmpty ==
    phase = "propagate" =>
        \A n \in Node : queue # <<>> /\ n = Head(queue) =>
            \A m \in PossibleEquivalents(n) :
                Truncated(ChildClasses(m) \cup ChildClasses(n)) = 0
                    => Children(m) = {} /\ Children(n) = {}

\* README.md: "Every directory's weight is defined as a sum of weights of all
\* files in it (including subdirectories)".
WeightIsSumOfFiles ==
    phase = "done" =>
        \A n \in Node : IsDir(n) /\ IsSingle(eq[n]) =>
            weight[eq[n]] = WeightOf(Files[n])
=============================================================================
