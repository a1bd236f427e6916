--------------------------- MODULE FuzzyDedupProofs ---------------------------
(***************************************************************************)
(* FuzzyDedup for a tree of any size, any contents and any tolerance: the     *)
(* counters of unevaluated children, the queue built on them, and that        *)
(* nothing is left without a class when the queue is empty; the classes of    *)
(* files; the weights, sums of fractions in lowest terms; the unique          *)
(* fraction and the report; and that the same directories get the same class. *)
(*                                                                         *)
(* Folds and recursive functions are taken as any function that meets their  *)
(* equation, which FoldExists, FilesExist and LineageExists show to exist.    *)
(***************************************************************************)
EXTENDS FuzzyDedup, SequenceTheorems, FiniteSetTheorems, WellFoundedInduction,
        SequenceLemmas, TLAPS

N == Len(nodes)
NodeRecord == [parent : Nat, content : Content \cup {Dir}]

\* the children that not_evaluated_children_ counts
Pending(n) == {c \in Children(n) : eq[c] = 0}

Shape ==
    /\ nodes \in Seq(NodeRecord)
    /\ eq \in [1 .. N -> Nat]
    /\ \A n \in 1 .. N : eq[n] <= N
    /\ notEval \in [1 .. N -> Int]
    /\ \A n \in 1 .. N :
           /\ nodes[n].parent \in 0 .. n - 1
           /\ nodes[n].parent # 0 => nodes[nodes[n].parent].content = Dir

Counted == \A n \in 1 .. N : notEval[n] = Cardinality(Pending(n))

\* a node is classified after its children
Settled == \A n \in 1 .. N : eq[n] # 0 => notEval[n] = 0

\* before the classification
Fresh == \A n \in 1 .. N : eq[n] = 0

Ready(n) == notEval[n] = 0 /\ eq[n] = 0

-----------------------------------------------------------------------------
(* Numbers and sequences *)

\* The nodes are numbered from 1.
LEMMA NodeNumbers ==
    ASSUME Shape
    PROVE  N \in Nat /\ Node = 1 .. N
  BY LenProperties DEF Shape, N, Node

\* s has as many elements as l
IsAlong(s, l, T) == s \in [1 .. Len(l) -> T]

\* A function on the indices of a sequence is a sequence.
LEMMA AlongIsSeq ==
    ASSUME NEW R, NEW l \in Seq(R), NEW T, NEW s, IsAlong(s, l, T)
    PROVE  s \in Seq(T) /\ Len(s) = Len(l)
  <1>1. Len(l) \in Nat
    BY LenProperties
  <1>2. s \in Seq(T)
    BY <1>1, SeqDef DEF IsAlong
  <1> QED  BY <1>1, <1>2, LenProperties DEF IsAlong

\* A nonempty set of small numbers has a largest element.
LEMMA Largest ==
    ASSUME NEW n \in Nat, NEW U \in SUBSET (1 .. n), U # {}
    PROVE  \E x \in U : \A y \in U : y <= x
  <1> DEFINE T == {n - u : u \in U}
  <1>1. \A u \in U : u \in 1 .. n /\ n - u \in Nat
    OBVIOUS
  <1>2. PICK u \in U : TRUE
    OBVIOUS
  <1>3. T \subseteq Nat
    BY <1>1
  <1>4. n - u \in T
    BY <1>2
  <1>5. PICK t \in T : \A r \in T : ~ (<<r, t>> \in OpToRel(<, Nat))
    <2> HIDE DEF T
    <2>1. T # {}
      BY <1>4
    <2> QED  BY <1>3, <2>1, WFMin, NatLessThanWellFounded, Zenon
  <1>6. \A r \in T : ~ (<<r, t>> \in {ss \in Nat \X Nat : ss[1] < ss[2]})
    <2> HIDE DEF T
    <2> QED  BY <1>5, Zenon DEF OpToRel
  <1>7. \A r \in T : ~ (r < t)
    <2> HIDE DEF T
    <2> QED  BY <1>3, <1>5, <1>6
  <1>8. PICK x \in U : t = n - x
    BY <1>5
  <1>9. \A y \in U : ~ (n - y < n - x)
    BY <1>7, <1>8
  <1> QED  BY <1>1, <1>8, <1>9

\* ... and Min is its smallest.
LEMMA MinIsSmallest ==
    ASSUME NEW n \in Nat, NEW U \in SUBSET (1 .. n), U # {}
    PROVE  Min(U) \in U /\ \A y \in U : Min(U) <= y
  <1>1. U \subseteq Nat
    OBVIOUS
  <1>2. PICK x \in U : \A r \in U : ~ (<<r, x>> \in OpToRel(<, Nat))
    BY <1>1, WFMin, NatLessThanWellFounded, Zenon
  <1>3. \A r \in U : ~ (<<r, x>> \in {ss \in Nat \X Nat : ss[1] < ss[2]})
    BY <1>2, Zenon DEF OpToRel
  <1>4. \A r \in U : ~ (r < x)
    BY <1>1, <1>3
  <1>5. \A r \in U : x <= r
    BY <1>1, <1>4
  <1> QED  BY <1>5, Zenon DEF Min

\* Children are nodes, so they are finitely many.
LEMMA PendingFinite ==
    ASSUME Shape, NEW n
    PROVE  /\ Pending(n) \subseteq 1 .. N
           /\ IsFiniteSet(Pending(n))
           /\ Cardinality(Pending(n)) \in Nat
           /\ Cardinality(Pending(n)) = 0 <=> Pending(n) = {}
  <1>1. Pending(n) \subseteq 1 .. N /\ N \in Nat
    BY NodeNumbers DEF Pending, Children
  <1>2. IsFiniteSet(1 .. N)
    BY <1>1, FS_Interval
  <1>3. IsFiniteSet(Pending(n))
    BY <1>1, <1>2, FS_Subset
  <1> QED  BY <1>1, <1>3, FS_CardinalityType, FS_EmptySet

-----------------------------------------------------------------------------
(* The two operations that change the counters *)

\* EqClass::AddNode takes the node out of its parent's pending children.
LEMMA AddNodeCounts ==
    ASSUME Shape, Counted, Settled, NEW n \in 1 .. N, Ready(n),
           NEW k \in 1 .. N, AddNode(n, k), nodes' = nodes
    PROVE  /\ Shape' /\ Counted' /\ Settled' /\ N' = N
           /\ eq' = [eq EXCEPT ![n] = k]
           /\ nodes[n].parent # 0 => ~ Ready(nodes[n].parent)
           /\ \A m \in 1 .. N :
                  Ready(m)' <=> \/ Ready(m) /\ m # n
                                \/ m = nodes[n].parent /\ notEval'[m] = 0
  <1> DEFINE p == nodes[n].parent
  <1>1. eq' = [eq EXCEPT ![n] = k]
    BY DEF AddNode
  <1>2. notEval' = IF p = 0 THEN notEval
                   ELSE [notEval EXCEPT ![p] = notEval[p] - 1]
    BY DEF AddNode, Uncounted, Parent
  <1>3. N \in Nat /\ Node = 1 .. N /\ N' = N
    BY NodeNumbers DEF N
  <1>4. p \in 0 .. N
    <2>1. p \in 0 .. n - 1
      BY DEF Shape
    <2> HIDE DEF p
    <2> QED  BY <1>3, <2>1
  <1>5. Shape'
    <2>1. eq' \in [1 .. N -> Nat]
      BY <1>1 DEF Shape
    <2>2. notEval' \in [1 .. N -> Int]
      BY <1>2, <1>4 DEF Shape
    <2>3. \A m \in 1 .. N : eq'[m] <= N
      BY <1>1, <1>3 DEF Shape
    <2> QED  BY <1>3, <2>1, <2>2, <2>3 DEF Shape
  <1>6. ASSUME NEW m \in 1 .. N
        PROVE  Pending(m)' = IF m = p THEN Pending(m) \ {n} ELSE Pending(m)
    <2>1. Children(m)' = Children(m)
      BY <1>3 DEF Children, Node, Parent
    <2>2. \A c \in Children(m) : c \in 1 .. N /\ (c = n => m = p)
      BY <1>3 DEF Children, Parent
    <2>3. ASSUME NEW c \in Children(m)
          PROVE  eq'[c] = 0 <=> eq[c] = 0 /\ c # n
      <3>1. c \in 1 .. N /\ k # 0
        BY <1>3, <2>2
      <3>2. eq \in [1 .. N -> Nat]
        BY DEF Shape
      <3> QED  BY <1>1, <3>1, <3>2
    <2> QED  BY <2>1, <2>2, <2>3 DEF Pending
  <1>7. p # 0 => n \in Pending(p)
    BY <1>3 DEF Pending, Children, Parent, Ready
  <1>8. Counted'
    <2> SUFFICES ASSUME NEW m \in 1 .. N
                 PROVE  notEval'[m] = Cardinality(Pending(m)')
      BY <1>3 DEF Counted
    <2>1. notEval[m] = Cardinality(Pending(m))
      BY DEF Counted
    <2>2. CASE m = p
      <3>1. n \in Pending(m) /\ p # 0
        BY <1>3, <1>7, <2>2
      <3>2. IsFiniteSet(Pending(m))
        BY PendingFinite
      <3>3. Cardinality(Pending(m) \ {n}) = Cardinality(Pending(m)) - 1
        BY <3>1, <3>2, FS_RemoveElement
      <3>4. notEval'[m] = notEval[m] - 1
        BY <1>2, <2>2, <3>1 DEF Shape
      <3>5. Pending(m)' = Pending(m) \ {n}
        BY <1>6, <2>2
      <3> QED  BY <2>1, <3>3, <3>4, <3>5
    <2>3. CASE m # p
      BY <1>2, <1>6, <2>1, <2>3 DEF Shape
    <2> QED  BY <2>2, <2>3
  <1>9. p # 0 => p \in 1 .. N /\ notEval[p] # 0 /\ eq[p] = 0 /\ p # n
    <2> SUFFICES ASSUME p # 0  PROVE  p \in 1 .. N /\ notEval[p] # 0 /\ eq[p] = 0 /\ p # n
      OBVIOUS
    <2>1. p \in 1 .. N
      BY <1>3, <1>4
    <2>2. notEval[p] # 0
      BY <1>7, <2>1, PendingFinite DEF Counted
    <2> QED  BY <2>1, <2>2 DEF Settled, Ready
  <1>10. \A m \in 1 .. N : m # p => notEval'[m] = notEval[m]
    BY <1>2 DEF Shape
  <1>11. \A m \in 1 .. N : eq'[m] = IF m = n THEN k ELSE eq[m]
    BY <1>1 DEF Shape
  <1>12. k # 0
    BY <1>3
  <1> HIDE DEF p
  <1>13. Settled'
    <2> SUFFICES ASSUME NEW m \in 1 .. N, eq'[m] # 0  PROVE  notEval'[m] = 0
      BY <1>3 DEF Settled
    <2>1. m # p
      BY <1>3, <1>9, <1>11
    <2> QED  BY <1>10, <1>11, <2>1 DEF Settled, Ready
  <1>14. ASSUME NEW m \in 1 .. N
         PROVE  Ready(m)' <=> \/ Ready(m) /\ m # n
                              \/ m = p /\ notEval'[m] = 0
    BY <1>3, <1>9, <1>10, <1>11, <1>12 DEF Ready
  <1> QED  BY <1>1, <1>3, <1>5, <1>8, <1>9, <1>13, <1>14 DEF p, Ready

\* Node::AddChild adds the child, unevaluated, to its parent's.
LEMMA AddChildCounts ==
    ASSUME Shape, Counted, Fresh, NEW p \in 0 .. N, NEW x \in Content \cup {Dir},
           AddChild(p, x), p # 0 => nodes[p].content = Dir
    PROVE  Shape' /\ Counted' /\ Fresh'
  <1> DEFINE r == [parent |-> p, content |-> x]
             counts == IF p = 0 THEN notEval
                       ELSE [notEval EXCEPT ![p] = notEval[p] + 1]
  <1>1. N \in Nat /\ Node = 1 .. N
    BY NodeNumbers
  <1>2. /\ nodes \in Seq(NodeRecord)
        /\ nodes' \in Seq(NodeRecord)
        /\ N' = N + 1
        /\ \A i \in 1 .. N : nodes'[i] = nodes[i]
        /\ nodes'[N + 1] = r
    <2>1. r \in NodeRecord
      BY <1>1 DEF NodeRecord
    <2>2. nodes \in Seq(NodeRecord) /\ nodes' = Append(nodes, r)
      BY DEF Shape, AddChild
    <2> HIDE DEF r
    <2> QED  BY <2>1, <2>2, AppendProperties DEF N
  <1>3. /\ eq' \in [1 .. N + 1 -> Nat]
        /\ \A i \in 1 .. N : eq'[i] = eq[i]
        /\ eq'[N + 1] = 0
    <2> DEFINE z == 0
               T == Nat
    <2>1. IsAlong(eq, nodes, T) /\ eq' = Append(eq, z) /\ z \in T
      BY DEF Shape, AddChild, IsAlong, N
    <2>2. eq \in Seq(T) /\ Len(eq) = N
      <3> HIDE DEF T, r
      <3> QED  BY <1>2, <2>1, AlongIsSeq DEF N
    <2>3. /\ eq' \in Seq(T)
          /\ Len(eq') = N + 1
          /\ \A i \in 1 .. N : eq'[i] = eq[i]
          /\ eq'[N + 1] = z
      <3> HIDE DEF z, T
      <3> QED  BY <2>1, <2>2, AppendProperties
    <2>4. eq' \in [1 .. N + 1 -> T]
      <3> HIDE DEF T
      <3> QED  BY <2>3, LenProperties
    <2> QED  BY <2>3, <2>4
  <1>4. counts \in [1 .. N -> Int]
    BY <1>1 DEF Shape
  <1>5. notEval' = Append(counts, 0)
    BY DEF AddChild
  <1>6. /\ notEval' \in [1 .. N + 1 -> Int]
        /\ \A i \in 1 .. N : notEval'[i] = counts[i]
        /\ notEval'[N + 1] = 0
    <2> DEFINE z == 0
               T == Int
    <2>1. IsAlong(counts, nodes, T) /\ notEval' = Append(counts, z) /\ z \in T
      BY <1>4, <1>5 DEF IsAlong, N
    <2>2. counts \in Seq(T) /\ Len(counts) = N
      <3> HIDE DEF T, r, counts
      <3> QED  BY <1>2, <2>1, AlongIsSeq DEF N
    <2>3. /\ notEval' \in Seq(T)
          /\ Len(notEval') = N + 1
          /\ \A i \in 1 .. N : notEval'[i] = counts[i]
          /\ notEval'[N + 1] = z
      <3> HIDE DEF z, T, counts
      <3> QED  BY <2>1, <2>2, AppendProperties
    <2>4. notEval' \in [1 .. N + 1 -> T]
      <3> HIDE DEF T
      <3> QED  BY <2>3, LenProperties
    <2> QED  BY <2>3, <2>4
  <1>7. Shape'
    <2> SUFFICES ASSUME NEW n \in 1 .. N + 1
                 PROVE  /\ nodes'[n].parent \in 0 .. n - 1
                        /\ nodes'[n].parent # 0
                               => nodes'[nodes'[n].parent].content = Dir
      <3>1. \A n \in 1 .. N + 1 : eq'[n] <= N + 1
        <4> SUFFICES ASSUME NEW n \in 1 .. N + 1  PROVE  eq'[n] <= N + 1
          OBVIOUS
        <4>1. n \in 1 .. N => eq'[n] \in Nat /\ eq'[n] <= N
          BY <1>3 DEF Shape
        <4> QED  BY <1>1, <1>3, <4>1
      <3> QED  BY <1>2, <1>3, <1>6, <3>1 DEF Shape
    <2>1. CASE n \in 1 .. N
      <3> DEFINE b == nodes[n].parent
      <3>1. b \in 0 .. n - 1 /\ (b # 0 => nodes[b].content = Dir)
        BY <2>1 DEF Shape
      <3>2. b # 0 => b \in 1 .. N
        BY <1>1, <2>1, <3>1
      <3>3. nodes'[n] = nodes[n] /\ (b # 0 => nodes'[b] = nodes[b])
        BY <1>2, <2>1, <3>2
      <3> HIDE DEF b
      <3>4. nodes'[n].parent = b
        BY <3>3 DEF b
      <3> QED  BY <3>1, <3>3, <3>4
    <2>2. CASE n = N + 1
      <3>1. nodes'[n].parent = p
        BY <1>2, <2>2
      <3>2. p # 0 => nodes'[p] = nodes[p]
        BY <1>1, <1>2
      <3>3. p \in 0 .. n - 1
        BY <1>1, <2>2
      <3> QED  BY <3>1, <3>2, <3>3
    <2> QED  BY <1>1, <2>1, <2>2
  <1>8. ASSUME NEW n \in 1 .. N + 1
        PROVE  Pending(n)' = IF n = p THEN Pending(n) \cup {N + 1}
                             ELSE IF n = N + 1 THEN {} ELSE Pending(n)
    <2>1. Node' = 1 .. N + 1
      BY <1>2, <1>7, LenProperties DEF Node, N
    <2>2. Pending(n)' = {c \in 1 .. N + 1 : nodes'[c].parent = n /\ eq'[c] = 0}
      BY <2>1 DEF Pending, Children, Parent
    <2>3. Pending(n) = {c \in 1 .. N : nodes[c].parent = n /\ eq[c] = 0}
      BY <1>1 DEF Pending, Children, Parent
    <2>4. \A c \in 1 .. N + 1 :
              /\ c # N + 1 => c \in 1 .. N /\ nodes'[c] = nodes[c] /\ eq'[c] = eq[c]
              /\ c = N + 1 => nodes'[c].parent = p /\ eq'[c] = 0
      <3> SUFFICES ASSUME NEW c \in 1 .. N + 1
                   PROVE  \/ /\ c \in 1 .. N /\ c # N + 1
                             /\ nodes'[c] = nodes[c] /\ eq'[c] = eq[c]
                          \/ c = N + 1 /\ nodes'[c].parent = p /\ eq'[c] = 0
        OBVIOUS
      <3>1. CASE c = N + 1
        BY <1>2, <1>3, <3>1
      <3>2. CASE c # N + 1
        <4>1. c \in 1 .. N
          BY <1>1, <3>2
        <4> QED  BY <1>2, <1>3, <3>2, <4>1
      <3> QED  BY <3>1, <3>2
    <2>5. \A c \in 1 .. N : nodes[c].parent # N + 1
      BY <1>1 DEF Shape
    <2>6. \A c : c \in Pending(n)' <=> c \in IF n = p THEN Pending(n) \cup {N + 1}
                                          ELSE IF n = N + 1 THEN {} ELSE Pending(n)
      BY <1>1, <2>2, <2>3, <2>4, <2>5
    <2> QED  BY <2>6
  <1>9. Counted'
    <2> SUFFICES ASSUME NEW n \in 1 .. N + 1
                 PROVE  notEval'[n] = Cardinality(Pending(n)')
      BY <1>2 DEF Counted
    <2>1. CASE n = N + 1
      <3>1. n # p
        BY <1>1, <2>1
      <3>2. Pending(n)' = {}
        BY <1>8, <2>1, <3>1
      <3>3. notEval'[n] = 0
        BY <1>6, <2>1
      <3> QED  BY <3>2, <3>3, FS_EmptySet
    <2>2. CASE n \in 1 .. N /\ n = p
      <3>1. N + 1 \notin Pending(n)
        BY <1>1, PendingFinite
      <3>2. Cardinality(Pending(n) \cup {N + 1}) = Cardinality(Pending(n)) + 1
        BY <3>1, PendingFinite, FS_AddElement
      <3>3. notEval'[n] = notEval[n] + 1
        BY <1>1, <1>6, <2>2 DEF Shape
      <3>4. Pending(n)' = Pending(n) \cup {N + 1}
        BY <1>8, <2>2
      <3> QED  BY <2>2, <3>2, <3>3, <3>4 DEF Counted
    <2>3. CASE n \in 1 .. N /\ n # p
      BY <1>1, <1>6, <1>8, <2>3 DEF Counted, Shape
    <2> QED  BY <1>1, <2>1, <2>2, <2>3
  <1>10. Fresh'
    <2> SUFFICES ASSUME NEW n \in 1 .. N + 1  PROVE  eq'[n] = 0
      BY <1>2 DEF Fresh
    <2>1. n \in 1 .. N \/ n = N + 1
      BY <1>1
    <2> QED  BY <1>3, <2>1 DEF Fresh
  <1> QED  BY <1>7, <1>9, <1>10

-----------------------------------------------------------------------------
(* The queue *)

\* q holds every element of S, once, and nothing else
Lists(q, S) ==
    /\ q \in Seq(S)
    /\ \A i, j \in 1 .. Len(q) : q[i] = q[j] => i = j
    /\ \A x \in S : \E i \in 1 .. Len(q) : q[i] = x

\* What GetNodesReadyToEval fills the queue with.
LEMMA SetListed ==
    ASSUME NEW S, IsFiniteSet(S), NEW q \in SetToSeqs(S)
    PROVE  Lists(q, S)
  <1> DEFINE k == Cardinality(S)
  <1>1. k \in Nat
    BY FS_CardinalityType
  <1>2. q \in [1 .. k -> S] /\ \A i, j \in 1 .. k : i # j => q[i] # q[j]
    BY DEF SetToSeqs
  <1>3. IsFiniteSet(1 .. k) /\ Cardinality(1 .. k) = k
    <2> HIDE DEF k
    <2> QED  BY <1>1, FS_Interval
  <1>4. q \in Injection(1 .. k, S)
    <2> HIDE DEF k
    <2> QED  BY <1>2 DEF Injection, IsInjective
  <1>5. q \in Surjection(1 .. k, S)
    BY <1>3, <1>4, FS_Injection
  <1> HIDE DEF k
  <1>6. q \in Seq(S) /\ Len(q) = k
    BY <1>1, <1>2, SeqDef, LenProperties
  <1> QED  BY <1>2, <1>5, <1>6 DEF Lists, Surjection

\* The loop of PropagateEquivalence takes its first element ...
LEMMA HeadTaken ==
    ASSUME NEW S, NEW q, Lists(q, S), q # <<>>
    PROVE  Head(q) \in S /\ Lists(Tail(q), S \ {Head(q)})
  <1>1. /\ q \in Seq(S)
        /\ Len(q) \in Nat \ {0}
        /\ Len(Tail(q)) = Len(q) - 1
        /\ \A i \in 1 .. Len(Tail(q)) : Tail(q)[i] = q[i + 1]
        /\ Head(q) \in S
        /\ Tail(q) \in Seq(S)
        /\ Head(q) = q[1]
    BY EmptySeq, HeadTailProperties DEF Lists
  <1> DEFINE t == Tail(q)
             h == Head(q)
  <1>2. \A i \in 1 .. Len(t) : t[i] # h
    <2> HIDE DEF t, h
    <2> SUFFICES ASSUME NEW i \in 1 .. Len(t), t[i] = h  PROVE  FALSE
      OBVIOUS
    <2>1. i + 1 \in 1 .. Len(q) /\ 1 \in 1 .. Len(q) /\ i + 1 # 1
      BY <1>1 DEF t
    <2>2. q[i + 1] = q[1]
      BY <1>1 DEF t, h
    <2> QED  BY <2>1, <2>2 DEF Lists
  <1>3. t \in Seq(S \ {h})
    <2> HIDE DEF h
    <2>1. t \in [1 .. Len(t) -> S] /\ Len(t) \in Nat
      BY <1>1, LenProperties
    <2>2. t \in [1 .. Len(t) -> S \ {h}]
      <3> HIDE DEF t
      <3> QED  BY <1>2, <2>1
    <2> QED  BY <2>1, <2>2, SeqDef
  <1>4. ASSUME NEW i \in 1 .. Len(t), NEW j \in 1 .. Len(t), t[i] = t[j]
        PROVE  i = j
    <2>1. i + 1 \in 1 .. Len(q) /\ j + 1 \in 1 .. Len(q) /\ q[i + 1] = q[j + 1]
      BY <1>1, <1>4
    <2>2. i + 1 = j + 1
      BY <2>1 DEF Lists
    <2> QED  BY <2>2
  <1>5. ASSUME NEW x \in S \ {h}
        PROVE  \E i \in 1 .. Len(t) : t[i] = x
    <2>1. PICK j \in 1 .. Len(q) : q[j] = x
      BY DEF Lists
    <2>2. j # 1
      BY <1>1, <2>1
    <2>3. j - 1 \in 1 .. Len(t) /\ (j - 1) + 1 = j
      BY <1>1, <2>2
    <2> QED  BY <1>1, <2>1, <2>3
  <1> QED  BY <1>1, <1>3, <1>4, <1>5 DEF Lists

\* ... and may add one that is not there yet.
LEMMA ElementAdded ==
    ASSUME NEW S, NEW q, Lists(q, S), NEW x, x \notin S
    PROVE  Lists(q \o <<x>>, S \cup {x})
  <1> DEFINE R == S \cup {x}
             a == Append(q, x)
  <1>1. q \in Seq(R) /\ Len(q) \in Nat /\ q \in [1 .. Len(q) -> S]
    <2>1. q \in Seq(S) /\ Len(q) \in Nat /\ q \in [1 .. Len(q) -> S]
      BY LenProperties DEF Lists
    <2>2. q \in [1 .. Len(q) -> R]
      BY <2>1
    <2> QED  BY <2>1, <2>2, SeqDef
  <1>2. q \o <<x>> = a
    <2> HIDE DEF R
    <2>1. x \in R
      BY DEF R
    <2> QED  BY <1>1, <2>1, AppendIsConcat
  <1>3. /\ a \in Seq(R)
        /\ Len(a) = Len(q) + 1
        /\ \A i \in 1 .. Len(q) : a[i] = q[i]
        /\ a[Len(q) + 1] = x
    <2>1. x \in R
      OBVIOUS
    <2> HIDE DEF R
    <2> QED  BY <1>1, <2>1, AppendProperties
  <1> HIDE DEF a
  <1>4. \A i \in 1 .. Len(a) : \/ i \in 1 .. Len(q) /\ a[i] = q[i] /\ a[i] # x
                               \/ i = Len(q) + 1 /\ a[i] = x
    <2> SUFFICES ASSUME NEW i \in 1 .. Len(a)
                 PROVE  \/ i \in 1 .. Len(q) /\ a[i] = q[i] /\ a[i] # x
                        \/ i = Len(q) + 1 /\ a[i] = x
      OBVIOUS
    <2>1. CASE i = Len(q) + 1
      BY <1>3, <2>1
    <2>2. CASE i # Len(q) + 1
      <3>1. i \in 1 .. Len(q)
        BY <1>1, <1>3, <2>2
      <3>2. q[i] \in S
        BY <1>1, <3>1
      <3> QED  BY <1>3, <3>1, <3>2
    <2> QED  BY <2>1, <2>2
  <1>5. \A i, j \in 1 .. Len(a) : a[i] = a[j] => i = j
    BY <1>4 DEF Lists
  <1>6. ASSUME NEW y \in R  PROVE  \E i \in 1 .. Len(a) : a[i] = y
    <2>1. Len(q) + 1 \in 1 .. Len(a)
      BY <1>1, <1>3
    <2>2. \A i \in 1 .. Len(q) : i \in 1 .. Len(a)
      BY <1>1, <1>3
    <2> QED  BY <1>3, <2>1, <2>2 DEF Lists
  <1> QED  BY <1>2, <1>3, <1>5, <1>6 DEF Lists

-----------------------------------------------------------------------------
(* Where the class of a node comes from *)

\* A class is named by a node.
LEMMA ClassIsNode ==
    ASSUME Shape, NEW m \in 1 .. N, eq[m] # 0
    PROVE  eq[m] \in 1 .. N
  <1>1. N \in Nat /\ eq[m] \in Nat /\ eq[m] <= N
    BY NodeNumbers DEF Shape
  <1> QED  BY <1>1

\* A candidate is an evaluated directory.
LEMMA CandidateEvaluated ==
    ASSUME Shape, NEW n \in 1 .. N, NEW m \in PossibleEquivalents(n)
    PROVE  /\ m \in 1 .. N /\ eq[m] \in 1 .. N
           /\ nodes[m].content = Dir
  <1>1. N \in Nat /\ Node = 1 .. N
    BY NodeNumbers
  <1>2. Evaluated(m) /\ m # 0 /\ \E e : e \in Node /\ m = Parent(e)
    BY DEF PossibleEquivalents, Members
  <1>3. PICK e \in 1 .. N : m = nodes[e].parent
    BY <1>1, <1>2 DEF Parent
  <1>4. m \in 0 .. e - 1 /\ nodes[m].content = Dir
    BY <1>2, <1>3 DEF Shape
  <1>5. m \in 1 .. N
    <2>1. m \in 0 .. e - 1 /\ m # 0
      BY <1>2, <1>4
    <2> QED  BY <1>1, <2>1
  <1>6. eq[m] \in 1 .. N
    BY <1>2, <1>5, ClassIsNode DEF Evaluated
  <1> QED  BY <1>4, <1>5, <1>6

\* A file has no children, so it can be classified at any time; it joins the
\* class of an earlier file of its content, if there is one.
LEMMA FileClass ==
    ASSUME Shape, Counted, NEW n \in 1 .. N, ClassifyFile(n)
    PROVE  /\ Ready(n) /\ nodes[n].content # Dir
           /\ \/ AddNode(n, n) /\ \A m \in 1 .. n - 1 :
                                     nodes[m].content # nodes[n].content
              \/ \E m \in 1 .. n - 1 :
                     /\ nodes[m].content = nodes[n].content
                     /\ eq[m] \in 1 .. N /\ AddNode(n, eq[m])
  <1>1. N \in Nat /\ Node = 1 .. N
    BY NodeNumbers
  <1>2. nodes[n].content # Dir /\ eq[n] = 0
    BY DEF ClassifyFile, IsDir, Evaluated
  <1>3. Children(n) = {}
    <2>1. n # 0
      BY <1>1
    <2>2. \A c \in 1 .. N : nodes[c].parent # n
      BY <1>2, <2>1 DEF Shape
    <2> QED  BY <1>1, <2>2 DEF Children, Parent
  <1>4. notEval[n] = 0
    BY <1>3, FS_EmptySet DEF Counted, Pending
  <1> DEFINE alike == {m \in Node : m < n /\ ~IsDir(m) /\ FilesAlike(m, n)}
  <1>5. AddNode(n, IF alike = {} THEN n ELSE eq[Min(alike)])
    BY DEF ClassifyFile
  <1>6. CASE alike = {}
    <2>1. \A m \in 1 .. n - 1 : nodes[m].content # nodes[n].content
      BY <1>1, <1>2, <1>6 DEF IsDir, FilesAlike
    <2>2. AddNode(n, n)
      BY <1>5, <1>6
    <2> QED  BY <1>2, <1>4, <2>1, <2>2 DEF Ready
  <1>7. CASE alike # {}
    <2>1. alike \in SUBSET (1 .. N)
      BY <1>1
    <2>2. PICK m \in alike : m = Min(alike)
      <3> HIDE DEF alike
      <3> QED  BY <1>1, <1>7, <2>1, MinIsSmallest
    <2>3. /\ m \in 1 .. n - 1 /\ m \in 1 .. N
          /\ ~IsDir(m) /\ nodes[m].content = nodes[n].content
      BY <1>1 DEF FilesAlike
    <2>4. eq[m] # 0
      BY <1>1, <2>3 DEF ClassifyFile, Evaluated
    <2>5. eq[m] \in 1 .. N
      BY <2>3, <2>4, ClassIsNode
    <2>6. AddNode(n, eq[m])
      BY <1>5, <1>7, <2>2
    <2> QED  BY <1>2, <1>4, <2>3, <2>5, <2>6 DEF Ready
  <1> QED  BY <1>6, <1>7

\* Nor has an empty directory.
LEMMA EmptyDirClass ==
    ASSUME Shape, Counted, NEW n \in 1 .. N, ClassifyEmptyDir(n)
    PROVE  /\ Ready(n) /\ nodes[n].content = Dir
           /\ \E k \in 1 .. N : nodes[k].content = Dir /\ AddNode(n, k)
  <1> DEFINE empty == {m \in Node : IsEmptyDir(m)}
  <1>1. N \in Nat /\ Node = 1 .. N
    BY NodeNumbers
  <1>2. nodes[n].content = Dir /\ eq[n] = 0 /\ Children(n) = {}
    BY DEF ClassifyEmptyDir, IsEmptyDir, IsDir, Evaluated
  <1>3. notEval[n] = 0
    BY <1>2, FS_EmptySet DEF Counted, Pending
  <1>4. AddNode(n, Min(empty)) /\ empty \in SUBSET (1 .. N) /\ n \in empty
    BY <1>1 DEF ClassifyEmptyDir
  <1>5. Min(empty) \in empty
    <2> HIDE DEF empty
    <2> QED  BY <1>1, <1>4, MinIsSmallest
  <1>6. Min(empty) \in 1 .. N /\ nodes[Min(empty)].content = Dir
    BY <1>1, <1>5 DEF IsEmptyDir, IsDir
  <1> QED  BY <1>2, <1>3, <1>4, <1>6 DEF Ready

ReadyNodes == {n \in 1 .. N : Ready(n)}

\* A directory taken from the queue starts a class or joins one of a directory.
LEMMA DirClass ==
    ASSUME Shape, Lists(queue, ReadyNodes), NEW n \in 1 .. N, Evaluate(n)
    PROVE  /\ Ready(n)
           /\ Lists(Tail(queue), ReadyNodes \ {n})
           /\ \/ AddNode(n, n)
              \/ \E m \in 1 .. N : /\ nodes[m].content = Dir
                                   /\ eq[m] \in 1 .. N /\ AddNode(n, eq[m])
  <1>1. queue # <<>> /\ n = Head(queue)
    BY DEF Evaluate
  <1>2. n \in ReadyNodes /\ Lists(Tail(queue), ReadyNodes \ {n})
    BY <1>1, HeadTaken
  <1>3. \/ AddNode(n, n)
        \/ \E m \in PossibleEquivalents(n) : AddNode(n, eq[m])
    <2>1. \A m : m \in Closest(n, PossibleEquivalents(n)) => m \in PossibleEquivalents(n)
      BY DEF Closest
    <2> QED  BY <2>1 DEF Evaluate
  <1>4. Ready(n)
    BY <1>2 DEF ReadyNodes
  <1> QED  BY <1>2, <1>3, <1>4, CandidateEvaluated

-----------------------------------------------------------------------------
(* The inductive invariant *)

\* the counters, and the queue built on them
Bookkeeping ==
    /\ Shape /\ Counted /\ Settled
    /\ phase = "scan" => Fresh
    /\ phase = "propagate" => Lists(queue, ReadyNodes)
    /\ phase \in {"uniqueness", "done"} => \A n \in 1 .. N : eq[n] # 0

\* nothing but the phase and the queue changes
ClassesKept == UNCHANGED <<nodes, eq, notEval>>

\* The counters are those of the classes, so they last while the classes do.
LEMMA KeptBookkeeping ==
    ASSUME Shape, Counted, Settled, ClassesKept
    PROVE  /\ Shape' /\ Counted' /\ Settled' /\ N' = N /\ ReadyNodes' = ReadyNodes
           /\ Fresh <=> Fresh'
  <1>1. nodes' = nodes /\ eq' = eq /\ notEval' = notEval
    BY DEF ClassesKept
  <1>2. N' = N
    BY <1>1 DEF N
  <1>3. \A n : Pending(n)' = Pending(n)
    BY <1>1 DEF Pending, Children, Node, Parent
  <1> QED  BY <1>1, <1>2, <1>3 DEF Shape, Counted, Settled, Fresh, ReadyNodes, Ready

\* When nothing is left in the queue, every node has a class: the last one
\* created that has none would have been ready.
LEMMA NothingLeft ==
    ASSUME Shape, Counted, ReadyNodes = {}
    PROVE  \A n \in 1 .. N : eq[n] # 0
  <1> DEFINE U == {n \in 1 .. N : eq[n] = 0}
  <1> SUFFICES ASSUME U # {}  PROVE  FALSE
    OBVIOUS
  <1>1. N \in Nat /\ Node = 1 .. N
    BY NodeNumbers
  <1>2. PICK x \in U : \A y \in U : y <= x
    <2>1. U \in SUBSET (1 .. N)
      OBVIOUS
    <2> HIDE DEF U
    <2> QED  BY <1>1, <2>1, Largest
  <1>3. Pending(x) = {}
    <2> SUFFICES ASSUME NEW c \in Pending(x)  PROVE  FALSE
      OBVIOUS
    <2>1. c \in 1 .. N /\ nodes[c].parent = x /\ eq[c] = 0
      BY <1>1 DEF Pending, Children, Parent
    <2>2. x \in 0 .. c - 1
      BY <2>1 DEF Shape
    <2>3. c <= x
      BY <1>2, <2>1
    <2> QED  BY <2>1, <2>2, <2>3
  <1>4. x \in ReadyNodes
    BY <1>3, FS_EmptySet DEF Counted, ReadyNodes, Ready
  <1> QED  BY <1>4

\* The queue after an iteration of the loop.
LEMMA QueueKept ==
    ASSUME Shape, Counted, Settled, Lists(queue, ReadyNodes),
           NEW n \in 1 .. N, Evaluate(n), NEW k \in 1 .. N, AddNode(n, k)
    PROVE  Lists(queue', ReadyNodes')
  <1> DEFINE p == nodes[n].parent
  <1>1. Ready(n) /\ Lists(Tail(queue), ReadyNodes \ {n})
    BY DirClass
  <1>2. nodes' = nodes /\ queue' = Tail(queue) \o Pushed(n)
    BY DEF Evaluate, tree
  <1>3. /\ N' = N
        /\ p # 0 => ~ Ready(p)
        /\ \A m \in 1 .. N :
               notEval'[m] = 0 /\ eq'[m] = 0
                   <=> (Ready(m) /\ m # n) \/ (m = p /\ notEval'[m] = 0)
    BY <1>1, <1>2, AddNodeCounts DEF Ready
  <1>4. p # 0 => p \in 1 .. N
    <2>1. p \in 0 .. n - 1 /\ N \in Nat
      BY NodeNumbers DEF Shape
    <2> HIDE DEF p
    <2> QED  BY <2>1
  <1>5. Pushed(n) = IF p # 0 /\ notEval'[p] = 0 THEN <<p>> ELSE <<>>
    BY DEF Pushed, Parent
  <1> HIDE DEF p
  <1>6. \A m : m \in ReadyNodes <=> m \in 1 .. N /\ Ready(m)
    BY DEF ReadyNodes
  <1>7. \A m : m \in ReadyNodes' <=> \/ m \in ReadyNodes \ {n}
                                     \/ m = p /\ p # 0 /\ notEval'[p] = 0
    <2>1. ReadyNodes' = {m \in 1 .. N : notEval'[m] = 0 /\ eq'[m] = 0}
      BY <1>3 DEF ReadyNodes, Ready
    <2>2. \A m \in 1 .. N : m # 0
      OBVIOUS
    <2> QED  BY <1>3, <1>4, <1>6, <2>1, <2>2
  <1>8. CASE p # 0 /\ notEval'[p] = 0
    <2>1. ReadyNodes' = (ReadyNodes \ {n}) \cup {p}
      <3>1. \A m : m \in ReadyNodes' <=> m \in (ReadyNodes \ {n}) \cup {p}
        BY <1>7, <1>8
      <3> QED  BY <3>1
    <2>2. p \notin ReadyNodes \ {n}
      BY <1>3, <1>6, <1>8
    <2> QED  BY <1>1, <1>2, <1>5, <1>8, <2>1, <2>2, ElementAdded
  <1>9. CASE ~ (p # 0 /\ notEval'[p] = 0)
    <2>1. ReadyNodes' = ReadyNodes \ {n}
      <3>1. \A m : m \in ReadyNodes' <=> m \in ReadyNodes \ {n}
        BY <1>7, <1>9
      <3> QED  BY <3>1
    <2>2. queue' = Tail(queue)
      <3>1. Tail(queue) \in Seq(ReadyNodes \ {n})
        BY <1>1 DEF Lists
      <3> QED  BY <1>2, <1>5, <1>9, <3>1, ConcatEmptySeq
    <2> QED  BY <1>1, <2>1, <2>2
  <1> QED  BY <1>8, <1>9

\* It holds of the empty tree.
LEMMA BookkeepingInit == Init => Bookkeeping
  <1> SUFFICES ASSUME Init  PROVE  Bookkeeping
    OBVIOUS
  <1>1. /\ nodes = <<>> /\ eq = <<>> /\ notEval = <<>> /\ phase = "scan"
    BY DEF Init
  <1>2. N = 0 /\ nodes \in Seq(NodeRecord)
    BY <1>1, EmptySeq DEF N
  <1>3. 1 .. N = {}
    BY <1>2
  <1>4. eq \in [1 .. N -> Nat] /\ notEval \in [1 .. N -> Int]
    <2> DEFINE T == Nat
               U == Int
    <2>1. <<>> \in Seq(T) /\ <<>> \in Seq(U) /\ Len(<<>>) = 0
      <3> HIDE DEF T, U
      <3> QED  BY EmptySeq
    <2>2. <<>> \in [1 .. 0 -> T] /\ <<>> \in [1 .. 0 -> U]
      <3> HIDE DEF T, U
      <3> QED  BY <2>1, LenProperties
    <2> QED  BY <1>1, <1>2, <2>2
  <1> QED  BY <1>1, <1>2, <1>3, <1>4
           DEF Bookkeeping, Shape, Counted, Settled, Fresh

\* While a node is created.
LEMMA CreationKeeps ==
    ASSUME Bookkeeping, phase = "scan", NEW p \in 0 .. N,
           NEW x \in Content \cup {Dir}, AddChild(p, x), Created,
           p # 0 => nodes[p].content = Dir
    PROVE  Bookkeeping'
  <1>1. Shape' /\ Counted' /\ Fresh'
    BY AddChildCounts DEF Bookkeeping
  <1>2. Settled'
    BY <1>1 DEF Fresh, Settled
  <1>3. phase' = "scan"
    BY DEF Created
  <1> QED  BY <1>1, <1>2, <1>3 DEF Bookkeeping

\* While a leaf is classified.
LEMMA ClassificationKeeps ==
    ASSUME Bookkeeping, phase \in {"files", "emptydirs"}, NEW n \in 1 .. N,
           Ready(n), NEW k \in 1 .. N, AddNode(n, k), ClassifyFrame
    PROVE  Bookkeeping'
  <1>1. nodes' = nodes /\ phase' = phase
    BY DEF ClassifyFrame, tree
  <1>2. Shape' /\ Counted' /\ Settled'
    BY <1>1, AddNodeCounts DEF Bookkeeping
  <1> QED  BY <1>1, <1>2 DEF Bookkeeping

\* While a directory is taken from the queue.
LEMMA EvaluationKeeps ==
    ASSUME Bookkeeping, NEW n \in 1 .. N, Evaluate(n)
    PROVE  Bookkeeping'
  <1>1. phase = "propagate" /\ phase' = phase /\ nodes' = nodes
    BY DEF Evaluate, tree
  <1>2. Shape /\ Counted /\ Settled /\ Lists(queue, ReadyNodes)
    BY <1>1 DEF Bookkeeping
  <1>3. PICK k \in 1 .. N : AddNode(n, k)
    BY <1>2, DirClass
  <1>4. Ready(n)
    BY <1>2, DirClass
  <1>5. Shape' /\ Counted' /\ Settled'
    BY <1>1, <1>2, <1>3, <1>4, AddNodeCounts
  <1>6. Lists(queue', ReadyNodes')
    BY <1>2, <1>3, QueueKept
  <1>7. Lists(queue, ReadyNodes)'
    BY <1>6 DEF Lists
  <1> QED  BY <1>1, <1>5, <1>7 DEF Bookkeeping

\* When one phase gives way to the next.
LEMMA PhaseKeeps ==
    ASSUME Bookkeeping,
           \/ ScanEnd \/ FilesEnd \/ GetNodesReadyToEval
           \/ PropagateEnd \/ CalculateUniqueness \/ UNCHANGED vars
    PROVE  Bookkeeping'
  <1>1. ClassesKept
    BY DEF ScanEnd, FilesEnd, GetNodesReadyToEval, PropagateEnd,
           CalculateUniqueness, vars, tree, classes, ClassesKept
  <1>2. /\ Shape' /\ Counted' /\ Settled' /\ N' = N /\ ReadyNodes' = ReadyNodes
        /\ Fresh <=> Fresh'
    BY <1>1, KeptBookkeeping DEF Bookkeeping
  <1>3. eq' = eq /\ nodes' = nodes
    BY <1>1 DEF ClassesKept
  <1>4. CASE ScanEnd
    <2>1. phase' = "done" => N = 0
      BY <1>4, EmptySeq DEF ScanEnd, N
    <2>2. phase' = "done" => 1 .. N = {}
      BY <2>1
    <2>3. phase' \in {"done", "files"}
      BY <1>4 DEF ScanEnd
    <2> QED  BY <1>2, <2>2, <2>3 DEF Bookkeeping
  <1>5. CASE FilesEnd
    BY <1>2, <1>5 DEF FilesEnd, Bookkeeping
  <1>6. CASE GetNodesReadyToEval
    <2>1. {n \in Node : IsReady(n) /\ ~Evaluated(n)} = ReadyNodes
      BY NodeNumbers DEF Bookkeeping, IsReady, Evaluated, ReadyNodes, Ready
    <2>2. queue' \in SetToSeqs(ReadyNodes) /\ phase' = "propagate"
      BY <1>6, <2>1 DEF GetNodesReadyToEval
    <2>3. IsFiniteSet(ReadyNodes)
      <3>1. N \in Nat
        BY NodeNumbers DEF Bookkeeping
      <3>2. IsFiniteSet(1 .. N) /\ ReadyNodes \subseteq 1 .. N
        BY <3>1, FS_Interval DEF ReadyNodes
      <3> QED  BY <3>2, FS_Subset
    <2>4. Lists(queue', ReadyNodes)
      BY <2>2, <2>3, SetListed
    <2>5. Lists(queue, ReadyNodes)'
      BY <1>2, <2>4 DEF Lists
    <2> QED  BY <1>2, <2>2, <2>5 DEF Bookkeeping
  <1>7. CASE PropagateEnd
    <2>1. queue = <<>> /\ Lists(queue, ReadyNodes) /\ phase' = "uniqueness"
      BY <1>7 DEF PropagateEnd, Bookkeeping
    <2>2. ReadyNodes = {}
      <3>1. Len(queue) = 0
        BY <2>1, EmptySeq
      <3>2. 1 .. Len(queue) = {}
        BY <3>1
      <3> QED  BY <2>1, <3>2 DEF Lists
    <2>3. \A n \in 1 .. N : eq[n] # 0
      BY <2>2, NothingLeft DEF Bookkeeping
    <2> QED  BY <1>2, <1>3, <2>1, <2>3 DEF Bookkeeping
  <1>8. CASE CalculateUniqueness
    BY <1>2, <1>3, <1>8 DEF CalculateUniqueness, Bookkeeping
  <1>9. CASE UNCHANGED vars
    <2>1. phase' = phase /\ queue' = queue
      BY <1>9 DEF vars
    <2>2. Lists(queue, ReadyNodes) => Lists(queue, ReadyNodes)'
      BY <1>2, <2>1 DEF Lists
    <2> QED  BY <1>2, <1>3, <2>1, <2>2 DEF Bookkeeping
  <1> QED  BY <1>4, <1>5, <1>6, <1>7, <1>8, <1>9

\* No step of FuzzyDedup breaks it.
LEMMA BookkeepingStep == Bookkeeping /\ [Next]_vars => Bookkeeping'
  <1> SUFFICES ASSUME Bookkeeping, [Next]_vars  PROVE  Bookkeeping'
    OBVIOUS
  <1>1. N \in Nat /\ Node = 1 .. N /\ Shape /\ Counted
    BY NodeNumbers DEF Bookkeeping
  <1>2. CASE RootDir
    <2>1. 0 \in 0 .. N
      BY <1>1
    <2> QED  BY <1>2, <2>1, CreationKeeps DEF RootDir
  <1>3. ASSUME NEW n \in 1 .. N, SubDir(n)  PROVE  Bookkeeping'
    <2>1. n \in 0 .. N /\ nodes[n].content = Dir
      BY <1>1, <1>3 DEF SubDir, IsDir
    <2> QED  BY <1>3, <2>1, CreationKeeps DEF SubDir
  <1>4. ASSUME NEW n \in 1 .. N, NEW c \in Content, File(n, c)  PROVE  Bookkeeping'
    <2>1. n \in 0 .. N /\ nodes[n].content = Dir
      BY <1>1, <1>4 DEF File, IsDir
    <2> QED  BY <1>4, <2>1, CreationKeeps DEF File
  <1>5. ASSUME NEW n \in 1 .. N, ClassifyFile(n)  PROVE  Bookkeeping'
    <2>1. Ready(n)
      BY <1>1, <1>5, FileClass
    <2>2. PICK k \in 1 .. N : AddNode(n, k)
      BY <1>1, <1>5, FileClass
    <2>3. phase = "files" /\ ClassifyFrame
      BY <1>5 DEF ClassifyFile
    <2> QED  BY <2>1, <2>2, <2>3, ClassificationKeeps
  <1>6. ASSUME NEW n \in 1 .. N, ClassifyEmptyDir(n)  PROVE  Bookkeeping'
    <2>1. Ready(n)
      BY <1>1, <1>6, EmptyDirClass
    <2>2. PICK k \in 1 .. N : AddNode(n, k)
      BY <1>1, <1>6, EmptyDirClass
    <2>3. phase = "emptydirs" /\ ClassifyFrame
      BY <1>6 DEF ClassifyEmptyDir
    <2> QED  BY <2>1, <2>2, <2>3, ClassificationKeeps
  <1>7. CASE \E n \in 1 .. N : Evaluate(n)
    BY <1>7, EvaluationKeeps
  <1>8. CASE \/ ScanEnd \/ FilesEnd \/ GetNodesReadyToEval
             \/ PropagateEnd \/ CalculateUniqueness \/ UNCHANGED vars
    BY <1>8, PhaseKeeps
  <1> QED
    BY <1>1, <1>2, <1>3, <1>4, <1>5, <1>6, <1>7, <1>8 DEF Next, Done

\* What is invariant of every run of FuzzyDedup.
THEOREM BookkeepingInvariant == Spec => []Bookkeeping
  BY BookkeepingInit, BookkeepingStep, PTL DEF Spec

\* not_evaluated_children_ is right throughout, for every tree.
THEOREM Counters == Spec => []CountersRight
  <1>1. Bookkeeping => CountersRight
    <2> SUFFICES ASSUME Bookkeeping  PROVE  CountersRight
      OBVIOUS
    <2>1. Node = 1 .. N /\ Counted
      BY NodeNumbers DEF Bookkeeping
    <2>2. \A n : Pending(n) = {c \in Children(n) : ~Evaluated(c)}
      BY DEF Pending, Evaluated
    <2> QED  BY <2>1, <2>2 DEF Counted, CountersRight
  <1> QED  BY <1>1, BookkeepingInvariant, PTL

\* The queue holds exactly the directories that can be evaluated, each once:
\* the assertions of PropagateEquivalence hold for every tree.
THEOREM Queue == Spec => []QueueExact
  <1>1. Bookkeeping => QueueExact
    <2> SUFFICES ASSUME Bookkeeping, phase = "propagate"
                 PROVE  /\ \A i, j \in DOMAIN queue : queue[i] = queue[j] => i = j
                        /\ \A n \in Node :
                               n \in Range(queue) <=> notEval[n] = 0 /\ ~Evaluated(n)
      BY DEF QueueExact
    <2>1. Lists(queue, ReadyNodes) /\ Node = 1 .. N
      BY NodeNumbers DEF Bookkeeping
    <2>2. DOMAIN queue = 1 .. Len(queue) /\ queue \in [1 .. Len(queue) -> ReadyNodes]
      BY <2>1, LenProperties DEF Lists
    <2>3. \A n : n \in Range(queue) <=> n \in ReadyNodes
      BY <2>1, <2>2 DEF Range, Lists
    <2>4. \A n \in Node : n \in ReadyNodes <=> notEval[n] = 0 /\ ~Evaluated(n)
      BY <2>1 DEF ReadyNodes, Ready, Evaluated
    <2> QED  BY <2>1, <2>2, <2>3, <2>4 DEF Lists
  <1> QED  BY <1>1, BookkeepingInvariant, PTL

\* Every node of every tree has a class before the classes are used.
THEOREM Classified == Spec => []AllClassified
  <1>1. Bookkeeping => AllClassified
    BY NodeNumbers DEF Bookkeeping, AllClassified, Evaluated
  <1> QED  BY <1>1, BookkeepingInvariant, PTL

-----------------------------------------------------------------------------
(* Files are classified by their content *)

ClassifiedFile(n) == nodes[n].content # Dir /\ eq[n] # 0

\* A class is named by a node with the content of all its nodes.
NamedByContent ==
    \A n \in 1 .. N : eq[n] # 0 => nodes[eq[n]].content = nodes[n].content

OneClassPerContent ==
    \A m, n \in 1 .. N :
        /\ ClassifiedFile(m) /\ ClassifiedFile(n)
        /\ nodes[m].content = nodes[n].content
        => eq[m] = eq[n]

\* the order of Traverse
FilesInOrder ==
    \A m, n \in 1 .. N :
        m < n /\ nodes[m].content # Dir /\ ClassifiedFile(n) => eq[m] # 0

ByContent ==
    /\ NamedByContent
    /\ OneClassPerContent
    /\ phase = "files" => FilesInOrder
    /\ phase \notin {"scan", "files"} =>
           \A n \in 1 .. N : nodes[n].content # Dir => eq[n] # 0

\* A file is classified with the files of its content.
LEMMA FileByContent ==
    ASSUME Bookkeeping, ByContent, NEW n \in 1 .. N, ClassifyFile(n)
    PROVE  ByContent'
  <1>1. N \in Nat /\ Node = 1 .. N /\ Shape /\ Counted /\ Settled
    BY NodeNumbers DEF Bookkeeping
  <1>2. phase = "files" /\ phase' = "files" /\ nodes' = nodes /\ FilesInOrder
    BY DEF ClassifyFile, ClassifyFrame, tree, ByContent
  <1>3. Ready(n) /\ nodes[n].content # Dir
    BY <1>1, FileClass
  <1>4. \A m \in 1 .. N : m < n /\ nodes[m].content # Dir => eq[m] # 0
    BY <1>1 DEF ClassifyFile, IsDir, Evaluated
  <1>5. \A m \in 1 .. N : ClassifiedFile(m) => m < n
    <2> SUFFICES ASSUME NEW m \in 1 .. N, ClassifiedFile(m)  PROVE  m < n
      OBVIOUS
    <2>1. m # n /\ ~ (n < m)
      BY <1>2, <1>3 DEF FilesInOrder, Ready, ClassifiedFile
    <2> QED  BY <1>1, <2>1
  <1>6. PICK k \in 1 .. N :
            /\ AddNode(n, k)
            /\ nodes[k].content = nodes[n].content
            /\ \A m \in 1 .. N :
                   ClassifiedFile(m) /\ nodes[m].content = nodes[n].content
                       => eq[m] = k
    <2>1. CASE /\ AddNode(n, n)
               /\ \A m \in 1 .. n - 1 : nodes[m].content # nodes[n].content
      <3>1. \A m \in 1 .. N : m < n => m \in 1 .. n - 1
        BY <1>1
      <3> QED  BY <1>5, <2>1, <3>1
    <2>2. CASE \E o \in 1 .. n - 1 :
                   /\ nodes[o].content = nodes[n].content
                   /\ eq[o] \in 1 .. N /\ AddNode(n, eq[o])
      <3>1. PICK o \in 1 .. n - 1 :
                   /\ nodes[o].content = nodes[n].content
                   /\ eq[o] \in 1 .. N /\ AddNode(n, eq[o])
        BY <2>2
      <3>2. o \in 1 .. N /\ eq[o] # 0
        BY <1>1, <3>1
      <3>3. ClassifiedFile(o)
        BY <1>3, <3>1, <3>2 DEF ClassifiedFile
      <3>4. nodes[eq[o]].content = nodes[n].content
        BY <3>1, <3>2 DEF ByContent, NamedByContent
      <3> QED  BY <3>1, <3>2, <3>3, <3>4 DEF ByContent, OneClassPerContent
    <2> QED  BY <1>1, <2>1, <2>2, FileClass
  <1>7. N' = N /\ eq' = [eq EXCEPT ![n] = k]
    BY <1>1, <1>2, <1>3, <1>6, AddNodeCounts
  <1>8. \A m \in 1 .. N : eq'[m] = IF m = n THEN k ELSE eq[m]
    BY <1>1, <1>7 DEF Shape
  <1>9. k # 0
    BY <1>1
  <1>10. NamedByContent'
    BY <1>2, <1>6, <1>7, <1>8 DEF ByContent, NamedByContent
  <1>11. OneClassPerContent'
    BY <1>2, <1>6, <1>7, <1>8 DEF ByContent, OneClassPerContent, ClassifiedFile
  <1>12. FilesInOrder'
    BY <1>1, <1>2, <1>3, <1>4, <1>7, <1>8, <1>9 DEF FilesInOrder, ClassifiedFile
  <1> QED  BY <1>2, <1>10, <1>11, <1>12 DEF ByContent

\* A directory joins no file, and the files keep their classes.
LEMMA DirByContent ==
    ASSUME Bookkeeping, ByContent, phase \notin {"scan", "files"},
           phase' = phase, nodes' = nodes,
           NEW n \in 1 .. N, Ready(n), NEW k \in 1 .. N, AddNode(n, k),
           k = n \/ nodes[k].content = Dir
    PROVE  ByContent'
  <1>1. Shape /\ Counted /\ Settled
    BY DEF Bookkeeping
  <1>2. N' = N /\ eq' = [eq EXCEPT ![n] = k]
    BY <1>1, AddNodeCounts
  <1>3. \A m \in 1 .. N : eq'[m] = IF m = n THEN k ELSE eq[m]
    BY <1>1, <1>2 DEF Shape
  <1>4. nodes[n].content = Dir /\ nodes[k].content = Dir
    BY DEF ByContent, Ready
  <1>5. NamedByContent'
    BY <1>2, <1>3, <1>4 DEF ByContent, NamedByContent
  <1>6. OneClassPerContent'
    BY <1>2, <1>3, <1>4 DEF ByContent, OneClassPerContent, ClassifiedFile
  <1>7. \A m \in 1 .. N : nodes[m].content # Dir => eq'[m] # 0
    BY <1>3, <1>4 DEF ByContent
  <1> QED  BY <1>2, <1>5, <1>6, <1>7 DEF ByContent

\* No step of FuzzyDedup breaks this, either.
LEMMA ByContentStep == Bookkeeping /\ ByContent /\ [Next]_vars => ByContent'
  <1> SUFFICES ASSUME Bookkeeping, ByContent, [Next]_vars  PROVE  ByContent'
    OBVIOUS
  <1>1. N \in Nat /\ Node = 1 .. N /\ Shape /\ Counted
    BY NodeNumbers DEF Bookkeeping
  <1>2. CASE \/ RootDir
             \/ \E n \in 1 .. N : SubDir(n) \/ \E c \in Content : File(n, c)
    <2>1. phase = "scan" /\ phase' = "scan"
      BY <1>2 DEF RootDir, SubDir, File, Created
    <2>2. Bookkeeping'
      <3>1. Next
        BY <1>1, <1>2 DEF Next
      <3> QED  BY <3>1, BookkeepingStep
    <2>3. Fresh'
      BY <2>1, <2>2 DEF Bookkeeping
    <2> QED
      BY <2>1, <2>3 DEF ByContent, NamedByContent, OneClassPerContent,
                        ClassifiedFile, Fresh
  <1>3. ASSUME NEW n \in 1 .. N, ClassifyFile(n)  PROVE  ByContent'
    BY <1>3, FileByContent
  <1>4. ASSUME NEW n \in 1 .. N, ClassifyEmptyDir(n)  PROVE  ByContent'
    <2>1. phase = "emptydirs" /\ phase' = phase /\ nodes' = nodes
      BY <1>4 DEF ClassifyEmptyDir, ClassifyFrame, tree
    <2>2. Ready(n) /\ \E k \in 1 .. N : nodes[k].content = Dir /\ AddNode(n, k)
      BY <1>1, <1>4, EmptyDirClass
    <2> QED  BY <2>1, <2>2, DirByContent
  <1>5. ASSUME NEW n \in 1 .. N, Evaluate(n)  PROVE  ByContent'
    <2>1. phase = "propagate" /\ phase' = phase /\ nodes' = nodes
      BY <1>5 DEF Evaluate, tree
    <2>2. Lists(queue, ReadyNodes)
      BY <2>1 DEF Bookkeeping
    <2>3. Ready(n)
      BY <1>1, <1>5, <2>2, DirClass
    <2>4. PICK k \in 1 .. N : AddNode(n, k) /\ (k = n \/ nodes[k].content = Dir)
      <3>1. CASE AddNode(n, n)
        BY <3>1
      <3>2. CASE \E m \in 1 .. N : /\ nodes[m].content = Dir
                                  /\ eq[m] \in 1 .. N /\ AddNode(n, eq[m])
        <4>1. PICK m \in 1 .. N : /\ nodes[m].content = Dir
                                  /\ eq[m] \in 1 .. N /\ AddNode(n, eq[m])
          BY <3>2
        <4>2. eq[m] # 0
          BY <1>1, <4>1
        <4> QED  BY <4>1, <4>2 DEF ByContent, NamedByContent
      <3> QED  BY <1>1, <1>5, <2>2, <3>1, <3>2, DirClass
    <2> QED  BY <2>1, <2>3, <2>4, DirByContent
  <1>6. CASE \/ ScanEnd \/ FilesEnd \/ GetNodesReadyToEval
             \/ PropagateEnd \/ CalculateUniqueness \/ UNCHANGED vars
    <2>1. nodes' = nodes /\ eq' = eq /\ N' = N
      BY <1>6 DEF ScanEnd, FilesEnd, GetNodesReadyToEval, PropagateEnd,
                  CalculateUniqueness, vars, tree, classes, N
    <2>2. NamedByContent' /\ OneClassPerContent' /\ (FilesInOrder => FilesInOrder')
      BY <2>1 DEF ByContent, NamedByContent, OneClassPerContent, FilesInOrder,
                  ClassifiedFile
    <2>3. CASE ScanEnd
      <3>1. Fresh /\ phase' \in {"done", "files"} /\ (phase' = "done" => N = 0)
        BY <2>3, EmptySeq DEF ScanEnd, Bookkeeping, N
      <3>2. FilesInOrder
        BY <3>1 DEF Fresh, FilesInOrder, ClassifiedFile
      <3>3. phase' = "done" => 1 .. N = {}
        BY <3>1
      <3> QED  BY <2>1, <2>2, <3>1, <3>2, <3>3 DEF ByContent
    <2>4. CASE FilesEnd
      <3>1. \A n \in 1 .. N : nodes[n].content # Dir => eq[n] # 0
        BY <1>1, <2>4 DEF FilesEnd, IsDir, Evaluated
      <3>2. phase' = "emptydirs"
        BY <2>4 DEF FilesEnd
      <3> QED  BY <2>1, <2>2, <3>1, <3>2 DEF ByContent
    <2>5. CASE GetNodesReadyToEval \/ PropagateEnd \/ CalculateUniqueness
      <3>1. phase \notin {"scan", "files"} /\ phase' \notin {"scan", "files"}
        BY <2>5 DEF GetNodesReadyToEval, PropagateEnd, CalculateUniqueness
      <3> QED  BY <2>1, <2>2, <3>1 DEF ByContent
    <2>6. CASE UNCHANGED vars
      BY <2>1, <2>2, <2>6 DEF vars, ByContent
    <2> QED  BY <1>6, <2>3, <2>4, <2>5, <2>6
  <1> QED
    BY <1>1, <1>2, <1>3, <1>4, <1>5, <1>6 DEF Next, Done

\* For every tree, files share a class exactly if they have the same content,
\* however far the directories above them are from being the same.
THEOREM Contents == Spec => []FilesByContent
  <1>1. Init => ByContent
    <2> SUFFICES ASSUME Init  PROVE  ByContent
      OBVIOUS
    <2>1. N = 0 /\ phase = "scan"
      BY EmptySeq DEF Init, N
    <2>2. 1 .. N = {}
      BY <2>1
    <2> QED
      BY <2>1, <2>2 DEF ByContent, NamedByContent, OneClassPerContent
  <1>2. Spec => []ByContent
    BY <1>1, ByContentStep, BookkeepingInvariant, PTL DEF Spec
  <1>3. Bookkeeping /\ ByContent => FilesByContent
    <2> SUFFICES ASSUME Bookkeeping, ByContent, phase \in {"uniqueness", "done"},
                        NEW m \in Node, NEW n \in Node, ~IsDir(m)
                 PROVE  eq[m] = eq[n] <=> nodes[m].content = nodes[n].content
      BY DEF FilesByContent
    <2>1. m \in 1 .. N /\ n \in 1 .. N /\ eq[m] # 0 /\ eq[n] # 0
      BY NodeNumbers DEF Bookkeeping
    <2>2. NamedByContent /\ OneClassPerContent
      BY DEF ByContent
    <2>3. nodes[m].content # Dir
      BY DEF IsDir
    <2> QED  BY <2>1, <2>2, <2>3 DEF NamedByContent, OneClassPerContent, ClassifiedFile
  <1> QED  BY <1>2, <1>3, BookkeepingInvariant, PTL

-----------------------------------------------------------------------------
(* Fractions *)

\* Euclidean division, as the provers need it.
LEMMA DivisorFacts ==
    ASSUME NEW a \in Nat, NEW d \in Nat \ {0}
    PROVE  /\ a \div d \in Nat
           /\ a % d = 0 <=> a = d * (a \div d)
<1>1. a = (d * (a \div d)) + (a % d) /\ a % d \in 0..(d - 1) /\ a \div d \in Int
  OBVIOUS
<1>2. a \div d >= 0
  OBVIOUS
<1> QED
  BY <1>1, <1>2

\* A multiple divides without remainder.
LEMMA MultipleFacts ==
    ASSUME NEW k \in Nat, NEW d \in Nat \ {0}
    PROVE  (d * k) % d = 0 /\ (d * k) \div d = k
<1> DEFINE a == d * k
           r == a % d
           p == a \div d
<1>1. a \in Nat
  OBVIOUS
<1>2. a = d * p + r /\ r \in 0..(d - 1) /\ p \in Int
  <2> HIDE DEF a
  <2> QED
    BY <1>1
<1> HIDE DEF p, r
<1>3. r = d * (k - p)
  BY <1>2
<1>4. k - p \in Int
  BY <1>2
<1> DEFINE m == k - p
<1>5. m = 0
  <2>1. r = d * m /\ m \in Int /\ r \in 0..(d - 1)
    BY <1>2, <1>3, <1>4
  <2> HIDE DEF m
  <2>2. m >= 1 => d * m >= d
    BY <2>1
  <2>3. m <= -1 => d * m <= -d
    BY <2>1
  <2> QED
    BY <2>1, <2>2, <2>3
<1>6. p = k /\ r = 0
  BY <1>2, <1>3, <1>5
<1> QED
  BY <1>6 DEF p, r

\* Max of a nonempty set of small numbers is its largest.
LEMMA MaxIsLargest ==
    ASSUME NEW n \in Nat, NEW U \in SUBSET (1 .. n), U # {}
    PROVE  Max(U) \in U /\ \A y \in U : y <= Max(U)
<1>1. PICK x \in U : \A y \in U : y <= x
  BY Largest
<1>2. \A y \in U : x >= y
  BY <1>1
<1> QED
  BY <1>2 DEF Max

\* A fraction in lowest terms, p over q, is that of a and b.
Lowest(a, b, g, p, q) ==
    /\ g \in Nat \ {0} /\ p \in Nat /\ q \in Nat \ {0}
    /\ a = g * p /\ b = g * q
    /\ \A d \in 2 .. q : p % d # 0 \/ q % d # 0

\* What Fraction returns: a / b in lowest terms.
LEMMA FractionIs ==
    ASSUME NEW a \in Nat, NEW b \in Nat \ {0}
    PROVE  \E g, p, q : Fraction(a, b) = <<p, q>> /\ Lowest(a, b, g, p, q)
<1> DEFINE D == {d \in 1 .. b : a % d = 0 /\ b % d = 0}
           g == Max(D)
           p == a \div g
           q == b \div g
<1>1. Fraction(a, b) = <<p, q>>
  BY DEF Fraction
<1>2. D \in SUBSET (1 .. b) /\ 1 \in D
  OBVIOUS
<1>3. g \in D /\ \A d \in D : d <= g
  <2> HIDE DEF D
  <2> QED
    BY <1>2, MaxIsLargest
<1>4. g \in 1 .. b /\ a % g = 0 /\ b % g = 0 /\ g \in Nat \ {0}
  <2> HIDE DEF g
  <2> QED
    BY <1>3
<1> HIDE DEF g
<1>5. p \in Nat /\ q \in Nat /\ a = g * p /\ b = g * q
  BY <1>4, DivisorFacts
<1> HIDE DEF p, q
<1>6. q # 0
  BY <1>4, <1>5
<1>7. ASSUME NEW d \in 2 .. q, p % d = 0, q % d = 0
      PROVE  FALSE
  <2>1. d \in Nat \ {0} /\ d >= 2
    BY <1>5, <1>7
  <2> DEFINE u == p \div d
             v == q \div d
  <2>2. u \in Nat /\ v \in Nat /\ p = d * u /\ q = d * v
    BY <1>5, <1>7, <2>1, DivisorFacts
  <2> HIDE DEF u, v
  <2> DEFINE h == g * d
  <2>3. h \in Nat \ {0} /\ a = h * u /\ b = h * v
    BY <1>4, <1>5, <2>1, <2>2
  <2>4. h >= 2 * g
    BY <1>4, <2>1
  <2> HIDE DEF h
  <2>5. a % h = 0 /\ b % h = 0
    BY <2>2, <2>3, MultipleFacts
  <2>6. v # 0
    BY <1>6, <2>1, <2>2
  <2>7. h <= b
    BY <2>2, <2>3, <2>6
  <2>8. h \in D
    BY <2>3, <2>5, <2>7
  <2> QED
    BY <1>3, <1>4, <2>3, <2>4, <2>8
<1>8. Lowest(a, b, g, p, q)
  BY <1>4, <1>5, <1>6, <1>7 DEF Lowest
<1> QED
  BY <1>1, <1>8

\* Fraction returns a fraction.
LEMMA FractionType ==
    ASSUME NEW a \in Nat, NEW b \in Nat \ {0}
    PROVE  Fraction(a, b) \in Fractions
<1>1. PICK g, p, q : Fraction(a, b) = <<p, q>> /\ Lowest(a, b, g, p, q)
  BY FractionIs
<1>2. <<p, q>> \in Nat \X (Nat \ {0}) /\ <<p, q>>[1] = p /\ <<p, q>>[2] = q
  BY <1>1 DEF Lowest
<1> QED
  BY <1>1, <1>2 DEF Lowest, Fractions

\* The sum of two fractions is a fraction.
LEMMA PlusType ==
    ASSUME NEW x \in Fractions, NEW y \in Fractions
    PROVE  Plus(x, y) \in Fractions
<1>1. x[1] \in Nat /\ x[2] \in Nat \ {0} /\ y[1] \in Nat /\ y[2] \in Nat \ {0}
  BY DEF Fractions
<1>2. x[1] * y[2] + y[1] * x[2] \in Nat /\ x[2] * y[2] \in Nat \ {0}
  BY <1>1
<1> QED
  BY <1>2, FractionType DEF Plus

\* v is the fraction of v times s and s.
LEMMA FractionOfMultiple ==
    ASSUME NEW v \in Nat, NEW s \in Nat \ {0}
    PROVE  Fraction(v * s, s) = <<v, 1>>
<1> DEFINE a == v * s
<1>1. a \in Nat
  OBVIOUS
<1>2. PICK g, p, q : Fraction(a, s) = <<p, q>> /\ Lowest(a, s, g, p, q)
  <2> HIDE DEF a
  <2> QED
    BY <1>1, FractionIs
<1>3. g \in Nat \ {0} /\ p \in Nat /\ q \in Nat \ {0} /\ v * s = g * p /\ s = g * q
  BY <1>2 DEF Lowest
<1>4. p = q * v
  <2>1. g * (q * v) = g * p
    BY <1>3
  <2>2. q * v \in Nat
    BY <1>3
  <2> DEFINE z == q * v
  <2>3. g * z = g * p /\ z \in Nat
    BY <2>1, <2>2
  <2> HIDE DEF z
  <2>4. g * (z - p) = 0
    BY <1>3, <2>3
  <2>5. z = p
    <3>1. z - p >= 1 => g * (z - p) >= g
      BY <1>3, <2>3
    <3>2. z - p <= -1 => g * (z - p) <= -g
      BY <1>3, <2>3
    <3> QED
      BY <1>3, <2>3, <2>4, <3>1, <3>2
  <2> QED
    BY <2>5 DEF z
<1>5. q = 1
  <2> SUFFICES ASSUME q # 1 PROVE FALSE
    OBVIOUS
  <2>1. q \in 2 .. q
    BY <1>3
  <2>2. p % q = 0 /\ q % q = 0
    BY <1>3, <1>4, MultipleFacts
  <2> QED
    BY <1>2, <2>1, <2>2 DEF Lowest
<1>6. p = v
  BY <1>3, <1>4, <1>5
<1> QED
  BY <1>2, <1>5, <1>6

\* Whole numbers are in lowest terms.
LEMMA WholeFraction ==
    ASSUME NEW k \in Nat
    PROVE  Fraction(k, 1) = <<k, 1>>
<1>1. k * 1 = k
  OBVIOUS
<1> QED
  BY <1>1, FractionOfMultiple

\* Whole numbers add up as numbers do.
LEMMA PlusWhole ==
    ASSUME NEW j \in Nat, NEW k \in Nat
    PROVE  Plus(<<j, 1>>, <<k, 1>>) = <<j + k, 1>>
<1>1. j * 1 + k * 1 = j + k /\ j + k \in Nat /\ 1 * 1 = 1
  OBVIOUS
<1> QED
  BY <1>1, WholeFraction DEF Plus

\* When a share is none, and when it is all
LEMMA Shares ==
    ASSUME NEW a \in Nat, NEW b \in Nat \ {0}
    PROVE  /\ Fraction(a, b) = <<0, 1>> <=> a = 0
           /\ Fraction(a, b) = <<1, 1>> <=> a = b
<1>1. PICK g, p, q : Fraction(a, b) = <<p, q>> /\ Lowest(a, b, g, p, q)
  BY FractionIs
<1>2. g \in Nat \ {0} /\ p \in Nat /\ q \in Nat \ {0} /\ a = g * p /\ b = g * q
  BY <1>1 DEF Lowest
<1>3. p = 0 => a = 0
  BY <1>2
<1>4. p = 1 /\ q = 1 => a = b
  BY <1>2
<1>5. a = 0 => Fraction(a, b) = <<0, 1>>
  <2>1. Fraction(0 * b, b) = <<0, 1>> /\ 0 * b = 0
    BY FractionOfMultiple
  <2> QED
    BY <2>1
<1>6. a = b => Fraction(a, b) = <<1, 1>>
  <2>1. Fraction(1 * b, b) = <<1, 1>> /\ 1 * b = b
    BY FractionOfMultiple
  <2> QED
    BY <2>1
<1> QED
  BY <1>1, <1>3, <1>4, <1>5, <1>6

-----------------------------------------------------------------------------
(* Folds *)

\* A set of the subsets of S that contains each set whose smaller subsets it
\* contains is that of all subsets.
LEMMA SubsetInduction ==
    ASSUME NEW S, IsFiniteSet(S), NEW P,
           \A T \in SUBSET S : (\A U \in SUBSET T : U # T => U \in P) => T \in P
    PROVE  \A T \in SUBSET S : T \in P
<1> SUFFICES ASSUME NEW R \in SUBSET S, R \notin P PROVE FALSE
  OBVIOUS
<1> DEFINE Q == {T \in SUBSET S : T \notin P}
<1>1. IsWellFoundedOn(StrictSubsetOrdering(S), FiniteSubsetsOf(S))
  BY FS_StrictSubsetOrderingWellFounded
<1>2. Q \subseteq FiniteSubsetsOf(S) /\ Q # {}
  BY FS_Subset DEF FiniteSubsetsOf
<1>3. PICK T \in Q : \A U \in Q : <<U, T>> \notin StrictSubsetOrdering(S)
  <2> HIDE DEF Q
  <2> QED
    BY <1>1, <1>2, WFMin
<1>4. ASSUME NEW U \in SUBSET T, U # T
      PROVE  U \in P
  BY <1>3, <1>4 DEF StrictSubsetOrdering
<1> QED
  BY <1>3, <1>4

\* the element that a fold takes from s
Pick(s) == CHOOSE x \in s : TRUE

\* Taking the chosen element away leaves a smaller set.
LEMMA PickFacts ==
    ASSUME NEW s, s # {}, IsFiniteSet(s)
    PROVE  /\ Pick(s) \in s
           /\ IsFiniteSet(s \ {Pick(s)})
           /\ s \ {Pick(s)} \in SUBSET s /\ s \ {Pick(s)} # s
           /\ Cardinality(s) \in Nat
           /\ Cardinality(s \ {Pick(s)}) = Cardinality(s) - 1
<1>1. Pick(s) \in s
  BY DEF Pick
<1> QED
  BY <1>1, FS_RemoveElement, FS_CardinalityType

\* what a fold's iteration does with a set, for a step in the form of a function
StepOf(f, s, base, step) ==
    IF s = {} THEN base ELSE step[<<Pick(s), f[s \ {Pick(s)}]>>]

\* steps of S and V into V, and a fold of them
Steps(S, V, step) == step \in [S \X V -> V]
IsFold(f, S, V, base, step) ==
    \A s \in SUBSET S : f[s] \in V /\ f[s] = StepOf(f, s, base, step)

\* The recursion over the subsets of a finite set is well defined.
LEMMA FoldExists ==
    ASSUME NEW S, IsFiniteSet(S), NEW V, NEW base \in V, NEW step, Steps(S, V, step)
    PROVE  \E f : IsFold(f, S, V, base, step)
<1> USE DEF Steps
<1> DEFINE n == Cardinality(S)
           Upto(f, k) == \A s \in SUBSET S :
                             Cardinality(s) <= k => f[s] = StepOf(f, s, base, step)
           P == {k \in 0 .. n : \E f \in [SUBSET S -> V] : Upto(f, k)}
<1>1. n \in Nat /\ \A s \in SUBSET S : IsFiniteSet(s) /\ Cardinality(s) \in 0 .. n
  BY FS_CardinalityType, FS_Subset
<1>2. 0 \in P
  <2> DEFINE f == [s \in SUBSET S |-> base]
  <2>1. f \in [SUBSET S -> V]
    OBVIOUS
  <2>2. \A s \in SUBSET S : Cardinality(s) <= 0 => s = {}
    <3> HIDE DEF n
    <3> QED
      BY <1>1, FS_EmptySet
  <2>3. Upto(f, 0)
    BY <2>2 DEF StepOf
  <2>4. 0 \in 0 .. n
    BY <1>1
  <2> HIDE DEF f, n, Upto
  <2> QED
    BY <2>1, <2>3, <2>4
<1>3. ASSUME NEW k \in 0 .. n, k \in P, k < n
      PROVE  k + 1 \in P
  <2>1. PICK f \in [SUBSET S -> V] : Upto(f, k)
    BY <1>3
  <2> DEFINE g == [s \in SUBSET S |-> IF Cardinality(s) <= k THEN f[s]
                                       ELSE StepOf(f, s, base, step)]
  <2>2. \A s \in SUBSET S : StepOf(f, s, base, step) \in V
    <3> SUFFICES ASSUME NEW s \in SUBSET S, s # {}
                 PROVE  step[<<Pick(s), f[s \ {Pick(s)}]>>] \in V
      BY DEF StepOf
    <3>1. Pick(s) \in S /\ s \ {Pick(s)} \in SUBSET S
      BY <1>1, PickFacts
    <3> QED
      BY <3>1
  <2>3. g \in [SUBSET S -> V]
    BY <2>2
  <2>4. ASSUME NEW s \in SUBSET S, Cardinality(s) <= k + 1
        PROVE  g[s] = StepOf(f, s, base, step) /\ StepOf(f, s, base, step) = StepOf(g, s, base, step)
    <3>1. g[s] = StepOf(f, s, base, step)
      BY <2>1
    <3>2. CASE s = {}
      BY <3>1, <3>2 DEF StepOf
    <3>3. CASE s # {}
      <4> DEFINE r == s \ {Pick(s)}
      <4>1. r \in SUBSET S /\ Cardinality(r) <= k
        BY <1>1, <1>3, <2>4, <3>3, PickFacts
      <4>2. g[r] = f[r]
        BY <4>1
      <4> QED
        BY <3>1, <3>3, <4>2 DEF StepOf
    <3> QED
      BY <3>2, <3>3
  <2>5. Upto(g, k + 1)
    BY <2>4
  <2>6. k + 1 \in 0 .. n
    BY <1>1, <1>3
  <2> HIDE DEF g, Upto
  <2> QED
    BY <2>3, <2>5, <2>6
<1>4. n \in P
  <2> HIDE DEF P
  <2>1. \A k \in 0 .. n : k \in P => (k < n => k + 1 \in P)
    BY <1>3
  <2> HIDE DEF n
  <2>2. \A k \in 0 .. n : k \in P
    BY <1>1, <1>2, <2>1, IntervalInduction
  <2> QED
    BY <1>1, <2>2
<1>5. PICK f \in [SUBSET S -> V] : Upto(f, n)
  BY <1>4
<1> QED
  BY <1>1, <1>5 DEF IsFold

\* a fold as far as its values are in V
FoldsIn(f, S, V, base, step) ==
    \A s \in SUBSET S :
        s = {} \/ f[s \ {Pick(s)}] \in V => f[s] = StepOf(f, s, base, step)

\* They are.
LEMMA FoldType ==
    ASSUME NEW S, IsFiniteSet(S), NEW V, NEW base \in V, NEW step, Steps(S, V, step),
           NEW f, FoldsIn(f, S, V, base, step)
    PROVE  IsFold(f, S, V, base, step)
<1> USE DEF Steps, FoldsIn
<1> DEFINE P == {s \in SUBSET S : f[s] \in V /\ f[s] = StepOf(f, s, base, step)}
<1>1. ASSUME NEW T \in SUBSET S, \A U \in SUBSET T : U # T => U \in P
      PROVE  T \in P
  <2>1. CASE T = {}
    BY <2>1 DEF StepOf
  <2>2. CASE T # {}
    <3>1. IsFiniteSet(T)
      BY FS_Subset
    <3>2. /\ Pick(T) \in S
          /\ T \ {Pick(T)} \in SUBSET T /\ T \ {Pick(T)} # T
      BY <2>2, <3>1, PickFacts
    <3>3. f[T \ {Pick(T)}] \in V
      BY <1>1, <3>2
    <3>4. f[T] = StepOf(f, T, base, step)
      BY <3>3
    <3>5. f[T] = step[<<Pick(T), f[T \ {Pick(T)}]>>]
      BY <2>2, <3>4 DEF StepOf
    <3>6. f[T] \in V
      BY <3>2, <3>3, <3>5
    <3> QED
      BY <3>4, <3>6
  <2> QED
    BY <2>1, <2>2
<1>2. \A T \in SUBSET S : T \in P
  <2> HIDE DEF P
  <2> QED
    BY <1>1, SubsetInduction
<1> QED
  BY <1>2 DEF IsFold

FractionsOn(w, F) == \A x \in F : w[x] \in Fractions

\* how WeightOf and the weight of a directory add the weights w
Adds(f, F, w) ==
    f = [s \in SUBSET F |-> IF s = {} THEN Zero
                            ELSE Plus(w[Pick(s)], f[s \ {Pick(s)}])]

\* So is the sum of weights, and every partial sum is a fraction.
LEMMA AddsExists ==
    ASSUME NEW F, IsFiniteSet(F), NEW w, FractionsOn(w, F)
    PROVE  /\ \E f : Adds(f, F, w)
           /\ \A f : Adds(f, F, w) => \A s \in SUBSET F : f[s] \in Fractions
<1> DEFINE step == [x \in F \X Fractions |-> Plus(w[x[1]], x[2])]
<1>1. Steps(F, Fractions, step)
  BY PlusType DEF Steps, FractionsOn
<1>2. Zero \in Fractions
  BY WholeFraction, FractionType DEF Zero
<1>3. \A x \in F, y \in Fractions : step[<<x, y>>] = Plus(w[x], y)
  OBVIOUS
<1> HIDE DEF step
<1>4. ASSUME NEW f, NEW s \in SUBSET F, s = {} \/ f[s \ {Pick(s)}] \in Fractions
      PROVE  (IF s = {} THEN Zero ELSE Plus(w[Pick(s)], f[s \ {Pick(s)}]))
                = StepOf(f, s, Zero, step)
  <2>1. s # {} => Pick(s) \in F
    BY DEF Pick
  <2> QED
    BY <1>3, <1>4, <2>1 DEF StepOf
<1>5. \E f : Adds(f, F, w)
  <2>1. PICK f : IsFold(f, F, Fractions, Zero, step)
    BY <1>1, <1>2, FoldExists
  <2> DEFINE g == [s \in SUBSET F |-> f[s]]
  <2>2. \A s \in SUBSET F :
            f[s] = IF s = {} THEN Zero ELSE Plus(w[Pick(s)], f[s \ {Pick(s)}])
    <3>1. \A s \in SUBSET F : s \ {Pick(s)} \in SUBSET F
      OBVIOUS
    <3> QED
      BY <1>4, <2>1, <3>1 DEF IsFold
  <2>3. \A s \in SUBSET F : g[s] = f[s] /\ g[s \ {Pick(s)}] = f[s \ {Pick(s)}]
    OBVIOUS
  <2>4. g = [s \in SUBSET F |-> IF s = {} THEN Zero
                                ELSE Plus(w[Pick(s)], g[s \ {Pick(s)}])]
    BY <2>2, <2>3
  <2> QED
    BY <2>4, Zenon DEF Adds
<1>6. ASSUME NEW f, Adds(f, F, w)
      PROVE  \A s \in SUBSET F : f[s] \in Fractions
  <2>1. \A s \in SUBSET F :
            f[s] = IF s = {} THEN Zero ELSE Plus(w[Pick(s)], f[s \ {Pick(s)}])
    BY <1>6 DEF Adds
  <2>2. FoldsIn(f, F, Fractions, Zero, step)
    BY <1>4, <2>1 DEF FoldsIn
  <2>3. IsFold(f, F, Fractions, Zero, step)
    BY <1>1, <1>2, <2>2, FoldType
  <2> QED
    BY <2>3 DEF IsFold
<1> QED
  BY <1>5, <1>6

SumOf(w, F) == FoldSet(LAMBDA k, sum : Plus(w[k], sum), Zero, F)

\* FoldSet's sum is that recursion.
LEMMA SumAdds ==
    ASSUME NEW F, IsFiniteSet(F), NEW w, FractionsOn(w, F)
    PROVE  \E f : Adds(f, F, w) /\ SumOf(w, F) = f[F]
<1> DEFINE f == CHOOSE f : f = [s \in SUBSET F |->
                     IF s = {} THEN Zero
                     ELSE Plus(w[CHOOSE x \in s : TRUE], f[s \ {CHOOSE x \in s : TRUE}])]
<1>1. SumOf(w, F) = f[F]
  BY DEF SumOf, FoldSet, MapThenFoldSet
<1>2. \E g : g = [s \in SUBSET F |->
                     IF s = {} THEN Zero
                     ELSE Plus(w[CHOOSE x \in s : TRUE], g[s \ {CHOOSE x \in s : TRUE}])]
  <2>1. \E g : Adds(g, F, w)
    BY AddsExists
  <2> QED
    BY <2>1, Zenon DEF Adds, Pick
<1>3. f = [s \in SUBSET F |->
                     IF s = {} THEN Zero
                     ELSE Plus(w[CHOOSE x \in s : TRUE], f[s \ {CHOOSE x \in s : TRUE}])]
  BY <1>2, Zenon
<1>4. Adds(f, F, w)
  BY <1>3, Zenon DEF Adds, Pick
<1> HIDE DEF f
<1> QED
  BY <1>1, <1>4

\* The weight of a set of files is that recursion, too.
LEMMA WeightAdds ==
    ASSUME NEW F, IsFiniteSet(F), NEW w, FractionsOn(w, F),
           \A x \in F : w[x] = weight[eq[x]]
    PROVE  \E f : Adds(f, F, w) /\ WeightOf(F) = f[F]
<1> DEFINE Body(f) == [s \in SUBSET F |->
                     IF s = {} THEN Zero
                     ELSE Plus(weight[eq[CHOOSE x \in s : TRUE]],
                               f[s \ {CHOOSE x \in s : TRUE}])]
           f == CHOOSE f : f = Body(f)
<1>1. WeightOf(F) = f[F]
  BY DEF WeightOf, FoldSet, MapThenFoldSet
<1>2. \A g : Adds(g, F, w) <=> g = Body(g)
  <2> SUFFICES ASSUME NEW g
               PROVE  Body(g) = [s \in SUBSET F |-> IF s = {} THEN Zero
                                    ELSE Plus(w[Pick(s)], g[s \ {Pick(s)}])]
    BY Zenon DEF Adds
  <2>1. \A s \in SUBSET F : s # {} => w[Pick(s)] = weight[eq[Pick(s)]]
    BY DEF Pick
  <2> QED
    BY <2>1 DEF Pick
<1>3. PICK g : g = Body(g)
  <2>1. PICK g : Adds(g, F, w)
    BY AddsExists
  <2> HIDE DEF Body
  <2> QED
    BY <1>2, <2>1
<1>4. f = Body(f)
  <2> HIDE DEF Body
  <2> QED
    BY <1>3, Zenon
<1>5. Adds(f, F, w)
  <2> HIDE DEF Body, f
  <2> QED
    BY <1>2, <1>4
<1> HIDE DEF f
<1> QED
  BY <1>1, <1>5

\* A number for each element of F, drawn as that many blocks
Blocks(F, v) == {b \in F \X Nat : b[2] \in 1 .. v[b[1]]}

\* The blocks of a set are those of one element and of the rest.
LEMMA BlocksFacts ==
    ASSUME NEW F, IsFiniteSet(F), NEW v \in [F -> Nat]
    PROVE  \A s \in SUBSET F :
               /\ IsFiniteSet(Blocks(s, v))
               /\ Cardinality(Blocks(s, v)) \in Nat
               /\ s # {} => Cardinality(Blocks(s, v))
                                = v[Pick(s)] + Cardinality(Blocks(s \ {Pick(s)}, v))
<1> DEFINE P == {s \in SUBSET F : IsFiniteSet(Blocks(s, v))}
           Own(x) == {x} \X (1 .. v[x])
<1>1. ASSUME NEW x \in F
      PROVE  IsFiniteSet(Own(x)) /\ Cardinality(Own(x)) = v[x]
  <2>1. IsFiniteSet({x}) /\ Cardinality({x}) = 1
    BY FS_Singleton
  <2>2. v[x] \in Nat /\ IsFiniteSet(1 .. v[x]) /\ Cardinality(1 .. v[x]) = v[x]
    BY FS_Interval
  <2>3. IsFiniteSet({x} \X (1 .. v[x]))
        /\ Cardinality({x} \X (1 .. v[x])) = Cardinality({x}) * Cardinality(1 .. v[x])
    BY <2>1, <2>2, FS_Product
  <2> QED
    BY <2>1, <2>2, <2>3
<1>2. ASSUME NEW s \in SUBSET F, NEW x \in s
      PROVE  /\ Blocks(s, v) = Own(x) \cup Blocks(s \ {x}, v)
             /\ Own(x) \cap Blocks(s \ {x}, v) = {}
  BY DEF Blocks
<1>3. {} \in P
  <2>1. Blocks({}, v) = {}
    BY DEF Blocks
  <2> QED
    BY <2>1, FS_EmptySet
<1> HIDE DEF Own
<1>4. ASSUME NEW T \in SUBSET F, T \in P, NEW x \in F \ T
      PROVE  T \cup {x} \in P
  <2>1. T \cup {x} \in SUBSET F /\ x \in T \cup {x} /\ (T \cup {x}) \ {x} = T
    OBVIOUS
  <2>2. Blocks(T \cup {x}, v) = Own(x) \cup Blocks(T, v)
    BY <1>2, <2>1
  <2>3. IsFiniteSet(Own(x)) /\ IsFiniteSet(Blocks(T, v))
    BY <1>1, <1>4
  <2>4. IsFiniteSet(Own(x) \cup Blocks(T, v))
    BY <2>3, FS_Union, Zenon
  <2> QED
    BY <2>1, <2>2, <2>4
<1>5. F \in P
  <2> HIDE DEF P
  <2> QED
    BY <1>3, <1>4, FiniteInduction
<1>6. ASSUME NEW s \in SUBSET F
      PROVE  IsFiniteSet(Blocks(s, v)) /\ Cardinality(Blocks(s, v)) \in Nat
  <2>1. Blocks(s, v) \in SUBSET Blocks(F, v)
    BY DEF Blocks
  <2> QED
    BY <1>5, <2>1, FS_Subset, FS_CardinalityType
<1>7. ASSUME NEW s \in SUBSET F, s # {}
      PROVE  Cardinality(Blocks(s, v))
                = v[Pick(s)] + Cardinality(Blocks(s \ {Pick(s)}, v))
  <2> DEFINE x == Pick(s)
             r == s \ {x}
  <2>1. x \in s /\ x \in F /\ r \in SUBSET F
    BY <1>7 DEF Pick
  <2> HIDE DEF x
  <2>2. /\ IsFiniteSet(Own(x)) /\ Cardinality(Own(x)) = v[x] /\ v[x] \in Nat
        /\ IsFiniteSet(Blocks(r, v)) /\ Cardinality(Blocks(r, v)) \in Nat
    BY <1>1, <1>6, <2>1
  <2>3. Blocks(s, v) = Own(x) \cup Blocks(r, v) /\ Own(x) \cap Blocks(r, v) = {}
    BY <1>2, <2>1
  <2> HIDE DEF r
  <2>4. Cardinality(Own(x) \cup Blocks(r, v))
            = Cardinality(Own(x)) + Cardinality(Blocks(r, v))
                  - Cardinality(Own(x) \cap Blocks(r, v))
    BY <2>2, FS_Union, Zenon
  <2>5. Cardinality(Own(x) \cap Blocks(r, v)) = 0
    BY <2>3, FS_EmptySet
  <2> DEFINE c == Cardinality(Blocks(r, v))
  <2>6. c \in Nat
    BY <2>2
  <2>7. Cardinality(Blocks(s, v)) = v[x] + c
    <3>1. Cardinality(Blocks(s, v)) = v[x] + c - 0
      BY <2>2, <2>3, <2>4, <2>5, Zenon
    <3> HIDE DEF c
    <3> QED
      BY <2>2, <2>6, <3>1
  <2> QED
    BY <2>7 DEF x, r
<1> QED
  BY <1>6, <1>7

\* Whole weights add up to whole numbers, in whatever order they are added.
LEMMA WholeSum ==
    ASSUME NEW F, IsFiniteSet(F), NEW v \in [F -> Nat],
           NEW w, \A x \in F : w[x] = <<v[x], 1>>,
           NEW f, Adds(f, F, w)
    PROVE  f[F] = <<Cardinality(Blocks(F, v)), 1>>
<1> DEFINE P == {s \in SUBSET F : f[s] = <<Cardinality(Blocks(s, v)), 1>>}
<1>1. \A s \in SUBSET F :
          f[s] = IF s = {} THEN Zero ELSE Plus(w[Pick(s)], f[s \ {Pick(s)}])
  BY DEF Adds
<1>2. ASSUME NEW T \in SUBSET F, \A U \in SUBSET T : U # T => U \in P
      PROVE  T \in P
  <2>1. CASE T = {}
    <3>1. Blocks(T, v) = {}
      BY <2>1 DEF Blocks
    <3>2. f[T] = <<0, 1>> /\ Cardinality(Blocks(T, v)) = 0
      BY <1>1, <2>1, <3>1, FS_EmptySet DEF Zero
    <3> QED
      BY <3>2
  <2>2. CASE T # {}
    <3> DEFINE x == Pick(T)
               r == T \ {x}
               k == Cardinality(Blocks(r, v))
    <3>1. IsFiniteSet(T)
      BY FS_Subset
    <3>2. x \in F /\ r \in SUBSET T /\ r # T /\ r \in SUBSET F
      BY <2>2, <3>1, PickFacts
    <3>3. f[r] = <<k, 1>>
      BY <1>2, <3>2
    <3>4. f[T] = Plus(w[x], f[r])
      BY <1>1, <2>2
    <3>5. Cardinality(Blocks(T, v)) = v[x] + k
      BY <2>2, BlocksFacts
    <3>6. v[x] \in Nat /\ k \in Nat /\ w[x] = <<v[x], 1>>
      BY <3>2, BlocksFacts
    <3> HIDE DEF x, r, k
    <3>7. f[T] = <<v[x] + k, 1>>
      BY <3>3, <3>4, <3>6, PlusWhole
    <3> QED
      BY <3>5, <3>7
  <2> QED
    BY <2>1, <2>2
<1>3. \A T \in SUBSET F : T \in P
  <2> HIDE DEF P
  <2> QED
    BY <1>2, SubsetInduction
<1> QED
  BY <1>3

\* So a part weighs less than the whole, and it weighs nothing only if it is
\* empty.
LEMMA BlocksOrder ==
    ASSUME NEW F, IsFiniteSet(F), NEW v \in [F -> Nat], NEW G \in SUBSET F
    PROVE  /\ Cardinality(Blocks(G, v)) <= Cardinality(Blocks(F, v))
           /\ Cardinality(Blocks(G, v)) = 0 <=> \A x \in G : v[x] = 0
           /\ Cardinality(Blocks(G, v)) = Cardinality(Blocks(F, v))
                  <=> \A x \in F \ G : v[x] = 0
<1>1. IsFiniteSet(Blocks(F, v)) /\ IsFiniteSet(Blocks(G, v))
  BY BlocksFacts
<1>2. Blocks(G, v) \in SUBSET Blocks(F, v)
  BY DEF Blocks
<1>3. /\ Cardinality(Blocks(G, v)) <= Cardinality(Blocks(F, v))
      /\ Cardinality(Blocks(F, v)) = Cardinality(Blocks(G, v)) => Blocks(F, v) = Blocks(G, v)
  BY <1>1, <1>2, FS_Subset
<1>4. Cardinality(Blocks(G, v)) = 0 <=> Blocks(G, v) = {}
  BY <1>1, FS_EmptySet
<1>5. ASSUME NEW x \in F, v[x] # 0
      PROVE  <<x, 1>> \in {x} \X Nat /\ \A H \in SUBSET F : <<x, 1>> \in Blocks(H, v) <=> x \in H
  <2>1. 1 \in 1 .. v[x]
    BY <1>5
  <2> QED
    BY <2>1 DEF Blocks
<1>6. ASSUME NEW H \in SUBSET F, NEW b \in Blocks(H, v)
      PROVE  b[1] \in H /\ v[b[1]] # 0
  <2>1. b[1] \in H /\ v[b[1]] \in Nat /\ b[2] \in 1 .. v[b[1]]
    BY DEF Blocks
  <2> QED
    BY <2>1
<1>7. Blocks(G, v) = {} <=> \A x \in G : v[x] = 0
  <2>1. ASSUME Blocks(G, v) = {}, NEW x \in G, v[x] # 0
        PROVE  FALSE
    BY <1>5, <2>1
  <2>2. ASSUME \A x \in G : v[x] = 0, NEW b \in Blocks(G, v)
        PROVE  FALSE
    BY <1>6, <2>2
  <2> QED
    BY <2>1, <2>2
<1>8. Blocks(F, v) = Blocks(G, v) <=> \A x \in F \ G : v[x] = 0
  <2>1. ASSUME Blocks(F, v) = Blocks(G, v), NEW x \in F \ G, v[x] # 0
        PROVE  FALSE
    BY <1>5, <2>1
  <2>2. ASSUME \A x \in F \ G : v[x] = 0, NEW b \in Blocks(F, v)
        PROVE  b \in Blocks(G, v)
    <3>1. b[1] \in F /\ b[1] \in G
      BY <1>6, <2>2
    <3> QED
      BY <3>1 DEF Blocks
  <2> QED
    BY <1>2, <2>1, <2>2
<1> QED
  BY <1>3, <1>4, <1>7, <1>8

-----------------------------------------------------------------------------
(* The files below a node, and the nodes above it *)

\* What is below and above a node depends on the tree alone.
LEMMA FilesKept ==
    ASSUME nodes' = nodes
    PROVE  Files' = Files /\ Lineage' = Lineage
  BY DEF Files, Lineage, Node, Parent, IsDir, Children
\* The unique fraction depends on the tree, the classes and the weights.
LEMMA UniqueKept ==
    ASSUME UNCHANGED <<nodes, eq, weight>>
    PROVE  \A n : UniqueFraction(n)' = UniqueFraction(n)
<1>1. Files' = Files
  BY FilesKept
<1>2. \A F : WeightOf(F)' = WeightOf(F)
  BY DEF WeightOf, FoldSet, MapThenFoldSet
<1>3. \A f, F : Elsewhere(f, F)' <=> Elsewhere(f, F)
  BY DEF Elsewhere, Members, Node
<1>4. \A n : (IsDir(n)' <=> IsDir(n)) /\ (IsSingle(eq[n])' <=> IsSingle(eq[n]))
  BY DEF IsDir, IsSingle, Members, Node
<1> QED
  BY <1>1, <1>2, <1>3, <1>4 DEF UniqueFraction

FileNodes == {n \in 1 .. N : nodes[n].content # Dir}

\* what Files says of n, for any f in its place
FilesBody(f, n) == IF IsDir(n) THEN UNION {f[c] : c \in Children(n)} ELSE {n}

\* Children are created after their parent, so Files is well defined: it can be
\* filled in from the last node to the first.
LEMMA FilesExist ==
    ASSUME Shape
    PROVE  \E f : f = [n \in Node |-> FilesBody(f, n)]
<1>1. N \in Nat /\ Node = 1 .. N
  BY NodeNumbers
<1> DEFINE From(f, k) == \A n \in 1 .. N : n > N - k => f[n] = FilesBody(f, n)
           P == {k \in 0 .. N : \E f : f = [n \in 1 .. N |-> f[n]] /\ From(f, k)}
<1>2. \A n \in 1 .. N : \A c \in Children(n) : c \in 1 .. N /\ c > n
  BY <1>1 DEF Children, Parent, Shape
<1>3. 0 \in P
  <2> DEFINE f == [n \in 1 .. N |-> {}]
  <2>1. f = [n \in 1 .. N |-> f[n]] /\ From(f, 0) /\ 0 \in 0 .. N
    BY <1>1
  <2> HIDE DEF f, From
  <2> QED
    BY <2>1
<1>4. ASSUME NEW k \in 0 .. N, k \in P, k < N
      PROVE  k + 1 \in P
  <2>1. PICK f : f = [n \in 1 .. N |-> f[n]] /\ From(f, k)
    BY <1>4
  <2> DEFINE g == [n \in 1 .. N |-> IF n > N - k THEN f[n] ELSE FilesBody(f, n)]
  <2>2. g = [n \in 1 .. N |-> g[n]]
    OBVIOUS
  <2>3. ASSUME NEW n \in 1 .. N, n > N - (k + 1)
        PROVE  g[n] = FilesBody(g, n)
    <3>1. g[n] = FilesBody(f, n)
      BY <2>1
    <3>2. \A c \in Children(n) : g[c] = f[c]
      <4>1. \A c \in Children(n) : c \in 1 .. N /\ c > N - k
        BY <1>1, <1>2, <2>3
      <4> QED
        BY <4>1
    <3> HIDE DEF g
    <3>3. {g[c] : c \in Children(n)} = {f[c] : c \in Children(n)}
      BY <3>2
    <3> QED
      BY <3>1, <3>3 DEF FilesBody
  <2>4. From(g, k + 1) /\ k + 1 \in 0 .. N
    BY <1>1, <1>4, <2>3
  <2> HIDE DEF g, From
  <2> QED
    BY <2>2, <2>4
<1>5. N \in P
  <2> HIDE DEF P
  <2>1. \A k \in 0 .. N : k \in P => (k < N => k + 1 \in P)
    BY <1>4
  <2>2. \A k \in 0 .. N : k \in P
    BY <1>1, <1>3, <2>1, IntervalInduction
  <2> QED
    BY <1>1, <2>2
<1>6. PICK f : f = [n \in 1 .. N |-> f[n]] /\ From(f, N)
  BY <1>5
<1>7. \A n \in 1 .. N : f[n] = FilesBody(f, n)
  BY <1>1, <1>6
<1>8. f = [n \in 1 .. N |-> FilesBody(f, n)]
  BY <1>6, <1>7
<1> QED
  BY <1>1, <1>8

\* The files of a node are finitely many nodes, none of them a directory.
LEMMA FilesFacts ==
    ASSUME Shape
    PROVE  \A n \in 1 .. N :
               /\ Files[n] \in SUBSET FileNodes
               /\ IsFiniteSet(Files[n])
               /\ ~IsDir(n) => Files[n] = {n}
<1>1. N \in Nat /\ Node = 1 .. N
  BY NodeNumbers
<1>2. Files = CHOOSE f : f = [n \in Node |-> FilesBody(f, n)]
  BY DEF Files, FilesBody
<1>3. Files = [n \in Node |-> FilesBody(Files, n)]
  BY <1>2, FilesExist, Zenon
<1>4. \A n \in 1 .. N : Files[n] = FilesBody(Files, n)
  BY <1>1, <1>3
<1> DEFINE U == {n \in 1 .. N : ~ (Files[n] \in SUBSET FileNodes)}
<1>5. U = {}
  <2> SUFFICES ASSUME U # {} PROVE FALSE
    OBVIOUS
  <2>1. U \in SUBSET (1 .. N)
    OBVIOUS
  <2>2. PICK x \in U : \A y \in U : y <= x
    <3> HIDE DEF U
    <3> QED
      BY <1>1, <2>1, Largest
  <2>3. \A c \in Children(x) : c \in 1 .. N /\ ~ (c <= x)
    BY <1>1 DEF Children, Parent, Shape
  <2>4. \A c \in Children(x) : Files[c] \in SUBSET FileNodes
    BY <2>2, <2>3
  <2>5. CASE IsDir(x)
    <3>1. Files[x] = UNION {Files[c] : c \in Children(x)}
      BY <1>4, <2>5 DEF FilesBody
    <3> QED
      BY <2>4, <3>1
  <2>6. CASE ~ IsDir(x)
    <3>1. Files[x] = {x}
      BY <1>4, <2>6 DEF FilesBody
    <3> QED
      BY <2>6, <3>1 DEF FileNodes, IsDir
  <2> QED
    BY <2>5, <2>6
<1>6. IsFiniteSet(FileNodes)
  <2>1. IsFiniteSet(1 .. N) /\ FileNodes \in SUBSET (1 .. N)
    BY <1>1, FS_Interval DEF FileNodes
  <2> QED
    BY <2>1, FS_Subset
<1>7. \A n \in 1 .. N : ~IsDir(n) => Files[n] = {n}
  BY <1>4 DEF FilesBody
<1> QED
  BY <1>5, <1>6, <1>7, FS_Subset

\* what Lineage says of n
LineageBody(f, n) == IF n = 0 THEN {} ELSE {n} \cup f[Parent(n)]

\* Parents are created before their children, so Lineage is well defined, too.
LEMMA LineageExists ==
    ASSUME Shape
    PROVE  \E f : f = [n \in 0 .. Len(nodes) |-> LineageBody(f, n)]
<1>1. N \in Nat /\ Len(nodes) = N
  BY NodeNumbers DEF N
<1> DEFINE Upto(f, k) == \A n \in 0 .. N : n <= k => f[n] = LineageBody(f, n)
           P == {k \in 0 .. N : \E f : f = [n \in 0 .. N |-> f[n]] /\ Upto(f, k)}
<1>2. \A n \in 1 .. N : Parent(n) \in 0 .. n - 1
  BY DEF Parent, Shape
<1>3. 0 \in P
  <2> DEFINE f == [n \in 0 .. N |-> {}]
  <2>1. f = [n \in 0 .. N |-> f[n]] /\ Upto(f, 0) /\ 0 \in 0 .. N
    BY <1>1 DEF LineageBody
  <2> HIDE DEF f, Upto
  <2> QED
    BY <2>1
<1>4. ASSUME NEW k \in 0 .. N, k \in P, k < N
      PROVE  k + 1 \in P
  <2>1. PICK f : f = [n \in 0 .. N |-> f[n]] /\ Upto(f, k)
    BY <1>4
  <2> DEFINE g == [n \in 0 .. N |-> IF n <= k THEN f[n] ELSE LineageBody(f, n)]
  <2>2. g = [n \in 0 .. N |-> g[n]]
    OBVIOUS
  <2>3. ASSUME NEW n \in 0 .. N, n <= k + 1
        PROVE  g[n] = LineageBody(g, n)
    <3>1. g[n] = LineageBody(f, n)
      BY <2>1
    <3>2. n # 0 => Parent(n) \in 0 .. N /\ Parent(n) <= k
      BY <1>1, <1>2, <1>4, <2>3
    <3>3. n # 0 => g[Parent(n)] = f[Parent(n)]
      BY <3>2
    <3> HIDE DEF g
    <3> QED
      BY <3>1, <3>3 DEF LineageBody
  <2>4. Upto(g, k + 1) /\ k + 1 \in 0 .. N
    BY <1>1, <1>4, <2>3
  <2> HIDE DEF g, Upto
  <2> QED
    BY <2>2, <2>4
<1>5. N \in P
  <2> HIDE DEF P
  <2>1. \A k \in 0 .. N : k \in P => (k < N => k + 1 \in P)
    BY <1>4
  <2>2. \A k \in 0 .. N : k \in P
    BY <1>1, <1>3, <2>1, IntervalInduction
  <2> QED
    BY <1>1, <2>2
<1>6. PICK f : f = [n \in 0 .. N |-> f[n]] /\ Upto(f, N)
  BY <1>5
<1>7. \A n \in 0 .. N : f[n] = LineageBody(f, n)
  BY <1>1, <1>6
<1>8. f = [n \in 0 .. N |-> LineageBody(f, n)]
  BY <1>6, <1>7
<1> QED
  BY <1>1, <1>8

\* A node's lineage begins with it and goes on with its parent's.
LEMMA LineageFacts ==
    ASSUME Shape, NEW n \in 1 .. N
    PROVE  Lineage[n] = {n} \cup Lineage[Parent(n)]
<1>1. N \in Nat /\ Len(nodes) = N
  BY NodeNumbers DEF N
<1>2. Lineage = CHOOSE f : f = [i \in 0 .. Len(nodes) |-> LineageBody(f, i)]
  BY DEF Lineage, LineageBody
<1>3. Lineage = [i \in 0 .. Len(nodes) |-> LineageBody(Lineage, i)]
  BY <1>2, LineageExists, Zenon
<1>4. n \in 0 .. Len(nodes) /\ n # 0
  BY <1>1
<1> QED
  BY <1>3, <1>4 DEF LineageBody

-----------------------------------------------------------------------------
(* The weight of a class *)

\* The weight of a class of c nodes and weight w when a node joins it.
Average(w, c, own) ==
    LET total == Plus(Fraction(w[1] * c, w[2]), own)
    IN  Fraction(total[1], total[2] * (c + 1))

\* The average that AddNode computes is a fraction.
LEMMA AverageType ==
    ASSUME NEW w \in Fractions, NEW c \in Nat, NEW own \in Fractions
    PROVE  Average(w, c, own) \in Fractions
<1> DEFINE total == Plus(Fraction(w[1] * c, w[2]), own)
<1>1. w[1] * c \in Nat /\ w[2] \in Nat \ {0}
  BY DEF Fractions
<1>2. total \in Fractions
  BY <1>1, FractionType, PlusType
<1> HIDE DEF total
<1>3. total[1] \in Nat /\ total[2] \in Nat \ {0}
  BY <1>2 DEF Fractions
<1>4. total[2] * (c + 1) \in Nat \ {0}
  BY <1>3
<1> QED
  BY <1>3, <1>4, FractionType DEF Average, total

\* Files of a class have the same weight, which is the class's.
LEMMA AverageOfSame ==
    ASSUME NEW v \in Nat, NEW w \in Fractions, NEW c \in Nat, c = 0 \/ w = <<v, 1>>
    PROVE  Average(w, c, <<v, 1>>) = <<v, 1>>
<1>1. Fraction(w[1] * c, w[2]) = <<v * c, 1>>
  <2>1. CASE c = 0
    <3>1. w[1] * c = 0 /\ v * c = 0 /\ w[2] \in Nat \ {0}
      BY <2>1 DEF Fractions
    <3> QED
      BY <3>1, Shares
  <2>2. CASE w = <<v, 1>>
    <3>1. v * c \in Nat /\ w[1] = v /\ w[2] = 1
      BY <2>2
    <3> QED
      BY <3>1, WholeFraction
  <2> QED
    BY <2>1, <2>2
<1> DEFINE j == v * c
<1>2. j \in Nat /\ j + v = v * (c + 1)
  OBVIOUS
<1>3. Plus(<<j, 1>>, <<v, 1>>) = <<j + v, 1>>
  <2> HIDE DEF j
  <2> QED
    BY <1>2, PlusWhole
<1> DEFINE t == <<v * (c + 1), 1>>
<1>4. Plus(Fraction(w[1] * c, w[2]), <<v, 1>>) = t
  BY <1>1, <1>2, <1>3
<1>5. t[1] = v * (c + 1) /\ t[2] * (c + 1) = c + 1 /\ c + 1 \in Nat \ {0}
  OBVIOUS
<1>6. Fraction(t[1], t[2] * (c + 1)) = <<v, 1>>
  <2>1. Fraction(v * (c + 1), c + 1) = <<v, 1>>
    BY <1>5, FractionOfMultiple
  <2> QED
    BY <1>5, <2>1
<1> HIDE DEF t
<1> QED
  BY <1>4, <1>6 DEF Average

Weights == weight \in [1 .. N -> Fractions]

\* A class has finitely many members.
LEMMA MembersFinite ==
    ASSUME Shape, NEW k
    PROVE  /\ Members(k) \subseteq 1 .. N /\ IsFiniteSet(Members(k))
           /\ Cardinality(Members(k)) \in Nat
           /\ Cardinality(Members(k)) = 0 <=> Members(k) = {}
<1>1. N \in Nat /\ Members(k) \in SUBSET (1 .. N)
  BY NodeNumbers DEF Members
<1>2. IsFiniteSet(1 .. N)
  BY <1>1, FS_Interval
<1>3. IsFiniteSet(Members(k))
  BY <1>1, <1>2, FS_Subset
<1> QED
  BY <1>1, <1>3, FS_CardinalityType, FS_EmptySet

\* A node that is ready has only classified children, and a weight.
LEMMA ReadyChildren ==
    ASSUME Shape, Counted, NEW n \in 1 .. N, notEval[n] = 0
    PROVE  /\ ChildClasses(n) \in SUBSET (1 .. N) /\ IsFiniteSet(ChildClasses(n))
           /\ \A c \in Children(n) : c \in 1 .. N /\ eq[c] # 0
<1>1. N \in Nat /\ Node = 1 .. N
  BY NodeNumbers
<1>2. Pending(n) = {}
  BY PendingFinite DEF Counted
<1>3. \A c \in Children(n) : c \in 1 .. N /\ eq[c] # 0
  BY <1>1, <1>2 DEF Pending, Children
<1>4. ChildClasses(n) \in SUBSET (1 .. N)
  BY <1>3, ClassIsNode DEF ChildClasses
<1>5. IsFiniteSet(1 .. N)
  BY <1>1, FS_Interval
<1>6. IsFiniteSet(ChildClasses(n))
  BY <1>4, <1>5, FS_Subset
<1> QED
  BY <1>3, <1>4, <1>6

FileWeight(n) == IF use_size THEN Size[nodes[n].content] ELSE 1

\* A file's own weight is a whole number.
LEMMA FileWeightFacts ==
    ASSUME Shape, NEW n \in FileNodes
    PROVE  /\ FileWeight(n) \in Nat
           /\ OwnWeight(n) = <<FileWeight(n), 1>>
           /\ <<FileWeight(n), 1>> \in Fractions
<1>1. nodes[n].content \in Content
  <2>1. n \in DOMAIN nodes /\ nodes[n].content # Dir
    BY NodeNumbers DEF FileNodes, Node
  <2>2. nodes[n] \in NodeRecord
    BY <2>1 DEF Shape
  <2> QED
    BY <2>1, <2>2 DEF NodeRecord
<1>2. FileWeight(n) \in Nat
  BY <1>1, SizeAssumption DEF FileWeight
<1>3. OwnWeight(n) = <<FileWeight(n), 1>>
  <2>1. ~IsDir(n)
    BY DEF FileNodes, IsDir
  <2>2. OwnWeight(n) = IF use_size THEN <<Size[nodes[n].content], 1>> ELSE <<1, 1>>
    BY <2>1 DEF OwnWeight
  <2>3. CASE use_size
    <3>1. FileWeight(n) = Size[nodes[n].content]
      BY <2>3 DEF FileWeight
    <3> QED
      BY <2>2, <2>3, <3>1
  <2>4. CASE ~use_size
    <3>1. FileWeight(n) = 1
      BY <2>4 DEF FileWeight
    <3> QED
      BY <2>2, <2>4, <3>1
  <2> QED
    BY <2>3, <2>4
<1>4. <<FileWeight(n), 1>> \in Fractions
  BY <1>2, WholeFraction, FractionType
<1> QED
  BY <1>2, <1>3, <1>4

\* A node that is ready has a weight.
LEMMA OwnWeightType ==
    ASSUME Shape, Counted, Weights, NEW n \in 1 .. N, Ready(n)
    PROVE  OwnWeight(n) \in Fractions
<1>1. CASE IsDir(n)
  <2> DEFINE K == ChildClasses(n)
  <2>1. K \in SUBSET (1 .. N) /\ IsFiniteSet(K)
    BY ReadyChildren DEF Ready
  <2>2. OwnWeight(n) = SumOf(weight, K)
    BY <1>1 DEF OwnWeight, SumOf
  <2>3. FractionsOn(weight, K)
    BY <2>1 DEF Weights, FractionsOn
  <2> HIDE DEF K
  <2>4. PICK f : Adds(f, K, weight) /\ SumOf(weight, K) = f[K]
    BY <2>1, <2>3, SumAdds
  <2>5. f[K] \in Fractions
    BY <2>1, <2>3, <2>4, AddsExists
  <2> QED
    BY <2>2, <2>4, <2>5
<1>2. CASE ~IsDir(n)
  BY <1>2, FileWeightFacts DEF FileNodes, IsDir
<1> QED
  BY <1>1, <1>2

\* EqClass::AddNode changes the weight of the class, to another fraction.
LEMMA AddNodeWeighs ==
    ASSUME Shape, Counted, Weights, NEW n \in 1 .. N, Ready(n),
           NEW k \in 1 .. N, AddNode(n, k), nodes' = nodes
    PROVE  /\ Weights'
           /\ weight'[k] = Average(weight[k], Cardinality(Members(k)), OwnWeight(n))
           /\ \A j \in 1 .. N : j # k => weight'[j] = weight[j]
<1> DEFINE c == Cardinality(Members(k))
           a == Average(weight[k], c, OwnWeight(n))
<1>1. c \in Nat /\ (c + 1) - 1 = c
  <2>1. c \in Nat
    BY MembersFinite
  <2> HIDE DEF c
  <2> QED
    BY <2>1
<1>2. weight' = [weight EXCEPT ![k] = a]
  <2>1. weight' = LET size == c + 1
                      total == Plus(Fraction(weight[k][1] * (size - 1), weight[k][2]), OwnWeight(n))
                  IN  [weight EXCEPT ![k] = Fraction(total[1], total[2] * size)]
    BY DEF AddNode
  <2> HIDE DEF c
  <2> QED
    BY <1>1, <2>1 DEF Average
<1>3. weight[k] \in Fractions /\ OwnWeight(n) \in Fractions
  BY OwnWeightType DEF Weights
<1>4. a \in Fractions
  <2> HIDE DEF c
  <2> QED
    BY <1>1, <1>3, AverageType
<1> HIDE DEF a
<1>5. N' = N
  BY DEF N
<1>6. weight' \in [1 .. N -> Fractions] /\ weight'[k] = a
      /\ \A j \in 1 .. N : j # k => weight'[j] = weight[j]
  BY <1>2, <1>4 DEF Weights
<1> QED
  BY <1>5, <1>6 DEF a, Weights

\* A class of files has the weight of each of them.
FilesWeighed ==
    \A n \in 1 .. N : ClassifiedFile(n) => weight[eq[n]] = <<FileWeight(n), 1>>

\* A classified file leaves its class at the file's weight: the average
\* of equal weights is that weight.
LEMMA FileWeighed ==
    ASSUME Bookkeeping, ByContent, Weights, FilesWeighed,
           NEW n \in 1 .. N, ClassifyFile(n)
    PROVE  Weights' /\ FilesWeighed'
<1>1. N \in Nat /\ Node = 1 .. N /\ Shape /\ Counted /\ Settled
  BY NodeNumbers DEF Bookkeeping
<1>2. phase = "files" /\ nodes' = nodes /\ use_size' = use_size /\ FilesInOrder
  BY DEF ClassifyFile, ClassifyFrame, tree, ByContent
<1>3. Ready(n) /\ nodes[n].content # Dir /\ n \in FileNodes
  BY <1>1, FileClass DEF FileNodes
<1>4. \A m \in 1 .. N : ClassifiedFile(m) => m \in 1 .. n - 1
  <2> SUFFICES ASSUME NEW m \in 1 .. N, ClassifiedFile(m)  PROVE  m \in 1 .. n - 1
    OBVIOUS
  <2>1. m # n /\ ~ (n < m)
    BY <1>2, <1>3 DEF FilesInOrder, Ready, ClassifiedFile
  <2> QED  BY <1>1, <2>1
<1> DEFINE v == FileWeight(n)
<1>5. PICK k \in 1 .. N :
          /\ AddNode(n, k)
          /\ nodes[k].content = nodes[n].content
          /\ Cardinality(Members(k)) = 0 \/ weight[k] = <<v, 1>>
  <2>1. CASE /\ AddNode(n, n)
             /\ \A m \in 1 .. n - 1 : nodes[m].content # nodes[n].content
    <3>1. ASSUME NEW m \in Members(n)
          PROVE  FALSE
      <4>1. m \in 1 .. N /\ eq[m] # 0 /\ nodes[n].content = nodes[m].content
        BY <1>1 DEF Members, ByContent, NamedByContent
      <4>2. m \in 1 .. n - 1
        BY <1>3, <1>4, <4>1 DEF ClassifiedFile
      <4> QED  BY <2>1, <4>1, <4>2
    <3>2. Cardinality(Members(n)) = 0
      BY <1>1, <3>1, MembersFinite
    <3> QED  BY <2>1, <3>2
  <2>2. CASE \E o \in 1 .. n - 1 :
                 /\ nodes[o].content = nodes[n].content
                 /\ eq[o] \in 1 .. N /\ AddNode(n, eq[o])
    <3>1. PICK o \in 1 .. n - 1 :
                 /\ nodes[o].content = nodes[n].content
                 /\ eq[o] \in 1 .. N /\ AddNode(n, eq[o])
      BY <2>2
    <3>2. o \in 1 .. N /\ eq[o] # 0
      BY <1>1, <3>1
    <3>3. ClassifiedFile(o) /\ FileWeight(o) = v
      BY <1>3, <3>1, <3>2 DEF ClassifiedFile, FileWeight
    <3>4. nodes[eq[o]].content = nodes[n].content
      BY <3>1, <3>2 DEF ByContent, NamedByContent
    <3>5. weight[eq[o]] = <<v, 1>>
      BY <3>2, <3>3 DEF FilesWeighed
    <3> QED  BY <3>1, <3>4, <3>5
  <2> QED  BY <1>1, <2>1, <2>2, FileClass
<1>6. v \in Nat /\ OwnWeight(n) = <<v, 1>>
  BY <1>1, <1>3, FileWeightFacts
<1>7. Cardinality(Members(k)) \in Nat /\ weight[k] \in Fractions
  BY <1>1, MembersFinite DEF Weights
<1> HIDE DEF v
<1>8. Average(weight[k], Cardinality(Members(k)), OwnWeight(n)) = <<v, 1>>
  BY <1>5, <1>6, <1>7, AverageOfSame
<1>9. Weights' /\ weight'[k] = <<v, 1>> /\ \A j \in 1 .. N : j # k => weight'[j] = weight[j]
  BY <1>1, <1>2, <1>3, <1>5, <1>8, AddNodeWeighs
<1>10. N' = N /\ eq' = [eq EXCEPT ![n] = k]
  BY <1>1, <1>2, <1>3, <1>5, AddNodeCounts
<1>11. \A m \in 1 .. N : eq'[m] = IF m = n THEN k ELSE eq[m]
  BY <1>1, <1>10 DEF Shape
<1>12. ASSUME NEW m \in 1 .. N, ClassifiedFile(m)'
       PROVE  weight'[eq'[m]] = <<FileWeight(m), 1>>
  <2>1. CASE m = n
    BY <1>9, <1>11, <2>1 DEF v
  <2>2. CASE m # n
    <3>1. eq'[m] = eq[m] /\ ClassifiedFile(m)
      BY <1>2, <1>11, <1>12, <2>2 DEF ClassifiedFile
    <3>2. weight[eq[m]] = <<FileWeight(m), 1>> /\ eq[m] \in 1 .. N
      BY <1>1, <3>1, ClassIsNode DEF FilesWeighed, ClassifiedFile
    <3>3. eq[m] = k => FileWeight(m) = v
      BY <1>5, <3>1 DEF ByContent, NamedByContent, ClassifiedFile, FileWeight, v
    <3> QED  BY <1>9, <3>1, <3>2, <3>3
  <2> QED  BY <2>1, <2>2
<1>13. \A m : FileWeight(m)' = FileWeight(m)
  BY <1>2 DEF FileWeight
<1>14. FilesWeighed'
  BY <1>10, <1>12, <1>13 DEF FilesWeighed
<1> QED
  BY <1>9, <1>14

\* A directory's class is named by a directory.
LEMMA DirJoins ==
    ASSUME Bookkeeping, ByContent, NEW n \in 1 .. N, ClassifyEmptyDir(n) \/ Evaluate(n)
    PROVE  /\ phase \in {"emptydirs", "propagate"} /\ phase' = phase
           /\ UNCHANGED <<nodes, use_size, unique, tolerance>>
           /\ Ready(n) /\ nodes[n].content = Dir
           /\ \E k \in 1 .. N : AddNode(n, k) /\ nodes[k].content = Dir
<1>1. N \in Nat /\ Node = 1 .. N /\ Shape /\ Counted
  BY NodeNumbers DEF Bookkeeping
<1>2. CASE ClassifyEmptyDir(n)
  BY <1>1, <1>2, EmptyDirClass DEF ClassifyEmptyDir, ClassifyFrame, tree
<1>3. CASE Evaluate(n)
  <2>1. /\ phase = "propagate" /\ phase' = phase
        /\ UNCHANGED <<nodes, use_size, unique, tolerance>>
    BY <1>3 DEF Evaluate, tree
  <2>2. Lists(queue, ReadyNodes)
    BY <2>1 DEF Bookkeeping
  <2>3. Ready(n)
    BY <1>1, <1>3, <2>2, DirClass
  <2>4. nodes[n].content = Dir
    BY <2>1, <2>3 DEF ByContent, Ready
  <2>5. CASE AddNode(n, n)
    BY <2>1, <2>3, <2>4, <2>5
  <2>6. CASE \E m \in 1 .. N : /\ nodes[m].content = Dir
                              /\ eq[m] \in 1 .. N /\ AddNode(n, eq[m])
    <3>1. PICK m \in 1 .. N : /\ nodes[m].content = Dir
                              /\ eq[m] \in 1 .. N /\ AddNode(n, eq[m])
      BY <2>6
    <3>2. eq[m] # 0
      BY <1>1, <3>1
    <3>3. nodes[eq[m]].content = Dir
      BY <3>1, <3>2 DEF ByContent, NamedByContent
    <3> QED  BY <2>1, <2>3, <2>4, <3>1, <3>3
  <2> QED  BY <1>1, <1>3, <2>2, <2>5, <2>6, DirClass
<1> QED
  BY <1>2, <1>3

\* A directory never disturbs the weight of a class of files.
LEMMA DirWeighed ==
    ASSUME Bookkeeping, ByContent, Weights, FilesWeighed,
           NEW n \in 1 .. N, ClassifyEmptyDir(n) \/ Evaluate(n)
    PROVE  Weights' /\ FilesWeighed'
<1>1. Shape /\ Counted /\ Settled
  BY DEF Bookkeeping
<1>2. PICK k \in 1 .. N : AddNode(n, k) /\ nodes[k].content = Dir
  BY DirJoins
<1>3. nodes' = nodes /\ use_size' = use_size /\ Ready(n) /\ nodes[n].content = Dir
  BY DirJoins
<1>4. Weights' /\ \A j \in 1 .. N : j # k => weight'[j] = weight[j]
  BY <1>1, <1>2, <1>3, AddNodeWeighs
<1>5. N' = N /\ eq' = [eq EXCEPT ![n] = k]
  BY <1>1, <1>2, <1>3, AddNodeCounts
<1>6. ASSUME NEW m \in 1 .. N, ClassifiedFile(m)'
      PROVE  weight'[eq'[m]] = <<FileWeight(m), 1>>
  <2>1. m # n
    BY <1>3, <1>6 DEF ClassifiedFile
  <2>2. eq'[m] = eq[m] /\ ClassifiedFile(m)
    BY <1>1, <1>3, <1>5, <1>6, <2>1 DEF ClassifiedFile, Shape
  <2>3. eq[m] \in 1 .. N /\ weight[eq[m]] = <<FileWeight(m), 1>>
    BY <1>1, <2>2, ClassIsNode DEF FilesWeighed, ClassifiedFile
  <2>4. eq[m] # k
    BY <1>2, <2>2 DEF ByContent, NamedByContent, ClassifiedFile
  <2> QED  BY <1>4, <2>2, <2>3, <2>4
<1>7. \A m : FileWeight(m)' = FileWeight(m)
  BY <1>3 DEF FileWeight
<1>8. FilesWeighed'
  BY <1>5, <1>6, <1>7 DEF FilesWeighed
<1> QED
  BY <1>4, <1>8

\* A new node's class weighs nothing.
LEMMA AddChildWeighs ==
    ASSUME Shape, Weights, NEW p \in 0 .. N, NEW x \in Content \cup {Dir}, AddChild(p, x)
    PROVE  Weights' /\ N' = N + 1
<1> DEFINE r == [parent |-> p, content |-> x]
<1>1. N \in Nat /\ nodes \in Seq(NodeRecord)
  BY NodeNumbers DEF Shape
<1>2. r \in NodeRecord
  BY <1>1 DEF NodeRecord
<1>3. nodes' = Append(nodes, r) /\ weight' = Append(weight, Zero)
  BY DEF AddChild
<1> HIDE DEF r
<1>4. N' = N + 1
  BY <1>1, <1>2, <1>3, AppendProperties DEF N
<1>5. weight \in Seq(Fractions) /\ Len(weight) = N
  <2>1. IsAlong(weight, nodes, Fractions)
    BY DEF Weights, IsAlong, N
  <2> QED
    BY <1>1, <2>1, AlongIsSeq DEF N
<1>6. Zero \in Fractions
  BY WholeFraction, FractionType DEF Zero
<1>7. weight' \in Seq(Fractions) /\ Len(weight') = N + 1
  BY <1>3, <1>5, <1>6, AppendProperties
<1>8. weight' \in [1 .. N + 1 -> Fractions]
  BY <1>7, LenProperties
<1> QED
  BY <1>4, <1>8 DEF Weights

Weighed == Weights /\ FilesWeighed

\* Every step keeps the weights right.
LEMMA WeighedStep == Bookkeeping /\ ByContent /\ Weighed /\ [Next]_vars => Weighed'
<1> SUFFICES ASSUME Bookkeeping, ByContent, Weighed, [Next]_vars  PROVE  Weighed'
  OBVIOUS
<1>1. N \in Nat /\ Node = 1 .. N /\ Shape
  BY NodeNumbers DEF Bookkeeping
<1>2. CASE \/ RootDir
           \/ \E n \in 1 .. N : SubDir(n) \/ \E c \in Content : File(n, c)
  <2>1. phase' = "scan"
    BY <1>2 DEF RootDir, SubDir, File, Created
  <2>2. Next
    BY <1>1, <1>2 DEF Next
  <2>3. Fresh'
    BY <2>1, <2>2, BookkeepingStep DEF Bookkeeping
  <2>4. \E p \in 0 .. N, x \in Content \cup {Dir} : AddChild(p, x)
    <3>1. CASE RootDir
      BY <1>1, <3>1 DEF RootDir
    <3>2. ASSUME NEW n \in 1 .. N, SubDir(n) \/ \E c \in Content : File(n, c)
          PROVE  \E p \in 0 .. N, x \in Content \cup {Dir} : AddChild(p, x)
      <4>1. n \in 0 .. N
        BY <1>1
      <4> QED  BY <3>2, <4>1 DEF SubDir, File
    <3> QED  BY <1>2, <3>1, <3>2
  <2>5. Weights'
    BY <1>1, <2>4, AddChildWeighs DEF Weighed
  <2>6. FilesWeighed'
    BY <2>3 DEF FilesWeighed, Fresh, ClassifiedFile
  <2> QED  BY <2>5, <2>6 DEF Weighed
<1>3. ASSUME NEW n \in 1 .. N, ClassifyFile(n)  PROVE  Weighed'
  BY <1>3, FileWeighed DEF Weighed
<1>4. ASSUME NEW n \in 1 .. N, ClassifyEmptyDir(n) \/ Evaluate(n)  PROVE  Weighed'
  BY <1>4, DirWeighed DEF Weighed
<1>5. CASE \/ ScanEnd \/ FilesEnd \/ GetNodesReadyToEval
           \/ PropagateEnd \/ CalculateUniqueness \/ UNCHANGED vars
  <2>1. UNCHANGED <<nodes, use_size, eq, weight>>
    BY <1>5 DEF ScanEnd, FilesEnd, GetNodesReadyToEval, PropagateEnd,
                CalculateUniqueness, vars, tree, classes
  <2>2. N' = N
    BY <2>1 DEF N
  <2> QED
    BY <2>1, <2>2 DEF Weighed, Weights, FilesWeighed, ClassifiedFile, FileWeight
<1> QED
  BY <1>1, <1>2, <1>3, <1>4, <1>5 DEF Next, Done

-----------------------------------------------------------------------------
(* The share of a directory's content that is found nowhere else *)

AllClassed == \A n \in 1 .. N : eq[n] # 0

\* The files of F weigh as much as all their blocks.
LEMMA WeightIsWhole ==
    ASSUME Shape, FilesWeighed, AllClassed, NEW F \in SUBSET FileNodes, IsFiniteSet(F)
    PROVE  LET v == [f \in F |-> FileWeight(f)]
           IN  \A G \in SUBSET F : WeightOf(G) = <<Cardinality(Blocks(G, v)), 1>>
<1> DEFINE v == [f \in F |-> FileWeight(f)]
<1> SUFFICES ASSUME NEW G \in SUBSET F
             PROVE  WeightOf(G) = <<Cardinality(Blocks(G, v)), 1>>
  OBVIOUS
<1> DEFINE u == [f \in G |-> FileWeight(f)]
           w == [f \in G |-> <<FileWeight(f), 1>>]
<1>1. IsFiniteSet(G)
  BY FS_Subset
<1>2. ASSUME NEW f \in G
      PROVE  /\ u[f] = v[f] /\ v[f] \in Nat
             /\ w[f] = <<u[f], 1>> /\ w[f] \in Fractions /\ w[f] = weight[eq[f]]
  <2>1. f \in FileNodes /\ f \in 1 .. N
    BY DEF FileNodes
  <2>2. FileWeight(f) \in Nat /\ <<FileWeight(f), 1>> \in Fractions
    BY <2>1, FileWeightFacts
  <2>3. weight[eq[f]] = <<FileWeight(f), 1>>
    BY <2>1 DEF FilesWeighed, ClassifiedFile, FileNodes, AllClassed
  <2> QED
    BY <2>2, <2>3
<1>3. FractionsOn(w, G) /\ u \in [G -> Nat]
  BY <1>2 DEF FractionsOn
<1>4. Blocks(G, u) = Blocks(G, v)
  <2>1. \A b \in G \X Nat : u[b[1]] = v[b[1]]
    BY <1>2
  <2> HIDE DEF u, v
  <2> QED
    BY <2>1 DEF Blocks
<1> HIDE DEF u, w, v
<1>5. PICK f : Adds(f, G, w) /\ WeightOf(G) = f[G]
  BY <1>1, <1>2, <1>3, WeightAdds
<1>6. f[G] = <<Cardinality(Blocks(G, u)), 1>>
  BY <1>1, <1>2, <1>3, <1>5, WholeSum
<1> QED
  BY <1>4, <1>5, <1>6

\* what the unique fraction of a node says of its files
Tells(n) ==
    LET C == FilesThatCount(n)
    IN  /\ UniqueFraction(n) \in Fractions
        /\ UniqueFraction(n) = Zero <=> \A f \in C : Elsewhere(f, Files[n])
        /\ C # {} => (UniqueFraction(n) = <<1, 1>>
                          <=> \A f \in C : ~Elsewhere(f, Files[n]))

\* A file has no duplicate exactly if it is alone in its class.
LEMMA FileUnique ==
    ASSUME Shape, AllClassed, NEW n \in 1 .. N, ~IsDir(n)
    PROVE  Tells(n)
<1>1. Files[n] = {n} /\ FilesThatCount(n) = {n}
  BY FilesFacts DEF FilesThatCount
<1>2. UniqueFraction(n) = IF IsSingle(eq[n]) THEN <<1, 1>> ELSE Zero
  BY DEF UniqueFraction
<1>3. <<1, 1>> \in Fractions /\ Zero \in Fractions /\ Zero # <<1, 1>>
  BY WholeFraction, FractionType DEF Zero
<1>4. n \in Members(eq[n]) /\ IsFiniteSet(Members(eq[n]))
  BY NodeNumbers, MembersFinite DEF Members
<1>5. IsSingle(eq[n]) <=> ~Elsewhere(n, {n})
  <2>1. Cardinality(Members(eq[n])) = 1 <=> \E x : Members(eq[n]) = {x}
    BY <1>4, FS_Singleton
  <2> QED
    BY <1>4, <2>1 DEF IsSingle, Elsewhere
<1> QED
  BY <1>1, <1>2, <1>3, <1>5 DEF Tells

\* The unique fraction of a directory is 0 if everything that counts is found
\* elsewhere, and 1 if nothing of it is.
LEMMA DirUnique ==
    ASSUME Shape, FilesWeighed, AllClassed, NEW n \in 1 .. N, IsDir(n)
    PROVE  Tells(n)
<1> DEFINE F == Files[n]
           G == {f \in F : ~Elsewhere(f, F)}
           v == [f \in F |-> FileWeight(f)]
           a == Cardinality(Blocks(G, v))
           b == Cardinality(Blocks(F, v))
<1>1. F \in SUBSET FileNodes /\ IsFiniteSet(F) /\ G \in SUBSET F
  BY FilesFacts
<1>2. \A f \in F : Elsewhere(f, F) <=> f \notin G
  OBVIOUS
<1>3. UniqueFraction(n) = LET own == WeightOf(G)
                              total == WeightOf(F)
                          IN  IF total = Zero THEN Zero
                              ELSE Fraction(own[1] * total[2], own[2] * total[1])
  BY DEF UniqueFraction
<1> DEFINE C == FilesThatCount(n)
<1>5. \A f \in F : v[f] = FileWeight(f) /\ v[f] \in Nat
  BY <1>1, FileWeightFacts
<1>13. C = {f \in F : v[f] # 0}
  <2>1. \A f \in F : f # n /\ OwnWeight(f) = <<v[f], 1>>
    BY <1>1, <1>5, FileWeightFacts DEF FileNodes, IsDir
  <2>2. \A f \in F : OwnWeight(f) = Zero <=> v[f] = 0
    BY <1>5, <2>1 DEF Zero
  <2> QED
    BY <2>1, <2>2 DEF FilesThatCount
<1> HIDE DEF F, G, C
<1>4. WeightOf(G) = <<a, 1>> /\ WeightOf(F) = <<b, 1>>
  BY <1>1, WeightIsWhole
<1>6. v \in [F -> Nat]
  BY <1>5
<1> HIDE DEF v
<1>7. /\ a \in Nat /\ b \in Nat
      /\ a = 0 <=> \A f \in G : v[f] = 0
      /\ b = 0 <=> \A f \in F : v[f] = 0
      /\ a = b <=> \A f \in F \ G : v[f] = 0
  <2>1. a \in Nat /\ b \in Nat
    BY <1>1, <1>6, BlocksFacts
  <2>2. b = 0 <=> \A f \in F : v[f] = 0
    BY <1>1, <1>6, BlocksOrder
  <2> QED
    BY <1>1, <1>6, <2>1, <2>2, BlocksOrder
<1>8. /\ a = 0 <=> G \cap C = {}
      /\ b = 0 <=> C = {}
      /\ a = b <=> C \subseteq G
  BY <1>1, <1>13, <1>7
<1> HIDE DEF a, b
<1>9. UniqueFraction(n) = IF b = 0 THEN Zero ELSE Fraction(a, b)
  <2>1. a * 1 = a /\ 1 * b = b
    BY <1>7
  <2>2. <<a, 1>>[1] = a /\ <<a, 1>>[2] = 1 /\ <<b, 1>>[1] = b /\ <<b, 1>>[2] = 1
    OBVIOUS
  <2>3. <<b, 1>> = Zero <=> b = 0
    BY DEF Zero
  <2> QED
    BY <1>3, <1>4, <2>1, <2>2, <2>3
<1>10. UniqueFraction(n) \in Fractions
  <2>1. Zero \in Fractions
    BY WholeFraction, FractionType DEF Zero
  <2>2. b # 0 => Fraction(a, b) \in Fractions
    BY <1>7, FractionType
  <2> QED
    BY <1>9, <2>1, <2>2
<1>11. /\ UniqueFraction(n) = Zero <=> G \cap C = {}
       /\ C # {} => (UniqueFraction(n) = <<1, 1>> <=> C \subseteq G)
  <2>1. b # 0 => /\ Fraction(a, b) = Zero <=> a = 0
                 /\ Fraction(a, b) = <<1, 1>> <=> a = b
    BY <1>7, Shares DEF Zero
  <2>2. b = 0 => G \cap C = {}
    BY <1>8
  <2> QED
    BY <1>8, <1>9, <2>1, <2>2
<1>12. C \in SUBSET F
  BY <1>13
<1>14. /\ G \cap C = {} <=> \A f \in C : Elsewhere(f, F)
       /\ C \subseteq G <=> \A f \in C : ~Elsewhere(f, F)
  BY <1>2, <1>12
<1> QED
  BY <1>10, <1>11, <1>14 DEF Tells, C, F

LEMMA UniqueFractionFacts ==
    ASSUME Shape, FilesWeighed, AllClassed, NEW n \in 1 .. N
    PROVE  Tells(n)
  BY FileUnique, DirUnique

\* what CalculateUniqueness leaves
Reckoned ==
    /\ tolerance \in Int
    /\ phase = "done" => \A n \in 1 .. N : unique[n] = UniqueFraction(n)

\* Every step keeps the result of CalculateUniqueness.
LEMMA ReckonedStep == Bookkeeping /\ Reckoned /\ [Next]_vars => Reckoned'
<1> SUFFICES ASSUME Bookkeeping, Reckoned, [Next]_vars  PROVE  Reckoned'
  OBVIOUS
<1>1. N \in Nat /\ Node = 1 .. N
  BY NodeNumbers DEF Bookkeeping
<1>2. tolerance' = tolerance
  BY DEF Next, vars, RootDir, SubDir, File, Created, ScanEnd, ClassifyFile, ClassifyFrame,
         FilesEnd, ClassifyEmptyDir, GetNodesReadyToEval, Evaluate, PropagateEnd,
         CalculateUniqueness, Done
<1>3. CASE phase' # "done"
  BY <1>2, <1>3 DEF Reckoned
<1>4. CASE phase' = "done"
  <2>1. ScanEnd \/ CalculateUniqueness \/ UNCHANGED vars
    BY <1>4 DEF Next, vars, RootDir, SubDir, File, Created, ClassifyFile, ClassifyFrame,
         FilesEnd, ClassifyEmptyDir, GetNodesReadyToEval, Evaluate, PropagateEnd, Done
  <2>2. UNCHANGED <<nodes, eq, weight>>
    BY <2>1 DEF ScanEnd, CalculateUniqueness, vars, tree, classes
  <2>3. N' = N /\ \A n : UniqueFraction(n)' = UniqueFraction(n)
    BY <2>2, UniqueKept DEF N
  <2>4. CASE ScanEnd
    <3>1. N = 0
      BY <1>4, <2>4, EmptySeq DEF ScanEnd, N
    <3>2. 1 .. N = {}
      BY <3>1
    <3> QED  BY <1>2, <2>3, <3>2 DEF Reckoned
  <2>5. CASE CalculateUniqueness
    <3>1. \A n \in 1 .. N : unique'[n] = UniqueFraction(n)
      BY <1>1, <2>5 DEF CalculateUniqueness
    <3> QED  BY <1>2, <2>3, <3>1 DEF Reckoned
  <2>6. CASE UNCHANGED vars
    <3>1. unique' = unique /\ phase' = phase
      BY <2>6 DEF vars
    <3> QED  BY <1>2, <2>3, <3>1 DEF Reckoned
  <2> QED  BY <2>1, <2>4, <2>5, <2>6
<1> QED
  BY <1>3, <1>4

Result == Bookkeeping /\ ByContent /\ Weighed /\ Reckoned

\* The contents, the weights and the shares are invariant of every run.
THEOREM ResultInvariant == Spec => []Result
<1>1. Init => ByContent /\ Weighed /\ Reckoned
  <2> SUFFICES ASSUME Init  PROVE  ByContent /\ Weighed /\ Reckoned
    OBVIOUS
  <2>1. N = 0 /\ phase = "scan" /\ weight = <<>> /\ tolerance \in Int
    BY EmptySeq, TolerancesAssumption DEF Init, N
  <2>2. 1 .. N = {}
    BY <2>1
  <2>3. weight \in [1 .. N -> Fractions]
    BY <2>1, <2>2
  <2> QED
    BY <2>1, <2>2, <2>3 DEF ByContent, NamedByContent, OneClassPerContent, Weighed,
                            Weights, FilesWeighed, Reckoned
<1> QED
  BY <1>1, BookkeepingInvariant, ByContentStep, WeighedStep, ReckonedStep, PTL
     DEF Spec, Result

\* Files with the same content are found by their class.
LEMMA ElsewhereIsOutside ==
    ASSUME Result, AllClassed, NEW F \in SUBSET FileNodes, NEW f \in F
    PROVE  Elsewhere(f, F) <=> \E g \in Node \ F : nodes[g].content = nodes[f].content
<1>1. Node = 1 .. N /\ f \in 1 .. N /\ nodes[f].content # Dir /\ NamedByContent
      /\ OneClassPerContent
  BY NodeNumbers DEF Result, Bookkeeping, FileNodes, ByContent
<1>2. \A g \in 1 .. N : eq[g] = eq[f] <=> nodes[g].content = nodes[f].content
  BY <1>1 DEF NamedByContent, OneClassPerContent, ClassifiedFile, AllClassed
<1>3. \A g : g \in Members(eq[f]) \ F
                 <=> g \in Node \ F /\ nodes[g].content = nodes[f].content
  BY <1>1, <1>2 DEF Members
<1> QED
  BY <1>3 DEF Elsewhere

\* When the result is there, everything has a class.
LEMMA ResultClassed ==
    ASSUME Result, phase = "done"
    PROVE  AllClassed /\ Shape /\ FilesWeighed
  BY DEF Result, Bookkeeping, Weighed, AllClassed

\* A directory's unique share is none exactly if all of its files that count
\* are found outside of it, and all of it exactly if none is: for every tree,
\* whatever classes its directories were put into.
THEOREM Uniqueness == Spec => []UniquenessRight
<1>1. Result => UniquenessRight
  <2> SUFFICES ASSUME Result, phase = "done", NEW n \in Node
               PROVE  LET C == FilesThatCount(n)
                          outside(f) ==
                              {g \in Node \ Files[n] : nodes[g].content = nodes[f].content}
                      IN  /\ unique[n] = Zero <=> \A f \in C : outside(f) # {}
                          /\ C # {} => (unique[n] = <<1, 1>> <=> \A f \in C : outside(f) = {})
    BY DEF UniquenessRight
  <2> DEFINE F == Files[n]
             C == FilesThatCount(n)
             outside(f) == {g \in Node \ F : nodes[g].content = nodes[f].content}
  <2>1. n \in 1 .. N /\ AllClassed /\ Shape /\ FilesWeighed
    BY ResultClassed, NodeNumbers
  <2>2. unique[n] = UniqueFraction(n)
    BY <2>1 DEF Result, Reckoned
  <2>3. F \in SUBSET FileNodes
    BY <2>1, FilesFacts
  <2>4. ASSUME NEW f \in F
        PROVE  Elsewhere(f, F) <=> outside(f) # {}
    <3> HIDE DEF F
    <3>1. Elsewhere(f, F) <=> \E g \in Node \ F : nodes[g].content = nodes[f].content
      BY <2>1, <2>3, ElsewhereIsOutside
    <3> QED  BY <3>1
  <2>5. /\ unique[n] = Zero <=> \A f \in C : Elsewhere(f, F)
        /\ C # {} => (unique[n] = <<1, 1>> <=> \A f \in C : ~Elsewhere(f, F))
    BY <2>1, <2>2, UniqueFractionFacts DEF Tells
  <2>6. C \in SUBSET F
    BY DEF FilesThatCount
  <2> HIDE DEF F, C, outside
  <2>7. /\ unique[n] = Zero <=> \A f \in C : outside(f) # {}
        /\ C # {} => (unique[n] = <<1, 1>> <=> \A f \in C : outside(f) = {})
    BY <2>4, <2>5, <2>6
  <2> QED
    BY <2>7 DEF F, C, outside
<1> QED
  BY <1>1, ResultInvariant, PTL

\* Every duplicate lies in an entry that is reported: an entry of a class is
\* left out of the report only if its parent has a duplicate itself, and the
\* root has no parent.  A directory that is like no other, but all of whose
\* files are found elsewhere, is among the scattered ones.
THEOREM Reported == Spec => []NothingHidden
<1>1. Result /\ UniquenessRight => NothingHidden
  <2> SUFFICES ASSUME Result, UniquenessRight, phase = "done"
               PROVE  \A n \in Node :
                          \/ IsSingle(eq[n]) /\ (Redundant(n) /\ tolerance > 0 => n \in Scattered)
                          \/ \E a \in Lineage[n] : eq[a] \in Interesting
    BY DEF NothingHidden
  <2>1. /\ N \in Nat /\ Node = 1 .. N /\ AllClassed /\ Shape
        /\ tolerance \in Int
    BY ResultClassed, NodeNumbers DEF Result, Reckoned
  <2>2. ASSUME NEW n \in 1 .. N, IsSingle(eq[n]), Redundant(n), tolerance > 0
        PROVE  n \in Scattered
    <3>1. unique[n] = Zero
      <4>1. Files[n] # {} /\ \A f \in Files[n] :
                \E g \in Node \ Files[n] : nodes[g].content = nodes[f].content
        BY <2>2 DEF Redundant
      <4> DEFINE C == FilesThatCount(n)
                 outside(f) == {g \in Node \ Files[n] : nodes[g].content = nodes[f].content}
      <4>2. unique[n] = Zero <=> \A f \in C : outside(f) # {}
        BY <2>1 DEF UniquenessRight
      <4>3. \A f \in C : outside(f) # {}
        BY <4>1 DEF FilesThatCount
      <4> HIDE DEF outside
      <4> QED
        BY <4>1, <4>2, <4>3
    <3>2. unique[n][1] * 100 < tolerance * unique[n][2]
      BY <2>1, <2>2, <3>1 DEF Zero
    <3> QED
      BY <2>1, <2>2, <3>2 DEF Scattered, Redundant
  <2> DEFINE Hidden == {n \in 1 .. N : /\ ~IsSingle(eq[n])
                                       /\ \A a \in Lineage[n] : eq[a] \notin Interesting}
  <2>3. Hidden = {}
    <3> SUFFICES ASSUME Hidden # {}  PROVE  FALSE
      OBVIOUS
    <3>1. Hidden \in SUBSET (1 .. N)
      OBVIOUS
    <3>2. PICK n \in Hidden : \A m \in Hidden : n <= m
      <4> HIDE DEF Hidden
      <4> QED
        BY <2>1, <3>1, MinIsSmallest
    <3>3. Lineage[n] = {n} \cup Lineage[Parent(n)]
      BY <2>1, LineageFacts
    <3>4. ~KeepsInteresting(n)
      <4>1. eq[n] \in ClassNames /\ n \in Members(eq[n])
        BY <2>1 DEF ClassNames, Members, AllClassed
      <4>2. eq[n] \notin Interesting
        BY <3>3
      <4> QED
        BY <4>1, <4>2 DEF Interesting
    <3>5. Parent(n) # 0 /\ ~IsSingle(eq[Parent(n)])
      BY <3>4 DEF KeepsInteresting
    <3>6. Parent(n) \in 1 .. N /\ Parent(n) < n
      <4>1. Parent(n) \in 0 .. n - 1
        BY <2>1 DEF Parent, Shape
      <4> QED
        BY <2>1, <3>5, <4>1
    <3>7. Parent(n) \in Hidden
      BY <3>3, <3>5, <3>6
    <3> QED
      BY <3>2, <3>6, <3>7
  <2> QED
    BY <2>1, <2>2, <2>3
<1> QED
  BY <1>1, ResultInvariant, Uniqueness, PTL

-----------------------------------------------------------------------------
(* Type correctness *)

\* what the types of the variables need besides Result
Typed ==
    /\ N <= MaxNodes /\ use_size \in BOOLEAN /\ tolerance \in Tolerances
    /\ phase \in {"scan", "files", "emptydirs", "propagate", "uniqueness", "done"}
    /\ phase # "propagate" => queue = <<>>
    /\ phase # "done" => unique = <<>>
    /\ unique \in {<<>>} \cup [1 .. N -> Fractions]

\* Every step keeps the types.
LEMMA TypedStep == Result /\ Typed /\ [Next]_vars => Typed'
<1> SUFFICES ASSUME Result, Typed, [Next]_vars  PROVE  Typed'
  OBVIOUS
<1>1. N \in Nat /\ Node = 1 .. N /\ Shape /\ Bookkeeping /\ ByContent /\ FilesWeighed
  BY NodeNumbers DEF Result, Bookkeeping, Weighed
<1>2. CASE \/ RootDir
           \/ \E n \in 1 .. N : SubDir(n) \/ \E c \in Content : File(n, c)
  <2>1. /\ phase = "scan" /\ phase' = phase
        /\ UNCHANGED <<use_size, queue, unique, tolerance>>
    BY <1>2 DEF RootDir, SubDir, File, Created
  <2>2. N < MaxNodes
    <3>1. CASE nodes = <<>>
      BY <3>1, EmptySeq, MaxNodesAssumption DEF N
    <3>2. CASE nodes # <<>>
      BY <1>2, <3>2 DEF RootDir, SubDir, File, N
    <3> QED  BY <3>1, <3>2
  <2>3. N' = N + 1
    <3>1. PICK p \in 0 .. N, x \in Content \cup {Dir} : AddChild(p, x)
      <4>1. CASE RootDir
        BY <1>1, <4>1 DEF RootDir
      <4>2. ASSUME NEW n \in 1 .. N, SubDir(n) \/ \E c \in Content : File(n, c)
            PROVE  \E p \in 0 .. N, x \in Content \cup {Dir} : AddChild(p, x)
        <5>1. n \in 0 .. N
          BY <1>1
        <5> QED  BY <4>2, <5>1 DEF SubDir, File
      <4> QED  BY <1>2, <4>1, <4>2
    <3> QED  BY <1>1, <3>1, AddChildWeighs DEF Result, Weighed
  <2>4. N' <= MaxNodes
    BY <1>1, <2>2, <2>3, MaxNodesAssumption
  <2> QED
    BY <2>1, <2>4 DEF Typed
<1>3. CASE \E n \in 1 .. N : ClassifyFile(n) \/ ClassifyEmptyDir(n) \/ Evaluate(n)
  <2>1. /\ UNCHANGED <<nodes, use_size, unique, tolerance, phase>>
        /\ phase \in {"files", "emptydirs", "propagate"}
        /\ phase # "propagate" => queue' = queue
    BY <1>3 DEF ClassifyFile, ClassifyFrame, ClassifyEmptyDir, Evaluate, tree
  <2>2. N' = N
    BY <2>1 DEF N
  <2> QED
    BY <2>1, <2>2 DEF Typed
<1>4. CASE \/ ScanEnd \/ FilesEnd \/ GetNodesReadyToEval
           \/ PropagateEnd \/ UNCHANGED vars
  <2>1. UNCHANGED <<nodes, use_size, unique, tolerance>> /\ N' = N
    BY <1>4 DEF ScanEnd, FilesEnd, GetNodesReadyToEval, PropagateEnd, vars, tree, N
  <2> QED
    BY <1>4, <2>1 DEF Typed, ScanEnd, FilesEnd, GetNodesReadyToEval, PropagateEnd, vars
<1>5. CASE CalculateUniqueness
  <2>1. /\ phase = "uniqueness" /\ phase' = "done"
        /\ UNCHANGED <<nodes, use_size, queue, tolerance>> /\ N' = N
        /\ unique' = [n \in 1 .. N |-> UniqueFraction(n)]
    BY <1>1, <1>5 DEF CalculateUniqueness, tree, N
  <2>2. AllClassed
    BY <1>1, <2>1 DEF Bookkeeping, AllClassed
  <2>3. \A n \in 1 .. N : UniqueFraction(n) \in Fractions
    BY <1>1, <2>2, UniqueFractionFacts DEF Tells
  <2>4. unique' \in [1 .. N -> Fractions]
    BY <2>1, <2>3
  <2> QED
    BY <2>1, <2>4 DEF Typed
<1> QED
  BY <1>1, <1>2, <1>3, <1>4, <1>5 DEF Next, Done

\* Every variable keeps its type: the weights and the shares are fractions in
\* lowest terms, the counters are never negative.
THEOREM Types == Spec => []TypeOK
<1>1. Init => Typed
  <2> SUFFICES ASSUME Init  PROVE  Typed
    OBVIOUS
  <2>1. N = 0 /\ N <= MaxNodes
    BY EmptySeq, MaxNodesAssumption DEF Init, N
  <2> QED
    BY <2>1 DEF Init, Typed
<1>2. Result /\ Typed => TypeOK
  <2> SUFFICES ASSUME Result, Typed  PROVE  TypeOK
    OBVIOUS
  <2>1. /\ N \in Nat /\ Node = 1 .. N /\ Shape /\ Counted /\ Bookkeeping /\ Weights
        /\ Len(nodes) = N
    BY NodeNumbers DEF Result, Bookkeeping, Weighed, N
  <2>2. nodes \in Seq([parent : 0 .. MaxNodes, content : Content \cup {Dir}])
    <3> DEFINE R == [parent : 0 .. MaxNodes, content : Content \cup {Dir}]
    <3>1. nodes \in [1 .. N -> NodeRecord]
      BY <2>1, LenProperties DEF Shape
    <3>2. ASSUME NEW n \in 1 .. N
          PROVE  nodes[n] \in R
      <4>1. nodes[n] \in NodeRecord
        BY <3>1
      <4>2. nodes[n].parent \in 0 .. n - 1
        BY <2>1 DEF Shape
      <4>3. nodes[n].parent \in 0 .. MaxNodes
        BY <2>1, <4>2, MaxNodesAssumption DEF Typed
      <4> QED
        BY <4>1, <4>3 DEF NodeRecord
    <3>3. nodes \in [1 .. N -> R]
      <4> HIDE DEF R
      <4> QED
        BY <3>1, <3>2
    <3> HIDE DEF R
    <3>4. nodes \in Seq(R)
      BY <2>1, <3>3, SeqDef
    <3> QED  BY <3>4 DEF R
  <2>3. eq \in [1 .. N -> (1 .. N) \cup {0}]
    BY <2>1, ClassIsNode DEF Shape
  <2>4. notEval \in [1 .. N -> Nat]
    <3>1. \A n \in 1 .. N : notEval[n] \in Nat
      BY <2>1, PendingFinite DEF Counted
    <3> QED  BY <2>1, <3>1 DEF Shape
  <2>5. queue \in Seq(1 .. N)
    <3>1. CASE phase = "propagate"
      <4>1. queue \in Seq(ReadyNodes) /\ ReadyNodes \subseteq 1 .. N
        BY <2>1, <3>1 DEF Bookkeeping, Lists, ReadyNodes
      <4>2. Len(queue) \in Nat /\ queue \in [1 .. Len(queue) -> ReadyNodes]
        BY <4>1, LenProperties
      <4>3. queue \in [1 .. Len(queue) -> 1 .. N]
        BY <4>1, <4>2
      <4> QED  BY <4>2, <4>3, SeqDef
    <3>2. CASE phase # "propagate"
      BY <3>2, EmptySeq DEF Typed
    <3> QED  BY <3>1, <3>2
  <2> QED
    BY <2>1, <2>2, <2>3, <2>4, <2>5 DEF TypeOK, Typed, Weights
<1> QED
  BY <1>1, <1>2, TypedStep, ResultInvariant, PTL DEF Spec

-----------------------------------------------------------------------------
(* Weights that count, and weights that do not *)

AtLeast(x, c) == x[1] >= c * x[2]

\* A fraction that is not truncated to 0, and one that is 0
IsHeavy(x) == AtLeast(x, 1)
IsNull(x) == x[1] = 0

\* Reducing a fraction does not change its size.
LEMMA FractionAtLeast ==
    ASSUME NEW a \in Nat, NEW b \in Nat \ {0}, NEW c \in Nat
    PROVE  /\ AtLeast(Fraction(a, b), c) <=> a >= c * b
           /\ IsNull(Fraction(a, b)) <=> a = 0
<1>1. PICK g, p, q : Fraction(a, b) = <<p, q>> /\ Lowest(a, b, g, p, q)
  BY FractionIs
<1>2. g \in Nat \ {0} /\ p \in Nat /\ q \in Nat \ {0} /\ a = g * p /\ b = g * q
  BY <1>1 DEF Lowest
<1> DEFINE r == c * q
<1>3. r \in Nat /\ c * b = g * r
  BY <1>2
<1>4. g * p >= g * r <=> p >= r
  <2> HIDE DEF r
  <2>1. p >= r => g * p >= g * r
    BY <1>2, <1>3
  <2>2. p < r => g * (r - p) >= g
    BY <1>2, <1>3
  <2>3. g * (r - p) = g * r - g * p
    BY <1>2, <1>3
  <2> QED
    BY <1>2, <1>3, <2>1, <2>2, <2>3
<1>5. AtLeast(Fraction(a, b), c) <=> p >= r
  BY <1>1 DEF AtLeast
<1>6. a = 0 <=> p = 0
  BY <1>2
<1>7. IsNull(Fraction(a, b)) <=> p = 0
  BY <1>1 DEF IsNull
<1> HIDE DEF r
<1> QED
  BY <1>2, <1>3, <1>4, <1>5, <1>6, <1>7

\* Lower bounds add up.
LEMMA PlusAtLeast ==
    ASSUME NEW x \in Fractions, NEW y \in Fractions, NEW c \in Nat, NEW d \in Nat,
           AtLeast(x, c), AtLeast(y, d)
    PROVE  AtLeast(Plus(x, y), c + d)
<1> DEFINE p == x[1]
           q == x[2]
           r == y[1]
           s == y[2]
<1>1. p \in Nat /\ q \in Nat \ {0} /\ r \in Nat /\ s \in Nat \ {0}
      /\ p >= c * q /\ r >= d * s
  BY DEF Fractions, AtLeast
<1> HIDE DEF p, q, r, s
<1>2. p * s >= (c * q) * s /\ r * q >= (d * s) * q
  BY <1>1
<1>3. (c + d) * (q * s) = (c * q) * s + (d * s) * q
  BY <1>1
<1>4. p * s + r * q \in Nat /\ q * s \in Nat \ {0} /\ c + d \in Nat
  BY <1>1
<1>5. p * s + r * q >= (c + d) * (q * s)
  <2>1. p * s \in Nat /\ r * q \in Nat /\ (c * q) * s \in Nat /\ (d * s) * q \in Nat
    BY <1>1
  <2> QED
    BY <1>2, <1>3, <2>1
<1>6. AtLeast(Fraction(p * s + r * q, q * s), c + d)
  BY <1>4, <1>5, FractionAtLeast
<1> QED
  BY <1>6 DEF Plus, p, q, r, s

\* Nothing and nothing is nothing.
LEMMA PlusNull ==
    ASSUME NEW x \in Fractions, NEW y \in Fractions, IsNull(x), IsNull(y)
    PROVE  IsNull(Plus(x, y))
<1>1. x[1] = 0 /\ y[1] = 0 /\ x[2] \in Nat \ {0} /\ y[2] \in Nat \ {0}
  BY DEF IsNull, Fractions
<1>2. x[1] * y[2] + y[1] * x[2] = 0 /\ x[2] * y[2] \in Nat \ {0}
  BY <1>1
<1> QED
  BY <1>2, FractionAtLeast DEF Plus

\* A class stays heavy, or null, as long as such nodes join it.
LEMMA AverageKind ==
    ASSUME NEW w \in Fractions, NEW c \in Nat, NEW own \in Fractions
    PROVE  /\ IsHeavy(own) /\ (c = 0 \/ IsHeavy(w)) => IsHeavy(Average(w, c, own))
           /\ IsNull(own) /\ (c = 0 \/ IsNull(w)) => IsNull(Average(w, c, own))
<1> DEFINE part == Fraction(w[1] * c, w[2])
           total == Plus(part, own)
<1>1. w[1] \in Nat /\ w[2] \in Nat \ {0} /\ w[1] * c \in Nat
  BY DEF Fractions
<1>2. part \in Fractions /\ total \in Fractions
  BY <1>1, FractionType, PlusType
<1>3. total[1] \in Nat /\ total[2] \in Nat \ {0}
  <2> HIDE DEF total
  <2> QED  BY <1>2 DEF Fractions
<1>4. total[2] * (c + 1) \in Nat \ {0}
  <2> HIDE DEF total
  <2> QED  BY <1>3
<1>5. Average(w, c, own) = Fraction(total[1], total[2] * (c + 1))
  BY DEF Average
<1>6. ASSUME IsHeavy(own), c = 0 \/ IsHeavy(w)
      PROVE  IsHeavy(Average(w, c, own))
  <2>1. w[1] * c >= c * w[2]
    <3>1. CASE c = 0
      BY <1>1, <3>1
    <3>2. CASE IsHeavy(w)
      BY <1>1, <3>2 DEF IsHeavy, AtLeast
    <3> QED  BY <1>6, <3>1, <3>2
  <2>2. AtLeast(part, c)
    BY <1>1, <2>1, FractionAtLeast
  <2> HIDE DEF part
  <2>3. AtLeast(total, c + 1)
    BY <1>2, <1>6, <2>2, PlusAtLeast DEF IsHeavy
  <2> HIDE DEF total
  <2>4. total[1] >= 1 * (total[2] * (c + 1))
    BY <1>3, <2>3 DEF AtLeast
  <2> QED
    BY <1>3, <1>4, <1>5, <2>4, FractionAtLeast DEF IsHeavy
<1>7. ASSUME IsNull(own), c = 0 \/ IsNull(w)
      PROVE  IsNull(Average(w, c, own))
  <2>1. w[1] * c = 0
    BY <1>1, <1>7 DEF IsNull
  <2>2. IsNull(part)
    BY <1>1, <2>1, FractionAtLeast
  <2> HIDE DEF part
  <2>3. IsNull(total)
    BY <1>2, <1>7, <2>2, PlusNull
  <2> HIDE DEF total
  <2> QED
    BY <1>3, <1>4, <1>5, <2>3, FractionAtLeast DEF IsNull
<1> QED
  BY <1>6, <1>7

\* A directory is heavy if one of its classes is, null if all are.
LEMMA SumKind ==
    ASSUME NEW K, IsFiniteSet(K), NEW w, FractionsOn(w, K)
    PROVE  /\ SumOf(w, K) \in Fractions
           /\ (\E k \in K : IsHeavy(w[k])) => IsHeavy(SumOf(w, K))
           /\ (\A k \in K : IsNull(w[k])) => IsNull(SumOf(w, K))
<1>1. PICK f : Adds(f, K, w) /\ SumOf(w, K) = f[K]
  BY SumAdds
<1>2. \A s \in SUBSET K : f[s] \in Fractions
  BY <1>1, AddsExists
<1>3. \A s \in SUBSET K :
          f[s] = IF s = {} THEN Zero ELSE Plus(w[Pick(s)], f[s \ {Pick(s)}])
  BY <1>1 DEF Adds
<1> DEFINE Heavily(s) == (\E k \in s : IsHeavy(w[k])) => IsHeavy(f[s])
           Lightly(s) == (\A k \in s : IsNull(w[k])) => IsNull(f[s])
           P == {s \in SUBSET K : Heavily(s) /\ Lightly(s)}
<1>4. ASSUME NEW T \in SUBSET K, \A U \in SUBSET T : U # T => U \in P
      PROVE  T \in P
  <2>1. CASE T = {}
    BY <1>3, <2>1 DEF Zero, IsNull
  <2>2. CASE T # {}
    <3> DEFINE x == Pick(T)
               r == T \ {x}
    <3>1. IsFiniteSet(T)
      BY FS_Subset
    <3>2. x \in T /\ r \in SUBSET T /\ r # T /\ r \in SUBSET K
      BY <2>2, <3>1, PickFacts
    <3>3. f[T] = Plus(w[x], f[r])
      BY <1>3, <2>2
    <3>4. w[x] \in Fractions /\ f[r] \in Fractions /\ r \in P
      BY <1>2, <1>4, <3>2 DEF FractionsOn
    <3>5. AtLeast(w[x], 0) /\ AtLeast(f[r], 0)
      <4>1. \A y \in Fractions : AtLeast(y, 0)
        BY DEF Fractions, AtLeast
      <4> QED  BY <3>4, <4>1
    <3> HIDE DEF x, r
    <3>6. Heavily(T)
      <4>1. ASSUME IsHeavy(w[x])  PROVE  IsHeavy(f[T])
        <5>1. AtLeast(Plus(w[x], f[r]), 1 + 0)
          BY <3>4, <3>5, <4>1, PlusAtLeast DEF IsHeavy
        <5> QED  BY <3>3, <5>1 DEF IsHeavy
      <4>2. ASSUME IsHeavy(f[r])  PROVE  IsHeavy(f[T])
        <5>1. AtLeast(Plus(w[x], f[r]), 0 + 1)
          BY <3>4, <3>5, <4>2, PlusAtLeast DEF IsHeavy
        <5> QED  BY <3>3, <5>1 DEF IsHeavy
      <4>3. \A k \in T : k = x \/ k \in r
        BY DEF r
      <4> QED
        BY <3>4, <4>1, <4>2, <4>3
    <3>7. Lightly(T)
      <4>1. \A k \in r : k \in T
        BY <3>2
      <4> QED
        BY <3>2, <3>3, <3>4, <4>1, PlusNull
    <3> QED
      BY <3>6, <3>7
  <2> QED
    BY <2>1, <2>2
<1>5. \A T \in SUBSET K : T \in P
  <2> HIDE DEF P
  <2> QED
    BY <1>4, SubsetInduction
<1> QED
  BY <1>1, <1>2, <1>5

\* The truncated weight is 0 unless the weight is at least 1.
LEMMA FloorFacts ==
    ASSUME NEW x \in Fractions
    PROVE  Floor(x) \in Nat /\ (Floor(x) = 0 <=> ~IsHeavy(x))
<1> DEFINE p == x[1]
           q == x[2]
           d == p \div q
           r == p % q
<1>1. p \in Nat /\ q \in Nat \ {0}
  BY DEF Fractions
<1> HIDE DEF p, q
<1>2. d \in Nat /\ r \in 0 .. (q - 1) /\ p = q * d + r
  BY <1>1, DivisorFacts
<1> HIDE DEF d, r
<1>3. d = 0 <=> ~ (p >= 1 * q)
  <2>1. d >= 1 => q * d >= q
    BY <1>1, <1>2
  <2>2. d = 0 => p = r
    BY <1>1, <1>2
  <2> QED
    BY <1>1, <1>2, <2>1, <2>2
<1> QED
  BY <1>2, <1>3 DEF Floor, IsHeavy, AtLeast, p, q, d

\* how Truncated adds the numbers v
Counts(f, K, v) ==
    f = [s \in SUBSET K |-> IF s = {} THEN 0 ELSE v[Pick(s)] + f[s \ {Pick(s)}]]

\* The sum of whole numbers over a set is the number of its blocks.
LEMMA CountsIsBlocks ==
    ASSUME NEW K, IsFiniteSet(K), NEW v \in [K -> Nat]
    PROVE  /\ \E f : Counts(f, K, v)
           /\ \A f : Counts(f, K, v) => f[K] = Cardinality(Blocks(K, v))
<1>1. Cardinality(Blocks({}, v)) = 0
  <2>1. Blocks({}, v) = {}
    BY DEF Blocks
  <2> QED  BY <2>1, FS_EmptySet
<1> DEFINE g == [s \in SUBSET K |-> Cardinality(Blocks(s, v))]
<1>2. \A s \in SUBSET K :
          g[s] = IF s = {} THEN 0 ELSE v[Pick(s)] + g[s \ {Pick(s)}]
  <2>1. \A s \in SUBSET K : s \ {Pick(s)} \in SUBSET K
    OBVIOUS
  <2>2. \A s \in SUBSET K : s # {} => Cardinality(Blocks(s, v))
                                = v[Pick(s)] + Cardinality(Blocks(s \ {Pick(s)}, v))
    BY BlocksFacts
  <2> QED
    BY <1>1, <2>1, <2>2
<1>3. g = [s \in SUBSET K |-> g[s]]
  OBVIOUS
<1>4. Counts(g, K, v)
  <2> HIDE DEF g
  <2> QED
    BY <1>2, <1>3 DEF Counts
<1>5. ASSUME NEW f, Counts(f, K, v)
      PROVE  f[K] = g[K]
  <2> DEFINE P == {s \in SUBSET K : f[s] = g[s]}
  <2> HIDE DEF g
  <2>1. \A s \in SUBSET K :
            f[s] = IF s = {} THEN 0 ELSE v[Pick(s)] + f[s \ {Pick(s)}]
    BY <1>5 DEF Counts
  <2>2. ASSUME NEW T \in SUBSET K, \A U \in SUBSET T : U # T => U \in P
        PROVE  T \in P
    <3>1. IsFiniteSet(T)
      BY FS_Subset
    <3>2. T # {} => f[T \ {Pick(T)}] = g[T \ {Pick(T)}]
      BY <2>2, <3>1, PickFacts
    <3> QED
      BY <1>2, <2>1, <3>2
  <2>3. \A T \in SUBSET K : T \in P
    <3> HIDE DEF P
    <3> QED
      BY <2>2, SubsetInduction
  <2> QED
    BY <2>3
<1> QED
  BY <1>4, <1>5

\* Hence the truncated sum of NodeDistance is a cardinality.
LEMMA TruncatedIsBlocks ==
    ASSUME NEW K, IsFiniteSet(K), NEW v \in [K -> Nat],
           \A k \in K : v[k] = Floor(weight[k])
    PROVE  Truncated(K) = Cardinality(Blocks(K, v))
<1> DEFINE Body(f) == [s \in SUBSET K |->
                     IF s = {} THEN 0
                     ELSE Floor(weight[CHOOSE x \in s : TRUE])
                              + f[s \ {CHOOSE x \in s : TRUE}]]
           f == CHOOSE f : f = Body(f)
<1>1. Truncated(K) = f[K]
  BY DEF Truncated, MapThenSumSet, MapThenFoldSet
<1>2. \A g : Counts(g, K, v) <=> g = Body(g)
  <2> SUFFICES ASSUME NEW g
               PROVE  Body(g) = [s \in SUBSET K |-> IF s = {} THEN 0
                                    ELSE v[Pick(s)] + g[s \ {Pick(s)}]]
    BY Zenon DEF Counts
  <2>1. \A s \in SUBSET K : s # {} => v[Pick(s)] = Floor(weight[Pick(s)])
    BY DEF Pick
  <2> QED
    BY <2>1 DEF Pick
<1>3. PICK g : g = Body(g)
  <2>1. PICK g : Counts(g, K, v)
    BY CountsIsBlocks
  <2> HIDE DEF Body
  <2> QED
    BY <1>2, <2>1
<1>4. f = Body(f)
  <2> HIDE DEF Body
  <2> QED
    BY <1>3, Zenon
<1>5. Counts(f, K, v)
  <2> HIDE DEF Body, f
  <2> QED
    BY <1>2, <1>4
<1> HIDE DEF f
<1> QED
  BY <1>1, <1>5, CountsIsBlocks

Heavy(k) == IsHeavy(weight[k])
HeavyOf(K) == {k \in K : Heavy(k)}
HeavyClasses(n) == HeavyOf(ChildClasses(n))

\* Only the heavy classes count in NodeDistance.
LEMMA TruncatedFacts ==
    ASSUME Weights, N \in Nat, NEW L \in SUBSET (1 .. N), NEW K \in SUBSET L
    PROVE  /\ Truncated(K) \in Nat
           /\ Truncated(K) = 0 <=> HeavyOf(K) = {}
           /\ Truncated(K) = Truncated(L) <=> HeavyOf(L) \subseteq K
<1> DEFINE v == [k \in L |-> Floor(weight[k])]
<1>1. IsFiniteSet(L)
  <2>1. IsFiniteSet(1 .. N)
    BY FS_Interval
  <2> QED  BY <2>1, FS_Subset
<1>2. \A k \in L : weight[k] \in Fractions
  BY DEF Weights
<1>3. \A k \in L : v[k] \in Nat /\ (v[k] = 0 <=> ~Heavy(k))
  BY <1>2, FloorFacts DEF Heavy
<1>4. v \in [L -> Nat]
  BY <1>3
<1>5. ASSUME NEW G \in SUBSET L
      PROVE  Truncated(G) = Cardinality(Blocks(G, v))
  <2> DEFINE u == [k \in G |-> Floor(weight[k])]
  <2>1. \A k \in G : u[k] = v[k] /\ u[k] = Floor(weight[k]) /\ u[k] \in Nat
    BY <1>3
  <2>2. u \in [G -> Nat] /\ IsFiniteSet(G)
    BY <1>1, <2>1, FS_Subset
  <2>3. Blocks(G, u) = Blocks(G, v)
    <3>1. \A b \in G \X Nat : u[b[1]] = v[b[1]]
      BY <2>1
    <3> HIDE DEF u, v
    <3> QED
      BY <3>1 DEF Blocks
  <2> HIDE DEF u, v
  <2>4. Truncated(G) = Cardinality(Blocks(G, u))
    BY <2>1, <2>2, TruncatedIsBlocks
  <2> QED
    BY <2>3, <2>4
<1> HIDE DEF v
<1>6. /\ Cardinality(Blocks(K, v)) \in Nat
      /\ Cardinality(Blocks(K, v)) = 0 <=> \A x \in K : v[x] = 0
      /\ Cardinality(Blocks(K, v)) = Cardinality(Blocks(L, v)) <=> \A x \in L \ K : v[x] = 0
  <2>1. Cardinality(Blocks(K, v)) \in Nat
    BY <1>1, <1>4, BlocksFacts
  <2>2. /\ Cardinality(Blocks(K, v)) = 0 <=> \A x \in K : v[x] = 0
        /\ Cardinality(Blocks(K, v)) = Cardinality(Blocks(L, v)) <=> \A x \in L \ K : v[x] = 0
    BY <1>1, <1>4, BlocksOrder, ZenonT(60)
  <2> QED
    BY <2>1, <2>2
<1>7. Truncated(K) = Cardinality(Blocks(K, v)) /\ Truncated(L) = Cardinality(Blocks(L, v))
  BY <1>5
<1>8. (\A x \in K : v[x] = 0) <=> HeavyOf(K) = {}
  BY <1>3 DEF HeavyOf
<1>9. (\A x \in L \ K : v[x] = 0) <=> HeavyOf(L) \subseteq K
  BY <1>3 DEF HeavyOf
<1> QED
  BY <1>6, <1>7, <1>8, <1>9

\* NodeDistance is 0 for the same heavy classes only, and 1 between a
\* directory that has heavy classes and one that has none.
LEMMA DistanceFacts ==
    ASSUME Weights, N \in Nat, NEW m, NEW n,
           ChildClasses(m) \in SUBSET (1 .. N), ChildClasses(n) \in SUBSET (1 .. N)
    PROVE  /\ NodeDistance(m, n) \in Fractions
           /\ HeavyClasses(m) # {} => (IsNull(NodeDistance(m, n))
                                          <=> HeavyClasses(m) = HeavyClasses(n))
           /\ ~ (HeavyClasses(m) = {} <=> HeavyClasses(n) = {})
                  => NodeDistance(m, n) = <<1, 1>>
<1> DEFINE A == ChildClasses(m)
           B == ChildClasses(n)
           D == SymmetricDifference(A, B)
           sum == Truncated(A \cup B)
           diff == Truncated(D)
<1>1. NodeDistance(m, n) = IF sum = 0 THEN Zero ELSE Fraction(diff, sum)
  BY DEF NodeDistance
<1>2. HeavyClasses(m) = HeavyOf(A) /\ HeavyClasses(n) = HeavyOf(B)
  BY DEF HeavyClasses
<1> HIDE DEF A, B
<1>3. A \cup B \in SUBSET (1 .. N) /\ D \in SUBSET (A \cup B)
  BY DEF A, B, SymmetricDifference
<1>4. /\ diff \in Nat /\ (diff = 0 <=> HeavyOf(D) = {})
      /\ diff = sum <=> HeavyOf(A \cup B) \subseteq D
  <2> HIDE DEF D
  <2> QED
    BY <1>3, TruncatedFacts
<1>5. sum \in Nat /\ (sum = 0 <=> HeavyOf(A \cup B) = {})
  BY <1>3, TruncatedFacts
<1>6. /\ HeavyOf(D) = {} <=> HeavyOf(A) = HeavyOf(B)
      /\ HeavyOf(A \cup B) = {} <=> HeavyOf(A) = {} /\ HeavyOf(B) = {}
      /\ ~ (HeavyOf(A) = {} <=> HeavyOf(B) = {}) => HeavyOf(A \cup B) \subseteq D
  BY DEF HeavyOf, SymmetricDifference
<1> HIDE DEF sum, diff, D
<1>7. Zero \in Fractions
  BY WholeFraction, FractionType DEF Zero
<1>8. sum # 0 => /\ Fraction(diff, sum) \in Fractions
                 /\ IsNull(Fraction(diff, sum)) <=> diff = 0
                 /\ Fraction(diff, sum) = <<1, 1>> <=> diff = sum
  BY <1>4, <1>5, FractionType, FractionAtLeast, Shares
<1> QED
  BY <1>1, <1>2, <1>4, <1>5, <1>6, <1>7, <1>8

-----------------------------------------------------------------------------
(* Directories that are the same *)

IsDirNode(n) == n \in 1 .. N /\ nodes[n].content = Dir

\* The class of a directory weighs something if one of the directory's does.
Standing ==
    \A n \in 1 .. N : IsDirNode(n) /\ eq[n] # 0 =>
        IF HeavyClasses(n) = {} THEN IsNull(weight[eq[n]]) ELSE Heavy(eq[n])

\* Directories with the same heavy classes are in the same class.
Together ==
    \A m, n \in 1 .. N :
        /\ IsDirNode(m) /\ IsDirNode(n) /\ eq[m] # 0 /\ eq[n] # 0
        /\ HeavyClasses(m) = HeavyClasses(n) /\ HeavyClasses(n) # {}
        => eq[m] = eq[n]

\* A class is named by a node that has a class.
NamesClassed == \A n \in 1 .. N : eq[n] # 0 => eq[eq[n]] # 0

\* Directories are classified after the files, the empty ones first.
DirsLater ==
    /\ phase \in {"scan", "files"} => \A n \in 1 .. N : IsDirNode(n) => eq[n] = 0
    /\ phase = "emptydirs" =>
           \A n \in 1 .. N : IsDirNode(n) /\ eq[n] # 0 => Children(n) = {}

Percentage == tolerance \in 1 .. 100

Alike ==
    /\ NamesClassed /\ DirsLater
    /\ Percentage => Standing /\ Together

\* Every class is heavy or null.
LEMMA ClassKind ==
    ASSUME Shape, FilesWeighed, Standing, NEW n \in 1 .. N, eq[n] # 0
    PROVE  Heavy(eq[n]) \/ IsNull(weight[eq[n]])
<1>1. CASE nodes[n].content = Dir
  BY <1>1 DEF Standing, IsDirNode
<1>2. CASE nodes[n].content # Dir
  <2>1. weight[eq[n]] = <<FileWeight(n), 1>>
    BY <1>2 DEF FilesWeighed, ClassifiedFile
  <2>2. FileWeight(n) \in Nat
    BY <1>2, FileWeightFacts DEF FileNodes
  <2> QED
    BY <2>1, <2>2 DEF Heavy, IsHeavy, AtLeast, IsNull
<1> QED
  BY <1>1, <1>2

\* So a directory that is ready is heavy or null, too.
LEMMA OwnKind ==
    ASSUME Shape, Counted, Weights, FilesWeighed, Standing,
           NEW n \in 1 .. N, Ready(n), nodes[n].content = Dir
    PROVE  IF HeavyClasses(n) = {} THEN IsNull(OwnWeight(n)) ELSE IsHeavy(OwnWeight(n))
<1> DEFINE K == ChildClasses(n)
<1>1. /\ K \in SUBSET (1 .. N) /\ IsFiniteSet(K)
      /\ \A c \in Children(n) : c \in 1 .. N /\ eq[c] # 0
  BY ReadyChildren DEF Ready
<1>2. OwnWeight(n) = SumOf(weight, K)
  BY DEF OwnWeight, SumOf, IsDir
<1>3. FractionsOn(weight, K)
  BY <1>1 DEF Weights, FractionsOn
<1>4. \A k \in K : Heavy(k) \/ IsNull(weight[k])
  <2> SUFFICES ASSUME NEW c \in Children(n)
               PROVE  Heavy(eq[c]) \/ IsNull(weight[eq[c]])
    BY DEF ChildClasses
  <2> QED
    BY <1>1, ClassKind
<1>5. HeavyClasses(n) = {k \in K : IsHeavy(weight[k])}
  BY DEF HeavyClasses, HeavyOf, Heavy
<1> HIDE DEF K
<1>6. /\ (\E k \in K : IsHeavy(weight[k])) => IsHeavy(OwnWeight(n))
      /\ (\A k \in K : IsNull(weight[k])) => IsNull(OwnWeight(n))
  BY <1>1, <1>2, <1>3, SumKind
<1> QED
  BY <1>4, <1>5, <1>6 DEF Heavy

\* A heavy directory goes to a heavy class, one that is null to a null class.
OfItsKind(n, k) == Members(k) = {} \/ (Heavy(k) <=> HeavyClasses(n) # {})

\* Then no class changes its kind, and no directory its heavy classes.
LEMMA KindsKept ==
    ASSUME Shape, Counted, Settled, Weights, FilesWeighed, Standing,
           NEW n \in 1 .. N, Ready(n), nodes[n].content = Dir,
           NEW k \in 1 .. N, AddNode(n, k), nodes' = nodes, OfItsKind(n, k)
    PROVE  /\ \A m \in 1 .. N : eq[m] # 0 \/ m = n => HeavyClasses(m)' = HeavyClasses(m)
           /\ Standing'
<1> DEFINE own == OwnWeight(n)
           c == Cardinality(Members(k))
<1>1. /\ N \in Nat /\ Node = 1 .. N /\ N' = N
      /\ eq' = [eq EXCEPT ![n] = k]
  BY NodeNumbers, AddNodeCounts
<1>2. \A m \in 1 .. N : eq'[m] = IF m = n THEN k ELSE eq[m]
  BY <1>1 DEF Shape
<1>3. /\ weight'[k] = Average(weight[k], c, own)
      /\ \A j \in 1 .. N : j # k => weight'[j] = weight[j]
  BY AddNodeWeighs
<1>4. IF HeavyClasses(n) = {} THEN IsNull(own) ELSE IsHeavy(own)
  BY OwnKind
<1>5. /\ c \in Nat /\ (c = 0 <=> Members(k) = {})
      /\ own \in Fractions /\ weight[k] \in Fractions
  BY MembersFinite, OwnWeightType DEF Weights
<1>6. \A x \in Fractions : ~ (IsHeavy(x) /\ IsNull(x))
  BY DEF Fractions, IsHeavy, IsNull, AtLeast
<1>7. Members(k) # {} => Heavy(k) \/ IsNull(weight[k])
  <2> SUFFICES ASSUME NEW m \in Members(k)  PROVE  Heavy(k) \/ IsNull(weight[k])
    OBVIOUS
  <2>1. m \in 1 .. N /\ eq[m] = k /\ eq[m] # 0
    BY <1>1 DEF Members
  <2> QED
    BY <2>1, ClassKind
<1> HIDE DEF own, c
<1>8. IF HeavyClasses(n) = {} THEN IsNull(weight'[k]) ELSE IsHeavy(weight'[k])
  <2>1. CASE HeavyClasses(n) = {}
    <3>1. c = 0 \/ IsNull(weight[k])
      BY <1>5, <1>7, <2>1 DEF OfItsKind
    <3> QED  BY <1>3, <1>4, <1>5, <2>1, <3>1, AverageKind
  <2>2. CASE HeavyClasses(n) # {}
    <3>1. c = 0 \/ IsHeavy(weight[k])
      BY <1>5, <2>2 DEF OfItsKind, Heavy
    <3> QED  BY <1>3, <1>4, <1>5, <2>2, <3>1, AverageKind
  <2> QED  BY <2>1, <2>2
<1>9. weight'[k] \in Fractions
  BY <1>3, <1>5, AverageType
<1>10. ASSUME NEW j \in 1 .. N, Members(j) # {}
       PROVE  /\ IsHeavy(weight'[j]) <=> IsHeavy(weight[j])
              /\ IsNull(weight'[j]) <=> IsNull(weight[j])
  <2>1. CASE j # k
    BY <1>3, <2>1
  <2>2. CASE j = k
    BY <1>5, <1>6, <1>7, <1>8, <1>9, <1>10, <2>2 DEF OfItsKind, Heavy
  <2> QED  BY <2>1, <2>2
<1>11. ASSUME NEW m \in 1 .. N, eq[m] # 0 \/ m = n
       PROVE  HeavyClasses(m)' = HeavyClasses(m)
  <2>1. notEval[m] = 0
    BY <1>11 DEF Settled, Ready
  <2>2. \A d \in Children(m) : d \in 1 .. N /\ eq[d] # 0
    BY <2>1, ReadyChildren
  <2>3. Children(m)' = Children(m)
    BY DEF Children, Node, Parent
  <2>4. \A d \in Children(m) : eq'[d] = eq[d] /\ eq[d] \in 1 .. N /\ Members(eq[d]) # {}
    <3> SUFFICES ASSUME NEW d \in Children(m)
                 PROVE  eq'[d] = eq[d] /\ eq[d] \in 1 .. N /\ Members(eq[d]) # {}
      OBVIOUS
    <3>1. d \in 1 .. N /\ eq[d] # 0 /\ d # n
      BY <2>2 DEF Ready
    <3>2. d \in Members(eq[d])
      BY <1>1, <3>1 DEF Members
    <3> QED  BY <1>2, <3>1, <3>2, ClassIsNode
  <2>5. ChildClasses(m)' = ChildClasses(m)
    BY <2>3, <2>4 DEF ChildClasses
  <2>6. \A j \in ChildClasses(m) : IsHeavy(weight'[j]) <=> IsHeavy(weight[j])
    BY <1>10, <2>4 DEF ChildClasses
  <2> QED
    BY <2>5, <2>6 DEF HeavyClasses, HeavyOf, Heavy
<1>12. ASSUME NEW m \in 1 .. N, nodes[m].content = Dir, eq'[m] # 0
       PROVE  IF HeavyClasses(m)' = {} THEN IsNull(weight'[eq'[m]])
              ELSE IsHeavy(weight'[eq'[m]])
  <2>1. CASE m = n
    BY <1>2, <1>8, <1>11, <2>1
  <2>2. CASE m # n
    <3>1. eq'[m] = eq[m] /\ eq[m] # 0
      BY <1>2, <1>12, <2>2
    <3>2. eq[m] \in 1 .. N /\ Members(eq[m]) # {}
      BY <1>1, <3>1, ClassIsNode DEF Members
    <3>3. IF HeavyClasses(m) = {} THEN IsNull(weight[eq[m]]) ELSE IsHeavy(weight[eq[m]])
      BY <1>12, <3>1 DEF Standing, IsDirNode, Heavy
    <3>4. HeavyClasses(m)' = HeavyClasses(m)
      BY <1>11, <3>1
    <3> QED  BY <1>10, <3>1, <3>2, <3>3, <3>4
  <2> QED  BY <2>1, <2>2
<1>13. Standing'
  BY <1>1, <1>12 DEF Standing, IsDirNode, Heavy
<1> QED
  BY <1>11, <1>13

\* A directory with a heavy class in common is a candidate.
LEMMA CommonClass ==
    ASSUME Shape, NEW n \in 1 .. N, NEW m \in 1 .. N, eq[n] = 0, eq[m] # 0,
           ChildClasses(m) \cap ChildClasses(n) # {}
    PROVE  m \in PossibleEquivalents(n)
<1>1. N \in Nat /\ Node = 1 .. N
  BY NodeNumbers
<1>2. PICK h \in ChildClasses(m) : h \in ChildClasses(n)
  OBVIOUS
<1>3. PICK c \in Children(n) : eq[c] = h
  BY <1>2 DEF ChildClasses
<1>4. PICK e \in Children(m) : eq[e] = h
  BY <1>2 DEF ChildClasses
<1>5. e \in Node /\ Parent(e) = m /\ Parent(c) = n /\ m # n /\ m # 0
  BY <1>1, <1>3, <1>4 DEF Children
<1>6. e \in Members(eq[c]) \ {c}
  BY <1>3, <1>4, <1>5 DEF Members
<1>7. e \in UNION {Members(eq[d]) \ {d} : d \in Children(n)}
  BY <1>3, <1>6
<1>8. m \in {Parent(x) : x \in UNION {Members(eq[d]) \ {d} : d \in Children(n)}}
  BY <1>5, <1>7
<1> QED
  BY <1>5, <1>8 DEF PossibleEquivalents, Evaluated

\* The class that an iteration of the loop puts n into: one of n's kind, and
\* that of every directory with the same heavy classes, should there be one.
LEMMA EvaluatedAlike ==
    ASSUME Bookkeeping, ByContent, Weighed, Alike, Percentage,
           NEW n \in 1 .. N, Evaluate(n)
    PROVE  \E k \in 1 .. N :
               /\ AddNode(n, k) /\ OfItsKind(n, k) /\ (k = n \/ eq[k] # 0)
               /\ \A m \in 1 .. N :
                      /\ IsDirNode(m) /\ eq[m] # 0
                      /\ HeavyClasses(m) = HeavyClasses(n) /\ HeavyClasses(n) # {}
                      => eq[m] = k
<1> DEFINE Same(m) == /\ m \in 1 .. N /\ IsDirNode(m) /\ eq[m] # 0
                      /\ HeavyClasses(m) = HeavyClasses(n) /\ HeavyClasses(n) # {}
           candidates == PossibleEquivalents(n)
<1>1. /\ N \in Nat /\ Node = 1 .. N /\ Shape /\ Counted /\ Settled /\ Weights /\ FilesWeighed
      /\ Standing /\ Together /\ NamesClassed
  BY NodeNumbers DEF Bookkeeping, Weighed, Alike
<1>2. Ready(n) /\ nodes[n].content = Dir
  BY DirJoins
<1>3. Members(n) = {}
  <2> SUFFICES ASSUME NEW m \in Members(n)  PROVE  FALSE
    OBVIOUS
  <2>1. m \in 1 .. N /\ eq[m] = n /\ n # 0
    BY <1>1 DEF Members
  <2> QED
    BY <1>1, <1>2, <2>1 DEF NamesClassed, Ready
<1>4. OfItsKind(n, n)
  BY <1>3 DEF OfItsKind
<1>5. ASSUME NEW m, Same(m)
      PROVE  m \in candidates
  <2>1. HeavyClasses(m) \subseteq ChildClasses(m) /\ HeavyClasses(n) \subseteq ChildClasses(n)
    BY DEF HeavyClasses, HeavyOf
  <2>2. ChildClasses(m) \cap ChildClasses(n) # {}
    BY <1>5, <2>1
  <2> QED
    BY <1>1, <1>2, <1>5, <2>2, CommonClass DEF Ready
<1>6. CASE candidates = {} /\ AddNode(n, n)
  <2>1. \A m \in 1 .. N : ~Same(m)
    BY <1>5, <1>6
  <2> HIDE DEF candidates
  <2> QED
    BY <1>4, <1>6, <2>1
<1>7. ASSUME NEW m \in Closest(n, candidates),
             IF Near(NodeDistance(n, m)) THEN AddNode(n, eq[m]) ELSE AddNode(n, n)
      PROVE  \E k \in 1 .. N :
               /\ AddNode(n, k) /\ OfItsKind(n, k) /\ (k = n \/ eq[k] # 0)
               /\ \A o \in 1 .. N : Same(o) => eq[o] = k
  <2>1. /\ m \in candidates
        /\ \A o \in candidates : ~Less(NodeDistance(n, o), NodeDistance(n, m))
    BY DEF Closest
  <2>2. m \in 1 .. N /\ eq[m] \in 1 .. N /\ nodes[m].content = Dir
    BY <1>1, <2>1, CandidateEvaluated
  <2>3. eq[m] # 0 /\ eq[eq[m]] # 0
    BY <1>1, <2>2 DEF NamesClassed
  <2>4. ASSUME NEW o \in 1 .. N, eq[o] # 0
        PROVE  ChildClasses(o) \in SUBSET (1 .. N)
    BY <1>1, <2>4, ReadyChildren DEF Settled
  <2>5. ChildClasses(n) \in SUBSET (1 .. N)
    BY <1>1, <1>2, ReadyChildren DEF Ready
  <2> DEFINE d == NodeDistance(n, m)
  <2>6. /\ d \in Fractions
        /\ HeavyClasses(n) # {} => (IsNull(d) <=> HeavyClasses(n) = HeavyClasses(m))
        /\ ~ (HeavyClasses(n) = {} <=> HeavyClasses(m) = {}) => d = <<1, 1>>
    BY <1>1, <2>2, <2>3, <2>4, <2>5, DistanceFacts
  <2>7. ASSUME NEW o \in 1 .. N, Same(o)
        PROVE  Near(d) /\ eq[o] = eq[m]
    <3> DEFINE z == NodeDistance(n, o)
    <3>1. o \in candidates
      BY <1>5, <2>7
    <3>2. z \in Fractions /\ IsNull(z)
      BY <1>1, <2>4, <2>5, <2>7, DistanceFacts
    <3>3. ~Less(z, d)
      BY <2>1, <3>1
    <3> HIDE DEF z, d
    <3>4. IsNull(d)
      <4>1. d[1] \in Nat /\ d[2] \in Nat \ {0} /\ z[1] = 0 /\ z[2] \in Nat \ {0}
        BY <2>6, <3>2 DEF Fractions, IsNull
      <4>2. ~ (0 * d[2] < d[1] * z[2])
        BY <3>3, <4>1 DEF Less
      <4> QED
        BY <4>1, <4>2 DEF IsNull
    <3>5. HeavyClasses(m) = HeavyClasses(o)
      BY <2>6, <2>7, <3>4
    <3>6. eq[o] = eq[m]
      BY <1>1, <2>2, <2>3, <2>7, <3>5 DEF Together, IsDirNode
    <3>7. Near(d)
      <4>1. d[1] = 0 /\ d[2] \in Nat \ {0} /\ tolerance \in Nat \ {0}
        BY <2>6, <3>4 DEF IsNull, Fractions, Percentage
      <4>2. 0 * 100 < tolerance * d[2]
        BY <4>1
      <4> QED
        BY <4>1, <4>2 DEF Near, Less
    <3> QED
      BY <3>6, <3>7
  <2>8. CASE Near(d)
    <3>1. AddNode(n, eq[m])
      BY <1>7, <2>8
    <3>2. d # <<1, 1>>
      <4>1. ASSUME d = <<1, 1>>  PROVE  FALSE
        <5>1. d[1] = 1 /\ d[2] = 1
          BY <4>1
        <5>2. 1 * 100 < tolerance * 1
          BY <2>8, <5>1 DEF Near, Less
        <5> QED
          BY <5>2 DEF Percentage
      <4> QED  BY <4>1
    <3>3. HeavyClasses(n) = {} <=> HeavyClasses(m) = {}
      BY <2>6, <3>2
    <3>4. Heavy(eq[m]) <=> HeavyClasses(m) # {}
      <4>1. IF HeavyClasses(m) = {} THEN IsNull(weight[eq[m]]) ELSE Heavy(eq[m])
        BY <1>1, <2>2, <2>3 DEF Standing, IsDirNode
      <4>2. weight[eq[m]] \in Fractions
        BY <1>1, <2>2 DEF Weights
      <4>3. ~ (Heavy(eq[m]) /\ IsNull(weight[eq[m]]))
        BY <4>2 DEF Fractions, Heavy, IsHeavy, IsNull, AtLeast
      <4> QED  BY <4>1, <4>3
    <3>5. OfItsKind(n, eq[m])
      BY <3>3, <3>4 DEF OfItsKind
    <3> HIDE DEF d, candidates
    <3> QED
      BY <2>2, <2>3, <2>7, <3>1, <3>5
  <2>9. CASE ~Near(d)
    <3>1. AddNode(n, n)
      BY <1>7, <2>9
    <3>2. \A o \in 1 .. N : ~Same(o)
      BY <2>7, <2>9
    <3> HIDE DEF d, candidates
    <3> QED
      BY <1>4, <3>1, <3>2
  <2> QED
    BY <2>8, <2>9
<1>8. \/ candidates = {} /\ AddNode(n, n)
      \/ \E m \in Closest(n, candidates) :
             IF Near(NodeDistance(n, m)) THEN AddNode(n, eq[m]) ELSE AddNode(n, n)
  BY DEF Evaluate
<1> HIDE DEF candidates
<1> QED
  BY <1>6, <1>7, <1>8

\* Whoever joins a class joins one whose name has a class, or names its own.
LEMMA NamesKept ==
    ASSUME Shape, Counted, Settled, NamesClassed, NEW n \in 1 .. N, Ready(n),
           NEW k \in 1 .. N, AddNode(n, k), nodes' = nodes, k = n \/ eq[k] # 0
    PROVE  NamesClassed'
<1>1. /\ N \in Nat /\ N' = N /\ eq' = [eq EXCEPT ![n] = k]
  BY NodeNumbers, AddNodeCounts
<1>2. k # 0 /\ \A m \in 1 .. N : eq'[m] = IF m = n THEN k ELSE eq[m]
  BY <1>1 DEF Shape
<1>3. ASSUME NEW m \in 1 .. N, eq'[m] # 0  PROVE  eq'[eq'[m]] # 0
  <2>1. CASE m = n
    BY <1>2, <2>1
  <2>2. CASE m # n
    <3>1. eq'[m] = eq[m] /\ eq[m] # 0
      BY <1>2, <1>3, <2>2
    <3>2. eq[m] \in 1 .. N /\ eq[eq[m]] # 0
      BY <3>1, ClassIsNode DEF NamesClassed
    <3> QED  BY <1>2, <3>1, <3>2
  <2> QED  BY <2>1, <2>2
<1> QED
  BY <1>1, <1>3 DEF NamesClassed

\* The empty directories are all of the first one's class, and weigh nothing.
LEMMA EmptyAlike ==
    ASSUME Bookkeeping, ByContent, Weighed, Alike,
           NEW n \in 1 .. N, ClassifyEmptyDir(n)
    PROVE  /\ Children(n) = {} /\ HeavyClasses(n) = {}
           /\ \E k \in 1 .. N :
                  /\ AddNode(n, k) /\ (k = n \/ eq[k] # 0)
                  /\ Percentage => OfItsKind(n, k)
<1> DEFINE empty == {m \in Node : IsEmptyDir(m)}
           k == Min(empty)
<1>1. N \in Nat /\ Node = 1 .. N /\ Shape /\ Weights
  BY NodeNumbers DEF Bookkeeping, Weighed
<1>2. /\ phase = "emptydirs" /\ IsEmptyDir(n) /\ AddNode(n, k)
      /\ \A m \in Node : m < n => ~IsEmptyDir(m) \/ Evaluated(m)
  BY DEF ClassifyEmptyDir
<1>3. Children(n) = {} /\ HeavyClasses(n) = {}
  BY <1>2 DEF IsEmptyDir, HeavyClasses, HeavyOf, ChildClasses
<1>4. empty \in SUBSET (1 .. N) /\ n \in empty
  BY <1>1, <1>2
<1>5. k \in empty /\ k <= n
  <2> HIDE DEF empty
  <2> QED  BY <1>1, <1>4, MinIsSmallest
<1>6. k \in 1 .. N /\ IsEmptyDir(k)
  BY <1>1, <1>5
<1> HIDE DEF k
<1>7. k = n \/ eq[k] # 0
  BY <1>1, <1>2, <1>5, <1>6 DEF Evaluated
<1>8. ASSUME Percentage, Members(k) # {}  PROVE  ~Heavy(k)
  <2>1. PICK m \in 1 .. N : eq[m] = k
    BY <1>1, <1>8 DEF Members
  <2>2. eq[m] # 0 /\ nodes[k].content = Dir
    BY <1>6, <2>1 DEF IsEmptyDir, IsDir
  <2>3. nodes[m].content = Dir
    BY <2>1, <2>2 DEF ByContent, NamedByContent
  <2>4. Children(m) = {}
    BY <1>2, <2>2, <2>3 DEF Alike, DirsLater, IsDirNode
  <2>5. HeavyClasses(m) = {}
    BY <2>4 DEF HeavyClasses, HeavyOf, ChildClasses
  <2>6. IsNull(weight[k])
    BY <1>8, <2>1, <2>2, <2>3, <2>5 DEF Alike, Standing, IsDirNode
  <2>7. weight[k] \in Fractions
    BY <1>1, <1>6 DEF Weights
  <2> QED
    BY <2>6, <2>7 DEF Fractions, Heavy, IsHeavy, IsNull, AtLeast
<1>9. Percentage => OfItsKind(n, k)
  BY <1>3, <1>8 DEF OfItsKind
<1> QED
  BY <1>2, <1>3, <1>6, <1>7, <1>9

\* An iteration of the loop joins a class that has a name, whatever the tolerance.
LEMMA EvaluatedNamed ==
    ASSUME Bookkeeping, ByContent, Weighed, Alike, NEW n \in 1 .. N, Evaluate(n)
    PROVE  NamesClassed'
<1>1. Shape /\ Counted /\ Settled /\ NamesClassed
  BY DEF Bookkeeping, Alike
<1>2. nodes' = nodes /\ Ready(n) /\ phase \in {"emptydirs", "propagate"}
  BY DirJoins
<1>3. Lists(queue, ReadyNodes)
  BY <1>2 DEF Bookkeeping, Evaluate
<1>4. CASE AddNode(n, n)
  BY <1>1, <1>2, <1>4, NamesKept
<1>5. ASSUME NEW m \in 1 .. N, eq[m] \in 1 .. N, AddNode(n, eq[m])  PROVE  NamesClassed'
  <2>1. eq[eq[m]] # 0
    BY <1>1, <1>5 DEF NamesClassed
  <2> QED  BY <1>1, <1>2, <1>5, <2>1, NamesKept
<1> QED
  BY <1>1, <1>3, <1>4, <1>5, DirClass

\* A directory that joins a class of its kind, and that of the directories like
\* it, leaves the directories standing and together.
LEMMA JoinsAlike ==
    ASSUME Bookkeeping, Weighed, Alike, Percentage,
           NEW n \in 1 .. N, Ready(n), nodes[n].content = Dir,
           NEW k \in 1 .. N, AddNode(n, k), nodes' = nodes, OfItsKind(n, k),
           \A m \in 1 .. N :
               /\ IsDirNode(m) /\ eq[m] # 0
               /\ HeavyClasses(m) = HeavyClasses(n) /\ HeavyClasses(n) # {}
               => eq[m] = k
    PROVE  Standing' /\ Together'
<1>1. /\ Shape /\ Counted /\ Settled /\ Weights /\ FilesWeighed /\ Standing /\ Together
  BY DEF Bookkeeping, Weighed, Alike
<1>2. /\ N' = N /\ eq' = [eq EXCEPT ![n] = k]
  BY <1>1, AddNodeCounts
<1>3. \A m \in 1 .. N : eq'[m] = IF m = n THEN k ELSE eq[m]
  BY <1>1, <1>2 DEF Shape
<1>4. /\ \A m \in 1 .. N : eq[m] # 0 \/ m = n => HeavyClasses(m)' = HeavyClasses(m)
      /\ Standing'
  BY <1>1, KindsKept
<1>5. ASSUME NEW m \in 1 .. N, NEW o \in 1 .. N, IsDirNode(m), IsDirNode(o),
             eq'[m] # 0, eq'[o] # 0, HeavyClasses(m)' = HeavyClasses(o)',
             HeavyClasses(o)' # {}
      PROVE  eq'[m] = eq'[o]
  <2>1. (eq[m] # 0 \/ m = n) /\ (eq[o] # 0 \/ o = n)
    BY <1>3, <1>5
  <2>2. HeavyClasses(m) = HeavyClasses(o) /\ HeavyClasses(o) # {}
    BY <1>4, <1>5, <2>1
  <2>3. CASE m # n /\ o # n
    BY <1>1, <1>3, <1>5, <2>1, <2>2, <2>3 DEF Together
  <2>4. CASE m = n \/ o = n
    BY <1>3, <1>5, <2>1, <2>2, <2>4
  <2> QED
    BY <2>3, <2>4
<1>6. \A m : IsDirNode(m)' <=> IsDirNode(m)
  BY <1>2 DEF IsDirNode
<1>7. Together'
  BY <1>2, <1>5, <1>6 DEF Together
<1> QED
  BY <1>4, <1>7

\* Every step keeps the directories alike.
LEMMA AlikeStep ==
    Bookkeeping /\ ByContent /\ Weighed /\ Alike /\ [Next]_vars => Alike'
<1> SUFFICES ASSUME Bookkeeping, ByContent, Weighed, Alike, [Next]_vars
             PROVE  Alike'
  OBVIOUS
<1>1. N \in Nat /\ Node = 1 .. N /\ Shape /\ Counted /\ Settled
  BY NodeNumbers DEF Bookkeeping
<1>2. tolerance' = tolerance
  BY DEF Next, vars, RootDir, SubDir, File, Created, ScanEnd, ClassifyFile, ClassifyFrame,
         FilesEnd, ClassifyEmptyDir, GetNodesReadyToEval, Evaluate, PropagateEnd,
         CalculateUniqueness, Done
<1>3. Percentage' <=> Percentage
  BY <1>2 DEF Percentage
<1>4. CASE \/ RootDir
           \/ \E n \in 1 .. N : SubDir(n) \/ \E c \in Content : File(n, c)
  <2>1. phase' = "scan"
    BY <1>4 DEF RootDir, SubDir, File, Created
  <2>2. Next
    BY <1>1, <1>4 DEF Next
  <2>3. Fresh'
    BY <2>1, <2>2, BookkeepingStep DEF Bookkeeping
  <2>4. NamesClassed' /\ Standing' /\ Together'
    BY <2>3 DEF Fresh, NamesClassed, Standing, Together
  <2>5. DirsLater'
    BY <2>1, <2>3 DEF Fresh, DirsLater
  <2> QED
    BY <2>4, <2>5 DEF Alike
<1>5. ASSUME NEW n \in 1 .. N, ClassifyFile(n)  PROVE  Alike'
  <2>1. phase = "files" /\ phase' = "files" /\ nodes' = nodes
    BY <1>5 DEF ClassifyFile, ClassifyFrame, tree
  <2>2. Ready(n) /\ nodes[n].content # Dir
    BY <1>1, <1>5, FileClass
  <2>3. PICK k \in 1 .. N : AddNode(n, k) /\ (k = n \/ eq[k] # 0)
    <3>1. CASE AddNode(n, n)
      BY <3>1
    <3>2. ASSUME NEW m \in 1 .. n - 1, eq[m] \in 1 .. N, AddNode(n, eq[m])
          PROVE  \E k \in 1 .. N : AddNode(n, k) /\ (k = n \/ eq[k] # 0)
      <4>1. m \in 1 .. N /\ eq[m] # 0
        BY <1>1, <3>2
      <4>2. eq[eq[m]] # 0
        BY <4>1 DEF Alike, NamesClassed
      <4> QED  BY <3>2, <4>2
    <3> QED
      BY <1>1, <1>5, <3>1, <3>2, FileClass
  <2>4. NamesClassed'
    BY <1>1, <2>1, <2>2, <2>3, NamesKept DEF Alike
  <2>5. N' = N /\ eq' = [eq EXCEPT ![n] = k]
    BY <1>1, <2>1, <2>2, <2>3, AddNodeCounts
  <2>6. \A m \in 1 .. N : IsDirNode(m)' => eq'[m] = 0
    <3> SUFFICES ASSUME NEW m \in 1 .. N, nodes[m].content = Dir  PROVE  eq'[m] = 0
      BY <2>1 DEF IsDirNode
    <3>1. m # n /\ eq[m] = 0
      BY <2>1, <2>2 DEF Alike, DirsLater, IsDirNode
    <3> QED  BY <1>1, <2>5, <3>1 DEF Shape
  <2>7. Standing' /\ Together' /\ DirsLater'
    BY <2>1, <2>5, <2>6 DEF Standing, Together, DirsLater
  <2> QED
    BY <2>4, <2>7 DEF Alike
<1>6. ASSUME NEW n \in 1 .. N, ClassifyEmptyDir(n)  PROVE  Alike'
  <2>1. /\ phase = "emptydirs" /\ phase' = phase /\ nodes' = nodes
        /\ Ready(n) /\ nodes[n].content = Dir
    BY <1>6, DirJoins DEF ClassifyEmptyDir
  <2>2. Children(n) = {} /\ HeavyClasses(n) = {}
    BY <1>6, EmptyAlike
  <2>3. PICK k \in 1 .. N : /\ AddNode(n, k) /\ (k = n \/ eq[k] # 0)
                            /\ Percentage => OfItsKind(n, k)
    BY <1>6, EmptyAlike
  <2>4. NamesClassed'
    BY <1>1, <2>1, <2>3, NamesKept DEF Alike
  <2>5. N' = N /\ eq' = [eq EXCEPT ![n] = k]
    BY <1>1, <2>1, <2>3, AddNodeCounts
  <2>6. \A m : Children(m)' = Children(m)
    BY <2>1 DEF Children, Node, Parent
  <2>7. DirsLater'
    <3> SUFFICES ASSUME NEW m \in 1 .. N, nodes[m].content = Dir, eq'[m] # 0
                 PROVE  Children(m) = {}
      BY <2>1, <2>5, <2>6 DEF DirsLater, IsDirNode
    <3>1. m = n \/ eq[m] # 0
      BY <1>1, <2>5 DEF Shape
    <3> QED  BY <2>1, <2>2, <3>1 DEF Alike, DirsLater, IsDirNode
  <2>8. Percentage => Standing' /\ Together'
    BY <2>1, <2>2, <2>3, JoinsAlike
  <2> QED
    BY <1>3, <2>4, <2>7, <2>8 DEF Alike
<1>7. ASSUME NEW n \in 1 .. N, Evaluate(n)  PROVE  Alike'
  <2>1. phase' = "propagate" /\ nodes' = nodes /\ Ready(n) /\ nodes[n].content = Dir
    BY <1>7, DirJoins DEF Evaluate
  <2>2. NamesClassed'
    BY <1>7, EvaluatedNamed
  <2>3. ASSUME Percentage  PROVE  Standing' /\ Together'
    BY <1>7, <2>1, <2>3, EvaluatedAlike, JoinsAlike
  <2>4. DirsLater'
    BY <2>1 DEF DirsLater
  <2> QED
    BY <1>3, <2>2, <2>3, <2>4 DEF Alike
<1>8. CASE \/ ScanEnd \/ FilesEnd \/ GetNodesReadyToEval
           \/ PropagateEnd \/ CalculateUniqueness \/ UNCHANGED vars
  <2>1. UNCHANGED <<nodes, eq, weight>>
    BY <1>8 DEF ScanEnd, FilesEnd, GetNodesReadyToEval, PropagateEnd,
                CalculateUniqueness, vars, tree, classes
  <2>2. N' = N /\ \A m : IsDirNode(m)' <=> IsDirNode(m)
    BY <2>1 DEF N, IsDirNode
  <2>3. \A m : /\ HeavyClasses(m)' = HeavyClasses(m) /\ Children(m)' = Children(m)
               /\ Heavy(m)' <=> Heavy(m)
    BY <2>1 DEF HeavyClasses, HeavyOf, Heavy, ChildClasses, Children, Node, Parent
  <2>4. NamesClassed'
    BY <2>1, <2>2 DEF Alike, NamesClassed
  <2>5. Percentage => Standing' /\ Together'
    BY <2>1, <2>2, <2>3 DEF Alike, Standing, Together
  <2>6. DirsLater'
    <3>1. CASE FilesEnd
      BY <2>1, <2>2, <2>3, <3>1 DEF FilesEnd, Alike, DirsLater
    <3>2. CASE ScanEnd
      BY <2>1, <2>2, <2>3, <3>2 DEF ScanEnd, Alike, DirsLater
    <3>3. CASE UNCHANGED vars
      BY <2>1, <2>2, <2>3, <3>3 DEF vars, Alike, DirsLater
    <3>4. CASE GetNodesReadyToEval \/ PropagateEnd \/ CalculateUniqueness
      BY <3>4 DEF GetNodesReadyToEval, PropagateEnd, CalculateUniqueness, DirsLater
    <3> QED  BY <1>8, <3>1, <3>2, <3>3, <3>4
  <2> QED
    BY <1>3, <2>4, <2>5, <2>6 DEF Alike
<1> QED
  BY <1>1, <1>4, <1>5, <1>6, <1>7, <1>8 DEF Next, Done


\* README.md's "becomes 0 for identical directories" carries over to the classes:
\* whatever the tree and the order of evaluation, two directories with the same
\* classes of entries, not all of weight 0, end up in the same class.  The
\* tolerance is a percentage, so that a directory gets through only if something
\* of it is shared.  conf.cpp:67 takes any int, and above 100 percent this is
\* false: a directory that weighs nothing may join a class that weighs
\* something, lower its average below 1, and with it the distance between
\* directories that are not alike.
THEOREM Identical == Spec => []IdenticalTogether
<1>1. Init => Alike
  <2> SUFFICES ASSUME Init  PROVE  Alike
    OBVIOUS
  <2>1. N = 0
    BY EmptySeq DEF Init, N
  <2>2. 1 .. N = {}
    BY <2>1
  <2> QED
    BY <2>2 DEF Alike, NamesClassed, DirsLater, Standing, Together
<1>2. Result /\ Alike => IdenticalTogether
  <2> SUFFICES ASSUME Result, Alike, phase = "done", tolerance \in 1 .. 100,
                      NEW m \in Node, NEW n \in Node, IsDir(m), IsDir(n),
                      ChildClasses(m) = ChildClasses(n), Truncated(ChildClasses(m)) > 0
               PROVE  eq[m] = eq[n]
    BY DEF IdenticalTogether
  <2>1. /\ N \in Nat /\ Node = 1 .. N /\ Shape /\ Counted /\ Settled /\ Weights
    BY NodeNumbers DEF Result, Bookkeeping, Weighed
  <2>2. Percentage /\ Together
    BY DEF Result, Reckoned, Percentage, Alike
  <2>3. eq[m] # 0 /\ eq[n] # 0
    BY <2>1, ResultClassed DEF AllClassed
  <2>4. ChildClasses(n) \in SUBSET (1 .. N)
    BY <2>1, <2>3, ReadyChildren DEF Settled
  <2>5. HeavyClasses(m) = HeavyClasses(n)
    BY DEF HeavyClasses
  <2>6. HeavyClasses(n) # {}
    BY <2>1, <2>4, TruncatedFacts DEF HeavyClasses
  <2> QED
    BY <2>1, <2>2, <2>3, <2>5, <2>6 DEF Together, IsDirNode, IsDir
<1>3. Result /\ Alike /\ [Next]_vars => Alike'
  BY AlikeStep DEF Result
<1> QED
  BY <1>1, <1>2, <1>3, ResultInvariant, PTL DEF Spec
=============================================================================
