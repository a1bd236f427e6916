------------------------------- MODULE FileTree -------------------------------
(***************************************************************************)
(* Node and EqClass of file_tree.h: the tree of the scanned files and       *)
(* directories and the partition of its nodes into equivalence classes.     *)
(*                                                                         *)
(* A node is a number, in the order of creation; 0 is nullptr.  A class is   *)
(* named by the node it was created for.  A double is an exact fraction,     *)
(* lowest terms, and the uint64_t sums of NodeDistance are integers.        *)
(***************************************************************************)
EXTENDS Integers, Sequences, FiniteSets, FiniteSetsExt, SequencesExt

CONSTANTS Content,  \* what a file can contain: its Cksum
          Size,     \* and its size
          Dir       \* in the place of the content of a directory

ASSUME SizeAssumption == Size \in [Content -> Nat]
ASSUME DirAssumption == Dir \notin Content

VARIABLES nodes,     \* sequence of [parent, content] records
          eq,        \* eq_class_ of each node
          weight,    \* weight_ of each class
          notEval,   \* not_evaluated_children_ of each node
          use_size   \* Conf().use_size_

tree == <<nodes, use_size>>
classes == <<eq, weight, notEval>>

Node == DOMAIN nodes
Parent(n) == nodes[n].parent
IsDir(n) == nodes[n].content = Dir
Children(n) == {c \in Node : Parent(c) = n}
Evaluated(n) == eq[n] # 0
Members(k) == {n \in Node : eq[n] = k}
IsSingle(k) == Cardinality(Members(k)) = 1
ChildClasses(n) == {eq[c] : c \in Children(n)}

\* Fractions
Fraction(a, b) ==
    LET g == Max({d \in 1 .. b : a % d = 0 /\ b % d = 0})
    IN  <<a \div g, b \div g>>
Plus(x, y) == Fraction(x[1] * y[2] + y[1] * x[2], x[2] * y[2])
Less(x, y) == x[1] * y[2] < y[1] * x[2]
Floor(x) == x[1] \div x[2]
Zero == <<0, 1>>
Fractions == {x \in Nat \X (Nat \ {0}) : \A d \in 2 .. x[2] : x[1] % d # 0 \/ x[2] % d # 0}

\* Faulty variants for mutation testing: no specification uses them.
BadUncounted(n) == notEval' = notEval              \* the parent is not told
BadAddChild(p, content) ==                         \* the child is not counted
    /\ nodes' = Append(nodes, [parent |-> p, content |-> content])
    /\ eq' = Append(eq, 0)
    /\ weight' = Append(weight, Zero)
    /\ notEval' = Append(notEval, 0)

-----------------------------------------------------------------------------
\* GetWeight of a node that is not evaluated yet
OwnWeight(n) ==
    IF IsDir(n)
    THEN FoldSet(LAMBDA k, sum : Plus(weight[k], sum), Zero, ChildClasses(n))
    ELSE IF use_size THEN <<Size[nodes[n].content], 1>> ELSE <<1, 1>>

\* SetEqClass, as far as the parent is concerned
Uncounted(n) ==
    notEval' = IF Parent(n) = 0 THEN notEval
               ELSE [notEval EXCEPT ![Parent(n)] = @ - 1]

\* EqClass::AddNode: the class's weight is the average of its nodes' weights
\* at the time they join
AddNode(n, k) ==
    LET size == Cardinality(Members(k)) + 1
        total == Plus(Fraction(weight[k][1] * (size - 1), weight[k][2]), OwnWeight(n))
    IN  /\ weight' = [weight EXCEPT ![k] = Fraction(total[1], total[2] * size)]
        /\ eq' = [eq EXCEPT ![n] = k]
        /\ Uncounted(n)

\* AddChild, together with the construction of the child
AddChild(p, content) ==
    /\ nodes' = Append(nodes, [parent |-> p, content |-> content])
    /\ eq' = Append(eq, 0)
    /\ weight' = Append(weight, Zero)
    /\ notEval' = Append(IF p = 0 THEN notEval ELSE [notEval EXCEPT ![p] = @ + 1], 0)

IsReady(n) == notEval[n] = 0

\* the evaluated parents of the nodes that are equivalent to a child of n
PossibleEquivalents(n) ==
    LET equivalents(c) == Members(eq[c]) \ {c}
        parents == {Parent(e) : e \in UNION {equivalents(c) : c \in Children(n)}}
    IN  {p \in parents \ {0, n} : Evaluated(p)}

SymmetricDifference(A, B) == (A \ B) \cup (B \ A)

\* the weight of a set of classes, every one of them truncated when it is
\* added to an uint64_t
Truncated(K) == MapThenSumSet(LAMBDA k : Floor(weight[k]), K)

NodeDistance(m, n) ==
    LET A == ChildClasses(m)
        B == ChildClasses(n)
        sum == Truncated(A \cup B)
    IN  IF sum = 0 THEN Zero
        ELSE Fraction(Truncated(SymmetricDifference(A, B)), sum)

\* the files below n, or n itself
Files ==
    LET f[n \in Node] == IF IsDir(n) THEN UNION {f[c] : c \in Children(n)} ELSE {n}
    IN  f
=============================================================================
