--------------------------- MODULE SequenceLemmas ---------------------------
(***************************************************************************)
(* What the operators of SequencesExt that the specifications are built     *)
(* from return: SetToSeq and FlattenSeq, and the range of a sequence.       *)
(*                                                                         *)
(* The induction theorems of the library have an operator as a parameter.   *)
(* Here the induction is over a set of cases, by a minimal counterexample   *)
(* of the strict subset ordering of finite sets.                            *)
(***************************************************************************)
EXTENDS SequencesExt, SequenceTheorems, FiniteSetTheorems, TLAPS

\* A sequence, whatever its elements are
IsSeq(s) == s \in Seq(Range(s))

-----------------------------------------------------------------------------
(* Induction *)

\* A property of the empty set that adding an element preserves is one of
\* every finite set.
LEMMA FiniteInduction ==
    ASSUME NEW S, IsFiniteSet(S), NEW P, {} \in P,
           \A T \in SUBSET S : T \in P => \A x \in S \ T : T \cup {x} \in P
    PROVE  S \in P
<1> SUFFICES ASSUME S \notin P PROVE FALSE
  OBVIOUS
<1> DEFINE Q == {T \in SUBSET S : T \notin P}
<1>1. IsWellFoundedOn(StrictSubsetOrdering(S), FiniteSubsetsOf(S))
  BY FS_StrictSubsetOrderingWellFounded
<1>2. Q \subseteq FiniteSubsetsOf(S) /\ Q # {}
  BY FS_Subset DEF FiniteSubsetsOf
<1>3. PICK T \in Q : \A U \in Q : <<U, T>> \notin StrictSubsetOrdering(S)
  <2> HIDE DEF Q
  <2> QED
    BY <1>1, <1>2, WFMin
<1>4. PICK x \in T : TRUE
  OBVIOUS
<1>5. T \ {x} \in SUBSET S /\ T \ {x} # T /\ T = (T \ {x}) \cup {x}
  BY <1>4
<1>6. T \ {x} \in P
  BY <1>3, <1>5 DEF StrictSubsetOrdering
<1> QED
  BY <1>3, <1>4, <1>5, <1>6

\* A property of 0 that passes from each number below n to the next is one of
\* every number up to n.
LEMMA IntervalInduction ==
    ASSUME NEW n \in Nat, NEW P, 0 \in P,
           \A i \in 0..n : i \in P /\ i < n => i + 1 \in P
    PROVE  \A i \in 0..n : i \in P
<1> SUFFICES ASSUME NEW m \in 0..n, m \notin P PROVE FALSE
  OBVIOUS
<1> DEFINE Q == {0..i : i \in {j \in 0..n : j \notin P}}
<1>1. IsWellFoundedOn(StrictSubsetOrdering(Nat), FiniteSubsetsOf(Nat))
  BY FS_StrictSubsetOrderingWellFounded
<1>2. Q \subseteq FiniteSubsetsOf(Nat) /\ Q # {}
  <2>1. \A i \in 0..n : 0..i \in SUBSET Nat /\ IsFiniteSet(0..i)
    BY FS_Interval
  <2>2. 0..m \in Q
    OBVIOUS
  <2> QED
    BY <2>1, <2>2 DEF FiniteSubsetsOf
<1>3. PICK T \in Q : \A U \in Q : <<U, T>> \notin StrictSubsetOrdering(Nat)
  <2> HIDE DEF Q
  <2> QED
    BY <1>1, <1>2, WFMin
<1>4. PICK k \in 0..n : T = 0..k /\ k \notin P
  BY <1>3
<1>5. k # 0 /\ k - 1 \in 0..n /\ k - 1 < n
  BY <1>4
<1>6. k - 1 \notin P
  BY <1>4, <1>5
<1>7. <<0..(k - 1), 0..k>> \in StrictSubsetOrdering(Nat)
  <2>1. 0..(k - 1) \subseteq 0..k /\ k \notin 0..(k - 1) /\ k \in 0..k
    BY <1>5
  <2> QED
    BY <2>1, <1>5 DEF StrictSubsetOrdering
<1> QED
  BY <1>3, <1>4, <1>5, <1>6, <1>7

-----------------------------------------------------------------------------
(* The range of a sequence *)

LEMMA IsSeqFacts ==
    ASSUME NEW s, IsSeq(s)
    PROVE  /\ Len(s) \in Nat /\ DOMAIN s = 1..Len(s)
           /\ Range(s) = {s[i] : i \in 1..Len(s)}
           /\ s = <<>> <=> Range(s) = {}
BY LenProperties DEF IsSeq, Range

LEMMA SeqIsSeq ==
    ASSUME NEW S, NEW s \in Seq(S)
    PROVE  IsSeq(s) /\ Range(s) \subseteq S
BY SeqOfRange, RangeOfSeq DEF IsSeq

LEMMA FunctionIsSeq ==
    ASSUME NEW n \in Nat, NEW S, NEW s \in [1..n -> S]
    PROVE  IsSeq(s) /\ Len(s) = n /\ s \in Seq(S)
<1>1. s \in Seq(S)
  BY SeqDef
<1> QED
  BY <1>1, SeqIsSeq, LenProperties

LEMMA TailRange ==
    ASSUME NEW s, IsSeq(s), s # <<>>
    PROVE  /\ IsSeq(Tail(s)) /\ Head(s) = s[1]
           /\ Range(s) = {Head(s)} \cup Range(Tail(s))
           /\ Len(Tail(s)) = Len(s) - 1 /\ Len(s) \in Nat \ {0}
           /\ \A i \in 1..Len(Tail(s)) : Tail(s)[i] = s[i + 1]
<1> DEFINE S == Range(s)
<1>1. s \in Seq(S)
  BY DEF IsSeq
<1>2. /\ Tail(s) \in Seq(S) /\ Len(Tail(s)) = Len(s) - 1
      /\ \A i \in 1..Len(Tail(s)) : Tail(s)[i] = s[i + 1]
  BY <1>1, HeadTailProperties
<1>3. Len(s) \in Nat \ {0} /\ Head(s) = s[1]
  BY <1>1, EmptySeq
<1>4. Range(s) = {s[i] : i \in 1..Len(s)}
      /\ Range(Tail(s)) = {Tail(s)[i] : i \in 1..Len(Tail(s))}
  BY <1>1, <1>2, RangeEquality
<1>5. Range(s) = {Head(s)} \cup Range(Tail(s))
  <2>1. ASSUME NEW i \in 1..Len(s), i # 1
        PROVE  i - 1 \in 1..Len(Tail(s)) /\ s[i] = Tail(s)[i - 1]
    BY <2>1, <1>2, <1>3
  <2>2. \A i \in 1..Len(Tail(s)) : i + 1 \in 1..Len(s) /\ Tail(s)[i] = s[i + 1]
    BY <1>2, <1>3
  <2>3. Range(s) \subseteq {Head(s)} \cup Range(Tail(s))
    <3>1. ASSUME NEW x \in Range(s)
          PROVE  x \in {Head(s)} \cup Range(Tail(s))
      <4>1. PICK i \in 1..Len(s) : x = s[i]
        BY <1>4
      <4> QED
        BY <1>3, <1>4, <2>1, <4>1
    <3> QED
      BY <3>1
  <2>4. {Head(s)} \cup Range(Tail(s)) \subseteq Range(s)
    <3>1. 1 \in 1..Len(s)
      BY <1>3
    <3> QED
      BY <1>3, <1>4, <2>2, <3>1
  <2> QED
    BY <2>3, <2>4
<1> QED
  BY <1>2, <1>3, <1>5, SeqIsSeq

LEMMA ConcatRange ==
    ASSUME NEW s, NEW t, IsSeq(s), IsSeq(t)
    PROVE  /\ IsSeq(s \o t) /\ Range(s \o t) = Range(s) \cup Range(t)
           /\ Len(s \o t) = Len(s) + Len(t)
           /\ \A i \in 1..Len(s) : (s \o t)[i] = s[i]
           /\ \A i \in 1..Len(t) : (s \o t)[Len(s) + i] = t[i]
<1> DEFINE S == Range(s) \cup Range(t)
<1>1. s \in Seq(S) /\ t \in Seq(S)
  BY SeqMonotonic DEF IsSeq
<1> HIDE DEF S
<1>2. Len(s) \in Nat /\ Len(t) \in Nat
  BY IsSeqFacts
<1>3. /\ s \o t \in Seq(S) /\ Len(s \o t) = Len(s) + Len(t)
      /\ \A i \in 1..Len(s) + Len(t) :
             (s \o t)[i] = IF i <= Len(s) THEN s[i] ELSE t[i - Len(s)]
  BY <1>1, ConcatProperties
<1>4. \A i \in 1..Len(s) : (s \o t)[i] = s[i]
  BY <1>2, <1>3
<1>5. \A i \in 1..Len(t) : (s \o t)[Len(s) + i] = t[i]
  BY <1>2, <1>3
<1>6. IsSeq(s \o t)
  BY <1>3, SeqIsSeq
<1>7. Range(s \o t) = Range(s) \cup Range(t)
  BY <1>1, RangeConcatenation
<1> QED
  BY <1>3, <1>4, <1>5, <1>6, <1>7

LEMMA UnitRange ==
    ASSUME NEW x
    PROVE  IsSeq(<<x>>) /\ Range(<<x>>) = {x} /\ Len(<<x>>) = 1
BY DEF IsSeq, Range

LEMMA EmptyRange == IsSeq(<<>>) /\ Range(<<>>) = {} /\ Len(<<>>) = 0
BY DEF IsSeq, Range

LEMMA AppendRange ==
    ASSUME NEW s, NEW x, IsSeq(s)
    PROVE  IsSeq(Append(s, x)) /\ Range(Append(s, x)) = Range(s) \cup {x}
<1> DEFINE S == Range(s) \cup {x}
<1>1. s \in Seq(S)
  BY SeqMonotonic DEF IsSeq
<1> HIDE DEF S
<1>2. Append(s, x) = s \o <<x>>
  <2>1. x \in S
    BY DEF S
  <2> QED
    BY <1>1, <2>1, AppendIsConcat
<1> QED
  BY <1>2, UnitRange, ConcatRange

-----------------------------------------------------------------------------
(* SetToSeq and FlattenSeq *)

LEMMA SetToSeqOf ==
    ASSUME NEW S, IsFiniteSet(S)
    PROVE  /\ IsSeq(SetToSeq(S)) /\ Range(SetToSeq(S)) = S
           /\ \A i, j \in 1..Len(SetToSeq(S)) :
                  SetToSeq(S)[i] = SetToSeq(S)[j] => i = j
<1> DEFINE n == Cardinality(S)
<1>1. n \in Nat /\ ExistsBijection(1..n, S)
  BY FS_CardinalityType
<1>2. \E f \in [1..n -> S] : IsInjective(f)
  BY <1>1 DEF ExistsBijection, Bijection, Injection
<1>3. SetToSeq(S) \in [1..n -> S] /\ IsInjective(SetToSeq(S))
  BY <1>2 DEF SetToSeq
<1>4. IsSeq(SetToSeq(S)) /\ Len(SetToSeq(S)) = n
  <2> HIDE DEF n
  <2> QED
    BY <1>1, <1>3, FunctionIsSeq
<1>5. SetToSeq(S) \in Injection(1..n, S)
  BY <1>3 DEF Injection
<1>6. Cardinality(1..n) = n
  BY <1>1, FS_Interval
<1>7. SetToSeq(S) \in Surjection(1..n, S)
  BY <1>5, <1>6, FS_Injection
<1>8. Range(SetToSeq(S)) = S
  BY <1>3, <1>7 DEF Surjection, Range
<1> QED
  BY <1>3, <1>4, <1>8 DEF IsInjective

\* The images of a set, as a sequence: what a stream of statements is made of
LEMMA MappedRange ==
    ASSUME NEW s, IsSeq(s), NEW f, f = [i \in DOMAIN s |-> f[i]]
    PROVE  /\ IsSeq(f) /\ Len(f) = Len(s)
           /\ Range(f) = {f[i] : i \in 1..Len(s)}
<1> DEFINE n == Len(s)
           F == {f[i] : i \in 1..n}
<1>1. n \in Nat /\ DOMAIN s = 1..n
  BY IsSeqFacts
<1>2. f \in [1..n -> F]
  BY <1>1
<1> HIDE DEF n, F
<1>3. IsSeq(f) /\ Len(f) = n
  BY <1>1, <1>2, FunctionIsSeq
<1> QED
  BY <1>3, IsSeqFacts DEF n

\* FlattenSeq concatenates from the left: the partial results
Flattens(seqs, f) ==
    /\ f[1] = seqs[1]
    /\ \A i \in 2..Len(seqs) : f[i] = f[i - 1] \o seqs[i]
    /\ FlattenSeq(seqs) = f[Len(seqs)]

LEMMA Flattening ==
    ASSUME NEW seqs, IsSeq(seqs), seqs # <<>>
    PROVE  \E f : Flattens(seqs, f)
<1> DEFINE n == Len(seqs)
           Flat(f, m) == f = [i \in 1..m |-> IF i = 1 THEN seqs[i]
                                             ELSE f[i - 1] \o seqs[i]]
<1>1. n \in Nat /\ n > 0
  BY IsSeqFacts, EmptySeq DEF IsSeq
<1> HIDE DEF n
<1> DEFINE P == {m \in 0..n : \E f : Flat(f, m)}
<1>2. 0 \in P
  <2>1. Flat([i \in 1..0 |-> 0], 0)
    OBVIOUS
  <2> HIDE DEF Flat
  <2> QED
    BY <1>1, <2>1
<1>3. ASSUME NEW m \in 0..n, m \in P, m < n
      PROVE  m + 1 \in P
  <2>1. PICK f : Flat(f, m)
    BY <1>3
  <2> DEFINE g == [i \in 1..(m + 1) |-> IF i <= m THEN f[i]
                      ELSE IF i = 1 THEN seqs[i] ELSE f[i - 1] \o seqs[i]]
  <2>2. ASSUME NEW i \in 1..(m + 1)
        PROVE  g[i] = IF i = 1 THEN seqs[i] ELSE g[i - 1] \o seqs[i]
    <3>1. CASE i <= m
      <4>1. i \in 1..m /\ g[i] = f[i] /\ (i # 1 => i - 1 \in 1..(m + 1) /\ i - 1 <= m)
        BY <3>1
      <4>2. i # 1 => g[i - 1] = f[i - 1]
        BY <4>1
      <4>3. f[i] = IF i = 1 THEN seqs[i] ELSE f[i - 1] \o seqs[i]
        BY <2>1, <4>1
      <4> QED
        BY <4>1, <4>2, <4>3
    <3>2. CASE i = m + 1
      <4>1. i # 1 => i - 1 \in 1..(m + 1) /\ i - 1 <= m
        BY <3>2
      <4>2. i # 1 => g[i - 1] = f[i - 1]
        BY <4>1
      <4>3. ~(i <= m)
        BY <3>2
      <4> QED
        BY <4>2, <4>3
    <3> QED
      BY <3>1, <3>2
  <2>3. Flat(g, m + 1)
    <3>1. g = [i \in 1..(m + 1) |-> g[i]]
      OBVIOUS
    <3> HIDE DEF g
    <3> QED
      BY <2>2, <3>1
  <2> HIDE DEF Flat, g
  <2>4. m + 1 \in 0..n
    BY <1>1, <1>3
  <2> QED
    BY <2>3, <2>4
<1>4. n \in P
  <2> HIDE DEF P
  <2>1. \A i \in 0..n : i \in P /\ i < n => i + 1 \in P
    BY <1>3
  <2>2. \A i \in 0..n : i \in P
    BY <1>1, <1>2, <2>1, IntervalInduction
  <2> QED
    BY <1>1, <2>2
<1> DEFINE f == CHOOSE f : f = [i \in 1..n |-> IF i = 1 THEN seqs[i]
                                              ELSE f[i - 1] \o seqs[i]]
<1>5. Flat(f, n)
  BY <1>4
<1>6. FlattenSeq(seqs) = f[n]
  <2>1. Len(seqs) # 0
    BY <1>1 DEF n
  <2> QED
    BY <2>1 DEF FlattenSeq, n
<1>7. f[1] = seqs[1] /\ \A i \in 2..n : f[i] = f[i - 1] \o seqs[i]
  <2> HIDE DEF f
  <2>1. 1 \in 1..n
    BY <1>1
  <2>2. \A i \in 2..n : i \in 1..n /\ i # 1
    BY <1>1
  <2> QED
    BY <1>5, <2>1, <2>2
<1> QED
  BY <1>6, <1>7 DEF n, Flattens

-----------------------------------------------------------------------------
(* Prefixes and parts of a sequence *)

\* Sequences with the same elements are the same.
LEMMA SameSeq ==
    ASSUME NEW s, NEW t, IsSeq(s), IsSeq(t), Len(s) = Len(t),
           \A i \in 1..Len(s) : s[i] = t[i]
    PROVE  s = t
<1> DEFINE S == Range(s) \cup Range(t)
<1>1. s \in Seq(S) /\ t \in Seq(S)
  BY SeqMonotonic DEF IsSeq
<1> QED
  BY <1>1, SeqEqual

\* The elements from m to n
LEMMA PartOf ==
    ASSUME NEW s, IsSeq(s), NEW m \in 1..Len(s) + 1, NEW n \in m - 1..Len(s)
    PROVE  /\ IsSeq(SubSeq(s, m, n)) /\ Len(SubSeq(s, m, n)) = n + 1 - m
           /\ \A i \in 1..(n + 1 - m) : SubSeq(s, m, n)[i] = s[m + i - 1]
           /\ m > n => SubSeq(s, m, n) = <<>>
<1>1. Len(s) \in Nat /\ m \in Int /\ n \in Int
  BY IsSeqFacts
<1>2. \A i \in m..n : i \in 1..Len(s) /\ s[i] \in Range(s)
  BY <1>1, IsSeqFacts
<1>3. /\ SubSeq(s, m, n) \in Seq(Range(s))
      /\ Len(SubSeq(s, m, n)) = IF m <= n THEN n - m + 1 ELSE 0
      /\ \A i \in 1..n - m + 1 : SubSeq(s, m, n)[i] = s[m + i - 1]
  BY <1>1, <1>2, SubSeqProperties
<1>4. n - m + 1 = n + 1 - m /\ (~(m <= n) => n + 1 - m = 0)
  BY <1>1
<1>5. IsSeq(SubSeq(s, m, n))
  BY <1>3, SeqIsSeq
<1>6. m > n => SubSeq(s, m, n) = <<>>
  BY <1>1, SubSeqEmpty
<1> QED
  BY <1>1, <1>3, <1>4, <1>5, <1>6

\* The first n elements
LEMMA FirstOf ==
    ASSUME NEW s, IsSeq(s), NEW n \in 0..Len(s)
    PROVE  /\ IsSeq(SubSeq(s, 1, n)) /\ Len(SubSeq(s, 1, n)) = n
           /\ \A i \in 1..n : SubSeq(s, 1, n)[i] = s[i]
<1>1. Len(s) \in Nat
  BY IsSeqFacts
<1>2. 1 \in 1..Len(s) + 1 /\ n \in 1 - 1..Len(s)
  BY <1>1
<1>3. /\ IsSeq(SubSeq(s, 1, n)) /\ Len(SubSeq(s, 1, n)) = n + 1 - 1
      /\ \A i \in 1..(n + 1 - 1) : SubSeq(s, 1, n)[i] = s[1 + i - 1]
  BY <1>2, PartOf
<1>4. n + 1 - 1 = n /\ \A i \in 1..n : 1 + i - 1 = i
  OBVIOUS
<1> QED
  BY <1>3, <1>4

LEMMA PrefixElements ==
    ASSUME NEW s, NEW t, IsSeq(s), IsSeq(t)
    PROVE  IsPrefix(s, t) <=> Len(s) <= Len(t) /\ \A i \in 1..Len(s) : s[i] = t[i]
<1>1. Len(s) \in Nat /\ Len(t) \in Nat
  BY IsSeqFacts
<1> SUFFICES ASSUME Len(s) <= Len(t)
             PROVE  SubSeq(s, 1, Len(s)) = SubSeq(t, 1, Len(s))
                        <=> \A i \in 1..Len(s) : s[i] = t[i]
  BY DEF IsPrefix
<1>2. Len(s) \in 0..Len(s) /\ Len(s) \in 0..Len(t)
  BY <1>1
<1>3. /\ IsSeq(SubSeq(s, 1, Len(s))) /\ Len(SubSeq(s, 1, Len(s))) = Len(s)
      /\ \A i \in 1..Len(s) : SubSeq(s, 1, Len(s))[i] = s[i]
  BY <1>2, FirstOf
<1>4. /\ IsSeq(SubSeq(t, 1, Len(s))) /\ Len(SubSeq(t, 1, Len(s))) = Len(s)
      /\ \A i \in 1..Len(s) : SubSeq(t, 1, Len(s))[i] = t[i]
  BY <1>2, FirstOf
<1>5. ASSUME \A i \in 1..Len(s) : s[i] = t[i]
      PROVE  SubSeq(s, 1, Len(s)) = SubSeq(t, 1, Len(s))
  BY <1>3, <1>4, <1>5, SameSeq
<1>6. ASSUME SubSeq(s, 1, Len(s)) = SubSeq(t, 1, Len(s)), NEW i \in 1..Len(s)
      PROVE  s[i] = t[i]
  BY <1>3, <1>4, <1>6
<1> QED
  BY <1>5, <1>6

\* A prefix is determined by its length.
LEMMA PrefixIsFirst ==
    ASSUME NEW s, NEW t, IsSeq(s), IsSeq(t), IsPrefix(s, t)
    PROVE  Len(s) \in 0..Len(t) /\ s = SubSeq(t, 1, Len(s))
<1>1. Len(s) <= Len(t) /\ \A i \in 1..Len(s) : s[i] = t[i]
  BY PrefixElements
<1>2. Len(s) \in 0..Len(t)
  BY <1>1, IsSeqFacts
<1>3. /\ IsSeq(SubSeq(t, 1, Len(s))) /\ Len(SubSeq(t, 1, Len(s))) = Len(s)
      /\ \A i \in 1..Len(s) : SubSeq(t, 1, Len(s))[i] = t[i]
  BY <1>2, FirstOf
<1> QED
  BY <1>1, <1>2, <1>3, SameSeq

LEMMA FirstIsPrefix ==
    ASSUME NEW t, IsSeq(t), NEW n \in 0..Len(t)
    PROVE  IsPrefix(SubSeq(t, 1, n), t)
<1> DEFINE s == SubSeq(t, 1, n)
<1>1. IsSeq(s) /\ Len(s) = n /\ \A i \in 1..n : s[i] = t[i]
  BY FirstOf
<1>2. n <= Len(t)
  BY IsSeqFacts
<1>3. IsPrefix(s, t)
  <2> HIDE DEF s
  <2> QED
    BY <1>1, <1>2, PrefixElements
<1> QED
  BY <1>3

LEMMA PrefixTransitive ==
    ASSUME NEW r, NEW s, NEW t, IsSeq(r), IsSeq(s), IsSeq(t),
           IsPrefix(r, s), IsPrefix(s, t)
    PROVE  IsPrefix(r, t)
<1>1. /\ Len(r) <= Len(s) /\ \A i \in 1..Len(r) : r[i] = s[i]
      /\ Len(s) <= Len(t) /\ \A i \in 1..Len(s) : s[i] = t[i]
  BY PrefixElements
<1>2. Len(r) \in Nat /\ Len(s) \in Nat /\ Len(t) \in Nat
  BY IsSeqFacts
<1>3. Len(r) <= Len(t) /\ \A i \in 1..Len(r) : r[i] = t[i]
  BY <1>1, <1>2
<1> QED
  BY <1>3, PrefixElements

\* Of two prefixes of one sequence the shorter is a prefix of the longer.
LEMMA ShorterIsPrefix ==
    ASSUME NEW r, NEW s, NEW t, IsSeq(r), IsSeq(s), IsSeq(t),
           IsPrefix(r, t), IsPrefix(s, t), Len(r) <= Len(s)
    PROVE  IsPrefix(r, s)
<1>1. /\ \A i \in 1..Len(r) : r[i] = t[i]
      /\ \A i \in 1..Len(s) : s[i] = t[i]
  BY PrefixElements
<1>2. Len(r) \in Nat /\ Len(s) \in Nat
  BY IsSeqFacts
<1>3. \A i \in 1..Len(r) : r[i] = s[i]
  BY <1>1, <1>2
<1> QED
  BY <1>3, PrefixElements

\* The next longer prefix
LEMMA PrefixGrows ==
    ASSUME NEW s, NEW t, IsSeq(s), IsSeq(t), IsPrefix(s, t), Len(s) < Len(t)
    PROVE  /\ Append(s, t[Len(s) + 1]) = SubSeq(t, 1, Len(s) + 1)
           /\ s \o <<t[Len(s) + 1]>> = SubSeq(t, 1, Len(s) + 1)
<1> DEFINE n == Len(s)
           x == t[n + 1]
<1>1. n \in Nat /\ Len(t) \in Nat /\ n + 1 \in 0..Len(t)
  BY IsSeqFacts
<1>2. \A i \in 1..n : s[i] = t[i]
  BY PrefixElements
<1>3. /\ IsSeq(s \o <<x>>) /\ Len(s \o <<x>>) = n + 1
      /\ \A i \in 1..n : (s \o <<x>>)[i] = s[i]
      /\ (s \o <<x>>)[n + 1] = x
  <2>1. IsSeq(<<x>>) /\ Len(<<x>>) = 1 /\ <<x>>[1] = x
    BY UnitRange
  <2> QED
    BY <1>1, <2>1, ConcatRange
<1>4. /\ IsSeq(SubSeq(t, 1, n + 1)) /\ Len(SubSeq(t, 1, n + 1)) = n + 1
      /\ \A i \in 1..(n + 1) : SubSeq(t, 1, n + 1)[i] = t[i]
  BY <1>1, FirstOf
<1>5. \A i \in 1..(n + 1) : i \in 1..n \/ i = n + 1
  BY <1>1
<1>6. s \o <<x>> = SubSeq(t, 1, n + 1)
  <2>1. \A i \in 1..(n + 1) : (s \o <<x>>)[i] = SubSeq(t, 1, n + 1)[i]
    BY <1>2, <1>3, <1>4, <1>5
  <2> HIDE DEF n, x
  <2> QED
    BY <1>3, <1>4, <2>1, SameSeq
<1>7. Append(s, x) = s \o <<x>>
  <2>1. s \in Seq(Range(s) \cup {x})
    BY SeqMonotonic DEF IsSeq
  <2> QED
    BY <2>1, AppendIsConcat
<1> QED
  BY <1>6, <1>7
=============================================================================
