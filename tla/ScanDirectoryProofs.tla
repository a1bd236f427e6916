------------------------- MODULE ScanDirectoryProofs -------------------------
(***************************************************************************)
(* What is true of ScanDirectory for any tree and any number of workers.    *)
(***************************************************************************)
EXTENDS ScanDirectory, FiniteSetTheorems, SequenceTheorems, TLAPS

\* The pool's theorems, for the pool of a scan
PoolProofs == INSTANCE SyncThreadPoolProofs
              WITH Users <- {Main}, Tasks <- ScanTasks, NoTask <- None

\* The assumptions under which the pool's theorems hold
LEMMA PoolAssumptions ==
    /\ PoolProofs!IsFiniteSet(Workers) /\ Workers # {}
    /\ PoolProofs!IsFiniteSet({Main}) /\ Owner \notin {Main}
    /\ None \notin ScanTasks
<1>1. IsFiniteSet(Workers) /\ IsFiniteSet({Main})
  BY ThreadsAssumption, FS_Singleton
<1>2. PoolProofs!IsFiniteSet(Workers) /\ PoolProofs!IsFiniteSet({Main})
  BY <1>1 DEF IsFiniteSet, PoolProofs!IsFiniteSet
<1> QED
  BY <1>2, ThreadsAssumption, PathsAssumption

-----------------------------------------------------------------------------
(* Every step is a step of the pool or leaves it alone. *)

LEMMA PoolInit == Init => PoolProofs!Init
BY DEF Init, Pool!Init, PoolProofs!Init, Pool!Callers, PoolProofs!Callers

LEMMA MainInPoolSteps == MainInPool => PoolProofs!Next
<1>1. Pool!SubmitStep(Main) => PoolProofs!SubmitStep(Main)
  BY DEF Pool!SubmitStep, Pool!SubmitPush, Pool!SubmitWait, Pool!HasRoom,
         Pool!Enqueue, Pool!NotifyOne, Pool!InState, Pool!state,
         PoolProofs!SubmitStep, PoolProofs!SubmitPush, PoolProofs!SubmitWait,
         PoolProofs!HasRoom, PoolProofs!Enqueue, PoolProofs!NotifyOne,
         PoolProofs!InState, PoolProofs!state,
         Pool!Cardinality, PoolProofs!Cardinality
<1>2. Pool!StopStep => PoolProofs!StopStep
  BY DEF Pool!StopStep, Pool!StopWait, Pool!StopClose, Pool!StopJoin,
         Pool!DestroyEnd, Pool!StopMayClose, Pool!NotifyAll, Pool!state,
         PoolProofs!StopStep, PoolProofs!StopWait, PoolProofs!StopClose,
         PoolProofs!StopJoin, PoolProofs!DestroyEnd, PoolProofs!StopMayClose,
         PoolProofs!NotifyAll, PoolProofs!state
<1> QED
  BY <1>1, <1>2 DEF MainInPool, PoolProofs!Next

LEMMA WorkerSteps ==
    ASSUME NEW w \in Workers, Pool!Take(w) \/ Pool!Sleep(w) \/ Pool!Exit(w) \/ Pool!Finish(w)
    PROVE  PoolProofs!WorkerStep(w)
BY DEF Pool!Take, Pool!Sleep, Pool!Exit, Pool!Finish, Pool!Dequeue, Pool!NotifyOne,
       Pool!InState, Pool!state, PoolProofs!WorkerStep, PoolProofs!Take,
       PoolProofs!Sleep, PoolProofs!Exit, PoolProofs!Finish, PoolProofs!Dequeue,
       PoolProofs!NotifyOne, PoolProofs!InState, PoolProofs!state

LEMMA PoolStep ==
    ASSUME TypeOK, [Next]_vars
    PROVE  [PoolProofs!Next]_(PoolProofs!vars)
<1>1. CASE UNCHANGED poolVars
  BY <1>1 DEF poolVars, PoolProofs!vars
<1>2. CASE MainInPool
  BY <1>2, MainInPoolSteps
<1>3. ASSUME NEW n \in Names, FoundFile(n)
      PROVE  PoolProofs!Next
  <2>1. [path |-> n, parent |-> cur.path] \in ScanTasks
    BY DEF TypeOK, ScanTasks
  <2>2. PoolProofs!BeginSubmit(Main, [path |-> n, parent |-> cur.path])
    BY <1>3 DEF FoundFile, Pool!BeginSubmit, PoolProofs!BeginSubmit, Pool!state,
                PoolProofs!state
  <2> QED
    BY <2>1, <2>2 DEF PoolProofs!Next
<1>4. CASE DestroyPool
  <2>1. PoolProofs!BeginDestroy
    BY <1>4 DEF DestroyPool, Pool!BeginDestroy, Pool!CallStop, Pool!Callers,
                Pool!state, PoolProofs!BeginDestroy, PoolProofs!CallStop,
                PoolProofs!Callers, PoolProofs!state
  <2> QED
    BY <2>1 DEF PoolProofs!Next
<1>5. ASSUME NEW w \in Workers, TakeTask(w) \/ TaskReturns(w) \/ WorkerInPool(w)
      PROVE  PoolProofs!Next
  BY <1>5, WorkerSteps DEF TakeTask, TaskReturns, WorkerInPool, PoolProofs!Next
<1>6. CASE SpuriousWake
  <2>1. ASSUME NEW w \in Workers, Pool!SpuriousWakeWorker(w)
        PROVE  PoolProofs!SpuriousWakeWorker(w)
    BY <2>1 DEF Pool!SpuriousWakeWorker, PoolProofs!SpuriousWakeWorker, Pool!state,
                PoolProofs!state
  <2>2. ASSUME NEW c \in {Main, Owner}, Pool!SpuriousWakeCaller(c)
        PROVE  c \in PoolProofs!Callers /\ PoolProofs!SpuriousWakeCaller(c)
    BY <2>2 DEF Pool!SpuriousWakeCaller, PoolProofs!SpuriousWakeCaller, Pool!state,
                PoolProofs!state, PoolProofs!Callers
  <2> QED
    BY <1>6, <2>1, <2>2 DEF SpuriousWake, PoolProofs!Next
<1>7. ASSUME NEW n \in Names, IgnoreEntry(n) \/ EntryFails(n) \/ FoundDir(n)
      PROVE  UNCHANGED poolVars
  BY <1>7 DEF IgnoreEntry, EntryFails, FoundDir
<1>8. ASSUME NEW w \in Workers,
             Hashed(w) \/ HashingFails(w) \/ FileCallback(w) \/ FileCallbackReturns(w)
      PROVE  UNCHANGED poolVars
  BY <1>8 DEF Hashed, HashingFails, FileCallback, FileCallbackReturns
<1>9. CASE \/ OpenDir \/ OpenDirFails \/ DirCallback \/ DirCallbackReturns
           \/ DirEnd \/ IncrementFails \/ Return \/ Terminated \/ UNCHANGED vars
  BY <1>1, <1>9 DEF OpenDir, OpenDirFails, DirCallback, DirCallbackReturns, DirEnd,
                    IncrementFails, Return, Terminated, vars
<1> QED
  BY <1>1, <1>2, <1>3, <1>4, <1>5, <1>6, <1>7, <1>8, <1>9
     DEF Next, MainStep, WorkerStep

\* What is used of the pool: where the submitted tasks are.
PoolInv == PoolProofs!IInv /\ PoolProofs!Exclusive /\ PoolProofs!Destroyed

LEMMA InitPoolInv == Init => PoolInv
BY PoolAssumptions, PoolInit, PoolProofs!InitIInv, PoolProofs!InitExclusive,
   PoolProofs!InitDestroyed DEF PoolInv

LEMMA NextPoolInv ==
    ASSUME TypeOK, PoolInv, [Next]_vars
    PROVE  PoolInv'
<1>1. [PoolProofs!Next]_(PoolProofs!vars)
  BY PoolStep
<1>2. PoolProofs!IInv'
  BY <1>1, PoolAssumptions, PoolProofs!NextIInv DEF PoolInv
<1>3. PoolProofs!Exclusive'
  BY <1>1, PoolAssumptions, PoolProofs!NextExclusive DEF PoolInv
<1>4. PoolProofs!Destroyed'
  BY <1>1, PoolAssumptions, PoolProofs!NextDestroyed DEF PoolInv
<1> QED
  BY <1>2, <1>3, <1>4 DEF PoolInv

LEMMA PoolFacts ==
    ASSUME PoolInv
    PROVE  /\ q \in Seq(ScanTasks)
           /\ task \in [Workers -> ScanTasks \cup {None}]
           /\ arg \in [{Main} -> ScanTasks \cup {None}]
           /\ submitted \subseteq ScanTasks
           /\ \A w \in Workers : wpc[w] = "run" <=> task[w] \in ScanTasks
           /\ \A w \in Workers : task[w] \in ScanTasks => task[w] \in submitted
           /\ \A i \in 1..Len(q) : q[i] \in submitted
           /\ arg[Main] \in ScanTasks => arg[Main] \in submitted
<1> USE DEF PoolInv, PoolProofs!IInv, PoolProofs!Shape
<1>1. /\ q \in Seq(ScanTasks)
      /\ task \in [Workers -> ScanTasks \cup {None}]
      /\ arg \in [{Main} -> ScanTasks \cup {None}]
      /\ submitted \subseteq ScanTasks
  BY DEF PoolProofs!TypeOK
<1>2. \A w \in Workers : wpc[w] = "run" <=> task[w] \in ScanTasks
  BY DEF PoolProofs!TaskOK
<1>3. \A t \in ScanTasks :
         /\ PoolProofs!Executing(t) => t \in submitted
         /\ PoolProofs!InQueue(t) => t \in submitted
         /\ PoolProofs!Offered(t) => t \in submitted
  BY DEF PoolProofs!Custody
<1>4. \A i \in 1..Len(q) : q[i] \in ScanTasks
  BY <1>1
<1> QED
  BY <1>1, <1>2, <1>3, <1>4
     DEF PoolProofs!Executing, PoolProofs!InQueue, PoolProofs!Offered

\* A task with a worker is nowhere else.
LEMMA TaskOfOne ==
    ASSUME PoolInv, NEW w \in Workers, task[w] \in ScanTasks
    PROVE  /\ \A i \in 1..Len(q) : q[i] # task[w]
           /\ arg[Main] # task[w]
           /\ \A v \in Workers : task[v] = task[w] => v = w
<1> USE DEF PoolInv, PoolProofs!IInv, PoolProofs!Shape
<1>1. arg[Main] # task[w]
  BY DEF PoolProofs!Custody, PoolProofs!Executing, PoolProofs!ArgOK, PoolProofs!Busy
<1> QED
  BY <1>1 DEF PoolProofs!Exclusive, PoolProofs!InQueue

-----------------------------------------------------------------------------
(* Types *)

Items == [path : Paths, parent : Paths \cup {None}]

LEMMA Popped ==
    ASSUME NEW S, NEW s \in Seq(S), s # <<>>
    PROVE  /\ Front(s) \in Seq(S)
           /\ Len(Front(s)) = Len(s) - 1 /\ Len(s) \in Nat \ {0}
           /\ \A i \in 1..Len(Front(s)) : i \in 1..Len(s) /\ Front(s)[i] = s[i]
           /\ Last(s) = s[Len(s)] /\ Last(s) \in S
<1>1. Len(s) \in Nat \ {0}
  BY EmptySeq
<1>2. Front(s) = SubSeq(s, 1, Len(s) - 1)
  BY DEF Front
<1>3. /\ SubSeq(s, 1, Len(s) - 1) \in Seq(S)
      /\ Len(SubSeq(s, 1, Len(s) - 1)) = Len(s) - 1
      /\ \A i \in 1..(Len(s) - 1) : SubSeq(s, 1, Len(s) - 1)[i] = s[i]
  <2>1. 1 \in Int /\ Len(s) - 1 \in Int
    BY <1>1
  <2>2. \A i \in 1..(Len(s) - 1) : s[i] \in S
    BY <1>1
  <2> DEFINE n == Len(s) - 1
  <2>3. /\ SubSeq(s, 1, n) \in Seq(S)
        /\ Len(SubSeq(s, 1, n)) = IF 1 <= n THEN n - 1 + 1 ELSE 0
        /\ \A i \in 1..n - 1 + 1 : SubSeq(s, 1, n)[i] = s[1 + i - 1]
    <3> HIDE DEF n
    <3> QED
      BY <2>1, <2>2, SubSeqProperties DEF n
  <2>4. n \in Nat
    BY <1>1
  <2>5. /\ SubSeq(s, 1, n) \in Seq(S)
        /\ Len(SubSeq(s, 1, n)) = n
        /\ \A i \in 1..n : SubSeq(s, 1, n)[i] = s[i]
    <3> HIDE DEF n
    <3>1. n - 1 + 1 = n /\ \A i \in 1..n : 1 + i - 1 = i
      BY <2>4
    <3> QED
      BY <2>3, <2>4, <3>1
  <2> QED
    BY <2>5
<1>4. Last(s) = s[Len(s)] /\ Len(s) \in 1..Len(s)
  BY <1>1 DEF Last
<1> QED
  BY <1>1, <1>2, <1>3, <1>4

LEMMA InitTypeOK == Init => TypeOK
<1> SUFFICES ASSUME Init PROVE TypeOK
  OBVIOUS
<1>1. RootItem \in Items /\ stack \in Seq(Items)
  BY DEF Init, RootItem, Items, Paths
<1>2. tree \in [kind : [Names -> Kinds], parent : [Names -> Paths]]
  BY TreesAssumption DEF Init
<1> QED
  BY <1>1, <1>2, ThreadsAssumption DEF Init, TypeOK, Items

\* The effect of a callback on the history
LEMMA Announcing ==
    ASSUME TypeOK, NEW item \in Items, Announce(item)
    PROVE  /\ announced' \subseteq Paths \X (Paths \cup {None})
           /\ times' \in [Paths -> Nat]
           /\ times'[item.path] = times[item.path] + 1
           /\ \A p \in Paths \ {item.path} : times'[p] = times[p]
BY DEF TypeOK, Items, Announce

\* A worker between taking a task and its end has that task.
Handling == \A w \in Workers : tpc[w] # "end" => task[w] \in ScanTasks

LEMMA NextTypeOK ==
    ASSUME TypeOK, Handling, [Next]_vars
    PROVE  TypeOK'
<1> USE DEF TypeOK
<1>1. CASE OpenDir
  <2>1. /\ stack' \in Seq(Items) /\ Last(stack) \in Items
        /\ cur' = Last(stack) /\ todo' = Children(Last(stack).path)
    BY <1>1, Popped DEF OpenDir, Items
  <2> QED
    BY <1>1, <2>1 DEF OpenDir, Children, Items, poolVars, report
<1>2. CASE OpenDirFails
  <2>1. stack' \in Seq(Items) /\ Last(stack) \in Items
    BY <1>2, Popped DEF OpenDirFails, Items
  <2> QED
    BY <1>2, <2>1 DEF OpenDirFails, Items, poolVars
<1>3. CASE DirCallback
  BY <1>3 DEF DirCallback, poolVars, report
<1>4. CASE DirCallbackReturns
  <2>1. cur \in Items
    BY DEF Items
  <2> QED
    BY <1>4, <2>1, Announcing DEF DirCallbackReturns, Unlock, poolVars
<1>5. ASSUME NEW n \in Names, IgnoreEntry(n) \/ EntryFails(n) \/ FoundFile(n)
      PROVE  TypeOK'
  BY <1>5 DEF IgnoreEntry, EntryFails, FoundFile, AtEntry, Paths
<1>6. ASSUME NEW n \in Names, FoundDir(n)
      PROVE  TypeOK'
  <2>1. [path |-> n, parent |-> cur.path] \in Items
    BY DEF Items, Paths
  <2>2. stack' \in Seq(Items)
    BY <1>6, <2>1, AppendProperties DEF FoundDir, Items
  <2> QED
    BY <1>6, <2>2 DEF FoundDir, AtEntry, Paths, Items
<1>7. CASE DirEnd \/ IncrementFails \/ Return \/ DestroyPool \/ MainInPool \/ SpuriousWake
  BY <1>7 DEF DirEnd, IncrementFails, Return, DestroyPool, MainInPool, SpuriousWake,
              walk, report
<1>8. ASSUME NEW w \in Workers, TakeTask(w) \/ TaskReturns(w) \/ WorkerInPool(w)
      PROVE  TypeOK'
  BY <1>8 DEF TakeTask, TaskReturns, WorkerInPool, walk, report
<1>9. ASSUME NEW w \in Workers, Hashed(w) \/ FileCallback(w)
      PROVE  TypeOK'
  BY ZenonT(60), <1>9 DEF Hashed, FileCallback, walk, report
<1>10. ASSUME NEW w \in Workers, HashingFails(w) \/ FileCallbackReturns(w)
       PROVE  TypeOK'
  <2>1. task[w] \in Items /\ task[w].path \in Paths
    BY <1>10 DEF Handling, HashingFails, FileCallbackReturns, ScanTasks, Items, Paths
  <2> QED
    BY <1>10, <2>1, Announcing DEF HashingFails, FileCallbackReturns, Unlock, walk
<1>11. CASE Terminated \/ UNCHANGED vars
  BY <1>11 DEF Terminated, vars, walk, report
<1> QED
  BY <1>1, <1>2, <1>3, <1>4, <1>5, <1>6, <1>7, <1>8, <1>9, <1>10, <1>11
     DEF Next, MainStep, WorkerStep

-----------------------------------------------------------------------------
(* Mutual exclusion: whoever is in a callback holds `mutex'.                 *)

Locking ==
    /\ holder = Main <=> main = "announcing"
    /\ \A w \in Workers : holder = w <=> tpc[w] = "file"

\* The pool's own steps leave a task that is being executed with its worker.
LEMMA PoolKeepsTasks ==
    ASSUME TypeOK, PoolInv,
           \/ \E n \in Names : FoundFile(n)
           \/ DestroyPool \/ MainInPool \/ SpuriousWake
           \/ \E w \in Workers : WorkerInPool(w)
    PROVE  task' = task /\ UNCHANGED <<main, holder, tpc, tree, stack, cur, times, announced>>
BY DEF FoundFile, AtEntry, DestroyPool, MainInPool, SpuriousWake, WorkerInPool,
       Pool!BeginSubmit, Pool!SubmitStep, Pool!SubmitPush, Pool!SubmitWait,
       Pool!StopStep, Pool!StopWait, Pool!StopClose, Pool!StopJoin, Pool!DestroyEnd,
       Pool!BeginDestroy, Pool!Sleep, Pool!Exit, Pool!SpuriousWakeWorker,
       Pool!SpuriousWakeCaller, walk, report

LEMMA NextLocking ==
    ASSUME TypeOK, PoolInv, Handling, Locking, [Next]_vars
    PROVE  Handling' /\ Locking'
<1> USE ThreadsAssumption DEF TypeOK, Handling, Locking
<1>1. CASE OpenDir \/ OpenDirFails \/ DirEnd \/ IncrementFails \/ Return
  BY <1>1 DEF OpenDir, OpenDirFails, DirEnd, IncrementFails, Return, poolVars
<1>2. CASE DirCallback
  BY <1>2 DEF DirCallback, MutexFree, poolVars
<1>3. CASE DirCallbackReturns
  BY <1>3 DEF DirCallbackReturns, Unlock, poolVars
<1>4. ASSUME NEW n \in Names, IgnoreEntry(n) \/ EntryFails(n) \/ FoundDir(n)
      PROVE  Handling' /\ Locking'
  BY <1>4 DEF IgnoreEntry, EntryFails, FoundDir, AtEntry, poolVars
<1>5. CASE \/ \E n \in Names : FoundFile(n)
           \/ DestroyPool \/ MainInPool \/ SpuriousWake
           \/ \E w \in Workers : WorkerInPool(w)
  BY <1>5, PoolKeepsTasks
<1>6. ASSUME NEW w \in Workers, TakeTask(w)
      PROVE  Handling' /\ Locking'
  <2>1. wpc[w] = "ready" /\ q # <<>> /\ task' = [task EXCEPT ![w] = Head(q)]
        /\ tpc' = [tpc EXCEPT ![w] = "hash"] /\ main' = main /\ holder' = holder
    BY <1>6 DEF TakeTask, Pool!Take, walk
  <2>2. task[w] \notin ScanTasks /\ Head(q) \in ScanTasks
    BY <2>1, PoolFacts, HeadTailProperties
  <2>3. task \in [Workers -> ScanTasks \cup {None}]
    BY PoolFacts
  <2> QED
    BY <2>1, <2>2, <2>3
<1>7. ASSUME NEW w \in Workers, Hashed(w) \/ HashingFails(w)
      PROVE  Handling' /\ Locking'
  BY <1>7 DEF Hashed, HashingFails, walk, poolVars
<1>8. ASSUME NEW w \in Workers, FileCallback(w)
      PROVE  Handling' /\ Locking'
  BY <1>8 DEF FileCallback, MutexFree, walk, poolVars
<1>9. ASSUME NEW w \in Workers, FileCallbackReturns(w)
      PROVE  Handling' /\ Locking'
  BY <1>9 DEF FileCallbackReturns, Unlock, walk, poolVars
<1>10. ASSUME NEW w \in Workers, TaskReturns(w)
       PROVE  Handling' /\ Locking'
  <2>1. task \in [Workers -> ScanTasks \cup {None}]
    BY PoolFacts
  <2> QED
    BY <1>10, <2>1 DEF TaskReturns, Pool!Finish, walk
<1>11. CASE Terminated \/ UNCHANGED vars
  BY <1>11 DEF Terminated, vars, walk, poolVars
<1> QED
  BY <1>1, <1>2, <1>3, <1>4, <1>5, <1>6, <1>7, <1>8, <1>9, <1>10, <1>11
     DEF Next, MainStep, WorkerStep

\* Types, the pool's invariant and the mutex
Sound == TypeOK /\ PoolInv /\ Handling /\ Locking

LEMMA InitSound == Init => Sound
<1>1. Init => Handling /\ Locking
  BY ThreadsAssumption DEF Init, Handling, Locking
<1> QED
  BY <1>1, InitTypeOK, InitPoolInv DEF Sound

LEMMA NextSound == Sound /\ [Next]_vars => Sound'
BY NextTypeOK, NextPoolInv, NextLocking DEF Sound

\* The walk's and the workers' variables keep their types, for any tree and
\* any number of workers.
THEOREM TypeCorrect == Spec => []TypeOK
BY InitSound, NextSound, PTL DEF Spec, Sound

\* scanner.h:41: the processor's methods are called one at a time, by however
\* many workers and the thread that walks the tree.
THEOREM OneCallbackAtATime == Spec => []Serialized
<1>1. ASSUME Sound
      PROVE  Serialized
  <2>1. InCallback \subseteq {holder}
    BY <1>1 DEF Sound, Locking, InCallback
  <2>2. IsFiniteSet({holder}) /\ Cardinality({holder}) = 1
    BY FS_Singleton
  <2>3. Cardinality(InCallback) <= 1 /\ Cardinality(InCallback) \in Nat
    BY <2>1, <2>2, FS_Subset, FS_CardinalityType
  <2> QED
    BY <2>3 DEF Serialized
<1> QED
  BY <1>1, InitSound, NextSound, PTL DEF Spec

-----------------------------------------------------------------------------
(* Where a path can be: on the stack, in the hands of the walk, among the    *)
(* entries still ahead, with the pool, or announced.  It is in one of these   *)
(* places only, and its directory has been announced unless it is the root.  *)

InStack(p) == \E i \in 1..Len(stack) : stack[i].path = p
WasSubmitted(n) == \E t \in submitted : t.path = n

\* A task that has not been executed, or not up to its callback
Pending(t) ==
    \/ \E i \in 1..Len(q) : q[i] = t
    \/ arg[Main] = t
    \/ \E w \in Workers : task[w] = t /\ tpc[w] # "end"

\* A directory that may be announced
Due(item) ==
    /\ IsParent(item.parent, item.path)
    /\ item.path # Root => tree.kind[item.path] = "dir" /\ times[item.parent] = 1

StackOK ==
    /\ \A i, j \in 1..Len(stack) : stack[i].path = stack[j].path => i = j
    /\ \A i \in 1..Len(stack) : Due(stack[i]) /\ times[stack[i].path] = 0

CurOK ==
    /\ main \in {"opened", "announcing"} =>
           Due(cur) /\ times[cur.path] = 0 /\ ~InStack(cur.path)
    /\ main = "iterate" => times[cur.path] = 1

TodoOK ==
    /\ todo \subseteq Children(cur.path)
    /\ main \in {"loop", "return"} => todo = {}
    /\ \A n \in todo : times[n] = 0 /\ ~InStack(n) /\ ~WasSubmitted(n)

SeenOK ==
    \A n \in Names :
        times[n] # 0 \/ InStack(n) \/ WasSubmitted(n) => times[tree.parent[n]] = 1

TasksOK ==
    /\ \A t \in submitted :
           /\ IsParent(t.parent, t.path) /\ times[t.parent] = 1
           /\ tree.kind[t.path] \in {"file", "empty"}
    /\ \A w \in Workers : tpc[w] \in {"lock", "file"} => tree.kind[task[w].path] = "file"
    /\ \A t \in ScanTasks : Pending(t) => times[t.path] = 0

IInv == Sound /\ StackOK /\ CurOK /\ TodoOK /\ SeenOK /\ TasksOK /\ ReportIsSubtree

LEMMA InitIInv == Init => IInv
<1> SUFFICES ASSUME Init PROVE IInv
  OBVIOUS
<1>1. Sound
  BY InitSound
<1>2. /\ stack = <<RootItem>> /\ Len(stack) = 1 /\ stack[1] = RootItem
      /\ RootItem.path = Root /\ RootItem.parent = None
      /\ \A p \in Paths : times[p] = 0
      /\ Root \in Paths /\ todo = {} /\ main = "loop" /\ announced = {}
  BY DEF Init, RootItem, Paths
<1>3. submitted = {} /\ q = <<>> /\ arg[Main] = None /\ \A w \in Workers : tpc[w] = "end"
  BY DEF Init, Pool!Init
<1>4. StackOK
  BY <1>2 DEF StackOK, Due, IsParent
<1>5. CurOK /\ TodoOK /\ ReportIsSubtree
  BY <1>2 DEF CurOK, TodoOK, ReportIsSubtree
<1>6. SeenOK
  BY <1>2, <1>3, PathsAssumption DEF SeenOK, InStack, WasSubmitted, Paths
<1>7. TasksOK
  BY <1>2, <1>3, PathsAssumption DEF TasksOK, Pending, ScanTasks, Paths
<1> QED
  BY <1>1, <1>4, <1>5, <1>6, <1>7 DEF IInv

\* The tree's functions, and the parents of tasks and items
LEMMA TreeFacts ==
    ASSUME TypeOK
    PROVE  /\ \A n \in Names : tree.parent[n] \in Paths /\ n \in Paths /\ n # Root
           /\ \A p \in Paths : p = Root \/ p \in Names
           /\ Root \in Paths
           /\ cur \in Items /\ stack \in Seq(Items)
           /\ \A i \in 1..Len(stack) : stack[i] \in Items
<1>1. stack \in Seq(Items) /\ cur \in Items
  BY DEF TypeOK, Items
<1>2. \A i \in 1..Len(stack) : stack[i] \in Items
  BY <1>1
<1>3. tree.parent \in [Names -> Paths]
  BY DEF TypeOK
<1> QED
  BY <1>1, <1>2, <1>3, PathsAssumption DEF Paths

\* A callback for a path that is due keeps the report closed under parents,
\* and what has been announced stays announced.
LEMMA DueCallback ==
    ASSUME TypeOK, ReportIsSubtree, NEW item \in Items, Announce(item), tree' = tree,
           times[item.path] = 0, IsParent(item.parent, item.path),
           item.path # Root => /\ times[item.parent] = 1
                               /\ tree.kind[item.path] \in {"dir", "file"}
    PROVE  /\ ReportIsSubtree'
           /\ times'[item.path] = 1
           /\ \A p \in Paths : times[p] = 1 => times'[p] = 1
           /\ \A p \in Paths \ {item.path} : times'[p] = times[p]
<1>1. /\ times'[item.path] = 1
      /\ \A p \in Paths \ {item.path} : times'[p] = times[p]
      /\ \A p \in Paths : times[p] = 1 => times'[p] = 1
  BY Announcing
<1>2. announced' = announced \cup {<<item.path, item.parent>>}
  BY DEF Announce
<1>3. ASSUME NEW call \in announced'
      PROVE  LET p == call[1]
                 parent == call[2]
             IN  /\ times'[p] = 1
                 /\ IsParent(parent, p)'
                 /\ p # Root => times'[parent] = 1 /\ tree'.kind[p] \in {"dir", "file"}
  <2>1. CASE call \in announced
    <3>1. call[1] \in Paths /\ call[2] \in Paths \cup {None}
      BY <2>1 DEF TypeOK
    <3>2. /\ times[call[1]] = 1 /\ IsParent(call[2], call[1])
          /\ call[1] # Root => times[call[2]] = 1 /\ tree.kind[call[1]] \in {"dir", "file"}
      BY <2>1 DEF ReportIsSubtree
    <3>3. call[1] # Root => call[2] \in Paths
      BY <3>1, <3>2, TreeFacts DEF IsParent
    <3> QED
      BY <1>1, <3>1, <3>2, <3>3 DEF IsParent
  <2>2. CASE call = <<item.path, item.parent>>
    <3>1. item.path \in Paths
      BY DEF Items
    <3>2. item.path # Root => item.parent \in Paths
      BY <3>1, TreeFacts DEF IsParent
    <3> QED
      BY <1>1, <2>2, <3>1, <3>2 DEF IsParent
  <2> QED
    BY <1>2, <2>1, <2>2
<1> QED
  BY <1>1, <1>3 DEF ReportIsSubtree

LEMMA PendingTasks ==
    ASSUME PoolInv
    PROVE  /\ \A t \in ScanTasks : Pending(t) => t \in submitted
           /\ \A t \in submitted : t \in ScanTasks /\ t.path \in Names /\ t.parent \in Paths
<1>1. ASSUME NEW t \in ScanTasks, Pending(t)
      PROVE  t \in submitted
  BY <1>1, PoolFacts DEF Pending
<1>2. \A t \in submitted : t \in ScanTasks /\ t.path \in Names /\ t.parent \in Paths
  BY PoolFacts DEF ScanTasks
<1> QED
  BY <1>1, <1>2

\* There is one task for a path.
LEMMA SameTask ==
    ASSUME PoolInv, TasksOK, NEW t \in submitted, NEW u \in submitted, t.path = u.path
    PROVE  t = u
<1>1. t \in ScanTasks /\ u \in ScanTasks /\ t.path # Root
  BY PendingTasks, PathsAssumption
<1>2. t.parent = u.parent
  BY <1>1 DEF TasksOK, IsParent
<1> QED
  BY <1>1, <1>2 DEF ScanTasks

\* The parts of the invariant about paths
Walk == StackOK /\ CurOK /\ TodoOK /\ SeenOK /\ TasksOK /\ ReportIsSubtree

\* A step that announces nothing, submits nothing and moves no directory
LEMMA QuietStep ==
    ASSUME Walk, UNCHANGED <<tree, main, stack, cur, todo, times, announced, submitted>>,
           \A t \in ScanTasks : Pending(t)' => Pending(t),
           \A w \in Workers :
               tpc'[w] \in {"lock", "file"} => tree.kind[task'[w].path] = "file"
    PROVE  Walk'
<1> USE DEF Walk, InStack, WasSubmitted, Due, IsParent, Children
<1>1. StackOK' /\ CurOK'
  BY DEF StackOK, CurOK
<1>2. TodoOK' /\ SeenOK'
  BY DEF TodoOK, SeenOK
<1>3. TasksOK'
  BY DEF TasksOK
<1>4. ReportIsSubtree'
  BY DEF ReportIsSubtree
<1> QED
  BY <1>1, <1>2, <1>3, <1>4

\* Neither the mutex nor the pool moves when the walk does.
LEMMA WalkKeepsTasks ==
    ASSUME UNCHANGED <<poolVars, tpc>>
    PROVE  /\ submitted' = submitted /\ task' = task
           /\ \A t : Pending(t)' <=> Pending(t)
BY DEF poolVars, Pending

LEMMA OpenDirWalk ==
    ASSUME Sound, Walk, OpenDir
    PROVE  Walk'
<1> DEFINE d == Last(stack)
<1>1. /\ stack \in Seq(Items) /\ stack # <<>> /\ main = "loop"
      /\ stack' = Front(stack) /\ cur' = d /\ todo' = Children(d.path) /\ main' = "opened"
      /\ UNCHANGED <<tree, times, announced, poolVars, tpc>>
  BY TreeFacts DEF OpenDir, report, Sound
<1>2. /\ Len(stack') = Len(stack) - 1 /\ Len(stack) \in Nat \ {0}
      /\ \A i \in 1..Len(stack') : i \in 1..Len(stack) /\ stack'[i] = stack[i]
      /\ d = stack[Len(stack)] /\ d \in Items
  BY <1>1, Popped
<1>3. /\ Len(stack) \in 1..Len(stack)
      /\ \A i \in 1..Len(stack') : i # Len(stack)
  BY <1>2
<1>4. Due(d) /\ times[d.path] = 0
  BY <1>2, <1>3 DEF Walk, StackOK
<1>5. \A i \in 1..Len(stack') : stack'[i].path # d.path
  BY <1>2, <1>3 DEF Walk, StackOK
<1>6. submitted' = submitted /\ task' = task /\ \A t : Pending(t)' <=> Pending(t)
  BY <1>1, WalkKeepsTasks
<1>7. StackOK' /\ CurOK'
  <2>1. \A i, j \in 1..Len(stack') : stack'[i].path = stack'[j].path => i = j
    BY <1>2 DEF Walk, StackOK
  <2>2. \A i \in 1..Len(stack') : Due(stack'[i]) /\ times[stack'[i].path] = 0
    BY <1>2 DEF Walk, StackOK
  <2>3. StackOK'
    BY <1>1, <2>1, <2>2 DEF StackOK, Due, IsParent
  <2> QED
    BY <1>1, <1>4, <1>5, <2>3 DEF CurOK, Due, IsParent, InStack
<1>8. \A p : InStack(p)' => InStack(p)
  BY <1>2 DEF InStack
<1>9. \A n \in Children(d.path) : n \in Names /\ tree.parent[n] = d.path
  BY DEF Children
<1>10. \A n \in Children(d.path) : times[n] = 0 /\ ~InStack(n) /\ ~WasSubmitted(n)
  BY <1>4, <1>9 DEF Walk, SeenOK
<1>11. TodoOK'
  BY <1>1, <1>6, <1>8, <1>10 DEF TodoOK, Children, WasSubmitted
<1>12. SeenOK' /\ TasksOK' /\ ReportIsSubtree'
  BY <1>1, <1>6, <1>8
     DEF Walk, SeenOK, TasksOK, ReportIsSubtree, WasSubmitted, IsParent
<1> QED
  BY <1>7, <1>11, <1>12 DEF Walk

LEMMA OpenDirFailsWalk ==
    ASSUME Sound, Walk, OpenDirFails
    PROVE  Walk'
<1>1. /\ stack \in Seq(Items) /\ stack # <<>> /\ stack' = Front(stack)
      /\ UNCHANGED <<tree, main, cur, todo, times, announced, poolVars, tpc>>
  BY TreeFacts DEF OpenDirFails, Sound
<1>2. \A i \in 1..Len(stack') : i \in 1..Len(stack) /\ stack'[i] = stack[i]
  BY <1>1, Popped
<1>3. submitted' = submitted /\ task' = task /\ \A t : Pending(t)' <=> Pending(t)
  BY <1>1, WalkKeepsTasks
<1>4. \A p : InStack(p)' => InStack(p)
  BY <1>2 DEF InStack
<1>5. StackOK' /\ CurOK'
  BY <1>1, <1>2, <1>4 DEF Walk, StackOK, CurOK, Due, IsParent
<1>6. TodoOK' /\ SeenOK' /\ TasksOK' /\ ReportIsSubtree'
  BY <1>1, <1>3, <1>4
     DEF Walk, TodoOK, SeenOK, TasksOK, ReportIsSubtree, WasSubmitted, IsParent, Children
<1> QED
  BY <1>5, <1>6 DEF Walk

LEMMA FoundDirWalk ==
    ASSUME Sound, Walk, NEW n \in Names, FoundDir(n)
    PROVE  Walk'
<1> DEFINE d == [path |-> n, parent |-> cur.path]
<1>1. /\ main = "iterate" /\ n \in todo /\ todo' = todo \ {n} /\ tree.kind[n] = "dir"
      /\ stack \in Seq(Items) /\ stack' = Append(stack, d)
      /\ UNCHANGED <<tree, main, cur, times, announced, poolVars, tpc>>
  BY TreeFacts DEF FoundDir, AtEntry, Sound
<1>2. /\ times[cur.path] = 1 /\ tree.parent[n] = cur.path
      /\ times[n] = 0 /\ ~InStack(n) /\ ~WasSubmitted(n)
  BY <1>1 DEF Walk, CurOK, TodoOK, Children
<1>3. d \in Items /\ n # Root
  BY TreeFacts DEF Sound, Items
<1>4. /\ Len(stack) \in Nat /\ Len(stack') = Len(stack) + 1
      /\ \A i \in 1..Len(stack) : stack'[i] = stack[i]
      /\ stack'[Len(stack) + 1] = d
  BY <1>1, <1>3, AppendProperties, LenProperties
<1>5. \A i \in 1..Len(stack') : i \in 1..Len(stack) \/ i = Len(stack) + 1
  BY <1>4
<1>6. Due(d)
  BY <1>1, <1>2, <1>3 DEF Due, IsParent
<1>7. submitted' = submitted /\ task' = task /\ \A t : Pending(t)' <=> Pending(t)
  BY <1>1, WalkKeepsTasks
<1>8. \A p : InStack(p)' => InStack(p) \/ p = n
  BY <1>4, <1>5 DEF InStack
<1>9. StackOK'
  <2>1. \A i, j \in 1..Len(stack') : stack'[i].path = stack'[j].path => i = j
    BY <1>2, <1>4, <1>5 DEF Walk, StackOK, InStack
  <2>2. \A i \in 1..Len(stack') : Due(stack'[i]) /\ times[stack'[i].path] = 0
    BY <1>2, <1>4, <1>5, <1>6 DEF Walk, StackOK
  <2> QED
    BY <1>1, <2>1, <2>2 DEF StackOK, Due, IsParent
<1>10. CurOK' /\ TodoOK'
  BY <1>1, <1>7, <1>8 DEF Walk, CurOK, TodoOK, WasSubmitted, Children, Due, IsParent
<1>11. SeenOK' /\ TasksOK' /\ ReportIsSubtree'
  BY <1>1, <1>2, <1>7, <1>8
     DEF Walk, SeenOK, TasksOK, ReportIsSubtree, WasSubmitted, IsParent
<1> QED
  BY <1>9, <1>10, <1>11 DEF Walk

LEMMA FoundFileWalk ==
    ASSUME Sound, Walk, NEW n \in Names, FoundFile(n)
    PROVE  Walk'
<1> DEFINE t == [path |-> n, parent |-> cur.path]
<1>1. /\ main = "iterate" /\ n \in todo /\ todo' = todo \ {n}
      /\ tree.kind[n] \in {"file", "empty"}
      /\ submitted' = submitted \cup {t} /\ arg' = [arg EXCEPT ![Main] = t]
      /\ UNCHANGED <<tree, main, cur, stack, times, announced, task, q, tpc>>
  BY DEF FoundFile, AtEntry, Pool!BeginSubmit, Pool!state
<1>2. /\ times[cur.path] = 1 /\ tree.parent[n] = cur.path
      /\ times[n] = 0 /\ ~InStack(n)
  BY <1>1 DEF Walk, CurOK, TodoOK, Children
<1>3. n # Root /\ arg'[Main] = t
  BY <1>1, TreeFacts, PoolFacts DEF Sound
<1>4. ASSUME NEW u, Pending(u)'
      PROVE  Pending(u) \/ u = t
  <2>1. q' = q /\ task' = task /\ tpc' = tpc
    BY <1>1
  <2> QED
    BY <1>3, <1>4, <2>1 DEF Pending
<1>5. \A m : WasSubmitted(m)' <=> WasSubmitted(m) \/ m = n
  <2>1. submitted' = submitted \cup {t} /\ t.path = n
    BY <1>1
  <2> HIDE DEF t
  <2> QED
    BY <2>1 DEF WasSubmitted
<1>6. StackOK' /\ CurOK'
  BY <1>1 DEF Walk, StackOK, CurOK, Due, IsParent, InStack
<1>7. TodoOK'
  BY <1>1, <1>5 DEF Walk, TodoOK, InStack, Children
<1>8. SeenOK'
  BY <1>1, <1>2, <1>5 DEF Walk, SeenOK, InStack
<1>9. TasksOK'
  <2>1. \A u \in submitted' :
           /\ IsParent(u.parent, u.path) /\ times[u.parent] = 1
           /\ tree.kind[u.path] \in {"file", "empty"}
    <3>1. t.path = n /\ t.parent = cur.path
      OBVIOUS
    <3>2. IsParent(t.parent, t.path) /\ times[t.parent] = 1
      BY <1>2, <1>3, <3>1 DEF IsParent
    <3> HIDE DEF t
    <3> QED
      BY <1>1, <3>1, <3>2 DEF Walk, TasksOK
  <2>2. \A u \in ScanTasks : Pending(u)' => times[u.path] = 0
    BY <1>2, <1>4 DEF Walk, TasksOK
  <2> QED
    BY <1>1, <2>1, <2>2 DEF Walk, TasksOK, IsParent
<1>10. ReportIsSubtree'
  BY <1>1 DEF Walk, ReportIsSubtree, IsParent
<1> QED
  BY <1>6, <1>7, <1>8, <1>9, <1>10 DEF Walk

\* The directory that is being announced is not below itself, and no task has
\* its path.
LEMMA DirCallbackWalk ==
    ASSUME Sound, Walk, DirCallbackReturns
    PROVE  Walk'
<1>1. /\ main = "announcing" /\ main' = "iterate" /\ Announce(cur)
      /\ UNCHANGED <<tree, stack, cur, todo, tpc, poolVars>>
  BY DEF DirCallbackReturns
<1>2. /\ cur \in Items /\ cur.path \in Paths
      /\ Due(cur) /\ times[cur.path] = 0 /\ ~InStack(cur.path)
  BY <1>1, TreeFacts DEF Sound, Walk, CurOK, Items
<1>3. /\ ReportIsSubtree' /\ times'[cur.path] = 1
      /\ \A p \in Paths : times[p] = 1 => times'[p] = 1
      /\ \A p \in Paths \ {cur.path} : times'[p] = times[p]
  BY <1>1, <1>2, DueCallback DEF Sound, Walk, Due
<1>4. submitted' = submitted /\ task' = task /\ \A t : Pending(t)' <=> Pending(t)
  BY <1>1, WalkKeepsTasks
<1>5. /\ \A n \in Names : tree.parent[n] \in Paths /\ n \in Paths /\ n # Root
      /\ \A p \in Paths : p = Root \/ p \in Names
      /\ \A i \in 1..Len(stack) : stack[i].path \in Paths
  BY TreeFacts DEF Sound, Items
<1>6. StackOK'
  <2>1. ASSUME NEW i \in 1..Len(stack)
        PROVE  Due(stack[i])' /\ times'[stack[i].path] = 0
    <3>1. Due(stack[i]) /\ times[stack[i].path] = 0 /\ stack[i].path # cur.path
      BY <1>2 DEF Walk, StackOK, InStack
    <3>2. stack[i].path # Root => stack[i].parent \in Paths
      BY <1>5, <3>1 DEF Due, IsParent
    <3> QED
      BY <1>1, <1>3, <1>5, <3>1, <3>2 DEF Due, IsParent
  <2> QED
    BY <1>1, <2>1 DEF Walk, StackOK
<1>7. CurOK'
  BY <1>1, <1>3 DEF CurOK
<1>8. cur.path \notin todo
  BY <1>2, <1>5 DEF Walk, TodoOK, Children, Due, IsParent
<1>9. TodoOK'
  BY <1>1, <1>3, <1>4, <1>5, <1>8
     DEF Walk, TodoOK, Children, InStack, WasSubmitted
<1>10. SeenOK'
  <2>1. ASSUME NEW n \in Names, times'[n] # 0 \/ InStack(n) \/ WasSubmitted(n)
        PROVE  times[tree.parent[n]] = 1
    <3>1. CASE n = cur.path
      BY <1>2, <1>5, <3>1 DEF Due, IsParent
    <3>2. CASE n # cur.path
      BY <1>3, <1>5, <2>1, <3>2 DEF Walk, SeenOK
    <3> QED
      BY <3>1, <3>2
  <2> QED
    BY <1>1, <1>3, <1>4, <1>5, <2>1 DEF SeenOK, InStack, WasSubmitted
<1>11. TasksOK'
  <2>1. \A t \in submitted : t.path # cur.path /\ t.path \in Paths /\ t.parent \in Paths
    BY <1>2, <1>5, PendingTasks DEF Sound, Walk, TasksOK, Due
  <2>2. \A t \in ScanTasks : Pending(t) => t \in submitted
    BY PendingTasks DEF Sound
  <2> QED
    BY <1>1, <1>3, <1>4, <2>1, <2>2 DEF Walk, TasksOK, IsParent
<1> QED
  BY <1>3, <1>6, <1>7, <1>9, <1>10, <1>11 DEF Walk

\* The file that is announced belongs to this worker's task alone.
LEMMA FileCallbackWalk ==
    ASSUME Sound, Walk, NEW w \in Workers, FileCallbackReturns(w)
    PROVE  Walk'
<1> DEFINE u == task[w]
<1>1. /\ tpc[w] = "file" /\ tpc' = [tpc EXCEPT ![w] = "end"] /\ Announce(u)
      /\ UNCHANGED <<tree, main, stack, cur, todo>>
      /\ UNCHANGED <<submitted, task, q, arg>>
  BY DEF FileCallbackReturns, walk, poolVars
<1>2. u \in ScanTasks /\ tpc \in [Workers -> {"hash", "lock", "file", "end"}]
  BY <1>1 DEF Sound, Handling, TypeOK
<1>3. u \in submitted /\ u \in Items /\ u.path \in Names /\ Pending(u)
  BY <1>1, <1>2, PoolFacts DEF Sound, ScanTasks, Items, Paths, Pending
<1>4. /\ times[u.path] = 0 /\ IsParent(u.parent, u.path) /\ times[u.parent] = 1
      /\ tree.kind[u.path] = "file" /\ WasSubmitted(u.path)
  BY <1>1, <1>2, <1>3 DEF Walk, TasksOK, WasSubmitted
<1>5. /\ ReportIsSubtree' /\ times'[u.path] = 1
      /\ \A p \in Paths : times[p] = 1 => times'[p] = 1
      /\ \A p \in Paths \ {u.path} : times'[p] = times[p]
  BY <1>1, <1>3, <1>4, DueCallback DEF Sound, Walk
<1>6. /\ \A n \in Names : tree.parent[n] \in Paths /\ n \in Paths /\ n # Root
      /\ \A p \in Paths : p = Root \/ p \in Names
      /\ \A i \in 1..Len(stack) : stack[i].path \in Paths
      /\ cur.path \in Paths
  BY TreeFacts DEF Sound, Items
<1> HIDE DEF u
<1>7. StackOK'
  <2>1. ASSUME NEW i \in 1..Len(stack)
        PROVE  Due(stack[i])' /\ times'[stack[i].path] = 0
    <3>1. Due(stack[i]) /\ times[stack[i].path] = 0
      BY DEF Walk, StackOK
    <3>2. stack[i].path # u.path
      BY <1>3, <1>4, <1>6, <3>1 DEF Due
    <3>3. stack[i].path # Root => stack[i].parent \in Paths
      BY <1>6, <3>1 DEF Due, IsParent
    <3> QED
      BY <1>1, <1>5, <1>6, <3>1, <3>2, <3>3 DEF Due, IsParent
  <2> QED
    BY <1>1, <2>1 DEF Walk, StackOK
<1>8. CurOK'
  <2>1. CASE main \in {"opened", "announcing"}
    <3>1. Due(cur) /\ times[cur.path] = 0 /\ ~InStack(cur.path)
      BY <2>1 DEF Walk, CurOK
    <3>2. cur.path # u.path
      BY <1>3, <1>4, <1>6, <3>1 DEF Due
    <3>3. cur.path # Root => cur.parent \in Paths
      BY <1>6, <3>1 DEF Due, IsParent
    <3> QED
      BY <1>1, <1>5, <1>6, <2>1, <3>1, <3>2, <3>3 DEF CurOK, Due, IsParent, InStack
  <2>2. CASE main \notin {"opened", "announcing"}
    BY <1>1, <1>5, <1>6, <2>2 DEF Walk, CurOK
  <2> QED
    BY <2>1, <2>2
<1>9. TodoOK'
  BY <1>1, <1>4, <1>5, <1>6 DEF Walk, TodoOK, Children, InStack, WasSubmitted
<1>10. SeenOK'
  <2>1. ASSUME NEW n \in Names, times'[n] # 0 \/ InStack(n) \/ WasSubmitted(n)
        PROVE  times[tree.parent[n]] = 1
    BY <1>4, <1>5, <1>6, <2>1 DEF Walk, SeenOK
  <2> QED
    BY <1>1, <1>5, <1>6, <2>1 DEF SeenOK, InStack, WasSubmitted
<1>11. ASSUME NEW t \in ScanTasks, Pending(t)'
       PROVE  Pending(t) /\ t # u
  <2>1. Pending(t)
    BY <1>1, <1>2, <1>11 DEF Pending
  <2>2. /\ \A i \in 1..Len(q) : q[i] # u
        /\ arg[Main] # u
        /\ \A v \in Workers : task[v] = u => v = w
    BY <1>2, TaskOfOne DEF Sound, u
  <2>3. \A v \in Workers : task[v] = u => tpc'[v] = "end"
    BY <1>1, <1>2, <2>2
  <2> QED
    BY <1>1, <1>11, <2>1, <2>2, <2>3 DEF Pending
<1>12. TasksOK'
  <2>1. \A t \in submitted : t.path \in Paths /\ t.parent \in Paths
    BY <1>6, PendingTasks DEF Sound
  <2>2. \A t \in ScanTasks : Pending(t)' => times[t.path] = 0 /\ t.path # u.path /\ t \in submitted
    BY <1>3, <1>11, PendingTasks, SameTask DEF Sound, Walk, TasksOK
  <2>3. \A t \in ScanTasks : Pending(t)' => times'[t.path] = 0
    BY <1>5, <2>1, <2>2
  <2>4. \A v \in Workers : tpc'[v] \in {"lock", "file"} => tree.kind[task[v].path] = "file"
    BY <1>1, <1>2 DEF Walk, TasksOK
  <2> QED
    BY <1>1, <1>5, <2>1, <2>3, <2>4 DEF Walk, TasksOK, IsParent
<1> QED
  BY <1>5, <1>7, <1>8, <1>9, <1>10, <1>12 DEF Walk

LEMMA NextWalk ==
    ASSUME Sound, Walk, [Next]_vars
    PROVE  Walk'
<1> USE DEF Sound
<1>1. CASE OpenDir \/ OpenDirFails \/ DirCallbackReturns
  BY <1>1, OpenDirWalk, OpenDirFailsWalk, DirCallbackWalk
<1>2. CASE DirCallback \/ DirEnd \/ IncrementFails \/ Return
  <2>1. /\ UNCHANGED <<tree, stack, cur, times, announced, poolVars, tpc>>
        /\ \/ main = "opened" /\ main' = "announcing" /\ todo' = todo
           \/ main' \in {"loop", "return"} /\ todo' = {}
    BY <1>2 DEF DirCallback, DirEnd, IncrementFails, Return, report, Walk, TodoOK
  <2>2. submitted' = submitted /\ task' = task /\ \A t : Pending(t)' <=> Pending(t)
    BY <2>1, WalkKeepsTasks
  <2>3. StackOK' /\ CurOK' /\ TodoOK'
    BY <2>1, <2>2 DEF Walk, StackOK, CurOK, TodoOK, Due, IsParent, InStack, WasSubmitted,
                      Children
  <2>4. SeenOK' /\ TasksOK' /\ ReportIsSubtree'
    BY <2>1, <2>2
       DEF Walk, SeenOK, TasksOK, ReportIsSubtree, InStack, WasSubmitted, IsParent
  <2> QED
    BY <2>3, <2>4 DEF Walk
<1>3. ASSUME NEW n \in Names, IgnoreEntry(n) \/ EntryFails(n)
      PROVE  Walk'
  <2>1. /\ UNCHANGED <<tree, main, stack, cur, times, announced, poolVars, tpc>>
        /\ todo' = todo \ {n} /\ main = "iterate"
    BY <1>3 DEF IgnoreEntry, EntryFails, AtEntry
  <2>2. submitted' = submitted /\ task' = task /\ \A t : Pending(t)' <=> Pending(t)
    BY <2>1, WalkKeepsTasks
  <2>3. StackOK' /\ CurOK' /\ TodoOK'
    BY <2>1, <2>2 DEF Walk, StackOK, CurOK, TodoOK, Due, IsParent, InStack, WasSubmitted,
                      Children
  <2>4. SeenOK' /\ TasksOK' /\ ReportIsSubtree'
    BY <2>1, <2>2
       DEF Walk, SeenOK, TasksOK, ReportIsSubtree, InStack, WasSubmitted, IsParent
  <2> QED
    BY <2>3, <2>4 DEF Walk
<1>4. ASSUME NEW n \in Names, FoundDir(n) \/ FoundFile(n)
      PROVE  Walk'
  BY <1>4, FoundDirWalk, FoundFileWalk
<1>5. ASSUME NEW w \in Workers, FileCallbackReturns(w)
      PROVE  Walk'
  BY <1>5, FileCallbackWalk
<1>6. CASE Pool!SubmitPush(Main) /\ UNCHANGED <<walk, holder, mutexAlive, tpc, report>>
  <2>1. /\ q' = Append(q, arg[Main]) /\ arg' = [arg EXCEPT ![Main] = None]
        /\ UNCHANGED <<submitted, task, tpc, tree, main, stack, cur, todo, times, announced>>
    BY <1>6 DEF Pool!SubmitPush, Pool!Enqueue, walk, report
  <2>2. q \in Seq(ScanTasks) /\ arg'[Main] = None /\ arg[Main] \in ScanTasks \cup {None}
    BY <2>1, PoolFacts
  <2>3. /\ Len(q') = Len(q) + 1 /\ Len(q) \in Nat
        /\ \A i \in 1..Len(q) : q'[i] = q[i]
        /\ q'[Len(q) + 1] = arg[Main]
    BY <2>1, <2>2, AppendProperties, LenProperties
  <2>4. \A i \in 1..Len(q') : i \in 1..Len(q) \/ i = Len(q) + 1
    BY <2>3
  <2>5. \A t \in ScanTasks : Pending(t)' => Pending(t)
    BY <2>1, <2>2, <2>3, <2>4, PathsAssumption DEF Pending
  <2> QED
    BY <2>1, <2>5, QuietStep DEF Walk, TasksOK
<1>7. ASSUME NEW w \in Workers, TakeTask(w)
      PROVE  Walk'
  <2>1. /\ q # <<>> /\ q' = Tail(q) /\ task' = [task EXCEPT ![w] = Head(q)]
        /\ tpc' = [tpc EXCEPT ![w] = "hash"]
        /\ UNCHANGED <<submitted, arg, tree, main, stack, cur, todo, times, announced>>
    BY <1>7 DEF TakeTask, Pool!Take, Pool!Dequeue, walk, report
  <2>2. /\ q \in Seq(ScanTasks) /\ task \in [Workers -> ScanTasks \cup {None}]
        /\ tpc \in [Workers -> {"hash", "lock", "file", "end"}]
    BY PoolFacts DEF TypeOK
  <2>3. /\ Len(q') = Len(q) - 1 /\ Len(q) \in Nat \ {0}
        /\ \A i \in 1..Len(q') : q'[i] = q[i + 1]
        /\ Head(q) = q[1]
    BY <2>1, <2>2, HeadTailProperties, EmptySeq
  <2>4. 1 \in 1..Len(q) /\ \A i \in 1..Len(q') : i + 1 \in 1..Len(q)
    BY <2>3
  <2>5. \A t \in ScanTasks : Pending(t)' => Pending(t)
    BY <2>1, <2>2, <2>3, <2>4 DEF Pending
  <2>6. \A v \in Workers : tpc'[v] \in {"lock", "file"} => tree.kind[task'[v].path] = "file"
    BY <2>1, <2>2 DEF Walk, TasksOK
  <2> QED
    BY <2>1, <2>5, <2>6, QuietStep
<1>8. ASSUME NEW w \in Workers,
             Hashed(w) \/ HashingFails(w) \/ FileCallback(w) \/ TaskReturns(w)
      PROVE  Walk'
  <2>1. /\ task \in [Workers -> ScanTasks \cup {None}]
        /\ tpc \in [Workers -> {"hash", "lock", "file", "end"}]
    BY PoolFacts DEF TypeOK
  <2>2. /\ UNCHANGED <<q, arg, submitted, tree, main, stack, cur, todo, times, announced>>
        /\ \A v \in Workers : v # w => task'[v] = task[v] /\ tpc'[v] = tpc[v]
    <3>1. CASE Hashed(w) \/ HashingFails(w) \/ FileCallback(w)
      BY <2>1, <3>1 DEF Hashed, HashingFails, FileCallback, walk, report, poolVars
    <3>2. CASE TaskReturns(w)
      BY <2>1, <3>2 DEF TaskReturns, Pool!Finish, Pool!state, walk, report
    <3> QED
      BY <1>8, <3>1, <3>2
  <2>3. \/ task'[w] = task[w] /\ tpc[w] # "end"
        \/ task'[w] = None /\ tpc'[w] = "end"
    BY <1>8, <2>1 DEF Hashed, HashingFails, FileCallback, TaskReturns, Pool!Finish, poolVars
  <2>4. tpc'[w] \in {"lock", "file"} => tree.kind[task'[w].path] = "file"
    <3>1. CASE Hashed(w)
      BY <2>1, <3>1 DEF Hashed, HasContent, poolVars
    <3>2. CASE FileCallback(w)
      BY <2>1, <3>2 DEF FileCallback, poolVars, Walk, TasksOK
    <3>3. CASE HashingFails(w) \/ TaskReturns(w)
      BY <2>1, <3>3 DEF HashingFails, TaskReturns
    <3> QED
      BY <1>8, <3>1, <3>2, <3>3
  <2>5. \A t \in ScanTasks : Pending(t)' => Pending(t)
    BY <2>2, <2>3 DEF Pending
  <2> QED
    BY <2>2, <2>4, <2>5, QuietStep DEF Walk, TasksOK
<1>9. CASE \/ Pool!SubmitWait(Main) /\ UNCHANGED <<walk, holder, mutexAlive, tpc, report>>
           \/ Pool!StopStep /\ UNCHANGED <<walk, holder, mutexAlive, tpc, report>>
           \/ DestroyPool \/ SpuriousWake \/ Terminated \/ UNCHANGED vars
           \/ \E w \in Workers : WorkerInPool(w)
  <2>1. UNCHANGED <<q, arg, task, tpc, submitted, tree, main, stack, cur, todo, times,
                    announced>>
    BY <1>9 DEF Pool!SubmitWait, Pool!StopStep, Pool!StopWait, Pool!StopClose,
                Pool!StopJoin, Pool!DestroyEnd, DestroyPool, Pool!BeginDestroy,
                SpuriousWake, Pool!SpuriousWakeWorker, Pool!SpuriousWakeCaller,
                WorkerInPool, Pool!Sleep, Pool!Exit, Terminated, vars, poolVars, walk,
                report, Pool!state
  <2> QED
    BY <2>1, QuietStep DEF Walk, TasksOK, Pending
<1> QED
  BY <1>1, <1>2, <1>3, <1>4, <1>5, <1>6, <1>7, <1>8, <1>9
     DEF Next, MainStep, WorkerStep, MainInPool, Pool!SubmitStep

\* Whatever the tree, the failures and the interleaving of the walk with any
\* number of workers: each path is announced at most once, with its own
\* directory, after it, and nothing else than directories and files with
\* content is announced.
THEOREM ReportIsClosed == Spec => []ReportIsSubtree
<1>1. Init => IInv
  BY InitIInv
<1>2. IInv /\ [Next]_vars => IInv'
  BY NextSound, NextWalk DEF IInv, Walk
<1>3. IInv => ReportIsSubtree
  BY DEF IInv
<1> QED
  BY <1>1, <1>2, <1>3, PTL DEF Spec

-----------------------------------------------------------------------------
(* Nothing is lost: what is below an announced directory is settled, or in    *)
(* one of the places where it waits to be.                                    *)

Settled(n) == times[n] = 1 \/ n \in skipped \/ tree.kind[n] \notin {"dir", "file"}

Ahead(p) == InStack(p) \/ (main \in {"opened", "announcing"} /\ cur.path = p)

PhaseOK ==
    /\ tree \in Trees
    /\ main = "return" => stack = <<>>
    /\ life # "open" => main = "return"
    /\ main \in {"opened", "announcing"} => todo = Children(cur.path)

RootOK == times[Root] = 1 \/ Root \in skipped \/ Ahead(Root)

CoverOK ==
    \A n \in Names :
        times[tree.parent[n]] # 0 =>
            \/ Settled(n) \/ tree.parent[n] \in skipped
            \/ n \in todo \/ Ahead(n) \/ WasSubmitted(n)

AcceptedOK == \A t \in submitted : Pending(t) \/ Settled(t.path)

Complete == PhaseOK /\ RootOK /\ CoverOK /\ AcceptedOK

LEMMA InitComplete == Init => Complete
<1> SUFFICES ASSUME Init PROVE Complete
  OBVIOUS
<1>1. /\ stack = <<RootItem>> /\ Len(stack) = 1 /\ stack[1] = RootItem /\ tree \in Trees
      /\ RootItem.path = Root /\ main = "loop" /\ life = "open" /\ submitted = {}
      /\ \A p \in Paths : times[p] = 0
  BY DEF Init, Pool!Init, RootItem, Paths
<1>2. \A n \in Names : tree.parent[n] \in Paths
  BY InitTypeOK, TreeFacts
<1> QED
  BY <1>1, <1>2 DEF Complete, PhaseOK, RootOK, CoverOK, AcceptedOK, Ahead, InStack

\* A step of the pool or of a task
LEMMA QuietComplete ==
    ASSUME Complete, UNCHANGED <<tree, main, stack, cur, todo, submitted>>,
           \A p \in Paths : times[p] = 1 => times'[p] = 1,
           \A n \in Names : tree.parent[n] \in Paths /\ n \in Paths, Root \in Paths,
           \A n \in Names : times'[tree.parent[n]] # 0 => times[tree.parent[n]] # 0,
           \A t \in submitted : t.path \in Names,
           skipped \subseteq skipped',
           life' # "open" => main = "return",
           \A t \in submitted : Pending(t) => Pending(t)' \/ Settled(t.path)'
    PROVE  Complete'
<1>1. \A n \in Names : Settled(n) => Settled(n)'
  BY DEF Settled
<1>2. \A p : (Ahead(p)' <=> Ahead(p)) /\ (WasSubmitted(p)' <=> WasSubmitted(p))
  BY DEF Ahead, InStack, WasSubmitted
<1>3. PhaseOK' /\ RootOK'
  BY <1>2 DEF Complete, PhaseOK, RootOK, Children
<1>4. CoverOK'
  BY <1>1, <1>2 DEF Complete, CoverOK
<1>5. AcceptedOK'
  BY <1>1 DEF Complete, AcceptedOK
<1> QED
  BY <1>3, <1>4, <1>5 DEF Complete

\* The walk's steps; those of the threads and of the pool come below.
LEMMA OpenComplete ==
    ASSUME Sound, Walk, Complete, OpenDir \/ OpenDirFails
    PROVE  Complete'
<1> DEFINE d == Last(stack)
<1>1. /\ stack \in Seq(Items) /\ stack # <<>> /\ main = "loop" /\ stack' = Front(stack)
      /\ UNCHANGED <<tree, times, poolVars, tpc>>
      /\ \/ main' = "opened" /\ cur' = d /\ todo' = Children(d.path) /\ skipped' = skipped
         \/ main' = "loop" /\ cur' = cur /\ todo' = todo /\ skipped' = skipped \cup {d.path}
  BY TreeFacts DEF OpenDir, OpenDirFails, report, Sound
<1>2. /\ Len(stack') = Len(stack) - 1 /\ Len(stack) \in Nat \ {0}
      /\ \A i \in 1..Len(stack') : stack'[i] = stack[i]
      /\ d = stack[Len(stack)]
  BY <1>1, Popped
<1>3. \A i \in 1..Len(stack) : i \in 1..Len(stack') \/ i = Len(stack)
  BY <1>2
<1>4. \A p : InStack(p) => InStack(p)' \/ p = d.path
  BY <1>2, <1>3 DEF InStack
<1>5. todo = {} /\ life = "open" /\ life' = life
  BY <1>1 DEF Walk, TodoOK, Complete, PhaseOK, poolVars
<1>6. submitted' = submitted /\ \A t : Pending(t)' <=> Pending(t)
  BY <1>1, WalkKeepsTasks
<1>7. skipped \subseteq skipped' /\ \A p : Ahead(p) => Ahead(p)' \/ p \in skipped'
  BY <1>1, <1>4 DEF Ahead
<1>8. \A n : Settled(n) \/ n \in skipped' => Settled(n)'
  BY <1>1, <1>7 DEF Settled
<1> HIDE DEF d
<1>9. PhaseOK' /\ RootOK'
  BY <1>1, <1>5, <1>7 DEF Complete, PhaseOK, RootOK, Children
<1>10. CoverOK'
  BY <1>1, <1>5, <1>6, <1>7, <1>8 DEF Complete, CoverOK, WasSubmitted
<1>11. AcceptedOK'
  BY <1>6, <1>8 DEF Complete, AcceptedOK
<1> QED
  BY <1>9, <1>10, <1>11 DEF Complete

LEMMA DirCallbackComplete ==
    ASSUME Sound, Walk, Complete, DirCallback \/ DirCallbackReturns
    PROVE  Complete'
<1>1. /\ UNCHANGED <<tree, stack, cur, todo, skipped, poolVars, tpc>>
      /\ main \in {"opened", "announcing"} /\ todo = Children(cur.path)
      /\ cur \in Items /\ times[cur.path] = 0
  BY TreeFacts
     DEF DirCallback, DirCallbackReturns, report, Complete, PhaseOK, Walk, CurOK, Sound
<1>2. submitted' = submitted /\ life' = life /\ \A t : Pending(t)' <=> Pending(t)
  BY <1>1, WalkKeepsTasks DEF poolVars
<1>3. /\ \A n \in Names : tree.parent[n] \in Paths /\ n \in Paths
      /\ Root \in Paths /\ cur.path \in Paths
  BY <1>1, TreeFacts DEF Sound, Items
<1>4. CASE DirCallback
  <2>1. main' = "announcing" /\ times' = times
    BY <1>4 DEF DirCallback, report
  <2>2. \A p : (Ahead(p)' <=> Ahead(p)) /\ (Settled(p)' <=> Settled(p))
    BY <1>1, <2>1 DEF Ahead, InStack, Settled
  <2>3. PhaseOK' /\ RootOK'
    BY <1>1, <1>2, <2>1, <2>2 DEF Complete, PhaseOK, RootOK, Children
  <2>4. CoverOK' /\ AcceptedOK'
    BY <1>1, <1>2, <2>1, <2>2 DEF Complete, CoverOK, AcceptedOK, WasSubmitted
  <2> QED
    BY <2>3, <2>4 DEF Complete
<1>5. CASE DirCallbackReturns
  <2>1. main' = "iterate" /\ times'[cur.path] = 1
        /\ \A p \in Paths \ {cur.path} : times'[p] = times[p]
    BY <1>1, <1>3, <1>5, Announcing DEF DirCallbackReturns, Sound
  <2>2. \A p \in Paths : Ahead(p) => Ahead(p)' \/ times'[p] = 1
    BY <1>1, <2>1 DEF Ahead, InStack
  <2>3. \A n \in Names : Settled(n) => Settled(n)'
    BY <1>1, <1>3, <2>1 DEF Settled
  <2>4. PhaseOK' /\ RootOK'
    BY <1>1, <1>2, <1>3, <2>1, <2>2 DEF Complete, PhaseOK, RootOK
  <2>5. ASSUME NEW n \in Names, times'[tree.parent[n]] # 0
        PROVE  \/ Settled(n)' \/ tree.parent[n] \in skipped
               \/ n \in todo \/ Ahead(n)' \/ WasSubmitted(n)
    <3>1. CASE tree.parent[n] = cur.path
      BY <1>1, <3>1 DEF Children
    <3>2. CASE tree.parent[n] # cur.path
      <4>1. times[tree.parent[n]] # 0
        BY <1>3, <2>1, <2>5, <3>2
      <4> QED
        BY <1>3, <2>2, <2>3, <4>1 DEF Complete, CoverOK, Settled
    <3> QED
      BY <3>1, <3>2
  <2>6. CoverOK'
    BY <1>1, <1>2, <2>5 DEF CoverOK, WasSubmitted
  <2>7. AcceptedOK'
    BY <1>2, <2>3, PendingTasks DEF Complete, AcceptedOK, Sound
  <2> QED
    BY <2>4, <2>6, <2>7 DEF Complete
<1> QED
  BY <1>4, <1>5

LEMMA EntryComplete ==
    ASSUME Sound, Walk, Complete, NEW n \in Names,
           IgnoreEntry(n) \/ EntryFails(n) \/ FoundDir(n) \/ FoundFile(n)
    PROVE  Complete'
<1>1. /\ main = "iterate" /\ n \in todo /\ todo' = todo \ {n}
      /\ UNCHANGED <<tree, main, cur, times, life>>
  BY DEF IgnoreEntry, EntryFails, FoundDir, FoundFile, AtEntry, Pool!BeginSubmit, poolVars
<1>2. skipped \subseteq skipped'
  BY DEF IgnoreEntry, EntryFails, FoundDir, FoundFile
<1>3. life = "open"
  BY <1>1 DEF Complete, PhaseOK
<1>4. /\ \A p : InStack(p) => InStack(p)'
      /\ FoundDir(n) => InStack(n)'
  <2>1. CASE stack' = stack
    BY <2>1, <1>3 DEF InStack, FoundDir, AtEntry
  <2>2. CASE FoundDir(n)
    <3>1. stack \in Seq(Items) /\ [path |-> n, parent |-> cur.path] \in Items
      BY TreeFacts DEF Sound, Items
    <3>2. /\ Len(stack') = Len(stack) + 1 /\ Len(stack) \in Nat
          /\ \A i \in 1..Len(stack) : stack'[i] = stack[i]
          /\ stack'[Len(stack) + 1] = [path |-> n, parent |-> cur.path]
      BY <2>2, <3>1, AppendProperties, LenProperties DEF FoundDir
    <3>3. \A i \in 1..Len(stack) : i \in 1..Len(stack')
      BY <3>2
    <3>4. Len(stack) + 1 \in 1..Len(stack') /\ stack'[Len(stack) + 1].path = n
      BY <3>2
    <3> QED
      BY <3>2, <3>3, <3>4 DEF InStack
  <2> QED
    BY <2>1, <2>2 DEF IgnoreEntry, EntryFails, FoundFile
<1>5. ASSUME FoundFile(n)
      PROVE  \E t \in submitted' : t.path = n /\ Pending(t)'
  <2>1. /\ submitted' = submitted \cup {[path |-> n, parent |-> cur.path]}
        /\ arg' = [arg EXCEPT ![Main] = [path |-> n, parent |-> cur.path]]
    BY <1>5 DEF FoundFile, Pool!BeginSubmit
  <2>2. arg'[Main] = [path |-> n, parent |-> cur.path]
    BY <2>1, PoolFacts DEF Sound
  <2> QED
    BY <2>1, <2>2 DEF Pending
<1>6. /\ submitted \subseteq submitted'
      /\ \A t \in submitted' : t \in submitted \/ (FoundFile(n) /\ t.path = n /\ Pending(t)')
  <2>1. CASE FoundFile(n)
    <3>1. PICK t : t = [path |-> n, parent |-> cur.path]
      OBVIOUS
    <3>2. submitted' = submitted \cup {t} /\ arg' = [arg EXCEPT ![Main] = t]
      BY <2>1, <3>1 DEF FoundFile, Pool!BeginSubmit
    <3>3. arg'[Main] = t
      BY <3>2, PoolFacts DEF Sound
    <3>4. Pending(t)'
      BY <3>3 DEF Pending
    <3>5. t.path = n
      BY <3>1
    <3> QED
      BY <2>1, <3>2, <3>4, <3>5
  <2>2. CASE ~FoundFile(n)
    BY <2>2 DEF IgnoreEntry, EntryFails, FoundDir, poolVars
  <2> QED
    BY <2>1, <2>2
<1>7. \A t \in submitted : Pending(t) => Pending(t)'
  <2>1. CASE FoundFile(n)
    <3>1. arg[Main] \notin submitted /\ q' = q /\ task' = task /\ tpc' = tpc
      BY <2>1, PoolAssumptions
         DEF FoundFile, AtEntry, Pool!BeginSubmit, Pool!state, Sound, PoolInv, PoolProofs!IInv,
             PoolProofs!Shape, PoolProofs!ArgOK, PoolProofs!Busy, PoolProofs!TypeOK
    <3> QED
      BY <3>1 DEF Pending
  <2>2. CASE ~FoundFile(n)
    BY <2>2 DEF IgnoreEntry, EntryFails, FoundDir, AtEntry, Pending, poolVars
  <2> QED
    BY <2>1, <2>2
<1>8. \A m : Settled(m) => Settled(m)'
  BY <1>1, <1>2 DEF Settled
<1>9. \A p : Ahead(p) => Ahead(p)'
  BY <1>1, <1>4 DEF Ahead
<1>10. Settled(n)' \/ Ahead(n)' \/ WasSubmitted(n)'
  <2>1. CASE IgnoreEntry(n)
    BY <2>1 DEF IgnoreEntry, AtEntry, Settled
  <2>2. CASE EntryFails(n)
    BY <2>2 DEF EntryFails, Settled
  <2>3. CASE FoundDir(n)
    BY <1>4, <2>3 DEF Ahead
  <2>4. CASE FoundFile(n)
    BY <1>5, <2>4 DEF WasSubmitted
  <2> QED
    BY <2>1, <2>2, <2>3, <2>4
<1>11. PhaseOK' /\ RootOK'
  BY <1>1, <1>2, <1>3, <1>9 DEF Complete, PhaseOK, RootOK
<1>12. CoverOK'
  BY <1>1, <1>2, <1>6, <1>8, <1>9, <1>10 DEF Complete, CoverOK, WasSubmitted
<1>13. AcceptedOK'
  BY <1>6, <1>7, <1>8 DEF Complete, AcceptedOK
<1> QED
  BY <1>11, <1>12, <1>13 DEF Complete

LEMMA EndComplete ==
    ASSUME Sound, Walk, Complete, DirEnd \/ IncrementFails \/ Return
    PROVE  Complete'
<1>1. /\ UNCHANGED <<tree, stack, cur, times, poolVars, tpc>>
      /\ \/ DirEnd /\ main = "iterate" /\ main' = "loop" /\ todo = {} /\ todo' = {}
            /\ skipped' = skipped
         \/ IncrementFails /\ main = "iterate" /\ main' = "loop" /\ todo' = {}
            /\ skipped' = skipped \cup {cur.path}
         \/ Return /\ main = "loop" /\ main' = "return" /\ stack = <<>> /\ todo' = todo
            /\ skipped' = skipped
  BY DEF DirEnd, IncrementFails, Return, report
<1>2. submitted' = submitted /\ life' = life /\ \A t : Pending(t)' <=> Pending(t)
  BY <1>1, WalkKeepsTasks DEF poolVars
<1>3. \A p : Ahead(p)' <=> Ahead(p)
  BY <1>1 DEF Ahead, InStack
<1>4. skipped \subseteq skipped' /\ \A m : Settled(m) => Settled(m)'
  BY <1>1 DEF Settled
<1>5. \A m \in todo : m \in todo' \/ tree.parent[m] \in skipped'
  BY <1>1 DEF Walk, TodoOK, Children
<1>6. PhaseOK' /\ RootOK'
  BY <1>1, <1>2, <1>3, <1>4 DEF Complete, PhaseOK, RootOK
<1>7. CoverOK'
  BY <1>1, <1>2, <1>3, <1>4, <1>5 DEF Complete, CoverOK, WasSubmitted
<1>8. AcceptedOK'
  BY <1>2, <1>4 DEF Complete, AcceptedOK
<1> QED
  BY <1>6, <1>7, <1>8 DEF Complete

\* A step that announces nothing either
LEMMA SilentComplete ==
    ASSUME Sound, Complete, UNCHANGED <<tree, main, stack, cur, todo, submitted, times>>,
           skipped \subseteq skipped',
           life' # "open" => main = "return",
           \A t \in submitted : Pending(t) => Pending(t)' \/ Settled(t.path)'
    PROVE  Complete'
BY QuietComplete, TreeFacts, PendingTasks DEF Sound

\* The caller's steps in the pool: a task that it offers goes to the queue.
LEMMA CallerComplete ==
    ASSUME Sound, Walk, Complete, MainInPool \/ DestroyPool \/ SpuriousWake
    PROVE  Complete'
<1>1. UNCHANGED <<tree, main, stack, cur, todo, times, skipped, tpc>>
  BY DEF MainInPool, DestroyPool, SpuriousWake, walk, report
<1>2. CASE Pool!SubmitPush(Main)
  <2>1. /\ q' = Append(q, arg[Main]) /\ UNCHANGED <<submitted, task, life>>
        /\ arg' = [arg EXCEPT ![Main] = None]
    BY <1>2 DEF Pool!SubmitPush, Pool!Enqueue
  <2>2. q \in Seq(ScanTasks)
    BY PoolFacts DEF Sound
  <2>3. arg[Main] \in ScanTasks \cup {None}
    BY PoolFacts DEF Sound
  <2>4. cpc[Main] # "idle"
    BY <1>2 DEF Pool!SubmitPush
  <2>5. arg[Main] \in ScanTasks
    BY <2>4, PoolAssumptions
       DEF Sound, PoolInv, PoolProofs!IInv, PoolProofs!Shape, PoolProofs!ArgOK,
           PoolProofs!Busy
  <2>6. /\ Len(q') = Len(q) + 1 /\ Len(q) \in Nat
        /\ \A i \in 1..Len(q) : q'[i] = q[i]
        /\ q'[Len(q) + 1] = arg[Main]
    BY <2>1, <2>2, <2>5, AppendProperties, LenProperties
  <2>7. Len(q) + 1 \in 1..Len(q') /\ \A i \in 1..Len(q) : i \in 1..Len(q')
    BY <2>6
  <2>8. \A t \in submitted : Pending(t) => Pending(t)'
    BY <1>1, <2>1, <2>6, <2>7 DEF Pending
  <2> QED
    BY <1>1, <2>1, <2>8, SilentComplete DEF Complete, PhaseOK
<1>3. CASE ~Pool!SubmitPush(Main)
  <2>1. /\ UNCHANGED <<q, arg, task, submitted>>
        /\ life' = life \/ life # "open" \/ main = "return"
    BY <1>3 DEF MainInPool, DestroyPool, SpuriousWake, Pool!SubmitStep, Pool!SubmitWait,
                Pool!StopStep, Pool!StopWait, Pool!StopClose, Pool!StopJoin,
                Pool!DestroyEnd, Pool!BeginDestroy, Pool!SpuriousWakeWorker,
                Pool!SpuriousWakeCaller, Pool!state
  <2> QED
    BY <1>1, <2>1, SilentComplete DEF Complete, PhaseOK, Pending
<1> QED
  BY <1>2, <1>3

\* A thread's steps: a task that it ends is settled.
LEMMA WorkerComplete ==
    ASSUME Sound, Walk, Complete, NEW w \in Workers, WorkerStep(w)
    PROVE  Complete'
<1> USE DEF Sound
<1>1. /\ task \in [Workers -> ScanTasks \cup {None}]
      /\ tpc \in [Workers -> {"hash", "lock", "file", "end"}]
      /\ q \in Seq(ScanTasks)
  BY PoolFacts DEF TypeOK
<1>2. /\ UNCHANGED <<tree, main, stack, cur, todo, submitted, life, arg>>
      /\ skipped \subseteq skipped'
      /\ \A v \in Workers \ {w} : task'[v] = task[v] /\ tpc'[v] = tpc[v]
  <2>1. CASE TakeTask(w) \/ TaskReturns(w) \/ WorkerInPool(w)
    BY <1>1, <2>1 DEF TakeTask, TaskReturns, WorkerInPool, Pool!Take, Pool!Finish, Pool!Sleep,
                      Pool!Exit, walk, report
  <2>2. CASE Hashed(w) \/ HashingFails(w) \/ FileCallback(w) \/ FileCallbackReturns(w)
    BY <1>1, <2>2 DEF Hashed, HashingFails, FileCallback, FileCallbackReturns, walk, report,
                      poolVars
  <2> QED
    BY <2>1, <2>2 DEF WorkerStep
<1>3. life' # "open" => main = "return"
  BY <1>2 DEF Complete, PhaseOK
<1>4. CASE TakeTask(w)
  <2>1. /\ wpc[w] = "ready" /\ q # <<>> /\ q' = Tail(q) /\ times' = times
        /\ task' = [task EXCEPT ![w] = Head(q)] /\ tpc' = [tpc EXCEPT ![w] = "hash"]
    BY <1>4 DEF TakeTask, Pool!Take, Pool!Dequeue, report
  <2>2. task[w] \notin ScanTasks
    BY <2>1, PoolFacts
  <2>3. /\ Len(q') = Len(q) - 1 /\ Len(q) \in Nat \ {0}
        /\ \A i \in 1..Len(q') : q'[i] = q[i + 1]
        /\ Head(q) = q[1]
    BY <1>1, <2>1, HeadTailProperties, EmptySeq
  <2>4. ASSUME NEW i \in 1..Len(q), i # 1
        PROVE  i - 1 \in 1..Len(q') /\ q'[i - 1] = q[i]
    <3>1. i - 1 \in 1..Len(q') /\ (i - 1) + 1 = i
      BY <2>3, <2>4
    <3> QED
      BY <2>3, <3>1
  <2>5. task'[w] = q[1] /\ tpc'[w] # "end"
    BY <1>1, <2>1, <2>3
  <2>6. ASSUME NEW t \in submitted, Pending(t)
        PROVE  Pending(t)'
    <3>1. t \in ScanTasks
      BY <2>6, PendingTasks
    <3>2. CASE \E i \in 1..Len(q) : q[i] = t
      BY <2>4, <2>5, <3>2 DEF Pending
    <3>3. CASE arg[Main] = t
      BY <1>2, <3>3 DEF Pending
    <3>4. CASE \E v \in Workers : task[v] = t /\ tpc[v] # "end"
      BY <1>2, <2>2, <3>1, <3>4 DEF Pending
    <3> QED
      BY <2>6, <3>2, <3>3, <3>4 DEF Pending
  <2> QED
    BY <1>2, <1>3, <2>1, <2>6, SilentComplete
<1>5. ASSUME q' = q,
             \/ tpc[w] = "end"
             \/ task'[w] = task[w] /\ tpc'[w] # "end"
             \/ \A t \in submitted : t = task[w] => Settled(t.path)'
      PROVE  \A t \in submitted : Pending(t) => Pending(t)' \/ Settled(t.path)'
  <2> SUFFICES ASSUME NEW t \in submitted, Pending(t), ~Settled(t.path)'
               PROVE  Pending(t)'
    OBVIOUS
  <2>1. CASE (\E i \in 1..Len(q) : q[i] = t) \/ arg[Main] = t
    BY <1>2, <1>5, <2>1 DEF Pending
  <2>2. ASSUME NEW v \in Workers, task[v] = t, tpc[v] # "end"
        PROVE  task'[v] = t /\ tpc'[v] # "end"
    BY <1>2, <1>5, <2>2
  <2> QED
    BY <2>1, <2>2 DEF Pending
<1>6. CASE TaskReturns(w) \/ WorkerInPool(w)
  <2>1. /\ q' = q /\ times' = times
        /\ tpc[w] = "end" \/ (task' = task /\ tpc' = tpc)
    BY <1>6 DEF TaskReturns, WorkerInPool, Pool!Finish, Pool!Sleep, Pool!Exit, Pool!state,
                report
  <2> QED
    BY <1>2, <1>3, <1>5, <2>1, SilentComplete
<1>7. CASE Hashed(w) \/ HashingFails(w) \/ FileCallback(w)
  <2>1. q' = q /\ times' = times /\ task' = task
    BY <1>7 DEF Hashed, HashingFails, FileCallback, poolVars, report
  <2>2. \/ task'[w] = task[w] /\ tpc'[w] # "end"
        \/ \A t \in submitted : t = task[w] => Settled(t.path)'
    <3>1. CASE FileCallback(w)
      BY <1>1, <2>1, <3>1 DEF FileCallback
    <3>2. CASE HashingFails(w)
      BY <3>2 DEF HashingFails, Settled
    <3>3. CASE Hashed(w)
      <4>1. /\ tpc[w] = "hash"
            /\ tpc' = [tpc EXCEPT ![w] = IF HasContent(task[w].path) THEN "lock" ELSE "end"]
        BY <3>3 DEF Hashed
      <4>2. CASE HasContent(task[w].path)
        BY <1>1, <2>1, <4>1, <4>2
      <4>3. CASE ~HasContent(task[w].path)
        <5> SUFFICES ASSUME NEW t \in submitted, t = task[w]
                     PROVE  Settled(t.path)'
          OBVIOUS
        <5>1. tree.kind[t.path] \in {"file", "empty"} /\ tree.kind[t.path] # "file"
          BY <4>3 DEF Walk, TasksOK, HasContent
        <5> QED
          BY <1>2, <5>1 DEF Settled
      <4> QED
        BY <4>2, <4>3
    <3> QED
      BY <1>7, <3>1, <3>2, <3>3
  <2> QED
    BY <1>2, <1>3, <1>5, <2>1, <2>2, SilentComplete
<1>8. CASE FileCallbackReturns(w)
  <2>0. PICK u : u = task[w]
    OBVIOUS
  <2>1. /\ tpc[w] = "file" /\ Announce(u) /\ UNCHANGED <<q, task>>
    BY <1>8, <2>0 DEF FileCallbackReturns, poolVars
  <2>2. u \in ScanTasks /\ u \in Items /\ Pending(u)
    BY <2>0, <2>1 DEF Handling, ScanTasks, Items, Paths, Pending
  <2>3. u \in submitted /\ u.path \in Names /\ times[u.path] = 0 /\ tree.kind[u.path] = "file"
    BY <2>0, <2>1, <2>2, PendingTasks DEF Walk, TasksOK
  <2>4. /\ times'[u.path] = 1
        /\ \A p \in Paths \ {u.path} : times'[p] = times[p]
    BY <2>1, <2>2, <2>3, Announcing
  <2>5. Settled(u.path)'
    BY <2>4 DEF Settled
  <2>6. \A n \in Names : tree.parent[n] # u.path
    BY <2>3, TreeFacts, ParentsAssumption DEF Complete, PhaseOK
  <2>7. /\ \A n \in Names : tree.parent[n] \in Paths /\ n \in Paths
        /\ Root \in Paths
    BY TreeFacts
  <2>8. \A t \in submitted : t.path \in Names
    BY PendingTasks
  <2>9. \A t \in submitted : Pending(t) => Pending(t)' \/ Settled(t.path)'
    BY <1>5, <2>0, <2>1, <2>5
  <2>10. /\ \A p \in Paths : times[p] = 1 => times'[p] = 1
         /\ \A n \in Names : times'[tree.parent[n]] # 0 => times[tree.parent[n]] # 0
    BY <2>3, <2>4, <2>6, <2>7
  <2> QED
    BY <1>2, <1>3, <2>7, <2>8, <2>9, <2>10, QuietComplete
<1> QED
  BY <1>4, <1>6, <1>7, <1>8 DEF WorkerStep

LEMMA NextComplete ==
    ASSUME Sound, Walk, Complete, [Next]_vars
    PROVE  Complete'
<1>1. CASE MainStep
  BY <1>1, OpenComplete, DirCallbackComplete, EntryComplete, EndComplete, CallerComplete
     DEF MainStep
<1>2. CASE SpuriousWake
  BY <1>2, CallerComplete
<1>3. CASE \E w \in Workers : WorkerStep(w)
  BY <1>3, WorkerComplete
<1>4. CASE Terminated \/ UNCHANGED vars
  <2>1. UNCHANGED <<tree, main, stack, cur, todo, submitted, times, skipped, life, q, arg,
                    task, tpc>>
    BY <1>4 DEF Terminated, vars, poolVars, walk, report
  <2> QED
    BY <2>1, SilentComplete DEF Complete, PhaseOK, Pending
<1> QED
  BY <1>1, <1>2, <1>3, <1>4 DEF Next

\* Whatever fails and however the walk and the tasks interleave, what the scan
\* has not announced when it returns is in its log, below something that is,
\* or of a kind it ignores.
THEOREM NothingIsLost == Spec => []ReportIsComplete
<1>1. Init => IInv /\ Complete
  BY InitIInv, InitComplete
<1>2. IInv /\ Complete /\ [Next]_vars => (IInv /\ Complete)'
  BY NextSound, NextWalk, NextComplete DEF IInv, Walk
<1>3. ASSUME IInv, Complete
      PROVE  ReportIsComplete
  <2> SUFFICES ASSUME Returned, NEW p \in Paths
               PROVE  \/ times[p] = 1 \/ p \in skipped
                      \/ /\ p # Root
                         /\ \/ tree.kind[p] \notin {"dir", "file"}
                            \/ tree.parent[p] \in skipped
                            \/ times[tree.parent[p]] = 0
    BY DEF ReportIsComplete
  <2>1. main = "return" /\ stack = <<>> /\ todo = {}
    BY <1>3 DEF Returned, Complete, PhaseOK, IInv, TodoOK
  <2>2. \A r : ~Ahead(r)
    BY <2>1 DEF Ahead, InStack
  <2>3. /\ q = <<>> /\ arg[Main] \notin ScanTasks
        /\ \A w \in Workers : task[w] \notin ScanTasks
    <3>1. PoolProofs!IInv /\ PoolProofs!Destroyed /\ life = "gone"
      BY <1>3 DEF IInv, Sound, PoolInv, Returned
    <3> QED
      BY <3>1, PoolAssumptions, PoolProofs!Drained
  <2>4. \A t \in submitted : t \in ScanTasks /\ ~Pending(t)
    BY <1>3, <2>3, PendingTasks DEF IInv, Sound, Pending
  <2>5. \A n \in Names : WasSubmitted(n) => Settled(n)
    BY <1>3, <2>4 DEF Complete, AcceptedOK, WasSubmitted
  <2>6. p = Root \/ p \in Names
    BY DEF Paths
  <2> QED
    BY <1>3, <2>1, <2>2, <2>5, <2>6, PathsAssumption
       DEF Complete, RootOK, CoverOK, Settled
<1> QED
  BY <1>1, <1>2, <1>3, PTL DEF Spec
=============================================================================
