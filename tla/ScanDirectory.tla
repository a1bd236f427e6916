---------------------------- MODULE ScanDirectory ----------------------------
(***************************************************************************)
(* ScanDirectory of scanner_int.h: the main thread walks a directory tree   *)
(* depth first, announces each directory it can open to a ScanProcessor and *)
(* hands the regular files to a SyncThreadPool, whose threads hash them and *)
(* announce those that are not empty.                                       *)
(*                                                                         *)
(* The pool is SyncThreadPool.tla, step by step; a task's execution, atomic *)
(* there, is split here into hashing, locking `mutex' and the callback.     *)
(* The file system is a tree chosen at the start that stays as it is, but   *)
(* any access to it may fail (an exception, logged and recorded in skipped).*)
(***************************************************************************)
EXTENDS Integers, Sequences, FiniteSets, SequencesExt

CONSTANTS Names,    \* the entries below the root
          Root,     \* the directory that is scanned
          Trees,    \* the possible trees: [kind, parent]
          Workers,  \* the pool's threads
          Main,     \* the thread that calls ScanDirectory
          Owner,    \* the same thread, once it is in the pool's destructor
          None      \* no directory, no task, no thread

Paths == Names \cup {Root}
Kinds == {"dir", "file", "empty", "link", "other"}
ScanTasks == [path : Names, parent : Paths]

ASSUME ThreadsAssumption ==
    /\ IsFiniteSet(Workers) /\ Workers # {}
    /\ Main # Owner /\ Main \notin Workers /\ None \notin Workers \cup {Main}
ASSUME PathsAssumption == Root \notin Names /\ None \notin Paths \cup ScanTasks
ASSUME TreesAssumption ==
    Trees \subseteq [kind : [Names -> Kinds], parent : [Names -> Paths]]
ASSUME ParentsAssumption ==
    \A t \in Trees : \A n \in Names :
        t.parent[n] = Root \/ t.kind[t.parent[n]] = "dir"

VARIABLES closing, outstanding, q, threads, wpc, task, cpc, arg, life,
          submitted, done,
          tree,       \* [kind : Names -> Kinds, parent : Names -> Paths]
          main,       \* "loop", "opened", "announcing", "iterate", "return"
          stack,      \* dirs_to_process: [path, parent] records, top last
          cur,        \* the directory that is processed: [path, parent]
          todo,       \* its entries the iterator has not reached yet
          holder,     \* the thread that holds `mutex'
          mutexAlive, \* FALSE once `mutex' has been destroyed
          tpc,        \* where a worker is in its task: "hash", "lock", "file",
                      \* "end"
          announced,  \* <<path, parent>> of the callbacks that have returned
          times,      \* how many callbacks each path got
          skipped     \* paths that were logged as skipped

poolVars == <<closing, outstanding, q, threads, wpc, task, cpc, arg, life,
              submitted, done>>
walk == <<tree, main, stack, cur, todo>>
report == <<announced, times, skipped>>
vars == <<poolVars, walk, holder, mutexAlive, tpc, report>>

Pool == INSTANCE SyncThreadPool
        WITH Users <- {Main}, Tasks <- ScanTasks, NoTask <- None

\* Faulty variants for mutation testing: no specification uses them.
BadChildren(d) == {n \in Names : tree.parent[n] = d} \cup {d}   \* with "."
BadMutexFree == TRUE                           \* a callback without lock_guard
BadUnlock == UNCHANGED holder                  \* a lock that is not released
BadHasContent(n) == TRUE                       \* sum_ is not tested

Children(d) == {n \in Names : tree.parent[n] = d}
RootItem == [path |-> Root, parent |-> None]

Announce(item) ==
    /\ announced' = announced \cup {<<item.path, item.parent>>}
    /\ times' = [times EXCEPT ![item.path] = @ + 1]

-----------------------------------------------------------------------------
Init ==
    /\ Pool!Init
    /\ tree \in Trees
    /\ main = "loop"
    /\ stack = <<RootItem>>
    /\ cur = RootItem
    /\ todo = {}
    /\ holder = None
    /\ mutexAlive = TRUE
    /\ tpc = [w \in Workers |-> "end"]
    /\ announced = {}
    /\ times = [p \in Paths |-> 0]
    /\ skipped = {}

MutexFree == holder = None
Unlock == holder' = None

-----------------------------------------------------------------------------
(* The main thread *)

\* directory_iterator it(dir), for the directory on top of the stack
OpenDir ==
    /\ main = "loop" /\ stack # <<>>
    /\ stack' = Front(stack)
    /\ cur' = Last(stack)
    /\ todo' = Children(Last(stack).path)
    /\ main' = "opened"
    /\ UNCHANGED <<poolVars, tree, holder, mutexAlive, tpc, report>>

OpenDirFails ==
    /\ main = "loop" /\ stack # <<>>
    /\ stack' = Front(stack)
    /\ skipped' = skipped \cup {Last(stack).path}
    /\ UNCHANGED <<poolVars, tree, main, cur, todo, holder, mutexAlive, tpc,
                   announced, times>>

\* processor.RootDir or processor.Dir, under the mutex
DirCallback ==
    /\ main = "opened"
    /\ MutexFree
    /\ holder' = Main
    /\ main' = "announcing"
    /\ UNCHANGED <<poolVars, tree, stack, cur, todo, mutexAlive, tpc, report>>

DirCallbackReturns ==
    /\ main = "announcing"
    /\ Announce(cur)
    /\ Unlock
    /\ main' = "iterate"
    /\ UNCHANGED <<poolVars, tree, stack, cur, todo, mutexAlive, tpc, skipped>>

\* The loop over the entries; the previous Submit has returned.
AtEntry(n) ==
    /\ main = "iterate" /\ cpc[Main] = "idle"
    /\ n \in todo
    /\ todo' = todo \ {n}
    /\ UNCHANGED <<tree, main, cur, holder, mutexAlive, tpc, announced, times>>

IgnoreEntry(n) ==
    /\ AtEntry(n)
    /\ tree.kind[n] \in {"link", "other"}
    /\ UNCHANGED <<poolVars, stack, skipped>>

\* is_symlink, status or is_regular throws; for a directory, is_regular is
\* called after it has been pushed.
EntryFails(n) ==
    /\ AtEntry(n)
    /\ skipped' = skipped \cup {n}
    /\ UNCHANGED <<poolVars, stack>>

FoundDir(n) ==
    /\ AtEntry(n)
    /\ tree.kind[n] = "dir"
    /\ MutexFree
    /\ stack' = Append(stack, [path |-> n, parent |-> cur.path])
    /\ skipped' \in {skipped, skipped \cup {n}}
    /\ UNCHANGED poolVars

FoundFile(n) ==
    /\ AtEntry(n)
    /\ tree.kind[n] \in {"file", "empty"}
    /\ Pool!BeginSubmit(Main, [path |-> n, parent |-> cur.path])
    /\ UNCHANGED <<stack, skipped>>

\* Faulty variant for mutation testing: a pop too many
BadDirEnd ==
    /\ main = "iterate" /\ cpc[Main] = "idle"
    /\ todo = {}
    /\ main' = "loop"
    /\ stack' = IF stack = <<>> THEN stack ELSE Front(stack)
    /\ UNCHANGED <<poolVars, tree, cur, todo, holder, mutexAlive, tpc, report>>

DirEnd ==
    /\ main = "iterate" /\ cpc[Main] = "idle"
    /\ todo = {}
    /\ main' = "loop"
    /\ UNCHANGED <<poolVars, tree, stack, cur, todo, holder, mutexAlive, tpc,
                   report>>

\* ++it throws, after at least one entry: the outer handler drops the others.
IncrementFails ==
    /\ main = "iterate" /\ cpc[Main] = "idle"
    /\ todo # Children(cur.path)
    /\ main' = "loop"
    /\ todo' = {}
    /\ skipped' = skipped \cup {cur.path}
    /\ UNCHANGED <<poolVars, tree, stack, cur, holder, mutexAlive, tpc,
                   announced, times>>

\* The function ends.  Locals die in the reverse order of their declaration:
\* `mutex' first, then `pool', whose destructor waits for the tasks.
Return ==
    /\ main = "loop" /\ stack = <<>>
    /\ main' = "return"
    /\ mutexAlive' = FALSE
    /\ UNCHANGED <<poolVars, tree, stack, cur, todo, holder, tpc, report>>

DestroyPool ==
    /\ main = "return"
    /\ Pool!BeginDestroy
    /\ UNCHANGED <<walk, holder, mutexAlive, tpc, report>>

\* The main thread inside the pool's methods
MainInPool ==
    /\ Pool!SubmitStep(Main) \/ Pool!StopStep
    /\ UNCHANGED <<walk, holder, mutexAlive, tpc, report>>

-----------------------------------------------------------------------------
(* A worker: the lambda passed to Submit.  Locking a destroyed mutex is     *)
(* undefined; with the libraries the program is built with, a std::mutex    *)
(* has a trivial destructor and goes on working, so mutexAlive guards       *)
(* nothing.                                                                 *)

TakeTask(w) ==
    /\ Pool!Take(w)
    /\ tpc' = [tpc EXCEPT ![w] = "hash"]
    /\ UNCHANGED <<walk, holder, mutexAlive, report>>

HasContent(n) == tree.kind[n] = "file"

\* HashCache::Get()(new_path) returns; an empty file has the sum 0.
Hashed(w) ==
    /\ wpc[w] = "run" /\ tpc[w] = "hash"
    /\ tpc' = [tpc EXCEPT
                 ![w] = IF HasContent(task[w].path) THEN "lock" ELSE "end"]
    /\ UNCHANGED <<poolVars, walk, holder, mutexAlive, report>>

HashingFails(w) ==
    /\ wpc[w] = "run" /\ tpc[w] = "hash"
    /\ tpc' = [tpc EXCEPT ![w] = "end"]
    /\ skipped' = skipped \cup {task[w].path}
    /\ UNCHANGED <<poolVars, walk, holder, mutexAlive, announced, times>>

FileCallback(w) ==
    /\ tpc[w] = "lock"
    /\ MutexFree
    /\ holder' = w
    /\ tpc' = [tpc EXCEPT ![w] = "file"]
    /\ UNCHANGED <<poolVars, walk, mutexAlive, report>>

FileCallbackReturns(w) ==
    /\ tpc[w] = "file"
    /\ Announce(task[w])
    /\ Unlock
    /\ tpc' = [tpc EXCEPT ![w] = "end"]
    /\ UNCHANGED <<poolVars, walk, mutexAlive, skipped>>

TaskReturns(w) ==
    /\ tpc[w] = "end"
    /\ Pool!Finish(w)
    /\ UNCHANGED <<walk, holder, mutexAlive, tpc, report>>

WorkerInPool(w) ==
    /\ Pool!Sleep(w) \/ Pool!Exit(w)
    /\ UNCHANGED <<walk, holder, mutexAlive, tpc, report>>

SpuriousWake ==
    /\ \/ \E w \in Workers : Pool!SpuriousWakeWorker(w)
       \/ \E c \in {Main, Owner} : Pool!SpuriousWakeCaller(c)
    /\ UNCHANGED <<walk, holder, mutexAlive, tpc, report>>

Returned == life = "gone"
Terminated == Returned /\ UNCHANGED vars

-----------------------------------------------------------------------------
MainStep ==
    \/ OpenDir \/ OpenDirFails \/ DirCallback \/ DirCallbackReturns
    \/ \E n \in Names : \/ IgnoreEntry(n) \/ EntryFails(n)
                        \/ FoundDir(n) \/ FoundFile(n)
    \/ DirEnd \/ IncrementFails \/ Return \/ DestroyPool \/ MainInPool

WorkerStep(w) ==
    \/ TakeTask(w) \/ Hashed(w) \/ HashingFails(w)
    \/ FileCallback(w) \/ FileCallbackReturns(w) \/ TaskReturns(w)
    \/ WorkerInPool(w)

Next ==
    \/ MainStep
    \/ \E w \in Workers : WorkerStep(w)
    \/ SpuriousWake
    \/ Terminated

Spec == Init /\ [][Next]_vars

-----------------------------------------------------------------------------
TypeOK ==
    /\ tree \in [kind : [Names -> Kinds], parent : [Names -> Paths]]
    /\ main \in {"loop", "opened", "announcing", "iterate", "return"}
    /\ stack \in Seq([path : Paths, parent : Paths \cup {None}])
    /\ cur \in [path : Paths, parent : Paths \cup {None}]
    /\ todo \subseteq Names
    /\ holder \in Workers \cup {Main, None}
    /\ mutexAlive \in BOOLEAN
    /\ tpc \in [Workers -> {"hash", "lock", "file", "end"}]
    /\ announced \subseteq Paths \X (Paths \cup {None})
    /\ times \in [Paths -> Nat]
    /\ skipped \subseteq Paths

\* "They will be called from multiple threads, but one at a time (serialized)"
\* (scanner.h:41): at most one thread is inside a callback.
InCallback ==
    {w \in Workers : tpc[w] = "file"}
        \cup (IF main = "announcing" THEN {Main} ELSE {})
Serialized == Cardinality(InCallback) <= 1

IsParent(p, n) == IF n = Root THEN p = None ELSE tree.parent[n] = p

\* A processor sees a part of the tree that is closed under parents, whatever
\* the interleaving of main thread and workers: every path at most once, with
\* the handle of its own directory, which has been announced before; nothing
\* that is a link, a device or an empty file.
ReportIsSubtree ==
    \A call \in announced :
        LET p == call[1]
            parent == call[2]
        IN  /\ times[p] = 1
            /\ IsParent(parent, p)
            /\ p # Root => /\ times[parent] = 1
                           /\ tree.kind[p] \in {"dir", "file"}

\* When ScanDirectory returns, no failure of one entry has lost another one
\* silently and no task is still running: each directory and each file with
\* content has been announced, or it is in the log, or its directory is (the
\* iteration broke off), or its directory has not been announced either.
ReportIsComplete ==
    Returned =>
        \A p \in Paths :
            \/ times[p] = 1
            \/ p \in skipped
            \/ /\ p # Root
               /\ \/ tree.kind[p] \notin {"dir", "file"}
                  \/ tree.parent[p] \in skipped
                  \/ times[tree.parent[p]] = 0

\* A worker that locks `mutex', or has locked it, finds it alive.
MutexOutlivesTasks ==
    \A w \in Workers : tpc[w] \in {"lock", "file"} => mutexAlive
=============================================================================
