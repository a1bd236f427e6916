# dupa in TLA+

`dupa` (README.md of the repository) finds duplicate files and similar
directories, or explains the difference of two directories. This directory holds
TLA+ models of its components, TLC configurations that check them on small
instances, and theorems about them that TLAPS proves for every value of the
constants. Paths below are relative to the repository; sources are in `src/`.

## Inventory

| Component | Source | State | Operations | What must hold |
|---|---|---|---|---|
| Thread pool | `synch_thread_pool.{h,cpp}` | `closing_`, `outstanding_`, `q_`, `threads_`, a mutex, two condition variables | constructor, `Submit`, `ThreadLoop`, `Stop`, destructor | bounded queue, each task once and in order, no lost wake-up, `Stop` loses nothing and returns |
| `SyncCounter` | same | `cntr_` | `Increment`, `Decrement`, `WaitForZero` | a waiter returns once the counter is zero |
| Directory scanner | `scanner.h`, `scanner_int.h` | stack of directories, mutex, pool | `ScanDirectory` | callbacks serialized, report closed under parents, complete up to what is logged, returns |
| Database scanner | `scanner.cpp`, `scanner_int.h` | the directories announced | `ScanDb`, `CommonPathPrefix` | each directory once, before its entries, whatever the order of rows |
| Checksum cache | `hash_cache.{h,cpp}` | `cache_`, `ino_cache`, the database | `operator()`, constructor, `StoreCksums`, `Initialize`, `Finalize` | an entry that matches a file has the sum of what the file holds, across runs and crashes |
| Comparison | `dir_compare.{h,cpp}` | two tables path -> sum | `FillPathHashes`, `DirCompare`, `WarmupCache` | the report leads from the first directory to the second |
| File tree | `file_tree.{h,cpp}` | nodes, classes, weights, counts of unevaluated children | `AddChild`, `AddNode`, `SetEqClass`, `GetPossibleEquivalents`, `NodeDistance` | counts and weights agree with the tree |
| Fuzzy dedup | `fuzzy_dedup.{h,cpp}` | the queue of directories that are ready | `FuzzyDedup` and its phases, `GetInteresingEqClasses`, `CalculateUniqueness` | everything is classified, files exactly by content, identical directories together, nothing hidden |
| Database library | `db_lib*` | connection, transaction, statements, the rows in hand of a stream | `Exec`, `Query`, `Prepare`, `Fetch`, `Read`, `Write`, `Begin`, `Commit`, `Rollback` | a query is read to its end, a write is whole or refused |
| Database output | `db_output.*` | tables of classes and nodes, tables of a report | `CreateResultsDatabase`, `DumpFuzzyDedupRes`, `DumpInterestingEqClasses`, `DirCompDBStream` | what is in the file belongs together, over any leftovers |
| Program | `dupa.cpp`, `conf.*` | configuration; the process | `main`, `ParseArgv` | exit status 0 means that everything asked for is stored |

How they interact: `main` creates the cache, then calls `FuzzyDedup` with one
directory or `DirCompare` with two. Both call `ScanDirectoryOrDb`, which announces
directories and files to a `ScanProcessor` (a callback object). `ScanDirectory`
runs in the calling thread and submits one task per file to a pool of its own;
the tasks call the process-wide cache and then the callback, under a mutex local
to `ScanDirectory`. `DirCompare` runs two such scans at once, each in a thread,
so two pools share one cache. The cache is stored when `main` leaves its block.

Hard behaviours: the two condition variables of the pool (one of them shared by
callers with different predicates) and its shutdown; callbacks from many threads;
files that change while they are read, hard links, reused inodes; crashes while
the cache is written without a journal (`db_lib.cpp:61-65`); one file that is read,
written and stored in by one or more processes; the bookkeeping
that decides when a directory can be classified; an algorithm whose result
depends on the order of a hash table. `PROJECT.json` lists them with
their lines under `hazards`.

## Modules

`Executor` - the abstract specification of the pool: tasks are started in the order
they were accepted, once, one per slot; at most `Capacity` are pending; closing
happens when all is done.

`SyncThreadPool` - the pool. A critical section of `mutex_` is one action. A thread
that is about to lock the mutex is `ready`, one asleep in `cv_` or
`user_cv_` is at `wait`, `notify_one` makes an arbitrary sleeper `ready`, and sleepers
may wake spuriously. `closing`, `outstanding`, `q`, `threads` are the fields of
the class; `submitted` and `done` are histories. Contract of
`synch_thread_pool.h:49`: nobody submits during or after `Stop`.

`SyncCounter` - the counter, in the same style.

`ScanDirectory` - composes the walk of `ScanDirectory` with `SyncThreadPool` (an INSTANCE
over the same variables, each pool action one step). A task's execution is
split into hashing, locking, calling back. The tree is chosen at the start from a
set of trees; every access to it may fail. The cache appears as a call that
returns or throws.

`ScanDb` - the scan of a database: the first loop that finds the common prefix, the second that
announces each row after the directories above it, in any order of rows (an
`unordered_map`). A path is a sequence of names, of which it has at least one
(`DatabasesAssumption`); rows have absolute paths, as those that a scan of an absolute directory has
stored.

`Scan` - the abstract specification of both scanners, from the point of view of a `ScanProcessor`
(`scanner.h:30-46`): one root first, each directory and file once, with the handle of a directory
announced before. Its one variable counts how often each entry has been `reported`.
`ScanDirectoryOrDb` extends `ScanDirectory` and `ScanDb`: the `db:` prefix chooses the scanner that
takes the steps, and `Reported` is what the processor has been told by either. Both implement
`Scan` (`Implements`: a callback is a step of `Scan`, all else a stutter).

`Database` - the database library as values: the statements, what SQLite refuses (a missing or
existing table, a key, the foreign key), what a write does to a file, and the two
levels of look-ahead with which a query is read.

`DbOutput` - what is written, as scripts of statements: `CreateResultsDatabase`, `DumpFuzzyDedupRes`,
`DumpInterestingEqClasses`, `DirCompDBStream` and the streams of a comparison, `StoreCksums`.
`Removed` and `RenameTo` stand for the three tables each that are treated alike.

`Program` - `main` in several processes on one file that serves as `-c`, `db:`, `-o` and `-C`
as the configuration has it. A statement of a script is one step; a write takes the
write lock with the first write of its transaction, commits wait for nobody (a statement
that meets a lock fails: there is no busy timeout), a reader holds its lock until its
stream is at the end. `Die` is every way a process may end early: a statement that
failed, any exception, a signal; a transaction may leave any of the tables it has changed
(`journal_mode = OFF`), which are then `damaged`, if nobody is reading (its pages reach the
file under an exclusive lock). `HashCache` examines the contents of the
cache across such crashes, `Program` what they mean for the tables and the other processes.

`HashCache` - threads in `operator()` (open and fstat, lookup, inode cache, reading
block by block, insertion, return), other programs that rewrite and replace files at
any time, hard links, the life of processes: `Initialize`, `Finalize` with the
table dropped, created and filled, a crash at any step. A content is a
sequence of blocks, the sum is that sequence (an injective hash). The regime
says which environment is examined: files that change only between runs, files
that change at any time but no inode opened twice by one process, or
anything.

`DirCompare` - the two filler threads, the joins, the two loops, line by line; what
a scan announces is a function from paths to hashes, in any order.

`FileTree`, `FuzzyDedup` - the tree and the classes; the phases of `FuzzyDedup`, from the
callbacks that build the tree to uniqueness. A node is its number in
order of creation, a class is named by the node it was created for. Weights are
exact fractions where the code has doubles, and the `uint64_t` sums of `NodeDistance`
truncate as they do there; rounding of doubles is not modelled. The orders the
code leaves open (traversal, `unordered_set`) are choices. `Interesting` and `Scattered` are what is
reported of the result.

`MC...` modules give the constants for TLC. Operators named `Bad...` are faulty variants
of the operators of the same name: no specification uses them; substituted for the
original they show which property notices the fault.

## Runs

| Run | Checks | Bounds, and why they are enough |
|---|---|---|
| `pool` | the pool's invariants, refinement of `Executor`, liveness | 2 threads, 2 submitters and the owner, 5 tasks: the queue fills (3), both submitters and then `Stop` sleep in `user_cv_`, both threads sleep in `cv_` |
| `counter` | violated: `WaitForZero` never returns | 2 jobs, 1 waiter |
| `scan` | serialization, closure and completeness of a directory's report, exactness of a database's, both as refinements of `Scan`, termination | 2 threads; four trees with 4 entries: a full queue, nesting, siblings, links, devices, empty files; every failure. 64 databases of up to 3 rows: one row, a row in the common prefix, nesting, siblings, every order |
| `empty_files` | violated: a scan ignores empty files | the same |
| `mutex_lifetime` | violated: the mutex may be locked after its destruction | the same |
| `cache` | coherence in memory and in the database, freshness of results | 2 threads, 2 paths, 2 inodes, 3 contents of 0 or 2 blocks, 2 changes of files; any number of processes, dumps and crashes; regimes `quiet` and `distinct` |
| `inode_cache` | violated: a stale sum is stored | the same in regime `any` |
| `compare` | one line per path, the report rebuilds DIR2, `--skip_renames` hides only renames | 3 paths, 3 hashes: swaps, cycles of moves, copies of overwritten files, several sources and targets |
| `fuzzy` | bookkeeping, classification, interesting classes, uniqueness | all trees of up to 8 nodes with files of 3 contents (sizes 0, 1 and 3), tolerance 60%, by number and by size |
| `zero_distance` | violated: distance 0 only for empty directories | 5 nodes |
| `dir_weight` | violated: a directory's weight is the sum of its files | 5 nodes |
| `program` | a successful exit means stored, classes fit nodes, a report or a dump is whole, leftovers refuse nothing, queries are read to the end | 2 processes of 5 configurations, on a new file or on an earlier run's; 3 results (two with the same ids), 2 reports, 2 rows to scan: runs one after the other, readers during writes, writes between those of another, a death at every statement and a second run over what it left |

`MaxClock` (changes of files) and `MaxNodes` (nodes of the tree) are the only bounds in
guards. Contents in `HashCache` have 0 or 2 blocks, so that a write may fall between
two reads. In `fuzzy` the constraint `Canonical` keeps one numbering of each tree:
the classification goes through nodes in an order of their numbers only where the order
cannot matter (files and empty directories, whose classes are named by their least
member), and is left open elsewhere. `cache`, `compare` and `program` use symmetry; they
check no liveness. `program` allows two processes at a time and each runs once.
`ClassesMatchNodes` allows for more: with three processes that store (`Crowded`), one may insert its classes
and nodes, another drop the nodes, and a third, which had dropped the classes before, create the table of
nodes anew, so that classes are left that have lost their nodes, all of them. Nothing in the code
rules that out and no document promises otherwise; the theorem (below) says that it is the worst that any
number of processes can do. Deadlock is checked in every run: a specification that may end has a step
`Terminated` (or `Done`) that is enabled only where the code has returned.

### Fairness

`pool` and `scan` check liveness under weak fairness of each thread's own steps: a
runnable thread runs, gets a mutex in the end, and tasks, callbacks and reads of files
return. That is what an operating system's scheduler and `std::mutex` give when every
critical section is short. Nobody has to submit or to stop, no spurious wake-up has
to happen. The scan of a database is a sequential loop that is assumed to go on
(`ScanFairSpec`). `counter` assumes the same and is violated nevertheless. `program` has
no fairness: a process may die at any time, and nothing is promised to happen.

### What the violated runs show

* `SyncCounter::Decrement` (`synch_thread_pool.cpp:93`) tests the value before the
  decrement and never notifies. The class is unused so far.
* In `ScanDirectory` the mutex is declared after the pool and dies before it
  (`scanner_int.h:55-56`); harmless with a trivial mutex destructor.
* `InodeCache` returns a sum without looking at size or mtime, and that sum is
  stored with the new ones (`hash_cache.cpp:96-101`, `247-253`), although the comment at
  41-42 wants to keep such matches out of the database.
* `NodeDistance` takes a sum of zero for two empty directories (`file_tree.cpp:170-171`);
  a directory of empty directories has weight zero too.
* A directory's weight counts each class among its entries once
  (`file_tree.cpp:72-80`), where README.md sums over all files.
* `ScanDb` announces files of sum 0 (`scanner_int.h:161`), which `ScanDirectory` ignores
  (`scanner_int.h:92`) and README.md says are ignored; they are stored like any other.

Read but not made into runs: `fuzzy_dedup.cpp:223` rejects a distance equal to the
tolerance ("this percent or less" in README.md and `--help`, "smaller" in README.md,
Internals); `DumpFuzzyDedupRes` never writes the column `cksum` that README.md documents
(`db_output.cpp:74-84`); a database of relative paths with no common prefix has the root "",
which `assert(!name_.empty())` of `file_tree.h` forbids, although
`scanner_test.cpp` (`DbImport`, `EmptyPrefix`) wants that root; rows of files that have been
deleted stay in a cache, and `db:` announces them; a process that dies between
`DumpFuzzyDedupRes` and `DumpInterestingEqClasses` leaves a result in which nothing is interesting;
two processes that store in one file with `-C` may leave the rows of both; the comment of
`DBTransaction::~DBTransaction` relies on a rollback, which SQLite leaves undefined
without a journal, and an uncaught `DBException` need not unwind to it at all;
"open database first to catch configuration issues soon" (`dupa.cpp:58`)
misses a file that cannot be written, which SQLite opens read-only; three
directories given with `-d` reach `assert(false)` ("should have been checked already",
`dupa.cpp:95`); a pool of no threads (`-j 0`) never runs a task; a lone empty directory has the fraction 0
and is printed among the "mostly duplicates".

## Proofs

`SyncThreadPoolProofs`, for any finite set of threads (not empty) and of callers, and any
set of tasks (the assumptions of `SyncThreadPool`):

* `TypeCorrect`: the type invariant.
* `Invariance`: the inductive invariant `IInv`, which `QueueBounded` and `NothingLostAtStop`
  need. It says that `outstanding_` is the length of `q_`, that a task is in one place
  only (in a caller's hands, in the queue, in a thread's, or done), and how `closing_`,
  the program counters and the owner relate. `QueueIsBounded` and `StopLosesNothing` follow.
* `Refinement`: with `IInv`, every step of the pool is a step of `Executor` or a stutter.
  `Accept` needs that a submitted task is nowhere else, `Close` that no thread is in a
  task once the owner has joined.
* `NoWorkerSleepsOnWork`, `NoCallerIsStranded`: the counting arguments for the two condition
  variables: while some thread sleeps, the threads that are awake and will look at
  the queue are at least as many as the tasks in it (and likewise for free places and
  submitters); `notify_one` moves a thread from one set to the other.

`DirCompareProofs`, for any sets of paths and hashes (`UnseenAssumption`):

* `TypeCorrect`, `TablesAreComplete`: the main thread passes the joins only when each table
  equals its listing.
* `ReportInvariant`: at any moment the report consists exactly of the lines due for the paths
  the loops have visited. `OneLineEach`, `ReportIsRight` and `SkipHidesOnlyRenames` follow
  from it at the end of the second loop: `Origins` of a path of DIR2 are sources of its
  content, and there is one unless the content is new.

`FuzzyDedupProofs`, for a tree of any size (`MaxNodes` is any positive number), any contents, any
integer tolerances and any sizes of files, 0 among them: `ScanDirectory` announces no empty files, but
`ScanDb` passes on whatever rows there are:

* `BookkeepingInvariant`: a parent is created before its children and is a directory, each
  counter is the number of unevaluated children, a node is classified after its children,
  and during `PropagateEquivalence` the queue lists the ready nodes, each once. `Counters` and
  `Queue` are parts of it. The parent pushed by an iteration was not in the queue because
  it still had an unevaluated child (the node itself), which is the comment "no risk we're
  adding it to the queue twice".
* `Classified`: with the queue empty no node is ready; were there nodes without a class, the one
  created last among them would have no unevaluated child and be ready.
* `Contents`: a class is named by a node with the content of all its nodes (`Dir` for a
  directory), and the classified files of one content share a class. It needs the order
  of `ClassifyDuplicateFiles` and that only directories are left for the other phases.
* `ResultInvariant`: the inductive invariant `Result` for what is computed from the classes. Besides
  the two above it holds `Weighed`: weights are fractions in lowest terms, and the class of a
  classified file weighs exactly what the file does. The latter is what the running average of
  `EqClass::AddNode` could spoil: it stays because the average of equal weights is that weight
  and because no directory ever joins a class of files. `Reckoned` adds what `CalculateUniqueness`
  leaves. `Types` follows from it step by step.
* `Uniqueness`: with the weights of files whole, the sum over a set of files is the number of
  its `Blocks` (pairs of a file and a unit of its weight), so the sum over a part equals that over the
  whole exactly if the part has all files that weigh something, and is 0 exactly if it has none of them. The fraction
  is 0 and 1 when README.md says so of the files that count (`FilesThatCount`): by size, empty ones
  do not. Of a file by itself the code asks whether it is alone in its class.
* `Reported`: of the duplicates in no reported entry, the one created first would not keep its class
  interesting, so its parent would be a duplicate in no reported entry, and older. A directory
  alone in its class with all of its files elsewhere has the fraction 0, so it is scattered.
* `Identical`: `IdenticalTogether`, which speaks of tolerances of up to 100 percent: directories with the same classes of entries, not all of weight
  0, share a class, in whatever order candidates and directories come. `Alike` is the strengthening: a class
  of directories weighs at least 1 or exactly 0, according to whether an entry of its members does
  (`Standing`), and evaluated directories with the same heavy classes of entries are in one class (`Together`).
  `Standing` is needed because the averages move when a class grows while `NodeDistance` truncates
  them: a weight that slipped below 1 would change distances computed before. A distance of
  less than 1 means a heavy class in common, so a directory only joins directories of its kind.
  Beyond 100 percent, which `conf.cpp:67` does not exclude, a distance of 1 is near enough, and the
  property is false: a directory that weighs nothing may join a class that weighs something and lower its
  average below 1. TLC follows the model to such an end on a tree of 20 nodes, by size, with a tolerance of
  101: the root holds `o` = {A}, `r` = {`kr`}, `m` = {A, `z1`} and `n` = {A, `z2`}, where A is a file of size 1,
  `kr` has a file of size 2 and an empty directory, and `z1` and `z2` are made of empty
  directories. `z1` joins the class of `kr`, whose weight falls from 2 to 1, so that `m` is as far from
  `o` as from `r` and joins `r`; `z2` joins it too, the weight falls below 1, counts as 0, and `n` is at
  distance 0 from `o` and joins `o`. `m` and `n` have the same classes of entries.

What `FoldSet` and the recursive functions `Files` and `Lineage` compute is taken from their equations,
which have a solution by induction over subsets (`SubsetInduction`, `FoldExists`) and over
intervals; a statement that needs induction over them goes through the cardinality of `Blocks`.

`ScanDirectoryProofs`, for any set of trees, any names, any finite set of threads (not empty)
(`ThreadsAssumption`, `PathsAssumption`, `TreesAssumption`, `ParentsAssumption`: the root is not
one of the entries, `None` is nothing else, the main thread is none of the pool's, and only
a directory has entries):

* The pool inside the scan is the pool of `SyncThreadPool`: `PoolStep` shows that every step of the
  scan is a step of it or leaves it alone, so its `IInv` and `Exclusive` (an accepted task
  is once in the queue or with one worker, proved in `SyncThreadPoolProofs` for this purpose)
  are instantiated and need not be proved again.
* `TypeCorrect`: the type invariant. It needs `Handling`: a worker between taking a task and its
  end has one.
* `OneCallbackAtATime`: `Serialized`, from `Locking`: the holder of `mutex` is exactly whoever
  is in a callback.
* `ReportIsClosed`: `ReportIsSubtree`. The inductive invariant `IInv` says where a path can be: on the
  stack, in the hands of the walk, among the entries still ahead, with the pool, or
  announced; it is in one of these places only, and its directory has been announced
  unless it is the root. So a directory that is opened has no child in any of these places (`SeenOK`:
  a child seen before would mean that the directory had been announced), a path is due
  at most once, and a task's directory is announced before the task is submitted. `SameTask` and
  `TaskOfOne` (from the pool) show that no second worker holds a task for the file
  that is being announced.

* `NothingIsLost`: `ReportIsComplete`. The invariant `Complete` says that a path below an announced
  directory is settled (announced, skipped or ignored), or its directory is in the log, or
  it waits in one of the places above; and that an accepted task is with the pool or its
  file is settled. When the scan has returned the places of the walk are empty, and so are
  the pool's: `Destroyed` and `Drained` of `SyncThreadPoolProofs` say that the destructor leaves no
  task in the queue, with a thread or with a caller. That a callback for a file cannot
  make the entries below it due is the use of `ParentsAssumption`.

`ScanDirectoryOrDbProofs`, with the facts about prefixes of `SequenceLemmas`, under the assumptions of
`ScanDirectory` and for any set of databases whose rows are finitely many, each with a path of at least
one name (`DatabasesAssumption`):

* `ReportOfDb`: `DbReportIsExact`, for every database and every order of its rows. The
  inductive invariant `DbInv` says of the first loop that `prefix` is the greatest common prefix of the
  directories seen so far (`Greatest`: it is a prefix of each, and no prefix of one of them that all
  have is longer), and of the second that `created` holds exactly the directories above the rows
  that are finished and above the part of the present row the descent is through with
  (`CreatedRight`, `Upper`), each under the number of its one callback and with the path that leads
  to it; that the callbacks for files are the finished rows, one each (`FilesRight`); that
  a handle is that of a directory (`HandlesRight`); and where the descent is (`Descending`). It rests on
  `PathAppended`: the recursive function `PathOf` keeps its values for the earlier callbacks
  when one more is made (there is one such function, by induction on the length).
* `ScanTypes`: the type invariant of both scanners.
* `ScanImplements`: `Implements`. What has been reported is each entry once (`Accounted`): for a
  database by `DbInv`, for a directory by `IInv` of `ScanDirectoryProofs`. A callback of `ScanDb` has
  the handle of an earlier callback for a directory and a path that no other of its kind has; one
  of `ScanDirectory` is `Due`, and `Ledger` (what has been counted is known, the root first) says that
  its directory is among those announced. Steps that announce nothing are stutters.

`HashCacheProofs`, for any sets of paths, inodes, contents and threads and any number of
changes, runs and crashes (`ContentsAssumption`, `ClockAssumption`):

* `TypeCorrect`: the type invariant; it needs that a call only exists in a process, which has
  recorded the inode as opened.
* `CacheIsCoherent`, `StoreIsCoherent`, `ResultIsFresh`: `CacheCoherent`, `StoredCoherent` and
  `ResultFresh` under `Trusted`: files change only between runs, or no process opens an inode twice. In the third
  regime, `any`, they do not hold: the run `inode_cache` shows how. The inductive invariant
  rests on the fact that every change takes a new mtime, so that an mtime is that of one
  version of one inode. `VersionsOK`: if the open file and the file of its path now have the
  same mtime they are the same file, and an untouched file still has the attributes of the
  `fstat`. `ReadsOK`: what a call has read of a file that has not changed since is a part of its
  content. `EntriesOK`: an entry of the cache or of the database with the attributes of the
  file of its path has its sum; `HeldOK`: also of the file a call has open for that path,
  which may have been replaced since. `InodesOK`: in the regime `quiet` a sum in the inode
  cache is that of the present content; in `distinct` it is never hit, because no inode is
  opened twice.

`ProgramProofs`, with the facts about sequences of `SequenceLemmas`, for any set of processes, rows,
results, reports and combinations of options, and for any file earlier runs may have left. The
assumptions are what makes the constants values of the program: `ConfsAssumption` (the options),
`FilesAssumption` (a row is told by its path), `ResultsAssumption` (a result is a classification
of finitely many nodes, and what is interesting is one of its classes), `ReportsAssumption` (a
report is a list of lines for the tables it has, without a path twice in a table where it is a
key, which is `OneLineEach` of `DirCompareProofs`), `EarlierAssumption` (the rows of a file are rows, its
report is whole and its nodes fit its classes unless a death has damaged them: the initial states are then
closed under what `ReportIsAtomicTheorem` and `ClassesMatchNodesTheorem` show of the final ones) and `NoneAssumption` (`None` is nothing else).

* `InvTheorem`: the inductive invariant. None of the properties below is inductive: they speak of the
  end of a script, or of a statement that is about to be refused. `Inv` says two things. What
  is left of a script (`ScriptOK`, `LegalOK`, `PlanOK`) is the end of one the program writes: tables
  are dropped, children first, created, filled, parents first, and updated (`Follows`); only the
  tables of a report are replaced in a transaction (`Legal`); the rows left to insert
  are among those to be stored, and all of them as long as the table is still to be created.
  And the tables agree with it (`TablesOK`): a table the process has dropped, unless another
  process has changed it since (`meddled`), is absent until it is created, and from then on its rows with
  those left to insert are what is to be stored, and no key among them is in both. `ReadingOK` splits
  the rows of a query into those read, the two in hand and those to come.
* `TypeOKTheorem`, `ReadsAllTheorem`: parts of it.
* `NothingIsRefusedTheorem`: `Follows` excludes each reason for which a statement can be refused, given
  `TablesOK` of the tables it needs; a foreign key needs the table of the parents too.
* `ExitMeansStoredTheorem`: at the end of a script nothing is left to insert, so that `TablesOK` is the claim.
* `ReportIsAtomicTheorem`: with `ReportsOK`: the process with the write lock either is a comparison that
  nobody has meddled with since it dropped the tables, or has left the tables of reports as they
  are on the disk; a comparison without the lock has dropped nothing yet. So that what is
  committed is one whole report, by `TablesOK`.
* `DumpIsWholeTheorem`: with `DumpsOK`: what the transaction of a dump sees, with the rows it has still
  to insert, are complete dumps; a process inserts all of its cache in one transaction
  or has not begun to.
* `ClassesMatchNodesTheorem`: with `ResultsOK` and `MatchIn`. The tables of a result are dropped and created
  statement by statement, outside of a transaction, and filled in one, so other processes may do
  the same in between. `ResultHeld` compares what the process with the write lock sees with what is on the
  disk: classes are only added, and its nodes, with those it has still to insert, fit the classes.
  `ResultAhead`: a process without the lock has still to insert all of its result or nothing, and drops the
  nodes before the classes. `RenewOK` is the argument about numbers: a process about to create the table of nodes,
  having dropped that of the classes itself, finds classes on the disk only if another has inserted them
  since, with their nodes, and a third has dropped these; or a death has damaged the classes. So
  classes lose their nodes only to a damaging death, or among three processes (`Crowded`), or have lost
  them before.

That a sequence of `FlattenSeq` has the elements it should (`Flattening` of `SequenceLemmas`), and what is
true of a finite set or interval, is proved with a least counterexample (`FiniteInduction`,
`IntervalInduction`: strict inclusion is well-founded on finite sets) in place of the library's
induction theorems, which take a predicate as a parameter.

Only model-checked: the liveness of `pool` and `scan`, which is out of the prover's reach. Every other
property of a passing run is the statement of a theorem.

## Not modelled

Layout and order of output (the wording of `PrintingOutputStream`, `PrintEqClassses`,
`SortEqClasses`), logging, parsing of arguments (Boost), the conversion of values for SQLite (`Bind`,
`Unpack`) and SQLite itself beyond what `Database` and `Program` state of it: that a table of a
damaged file can be dropped and created again, that locks are as documented for
rollback journals, that a process that has read a damaged table has failed or has read
whatever rows there are. Also left out are
collisions of checksums (and sums that are 0 by accident), changes of a file that keep its
size within the resolution of `time_t`, directories that change during a scan, rounding
of doubles. `WarmupCache` is a scan with callbacks that do nothing.

## Plan

1. Done: the pool and its proofs, the scan, the cache, the comparison and its proofs, the
   classification and the proofs of its bookkeeping.
2. Done: `ScanDb` and `Scan`, the promise of both scanners; the database library, what is written
   with it, and `main` in several processes.
3. Done: that `ScanDirectory` calls its processor serially, that what it announces is closed under
   parents and that nothing is lost, with the pool's invariant as a lemma; that what
   `HashCache` keeps and stores is right in the regimes `quiet` and `distinct`.
4. Done: that a successful exit means stored, that nothing is refused, that reports and dumps are
   whole, for any number of processes; that `ScanDb` announces exactly its rows, and that both
   scanners implement `Scan`.
5. Done: what `FuzzyDedup` computes from the classes: the types and weights, the unique fraction, the report, and
   that the same directories are classed together.
6. Done: that classes and nodes are of one result for any number of processes, what is lost when
   three of them store at once included; `IdenticalTogether` above 100 percent, which is false; files
   of size 0 in the classification.
7. Left: liveness of the pool and the scan by proof, when a prover of it is at hand.
