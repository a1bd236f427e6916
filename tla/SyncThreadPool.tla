--------------------------- MODULE SyncThreadPool ---------------------------
(***************************************************************************)
(* SyncThreadPool of synch_thread_pool.{h,cpp}: a fixed set of threads     *)
(* that execute the tasks of a bounded queue.                              *)
(*                                                                         *)
(* mutex_ protects every field, so a critical section, from the moment a   *)
(* thread owns the mutex until it unlocks it or sleeps in a condition      *)
(* variable, is one action.  A thread that is about to lock mutex_, because *)
(* it entered the method or because it was woken, is "ready"; a thread      *)
(* asleep in cv_ (workers) or user_cv_ (callers) is in "wait".  notify_one  *)
(* wakes an arbitrary sleeper, and a sleeper may wake for no reason.        *)
(*                                                                         *)
(* Callers are the threads that Submit and the Owner that calls Stop and   *)
(* the destructor.  The contract of synch_thread_pool.h:49 is a guard:     *)
(* nobody submits once Stop has been called, nor while it is called.       *)
(***************************************************************************)
EXTENDS Integers, Sequences, FiniteSets, Functions

CONSTANTS Workers,  \* the pool's threads
          Users,    \* the threads that submit
          Owner,    \* the thread that stops and destroys the pool
          Tasks,    \* the tasks; each is submitted at most once
          NoTask    \* the `task' of a worker that has none

ASSUME WorkersAssumption == IsFiniteSet(Workers) /\ Workers # {}
ASSUME CallersAssumption == IsFiniteSet(Users) /\ Owner \notin Users
ASSUME TasksAssumption == NoTask \notin Tasks

Callers == Users \cup {Owner}

VARIABLES closing,      \* closing_
          outstanding,  \* outstanding_
          q,            \* q_
          threads,      \* the members of threads_
          wpc, task,    \* where each worker is in ThreadLoop, and its task
          cpc, arg,     \* where each caller is, and the task it submits
          life,         \* "open", "dtor" (in the destructor), "gone"
          submitted,    \* history: tasks whose Submit has begun
          done          \* history: tasks that have been executed

state == <<closing, outstanding, q, threads>>
vars == <<closing, outstanding, q, threads, wpc, task, cpc, arg, life,
          submitted, done>>

-----------------------------------------------------------------------------
(* Faulty variants of the operators with the same suffix below.  No         *)
(* specification uses them: each is a plausible slip in the code that one   *)
(* of the properties must notice.                                           *)

BadHasRoom == outstanding <= Cardinality(threads) + 1       \* off by one
BadStopMayClose == TRUE                                     \* no wait in Stop
BadEnqueue(t) == q' = Append(q, t) /\ UNCHANGED outstanding \* no ++
BadDequeue == outstanding' = outstanding - 1 /\ UNCHANGED q \* no pop
BadNotifyOne(pc) == {pc}                                    \* not called
BadNotifyAll(pc) == pc                                      \* not called

-----------------------------------------------------------------------------
WorkerStates == {"ready", "wait", "run", "exited"}
CallerStates == {"idle", "ready", "wait", "join"}

InState(pc, S) == {x \in DOMAIN pc : pc[x] \in S}

\* The program counters after notify_one on the condition variable in which
\* the threads at "wait" sleep.
NotifyOne(pc) ==
    LET sleepers == InState(pc, {"wait"})
    IN  IF sleepers = {} THEN {pc}
        ELSE {[pc EXCEPT ![x] = "ready"] : x \in sleepers}

\* ... and after notify_all.
NotifyAll(pc) ==
    [x \in DOMAIN pc |-> IF pc[x] = "wait" THEN "ready" ELSE pc[x]]

Init ==
    /\ closing = FALSE
    /\ outstanding = 0
    /\ q = <<>>
    /\ threads = Workers
    /\ wpc = [w \in Workers |-> "ready"]
    /\ task = [w \in Workers |-> NoTask]
    /\ cpc = [c \in Callers |-> "idle"]
    /\ arg = [u \in Users |-> NoTask]
    /\ life = "open"
    /\ submitted = {}
    /\ done = {}

-----------------------------------------------------------------------------
(* Submit *)

BeginSubmit(u, t) ==
    /\ life = "open" /\ ~closing
    /\ cpc[Owner] = "idle"
    /\ cpc[u] = "idle"
    /\ t \notin submitted
    /\ cpc' = [cpc EXCEPT ![u] = "ready"]
    /\ arg' = [arg EXCEPT ![u] = t]
    /\ submitted' = submitted \cup {t}
    /\ UNCHANGED <<state, wpc, task, life, done>>

HasRoom == outstanding <= Cardinality(threads)

Enqueue(t) == q' = Append(q, t) /\ outstanding' = outstanding + 1

SubmitPush(u) ==
    /\ cpc[u] = "ready"
    /\ HasRoom
    /\ Enqueue(arg[u])
    /\ wpc' \in NotifyOne(wpc)
    /\ cpc' = [cpc EXCEPT ![u] = "idle"]
    /\ arg' = [arg EXCEPT ![u] = NoTask]
    /\ UNCHANGED <<closing, threads, task, life, submitted, done>>

SubmitWait(u) ==
    /\ cpc[u] = "ready"
    /\ ~HasRoom
    /\ cpc' = [cpc EXCEPT ![u] = "wait"]
    /\ UNCHANGED <<state, wpc, task, arg, life, submitted, done>>

-----------------------------------------------------------------------------
(* ThreadLoop.  The two tests of closing_ and the predicate of cv_.wait give *)
(* the same three outcomes to a thread that has just locked mutex_, whether  *)
(* it is at the top of the loop or was woken.                               *)

Dequeue == q' = Tail(q) /\ outstanding' = outstanding - 1

Take(w) ==
    /\ wpc[w] = "ready"
    /\ ~closing /\ q # <<>>
    /\ task' = [task EXCEPT ![w] = Head(q)]
    /\ Dequeue
    /\ cpc' \in NotifyOne(cpc)
    /\ wpc' = [wpc EXCEPT ![w] = "run"]
    /\ UNCHANGED <<closing, threads, arg, life, submitted, done>>

Sleep(w) ==
    /\ wpc[w] = "ready"
    /\ ~closing /\ q = <<>>
    /\ wpc' = [wpc EXCEPT ![w] = "wait"]
    /\ UNCHANGED <<state, task, cpc, arg, life, submitted, done>>

Exit(w) ==
    /\ wpc[w] = "ready"
    /\ closing
    /\ wpc' = [wpc EXCEPT ![w] = "exited"]
    /\ UNCHANGED <<state, task, cpc, arg, life, submitted, done>>

\* task() returns: outside the mutex.
Finish(w) ==
    /\ wpc[w] = "run"
    /\ wpc' = [wpc EXCEPT ![w] = "ready"]
    /\ task' = [task EXCEPT ![w] = NoTask]
    /\ done' = done \cup {task[w]}
    /\ UNCHANGED <<state, cpc, arg, life, submitted>>

-----------------------------------------------------------------------------
(* Stop and the destructor, which calls it (again) *)

CallStop ==
    /\ life = "open"
    /\ \A c \in Callers : cpc[c] = "idle"
    /\ cpc' = [cpc EXCEPT ![Owner] = "ready"]

BeginStop ==
    /\ CallStop
    /\ UNCHANGED <<state, wpc, task, arg, life, submitted, done>>

BeginDestroy ==
    /\ CallStop
    /\ life' = "dtor"
    /\ UNCHANGED <<state, wpc, task, arg, submitted, done>>

StopMayClose == outstanding = 0

StopWait ==
    /\ cpc[Owner] = "ready"
    /\ ~StopMayClose
    /\ cpc' = [cpc EXCEPT ![Owner] = "wait"]
    /\ UNCHANGED <<state, wpc, task, arg, life, submitted, done>>

StopClose ==
    /\ cpc[Owner] = "ready"
    /\ StopMayClose
    /\ closing' = TRUE
    /\ wpc' = NotifyAll(wpc)
    /\ cpc' = [cpc EXCEPT ![Owner] = "join"]
    /\ UNCHANGED <<outstanding, q, threads, task, arg, life, submitted, done>>

\* Every thread of threads_ has been joined.
StopJoin ==
    /\ cpc[Owner] = "join"
    /\ \A w \in threads : wpc[w] = "exited"
    /\ threads' = {}
    /\ cpc' = [cpc EXCEPT ![Owner] = "idle"]
    /\ UNCHANGED <<closing, outstanding, q, wpc, task, arg, life, submitted,
                   done>>

DestroyEnd ==
    /\ life = "dtor"
    /\ cpc[Owner] = "idle"
    /\ life' = "gone"
    /\ UNCHANGED <<state, wpc, task, cpc, arg, submitted, done>>

-----------------------------------------------------------------------------
SpuriousWakeWorker(w) ==
    /\ wpc[w] = "wait"
    /\ wpc' = [wpc EXCEPT ![w] = "ready"]
    /\ UNCHANGED <<state, task, cpc, arg, life, submitted, done>>

SpuriousWakeCaller(c) ==
    /\ cpc[c] = "wait"
    /\ cpc' = [cpc EXCEPT ![c] = "ready"]
    /\ UNCHANGED <<state, wpc, task, arg, life, submitted, done>>

\* The only state in which nothing is left to do.
Terminated == life = "gone" /\ UNCHANGED vars

SubmitStep(u) == SubmitPush(u) \/ SubmitWait(u)
WorkerStep(w) == Take(w) \/ Sleep(w) \/ Exit(w) \/ Finish(w)
StopStep == StopWait \/ StopClose \/ StopJoin \/ DestroyEnd

Next ==
    \/ \E u \in Users : SubmitStep(u) \/ \E t \in Tasks : BeginSubmit(u, t)
    \/ \E w \in Workers : WorkerStep(w) \/ SpuriousWakeWorker(w)
    \/ \E c \in Callers : SpuriousWakeCaller(c)
    \/ BeginStop \/ BeginDestroy \/ StopStep
    \/ Terminated

Spec == Init /\ [][Next]_vars

\* A runnable thread runs, gets the mutex in the end, and a task ends.  No
\* one has to submit or to stop, and no spurious wake-up has to happen.
Fairness ==
    /\ \A u \in Users : WF_vars(SubmitStep(u))
    /\ \A w \in Workers : WF_vars(WorkerStep(w))
    /\ WF_vars(StopStep)

FairSpec == Spec /\ Fairness

-----------------------------------------------------------------------------
TypeOK ==
    /\ closing \in BOOLEAN
    /\ outstanding \in Nat
    /\ q \in Seq(Tasks)
    /\ threads \in SUBSET Workers
    /\ wpc \in [Workers -> WorkerStates]
    /\ task \in [Workers -> Tasks \cup {NoTask}]
    /\ cpc \in [Callers -> CallerStates]
    /\ arg \in [Users -> Tasks \cup {NoTask}]
    /\ life \in {"open", "dtor", "gone"}
    /\ submitted \in SUBSET Tasks
    /\ done \in SUBSET Tasks

\* "Will block if concurrency + 1 items are already scheduled" (header line
\* 52): the queue never holds more than one task per thread and one more,
\* whatever number of callers submit at once and whoever is woken first.
QueueBounded == Len(q) <= Cardinality(Workers) + 1

\* No lost wake-up on cv_: while a thread sleeps, each queued task has a thread
\* of its own that is awake and about to look at the queue.  (Submit notifies
\* one sleeper per task; a thread that takes one does not pass the signal on.)
NoIdleWorker ==
    InState(wpc, {"wait"}) # {} => Len(q) <= Cardinality(InState(wpc, {"ready"}))

\* No lost wake-up on user_cv_, which submitters and Stop share: while a
\* submitter sleeps, the free places of the queue are at most as many as the
\* awake submitters that will look at them; while Stop sleeps, there still is a
\* task whose removal will wake it.
NoStrandedCaller ==
    /\ (\E u \in Users : cpc[u] = "wait") =>
           outstanding + Cardinality(InState(cpc, {"ready"}))
               > Cardinality(Workers)
    /\ cpc[Owner] = "wait" => outstanding > 0

\* Stop returns only when every task ever submitted has been executed: closing_
\* makes a thread leave without looking at the queue, so setting it early
\* would drop tasks.
NothingLostAtStop == threads = {} => done = submitted /\ q = <<>>

\* What SyncThreadPool implements: a task is executed once, in order, and the
\* pool closes when all are done.
E == INSTANCE Executor WITH Slots <- Workers,
                            Capacity <- Cardinality(Workers) + 1,
                            pending <- q, running <- task,
                            open <- threads # {}
Implements == E!Spec

\* A call of Submit returns: a caller that found the queue full is woken.
SubmitReturns ==
    \A u \in Users : cpc[u] # "idle" ~> cpc[u] = "idle"

\* A call of Stop returns, and whoever called the destructor gets out of it:
\* the wake-up that lets Stop see the empty queue is never lost, and no thread
\* misses closing_.
StopReturns ==
    /\ cpc[Owner] # "idle" ~> threads = {}
    /\ life = "dtor" ~> life = "gone"

\* A submitted task is executed even if nobody calls Stop.
EveryTaskExecuted == \A t \in Tasks : t \in submitted ~> t \in done
=============================================================================
