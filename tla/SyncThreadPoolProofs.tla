------------------------ MODULE SyncThreadPoolProofs ------------------------
(***************************************************************************)
(* What is true of SyncThreadPool for any number of workers, submitters and *)
(* tasks.                                                                  *)
(***************************************************************************)
EXTENDS SyncThreadPool, FiniteSetTheorems, SequenceTheorems, TLAPS

-----------------------------------------------------------------------------
(* The condition variables *)

\* notify_one wakes a sleeper, if there is one, and touches nobody else.
LEMMA NotifyOneWakesOne ==
    ASSUME NEW S, NEW T, "ready" \in T,
           NEW pc \in [S -> T], NEW pc2 \in NotifyOne(pc)
    PROVE  /\ pc2 \in [S -> T]
           /\ \/ pc2 = pc /\ \A x \in S : pc[x] # "wait"
              \/ \E x \in S : pc[x] = "wait" /\ pc2 = [pc EXCEPT ![x] = "ready"]
BY DEF NotifyOne, InState

\* notify_all wakes all sleepers.
LEMMA NotifyAllWakesAll ==
    ASSUME NEW S, NEW T, "ready" \in T, NEW pc \in [S -> T]
    PROVE  /\ NotifyAll(pc) \in [S -> T]
           /\ \A x \in S : NotifyAll(pc)[x] =
                               IF pc[x] = "wait" THEN "ready" ELSE pc[x]
BY DEF NotifyAll

LEMMA WorkerNotified ==
    ASSUME TypeOK, wpc' \in NotifyOne(wpc)
    PROVE  /\ wpc' \in [Workers -> WorkerStates]
           /\ \/ wpc' = wpc /\ \A w \in Workers : wpc[w] # "wait"
              \/ \E w \in Workers : /\ wpc[w] = "wait"
                                    /\ wpc' = [wpc EXCEPT ![w] = "ready"]
<1>1. "ready" \in WorkerStates /\ wpc \in [Workers -> WorkerStates]
  BY DEF TypeOK, WorkerStates
<1> QED
  BY <1>1, NotifyOneWakesOne

LEMMA CallerNotified ==
    ASSUME TypeOK, cpc' \in NotifyOne(cpc)
    PROVE  /\ cpc' \in [Callers -> CallerStates]
           /\ \/ cpc' = cpc /\ \A c \in Callers : cpc[c] # "wait"
              \/ \E c \in Callers : /\ cpc[c] = "wait"
                                    /\ cpc' = [cpc EXCEPT ![c] = "ready"]
<1>1. "ready" \in CallerStates /\ cpc \in [Callers -> CallerStates]
  BY DEF TypeOK, CallerStates
<1> QED
  BY <1>1, NotifyOneWakesOne

-----------------------------------------------------------------------------
(* Types *)

LEMMA InitTypeOK == Init => TypeOK
<1> SUFFICES ASSUME Init PROVE TypeOK
  OBVIOUS
<1>1. q \in Seq(Tasks)
  BY EmptySeq DEF Init
<1>2. threads \in SUBSET Workers /\ submitted \in SUBSET Tasks /\ done \in SUBSET Tasks
  BY DEF Init
<1>3. closing \in BOOLEAN /\ outstanding \in Nat /\ life \in {"open", "dtor", "gone"}
  BY DEF Init
<1>4. wpc \in [Workers -> WorkerStates] /\ cpc \in [Callers -> CallerStates]
  BY DEF Init, WorkerStates, CallerStates
<1>5. task \in [Workers -> Tasks \cup {NoTask}] /\ arg \in [Users -> Tasks \cup {NoTask}]
  BY DEF Init
<1> QED
  BY <1>1, <1>2, <1>3, <1>4, <1>5 DEF TypeOK

\* Appending to the queue and removing its head keep it a queue of tasks; the
\* counter has to stay a natural number, which needs outstanding = Len(q).
Counted == outstanding = Len(q)

\* The argument of a caller that is inside Submit; a task is executed by the
\* workers in "run".
Busy(u) == cpc[u] # "idle"

ArgOK ==
    \A u \in Users :
        /\ cpc[u] \in {"idle", "ready", "wait"}
        /\ Busy(u) <=> arg[u] \in Tasks

TaskOK == \A w \in Workers : wpc[w] = "run" <=> task[w] \in Tasks

Shape == TypeOK /\ Counted /\ ArgOK /\ TaskOK

LEMMA InitShape == Init => Shape
BY InitTypeOK, CallersAssumption, TasksAssumption
   DEF Init, Shape, Counted, ArgOK, TaskOK, Busy, Callers

LEMMA NextShape ==
    ASSUME Shape, [Next]_vars
    PROVE  Shape'
<1> USE DEF Shape, Counted, ArgOK, TaskOK, Busy, TypeOK, Callers,
            WorkerStates, CallerStates
<1>1. ASSUME NEW u \in Users, NEW t \in Tasks, BeginSubmit(u, t)
      PROVE  Shape'
  BY <1>1, CallersAssumption, TasksAssumption DEF BeginSubmit, state
<1>2. ASSUME NEW u \in Users, SubmitPush(u)
      PROVE  Shape'
  <2> USE <1>2 DEF SubmitPush, Enqueue
  <2>1. arg[u] \in Tasks
    OBVIOUS
  <2>2. q' \in Seq(Tasks) /\ Len(q') = Len(q) + 1
    BY <2>1, AppendProperties
  <2>3. wpc' \in [Workers -> WorkerStates]
        /\ \A w \in Workers : wpc'[w] = "run" <=> wpc[w] = "run"
    BY WorkerNotified
  <2> QED
    BY <2>2, <2>3, TasksAssumption, CallersAssumption
<1>3. ASSUME NEW u \in Users, SubmitWait(u)
      PROVE  Shape'
  BY <1>3, CallersAssumption DEF SubmitWait, state
<1>4. ASSUME NEW w \in Workers, Take(w)
      PROVE  Shape'
  <2> USE <1>4 DEF Take, Dequeue
  <2>1. Head(q) \in Tasks /\ q' \in Seq(Tasks) /\ Len(q') = Len(q) - 1
        /\ Len(q) > 0
    BY HeadTailProperties, EmptySeq
  <2>2. cpc' \in [Callers -> CallerStates]
        /\ \A u \in Users : /\ cpc'[u] = "idle" <=> cpc[u] = "idle"
                            /\ cpc'[u] = "join" <=> cpc[u] = "join"
    BY CallerNotified
  <2> QED
    BY <2>1, <2>2
<1>5. ASSUME NEW w \in Workers, Sleep(w) \/ Exit(w) \/ SpuriousWakeWorker(w)
      PROVE  Shape'
  BY <1>5 DEF Sleep, Exit, SpuriousWakeWorker, state
<1>6. ASSUME NEW w \in Workers, Finish(w)
      PROVE  Shape'
  BY <1>6, TasksAssumption DEF Finish, state
<1>7. ASSUME NEW c \in Callers, SpuriousWakeCaller(c)
      PROVE  Shape'
  BY <1>7, CallersAssumption DEF SpuriousWakeCaller, state
<1>8. CASE BeginStop \/ BeginDestroy \/ StopWait
  BY <1>8, CallersAssumption
     DEF BeginStop, BeginDestroy, CallStop, StopWait, state
<1>9. CASE StopClose
  <2>1. wpc' \in [Workers -> WorkerStates]
        /\ \A w \in Workers : wpc'[w] = "run" <=> wpc[w] = "run"
    BY <1>9 DEF StopClose, NotifyAll
  <2> QED
    BY <1>9, <2>1, CallersAssumption DEF StopClose
<1>10. CASE StopJoin \/ DestroyEnd
  BY <1>10, CallersAssumption DEF StopJoin, DestroyEnd, state
<1>11. CASE UNCHANGED vars
  BY <1>11 DEF vars
<1> QED
  BY <1>1, <1>2, <1>3, <1>4, <1>5, <1>6, <1>7, <1>8, <1>9, <1>10, <1>11
     DEF Next, SubmitStep, WorkerStep, StopStep, Terminated

\* Every variable keeps its type; in particular outstanding_, an unsigned
\* number in the code, is never decremented below zero.
THEOREM TypeCorrect == Spec => []TypeOK
<1>1. Init => Shape
  BY InitShape
<1>2. Shape /\ [Next]_vars => Shape'
  BY NextShape
<1>3. Shape => TypeOK
  BY DEF Shape
<1> QED
  BY <1>1, <1>2, <1>3, PTL DEF Spec

-----------------------------------------------------------------------------
(* Shutdown and the custody of tasks: the inductive invariant.  The pool    *)
(* closes only when the queue is empty, so no thread leaves tasks behind;    *)
(* no submitter is under way while Stop is, so the queue stays empty.        *)

Shutdown ==
    /\ threads \in {Workers, {}}
    /\ ~closing => threads = Workers
    /\ closing => q = <<>>
    /\ \A u \in Users : Busy(u) => ~closing /\ cpc[Owner] = "idle"
    /\ cpc[Owner] = "join" => closing
    /\ \A w \in Workers : wpc[w] = "exited" => closing
    /\ threads = {} => \A w \in Workers : wpc[w] = "exited"

InQueue(t) == \E i \in 1..Len(q) : q[i] = t
Executing(t) == \E w \in Workers : task[w] = t
Offered(t) == \E u \in Users : arg[u] = t

\* A submitted task is in the hands of its caller, in the queue, with a worker
\* or done; while its caller has it, it is nowhere else and no other caller's.
Custody ==
    /\ \A t \in Tasks :
           t \in submitted <=> Offered(t) \/ InQueue(t) \/ Executing(t) \/ t \in done
    /\ \A u \in Users :
           Busy(u) => ~InQueue(arg[u]) /\ ~Executing(arg[u]) /\ arg[u] \notin done
    /\ \A u, v \in Users : Busy(u) /\ Busy(v) /\ arg[u] = arg[v] => u = v

IInv == Shape /\ Shutdown /\ Custody /\ QueueBounded

LEMMA NextShutdown ==
    ASSUME Shape, Shutdown, [Next]_vars
    PROVE  Shutdown'
<1> USE DEF Shape, Shutdown, ArgOK, Busy, Callers, TypeOK
<1>1. ASSUME NEW u \in Users, NEW t \in Tasks, BeginSubmit(u, t)
      PROVE  Shutdown'
  BY <1>1, CallersAssumption DEF BeginSubmit, state
<1>2. ASSUME NEW u \in Users, SubmitPush(u)
      PROVE  Shutdown'
  <2>1. \A w \in Workers : wpc'[w] = "exited" <=> wpc[w] = "exited"
    BY <1>2, WorkerNotified DEF SubmitPush
  <2>2. Busy(u) /\ ~closing
    BY <1>2 DEF SubmitPush
  <2> QED
    BY <1>2, <2>1, <2>2, CallersAssumption DEF SubmitPush
<1>3. ASSUME NEW u \in Users, SubmitWait(u)
      PROVE  Shutdown'
  BY <1>3, CallersAssumption DEF SubmitWait, state
<1>4. ASSUME NEW w \in Workers, Take(w)
      PROVE  Shutdown'
  <2>1. \A c \in Callers : /\ cpc'[c] = "idle" <=> cpc[c] = "idle"
                           /\ cpc'[c] = "join" <=> cpc[c] = "join"
    BY <1>4, CallerNotified DEF Take
  <2> QED
    BY <1>4, <2>1 DEF Take
<1>5. ASSUME NEW w \in Workers,
             Sleep(w) \/ Exit(w) \/ Finish(w) \/ SpuriousWakeWorker(w)
      PROVE  Shutdown'
  BY <1>5 DEF Sleep, Exit, Finish, SpuriousWakeWorker, state
<1>6. ASSUME NEW c \in Callers, SpuriousWakeCaller(c)
      PROVE  Shutdown'
  BY <1>6, CallersAssumption DEF SpuriousWakeCaller, state
<1>7. CASE BeginStop \/ BeginDestroy \/ StopWait
  BY <1>7, CallersAssumption DEF BeginStop, BeginDestroy, CallStop, StopWait, state
<1>8. CASE StopClose
  <2>1. \A w \in Workers : wpc'[w] = "exited" <=> wpc[w] = "exited"
    BY <1>8 DEF StopClose, NotifyAll
  <2>2. q = <<>>
    BY <1>8, EmptySeq DEF StopClose, StopMayClose, Counted
  <2> QED
    BY <1>8, <2>1, <2>2, CallersAssumption DEF StopClose
<1>9. CASE StopJoin \/ DestroyEnd
  BY <1>9, CallersAssumption DEF StopJoin, DestroyEnd, state
<1>10. CASE UNCHANGED vars
  BY <1>10 DEF vars
<1> QED
  BY <1>1, <1>2, <1>3, <1>4, <1>5, <1>6, <1>7, <1>8, <1>9, <1>10
     DEF Next, SubmitStep, WorkerStep, StopStep, Terminated

LEMMA Enqueued ==
    ASSUME q \in Seq(Tasks), NEW t \in Tasks, q' = Append(q, t)
    PROVE  \A x \in Tasks : InQueue(x)' <=> InQueue(x) \/ x = t
<1>1. /\ Len(q') = Len(q) + 1
      /\ \A i \in 1..Len(q) : q'[i] = q[i]
      /\ q'[Len(q) + 1] = t
      /\ Len(q) \in Nat
  BY AppendProperties, LenProperties
<1> QED
  BY <1>1 DEF InQueue

LEMMA Dequeued ==
    ASSUME q \in Seq(Tasks), q # <<>>, q' = Tail(q)
    PROVE  \A x \in Tasks : InQueue(x) <=> InQueue(x)' \/ x = Head(q)
<1>1. /\ Len(q') = Len(q) - 1
      /\ \A i \in 1..Len(q') : q'[i] = q[i + 1]
      /\ Len(q) \in Nat \ {0}
      /\ Head(q) = q[1]
  BY HeadTailProperties, EmptySeq
<1>2. ASSUME NEW x \in Tasks, NEW i \in 1..Len(q), q[i] = x, x # Head(q)
      PROVE  InQueue(x)'
  <2>1. i - 1 \in 1..Len(q') /\ q'[i - 1] = q[i]
    BY <1>1, <1>2
  <2> QED
    BY <1>2, <2>1 DEF InQueue
<1>3. ASSUME NEW x \in Tasks, NEW i \in 1..Len(q'), q'[i] = x
      PROVE  InQueue(x)
  <2>1. i + 1 \in 1..Len(q) /\ q[i + 1] = x
    BY <1>1, <1>3
  <2> QED
    BY <2>1 DEF InQueue
<1>4. InQueue(Head(q))
  BY <1>1 DEF InQueue
<1> QED
  BY <1>2, <1>3, <1>4 DEF InQueue

\* Most steps move no task.
LEMMA CustodyFrame ==
    ASSUME Custody, UNCHANGED <<q, task, arg, submitted, done>>,
           \A u \in Users : Busy(u)' <=> Busy(u)
    PROVE  Custody'
BY DEF Custody, InQueue, Executing, Offered

LEMMA NextCustody ==
    ASSUME Shape, Custody, [Next]_vars
    PROVE  Custody'
<1> USE DEF Shape, TypeOK, ArgOK, TaskOK, Callers
<1>1. ASSUME NEW u \in Users, NEW t \in Tasks, BeginSubmit(u, t)
      PROVE  Custody'
  <2>1. ~Offered(t) /\ ~InQueue(t) /\ ~Executing(t) /\ t \notin done
    BY <1>1 DEF Custody, BeginSubmit
  <2>2. arg[u] \notin Tasks
    BY <1>1 DEF BeginSubmit, Busy
  <2>3. /\ \A x \in Tasks : (InQueue(x)' <=> InQueue(x)) /\ (Executing(x)' <=> Executing(x))
        /\ done' = done /\ submitted' = submitted \cup {t}
    BY <1>1 DEF BeginSubmit, state, InQueue, Executing
  <2>4. /\ arg'[u] = t /\ Busy(u)'
        /\ \A v \in Users \ {u} : arg'[v] = arg[v] /\ (Busy(v)' <=> Busy(v))
    BY <1>1 DEF BeginSubmit, Busy
  <2>5. \A x \in Tasks : Offered(x)' <=> Offered(x) \/ x = t
    BY <2>2, <2>4 DEF Offered
  <2>6. \A x \in Tasks :
          x \in submitted' <=>
              Offered(x)' \/ InQueue(x)' \/ Executing(x)' \/ x \in done'
    BY <2>3, <2>5 DEF Custody
  <2>7. ASSUME NEW v \in Users, Busy(v)'
        PROVE  ~InQueue(arg[v])' /\ ~Executing(arg[v])' /\ arg'[v] \notin done'
    BY <1>1, <2>1, <2>4, <2>7 DEF Custody, BeginSubmit, state, InQueue, Executing
  <2>8. ASSUME NEW v \in Users, NEW z \in Users,
               Busy(v)', Busy(z)', arg'[v] = arg'[z]
        PROVE  v = z
    BY <2>1, <2>4, <2>8 DEF Custody, Offered
  <2> QED
    BY <2>6, <2>7, <2>8 DEF Custody
<1>2. ASSUME NEW u \in Users, SubmitPush(u)
      PROVE  Custody'
  <2>1. Busy(u) /\ arg[u] \in Tasks
    BY <1>2 DEF SubmitPush, Busy
  <2>2. \A x \in Tasks : InQueue(x)' <=> InQueue(x) \/ x = arg[u]
    BY <1>2, <2>1, Enqueued DEF SubmitPush, Enqueue
  <2>3. /\ task' = task /\ done' = done /\ submitted' = submitted
        /\ arg'[u] \notin Tasks /\ ~Busy(u)'
        /\ \A v \in Users \ {u} : arg'[v] = arg[v] /\ (Busy(v)' <=> Busy(v))
    BY <1>2, TasksAssumption, CallersAssumption DEF SubmitPush, Busy
  <2>4. \A x \in Tasks : Executing(x)' <=> Executing(x)
    BY <2>3 DEF Executing
  <2>5. \A x \in Tasks : Offered(x) <=> Offered(x)' \/ x = arg[u]
    <3>1. ASSUME NEW x \in Tasks, x # arg[u]
          PROVE  Offered(x) <=> Offered(x)'
      BY <2>3, <3>1 DEF Offered
    <3> QED
      BY <2>1, <3>1, <2>3 DEF Offered, Custody
  <2>6. \A x \in Tasks :
          x \in submitted' <=>
              Offered(x)' \/ InQueue(x)' \/ Executing(x)' \/ x \in done'
    BY <2>2, <2>3, <2>4, <2>5 DEF Custody
  <2>7. ASSUME NEW v \in Users, Busy(v)'
        PROVE  ~InQueue(arg[v])' /\ ~Executing(arg[v])' /\ arg'[v] \notin done'
    <3>1. v # u /\ Busy(v) /\ arg'[v] = arg[v] /\ arg[v] \in Tasks /\ arg[v] # arg[u]
      BY <2>1, <2>3, <2>7 DEF Custody
    <3>2. ~InQueue(arg[v]) /\ ~Executing(arg[v]) /\ arg[v] \notin done
      BY <3>1 DEF Custody
    <3>3. \A i \in 1..Len(q') : q'[i] # arg[v]
      BY <2>2, <3>1, <3>2 DEF InQueue
    <3> QED
      BY <2>3, <3>1, <3>2, <3>3 DEF InQueue, Executing
  <2>8. ASSUME NEW v \in Users, NEW z \in Users,
               Busy(v)', Busy(z)', arg'[v] = arg'[z]
        PROVE  v = z
    BY <2>3, <2>8 DEF Custody
  <2> QED
    BY <2>6, <2>7, <2>8 DEF Custody
<1>3. ASSUME NEW w \in Workers, Take(w)
      PROVE  Custody'
  <2>1. q # <<>> /\ Head(q) \in Tasks /\ task[w] \notin Tasks
    BY <1>3, HeadTailProperties DEF Take
  <2>2. \A x \in Tasks : InQueue(x) <=> InQueue(x)' \/ x = Head(q)
    BY <1>3, <2>1, Dequeued DEF Take, Dequeue
  <2>3. \A x \in Tasks : Executing(x)' <=> Executing(x) \/ x = Head(q)
    BY <1>3, <2>1 DEF Take, Executing
  <2>4. arg' = arg /\ done' = done /\ submitted' = submitted
    BY <1>3 DEF Take
  <2>5. \A v \in Users : Busy(v)' <=> Busy(v)
    BY <1>3, CallerNotified DEF Take, Busy
  <2>6. \A x \in Tasks :
          x \in submitted' <=>
              Offered(x)' \/ InQueue(x)' \/ Executing(x)' \/ x \in done'
    BY <2>2, <2>3, <2>4 DEF Custody, Offered
  <2>7. ASSUME NEW v \in Users, Busy(v)'
        PROVE  ~InQueue(arg[v])' /\ ~Executing(arg[v])' /\ arg'[v] \notin done'
    <3>1. /\ Busy(v) /\ arg'[v] = arg[v] /\ arg[v] \in Tasks
          /\ ~InQueue(arg[v]) /\ ~Executing(arg[v]) /\ arg[v] \notin done
      BY <2>4, <2>5, <2>7 DEF Custody
    <3>2. /\ \A i \in 1..Len(q') : q'[i] # arg[v]
          /\ \A x \in Workers : task'[x] # arg[v]
      BY <2>2, <2>3, <3>1 DEF InQueue, Executing
    <3> QED
      BY <2>4, <3>1, <3>2 DEF InQueue, Executing
  <2>8. ASSUME NEW v \in Users, NEW z \in Users,
               Busy(v)', Busy(z)', arg'[v] = arg'[z]
        PROVE  v = z
    BY <2>4, <2>5, <2>8 DEF Custody
  <2> QED
    BY <2>6, <2>7, <2>8 DEF Custody
<1>4. ASSUME NEW w \in Workers, Finish(w)
      PROVE  Custody'
  <2>1. /\ task[w] \in Tasks /\ task'[w] \notin Tasks
        /\ \A x \in Workers \ {w} : task'[x] = task[x]
        /\ done' = done \cup {task[w]}
        /\ q' = q /\ arg' = arg /\ submitted' = submitted /\ cpc' = cpc
    BY <1>4, TasksAssumption DEF Finish, state
  <2>2. \A x \in Tasks : Executing(x) \/ x \in done <=> Executing(x)' \/ x \in done'
    <3>1. ASSUME NEW x \in Tasks, x # task[w]
          PROVE  Executing(x) <=> Executing(x)'
      BY <2>1, <3>1 DEF Executing
    <3> QED
      BY <2>1, <3>1 DEF Executing
  <2>3. \A x \in Tasks :
          x \in submitted' <=>
              Offered(x)' \/ InQueue(x)' \/ Executing(x)' \/ x \in done'
    BY <2>1, <2>2 DEF Custody, Offered, InQueue
  <2>4. ASSUME NEW v \in Users, Busy(v)'
        PROVE  ~InQueue(arg[v])' /\ ~Executing(arg[v])' /\ arg'[v] \notin done'
    <3>1. /\ Busy(v) /\ arg[v] \in Tasks
          /\ ~InQueue(arg[v]) /\ ~Executing(arg[v]) /\ arg[v] \notin done
      BY <2>1, <2>4 DEF Custody, Busy
    <3> QED
      BY <2>1, <3>1 DEF InQueue, Executing
  <2>5. ASSUME NEW v \in Users, NEW z \in Users,
               Busy(v)', Busy(z)', arg'[v] = arg'[z]
        PROVE  v = z
    BY <2>1, <2>5 DEF Custody, Busy
  <2> QED
    BY <2>3, <2>4, <2>5 DEF Custody
<1>5. ASSUME NEW u \in Users, SubmitWait(u)
      PROVE  Custody'
  BY <1>5, CustodyFrame DEF SubmitWait, state, Busy
<1>6. ASSUME NEW w \in Workers, Sleep(w) \/ Exit(w) \/ SpuriousWakeWorker(w)
      PROVE  Custody'
  BY <1>6, CustodyFrame DEF Sleep, Exit, SpuriousWakeWorker, state, Busy
<1>7. ASSUME NEW c \in Callers, SpuriousWakeCaller(c)
      PROVE  Custody'
  BY <1>7, CustodyFrame DEF SpuriousWakeCaller, state, Busy
<1>8. CASE BeginStop \/ BeginDestroy \/ StopStep
  BY <1>8, CallersAssumption, CustodyFrame
     DEF BeginStop, BeginDestroy, CallStop, StopStep, StopWait, StopClose,
         StopJoin, DestroyEnd, state, Busy
<1>9. CASE UNCHANGED vars
  BY <1>9, CustodyFrame DEF vars, Busy
<1> QED
  BY <1>1, <1>2, <1>3, <1>4, <1>5, <1>6, <1>7, <1>8, <1>9
     DEF Next, SubmitStep, WorkerStep, Terminated

LEMMA NextQueueBounded ==
    ASSUME Shape, Shutdown, QueueBounded, [Next]_vars
    PROVE  QueueBounded'
<1> USE DEF Shape, TypeOK, Counted, QueueBounded
<1>1. Cardinality(Workers) \in Nat /\ Len(q) \in Nat
  BY WorkersAssumption, FS_CardinalityType, LenProperties
<1>2. ASSUME NEW u \in Users, SubmitPush(u)
      PROVE  QueueBounded'
  <2>1. threads = Workers /\ arg[u] \in Tasks
    BY <1>2 DEF SubmitPush, Shutdown, ArgOK, Busy
  <2>2. Len(q') = Len(q) + 1
    BY <1>2, <2>1, AppendProperties DEF SubmitPush, Enqueue
  <2> QED
    BY <1>1, <1>2, <2>1, <2>2 DEF SubmitPush, HasRoom
<1>3. ASSUME NEW w \in Workers, Take(w)
      PROVE  QueueBounded'
  <2>1. Len(q') = Len(q) - 1
    BY <1>3, HeadTailProperties DEF Take, Dequeue
  <2> QED
    BY <1>1, <2>1
<1>4. CASE q' = q
  BY <1>4
<1> QED
  BY <1>2, <1>3, <1>4
     DEF Next, SubmitStep, WorkerStep, StopStep, BeginSubmit, SubmitWait, Sleep,
         Exit, Finish, SpuriousWakeWorker, SpuriousWakeCaller, BeginStop,
         BeginDestroy, StopWait, StopClose, StopJoin, DestroyEnd, Terminated,
         state, vars

LEMMA InitIInv == Init => IInv
<1> SUFFICES ASSUME Init PROVE IInv
  OBVIOUS
<1>1. Shape
  BY InitShape
<1>2. Len(q) = 0 /\ ~\E i \in 1..Len(q) : TRUE
  BY EmptySeq DEF Init
<1>3. Shutdown
  BY CallersAssumption DEF Init, Shutdown, Busy, Callers
<1>4. Custody
  BY <1>2, TasksAssumption
     DEF Init, Custody, Offered, InQueue, Executing, Busy, Callers
<1>5. QueueBounded
  BY <1>2, WorkersAssumption, FS_CardinalityType DEF QueueBounded
<1> QED
  BY <1>1, <1>3, <1>4, <1>5 DEF IInv

LEMMA NextIInv == IInv /\ [Next]_vars => IInv'
BY NextShape, NextShutdown, NextCustody, NextQueueBounded DEF IInv

\* The invariant that the results below draw on.
THEOREM Invariance == Spec => []IInv
BY InitIInv, NextIInv, PTL DEF Spec

\* "Will block if concurrency + 1 items are already scheduled": for any number
\* of threads and of concurrent submitters, Submit never lets the queue grow
\* beyond one task per thread and one more.
THEOREM QueueIsBounded == Spec => []QueueBounded
BY Invariance, PTL DEF IInv

\* Stop and the destructor return only when every task whose Submit has begun
\* has been executed, for any number of threads, submitters and tasks.
THEOREM StopLosesNothing == Spec => []NothingLostAtStop
<1>1. ASSUME IInv
      PROVE  NothingLostAtStop
  <2>1. ASSUME threads = {}
        PROVE  done = submitted /\ q = <<>>
    <3>1. closing /\ q = <<>> /\ \A w \in Workers : wpc[w] = "exited"
      BY <1>1, <2>1, WorkersAssumption DEF IInv, Shutdown, Shape, TypeOK
    <3>2. \A u \in Users : arg[u] \notin Tasks
      BY <1>1, <3>1 DEF IInv, Shutdown, Shape, ArgOK
    <3>3. \A w \in Workers : task[w] \notin Tasks
      BY <1>1, <3>1 DEF IInv, Shape, TaskOK
    <3>4. \A t \in Tasks : ~Offered(t) /\ ~InQueue(t) /\ ~Executing(t)
      BY <3>1, <3>2, <3>3, EmptySeq DEF Offered, InQueue, Executing
    <3>5. done \subseteq Tasks /\ submitted \subseteq Tasks
      BY <1>1 DEF IInv, Shape, TypeOK
    <3> QED
      BY <1>1, <3>1, <3>4, <3>5 DEF IInv, Custody
  <2> QED
    BY <2>1 DEF NothingLostAtStop
<1> QED
  BY <1>1, Invariance, PTL

-----------------------------------------------------------------------------
(* The pool implements Executor: its steps are the executor's, or change     *)
(* nothing the executor's users can see.                                    *)

LEMMA InitImplements == Init => E!Init
BY WorkersAssumption DEF Init, E!Init

LEMMA PushAccepts ==
    ASSUME IInv, NEW u \in Users, SubmitPush(u)
    PROVE  E!Accept(arg[u])
<1>1. Busy(u) /\ arg[u] \in Tasks /\ threads = Workers
  BY DEF IInv, Shape, ArgOK, Shutdown, SubmitPush, Busy
<1>2. arg[u] \notin Range(q)
  BY <1>1, LenProperties DEF IInv, Shape, TypeOK, Custody, InQueue, Range
<1>3. arg[u] \notin Range(task) /\ arg[u] \notin done
  BY <1>1 DEF IInv, Shape, TypeOK, Custody, Executing, Range
<1>4. Len(q) < Cardinality(Workers) + 1
  BY <1>1, WorkersAssumption, FS_CardinalityType
     DEF IInv, Shape, Counted, TypeOK, SubmitPush, HasRoom
<1> QED
  BY <1>1, <1>2, <1>3, <1>4, WorkersAssumption
     DEF E!Accept, E!Known, E!Range, Range, SubmitPush, Enqueue

LEMMA TakeStarts ==
    ASSUME IInv, NEW w \in Workers, Take(w)
    PROVE  E!Start(w)
<1>1. threads = Workers /\ task[w] = NoTask
  BY DEF IInv, Shape, TypeOK, TaskOK, Shutdown, Take
<1> QED
  BY <1>1, WorkersAssumption DEF E!Start, Take, Dequeue

LEMMA FinishFinishes ==
    ASSUME IInv, NEW w \in Workers, Finish(w)
    PROVE  E!Finish(w)
<1>1. task[w] # NoTask
  BY TasksAssumption DEF IInv, Shape, TaskOK, Finish
<1> QED
  BY <1>1 DEF E!Finish, Finish, state

LEMMA JoinCloses ==
    ASSUME IInv, StopJoin
    PROVE  E!Close \/ UNCHANGED <<q, task, done, threads>>
<1>1. CASE threads = {}
  BY <1>1 DEF StopJoin
<1>2. CASE threads = Workers
  <2>1. closing /\ q = <<>>
    BY DEF IInv, Shutdown, StopJoin, Shape, TypeOK
  <2>2. \A w \in Workers : task[w] = NoTask
    BY <1>2 DEF IInv, Shape, TypeOK, TaskOK, StopJoin
  <2> QED
    BY <1>2, <2>1, <2>2, WorkersAssumption DEF E!Close, StopJoin
<1> QED
  BY <1>1, <1>2 DEF IInv, Shutdown

LEMMA NextImplements == IInv /\ [Next]_vars => [E!Next]_(E!vars)
<1> SUFFICES ASSUME IInv, [Next]_vars
             PROVE  [E!Next]_(E!vars)
  OBVIOUS
<1>1. ASSUME NEW u \in Users, SubmitPush(u)
      PROVE  E!Next
  <2>1. arg[u] \in Tasks
    BY <1>1 DEF IInv, Shape, ArgOK, SubmitPush, Busy
  <2> QED
    BY <1>1, <2>1, PushAccepts DEF E!Next
<1>2. ASSUME NEW w \in Workers, Take(w) \/ Finish(w)
      PROVE  E!Next
  BY <1>2, TakeStarts, FinishFinishes DEF E!Next
<1>3. CASE StopJoin
  BY <1>3, JoinCloses DEF E!Next, E!vars
<1>4. CASE UNCHANGED <<q, task, done, threads>>
  BY <1>4 DEF E!vars
<1> QED
  BY <1>1, <1>2, <1>3, <1>4
     DEF Next, SubmitStep, WorkerStep, StopStep, BeginSubmit, SubmitWait, Sleep,
         Exit, SpuriousWakeWorker, SpuriousWakeCaller, BeginStop,
         BeginDestroy, StopWait, StopClose, DestroyEnd, Terminated, state, vars

\* SyncThreadPool is a bounded executor: tasks start in the order in which
\* they were accepted, each once, and the pool closes when all are done.
THEOREM Refinement == Spec => Implements
<1>1. Init => E!Init
  BY InitImplements
<1>2. IInv /\ [Next]_vars => [E!Next]_(E!vars)
  BY NextImplements
<1> QED
  BY <1>1, <1>2, Invariance, PTL DEF Spec, Implements, E!Spec

-----------------------------------------------------------------------------
(* No lost wake-ups *)

Ready(pc) == InState(pc, {"ready"})

LEMMA ReadyFinite ==
    ASSUME NEW S, IsFiniteSet(S), NEW T, NEW pc \in [S -> T]
    PROVE  IsFiniteSet(Ready(pc)) /\ Cardinality(Ready(pc)) \in Nat
<1>1. Ready(pc) \in SUBSET S
  BY DEF Ready, InState
<1> QED
  BY <1>1, FS_Subset, FS_CardinalityType

LEMMA OneGetsReady ==
    ASSUME NEW S, IsFiniteSet(S), NEW T, NEW pc \in [S -> T], NEW x \in S,
           "ready" \in T, pc[x] # "ready"
    PROVE  Cardinality(Ready([pc EXCEPT ![x] = "ready"]))
               = Cardinality(Ready(pc)) + 1
<1> DEFINE pc2 == [pc EXCEPT ![x] = "ready"]
<1>1. IsFiniteSet(Ready(pc))
  BY ReadyFinite
<1>2. Ready(pc2) = Ready(pc) \cup {x} /\ x \notin Ready(pc)
  BY DEF Ready, InState
<1> QED
  BY <1>1, <1>2, FS_AddElement

LEMMA OneNoLongerReady ==
    ASSUME NEW S, IsFiniteSet(S), NEW T, NEW pc \in [S -> T], NEW x \in S,
           pc[x] = "ready", NEW v, v # "ready"
    PROVE  Cardinality(Ready([pc EXCEPT ![x] = v])) = Cardinality(Ready(pc)) - 1
<1> DEFINE pc2 == [pc EXCEPT ![x] = v]
<1>1. IsFiniteSet(Ready(pc))
  BY ReadyFinite
<1>2. Ready(pc2) = Ready(pc) \ {x} /\ x \in Ready(pc)
  BY DEF Ready, InState
<1> QED
  BY <1>1, <1>2, FS_RemoveElement

\* NoIdleWorker, spelled out for a proof by cases on the actions.
WorkersAwake ==
    \A w \in Workers : wpc[w] = "wait" => Len(q) <= Cardinality(Ready(wpc))

LEMMA NextWorkersAwake ==
    ASSUME IInv, WorkersAwake, [Next]_vars
    PROVE  WorkersAwake'
<1> DEFINE n == Cardinality(Ready(wpc))
<1>a. /\ IsFiniteSet(Workers) /\ wpc \in [Workers -> WorkerStates]
      /\ q \in Seq(Tasks)
      /\ "ready" \in WorkerStates /\ "run" \in WorkerStates
  BY WorkersAssumption DEF IInv, Shape, TypeOK, WorkerStates
<1>b. n \in Nat
  BY <1>a, ReadyFinite
<1>c. Len(q) \in Nat
  BY <1>a, LenProperties
<1>1. ASSUME NEW u \in Users, SubmitPush(u)
      PROVE  WorkersAwake'
  <2>1. Len(q') = Len(q) + 1
    BY <1>a, <1>1, AppendProperties
       DEF SubmitPush, Enqueue, IInv, Shape, ArgOK, Busy
  <2>2. CASE \A w \in Workers : wpc'[w] # "wait"
    BY <2>2 DEF WorkersAwake
  <2>3. CASE \E w \in Workers : wpc[w] = "wait" /\ wpc' = [wpc EXCEPT ![w] = "ready"]
    <3>1. PICK w \in Workers : wpc[w] = "wait" /\ wpc' = [wpc EXCEPT ![w] = "ready"]
      BY <2>3
    <3>2. Cardinality(Ready([wpc EXCEPT ![w] = "ready"])) = n + 1
      BY <1>a, <3>1, OneGetsReady
    <3>3. Len(q) <= n
      BY <3>1 DEF WorkersAwake
    <3> QED
      BY <1>b, <1>c, <2>1, <3>1, <3>2, <3>3 DEF WorkersAwake
  <2> QED
    BY <1>1, <2>2, <2>3, WorkerNotified DEF SubmitPush, IInv, Shape
<1>2. ASSUME NEW w \in Workers, Take(w)
      PROVE  WorkersAwake'
  <2>1. Len(q') = Len(q) - 1
    BY <1>a, <1>2, HeadTailProperties DEF Take, Dequeue
  <2>2. wpc' = [wpc EXCEPT ![w] = "run"] /\ wpc[w] = "ready"
    BY <1>2 DEF Take
  <2>3. Cardinality(Ready([wpc EXCEPT ![w] = "run"])) = n - 1
    BY <1>a, <2>2, "run" # "ready", OneNoLongerReady
  <2>4. ASSUME NEW x \in Workers, wpc'[x] = "wait"
        PROVE  Len(q) <= n
    BY <1>a, <2>2, <2>4 DEF WorkersAwake
  <2>5. Cardinality(Ready(wpc))' = n - 1
    BY <2>2, <2>3
  <2> QED
    BY <1>b, <1>c, <2>1, <2>4, <2>5 DEF WorkersAwake
<1>3. ASSUME NEW w \in Workers, Finish(w) \/ SpuriousWakeWorker(w)
      PROVE  WorkersAwake'
  <2>1. /\ q' = q /\ wpc' = [wpc EXCEPT ![w] = "ready"]
        /\ wpc[w] \in {"run", "wait"}
    BY <1>3 DEF Finish, SpuriousWakeWorker, state
  <2>2. Cardinality(Ready([wpc EXCEPT ![w] = "ready"])) = n + 1
    BY ZenonT(60), <1>a, <2>1, OneGetsReady
  <2> QED
    BY <1>b, <1>c, <2>1, <2>2 DEF WorkersAwake
<1>4. CASE q' = <<>>
  <2>1. Shape'
    BY NextShape DEF IInv
  <2>2. Cardinality(Ready(wpc))' \in Nat
    BY <1>a, <2>1, ReadyFinite DEF Shape, TypeOK
  <2> QED
    BY <1>4, <2>2, EmptySeq DEF WorkersAwake
<1>5. CASE UNCHANGED <<q, wpc>>
  BY <1>5 DEF WorkersAwake
<1>6. ASSUME NEW w \in Workers, Sleep(w) \/ Exit(w)
      PROVE  q' = <<>>
  BY <1>6 DEF Sleep, Exit, state, IInv, Shutdown
<1>7. ASSUME StopClose
      PROVE  q' = <<>>
  BY <1>7, <1>a, EmptySeq DEF StopClose, StopMayClose, IInv, Shape, Counted
<1> QED
  BY <1>1, <1>2, <1>3, <1>4, <1>5, <1>6, <1>7
     DEF Next, SubmitStep, WorkerStep, StopStep, BeginSubmit, SubmitWait,
         SpuriousWakeCaller, BeginStop, BeginDestroy, StopWait, StopJoin,
         DestroyEnd, Terminated, state, vars

\* No wake-up is lost on cv_, for any number of threads: while one sleeps,
\* every queued task has an awake thread that will look for it.
THEOREM NoWorkerSleepsOnWork == Spec => []NoIdleWorker
<1>1. Init => WorkersAwake
  BY DEF Init, WorkersAwake
<1>2. IInv /\ WorkersAwake /\ [Next]_vars => WorkersAwake'
  BY NextWorkersAwake
<1>3. ASSUME IInv, WorkersAwake
      PROVE  NoIdleWorker
  BY <1>3 DEF NoIdleWorker, WorkersAwake, InState, Ready, IInv, Shape, TypeOK
<1> QED
  BY <1>1, <1>2, <1>3, Invariance, PTL DEF Spec

LEMMA NextNoStrandedCaller ==
    ASSUME IInv, NoStrandedCaller, [Next]_vars
    PROVE  NoStrandedCaller'
<1> DEFINE n == Cardinality(Ready(cpc))
           awake == outstanding + n > Cardinality(Workers)
<1>a. /\ IsFiniteSet(Callers) /\ cpc \in [Callers -> CallerStates]
      /\ "ready" \in CallerStates
      /\ outstanding \in Nat /\ Cardinality(Workers) \in Nat
      /\ Owner \in Callers /\ Users \subseteq Callers /\ Owner \notin Users
  BY WorkersAssumption, CallersAssumption, FS_CardinalityType, FS_AddElement
     DEF IInv, Shape, TypeOK, Callers, CallerStates
<1>b. n \in Nat
  BY <1>a, ReadyFinite
<1>c. /\ \A u \in Users : cpc[u] = "wait" => awake
      /\ cpc[Owner] = "wait" => outstanding > 0
  BY DEF NoStrandedCaller, Ready
<1>d. \A u \in Users : cpc[u] # "idle" => cpc[Owner] = "idle" /\ threads = Workers
  BY DEF IInv, Shutdown, Busy
<1> SUFFICES /\ \A u \in Users : (cpc[u] = "wait")' => awake'
             /\ (cpc[Owner] = "wait")' => (outstanding > 0)'
  BY DEF NoStrandedCaller, Ready
<1>1. ASSUME NEW c \in Callers, cpc[c] # "ready",
             cpc' = [cpc EXCEPT ![c] = "ready"], outstanding' = outstanding
      PROVE  /\ \A u \in Users : (cpc[u] = "wait")' => awake'
             /\ (cpc[Owner] = "wait")' => (outstanding > 0)'
  <2>1. Cardinality(Ready([cpc EXCEPT ![c] = "ready"])) = n + 1
    BY ZenonT(60), <1>a, <1>1, OneGetsReady
  <2>2. n' = n + 1
    BY <1>1, <2>1
  <2>3. \A x \in Callers : cpc'[x] = "wait" => cpc[x] = "wait"
    BY <1>a, <1>1
  <2> QED
    BY <1>1, <1>a, <1>b, <1>c, <2>2, <2>3
<1>2. ASSUME NEW u \in Users, SubmitPush(u)
      PROVE  /\ \A v \in Users : (cpc[v] = "wait")' => awake'
             /\ (cpc[Owner] = "wait")' => (outstanding > 0)'
  <2>1. /\ cpc[u] = "ready" /\ cpc' = [cpc EXCEPT ![u] = "idle"]
        /\ outstanding' = outstanding + 1
    BY <1>2 DEF SubmitPush, Enqueue
  <2>2. Cardinality(Ready([cpc EXCEPT ![u] = "idle"])) = n - 1
    BY <1>a, <2>1, "idle" # "ready", OneNoLongerReady
  <2>3. n' = n - 1
    BY <2>1, <2>2
  <2>4. \A x \in Callers : cpc'[x] = "wait" => cpc[x] = "wait"
    BY <1>a, <2>1
  <2> QED
    BY <1>a, <1>b, <1>c, <2>1, <2>3, <2>4
<1>3. ASSUME NEW u \in Users, SubmitWait(u)
      PROVE  /\ \A v \in Users : (cpc[v] = "wait")' => awake'
             /\ (cpc[Owner] = "wait")' => (outstanding > 0)'
  <2>1. /\ cpc' = [cpc EXCEPT ![u] = "wait"] /\ outstanding' = outstanding
        /\ outstanding > Cardinality(threads) /\ cpc[u] = "ready"
    BY <1>3, <1>a, <1>d DEF SubmitWait, HasRoom, state
  <2>2. threads = Workers /\ cpc'[Owner] # "wait"
    BY <1>a, <1>d, <2>1
  <2>3. cpc' \in [Callers -> CallerStates]
    BY <1>a, <2>1 DEF CallerStates
  <2>4. n' \in Nat
    BY <1>a, <2>3, ReadyFinite
  <2> QED
    BY <1>a, <2>1, <2>2, <2>4
<1>4. ASSUME NEW w \in Workers, Take(w)
      PROVE  /\ \A u \in Users : (cpc[u] = "wait")' => awake'
             /\ (cpc[Owner] = "wait")' => (outstanding > 0)'
  <2>1. outstanding' = outstanding - 1
    BY <1>4 DEF Take, Dequeue
  <2>2. CASE \A c \in Callers : cpc'[c] # "wait"
    BY <1>a, <2>2
  <2>3. CASE \E c \in Callers : cpc[c] = "wait" /\ cpc' = [cpc EXCEPT ![c] = "ready"]
    <3>1. PICK c \in Callers : cpc[c] = "wait" /\ cpc' = [cpc EXCEPT ![c] = "ready"]
      BY <2>3
    <3>2. Cardinality(Ready([cpc EXCEPT ![c] = "ready"])) = n + 1
      BY ZenonT(60), <1>a, <3>1, OneGetsReady
    <3>3. n' = n + 1
      BY <3>1, <3>2
    <3>4. \A x \in Callers : cpc'[x] = "wait" => cpc[x] = "wait"
      BY <1>a, <3>1
    <3>5. cpc'[Owner] # "wait"
      BY <1>a, <1>d, <3>1 DEF Callers
    <3> QED
      BY <1>a, <1>b, <1>c, <2>1, <3>3, <3>4, <3>5
  <2> QED
    BY <1>4, <2>2, <2>3, CallerNotified DEF Take, IInv, Shape
<1>5. ASSUME cpc[Owner] # "idle", NEW s \in {"wait", "join", "idle"},
             cpc' = [cpc EXCEPT ![Owner] = s], s = "wait" => outstanding' > 0
      PROVE  /\ \A u \in Users : (cpc[u] = "wait")' => awake'
             /\ (cpc[Owner] = "wait")' => (outstanding > 0)'
  BY <1>5, <1>a, <1>d
<1>6. ASSUME UNCHANGED <<cpc, outstanding>>
      PROVE  /\ \A u \in Users : (cpc[u] = "wait")' => awake'
             /\ (cpc[Owner] = "wait")' => (outstanding > 0)'
  BY <1>6, <1>c
<1>7. ASSUME NEW u \in Users, NEW t \in Tasks, BeginSubmit(u, t)
      PROVE  /\ cpc[u] # "ready" /\ cpc' = [cpc EXCEPT ![u] = "ready"]
             /\ outstanding' = outstanding /\ u \in Callers
  BY <1>7, <1>a DEF BeginSubmit, state
<1>8. ASSUME NEW c \in Callers, SpuriousWakeCaller(c)
      PROVE  /\ cpc[c] # "ready" /\ cpc' = [cpc EXCEPT ![c] = "ready"]
             /\ outstanding' = outstanding
  BY <1>8 DEF SpuriousWakeCaller, state
<1>9. ASSUME BeginStop \/ BeginDestroy
      PROVE  /\ cpc[Owner] # "ready" /\ cpc' = [cpc EXCEPT ![Owner] = "ready"]
             /\ outstanding' = outstanding
  BY <1>9, <1>a DEF BeginStop, BeginDestroy, CallStop, state
<1>10. ASSUME StopWait \/ StopClose \/ StopJoin
       PROVE  /\ cpc[Owner] # "idle"
              /\ \E s \in {"wait", "join", "idle"} :
                    /\ cpc' = [cpc EXCEPT ![Owner] = s]
                    /\ s = "wait" => outstanding' > 0
  BY <1>10, <1>a DEF StopWait, StopClose, StopJoin, StopMayClose, state
<1> HIDE DEF n, awake
<1>11. CASE BeginStop \/ BeginDestroy \/ StopStep
  BY <1>1, <1>5, <1>6, <1>9, <1>10, <1>11, <1>a DEF StopStep, DestroyEnd, state
<1>12. CASE \E u \in Users : SubmitStep(u) \/ \E t \in Tasks : BeginSubmit(u, t)
  BY <1>1, <1>2, <1>3, <1>7, <1>12 DEF SubmitStep
<1>13. CASE \E w \in Workers : WorkerStep(w) \/ SpuriousWakeWorker(w)
  BY <1>4, <1>6, <1>13
     DEF WorkerStep, Sleep, Exit, Finish, SpuriousWakeWorker, state
<1>14. CASE \E c \in Callers : SpuriousWakeCaller(c)
  BY <1>1, <1>8, <1>14
<1>15. CASE UNCHANGED vars
  BY <1>6, <1>15 DEF vars
<1> QED
  BY <1>11, <1>12, <1>13, <1>14, <1>15 DEF Next, Terminated

\* No wake-up is lost on user_cv_, for any number of threads and submitters:
\* a sleeping submitter is matched by a taken place or an awake submitter, and
\* a sleeping Stop by a task that is still queued.
THEOREM NoCallerIsStranded == Spec => []NoStrandedCaller
<1>1. Init => NoStrandedCaller
  BY CallersAssumption DEF Init, NoStrandedCaller, Callers
<1>2. IInv /\ NoStrandedCaller /\ [Next]_vars => NoStrandedCaller'
  BY NextNoStrandedCaller
<1> QED
  BY <1>1, <1>2, Invariance, PTL DEF Spec

-----------------------------------------------------------------------------
(* A task that has been accepted is in one place only: once in the queue or  *)
(* with one worker.  Users of the pool rely on this (ScanDirectoryProofs).    *)

Exclusive ==
    /\ \A i, j \in 1..Len(q) : q[i] = q[j] => i = j
    /\ \A w \in Workers : task[w] \in Tasks => ~InQueue(task[w])
    /\ \A w, v \in Workers : task[w] \in Tasks /\ task[w] = task[v] => w = v

LEMMA NextExclusive ==
    ASSUME IInv, Exclusive, [Next]_vars
    PROVE  Exclusive'
<1> USE DEF IInv, Shape, TypeOK
<1>1. ASSUME NEW u \in Users, SubmitPush(u)
      PROVE  Exclusive'
  <2>1. arg[u] \in Tasks /\ ~InQueue(arg[u]) /\ ~Executing(arg[u])
    BY <1>1 DEF SubmitPush, ArgOK, Busy, Custody
  <2>2. task' = task /\ q' = Append(q, arg[u])
    BY <1>1 DEF SubmitPush, Enqueue
  <2>3. \A x \in Tasks : InQueue(x)' <=> InQueue(x) \/ x = arg[u]
    BY <2>1, <2>2, Enqueued
  <2>4. /\ Len(q') = Len(q) + 1 /\ Len(q) \in Nat
        /\ \A i \in 1..Len(q) : q'[i] = q[i] /\ q[i] # arg[u]
        /\ q'[Len(q) + 1] = arg[u]
    BY <2>1, <2>2, AppendProperties, LenProperties DEF InQueue
  <2>5. \A i, j \in 1..Len(q') : q'[i] = q'[j] => i = j
    <3>1. \A i \in 1..Len(q') : i \in 1..Len(q) \/ i = Len(q) + 1
      BY <2>4
    <3> QED
      BY <2>4, <3>1 DEF Exclusive
  <2>6. ASSUME NEW w \in Workers, task'[w] \in Tasks
        PROVE  ~InQueue(task[w])'
    BY <2>1, <2>2, <2>3, <2>6 DEF Exclusive, Executing
  <2> QED
    BY <2>2, <2>5, <2>6 DEF Exclusive
<1>2. ASSUME NEW w \in Workers, Take(w)
      PROVE  Exclusive'
  <2>1. /\ q # <<>> /\ q' = Tail(q)
        /\ task' = [task EXCEPT ![w] = Head(q)]
    BY <1>2 DEF Take, Dequeue
  <2>2. /\ Len(q') = Len(q) - 1 /\ Len(q) \in Nat \ {0}
        /\ \A i \in 1..Len(q') : q'[i] = q[i + 1]
        /\ Head(q) = q[1] /\ Head(q) \in Tasks
    BY <2>1, HeadTailProperties, EmptySeq
  <2>3. \A i \in 1..Len(q') : i + 1 \in 1..Len(q) /\ q'[i] # Head(q)
    <3>1. \A i \in 1..Len(q') : i + 1 \in 1..Len(q) /\ i + 1 # 1 /\ 1 \in 1..Len(q)
      BY <2>2
    <3> QED
      BY <2>2, <3>1 DEF Exclusive
  <2>4. \A i, j \in 1..Len(q') : q'[i] = q'[j] => i = j
    <3>1. ASSUME NEW i \in 1..Len(q'), NEW j \in 1..Len(q'), q'[i] = q'[j]
          PROVE  i = j
      <4>1. i + 1 = j + 1
        BY <2>2, <2>3, <3>1 DEF Exclusive
      <4> QED
        BY <2>2, <4>1
    <3> QED
      BY <3>1
  <2>5. \A x \in Tasks : InQueue(x)' => InQueue(x) /\ x # Head(q)
    BY <2>2, <2>3 DEF InQueue
  <2>6. InQueue(Head(q))
    BY <2>2 DEF InQueue
  <2>7. \A v \in Workers : task[v] # Head(q)
    BY <2>2, <2>6 DEF Exclusive
  <2>8. ASSUME NEW v \in Workers, task'[v] \in Tasks
        PROVE  ~InQueue(task[v])'
    <3>1. task'[v] = Head(q) \/ task'[v] = task[v]
      BY <2>1
    <3> QED
      BY <2>5, <2>8, <3>1 DEF Exclusive, InQueue
  <2>9. ASSUME NEW v \in Workers, NEW z \in Workers,
               task'[v] \in Tasks, task'[v] = task'[z]
        PROVE  v = z
    BY <2>1, <2>7, <2>9 DEF Exclusive
  <2> QED
    BY <2>4, <2>8, <2>9 DEF Exclusive
<1>3. ASSUME NEW w \in Workers, Finish(w)
      PROVE  Exclusive'
  <2>1. /\ q' = q /\ task'[w] \notin Tasks
        /\ \A x \in Workers \ {w} : task'[x] = task[x]
    BY <1>3, TasksAssumption DEF Finish, state
  <2> QED
    BY <2>1 DEF Exclusive, InQueue
<1>4. CASE UNCHANGED <<q, task>>
  BY <1>4 DEF Exclusive, InQueue
<1> QED
  BY <1>1, <1>2, <1>3, <1>4
     DEF Next, SubmitStep, WorkerStep, StopStep, BeginSubmit, SubmitWait, Sleep,
         Exit, SpuriousWakeWorker, SpuriousWakeCaller, BeginStop, BeginDestroy,
         StopWait, StopClose, StopJoin, DestroyEnd, Terminated, state, vars

LEMMA InitExclusive == Init => Exclusive
BY EmptySeq, TasksAssumption DEF Init, Exclusive, InQueue

-----------------------------------------------------------------------------
(* What remains when the destructor has returned: nothing.                   *)

Destroyed ==
    /\ life = "dtor" /\ cpc[Owner] = "idle" => threads = {}
    /\ life = "gone" => threads = {} /\ cpc[Owner] = "idle"

LEMMA InitDestroyed == Init => Destroyed
BY DEF Init, Destroyed

LEMMA NextDestroyed ==
    ASSUME IInv, Destroyed, [Next]_vars
    PROVE  Destroyed'
<1> USE CallersAssumption DEF IInv, Shape, TypeOK, Destroyed, Callers
<1>1. ASSUME NEW w \in Workers, Take(w)
      PROVE  Destroyed'
  <2>1. cpc'[Owner] = "idle" <=> cpc[Owner] = "idle"
    BY <1>1, CallerNotified DEF Take
  <2> QED
    BY <1>1, <2>1 DEF Take
<1>2. CASE BeginDestroy \/ BeginStop
  BY <1>2 DEF BeginDestroy, BeginStop, CallStop, state
<1>3. CASE StopStep
  BY <1>3 DEF StopStep, StopWait, StopClose, StopJoin, DestroyEnd, state
<1>4. ASSUME NEW u \in Users,
             SubmitPush(u) \/ SubmitWait(u) \/ \E t \in Tasks : BeginSubmit(u, t)
      PROVE  Destroyed'
  BY <1>4 DEF SubmitPush, SubmitWait, BeginSubmit, state
<1>5. ASSUME NEW c \in Callers, SpuriousWakeCaller(c)
      PROVE  Destroyed'
  BY <1>5 DEF SpuriousWakeCaller, state
<1>6. CASE UNCHANGED <<life, cpc, threads>>
  BY <1>6
<1> QED
  BY <1>1, <1>2, <1>3, <1>4, <1>5, <1>6
     DEF Next, SubmitStep, WorkerStep, Sleep, Exit, Finish, SpuriousWakeWorker, Terminated,
         state, vars

LEMMA Drained ==
    ASSUME IInv, Destroyed, life = "gone"
    PROVE  /\ q = <<>>
           /\ \A u \in Users : arg[u] \notin Tasks
           /\ \A w \in Workers : task[w] \notin Tasks
<1>1. closing /\ q = <<>> /\ \A w \in Workers : wpc[w] = "exited"
  BY WorkersAssumption DEF IInv, Shutdown, Shape, TypeOK, Destroyed
<1>2. \A u \in Users : arg[u] \notin Tasks
  BY <1>1 DEF IInv, Shutdown, Shape, ArgOK
<1>3. \A w \in Workers : task[w] \notin Tasks
  BY <1>1 DEF IInv, Shape, TaskOK
<1> QED
  BY <1>1, <1>2, <1>3
=============================================================================
