------------------------------ MODULE Executor ------------------------------
(***************************************************************************)
(* What a bounded task executor promises its users, without threads,       *)
(* locks or condition variables: tasks are started in the order in which   *)
(* they were accepted, each once, at most one per slot at a time; accepting *)
(* blocks while Capacity tasks are pending; and                            *)
(* closing happens only when everything accepted has been executed.        *)
(* SyncThreadPool.tla is shown to implement this specification.            *)
(***************************************************************************)
EXTENDS Naturals, Sequences, Functions

CONSTANTS Slots,    \* one per thread that executes tasks
          Capacity, \* how many tasks may be pending
          Tasks,    \* the tasks ever handed to the executor
          NoTask    \* what an idle slot executes

VARIABLES pending,  \* accepted, not started yet, oldest first
          running,  \* the task each slot executes
          done,     \* the executed tasks
          open      \* FALSE once the executor has been shut down

vars == <<pending, running, done, open>>

Init ==
    /\ pending = <<>>
    /\ running = [s \in Slots |-> NoTask]
    /\ done = {}
    /\ open = TRUE

Known == Range(pending) \cup Range(running) \cup done

Accept(t) ==
    /\ open
    /\ t \notin Known
    /\ Len(pending) < Capacity
    /\ pending' = Append(pending, t)
    /\ UNCHANGED <<running, done, open>>

Start(s) ==
    /\ open
    /\ pending # <<>>
    /\ running[s] = NoTask
    /\ running' = [running EXCEPT ![s] = Head(pending)]
    /\ pending' = Tail(pending)
    /\ UNCHANGED <<done, open>>

Finish(s) ==
    /\ running[s] # NoTask
    /\ running' = [running EXCEPT ![s] = NoTask]
    /\ done' = done \cup {running[s]}
    /\ UNCHANGED <<pending, open>>

Close ==
    /\ open
    /\ pending = <<>>
    /\ \A s \in Slots : running[s] = NoTask
    /\ open' = FALSE
    /\ UNCHANGED <<pending, running, done>>

Next ==
    \/ \E t \in Tasks : Accept(t)
    \/ \E s \in Slots : Start(s) \/ Finish(s)
    \/ Close

Spec == Init /\ [][Next]_vars
=============================================================================
