----------------------------- MODULE SyncCounter -----------------------------
(***************************************************************************)
(* SyncCounter of synch_thread_pool.{h,cpp}: threads count jobs up and down *)
(* and others wait until no job is left.  Nothing in the repository uses    *)
(* the class yet; its users here are the ones its interface suggests: each  *)
(* job calls Increment once and Decrement once.  (Decrement asserts that    *)
(* the counter is positive, so it is not called more often than Increment.) *)
(* Critical sections are atomic, as in SyncThreadPool.                      *)
(***************************************************************************)
EXTENDS Naturals

CONSTANTS Jobs, Waiters

VARIABLES cntr,  \* cntr_
          job,   \* "new", "counted" (incremented), "over" (decremented)
          pc     \* "idle", "ready" (to lock m_), "wait" (in cv_), "returned"

vars == <<cntr, job, pc>>

Init ==
    /\ cntr = 0
    /\ job = [j \in Jobs |-> "new"]
    /\ pc = [w \in Waiters |-> "idle"]

NotifyAll == [w \in Waiters |-> IF pc[w] = "wait" THEN "ready" ELSE pc[w]]

Increment(j) ==
    /\ job[j] = "new"
    /\ cntr' = cntr + 1
    /\ job' = [job EXCEPT ![j] = "counted"]
    /\ UNCHANGED pc

\* if (cntr_-- == 0) tests the value before the decrement.
Decrement(j) ==
    /\ job[j] = "counted"
    /\ cntr > 0
    /\ cntr' = cntr - 1
    /\ pc' = IF cntr = 0 THEN NotifyAll ELSE pc
    /\ job' = [job EXCEPT ![j] = "over"]

WaitForZero(w) ==
    /\ pc[w] = "idle"
    /\ pc' = [pc EXCEPT ![w] = "ready"]
    /\ UNCHANGED <<cntr, job>>

TestZero(w) ==
    /\ pc[w] = "ready"
    /\ pc' = [pc EXCEPT ![w] = IF cntr = 0 THEN "returned" ELSE "wait"]
    /\ UNCHANGED <<cntr, job>>

SpuriousWake(w) ==
    /\ pc[w] = "wait"
    /\ pc' = [pc EXCEPT ![w] = "ready"]
    /\ UNCHANGED <<cntr, job>>

Terminated ==
    /\ \A j \in Jobs : job[j] = "over"
    /\ \A w \in Waiters : pc[w] \in {"idle", "returned"}
    /\ UNCHANGED vars

Next ==
    \/ \E j \in Jobs : Increment(j) \/ Decrement(j)
    \/ \E w \in Waiters : WaitForZero(w) \/ TestZero(w) \/ SpuriousWake(w)
    \/ Terminated

\* Jobs that have been counted end, and a thread that can lock m_ does.
FairSpec ==
    /\ Init /\ [][Next]_vars
    /\ \A j \in Jobs : WF_vars(Decrement(j))
    /\ \A w \in Waiters : WF_vars(TestZero(w))

\* WaitForZero returns when the counter has reached zero for good.  The code
\* means Decrement to wake the waiters at zero; they are never woken.
WaitForZeroReturns ==
    <>[](cntr = 0) => \A w \in Waiters : pc[w] = "ready" ~> pc[w] = "returned"
=============================================================================
