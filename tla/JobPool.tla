------------------------------ MODULE JobPool -------------------------------
(***************************************************************************)
(* What src/src/thread_pool.h promises of ThreadPool: a fixed number of    *)
(* workers; enqueue() completes only when some worker is idle and then     *)
(* gives it the function "to immediately process"; the destructor returns  *)
(* when everything that was enqueued has been executed.                    *)
(***************************************************************************)
EXTENDS Naturals

CONSTANTS
    Slots,      \* one per worker thread
    JobCount    \* at most this many functions are enqueued

\* A slot is idle, has been given a job, or executes it.
IdleSlot == [state |-> "idle", job |-> 0]
Given(j) == [state |-> "given", job |-> j]
Executing(j) == [state |-> "executing", job |-> j]

VARIABLES
    slot,       \* what each worker is doing
    given,      \* jobs 1..given have been enqueued, in this order
    executed,   \* the jobs that have been executed to their end
    open        \* the destructor has not returned

poolVars == <<slot, given, executed, open>>

PoolInit ==
    /\ slot = [s \in Slots |-> IdleSlot]
    /\ given = 0
    /\ executed = {}
    /\ open = TRUE

Give(s) ==
    /\ open
    /\ given < JobCount
    /\ slot[s] = IdleSlot
    /\ slot' = [slot EXCEPT ![s] = Given(given + 1)]
    /\ given' = given + 1
    /\ UNCHANGED <<executed, open>>

Begin(s) ==
    /\ slot[s].state = "given"
    /\ slot' = [slot EXCEPT ![s] = Executing(slot[s].job)]
    /\ UNCHANGED <<given, executed, open>>

End(s) ==
    /\ slot[s].state = "executing"
    /\ slot' = [slot EXCEPT ![s] = IdleSlot]
    /\ executed' = executed \cup {slot[s].job}
    /\ UNCHANGED <<given, open>>

Close ==
    /\ open
    /\ \A s \in Slots : slot[s] = IdleSlot
    /\ open' = FALSE
    /\ UNCHANGED <<slot, given, executed>>

PoolNext == Close \/ \E s \in Slots : Give(s) \/ Begin(s) \/ End(s)

PoolSafety == PoolInit /\ [][PoolNext]_poolVars

\* Every job that was given to a worker is executed, and the pool is closed.
PoolSpec == PoolSafety /\ WF_poolVars(PoolNext)
=============================================================================
