---------------------------- MODULE BlockingFifo ----------------------------
(***************************************************************************)
(* What src/src/thread_queue.h promises of ThreadQueue<T>, seen from the   *)
(* outside: enqueue() appends an element, dequeue() removes the oldest one *)
(* and does not complete before there is one.  Locks, condition variables  *)
(* and threads do not exist at this level.                                 *)
(***************************************************************************)
EXTENDS Sequences

CONSTANT Item        \* the elements that may be passed through the queue

VARIABLES
    fifo,            \* the elements enqueued and not yet dequeued
    delivered        \* history: the elements returned by dequeue(), in order

fifoVars == <<fifo, delivered>>

FifoInit ==
    /\ fifo = <<>>
    /\ delivered = <<>>

Put(x) ==
    /\ fifo' = Append(fifo, x)
    /\ UNCHANGED delivered

Get ==
    /\ fifo # <<>>
    /\ delivered' = Append(delivered, Head(fifo))
    /\ fifo' = Tail(fifo)

FifoNext == Get \/ \E x \in Item : Put(x)

\* A pending element does not stay in the queue forever: the consumers of the
\* program call dequeue() again and again.
FifoSpec == FifoInit /\ [][FifoNext]_fifoVars /\ WF_fifoVars(Get)
=============================================================================
