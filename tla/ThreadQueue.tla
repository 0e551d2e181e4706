---------------------------- MODULE ThreadQueue -----------------------------
(***************************************************************************)
(* ThreadQueue<T> of src/src/thread_queue_impl.h at the granularity of its *)
(* mutex and condition variable operations.  Producers call enqueue() a    *)
(* bounded number of times, consumers call dequeue() forever.              *)
(*                                                                         *)
(* dequeue() tests for emptiness with "if", not "while", so what it does   *)
(* after a wake-up depends on who else may have run in between and on      *)
(* whether pthread_cond_wait may return without a signal.  Both are        *)
(* parameters here: the set Consumers and the constant SpuriousWakeups.    *)
(***************************************************************************)
EXTENDS Naturals, Sequences

CONSTANTS
    Producers,          \* the threads that call enqueue()
    Consumers,          \* the threads that call dequeue()
    ItemsPerProducer,   \* bound: calls of enqueue() each producer makes
    SpuriousWakeups,    \* may pthread_cond_wait return without a signal?
    Free,               \* the mutex is not held
    Garbage             \* what front() yields on an empty std::queue

Threads == Producers \cup Consumers

\* The k-th element that producer p enqueues.
Item == Producers \X (1..ItemsPerProducer)

ASSUME QueueAssumption ==
    /\ Producers \cap Consumers = {}
    /\ ItemsPerProducer \in Nat
    /\ SpuriousWakeups \in BOOLEAN
    /\ Free \notin Threads
    /\ Garbage \notin Item

VARIABLES
    mutex,      \* _mutex: the thread holding it, or Free
    queue,      \* _queue
    pc,         \* where each thread is in enqueue() or dequeue()
    sent,       \* how many elements each producer has pushed
    received,   \* history: what dequeue() returned, in the order of the pops
    corrupt     \* front() and pop() were applied to an empty std::queue

vars == <<mutex, queue, pc, sent, received, corrupt>>

\* The program counters at which a thread holds the mutex.
InCritical == {"push", "notify", "test", "take", "unlock"}

Outside == {"idle", "waiting", "woken"}

\* The threads blocked in _cond_var.wait().
Waiters == {c \in Consumers : pc[c] = "waiting"}

-----------------------------------------------------------------------------
Init ==
    /\ mutex = Free
    /\ queue = <<>>
    /\ pc = [t \in Threads |-> "idle"]
    /\ sent = [p \in Producers |-> 0]
    /\ received = <<>>
    /\ corrupt = FALSE

Goto(t, label) == pc' = [pc EXCEPT ![t] = label]

\* Mutant: lock() does not wait for the mutex.
AcquireHeld(t, from, to) ==
    /\ pc[t] = from
    /\ mutex' = t
    /\ Goto(t, to)
    /\ UNCHANGED <<queue, sent, received, corrupt>>

\* pthread_mutex_lock succeeds, or pthread_cond_wait gets its mutex back.
Acquire(t, from, to) ==
    /\ pc[t] = from
    /\ mutex = Free
    /\ mutex' = t
    /\ Goto(t, to)
    /\ UNCHANGED <<queue, sent, received, corrupt>>

\* The unique_lock goes out of scope.
Release(t) ==
    /\ pc[t] = "unlock"
    /\ mutex' = Free
    /\ Goto(t, "idle")
    /\ UNCHANGED <<queue, sent, received, corrupt>>

EnqueueLock(p) == sent[p] < ItemsPerProducer /\ Acquire(p, "idle", "push")

Push(p) ==
    /\ pc[p] = "push"
    /\ queue' = Append(queue, <<p, sent[p] + 1>>)
    /\ sent' = [sent EXCEPT ![p] = @ + 1]
    /\ Goto(p, "notify")
    /\ UNCHANGED <<mutex, received, corrupt>>

\* notify_one() wakes one of the blocked threads, if there is one.
NotifyOne(p) ==
    /\ pc[p] = "notify"
    /\ \/ Waiters = {} /\ Goto(p, "unlock")
       \/ \E c \in Waiters : pc' = [pc EXCEPT ![c] = "woken", ![p] = "unlock"]
    /\ UNCHANGED <<mutex, queue, sent, received, corrupt>>

DequeueLock(c) == Acquire(c, "idle", "test")

\* Mutant: dequeue() does not test for emptiness.
SkipWaitUntested(c) ==
    /\ pc[c] = "test"
    /\ Goto(c, "take")
    /\ UNCHANGED <<mutex, queue, sent, received, corrupt>>

\* _queue.empty() is false: wait() is skipped.
SkipWait(c) ==
    /\ pc[c] = "test"
    /\ queue # <<>>
    /\ Goto(c, "take")
    /\ UNCHANGED <<mutex, queue, sent, received, corrupt>>

\* Mutant: the thread sleeps without giving the mutex up, as with a sleep() for wait().
WaitHoldingMutex(c) ==
    /\ pc[c] = "test"
    /\ queue = <<>>
    /\ Goto(c, "waiting")
    /\ UNCHANGED <<mutex, queue, sent, received, corrupt>>

\* _queue.empty() is true: wait() gives the mutex up and blocks, atomically.
Wait(c) ==
    /\ pc[c] = "test"
    /\ queue = <<>>
    /\ mutex' = Free
    /\ Goto(c, "waiting")
    /\ UNCHANGED <<queue, sent, received, corrupt>>

\* POSIX and C++ both allow wait() to return although nobody notified.
SpuriousWake(c) ==
    /\ SpuriousWakeups
    /\ pc[c] = "waiting"
    /\ Goto(c, "woken")
    /\ UNCHANGED <<mutex, queue, sent, received, corrupt>>

\* wait() returns with the mutex; the emptiness test is not repeated.
WaitReturns(c) == Acquire(c, "woken", "take")

\* Mutant: back() is taken instead of front().
TakeNewest(c) ==
    /\ pc[c] = "take"
    /\ queue # <<>>
    /\ received' = Append(received, queue[Len(queue)])
    /\ queue' = SubSeq(queue, 1, Len(queue) - 1)
    /\ Goto(c, "unlock")
    /\ UNCHANGED <<mutex, sent, corrupt>>

\* Mutant: pop() is missing.
TakeWithoutPop(c) ==
    /\ pc[c] = "take"
    /\ queue # <<>>
    /\ received' = Append(received, Head(queue))
    /\ Goto(c, "unlock")
    /\ UNCHANGED <<mutex, queue, sent, corrupt>>

Take(c) ==
    /\ pc[c] = "take"
    /\ queue # <<>>
    /\ received' = Append(received, Head(queue))
    /\ queue' = Tail(queue)
    /\ Goto(c, "unlock")
    /\ UNCHANGED <<mutex, sent, corrupt>>

\* front() and pop() of an empty std::queue are undefined: the caller gets
\* some bytes, and nothing is claimed of the queue afterwards.
TakeFromEmpty(c) ==
    /\ pc[c] = "take"
    /\ queue = <<>>
    /\ received' = Append(received, Garbage)
    /\ corrupt' = TRUE
    /\ Goto(c, "unlock")
    /\ UNCHANGED <<mutex, queue, sent>>

Enqueue(p) == EnqueueLock(p) \/ Push(p) \/ NotifyOne(p) \/ Release(p)

Dequeue(c) ==
    \/ DequeueLock(c) \/ SkipWait(c) \/ Wait(c) \/ WaitReturns(c)
    \/ Take(c) \/ TakeFromEmpty(c) \/ Release(c)

\* All producers have returned and every consumer waits for more.
Quiescent ==
    /\ \A p \in Producers : pc[p] = "idle" /\ sent[p] = ItemsPerProducer
    /\ \A c \in Consumers : pc[c] = "waiting"
    /\ queue = <<>>
    /\ UNCHANGED vars

\* The model stops at undefined behaviour.
Undefined == corrupt /\ UNCHANGED vars

Next ==
    \/ /\ ~corrupt
       /\ \/ \E p \in Producers : Enqueue(p)
          \/ \E c \in Consumers : Dequeue(c) \/ SpuriousWake(c)
          \/ Quiescent
    \/ Undefined

Spec == Init /\ [][Next]_vars

\* Threads are scheduled and a free mutex is handed out; a spurious wake-up
\* never has to happen.
Fairness ==
    /\ \A p \in Producers : WF_vars(~corrupt /\ Enqueue(p))
    /\ \A c \in Consumers : WF_vars(~corrupt /\ Dequeue(c))

FairSpec == Spec /\ Fairness

-----------------------------------------------------------------------------
(* Properties *)

\* Types.  The mutex is never left with a thread that sleeps in wait() or has
\* returned from enqueue() or dequeue().
TypeOK ==
    /\ mutex \in Threads \cup {Free}
    /\ queue \in Seq(Item)
    /\ pc \in [Threads -> InCritical \cup Outside]
    /\ sent \in [Producers -> 0..ItemsPerProducer]
    /\ received \in Seq(Item \cup {Garbage})
    /\ corrupt \in BOOLEAN
    /\ mutex # Free => pc[mutex] \in InCritical

\* thread_queue.h:15 says of dequeue() that it "waits until at least one
\* elemnt is in the queue": whoever is about to call front() finds one.
TakesOnlyFromNonEmpty == \A c \in Consumers : pc[c] = "take" => queue # <<>>

\* No wake-up is lost: while all consumers are blocked in wait(), an element
\* lies in the queue only if its producer is still about to notify.
NoLostWakeup ==
    queue # <<>> /\ Waiters = Consumers => \E p \in Producers : pc[p] = "notify"

\* What was and will be delivered, in the order of the pushes.
Passed == received \o queue

\* The elements that p enqueues.
ItemsOf(p) == {p} \X (1..ItemsPerProducer)

\* Every element a producer has enqueued is delivered or still queued exactly
\* once and in the order of the calls, whatever interleaving of enqueue() and
\* dequeue() took place, up to the point where the behaviour is undefined.
ExactlyOnceInOrder ==
    \A p \in Producers :
        /\ {Passed[i] : i \in DOMAIN Passed} \cap ItemsOf(p) = {p} \X (1..sent[p])
        /\ \A i, j \in DOMAIN Passed :
              i < j /\ Passed[i] \in ItemsOf(p) /\ Passed[j] \in ItemsOf(p)
                => Passed[i][2] < Passed[j][2]

\* The critical sections of enqueue() and dequeue() exclude each other.
MutualExclusion ==
    \A t, u \in Threads : pc[t] \in InCritical /\ pc[u] \in InCritical => t = u

\* The queue implements the interface of thread_queue.h.
Fifo == INSTANCE BlockingFifo WITH fifo <- queue, delivered <- received

ImplementsFifo == Fifo!FifoSpec
=============================================================================
