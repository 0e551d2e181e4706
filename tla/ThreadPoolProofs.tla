-------------------------- MODULE ThreadPoolProofs --------------------------
(***************************************************************************)
(* Theorems about ThreadPool, for any number of threads and of jobs.       *)
(***************************************************************************)
EXTENDS ThreadPool, SequenceTheorems, TLAPS

LEMMA AppendToOne ==
  ASSUME NEW S, NEW a \in S, NEW b \in S PROVE Append(<<a>>, b) = <<a, b>>
<1>1. <<a>> \in Seq(S) /\ Len(<<a>>) = 1 /\ <<a>>[1] = a
  OBVIOUS
<1>2. /\ Append(<<a>>, b) \in Seq(S) /\ Len(Append(<<a>>, b)) = 2
      /\ Append(<<a>>, b)[1] = a /\ Append(<<a>>, b)[2] = b
  BY <1>1
<1>3. <<a, b>> \in Seq(S) /\ Len(<<a, b>>) = 2 /\ <<a, b>>[1] = a /\ <<a, b>>[2] = b
  OBVIOUS
<1>4. \A i \in 1..2 : Append(<<a>>, b)[i] = <<a, b>>[i]
  BY <1>2, <1>3
<1> QED
  BY <1>2, <1>3, <1>4, SeqEqual

\* The loops over _threads stay inside of it.
LEMMA IndexStaysInRange ==
  ASSUME index \in Workers, NEW here, NEW there, NextIndex(here, there)
  PROVE  index' \in Workers /\ mainPc' \in {here, there}
  BY PoolAssumption DEF NextIndex, Workers

-----------------------------------------------------------------------------
(* Types *)

\* Main has a function to hand over, a worker that executes one has it.
TypeInv ==
    /\ TypeOK
    /\ mainPc \in {"await_idle", "idle_notified", "handing"} => submitted < MaxJobs
    /\ \A t \in Workers : pc[t] = "running" => function_to_execute[t] \in Jobs

LEMMA TypeInvInit == Init => TypeInv
<1> SUFFICES ASSUME Init PROVE TypeInv
  OBVIOUS
<1> USE PoolAssumption DEF Init
<1>1. 0 \in Workers /\ 0 \in 0..MaxJobs
  BY DEF Workers
<1>2. _idle_threads_queue \in Seq(Workers) /\ queue \in [Workers -> Seq(Jobs \cup {Nil})]
  OBVIOUS
<1>3. /\ mainPc \in MainStates
      /\ pc \in [Workers -> WorkerStates]
  BY DEF MainStates, WorkerStates
<1>4. /\ thread_number \in [Workers -> Workers]
      /\ function_to_execute \in [Workers -> Jobs \cup {Nil}]
  BY <1>1
<1>5. TypeOK
  BY <1>1, <1>2, <1>3, <1>4 DEF TypeOK
<1> QED
  BY <1>5 DEF TypeInv

\* ThreadQueue::enqueue() of a job or of the request to end.
LEMMA EnqueueToKeepsTypes ==
  ASSUME TypeInv, NEW k \in Workers, NEW x \in Jobs \cup {Nil}, EnqueueTo(k, x)
  PROVE  /\ queue' \in [Workers -> Seq(Jobs \cup {Nil})]
         /\ pc' \in [Workers -> WorkerStates]
         /\ \A t \in Workers : pc'[t] = "running" => pc[t] = "running"
<1> USE DEF TypeInv, TypeOK
<1>1. Append(queue[k], x) \in Seq(Jobs \cup {Nil})
  OBVIOUS
<1>2. queue' \in [Workers -> Seq(Jobs \cup {Nil})]
  BY <1>1 DEF EnqueueTo
<1>3. \/ pc' = pc
      \/ \E t \in Workers : pc' = [pc EXCEPT ![t] = "notified"]
  BY DEF EnqueueTo, WaitersOf
<1>4. /\ pc' \in [Workers -> WorkerStates]
      /\ \A t \in Workers : pc'[t] = "running" => pc[t] = "running"
  BY <1>3 DEF WorkerStates
<1> QED
  BY <1>2, <1>4

\* ThreadQueue::dequeue() by worker t.
LEMMA ReceiveKeepsTypes ==
  ASSUME TypeInv, NEW t \in Workers, Receive(t)
  PROVE  /\ queue' \in [Workers -> Seq(Jobs \cup {Nil})]
         /\ pc' \in [Workers -> WorkerStates]
         /\ function_to_execute' \in [Workers -> Jobs \cup {Nil}]
         /\ \A u \in Workers : pc'[u] = "running" => function_to_execute'[u] \in Jobs
<1> USE DEF TypeInv, TypeOK
<1> DEFINE k == thread_number[t]
<1>1. k \in Workers /\ queue[k] \in Seq(Jobs \cup {Nil}) /\ queue[k] # <<>>
  BY DEF Receive
<1>2. Head(queue[k]) \in Jobs \cup {Nil} /\ Tail(queue[k]) \in Seq(Jobs \cup {Nil})
  BY <1>1
<1>3. /\ queue' = [queue EXCEPT ![k] = Tail(queue[k])]
      /\ function_to_execute' = [function_to_execute EXCEPT ![t] = Head(queue[k])]
      /\ pc' = [pc EXCEPT ![t] = IF Head(queue[k]) = Nil THEN "done" ELSE "running"]
  BY DEF Receive
<1> HIDE DEF k
<1>4. /\ queue' \in [Workers -> Seq(Jobs \cup {Nil})]
      /\ function_to_execute' \in [Workers -> Jobs \cup {Nil}]
  BY <1>1, <1>2, <1>3
<1>5. pc' \in [Workers -> WorkerStates]
  BY <1>3 DEF WorkerStates
<1>6. ASSUME NEW u \in Workers, pc'[u] = "running" PROVE function_to_execute'[u] \in Jobs
  BY <1>2, <1>3, <1>6
<1> QED
  BY <1>4, <1>5, <1>6

LEMMA TypeInvNext == TypeInv /\ [Next]_vars => TypeInv'
<1> SUFFICES ASSUME TypeInv, [Next]_vars PROVE TypeInv'
  OBVIOUS
<1> USE PoolAssumption DEF TypeInv
<1>1. CASE StartThread
  BY <1>1 DEF StartThread, TypeOK, workerVars, MainStates, WorkerStates
<1>2. CASE ArgsCopied
  BY <1>2, IndexStaysInRange
     DEF ArgsCopied, TypeOK, workerVars, MainStates
<1>3. CASE TakeIdle
  <2>1. _idle_threads_queue # <<>> =>
           Head(_idle_threads_queue) \in Workers /\ Tail(_idle_threads_queue) \in Seq(Workers)
    BY DEF TypeOK
  <2> QED
    BY <1>3, <2>1 DEF TakeIdle, TypeOK, workerVars, MainStates
<1>4. CASE IdleWakeup
  <2>1. _idle_threads_queue # <<>> =>
           Head(_idle_threads_queue) \in Workers /\ Tail(_idle_threads_queue) \in Seq(Workers)
    BY DEF TypeOK
  <2> QED
    BY <1>4, <2>1 DEF IdleWakeup, TypeOK, workerVars, MainStates
<1>5. CASE HandOver
  <2>1. submitted < MaxJobs /\ submitted + 1 \in Jobs /\ submitted + 1 \in 0..MaxJobs
    BY <1>5 DEF HandOver, TypeOK, Jobs
  <2>2. /\ queue' \in [Workers -> Seq(Jobs \cup {Nil})]
        /\ pc' \in [Workers -> WorkerStates]
        /\ \A t \in Workers : pc'[t] = "running" => pc[t] = "running"
    BY <1>5, <2>1, EnqueueToKeepsTypes DEF HandOver, TypeOK
  <2> QED
    BY <1>5, <2>1, <2>2 DEF HandOver, TypeOK, workerVars, MainStates
<1>6. CASE BeginStop
  BY <1>6 DEF BeginStop, TypeOK, mainVars, workerVars, MainStates
<1>7. CASE SendNil
  <2>1. /\ queue' \in [Workers -> Seq(Jobs \cup {Nil})]
        /\ pc' \in [Workers -> WorkerStates]
        /\ \A t \in Workers : pc'[t] = "running" => pc[t] = "running"
    BY <1>7, EnqueueToKeepsTypes DEF SendNil, TypeOK
  <2> QED
    BY <1>7, <2>1, IndexStaysInRange DEF SendNil, TypeOK, workerVars, MainStates
<1>8. CASE Join
  BY <1>8, IndexStaysInRange DEF Join, TypeOK, workerVars, MainStates
<1>9. ASSUME NEW t \in Workers, CopyNumber(t) PROVE TypeInv'
  BY <1>9 DEF CopyNumber, TypeOK, WorkerStates
<1>10. ASSUME NEW t \in Workers, NotifyBeingIdle(t) PROVE TypeInv'
  <2>1. _idle_threads_queue' \in Seq(Workers)
    BY <1>10 DEF NotifyBeingIdle, TypeOK
  <2> QED
    BY <1>10, <2>1
       DEF NotifyBeingIdle, TypeOK, mainVars, workerVars, WorkerStates, MainStates
<1>11. ASSUME NEW t \in Workers, DequeueTask(t) PROVE TypeInv'
  <2>1. CASE Receive(t)
    BY <1>11, <2>1, ReceiveKeepsTypes DEF DequeueTask, TypeOK, mainVars
  <2>2. CASE pc' = [pc EXCEPT ![t] = "waiting"] /\ UNCHANGED <<queue, function_to_execute>>
    BY <1>11, <2>2 DEF DequeueTask, TypeOK, mainVars, WorkerStates
  <2> QED
    BY <1>11, <2>1, <2>2 DEF DequeueTask
<1>12. ASSUME NEW t \in Workers, TaskWakeup(t) PROVE TypeInv'
  <2>1. CASE Receive(t)
    BY <1>12, <2>1, ReceiveKeepsTypes DEF TaskWakeup, TypeOK, mainVars
  <2>2. CASE UNCHANGED <<pc, queue, function_to_execute>>
    BY <1>12, <2>2 DEF TaskWakeup, TypeOK, mainVars
  <2> QED
    BY <1>12, <2>1, <2>2 DEF TaskWakeup
<1>13. ASSUME NEW t \in Workers, FinishTask(t) PROVE TypeInv'
  BY <1>13 DEF FinishTask, TypeOK, mainVars, WorkerStates
<1>14. CASE UNCHANGED vars
  BY <1>14 DEF vars, mainVars, workerVars, TypeOK
<1> QED
  BY <1>1, <1>2, <1>3, <1>4, <1>5, <1>6, <1>7, <1>8, <1>9, <1>10, <1>11, <1>12,
     <1>13, <1>14
     DEF Next, Main, Worker, Ended

LEMMA TypeInvAlways == Spec => []TypeInv
  BY TypeInvInit, TypeInvNext, PTL DEF Spec

\* Type correctness of the pool: the loops over _threads stay in range, the
\* queues hold jobs or the request to end, and no more jobs exist than were given.
THEOREM TypeCorrect == Spec => []TypeOK
<1>1. TypeInv => TypeOK
  BY DEF TypeInv
<1> QED
  BY <1>1, TypeInvAlways, PTL

-----------------------------------------------------------------------------
(* The inductive invariant, when wait() returns only when it was notified *)

\* The thread has copied its arguments.
Started(t) == pc[t] \notin {"none", "created"}

\* Each thread knows its own number.
Numbered == \A t \in Workers : Started(t) => thread_number[t] = t

\* The threads are started one after the other.
StartInv ==
    /\ mainPc = "starting" =>
          \A t \in Workers : IF t < index THEN Started(t) ELSE pc[t] = "none"
    /\ mainPc = "await_copied" =>
          /\ _thread_number = index
          /\ pc[index] # "none"
          /\ argsCopied <=> Started(index)
          /\ \A t \in Workers \ {index} : IF t < index THEN Started(t) ELSE pc[t] = "none"
    /\ mainPc \notin {"starting", "await_copied"} => \A t \in Workers : Started(t)
    /\ mainPc \in {"ready", "await_idle", "idle_notified", "handing"} => index = 0

\* The destructor has not been called.
Open == mainPc \notin {"stopping", "joining", "closed"}

\* A worker that is to get the next job.
FreeWorker(t) == pc[t] \in {"dequeue", "waiting"} /\ queue[t] = <<>>

\* Before the destructor is called, _idle_threads_queue lists free workers, each
\* one once, and the one that main has taken from it is not in it any more.
IdleInv == Open =>
    /\ \A n \in DOMAIN _idle_threads_queue : FreeWorker(_idle_threads_queue[n])
    /\ \A m, n \in DOMAIN _idle_threads_queue :
          _idle_threads_queue[m] = _idle_threads_queue[n] => m = n
    /\ mainPc = "handing" =>
          /\ FreeWorker(number_of_idle_thread)
          /\ \A n \in DOMAIN _idle_threads_queue :
                _idle_threads_queue[n] # number_of_idle_thread

\* Main waits only while no worker is idle, and is woken when one is.
MainWaitInv ==
    /\ mainPc = "await_idle" => _idle_threads_queue = <<>>
    /\ mainPc = "idle_notified" => _idle_threads_queue # <<>>

\* Worker k has been asked to end.
NilSent(k) == mainPc \in {"joining", "closed"} \/ (mainPc = "stopping" /\ k < index)

\* What is in the queue of worker k, before and after it was asked to end.
BeforeNil(k) ==
    \/ queue[k] = <<>> /\ pc[k] \notin {"notified", "done"}
    \/ pc[k] \in {"dequeue", "notified"} /\ \E j \in Jobs : queue[k] = <<j>>

AfterNil(k) ==
    \/ queue[k] = <<>> /\ pc[k] = "done"
    \/ queue[k] = <<Nil>> /\ pc[k] \in {"announce", "dequeue", "notified", "running"}
    \/ pc[k] \in {"dequeue", "notified"} /\ \E j \in Jobs : queue[k] = <<j, Nil>>

WorkersInv == \A k \in Workers : IF NilSent(k) THEN AfterNil(k) ELSE BeforeNil(k)

\* The threads are joined one after the other.
JoinInv ==
    /\ mainPc = "joining" => \A t \in Workers : t < index => pc[t] = "done"
    /\ mainPc = "closed" => \A t \in Workers : pc[t] = "done"

\* Job j is worker k's to do.
JobAt(j, k) ==
    \/ queue[k] # <<>> /\ queue[k][1] = j
    \/ pc[k] = "running" /\ function_to_execute[k] = j

\* A job was executed, or is one worker's to do.
Accounted ==
    \A j \in Jobs :
        /\ j > submitted => j \notin finished
        /\ \A k \in Workers : JobAt(j, k) => j <= submitted /\ j \notin finished
        /\ \A k, l \in Workers : JobAt(j, k) /\ JobAt(j, l) => k = l
        /\ j <= submitted /\ j \notin finished => \E k \in Workers : JobAt(j, k)

PoolInv ==
    /\ TypeInv /\ ~corrupt
    /\ Numbered /\ StartInv /\ IdleInv /\ MainWaitInv
    /\ WorkersInv /\ JoinInv /\ Accounted

-----------------------------------------------------------------------------
(* What the operations on a queue do while the invariant holds *)

LEMMA PoolInvInit == Init => PoolInv
<1> SUFFICES ASSUME Init PROVE PoolInv
  OBVIOUS
<1> USE PoolAssumption DEF Init
<1>1. TypeInv
  BY TypeInvInit
<1>2. Numbered /\ StartInv
  BY DEF Numbered, StartInv, Started, Workers
<1>3. IdleInv /\ MainWaitInv
  BY DEF IdleInv, MainWaitInv
<1>4. WorkersInv /\ JoinInv
  BY DEF WorkersInv, NilSent, BeforeNil, JoinInv
<1>5. Accounted
  BY DEF Accounted, JobAt, Jobs
<1> QED
  BY <1>1, <1>2, <1>3, <1>4, <1>5 DEF PoolInv

\* An enqueue() wakes the owner of the queue if it waits, and nobody else.
LEMMA EnqueueWakesOwner ==
  ASSUME PoolInv, NEW k \in Workers, NEW x, EnqueueTo(k, x)
  PROVE  /\ queue' = [queue EXCEPT ![k] = Append(queue[k], x)]
         /\ pc' = IF pc[k] = "waiting" THEN [pc EXCEPT ![k] = "notified"] ELSE pc
<1>1. \A t \in Workers : pc[t] = "waiting" => thread_number[t] = t
  BY DEF PoolInv, Numbered, Started
<1>2. WaitersOf(k) = IF pc[k] = "waiting" THEN {k} ELSE {}
  BY <1>1 DEF WaitersOf
<1> QED
  BY <1>2 DEF EnqueueTo

\* A worker that has not been asked to end receives its only job; one that has
\* receives its last job or the request.
LEMMA ReceiveOwn ==
  ASSUME PoolInv, NEW t \in Workers, pc[t] \in {"dequeue", "notified"}, Receive(t)
  PROVE  \/ /\ queue[t] = <<Nil>> /\ NilSent(t)
            /\ queue' = [queue EXCEPT ![t] = <<>>]
            /\ pc' = [pc EXCEPT ![t] = "done"]
            /\ function_to_execute' = [function_to_execute EXCEPT ![t] = Nil]
         \/ \E j \in Jobs :
            /\ queue[t] = IF NilSent(t) THEN <<j, Nil>> ELSE <<j>>
            /\ queue' = [queue EXCEPT ![t] = IF NilSent(t) THEN <<Nil>> ELSE <<>>]
            /\ pc' = [pc EXCEPT ![t] = "running"]
            /\ function_to_execute' = [function_to_execute EXCEPT ![t] = j]
<1> USE PoolAssumption
<1>1. thread_number[t] = t
  BY DEF PoolInv, Numbered, Started
<1>2. /\ queue[t] # <<>>
      /\ queue' = [queue EXCEPT ![t] = Tail(queue[t])]
      /\ function_to_execute' = [function_to_execute EXCEPT ![t] = Head(queue[t])]
      /\ pc' = [pc EXCEPT ![t] = IF Head(queue[t]) = Nil THEN "done" ELSE "running"]
  BY <1>1 DEF Receive
<1>3. CASE queue[t] = <<Nil>> /\ NilSent(t)
  <2>1. Head(queue[t]) = Nil /\ Tail(queue[t]) = <<>>
    BY <1>3
  <2> QED
    BY <1>2, <1>3, <2>1
<1>4. ASSUME NEW j \in Jobs, queue[t] = IF NilSent(t) THEN <<j, Nil>> ELSE <<j>>
      PROVE  /\ queue' = [queue EXCEPT ![t] = IF NilSent(t) THEN <<Nil>> ELSE <<>>]
             /\ pc' = [pc EXCEPT ![t] = "running"]
             /\ function_to_execute' = [function_to_execute EXCEPT ![t] = j]
  <2>1. Head(queue[t]) = j /\ Tail(queue[t]) = IF NilSent(t) THEN <<Nil>> ELSE <<>>
    BY <1>4
  <2>2. j # Nil
    BY DEF Jobs
  <2> QED
    BY <1>2, <2>1, <2>2
<1>5. \/ queue[t] = <<Nil>> /\ NilSent(t)
      \/ \E j \in Jobs : queue[t] = IF NilSent(t) THEN <<j, Nil>> ELSE <<j>>
  BY <1>2 DEF PoolInv, WorkersInv, BeforeNil, AfterNil
<1> QED
  BY <1>3, <1>4, <1>5

\* A worker that was woken finds what it was woken for.
LEMMA WokenReceives ==
  ASSUME PoolInv, ~SpuriousWakeups, NEW t \in Workers, TaskWakeup(t)
  PROVE  pc[t] = "notified" /\ Receive(t) /\ UNCHANGED corrupt
<1>1. pc[t] = "notified"
  BY DEF TaskWakeup
<1>2. queue[t] # <<>> /\ thread_number[t] = t
  BY <1>1 DEF PoolInv, Numbered, Started, WorkersInv, BeforeNil, AfterNil
<1> QED
  BY <1>1, <1>2 DEF TaskWakeup

-----------------------------------------------------------------------------
(* The steps of the main thread keep the invariant *)

LEMMA StartThreadKeeps == ASSUME PoolInv, TypeInv', StartThread PROVE PoolInv'
<1> USE PoolAssumption
<1>1. /\ mainPc = "starting" /\ mainPc' = "await_copied"
      /\ index \in Workers /\ pc[index] = "none"
      /\ pc' = [pc EXCEPT ![index] = "created"] /\ pc \in [Workers -> WorkerStates]
      /\ _thread_number' = index /\ ~argsCopied'
      /\ UNCHANGED <<index, submitted, _idle_threads_queue, queue, thread_number,
                     function_to_execute, finished, corrupt>>
  BY DEF StartThread, workerVars, PoolInv, TypeInv, TypeOK, StartInv, Workers
<1>2. Numbered'
  BY <1>1 DEF PoolInv, Numbered, Started
<1>3. StartInv'
  BY <1>1 DEF PoolInv, StartInv, Started, Workers
<1>4. IdleInv' /\ MainWaitInv'
  <2>1. \A t \in Workers : FreeWorker(t) => FreeWorker(t)'
    BY <1>1 DEF FreeWorker
  <2>2. \A n \in DOMAIN _idle_threads_queue : _idle_threads_queue[n] \in Workers
    BY DEF PoolInv, TypeInv, TypeOK
  <2> QED
    BY <1>1, <2>1, <2>2 DEF PoolInv, IdleInv, MainWaitInv, Open
<1>5. WorkersInv' /\ JoinInv'
  BY <1>1 DEF PoolInv, WorkersInv, NilSent, BeforeNil, JoinInv
<1>6. Accounted'
  BY <1>1 DEF PoolInv, Accounted, JobAt
<1> QED
  BY <1>1, <1>2, <1>3, <1>4, <1>5, <1>6 DEF PoolInv

LEMMA ArgsCopiedKeeps ==
  ASSUME PoolInv, ~SpuriousWakeups, TypeInv', ArgsCopied PROVE PoolInv'
<1> USE PoolAssumption
<1>1. /\ mainPc = "await_copied" /\ argsCopied /\ index \in Workers
      /\ \/ index + 1 < NumThreads /\ index' = index + 1 /\ mainPc' = "starting"
         \/ index + 1 = NumThreads /\ index' = 0 /\ mainPc' = "ready"
      /\ UNCHANGED <<submitted, _idle_threads_queue, pc, queue, thread_number,
                     function_to_execute, finished, corrupt>>
  BY DEF ArgsCopied, NextIndex, workerVars, PoolInv, TypeInv, TypeOK
<1>2. Numbered'
  BY <1>1 DEF PoolInv, Numbered, Started
<1>3. StartInv'
  <2>1. \A t \in Workers : IF t < index + 1 THEN Started(t) ELSE pc[t] = "none"
    BY <1>1 DEF PoolInv, StartInv, Workers
  <2> QED
    BY <1>1, <2>1 DEF StartInv, Started, Workers
<1>4. IdleInv' /\ MainWaitInv'
  BY <1>1 DEF PoolInv, IdleInv, MainWaitInv, Open, FreeWorker
<1>5. WorkersInv' /\ JoinInv'
  BY <1>1 DEF PoolInv, WorkersInv, NilSent, BeforeNil, JoinInv
<1>6. Accounted'
  BY <1>1 DEF PoolInv, Accounted, JobAt
<1> QED
  BY <1>1, <1>2, <1>3, <1>4, <1>5, <1>6 DEF PoolInv

\* The first idle thread is taken from the list.
LEMMA PopIdleKeeps ==
  ASSUME PoolInv, TypeInv', mainPc \in {"ready", "idle_notified"},
         _idle_threads_queue # <<>>, mainPc' = "handing",
         number_of_idle_thread' = Head(_idle_threads_queue),
         _idle_threads_queue' = Tail(_idle_threads_queue),
         UNCHANGED <<index, submitted, pc, queue, workerVars, corrupt>>
  PROVE  PoolInv'
<1> DEFINE q == _idle_threads_queue
<1>1. q \in Seq(Workers) /\ q # <<>> /\ Len(q) \in Nat /\ 1 \in DOMAIN q
  BY DEF PoolInv, TypeInv, TypeOK
<1>2. /\ Head(q) = q[1]
      /\ \A n \in DOMAIN Tail(q) : n + 1 \in DOMAIN q /\ n + 1 # 1 /\ Tail(q)[n] = q[n + 1]
      /\ DOMAIN Tail(q) \subseteq Nat
  BY <1>1
<1> HIDE DEF q
<1>3. IdleInv'
  <2>1. /\ \A n \in DOMAIN q : FreeWorker(q[n])
        /\ \A m, n \in DOMAIN q : q[m] = q[n] => m = n
    BY DEF PoolInv, IdleInv, Open, q
  <2>2. \A n \in DOMAIN Tail(q) : FreeWorker(Tail(q)[n]) /\ Tail(q)[n] # q[1]
    BY <1>1, <1>2, <2>1
  <2>3. \A m, n \in DOMAIN Tail(q) : Tail(q)[m] = Tail(q)[n] => m = n
    BY <1>2, <2>1
  <2>4. number_of_idle_thread' = q[1] /\ _idle_threads_queue' = Tail(q)
    BY <1>2 DEF q
  <2>5. FreeWorker(q[1])
    BY <1>1, <2>1
  <2> QED
    BY <2>2, <2>3, <2>4, <2>5 DEF IdleInv, FreeWorker
<1>4. Numbered' /\ StartInv' /\ MainWaitInv'
  BY DEF PoolInv, Numbered, StartInv, Started, MainWaitInv, workerVars
<1>5. WorkersInv' /\ JoinInv'
  BY DEF PoolInv, WorkersInv, NilSent, BeforeNil, JoinInv
<1>6. Accounted'
  BY DEF PoolInv, Accounted, JobAt, workerVars
<1> QED
  BY <1>3, <1>4, <1>5, <1>6 DEF PoolInv

LEMMA TakeIdleKeeps == ASSUME PoolInv, TypeInv', TakeIdle PROVE PoolInv'
<1>1. CASE _idle_threads_queue # <<>>
  BY <1>1, PopIdleKeeps DEF TakeIdle
<1>2. CASE _idle_threads_queue = <<>>
  <2>1. /\ mainPc = "ready" /\ mainPc' = "await_idle"
        /\ UNCHANGED <<index, submitted, _idle_threads_queue, pc, queue, thread_number,
                       function_to_execute, finished, corrupt>>
    BY <1>2 DEF TakeIdle, workerVars
  <2>2. Numbered' /\ StartInv'
    BY <2>1 DEF PoolInv, Numbered, StartInv, Started
  <2>3. IdleInv' /\ MainWaitInv'
    BY <1>2, <2>1 DEF IdleInv, MainWaitInv
  <2>4. WorkersInv' /\ JoinInv'
    BY <2>1 DEF PoolInv, WorkersInv, NilSent, BeforeNil, JoinInv
  <2>5. Accounted'
    BY <2>1 DEF PoolInv, Accounted, JobAt
  <2> QED
    BY <2>1, <2>2, <2>3, <2>4, <2>5 DEF PoolInv
<1> QED
  BY <1>1, <1>2

LEMMA IdleWakeupKeeps ==
  ASSUME PoolInv, ~SpuriousWakeups, TypeInv', IdleWakeup PROVE PoolInv'
<1>1. mainPc = "idle_notified" /\ _idle_threads_queue # <<>>
  BY DEF IdleWakeup, PoolInv, MainWaitInv
<1> QED
  BY <1>1, PopIdleKeeps DEF IdleWakeup

\* The worker that gets the job was free; it becomes the only one that has it.
LEMMA HandOverKeeps == ASSUME PoolInv, TypeInv', HandOver PROVE PoolInv'
<1> USE PoolAssumption
<1> DEFINE k == number_of_idle_thread
           j == submitted + 1
<1>1. /\ mainPc = "handing" /\ mainPc' = "ready"
      /\ k \in Workers /\ j \in Jobs /\ submitted \in Nat /\ submitted' = j
      /\ UNCHANGED <<index, _idle_threads_queue, thread_number, function_to_execute,
                     finished, corrupt>>
      /\ EnqueueTo(k, j)
  BY DEF HandOver, PoolInv, TypeInv, TypeOK, workerVars, Jobs
<1>2. FreeWorker(k) /\ \A n \in DOMAIN _idle_threads_queue : _idle_threads_queue[n] # k
  BY <1>1 DEF PoolInv, IdleInv, Open
<1>3. /\ queue \in [Workers -> Seq(Jobs \cup {Nil})] /\ pc \in [Workers -> WorkerStates]
      /\ \A n \in DOMAIN _idle_threads_queue : _idle_threads_queue[n] \in Workers
  BY DEF PoolInv, TypeInv, TypeOK
<1> HIDE DEF k, j
<1>4. /\ queue' = [queue EXCEPT ![k] = <<j>>]
      /\ pc' = IF pc[k] = "waiting" THEN [pc EXCEPT ![k] = "notified"] ELSE pc
      /\ pc[k] \in {"dequeue", "waiting"} /\ pc'[k] \in {"dequeue", "notified"}
      /\ queue'[k] = <<j>> /\ queue[k] = <<>>
      /\ \A t \in Workers \ {k} : queue'[t] = queue[t] /\ pc'[t] = pc[t]
  <2>1. /\ queue' = [queue EXCEPT ![k] = Append(queue[k], j)]
        /\ pc' = IF pc[k] = "waiting" THEN [pc EXCEPT ![k] = "notified"] ELSE pc
    BY <1>1, EnqueueWakesOwner
  <2>2. pc[k] \in {"dequeue", "waiting"} /\ queue[k] = <<>> /\ Append(queue[k], j) = <<j>>
    BY <1>2 DEF FreeWorker
  <2> QED
    BY <1>1, <1>3, <2>1, <2>2
<1>5. Numbered' /\ StartInv' /\ MainWaitInv'
  BY <1>1, <1>3, <1>4 DEF PoolInv, Numbered, StartInv, Started, MainWaitInv
<1>6. IdleInv'
  BY <1>1, <1>2, <1>3, <1>4 DEF PoolInv, IdleInv, Open, FreeWorker
<1>7. WorkersInv' /\ JoinInv'
  BY <1>1, <1>4 DEF PoolInv, WorkersInv, NilSent, BeforeNil, JoinInv
<1>8. Accounted'
  <2>1. \A i \in Jobs, t \in Workers :
           JobAt(i, t)' <=> JobAt(i, t) \/ (t = k /\ i = j)
    BY <1>1, <1>3, <1>4 DEF JobAt
  <2>2. j \notin finished /\ \A t \in Workers : ~JobAt(j, t)
    BY <1>1 DEF PoolInv, Accounted, j
  <2>3. \A i \in Jobs : i \in Nat /\ (i <= submitted' <=> i <= submitted \/ i = j)
    BY <1>1 DEF Jobs, j
  <2>4. submitted' = submitted + 1 /\ finished' = finished /\ k \in Workers /\ j \in Jobs
    BY <1>1 DEF j
  <2>5. \A i \in Jobs : i > submitted' => i > submitted
    BY <1>1, <2>3, <2>4
  <2> QED
    BY <2>1, <2>2, <2>3, <2>4, <2>5 DEF PoolInv, Accounted
<1> QED
  BY <1>1, <1>5, <1>6, <1>7, <1>8 DEF PoolInv

LEMMA BeginStopKeeps == ASSUME PoolInv, TypeInv', BeginStop PROVE PoolInv'
<1> USE PoolAssumption
<1>1. /\ mainPc = "ready" /\ mainPc' = "stopping" /\ index = 0
      /\ UNCHANGED <<index, submitted, _idle_threads_queue, pc, queue, thread_number,
                     function_to_execute, finished, corrupt>>
  BY DEF BeginStop, mainVars, workerVars, PoolInv, StartInv
<1>2. Numbered' /\ StartInv' /\ IdleInv' /\ MainWaitInv'
  BY <1>1 DEF PoolInv, Numbered, StartInv, Started, IdleInv, Open, MainWaitInv
<1>3. WorkersInv' /\ JoinInv'
  BY <1>1 DEF PoolInv, WorkersInv, NilSent, BeforeNil, JoinInv, Workers
<1>4. Accounted'
  BY <1>1 DEF PoolInv, Accounted, JobAt
<1> QED
  BY <1>1, <1>2, <1>3, <1>4 DEF PoolInv

\* The request to end comes after the job that the worker may still have.
LEMMA SendNilKeeps == ASSUME PoolInv, TypeInv', SendNil PROVE PoolInv'
<1> USE PoolAssumption
<1>1. PICK k \in Workers : k = index
  BY DEF PoolInv, TypeInv, TypeOK
<1>2. /\ mainPc = "stopping"
      /\ \/ k + 1 < NumThreads /\ index' = k + 1 /\ mainPc' = "stopping"
         \/ k + 1 = NumThreads /\ index' = 0 /\ mainPc' = "joining"
      /\ UNCHANGED <<submitted, _idle_threads_queue, thread_number,
                     function_to_execute, finished, corrupt>>
      /\ EnqueueTo(k, Nil)
  BY <1>1 DEF SendNil, NextIndex, workerVars
<1>3. /\ queue \in [Workers -> Seq(Jobs \cup {Nil})] /\ pc \in [Workers -> WorkerStates]
      /\ pc[k] \in WorkerStates
  BY DEF PoolInv, TypeInv, TypeOK
<1>4. \A t \in Workers : Started(t)
  BY <1>2 DEF PoolInv, StartInv
<1>5. BeforeNil(k)
  <2>1. ~NilSent(k)
    BY <1>1, <1>2 DEF NilSent, Workers
  <2> QED
    BY <2>1 DEF PoolInv, WorkersInv
<1>6. /\ queue' = [queue EXCEPT ![k] = Append(queue[k], Nil)]
      /\ pc' = IF pc[k] = "waiting" THEN [pc EXCEPT ![k] = "notified"] ELSE pc
      /\ \A t \in Workers \ {k} : queue'[t] = queue[t] /\ pc'[t] = pc[t]
  BY <1>2, <1>3, EnqueueWakesOwner
<1>7. \/ /\ queue[k] = <<>> /\ queue'[k] = <<Nil>>
         /\ pc'[k] \in {"announce", "dequeue", "notified", "running"}
      \/ \E j \in Jobs : /\ queue[k] = <<j>> /\ queue'[k] = <<j, Nil>>
                         /\ pc'[k] \in {"dequeue", "notified"}
  <2>1. CASE queue[k] = <<>> /\ pc[k] \notin {"notified", "done"}
    <3>1. Append(queue[k], Nil) = <<Nil>>
      BY <2>1
    <3>2. queue'[k] = <<Nil>>
      BY <1>3, <1>6, <3>1
    <3>3. pc'[k] \in {"announce", "dequeue", "notified", "running"}
      BY <1>3, <1>4, <1>6, <2>1 DEF WorkerStates, Started
    <3> QED
      BY <2>1, <3>2, <3>3
  <2>2. ASSUME NEW j \in Jobs, queue[k] = <<j>>, pc[k] \in {"dequeue", "notified"}
        PROVE  queue'[k] = <<j, Nil>> /\ pc'[k] \in {"dequeue", "notified"}
    <3>1. Append(<<j>>, Nil) = <<j, Nil>>
      BY AppendToOne, j \in Jobs \cup {Nil}, Nil \in Jobs \cup {Nil}
    <3> QED
      BY <1>3, <1>6, <2>2, <3>1
  <2> QED
    BY <1>5, <2>1, <2>2 DEF BeforeNil
<1>8. Numbered' /\ StartInv' /\ MainWaitInv'
  BY <1>2, <1>3, <1>4, <1>6 DEF PoolInv, Numbered, StartInv, Started, MainWaitInv
<1>9. IdleInv'
  BY <1>2 DEF IdleInv, Open
<1>10. WorkersInv'
  <2>1. AfterNil(k)'
    BY <1>7 DEF AfterNil
  <2>2. \A t \in Workers : NilSent(t)' <=> NilSent(t) \/ t = k
    BY <1>1, <1>2 DEF NilSent, Workers
  <2>3. \A t \in Workers \ {k} :
           (AfterNil(t)' <=> AfterNil(t)) /\ (BeforeNil(t)' <=> BeforeNil(t))
    BY <1>6 DEF AfterNil, BeforeNil
  <2> QED
    BY <2>1, <2>2, <2>3 DEF PoolInv, WorkersInv
<1>11. JoinInv'
  BY <1>2 DEF JoinInv, Workers
<1>12. Accounted'
  <2>1. \A i \in Jobs : i # Nil
    BY DEF Jobs
  <2>2. ASSUME NEW i \in Jobs PROVE JobAt(i, k)' <=> JobAt(i, k)
    BY <1>2, <1>3, <1>6, <1>7, <2>1 DEF JobAt
  <2>3. \A i \in Jobs, t \in Workers : JobAt(i, t)' <=> JobAt(i, t)
    BY <1>2, <1>6, <2>2 DEF JobAt
  <2> QED
    BY <1>2, <2>3 DEF PoolInv, Accounted
<1> QED
  BY <1>2, <1>8, <1>9, <1>10, <1>11, <1>12 DEF PoolInv

LEMMA JoinKeeps == ASSUME PoolInv, TypeInv', Join PROVE PoolInv'
<1> USE PoolAssumption
<1>1. /\ mainPc = "joining" /\ index \in Workers /\ pc[index] = "done"
      /\ \/ index + 1 < NumThreads /\ index' = index + 1 /\ mainPc' = "joining"
         \/ index + 1 = NumThreads /\ index' = 0 /\ mainPc' = "closed"
      /\ UNCHANGED <<submitted, _idle_threads_queue, pc, queue, thread_number,
                     function_to_execute, finished, corrupt>>
  BY DEF Join, NextIndex, workerVars, PoolInv, TypeInv, TypeOK
<1>2. Numbered' /\ StartInv' /\ IdleInv' /\ MainWaitInv'
  BY <1>1 DEF PoolInv, Numbered, StartInv, Started, IdleInv, Open, MainWaitInv
<1>3. WorkersInv'
  BY <1>1 DEF PoolInv, WorkersInv, NilSent, AfterNil
<1>4. JoinInv'
  BY <1>1 DEF PoolInv, JoinInv, Workers
<1>5. Accounted'
  BY <1>1 DEF PoolInv, Accounted, JobAt
<1> QED
  BY <1>1, <1>2, <1>3, <1>4, <1>5 DEF PoolInv

-----------------------------------------------------------------------------
(* The steps of the workers keep the invariant *)

LEMMA CopyNumberKeeps ==
  ASSUME PoolInv, TypeInv', NEW t \in Workers, CopyNumber(t) PROVE PoolInv'
<1> USE PoolAssumption
<1>1. /\ mainPc = "await_copied" /\ t = index /\ _thread_number = t
      /\ pc[t] = "created" /\ pc' = [pc EXCEPT ![t] = "announce"]
      /\ thread_number' = [thread_number EXCEPT ![t] = t] /\ argsCopied'
      /\ pc \in [Workers -> WorkerStates] /\ thread_number \in [Workers -> Workers]
      /\ UNCHANGED <<mainPc, index, _thread_number, submitted, _idle_threads_queue,
                     queue, function_to_execute, finished, corrupt>>
  <2>1. mainPc = "await_copied"
    BY DEF CopyNumber, PoolInv, StartInv, Started
  <2>2. t = index
    BY <2>1 DEF CopyNumber, PoolInv, StartInv, Started
  <2> QED
    BY <2>1, <2>2 DEF CopyNumber, PoolInv, StartInv, TypeInv, TypeOK
<1>2. Numbered'
  BY <1>1 DEF PoolInv, Numbered, Started
<1>3. StartInv'
  BY <1>1 DEF PoolInv, StartInv, Started
<1>4. IdleInv' /\ MainWaitInv'
  <2>1. \A w \in Workers : FreeWorker(w) => FreeWorker(w)'
    BY <1>1 DEF FreeWorker
  <2>2. \A n \in DOMAIN _idle_threads_queue : _idle_threads_queue[n] \in Workers
    BY DEF PoolInv, TypeInv, TypeOK
  <2> QED
    BY <1>1, <2>1, <2>2 DEF PoolInv, IdleInv, MainWaitInv, Open
<1>5. WorkersInv' /\ JoinInv'
  BY <1>1 DEF PoolInv, WorkersInv, NilSent, BeforeNil, JoinInv
<1>6. Accounted'
  BY <1>1 DEF PoolInv, Accounted, JobAt
<1> QED
  BY <1>1, <1>2, <1>3, <1>4, <1>5, <1>6 DEF PoolInv

\* A worker that announces itself is free and not yet in the list.
LEMMA NotifyBeingIdleKeeps ==
  ASSUME PoolInv, TypeInv', NEW t \in Workers, NotifyBeingIdle(t) PROVE PoolInv'
<1> USE PoolAssumption
<1> DEFINE q == _idle_threads_queue
<1>1. /\ pc[t] = "announce" /\ pc' = [pc EXCEPT ![t] = "dequeue"]
      /\ q' = Append(q, t) /\ q \in Seq(Workers) /\ Len(q) \in Nat
      /\ \/ mainPc = "await_idle" /\ mainPc' = "idle_notified"
         \/ mainPc # "await_idle" /\ mainPc' = mainPc
      /\ pc \in [Workers -> WorkerStates]
      /\ UNCHANGED <<index, _thread_number, argsCopied, number_of_idle_thread, submitted,
                     queue, thread_number, function_to_execute, finished, corrupt>>
  BY DEF NotifyBeingIdle, mainVars, workerVars, PoolInv, Numbered, Started, TypeInv, TypeOK
<1>2. /\ DOMAIN q = 1..Len(q) /\ DOMAIN q' = 1..(Len(q) + 1) /\ q'[Len(q) + 1] = t
      /\ \A n \in DOMAIN q : q'[n] = q[n] /\ q[n] \in Workers
      /\ q' # <<>>
  BY <1>1
<1> HIDE DEF q
<1>3. Open' <=> Open
  BY <1>1 DEF Open
<1>4. Numbered' /\ StartInv' /\ MainWaitInv'
  <2>1. Numbered' /\ StartInv'
    BY <1>1 DEF PoolInv, Numbered, StartInv, Started
  <2> QED
    BY <1>1, <1>2, <2>1 DEF PoolInv, MainWaitInv, q
<1>5. IdleInv'
  <2> SUFFICES ASSUME Open PROVE IdleInv'
    BY <1>3 DEF IdleInv
  <2>1. FreeWorker(t)'
    BY <1>1 DEF PoolInv, WorkersInv, NilSent, Open, BeforeNil, FreeWorker
  <2>2. \A w \in Workers : FreeWorker(w) => w # t /\ FreeWorker(w)'
    BY <1>1 DEF FreeWorker
  <2>3. /\ \A n \in DOMAIN q : FreeWorker(q[n])
        /\ \A m, n \in DOMAIN q : q[m] = q[n] => m = n
    BY DEF PoolInv, IdleInv, q
  <2>4. \A n \in DOMAIN q' : n \in DOMAIN q \/ n = Len(q) + 1
    BY <1>1, <1>2
  <2>5. \A n \in DOMAIN q' : FreeWorker(q[n])'
    BY <1>2, <2>1, <2>2, <2>3, <2>4
  <2>6. \A m, n \in DOMAIN q' : q'[m] = q'[n] => m = n
    BY <1>2, <2>2, <2>3, <2>4
  <2>7. ASSUME mainPc' = "handing"
        PROVE  /\ FreeWorker(number_of_idle_thread)'
               /\ \A n \in DOMAIN q' : q'[n] # number_of_idle_thread'
    <3>1. /\ FreeWorker(number_of_idle_thread) /\ number_of_idle_thread \in Workers
          /\ \A n \in DOMAIN q : q[n] # number_of_idle_thread
      BY <1>1, <2>7 DEF PoolInv, IdleInv, TypeInv, TypeOK, q
    <3>2. number_of_idle_thread # t
      BY <2>2, <3>1
    <3>3. FreeWorker(number_of_idle_thread)'
      BY <1>1, <3>1, <3>2 DEF FreeWorker
    <3> QED
      BY <1>1, <1>2, <2>4, <3>1, <3>2, <3>3
  <2> QED
    BY <2>5, <2>6, <2>7 DEF IdleInv, q
<1>6. WorkersInv'
  BY <1>1 DEF PoolInv, WorkersInv, NilSent, BeforeNil, AfterNil
<1>7. JoinInv'
  BY <1>1 DEF PoolInv, JoinInv
<1>8. Accounted'
  BY <1>1 DEF PoolInv, Accounted, JobAt
<1> QED
  BY <1>1, <1>4, <1>5, <1>6, <1>7, <1>8 DEF PoolInv

\* A step of worker t by which nothing but its own queue, state and function
\* changes: t was not free, or it stays free.
LEMMA OwnStepKeepsOthers ==
  ASSUME PoolInv, TypeInv', NEW t \in Workers, FreeWorker(t) => FreeWorker(t)',
         Started(t), Started(t)', pc[t] # "done",
         \A w \in Workers \ {t} : pc'[w] = pc[w] /\ queue'[w] = queue[w],
         UNCHANGED <<mainPc, mainVars, _idle_threads_queue, thread_number, corrupt>>
  PROVE  /\ Numbered' /\ StartInv' /\ IdleInv' /\ MainWaitInv' /\ JoinInv' /\ ~corrupt'
         /\ \A w \in Workers : NilSent(w)' <=> NilSent(w)
<1>1. \A w \in Workers : Started(w)' <=> Started(w)
  BY DEF Started
<1>2. Numbered' /\ MainWaitInv' /\ ~corrupt'
  BY <1>1 DEF PoolInv, Numbered, MainWaitInv
<1>3. StartInv'
  <2>1. \A w \in Workers : pc'[w] = "none" <=> pc[w] = "none"
    BY DEF Started
  <2>2. index \in Workers /\ UNCHANGED <<index, mainPc, _thread_number, argsCopied>>
    BY DEF PoolInv, TypeInv, TypeOK, mainVars
  <2> QED
    BY <1>1, <2>1, <2>2 DEF PoolInv, StartInv, Started
<1>4. IdleInv'
  <2>1. \A w \in Workers : FreeWorker(w) => FreeWorker(w)'
    BY DEF FreeWorker
  <2>2. /\ \A n \in DOMAIN _idle_threads_queue : _idle_threads_queue[n] \in Workers
        /\ number_of_idle_thread \in Workers
    BY DEF PoolInv, TypeInv, TypeOK
  <2>3. UNCHANGED <<mainPc, number_of_idle_thread, _idle_threads_queue>>
    BY DEF mainVars
  <2> QED
    BY <2>1, <2>2, <2>3 DEF PoolInv, IdleInv, Open, FreeWorker
<1>5. JoinInv'
  BY DEF PoolInv, JoinInv, mainVars
<1>6. \A w \in Workers : NilSent(w)' <=> NilSent(w)
  BY DEF NilSent, mainVars
<1> QED
  BY <1>2, <1>3, <1>4, <1>5, <1>6

\* The job leaves the queue of the worker, which starts to execute it.
LEMMA ReceiveKeeps ==
  ASSUME PoolInv, TypeInv', NEW t \in Workers, pc[t] \in {"dequeue", "notified"},
         Receive(t),
         UNCHANGED <<mainPc, mainVars, _idle_threads_queue, thread_number, finished, corrupt>>
  PROVE  PoolInv'
<1> USE PoolAssumption
<1>1. /\ pc \in [Workers -> WorkerStates] /\ queue \in [Workers -> Seq(Jobs \cup {Nil})]
      /\ function_to_execute \in [Workers -> Jobs \cup {Nil}]
  BY DEF PoolInv, TypeInv, TypeOK
<1>2. \A i \in Jobs : i # Nil
  BY DEF Jobs
<1>3. /\ queue[t] # <<>> /\ pc'[t] \in {"done", "running"}
      /\ \A w \in Workers \ {t} : /\ pc'[w] = pc[w] /\ queue'[w] = queue[w]
                                  /\ function_to_execute'[w] = function_to_execute[w]
  <2>1. thread_number[t] = t
    BY DEF PoolInv, Numbered, Started
  <2> QED
    BY <1>1, <2>1 DEF Receive
<1>4. /\ Numbered' /\ StartInv' /\ IdleInv' /\ MainWaitInv' /\ JoinInv' /\ ~corrupt'
      /\ \A w \in Workers : NilSent(w)' <=> NilSent(w)
  <2>1. ~FreeWorker(t) /\ Started(t) /\ Started(t)' /\ pc[t] # "done"
    BY <1>3 DEF FreeWorker, Started
  <2> QED
    BY <1>3, <2>1, OwnStepKeepsOthers
<1>5. CASE /\ queue[t] = <<Nil>> /\ NilSent(t)
           /\ queue' = [queue EXCEPT ![t] = <<>>]
           /\ pc' = [pc EXCEPT ![t] = "done"]
           /\ function_to_execute' = [function_to_execute EXCEPT ![t] = Nil]
  <2>1. WorkersInv'
    BY <1>1, <1>3, <1>4, <1>5 DEF PoolInv, WorkersInv, BeforeNil, AfterNil
  <2>2. ASSUME NEW i \in Jobs PROVE ~JobAt(i, t) /\ ~JobAt(i, t)'
    <3>1. queue[t][1] = Nil
      BY <1>5
    <3>2. queue'[t] = <<>> /\ pc'[t] = "done"
      BY <1>1, <1>5
    <3> QED
      BY <1>2, <3>1, <3>2 DEF JobAt
  <2>3. \A i \in Jobs, w \in Workers : JobAt(i, w)' <=> JobAt(i, w)
    BY <1>3, <2>2 DEF JobAt
  <2>4. Accounted'
    BY <2>3 DEF PoolInv, Accounted, mainVars
  <2> QED
    BY <1>4, <2>1, <2>4 DEF PoolInv
<1>6. ASSUME NEW j \in Jobs,
             queue[t] = IF NilSent(t) THEN <<j, Nil>> ELSE <<j>>,
             queue' = [queue EXCEPT ![t] = IF NilSent(t) THEN <<Nil>> ELSE <<>>],
             pc' = [pc EXCEPT ![t] = "running"],
             function_to_execute' = [function_to_execute EXCEPT ![t] = j]
      PROVE  PoolInv'
  <2>1. /\ queue[t][1] = j /\ pc'[t] = "running" /\ function_to_execute'[t] = j
        /\ queue'[t] = IF NilSent(t) THEN <<Nil>> ELSE <<>>
    BY <1>1, <1>6
  <2>2. WorkersInv'
    BY <1>3, <1>4, <2>1 DEF PoolInv, WorkersInv, BeforeNil, AfterNil
  <2>3. ASSUME NEW i \in Jobs PROVE JobAt(i, t)' <=> JobAt(i, t)
    <3>1. JobAt(i, t) <=> i = j
      BY <1>3, <2>1 DEF JobAt
    <3>2. queue'[t] # <<>> => queue'[t][1] = Nil
      BY <2>1
    <3>3. JobAt(i, t)' <=> i = j
      BY <1>2, <2>1, <3>2 DEF JobAt
    <3> QED
      BY <3>1, <3>3
  <2>4. \A i \in Jobs, w \in Workers : JobAt(i, w)' <=> JobAt(i, w)
    BY <1>3, <2>3 DEF JobAt
  <2>5. Accounted'
    BY <2>4 DEF PoolInv, Accounted, mainVars
  <2> QED
    BY <1>4, <2>2, <2>5 DEF PoolInv
<1> QED
  BY <1>5, <1>6, ReceiveOwn

LEMMA DequeueTaskKeeps ==
  ASSUME PoolInv, TypeInv', NEW t \in Workers, DequeueTask(t) PROVE PoolInv'
<1>1. CASE Receive(t)
  BY <1>1, ReceiveKeeps DEF DequeueTask
<1>2. CASE /\ queue[thread_number[t]] = <<>>
           /\ pc' = [pc EXCEPT ![t] = "waiting"]
           /\ UNCHANGED <<queue, function_to_execute>>
  <2>1. /\ pc[t] = "dequeue" /\ queue[t] = <<>> /\ pc \in [Workers -> WorkerStates]
        /\ UNCHANGED <<mainPc, mainVars, _idle_threads_queue, thread_number, finished, corrupt>>
    BY <1>2 DEF DequeueTask, PoolInv, Numbered, Started, TypeInv, TypeOK
  <2>2. /\ Numbered' /\ StartInv' /\ IdleInv' /\ MainWaitInv' /\ JoinInv' /\ ~corrupt'
        /\ \A w \in Workers : NilSent(w)' <=> NilSent(w)
    <3>1. /\ FreeWorker(t)' /\ Started(t) /\ Started(t)' /\ pc[t] # "done"
          /\ \A w \in Workers \ {t} : pc'[w] = pc[w] /\ queue'[w] = queue[w]
      BY <1>2, <2>1 DEF FreeWorker, Started
    <3> QED
      BY <2>1, <3>1, OwnStepKeepsOthers
  <2>3. WorkersInv'
    BY <1>2, <2>1, <2>2 DEF PoolInv, WorkersInv, BeforeNil, AfterNil
  <2>4. Accounted'
    BY <1>2, <2>1 DEF PoolInv, Accounted, JobAt, mainVars
  <2> QED
    BY <2>2, <2>3, <2>4 DEF PoolInv
<1> QED
  BY <1>1, <1>2 DEF DequeueTask

LEMMA TaskWakeupKeeps ==
  ASSUME PoolInv, ~SpuriousWakeups, TypeInv', NEW t \in Workers, TaskWakeup(t)
  PROVE  PoolInv'
  BY WokenReceives, ReceiveKeeps DEF TaskWakeup

\* The job was this worker's alone, and is now executed.
LEMMA FinishTaskKeeps ==
  ASSUME PoolInv, TypeInv', NEW t \in Workers, FinishTask(t) PROVE PoolInv'
<1> USE PoolAssumption
<1> DEFINE j == function_to_execute[t]
<1>1. /\ pc[t] = "running" /\ pc' = [pc EXCEPT ![t] = "announce"]
      /\ finished' = finished \cup {j} /\ j \in Jobs
      /\ pc \in [Workers -> WorkerStates]
      /\ UNCHANGED <<mainPc, mainVars, _idle_threads_queue, thread_number, queue,
                     function_to_execute, corrupt>>
  BY DEF FinishTask, PoolInv, TypeInv, TypeOK
<1> HIDE DEF j
<1>2. /\ Numbered' /\ StartInv' /\ IdleInv' /\ MainWaitInv' /\ JoinInv' /\ ~corrupt'
      /\ \A w \in Workers : NilSent(w)' <=> NilSent(w)
  <2>1. /\ ~FreeWorker(t) /\ Started(t) /\ Started(t)' /\ pc[t] # "done"
        /\ \A w \in Workers \ {t} : pc'[w] = pc[w] /\ queue'[w] = queue[w]
    BY <1>1 DEF FreeWorker, Started
  <2> QED
    BY <1>1, <2>1, OwnStepKeepsOthers
<1>3. WorkersInv'
  BY <1>1, <1>2 DEF PoolInv, WorkersInv, BeforeNil, AfterNil
<1>4. Accounted'
  <2>1. queue[t] = <<>> \/ queue[t] = <<Nil>>
    BY <1>1 DEF PoolInv, WorkersInv, BeforeNil, AfterNil
  <2>2. \A i \in Jobs : i # Nil
    BY DEF Jobs
  <2>3. queue[t] # <<>> => queue[t][1] = Nil
    BY <2>1
  <2>4. JobAt(j, t) /\ \A i \in Jobs : (JobAt(i, t) <=> i = j) /\ ~JobAt(i, t)'
    BY <1>1, <2>2, <2>3 DEF JobAt, j
  <2>5. \A i \in Jobs, w \in Workers : JobAt(i, w)' <=> JobAt(i, w) /\ w # t
    BY <1>1, <2>4 DEF JobAt
  <2>6. submitted' = submitted
    BY <1>1 DEF mainVars
  <2>7. submitted \in Nat /\ \A i \in Jobs : i \in Nat
    BY DEF PoolInv, TypeInv, TypeOK, Jobs
  <2> QED
    BY <1>1, <2>4, <2>5, <2>6, <2>7 DEF PoolInv, Accounted
<1> QED
  BY <1>2, <1>3, <1>4 DEF PoolInv

LEMMA PoolInvNext ==
  ASSUME PoolInv, ~SpuriousWakeups, [Next]_vars PROVE PoolInv'
<1>1. TypeInv'
  BY TypeInvNext DEF PoolInv
<1>2. CASE Main
  BY <1>1, <1>2, StartThreadKeeps, ArgsCopiedKeeps, TakeIdleKeeps, IdleWakeupKeeps,
     HandOverKeeps, BeginStopKeeps, SendNilKeeps, JoinKeeps DEF Main
<1>3. ASSUME NEW t \in Workers, Worker(t) PROVE PoolInv'
  BY <1>1, <1>3, CopyNumberKeeps, NotifyBeingIdleKeeps, DequeueTaskKeeps,
     TaskWakeupKeeps, FinishTaskKeeps DEF Worker
<1>4. CASE UNCHANGED vars
  <2>1. /\ UNCHANGED <<mainPc, index, _thread_number, argsCopied, number_of_idle_thread>>
        /\ UNCHANGED <<submitted, _idle_threads_queue, pc, thread_number, queue>>
        /\ UNCHANGED <<function_to_execute, finished, corrupt>>
    BY <1>4 DEF vars, mainVars, workerVars
  <2>2. Numbered' /\ StartInv' /\ IdleInv' /\ MainWaitInv'
    BY <2>1 DEF PoolInv, Numbered, StartInv, Started, IdleInv, Open, FreeWorker, MainWaitInv
  <2>3. WorkersInv' /\ JoinInv' /\ Accounted'
    BY <2>1 DEF PoolInv, WorkersInv, NilSent, BeforeNil, AfterNil, JoinInv, Accounted, JobAt
  <2> QED
    BY <1>1, <2>1, <2>2, <2>3 DEF PoolInv
<1> QED
  BY <1>2, <1>3, <1>4 DEF Next, Ended

LEMMA PoolInvAlways == ASSUME ~SpuriousWakeups PROVE Spec => []PoolInv
<1>1. PoolInv /\ [Next]_vars => PoolInv'
  BY PoolInvNext
<1> QED
  BY <1>1, PoolInvInit, PTL DEF Spec

-----------------------------------------------------------------------------
(* Theorems *)

\* start_all_threads() never goes on before the new thread has copied its
\* number, if its wait() returns only when it was notified.
THEOREM ArgumentsAreCopied ==
  ASSUME ~SpuriousWakeups PROVE Spec => []ArgsReusedAfterCopy
<1>1. PoolInv => ArgsReusedAfterCopy
  BY DEF PoolInv, StartInv, Started, ArgsReusedAfterCopy
<1> QED
  BY <1>1, PoolInvAlways, PTL

\* Without spurious wake-ups, which wait() without a condition does not guard
\* against, ThreadPool::enqueue() hands a job to a worker that is free to process it at
\* once, and that no other thread impersonates.
THEOREM JobGoesToIdleWorker ==
  ASSUME ~SpuriousWakeups PROVE Spec => []HandedToIdleWorker
<1>1. ASSUME PoolInv, mainPc = "handing"
      PROVE  /\ queue[number_of_idle_thread] = <<>>
             /\ \E t \in Workers : /\ Serving(number_of_idle_thread) = {t}
                                   /\ pc[t] \in {"dequeue", "waiting"}
  <2>1. number_of_idle_thread \in Workers /\ FreeWorker(number_of_idle_thread)
    BY <1>1 DEF PoolInv, TypeInv, TypeOK, IdleInv, Open
  <2>2. Serving(number_of_idle_thread) = {number_of_idle_thread}
    BY <1>1, <2>1 DEF PoolInv, StartInv, Started, Numbered, Serving
  <2> QED
    BY <2>1, <2>2 DEF FreeWorker
<1>2. PoolInv => HandedToIdleWorker
  BY <1>1 DEF HandedToIdleWorker
<1> QED
  BY <1>2, PoolInvAlways, PTL

\* Without spurious wake-ups no job is lost and none is executed twice.
THEOREM NoJobLostOrDuplicated ==
  ASSUME ~SpuriousWakeups PROVE Spec => []JobsAccountedFor
<1> USE PoolAssumption
<1>1. ASSUME PoolInv, NEW j \in Jobs
      PROVE  \A p \in PlacesOf(j) : /\ JobAt(j, p[1]) /\ p[1] \in Workers
                                    /\ p = <<p[1], IF pc[p[1]] = "running" THEN 0 ELSE 1>>
  <2> SUFFICES ASSUME NEW p \in PlacesOf(j)
               PROVE  /\ JobAt(j, p[1]) /\ p[1] \in Workers
                      /\ p = <<p[1], IF pc[p[1]] = "running" THEN 0 ELSE 1>>
    OBVIOUS
  <2> DEFINE k == p[1]
             n == p[2]
  <2>1. p = <<k, n>> /\ k \in Workers /\ n \in Nat
    BY DEF PlacesOf
  <2>2. \/ n = 0 /\ pc[k] = "running" /\ function_to_execute[k] = j
        \/ n \in DOMAIN queue[k] /\ queue[k][n] = j
    BY DEF PlacesOf
  <2>3. j # Nil
    BY DEF Jobs
  <2>4. AfterNil(k) \/ BeforeNil(k)
    BY <1>1, <2>1 DEF PoolInv, WorkersInv
  <2> HIDE DEF k, n
  <2>5. CASE n \in DOMAIN queue[k] /\ queue[k][n] = j
    <3>1. queue[k] # <<>> /\ queue[k] # <<Nil>>
      BY <2>3, <2>5
    <3>2. /\ pc[k] \in {"dequeue", "notified"}
          /\ \E i \in Jobs : queue[k] = <<i>> \/ queue[k] = <<i, Nil>>
      BY <2>4, <3>1 DEF AfterNil, BeforeNil
    <3>3. n = 1 /\ queue[k] # <<>> /\ queue[k][1] = j /\ pc[k] # "running"
      BY <2>3, <2>5, <3>2
    <3> QED
      BY <2>1, <3>3 DEF JobAt, k
  <2>6. CASE n = 0 /\ pc[k] = "running" /\ function_to_execute[k] = j
    BY <2>1, <2>6 DEF JobAt, k
  <2> QED
    BY <2>2, <2>5, <2>6
<1>2. ASSUME PoolInv, NEW j \in Jobs, NEW k \in Workers, JobAt(j, k)
      PROVE  PlacesOf(j) # {}
  <2>1. CASE pc[k] = "running" /\ function_to_execute[k] = j
    <3>1. <<k, 0>> \in PlacesOf(j)
      BY <2>1 DEF PlacesOf
    <3> QED
      BY <3>1
  <2>2. CASE queue[k] # <<>> /\ queue[k][1] = j
    <3>1. 1 \in DOMAIN queue[k]
      BY <1>2, <2>2 DEF PoolInv, TypeInv, TypeOK
    <3>2. 1 \in 0..(MaxJobs + 1)
      OBVIOUS
    <3>3. <<k, 1>> \in PlacesOf(j)
      BY <2>2, <3>1, <3>2 DEF PlacesOf
    <3> QED
      BY <3>3
  <2> QED
    BY <1>2, <2>1, <2>2 DEF JobAt
<1>3. PoolInv => JobsAccountedFor
  <2> SUFFICES ASSUME PoolInv, NEW j \in Jobs
               PROVE  /\ j <= submitted <=> j \in finished \/ PlacesOf(j) # {}
                      /\ j \in finished => PlacesOf(j) = {}
                      /\ \A p, q \in PlacesOf(j) : p = q
    BY DEF JobsAccountedFor
  <2>1. PlacesOf(j) # {} <=> \E k \in Workers : JobAt(j, k)
    BY <1>1, <1>2
  <2>2. j \in Nat /\ submitted \in Nat
    BY DEF PoolInv, TypeInv, TypeOK, Jobs
  <2>3. j <= submitted <=> j \in finished \/ PlacesOf(j) # {}
    BY <2>1, <2>2 DEF PoolInv, Accounted
  <2>4. j \in finished => PlacesOf(j) = {}
    BY <2>1 DEF PoolInv, Accounted
  <2>5. ASSUME NEW p \in PlacesOf(j), NEW q \in PlacesOf(j) PROVE p = q
    <3>1. p[1] = q[1]
      BY <1>1 DEF PoolInv, Accounted
    <3> QED
      BY <1>1, <3>1
  <2> QED
    BY <2>3, <2>4, <2>5
<1> QED
  BY <1>3, PoolInvAlways, PTL

\* Without spurious wake-ups, when the destructor has returned, every job was
\* executed and every thread has ended.
THEOREM DestructorIsABarrier ==
  ASSUME ~SpuriousWakeups PROVE Spec => []DestructorWaitsForJobs
<1>1. ASSUME PoolInv, mainPc = "closed"
      PROVE  finished = 1..submitted /\ \A t \in Workers : pc[t] = "done"
  <2>1. \A t \in Workers : pc[t] = "done" /\ queue[t] = <<>>
    BY <1>1 DEF PoolInv, JoinInv, WorkersInv, NilSent, AfterNil
  <2>2. \A j \in Jobs : j <= submitted <=> j \in finished
    <3>1. \A j \in Jobs, t \in Workers : ~JobAt(j, t)
      BY <2>1 DEF JobAt
    <3>2. submitted \in Nat /\ \A j \in Jobs : j \in Nat
      BY <1>1 DEF PoolInv, TypeInv, TypeOK, Jobs
    <3> QED
      BY <1>1, <3>1, <3>2 DEF PoolInv, Accounted
  <2>3. submitted \in 0..MaxJobs /\ finished \subseteq Jobs
    BY <1>1 DEF PoolInv, TypeInv, TypeOK
  <2>4. submitted \in Nat /\ submitted <= MaxJobs /\ MaxJobs \in Nat
    BY <2>3, PoolAssumption
  <2>5. 1..submitted \subseteq Jobs
    BY <2>4 DEF Jobs
  <2>6. \A j \in Jobs : j \in 1..submitted <=> j <= submitted
    BY <2>4 DEF Jobs
  <2> QED
    BY <2>1, <2>2, <2>3, <2>5, <2>6
<1>2. PoolInv => DestructorWaitsForJobs
  BY <1>1 DEF DestructorWaitsForJobs
<1> QED
  BY <1>2, PoolInvAlways, PTL

-----------------------------------------------------------------------------
(* The pool implements JobPool, safety part *)

\* What a worker is, by what is in its queue.
LEMMA SlotIs ==
  ASSUME NEW w, NEW j \in Jobs
  PROVE  /\ queue[w] \in {<<>>, <<Nil>>} /\ pc[w] # "running" => SlotOf(w) = Pool!IdleSlot
         /\ queue[w] \in {<<>>, <<Nil>>} /\ pc[w] = "running" =>
               SlotOf(w) = Pool!Executing(function_to_execute[w])
         /\ queue[w] \in {<<j>>, <<j, Nil>>} => SlotOf(w) = Pool!Given(j)
<1>1. j # Nil
  BY PoolAssumption DEF Jobs
<1>2. queue[w] \in {<<>>, <<Nil>>} => ~(queue[w] # <<>> /\ Head(queue[w]) # Nil)
  OBVIOUS
<1>3. queue[w] \in {<<j>>, <<j, Nil>>} => queue[w] # <<>> /\ Head(queue[w]) = j
  OBVIOUS
<1> QED
  BY <1>1, <1>2, <1>3 DEF SlotOf, Pool!IdleSlot, Pool!Executing, Pool!Given

LEMMA HandOverGives == ASSUME PoolInv, HandOver PROVE Pool!PoolNext
<1> USE PoolAssumption
<1>1. PICK k \in Workers : k = number_of_idle_thread
  BY DEF PoolInv, TypeInv, TypeOK
<1>2. PICK j \in Jobs : j = submitted + 1
  BY DEF HandOver, PoolInv, TypeInv, TypeOK, Jobs
<1>3. /\ mainPc = "handing" /\ mainPc' = "ready" /\ submitted' = j
      /\ UNCHANGED <<function_to_execute, finished>> /\ EnqueueTo(k, j)
      /\ queue \in [Workers -> Seq(Jobs \cup {Nil})] /\ pc \in [Workers -> WorkerStates]
      /\ pc[k] \in {"dequeue", "waiting"} /\ queue[k] = <<>>
  BY <1>1, <1>2 DEF HandOver, PoolInv, TypeInv, TypeOK, IdleInv, Open, FreeWorker, workerVars
<1>4. /\ queue' = [queue EXCEPT ![k] = Append(queue[k], j)]
      /\ pc' = IF pc[k] = "waiting" THEN [pc EXCEPT ![k] = "notified"] ELSE pc
  BY <1>3, EnqueueWakesOwner
<1>5. queue'[k] = <<j>>
  <2>1. Append(queue[k], j) = <<j>>
    BY <1>3
  <2> QED
    BY <1>3, <1>4, <2>1
<1>6. SlotOf(k) = Pool!IdleSlot /\ SlotOf(k)' = Pool!Given(j)
  <2>1. SlotOf(k) = Pool!IdleSlot
    BY <1>3, SlotIs
  <2>2. SlotOf(k)' = Pool!Given(j)
    <3>1. queue'[k] # <<>> /\ Head(queue'[k]) = j /\ j # Nil
      BY <1>5 DEF Jobs
    <3> QED
      BY <3>1 DEF SlotOf, Pool!Given
  <2> QED
    BY <2>1, <2>2
<1>7. \A w \in Workers \ {k} : SlotOf(w)' = SlotOf(w)
  BY <1>3, <1>4 DEF SlotOf
<1>8. Pool!Give(k)
  <2>1. submitted < MaxJobs
    BY <1>3 DEF PoolInv, TypeInv
  <2> QED
    BY <1>2, <1>3, <1>6, <1>7, <2>1 DEF Pool!Give
<1> QED
  BY <1>8 DEF Pool!PoolNext

\* The request to end changes nothing that the users of the pool see.
LEMMA SendNilStutters == ASSUME PoolInv, SendNil PROVE UNCHANGED Pool!poolVars
<1> USE PoolAssumption
<1>1. PICK k \in Workers : k = index
  BY DEF PoolInv, TypeInv, TypeOK
<1>2. /\ mainPc # "closed" /\ mainPc' # "closed"
      /\ UNCHANGED <<submitted, function_to_execute, finished>> /\ EnqueueTo(k, Nil)
      /\ queue \in [Workers -> Seq(Jobs \cup {Nil})] /\ pc \in [Workers -> WorkerStates]
  BY <1>1 DEF SendNil, NextIndex, PoolInv, TypeInv, TypeOK, workerVars
<1>3. /\ queue' = [queue EXCEPT ![k] = Append(queue[k], Nil)]
      /\ pc' = IF pc[k] = "waiting" THEN [pc EXCEPT ![k] = "notified"] ELSE pc
  BY <1>2, EnqueueWakesOwner
<1>4. queue'[k] # <<>> /\ Head(queue'[k]) = IF queue[k] = <<>> THEN Nil ELSE Head(queue[k])
  <2>1. queue[k] \in Seq(Jobs \cup {Nil}) /\ queue'[k] = Append(queue[k], Nil)
    BY <1>2, <1>3
  <2>2. CASE queue[k] = <<>>
    <3>1. queue'[k] = <<Nil>>
      BY <2>1, <2>2
    <3> QED
      BY <2>2, <3>1
  <2>3. CASE queue[k] # <<>>
    <3>1. Len(queue[k]) \in Nat /\ Len(queue[k]) > 0
      BY <2>1, <2>3, EmptySeq, LenProperties
    <3>2. Append(queue[k], Nil)[1] = queue[k][1] /\ Len(Append(queue[k], Nil)) = Len(queue[k]) + 1
      BY <2>1, <3>1
    <3>3. Append(queue[k], Nil) # <<>> /\ Append(queue[k], Nil) \in Seq(Jobs \cup {Nil})
      BY <2>1, <3>1, <3>2
    <3> QED
      BY <2>1, <2>3, <3>2, <3>3
  <2> QED
    BY <2>2, <2>3
<1>5. SlotOf(k)' = SlotOf(k)
  BY <1>2, <1>3, <1>4 DEF SlotOf
<1>6. \A w \in Workers \ {k} : SlotOf(w)' = SlotOf(w)
  BY <1>2, <1>3 DEF SlotOf
<1> QED
  BY <1>2, <1>5, <1>6 DEF Pool!poolVars

\* The last join() closes the pool, and then every worker is idle.
LEMMA JoinCloses == ASSUME PoolInv, PoolInv', Join PROVE [Pool!PoolNext]_(Pool!poolVars)
<1>1. /\ mainPc = "joining" /\ mainPc' \in {"joining", "closed"}
      /\ UNCHANGED <<submitted, pc, queue, function_to_execute, finished>>
  BY DEF Join, NextIndex, workerVars
<1>2. \A w \in Workers : SlotOf(w)' = SlotOf(w)
  BY <1>1 DEF SlotOf
<1>3. CASE mainPc' = "joining"
  BY <1>1, <1>2, <1>3 DEF Pool!poolVars
<1>4. CASE mainPc' = "closed"
  <2>1. \A w \in Workers : pc[w] = "done" /\ queue[w] = <<>>
    BY <1>1, <1>4 DEF PoolInv, JoinInv, WorkersInv, NilSent, AfterNil
  <2>2. \A w \in Workers : SlotOf(w) = Pool!IdleSlot
    BY <2>1 DEF SlotOf, Pool!IdleSlot
  <2>3. Pool!Close
    BY <1>1, <1>2, <1>4, <2>2 DEF Pool!Close
  <2> QED
    BY <2>3 DEF Pool!PoolNext
<1> QED
  BY <1>1, <1>3, <1>4

LEMMA ReceiveBegins ==
  ASSUME PoolInv, NEW t \in Workers, pc[t] \in {"dequeue", "notified"}, Receive(t),
         UNCHANGED <<mainPc, mainVars, finished>>
  PROVE  [Pool!PoolNext]_(Pool!poolVars)
<1> USE PoolAssumption
<1>1. /\ pc \in [Workers -> WorkerStates] /\ queue \in [Workers -> Seq(Jobs \cup {Nil})]
      /\ function_to_execute \in [Workers -> Jobs \cup {Nil}]
      /\ submitted' = submitted
  BY DEF PoolInv, TypeInv, TypeOK, mainVars
<1>2. \A w \in Workers \ {t} : SlotOf(w)' = SlotOf(w)
  <2>1. thread_number[t] = t
    BY DEF PoolInv, Numbered, Started
  <2> QED
    BY <1>1, <2>1 DEF Receive, SlotOf
<1>3. CASE /\ queue[t] = <<Nil>> /\ NilSent(t)
           /\ queue' = [queue EXCEPT ![t] = <<>>]
           /\ pc' = [pc EXCEPT ![t] = "done"]
           /\ function_to_execute' = [function_to_execute EXCEPT ![t] = Nil]
  <2>1. SlotOf(t)' = SlotOf(t)
    BY <1>1, <1>3 DEF SlotOf
  <2> QED
    BY <1>1, <1>2, <2>1 DEF Pool!poolVars
<1>4. ASSUME NEW j \in Jobs,
             queue[t] = IF NilSent(t) THEN <<j, Nil>> ELSE <<j>>,
             queue' = [queue EXCEPT ![t] = IF NilSent(t) THEN <<Nil>> ELSE <<>>],
             pc' = [pc EXCEPT ![t] = "running"],
             function_to_execute' = [function_to_execute EXCEPT ![t] = j]
      PROVE  Pool!Begin(t)
  <2>1. SlotOf(t) = Pool!Given(j)
    BY <1>4, SlotIs
  <2>2. SlotOf(t)' = Pool!Executing(j)
    BY <1>1, <1>4 DEF SlotOf, Pool!Executing
  <2>3. SlotOf(t).state = "given" /\ SlotOf(t).job = j
    BY <2>1 DEF Pool!Given
  <2> QED
    BY <1>1, <1>2, <2>2, <2>3 DEF Pool!Begin
<1> QED
  BY <1>3, <1>4, ReceiveOwn DEF Pool!PoolNext

LEMMA FinishTaskEnds ==
  ASSUME PoolInv, NEW t \in Workers, FinishTask(t) PROVE Pool!PoolNext
<1>1. PICK j \in Jobs : j = function_to_execute[t]
  BY DEF FinishTask, PoolInv, TypeInv
<1>2. /\ pc[t] = "running" /\ pc' = [pc EXCEPT ![t] = "announce"]
      /\ finished' = finished \cup {j} /\ pc \in [Workers -> WorkerStates]
      /\ UNCHANGED <<mainPc, submitted, queue, function_to_execute>>
  BY <1>1 DEF FinishTask, mainVars, PoolInv, TypeInv, TypeOK
<1>3. queue[t] \in {<<>>, <<Nil>>}
  BY <1>2 DEF PoolInv, WorkersInv, BeforeNil, AfterNil
<1>4. SlotOf(t) = Pool!Executing(j)
  BY <1>1, <1>2, <1>3, SlotIs
<1>5. SlotOf(t)' = Pool!IdleSlot
  BY <1>2, <1>3 DEF SlotOf, Pool!IdleSlot
<1>6. \A w \in Workers \ {t} : SlotOf(w)' = SlotOf(w)
  BY <1>2 DEF SlotOf
<1>7. SlotOf(t).state = "executing" /\ SlotOf(t).job = j
  BY <1>4 DEF Pool!Executing
<1>8. Pool!End(t)
  BY <1>2, <1>5, <1>6, <1>7 DEF Pool!End
<1> QED
  BY <1>8 DEF Pool!PoolNext

\* What leaves the queues, the functions and the running threads alone is not
\* seen by the users of the pool.
LEMMA OtherStepsStutter ==
  ASSUME UNCHANGED <<queue, function_to_execute, submitted, finished>>,
         \A w \in Workers : pc'[w] = "running" <=> pc[w] = "running",
         mainPc # "closed", mainPc' # "closed"
  PROVE  UNCHANGED Pool!poolVars
<1>1. \A w \in Workers : SlotOf(w)' = SlotOf(w)
  BY DEF SlotOf
<1> QED
  BY <1>1 DEF Pool!poolVars

LEMMA PoolStep ==
  ASSUME ~SpuriousWakeups, PoolInv, PoolInv', [Next]_vars
  PROVE  [Pool!PoolNext]_(Pool!poolVars)
<1>1. CASE UNCHANGED vars
  <2>1. UNCHANGED <<mainPc, submitted, queue, pc, function_to_execute, finished>>
    BY <1>1 DEF vars, mainVars, workerVars
  <2>2. \A w \in Workers : SlotOf(w)' = SlotOf(w)
    BY <2>1 DEF SlotOf
  <2> QED
    BY <2>1, <2>2 DEF Pool!poolVars
<1>2. CASE StartThread
  <2>1. index \in Workers /\ pc \in [Workers -> WorkerStates] /\ index \in Nat
    BY PoolAssumption DEF PoolInv, TypeInv, TypeOK, Workers
  <2>2. pc[index] = "none"
    BY <1>2, <2>1 DEF StartThread, PoolInv, StartInv
  <2>3. \A w \in Workers : pc'[w] = "running" <=> pc[w] = "running"
    BY <1>2, <2>1, <2>2 DEF StartThread
  <2> QED
    BY <1>2, <2>3, OtherStepsStutter DEF StartThread, workerVars
<1>3. CASE ArgsCopied \/ TakeIdle \/ IdleWakeup \/ BeginStop
  <2>1. /\ UNCHANGED <<queue, function_to_execute, submitted, finished, pc>>
        /\ mainPc # "closed" /\ mainPc' # "closed"
    BY <1>3 DEF ArgsCopied, NextIndex, TakeIdle, IdleWakeup, BeginStop, workerVars, mainVars
  <2> QED
    BY <2>1, OtherStepsStutter
<1>4. CASE HandOver
  BY <1>4, HandOverGives
<1>5. CASE SendNil
  BY <1>5, SendNilStutters
<1>6. CASE Join
  BY <1>6, JoinCloses
<1>7. ASSUME NEW t \in Workers, CopyNumber(t) \/ NotifyBeingIdle(t)
      PROVE  [Pool!PoolNext]_(Pool!poolVars)
  <2>1. /\ UNCHANGED <<queue, function_to_execute, submitted, finished>>
        /\ mainPc' = "closed" <=> mainPc = "closed"
    BY <1>7 DEF CopyNumber, NotifyBeingIdle, workerVars, mainVars
  <2>2. /\ pc[t] \in {"created", "announce"} /\ pc \in [Workers -> WorkerStates]
        /\ pc' = [pc EXCEPT ![t] = IF pc[t] = "created" THEN "announce" ELSE "dequeue"]
    BY <1>7 DEF CopyNumber, NotifyBeingIdle, PoolInv, TypeInv, TypeOK
  <2>3. \A w \in Workers : pc'[w] = "running" <=> pc[w] = "running"
    BY <2>2
  <2>4. \A w \in Workers : SlotOf(w)' = SlotOf(w)
    BY <2>1, <2>3 DEF SlotOf
  <2> QED
    BY <2>1, <2>4 DEF Pool!poolVars
<1>8. ASSUME NEW t \in Workers, DequeueTask(t) PROVE [Pool!PoolNext]_(Pool!poolVars)
  <2>1. pc[t] = "dequeue" /\ UNCHANGED <<mainPc, mainVars, finished>>
    BY <1>8 DEF DequeueTask
  <2>2. CASE Receive(t)
    BY <2>1, <2>2, ReceiveBegins
  <2>3. CASE /\ pc' = [pc EXCEPT ![t] = "waiting"]
             /\ UNCHANGED <<queue, function_to_execute>>
    <3>1. pc \in [Workers -> WorkerStates]
      BY DEF PoolInv, TypeInv, TypeOK
    <3>2. \A w \in Workers : pc'[w] = "running" <=> pc[w] = "running"
      BY <2>1, <2>3, <3>1
    <3>3. \A w \in Workers : SlotOf(w)' = SlotOf(w)
      BY <2>3, <3>2 DEF SlotOf
    <3> QED
      BY <2>1, <2>3, <3>3 DEF Pool!poolVars, mainVars
  <2> QED
    BY <1>8, <2>2, <2>3 DEF DequeueTask
<1>9. ASSUME NEW t \in Workers, TaskWakeup(t) PROVE [Pool!PoolNext]_(Pool!poolVars)
  <2>1. pc[t] = "notified" /\ Receive(t)
    BY <1>9, WokenReceives
  <2>2. UNCHANGED <<mainPc, mainVars, finished>>
    BY <1>9 DEF TaskWakeup
  <2> QED
    BY <2>1, <2>2, ReceiveBegins
<1>10. ASSUME NEW t \in Workers, FinishTask(t) PROVE [Pool!PoolNext]_(Pool!poolVars)
  BY <1>10, FinishTaskEnds
<1> QED
  BY <1>1, <1>2, <1>3, <1>4, <1>5, <1>6, <1>7, <1>8, <1>9, <1>10 DEF Next, Main, Worker, Ended

\* Seen through what each worker has been given, every behaviour of the pool is
\* one that JobPool allows: enqueue() gives a job to an idle worker only, and
\* the destructor returns only when every worker is idle for good.
THEOREM RefinesJobPool ==
  ASSUME ~SpuriousWakeups PROVE Spec => Pool!PoolSafety
<1>1. Init => Pool!PoolInit
  <2> SUFFICES ASSUME Init PROVE Pool!PoolInit
    OBVIOUS
  <2>1. \A w \in Workers : SlotOf(w) = Pool!IdleSlot
    BY DEF Init, SlotOf, Pool!IdleSlot
  <2> QED
    BY <2>1 DEF Init, Pool!PoolInit
<1>2. PoolInv /\ PoolInv' /\ [Next]_vars => [Pool!PoolNext]_(Pool!poolVars)
  BY PoolStep
<1> QED
  BY <1>1, <1>2, PoolInvAlways, PTL DEF Spec, Pool!PoolSafety
=============================================================================
