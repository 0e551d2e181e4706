----------------------------- MODULE ThreadPool -----------------------------
(***************************************************************************)
(* The ThreadPool of src/src/thread_pool.cpp: the main thread that starts  *)
(* the workers, hands jobs to idle ones and finally stops and joins them,  *)
(* and the workers' thread_function().                                     *)
(*                                                                         *)
(* A step is a critical section of one of the mutexes: an enqueue() of a   *)
(* ThreadQueue is one step; a dequeue() is one step when the queue is not  *)
(* empty and otherwise two, up to and after the wait().  That the sections *)
(* exclude each other is shown by ThreadQueue.tla.  As there, wait() is    *)
(* called once, without a loop that tests the condition again.             *)
(***************************************************************************)
EXTENDS Naturals, Sequences, FiniteSets

CONSTANTS
    NumThreads,         \* num_of_threads
    MaxJobs,            \* bound: calls of ThreadPool::enqueue()
    SpuriousWakeups,    \* may a wait() return without a notification?
    Nil                 \* the nullptr that asks a worker to terminate

\* ThreadPool's constructor rejects num_of_threads < 1.
ASSUME PoolAssumption ==
    /\ NumThreads \in Nat \ {0}
    /\ MaxJobs \in Nat
    /\ SpuriousWakeups \in BOOLEAN
    /\ Nil \notin 1..MaxJobs

\* Indices into _threads; also the numbers that workers are known by.
Workers == 0..(NumThreads - 1)

\* The functions passed to enqueue(), in the order of the calls.
Jobs == 1..MaxJobs

VARIABLES
    mainPc,         \* where the main thread is
    index,          \* the loop variable of the loops over _threads
    _thread_number,
    argsCopied,     \* _thread_args_copied has been notified since main waits
    number_of_idle_thread,
    submitted,      \* jobs 1..submitted have been passed to a worker
    _idle_threads_queue,
    pc,             \* where each worker is
    thread_number,  \* the worker's local copy of _thread_number
    queue,          \* _threads[k].queue
    function_to_execute,
    finished,       \* history: the jobs whose execution has ended
    corrupt         \* front() was applied to an empty queue

mainVars == <<index, _thread_number, argsCopied, number_of_idle_thread, submitted>>
workerVars == <<thread_number, function_to_execute, finished>>
vars == <<mainPc, mainVars, _idle_threads_queue, pc, queue, workerVars, corrupt>>

MainStates == {"starting", "await_copied", "ready", "await_idle", "idle_notified",
               "handing", "stopping", "joining", "closed"}

WorkerStates == {"none", "created", "announce", "dequeue", "waiting", "notified",
                 "running", "done"}

Init ==
    /\ mainPc = "starting"
    /\ index = 0
    /\ _thread_number = 0
    /\ argsCopied = FALSE
    /\ number_of_idle_thread = 0
    /\ submitted = 0
    /\ _idle_threads_queue = <<>>
    /\ pc = [t \in Workers |-> "none"]
    /\ thread_number = [t \in Workers |-> 0]
    /\ queue = [k \in Workers |-> <<>>]
    /\ function_to_execute = [t \in Workers |-> Nil]
    /\ finished = {}
    /\ corrupt = FALSE

\* Mutant: the loop runs once too often.
NextIndexOffByOne(here, there) ==
    \/ /\ index + 1 <= NumThreads
       /\ index' = index + 1
       /\ mainPc' = here
    \/ /\ index + 1 > NumThreads
       /\ index' = 0
       /\ mainPc' = there

\* The loop over _threads goes on in state "here", or ends in state "there".
NextIndex(here, there) ==
    \/ /\ index + 1 < NumThreads
       /\ index' = index + 1
       /\ mainPc' = here
    \/ /\ index + 1 = NumThreads
       /\ index' = 0
       /\ mainPc' = there

\* The threads blocked in the dequeue() of queue k.
WaitersOf(k) == {t \in Workers : pc[t] = "waiting" /\ thread_number[t] = k}

\* Mutant: enqueue() does not notify.
EnqueueSilently(k, x) ==
    /\ queue' = [queue EXCEPT ![k] = Append(@, x)]
    /\ UNCHANGED pc

\* _threads[k].queue.enqueue(x): push, then notify one waiting thread.
EnqueueTo(k, x) ==
    /\ queue' = [queue EXCEPT ![k] = Append(@, x)]
    /\ \/ WaitersOf(k) = {} /\ UNCHANGED pc
       \/ \E t \in WaitersOf(k) : pc' = [pc EXCEPT ![t] = "notified"]

-----------------------------------------------------------------------------
(* The main thread: start_all_threads() *)

\* Main holds _thread_args_copied_mutex in state "starting", sets
\* _thread_number, creates the thread and waits, which releases the mutex.
StartThread ==
    /\ mainPc = "starting"
    /\ _thread_number' = index
    /\ pc' = [pc EXCEPT ![index] = "created"]
    /\ argsCopied' = FALSE
    /\ mainPc' = "await_copied"
    /\ UNCHANGED <<index, number_of_idle_thread, submitted, _idle_threads_queue,
                   queue, workerVars, corrupt>>

\* Mutant: start_all_threads() does not wait.
ArgsNotAwaited ==
    /\ mainPc = "await_copied"
    /\ NextIndex("starting", "ready")
    /\ UNCHANGED <<_thread_number, argsCopied, number_of_idle_thread, submitted,
                   _idle_threads_queue, pc, queue, workerVars, corrupt>>

\* _thread_args_copied.wait() returns, and main holds the mutex again.
ArgsCopied ==
    /\ mainPc = "await_copied"
    /\ argsCopied \/ SpuriousWakeups
    /\ NextIndex("starting", "ready")
    /\ UNCHANGED <<_thread_number, argsCopied, number_of_idle_thread, submitted,
                   _idle_threads_queue, pc, queue, workerVars, corrupt>>

-----------------------------------------------------------------------------
(* The main thread: enqueue() *)

\* Mutant: the idle thread stays in _idle_threads_queue.
TakeIdleWithoutPop ==
    /\ mainPc = "ready"
    /\ submitted < MaxJobs
    /\ \/ /\ _idle_threads_queue # <<>>
          /\ number_of_idle_thread' = Head(_idle_threads_queue)
          /\ mainPc' = "handing"
       \/ /\ _idle_threads_queue = <<>>
          /\ mainPc' = "await_idle"
          /\ UNCHANGED number_of_idle_thread
    /\ UNCHANGED <<index, _thread_number, argsCopied, submitted, _idle_threads_queue,
                   pc, queue, workerVars, corrupt>>

\* get_next_idle_thread() finds an idle thread, or waits for one.
TakeIdle ==
    /\ mainPc = "ready"
    /\ submitted < MaxJobs
    /\ \/ /\ _idle_threads_queue # <<>>
          /\ number_of_idle_thread' = Head(_idle_threads_queue)
          /\ _idle_threads_queue' = Tail(_idle_threads_queue)
          /\ mainPc' = "handing"
       \/ /\ _idle_threads_queue = <<>>
          /\ mainPc' = "await_idle"
          /\ UNCHANGED <<number_of_idle_thread, _idle_threads_queue>>
    /\ UNCHANGED <<index, _thread_number, argsCopied, submitted, pc, queue,
                   workerVars, corrupt>>

\* The wait() of get_next_idle_thread() returns and front() is taken.
IdleWakeup ==
    /\ \/ mainPc = "idle_notified"
       \/ mainPc = "await_idle" /\ SpuriousWakeups
    /\ \/ /\ _idle_threads_queue # <<>>
          /\ number_of_idle_thread' = Head(_idle_threads_queue)
          /\ _idle_threads_queue' = Tail(_idle_threads_queue)
          /\ mainPc' = "handing"
          /\ UNCHANGED corrupt
       \/ /\ _idle_threads_queue = <<>>
          /\ corrupt' = TRUE
          /\ UNCHANGED <<mainPc, number_of_idle_thread, _idle_threads_queue>>
    /\ UNCHANGED <<index, _thread_number, argsCopied, submitted, pc, queue, workerVars>>

\* The function goes into the queue of the thread that was idle.
HandOver ==
    /\ mainPc = "handing"
    /\ EnqueueTo(number_of_idle_thread, submitted + 1)
    /\ submitted' = submitted + 1
    /\ mainPc' = "ready"
    /\ UNCHANGED <<index, _thread_number, argsCopied, number_of_idle_thread,
                   _idle_threads_queue, workerVars, corrupt>>

-----------------------------------------------------------------------------
(* The main thread: ~ThreadPool(), stop_all_threads() *)

\* The owner of the pool needs no more jobs done and destroys it.
BeginStop ==
    /\ mainPc = "ready"
    /\ mainPc' = "stopping"
    /\ UNCHANGED <<mainVars, _idle_threads_queue, pc, queue, workerVars, corrupt>>

SendNil ==
    /\ mainPc = "stopping"
    /\ EnqueueTo(index, Nil)
    /\ NextIndex("stopping", "joining")
    /\ UNCHANGED <<_thread_number, argsCopied, number_of_idle_thread, submitted,
                   _idle_threads_queue, workerVars, corrupt>>

Join ==
    /\ mainPc = "joining"
    /\ pc[index] = "done"
    /\ NextIndex("joining", "closed")
    /\ UNCHANGED <<_thread_number, argsCopied, number_of_idle_thread, submitted,
                   _idle_threads_queue, pc, queue, workerVars, corrupt>>

-----------------------------------------------------------------------------
(* The workers: thread_function() *)

\* Mutant: the thread signals without having copied its number.
CopyNoNumber(t) ==
    /\ pc[t] = "created"
    /\ mainPc # "starting"
    /\ argsCopied' = (mainPc = "await_copied")
    /\ pc' = [pc EXCEPT ![t] = "announce"]
    /\ UNCHANGED <<mainPc, index, _thread_number, number_of_idle_thread, submitted,
                   _idle_threads_queue, queue, workerVars, corrupt>>

\* The critical section of _thread_args_copied_mutex, which main holds while
\* it is in state "starting".
CopyNumber(t) ==
    /\ pc[t] = "created"
    /\ mainPc # "starting"
    /\ thread_number' = [thread_number EXCEPT ![t] = _thread_number]
    /\ argsCopied' = (mainPc = "await_copied")
    /\ pc' = [pc EXCEPT ![t] = "announce"]
    /\ UNCHANGED <<mainPc, index, _thread_number, number_of_idle_thread, submitted,
                   _idle_threads_queue, queue, function_to_execute, finished, corrupt>>

\* notify_being_idle()
NotifyBeingIdle(t) ==
    /\ pc[t] = "announce"
    /\ _idle_threads_queue' = Append(_idle_threads_queue, thread_number[t])
    /\ mainPc' = IF mainPc = "await_idle" THEN "idle_notified" ELSE mainPc
    /\ pc' = [pc EXCEPT ![t] = "dequeue"]
    /\ UNCHANGED <<mainVars, queue, workerVars, corrupt>>

\* Mutant: dequeue() does not pop.
ReceiveWithoutPop(t) ==
    LET k == thread_number[t] IN
    /\ queue[k] # <<>>
    /\ function_to_execute' = [function_to_execute EXCEPT ![t] = Head(queue[k])]
    /\ pc' = [pc EXCEPT ![t] = IF Head(queue[k]) = Nil THEN "done" ELSE "running"]
    /\ UNCHANGED queue

\* queue.dequeue() returns front() to thread t: a job, or the request to end.
Receive(t) ==
    LET k == thread_number[t] IN
    /\ queue[k] # <<>>
    /\ function_to_execute' = [function_to_execute EXCEPT ![t] = Head(queue[k])]
    /\ queue' = [queue EXCEPT ![k] = Tail(@)]
    /\ pc' = [pc EXCEPT ![t] = IF Head(queue[k]) = Nil THEN "done" ELSE "running"]

\* queue.dequeue(): an element is there, or the thread starts to wait.
DequeueTask(t) ==
    /\ pc[t] = "dequeue"
    /\ \/ Receive(t)
       \/ /\ queue[thread_number[t]] = <<>>
          /\ pc' = [pc EXCEPT ![t] = "waiting"]
          /\ UNCHANGED <<queue, function_to_execute>>
    /\ UNCHANGED <<mainPc, mainVars, _idle_threads_queue, thread_number, finished, corrupt>>

\* The wait() of queue.dequeue() returns and front() is taken.
TaskWakeup(t) ==
    /\ \/ pc[t] = "notified"
       \/ pc[t] = "waiting" /\ SpuriousWakeups
    /\ \/ Receive(t) /\ UNCHANGED corrupt
       \/ /\ queue[thread_number[t]] = <<>>
          /\ corrupt' = TRUE
          /\ UNCHANGED <<pc, queue, function_to_execute>>
    /\ UNCHANGED <<mainPc, mainVars, _idle_threads_queue, thread_number, finished>>

\* function_to_execute() returns, or throws: both catch clauses only log.
FinishTask(t) ==
    /\ pc[t] = "running"
    /\ finished' = finished \cup {function_to_execute[t]}
    /\ pc' = [pc EXCEPT ![t] = "announce"]
    /\ UNCHANGED <<mainPc, mainVars, _idle_threads_queue, thread_number, queue,
                   function_to_execute, corrupt>>

-----------------------------------------------------------------------------
Main ==
    \/ StartThread \/ ArgsCopied
    \/ TakeIdle \/ IdleWakeup \/ HandOver
    \/ BeginStop \/ SendNil \/ Join

Worker(t) ==
    \/ CopyNumber(t) \/ NotifyBeingIdle(t)
    \/ DequeueTask(t) \/ TaskWakeup(t) \/ FinishTask(t)

\* The destructor has returned, or the behaviour is undefined from here on.
Ended == (mainPc = "closed" \/ corrupt) /\ UNCHANGED vars

Next ==
    \/ ~corrupt /\ (Main \/ \E t \in Workers : Worker(t))
    \/ Ended

Spec == Init /\ [][Next]_vars

\* The scheduler runs every thread that is not blocked, and jobs terminate.
Fairness ==
    /\ WF_vars(~corrupt /\ Main)
    /\ \A t \in Workers : WF_vars(~corrupt /\ Worker(t))

FairSpec == Spec /\ Fairness

-----------------------------------------------------------------------------
(* Properties *)

TypeOK ==
    /\ mainPc \in MainStates
    /\ index \in Workers
    /\ _thread_number \in Workers
    /\ argsCopied \in BOOLEAN
    /\ number_of_idle_thread \in Workers
    /\ submitted \in 0..MaxJobs
    /\ _idle_threads_queue \in Seq(Workers)
    /\ pc \in [Workers -> WorkerStates]
    /\ thread_number \in [Workers -> Workers]
    /\ queue \in [Workers -> Seq(Jobs \cup {Nil})]
    /\ function_to_execute \in [Workers -> Jobs \cup {Nil}]
    /\ finished \subseteq Jobs
    /\ corrupt \in BOOLEAN

\* thread_pool.h:72 says that _thread_args_copied signals "that the thread
\* function has copied" its arguments "so that it can be reused to start the
\* next thread": main does not go on while a created thread has yet to copy.
ArgsReusedAfterCopy == mainPc = "starting" => \A t \in Workers : pc[t] # "created"

\* The threads that dequeue from queue k.
Serving(k) == {t \in Workers : thread_number[t] = k /\ pc[t] \notin {"none", "created"}}

\* thread_pool.h:15 says that enqueue() "blocks until one of the worker threads
\* gets idle and is ready to immediately process the function": the queue that
\* main picked is empty and served by one thread, which executes nothing.
HandedToIdleWorker ==
    mainPc = "handing" =>
        /\ queue[number_of_idle_thread] = <<>>
        /\ \E t \in Workers : /\ Serving(number_of_idle_thread) = {t}
                              /\ pc[t] \in {"dequeue", "waiting"}

\* Where job j is: <<k, n>> for position n of queue k, <<t, 0>> for its
\* execution by thread t.
PlacesOf(j) ==
    {p \in Workers \X (0..(MaxJobs + 1)) :
        \/ p[2] = 0 /\ pc[p[1]] = "running" /\ function_to_execute[p[1]] = j
        \/ p[2] \in DOMAIN queue[p[1]] /\ queue[p[1]][p[2]] = j}

\* Between enqueue() and the end of its execution a job is at one place, so no
\* job is lost and none is executed twice.
JobsAccountedFor ==
    \A j \in Jobs :
        /\ j <= submitted <=> j \in finished \/ PlacesOf(j) # {}
        /\ j \in finished => PlacesOf(j) = {}
        /\ \A p, q \in PlacesOf(j) : p = q

\* When the destructor has returned all jobs have been executed and no thread
\* uses the pool any more: convert_all_wav_files_in_directory() and main rely
\* on it, they return without waiting for anything else.
DestructorWaitsForJobs ==
    mainPc = "closed" => finished = 1..submitted /\ \A t \in Workers : pc[t] = "done"

\* The destructor is reached and returns: enqueue(), the workers and the joins
\* never wait for each other forever.
PoolIsClosed == <>(mainPc = "closed")

\* A worker is what it has been given, or what it executes.
SlotOf(w) ==
    IF queue[w] # <<>> /\ Head(queue[w]) # Nil
    THEN [state |-> "given", job |-> Head(queue[w])]
    ELSE IF pc[w] = "running"
    THEN [state |-> "executing", job |-> function_to_execute[w]]
    ELSE [state |-> "idle", job |-> 0]

\* The pool does what thread_pool.h promises.
Pool == INSTANCE JobPool WITH
    Slots <- Workers, JobCount <- MaxJobs,
    slot <- [w \in Workers |-> SlotOf(w)], given <- submitted,
    executed <- finished, open <- mainPc # "closed"

ImplementsJobPool == Pool!PoolSpec
=============================================================================
