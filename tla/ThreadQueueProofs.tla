-------------------------- MODULE ThreadQueueProofs -------------------------
(***************************************************************************)
(* Theorems about ThreadQueue, for any sets of threads and any number of   *)
(* elements.  Types and mutual exclusion hold without a condition.  That   *)
(* dequeue() never takes from an empty queue and that no wake-up is lost   *)
(* is proved for the way ThreadPool uses its queues: one consumer, on a    *)
(* condition variable that wakes only when it is notified.                 *)
(***************************************************************************)
EXTENDS ThreadQueue, SequenceTheorems, TLAPS

-----------------------------------------------------------------------------
(* The inductive invariant that needs no condition *)

\* The mutex belongs to the thread in a critical section, and only to it.
MutexInv == \A t \in Threads : pc[t] \in InCritical <=> mutex = t

\* Producers are in enqueue(), consumers in dequeue().
WellPlaced ==
    /\ \A p \in Producers : pc[p] \in {"idle", "push", "notify", "unlock"}
    /\ \A c \in Consumers : pc[c] \notin {"push", "notify"}

\* A producer that is about to push has an element left.
PushBound == \A p \in Producers : pc[p] = "push" => sent[p] < ItemsPerProducer

LockInv == TypeOK /\ MutexInv /\ WellPlaced /\ PushBound

LEMMA LockInvInit == Init => LockInv
<1> SUFFICES ASSUME Init PROVE LockInv
  OBVIOUS
<1> USE QueueAssumption DEF Init
<1>1. TypeOK
  <2>1. queue \in Seq(Item) /\ received \in Seq(Item \cup {Garbage})
    OBVIOUS
  <2>2. sent \in [Producers -> 0..ItemsPerProducer]
    OBVIOUS
  <2>3. pc \in [Threads -> InCritical \cup Outside]
    BY DEF InCritical, Outside
  <2>4. mutex = Free
    OBVIOUS
  <2> QED
    BY <2>1, <2>2, <2>3, <2>4 DEF TypeOK
<1>2. MutexInv
  BY DEF MutexInv, InCritical
<1>3. WellPlaced
  BY DEF WellPlaced, Threads
<1>4. PushBound
  BY DEF PushBound, Threads
<1> QED
  BY <1>1, <1>2, <1>3, <1>4 DEF LockInv

\* A successful lock, by a thread that goes on with its own function.
LEMMA AcquireKeepsLockInv ==
  ASSUME LockInv, NEW t \in Threads, NEW from, NEW to \in InCritical,
         from \notin InCritical, Acquire(t, from, to),
         t \in Producers => to \in {"push", "notify", "unlock"} /\ sent[t] < ItemsPerProducer,
         t \in Consumers => to \notin {"push", "notify"}
  PROVE  LockInv'
<1> USE QueueAssumption DEF LockInv, Acquire, Goto, Threads
<1>1. MutexInv'
  BY DEF MutexInv, TypeOK, InCritical
<1>2. TypeOK'
  BY <1>1 DEF MutexInv, TypeOK, InCritical, Outside
<1>3. WellPlaced'
  BY DEF WellPlaced, TypeOK, InCritical
<1>4. PushBound'
  BY DEF PushBound, TypeOK, InCritical
<1> QED
  BY <1>1, <1>2, <1>3, <1>4

\* A step of the thread that holds the mutex, which keeps it and leaves the
\* data alone, except that the step may wake some consumer.
LEMMA HolderKeepsLockInv ==
  ASSUME LockInv, NEW t \in Threads, mutex = t, mutex' = mutex,
         NEW to \in InCritical \ {"push"},
         \/ pc' = [pc EXCEPT ![t] = to]
         \/ \E c \in Waiters : pc' = [pc EXCEPT ![c] = "woken", ![t] = to],
         t \in Producers => to \in {"notify", "unlock"},
         t \in Consumers => to # "notify",
         queue' \in Seq(Item), sent' \in [Producers -> 0..ItemsPerProducer],
         \A p \in Producers \ {t} : sent'[p] = sent[p],
         received' \in Seq(Item \cup {Garbage}), corrupt' \in BOOLEAN
  PROVE  LockInv'
<1> USE QueueAssumption DEF LockInv, Threads, Waiters
<1>1. MutexInv'
  BY DEF MutexInv, TypeOK, InCritical
<1>2. TypeOK'
  BY <1>1 DEF MutexInv, TypeOK, InCritical, Outside
<1>3. WellPlaced'
  BY DEF WellPlaced, TypeOK, InCritical
<1>4. PushBound'
  BY DEF PushBound, TypeOK, InCritical
<1> QED
  BY <1>1, <1>2, <1>3, <1>4

\* The mutex is given up.
LEMMA ReleaseKeepsLockInv ==
  ASSUME LockInv, NEW t \in Threads, mutex = t, mutex' = Free,
         NEW to \in {"idle", "waiting"}, pc' = [pc EXCEPT ![t] = to],
         t \in Producers => to = "idle",
         UNCHANGED <<queue, sent, received, corrupt>>
  PROVE  LockInv'
<1> USE QueueAssumption DEF LockInv, Threads
<1>1. MutexInv'
  BY DEF MutexInv, TypeOK, InCritical
<1>2. TypeOK'
  BY <1>1 DEF MutexInv, TypeOK, InCritical, Outside
<1>3. WellPlaced'
  BY DEF WellPlaced, TypeOK, InCritical
<1>4. PushBound'
  BY DEF PushBound, TypeOK, InCritical
<1> QED
  BY <1>1, <1>2, <1>3, <1>4

-----------------------------------------------------------------------------
(* Every step keeps it *)

LEMMA LockInvNext == LockInv /\ [Next]_vars => LockInv'
<1> SUFFICES ASSUME LockInv, [Next]_vars PROVE LockInv'
  OBVIOUS
<1> USE QueueAssumption
<1>1. ASSUME NEW p \in Producers, EnqueueLock(p) PROVE LockInv'
  <2>1. Acquire(p, "idle", "push") /\ sent[p] < ItemsPerProducer /\ p \notin Consumers
    BY <1>1 DEF EnqueueLock
  <2> QED
    BY <2>1, AcquireKeepsLockInv DEF InCritical, Threads
<1>2. ASSUME NEW p \in Producers, Push(p) PROVE LockInv'
  <2>1. mutex = p /\ sent[p] \in 0..ItemsPerProducer /\ sent[p] < ItemsPerProducer
    BY <1>2 DEF Push, LockInv, MutexInv, PushBound, TypeOK, InCritical, Threads
  <2>2. <<p, sent[p] + 1>> \in Item
    BY <2>1 DEF Item
  <2>3. queue' \in Seq(Item)
    BY <1>2, <2>2 DEF Push, LockInv, TypeOK
  <2>4. /\ sent' \in [Producers -> 0..ItemsPerProducer]
        /\ \A q \in Producers \ {p} : sent'[q] = sent[q]
    BY <1>2, <2>1 DEF Push, LockInv, TypeOK
  <2>5. /\ pc' = [pc EXCEPT ![p] = "notify"]
        /\ mutex' = mutex
        /\ received' \in Seq(Item \cup {Garbage})
        /\ corrupt' \in BOOLEAN
    BY <1>2 DEF Push, Goto, LockInv, TypeOK
  <2>8. "notify" \in InCritical \ {"push"}
    BY DEF InCritical
  <2> QED
    BY <2>1, <2>3, <2>4, <2>5, <2>8, HolderKeepsLockInv DEF Threads
<1>3. ASSUME NEW p \in Producers, NotifyOne(p) PROVE LockInv'
  <2>1. mutex = p
    BY <1>3 DEF NotifyOne, LockInv, MutexInv, InCritical, Threads
  <2>2. \/ pc' = [pc EXCEPT ![p] = "unlock"]
        \/ \E c \in Waiters : pc' = [pc EXCEPT ![c] = "woken", ![p] = "unlock"]
    BY <1>3 DEF NotifyOne, Goto
  <2>3. /\ UNCHANGED <<mutex, queue, sent, received, corrupt>>
        /\ queue' \in Seq(Item) /\ sent' \in [Producers -> 0..ItemsPerProducer]
        /\ received' \in Seq(Item \cup {Garbage}) /\ corrupt' \in BOOLEAN
    BY <1>3 DEF NotifyOne, LockInv, TypeOK
  <2>8. "unlock" \in InCritical \ {"push"}
    BY DEF InCritical
  <2>9. \A q \in Producers \ {p} : sent'[q] = sent[q]
    BY <2>3
  <2> QED
    BY <2>1, <2>2, <2>3, <2>8, <2>9, HolderKeepsLockInv DEF Threads
<1>4. ASSUME NEW t \in Threads, Release(t) PROVE LockInv'
  <2>1. mutex = t
    BY <1>4 DEF Release, LockInv, MutexInv, InCritical
  <2> QED
    BY <1>4, <2>1, ReleaseKeepsLockInv DEF Release, Goto
<1>5. ASSUME NEW c \in Consumers, DequeueLock(c) PROVE LockInv'
  BY <1>5, AcquireKeepsLockInv DEF DequeueLock, InCritical, Threads
<1>6. ASSUME NEW c \in Consumers, SkipWait(c) PROVE LockInv'
  <2>0. c \notin Producers /\ c \in Threads
    BY DEF Threads
  <2>1. mutex = c
    BY <1>6 DEF SkipWait, LockInv, MutexInv, InCritical, Threads
  <2>2. /\ UNCHANGED <<mutex, queue, sent, received, corrupt>>
        /\ pc' = [pc EXCEPT ![c] = "take"]
        /\ queue' \in Seq(Item) /\ sent' \in [Producers -> 0..ItemsPerProducer]
        /\ received' \in Seq(Item \cup {Garbage}) /\ corrupt' \in BOOLEAN
    BY <1>6 DEF SkipWait, Goto, LockInv, TypeOK
  <2>8. "take" \in InCritical \ {"push"} /\ "take" # "notify"
    BY DEF InCritical
  <2>9. \A q \in Producers \ {c} : sent'[q] = sent[q]
    BY <2>2
  <2> QED
    BY <2>0, <2>1, <2>2, <2>8, <2>9, HolderKeepsLockInv
<1>7. ASSUME NEW c \in Consumers, Wait(c) PROVE LockInv'
  <2>1. mutex = c
    BY <1>7 DEF Wait, LockInv, MutexInv, InCritical, Threads
  <2> QED
    BY <1>7, <2>1, ReleaseKeepsLockInv DEF Wait, Goto, Threads
<1>8. ASSUME NEW c \in Consumers, SpuriousWake(c) PROVE LockInv'
  <2>1. /\ pc[c] = "waiting" /\ pc' = [pc EXCEPT ![c] = "woken"]
        /\ UNCHANGED <<mutex, queue, sent, received, corrupt>>
    BY <1>8 DEF SpuriousWake, Goto
  <2>2. MutexInv'
    BY <2>1 DEF LockInv, TypeOK, MutexInv, InCritical, Threads
  <2>3. TypeOK' /\ WellPlaced' /\ PushBound'
    BY <2>1, <2>2
       DEF LockInv, TypeOK, MutexInv, WellPlaced, PushBound, Outside, InCritical, Threads
  <2> QED
    BY <2>2, <2>3 DEF LockInv
<1>9. ASSUME NEW c \in Consumers, WaitReturns(c) PROVE LockInv'
  BY <1>9, AcquireKeepsLockInv DEF WaitReturns, InCritical, Threads
<1>10. ASSUME NEW c \in Consumers, Take(c) \/ TakeFromEmpty(c) PROVE LockInv'
  <2>0. c \notin Producers /\ c \in Threads
    BY DEF Threads
  <2>1. mutex = c
    BY <1>10 DEF Take, TakeFromEmpty, LockInv, MutexInv, InCritical, Threads
  <2>2. /\ mutex' = mutex /\ sent' = sent
        /\ pc' = [pc EXCEPT ![c] = "unlock"]
        /\ sent' \in [Producers -> 0..ItemsPerProducer] /\ corrupt' \in BOOLEAN
    BY <1>10 DEF Take, TakeFromEmpty, Goto, LockInv, TypeOK
  <2>5. "unlock" \in InCritical \ {"push"} /\ "unlock" # "notify"
    BY DEF InCritical
  <2>6. \A p \in Producers \ {c} : sent'[p] = sent[p]
    BY <2>2
  <2>3. CASE Take(c)
    <3>1. queue \in Seq(Item) /\ queue # <<>> /\ received \in Seq(Item \cup {Garbage})
      BY <2>3 DEF Take, LockInv, TypeOK
    <3>2. Head(queue) \in Item /\ Tail(queue) \in Seq(Item)
      BY <3>1
    <3>3. queue' \in Seq(Item) /\ received' \in Seq(Item \cup {Garbage})
      BY <2>3, <3>1, <3>2 DEF Take
    <3> QED
      BY <2>0, <2>1, <2>2, <2>5, <2>6, <3>3, HolderKeepsLockInv
  <2>4. CASE TakeFromEmpty(c)
    <3>1. queue' \in Seq(Item) /\ received' \in Seq(Item \cup {Garbage})
      BY <2>4 DEF TakeFromEmpty, LockInv, TypeOK
    <3> QED
      BY <2>0, <2>1, <2>2, <2>5, <2>6, <3>1, HolderKeepsLockInv
  <2> QED
    BY <1>10, <2>3, <2>4
<1>11. CASE UNCHANGED vars
  BY <1>11 DEF vars, LockInv, TypeOK, MutexInv, WellPlaced, PushBound
<1> QED
  BY <1>1, <1>2, <1>3, <1>4, <1>5, <1>6, <1>7, <1>8, <1>9, <1>10, <1>11
     DEF Next, Enqueue, Dequeue, Quiescent, Undefined, Threads

LEMMA LockInvAlways == Spec => []LockInv
  BY LockInvInit, LockInvNext, PTL DEF Spec

\* Type correctness of the queue, its lock and its users.
THEOREM TypeCorrect == Spec => []TypeOK
<1>1. LockInv => TypeOK
  BY DEF LockInv
<1> QED
  BY <1>1, LockInvAlways, PTL

\* The critical sections of enqueue() and dequeue() exclude each other,
\* whatever wakes the threads that wait.
THEOREM CriticalSectionsExclude == Spec => []MutualExclusion
<1>1. LockInv => MutualExclusion
  BY DEF LockInv, MutexInv, MutualExclusion
<1> QED
  BY <1>1, LockInvAlways, PTL

-----------------------------------------------------------------------------
(* What is delivered, whoever wakes up and however many consumers there are *)

\* Of the elements of p, s holds the first n, each once and in their order.
FirstInOrder(s, p, n) ==
    /\ {s[i] : i \in DOMAIN s} \cap ItemsOf(p) = {p} \X (1..n)
    /\ \A i, j \in DOMAIN s :
          i < j /\ s[i] \in ItemsOf(p) /\ s[j] \in ItemsOf(p) => s[i][2] < s[j][2]

Delivery == Item \cup {Garbage}

\* An element that is put behind a sequence is the only one that is new.
LEMMA AppendElement ==
  ASSUME NEW s \in Seq(Delivery), NEW x \in Delivery
  PROVE  /\ Append(s, x) \in Seq(Delivery)
         /\ DOMAIN s = 1..Len(s) /\ Len(s) \in Nat
         /\ DOMAIN Append(s, x) = 1..(Len(s) + 1)
         /\ \A i \in 1..Len(s) : Append(s, x)[i] = s[i]
         /\ Append(s, x)[Len(s) + 1] = x
  OBVIOUS

\* An element of another producer, or garbage, does not matter to p.
LEMMA OtherElementKeepsOrder ==
  ASSUME NEW s \in Seq(Delivery), NEW p, NEW n, FirstInOrder(s, p, n),
         NEW x \in Delivery, x \notin ItemsOf(p)
  PROVE  FirstInOrder(Append(s, x), p, n)
<1> DEFINE t == Append(s, x)
<1>1. /\ DOMAIN s = 1..Len(s) /\ Len(s) \in Nat /\ DOMAIN t = 1..(Len(s) + 1)
      /\ \A i \in 1..Len(s) : t[i] = s[i]
      /\ t[Len(s) + 1] = x
  BY AppendElement
<1> HIDE DEF t
<1>2. \A i \in DOMAIN t : t[i] \in ItemsOf(p) => i \in DOMAIN s /\ t[i] = s[i]
  BY <1>1
<1>3. {t[i] : i \in DOMAIN t} \cap ItemsOf(p) = {s[i] : i \in DOMAIN s} \cap ItemsOf(p)
  BY <1>1, <1>2
<1>4. FirstInOrder(t, p, n)
  BY <1>2, <1>3 DEF FirstInOrder
<1> QED
  BY <1>4 DEF t

\* The next element of p goes behind all others of p.
LEMMA NextElementKeepsOrder ==
  ASSUME NEW s \in Seq(Delivery), NEW p \in Producers, NEW n \in Nat, n < ItemsPerProducer,
         FirstInOrder(s, p, n)
  PROVE  FirstInOrder(Append(s, <<p, n + 1>>), p, n + 1)
<1> DEFINE x == <<p, n + 1>>
           t == Append(s, x)
<1>1. ItemsPerProducer \in Nat /\ x \in ItemsOf(p) /\ x \in Delivery
  BY QueueAssumption DEF ItemsOf, Delivery, Item
<1>2. /\ DOMAIN s = 1..Len(s) /\ Len(s) \in Nat /\ DOMAIN t = 1..(Len(s) + 1)
      /\ \A i \in 1..Len(s) : t[i] = s[i]
      /\ t[Len(s) + 1] = x
  BY <1>1, AppendElement
<1> HIDE DEF t
<1>3. {t[i] : i \in DOMAIN t} = {s[i] : i \in DOMAIN s} \cup {x}
  <2> HIDE DEF x
  <2>1. Len(s) + 1 \in DOMAIN t /\ \A i \in DOMAIN t : i \in DOMAIN s \/ i = Len(s) + 1
    BY <1>2
  <2>2. \A i \in DOMAIN s : i \in DOMAIN t /\ t[i] = s[i]
    BY <1>2
  <2> QED
    BY <1>2, <2>1, <2>2
<1>4. {p} \X (1..(n + 1)) = ({p} \X (1..n)) \cup {x}
  OBVIOUS
<1>5. {t[i] : i \in DOMAIN t} \cap ItemsOf(p) = {p} \X (1..(n + 1))
  BY <1>1, <1>3, <1>4 DEF FirstInOrder
<1>6. ASSUME NEW i \in DOMAIN t, NEW j \in DOMAIN t, i < j, t[i] \in ItemsOf(p), t[j] \in ItemsOf(p)
      PROVE  t[i][2] < t[j][2]
  <2>1. i \in DOMAIN s /\ t[i] = s[i]
    BY <1>2, <1>6
  <2>2. CASE j \in DOMAIN s
    BY <1>2, <1>6, <2>1, <2>2 DEF FirstInOrder
  <2>3. CASE j = Len(s) + 1
    <3>1. t[i] \in {p} \X (1..n)
      BY <1>6, <2>1 DEF FirstInOrder
    <3>2. t[j][2] = n + 1
      BY <1>2, <2>3
    <3> QED
      BY <3>1, <3>2
  <2> QED
    BY <1>2, <2>2, <2>3
<1>7. FirstInOrder(t, p, n + 1)
  BY <1>5, <1>6 DEF FirstInOrder
<1> QED
  BY <1>7 DEF t

\* Taking the front of the queue leaves what has passed as it was.
LEMMA TakePasses ==
  ASSUME NEW r \in Seq(Delivery), NEW q \in Seq(Delivery), q # <<>>
  PROVE  Append(r, Head(q)) \o Tail(q) = r \o q
<1>1. Head(q) \in Delivery /\ Tail(q) \in Seq(Delivery) /\ <<Head(q)>> \in Seq(Delivery)
  BY HeadTailProperties
<1>2. q = <<Head(q)>> \o Tail(q)
  BY <1>1, SMT
<1>3. Append(r, Head(q)) = r \o <<Head(q)>>
  BY <1>1, SMT
<1>4. (r \o <<Head(q)>>) \o Tail(q) = r \o (<<Head(q)>> \o Tail(q))
  BY <1>1, ConcatAssociative
<1> QED
  BY <1>2, <1>3, <1>4

\* What is pushed has passed last.
LEMMA PushPasses ==
  ASSUME NEW r \in Seq(Delivery), NEW q \in Seq(Delivery), NEW x \in Delivery
  PROVE  r \o Append(q, x) = Append(r \o q, x)
  BY SMT

LEMMA PassedTyped ==
  ASSUME TypeOK
  PROVE  received \in Seq(Delivery) /\ queue \in Seq(Delivery) /\ Passed \in Seq(Delivery)
<1>1. queue \in Seq(Delivery) /\ received \in Seq(Delivery)
  BY SeqMonotonic DEF TypeOK, Delivery
<1> QED
  BY <1>1, ConcatProperties DEF Passed

LEMMA OrderIs ==
  ExactlyOnceInOrder <=> \A p \in Producers : FirstInOrder(Passed, p, sent[p])
  BY DEF ExactlyOnceInOrder, FirstInOrder

LEMMA OrderNext ==
  ASSUME LockInv, ExactlyOnceInOrder, [Next]_vars
  PROVE  ExactlyOnceInOrder'
<1> USE QueueAssumption
<1>1. received \in Seq(Delivery) /\ queue \in Seq(Delivery) /\ Passed \in Seq(Delivery)
  BY PassedTyped DEF LockInv
<1>2. \A p \in Producers : FirstInOrder(Passed, p, sent[p])
  BY OrderIs
<1>3. ASSUME UNCHANGED <<queue, sent, received>> PROVE ExactlyOnceInOrder'
  BY <1>3 DEF ExactlyOnceInOrder, Passed
<1>4. ASSUME NEW p \in Producers, Push(p) PROVE ExactlyOnceInOrder'
  <2> DEFINE x == <<p, sent[p] + 1>>
  <2>1. sent \in [Producers -> 0..ItemsPerProducer] /\ sent[p] \in Nat /\ sent[p] < ItemsPerProducer
    BY <1>4 DEF Push, LockInv, PushBound, TypeOK
  <2>2. x \in Delivery
    BY <2>1 DEF Delivery, Item
  <2>3. Passed' = Append(Passed, x)
    BY <1>1, <1>4, <2>2, PushPasses DEF Push, Passed
  <2>4. ASSUME NEW o \in Producers PROVE FirstInOrder(Passed', o, sent'[o])
    <3>1. CASE o = p
      <4>1. sent'[p] = sent[p] + 1
        BY <1>4, <2>1 DEF Push
      <4> QED
        BY <1>1, <1>2, <2>1, <2>3, <3>1, <4>1, NextElementKeepsOrder
    <3>2. CASE o # p
      <4>1. sent'[o] = sent[o]
        BY <1>4, <2>1, <3>2 DEF Push
      <4>2. x \notin ItemsOf(o)
        BY <3>2 DEF ItemsOf
      <4> QED
        BY <1>1, <1>2, <2>2, <2>3, <4>1, <4>2, OtherElementKeepsOrder
    <3> QED
      BY <3>1, <3>2
  <2> QED
    BY <2>4 DEF ExactlyOnceInOrder, FirstInOrder
<1>5. ASSUME NEW c \in Consumers, Take(c) PROVE ExactlyOnceInOrder'
  <2>1. Passed' = Passed
    BY <1>1, <1>5, TakePasses DEF Take, Passed
  <2> QED
    BY <1>5, <2>1 DEF Take, ExactlyOnceInOrder
<1>6. ASSUME NEW c \in Consumers, TakeFromEmpty(c) PROVE ExactlyOnceInOrder'
  <2>1. Garbage \in Delivery /\ received' = Append(received, Garbage) /\ sent' = sent
    BY <1>6 DEF TakeFromEmpty, Delivery
  <2>2. queue = <<>> /\ queue' = <<>>
    BY <1>6 DEF TakeFromEmpty
  <2>3. Append(received, Garbage) \in Seq(Delivery)
    BY <1>1, <2>1, AppendElement
  <2>4. Passed = received /\ Passed' = Append(received, Garbage)
    BY <1>1, <2>1, <2>2, <2>3, ConcatEmptySeq DEF Passed
  <2>5. ASSUME NEW o \in Producers PROVE FirstInOrder(Passed', o, sent'[o])
    <3>1. Garbage \notin ItemsOf(o)
      BY DEF ItemsOf, Item
    <3> QED
      BY <1>1, <1>2, <2>1, <2>4, <3>1, OtherElementKeepsOrder
  <2> QED
    BY <2>5 DEF ExactlyOnceInOrder, FirstInOrder
<1>7. ASSUME NEW p \in Producers, EnqueueLock(p) \/ NotifyOne(p) \/ Release(p)
      PROVE  UNCHANGED <<queue, sent, received>>
  BY <1>7 DEF EnqueueLock, NotifyOne, Release, Acquire
<1>8. ASSUME NEW c \in Consumers,
             DequeueLock(c) \/ SkipWait(c) \/ Wait(c) \/ SpuriousWake(c)
               \/ WaitReturns(c) \/ Release(c)
      PROVE  UNCHANGED <<queue, sent, received>>
  BY <1>8 DEF DequeueLock, SkipWait, Wait, SpuriousWake, WaitReturns, Release, Acquire
<1>9. CASE UNCHANGED vars
  BY <1>3, <1>9 DEF vars
<1> QED
  BY <1>3, <1>4, <1>5, <1>6, <1>7, <1>8, <1>9 DEF Next, Enqueue, Dequeue, Quiescent, Undefined

\* Whatever wakes the threads that wait, and however many consumers there are, each
\* element is passed on once, and those of one producer in the order of its calls.
THEOREM NoElementLostOrDuplicated == Spec => []ExactlyOnceInOrder
<1>1. ASSUME Init PROVE ExactlyOnceInOrder
  <2>1. Passed = <<>>
    BY <1>1, ConcatEmptySeq DEF Init, Passed
  <2>2. DOMAIN Passed = {}
    BY <2>1
  <2>3. ASSUME NEW p \in Producers PROVE FirstInOrder(Passed, p, sent[p])
    <3>1. sent[p] = 0
      BY <1>1 DEF Init
    <3>2. {p} \X (1..0) = {}
      OBVIOUS
    <3> QED
      BY <2>2, <3>1, <3>2 DEF FirstInOrder
  <2> QED
    BY <2>3 DEF ExactlyOnceInOrder, FirstInOrder
<1> QED
  BY <1>1, OrderNext, LockInvAlways, PTL DEF Spec

-----------------------------------------------------------------------------
(* One consumer, and wait() returns only when it was notified *)

\* The only thread that calls dequeue().
SingleConsumer == \E c : Consumers = {c}

\* Who was woken, and who is about to wake, knows of an element; an element
\* that the waiting consumer does not know of is about to be announced.
WaitInv ==
    /\ \A c \in Consumers : pc[c] \in {"woken", "take"} => queue # <<>>
    /\ \A p \in Producers : pc[p] = "notify" => queue # <<>>
    /\ \A c \in Consumers :
          pc[c] = "waiting" /\ queue # <<>> => \E p \in Producers : pc[p] = "notify"

LEMMA WaitInvInit == Init => WaitInv
  BY DEF Init, WaitInv, Threads

LEMMA WaitInvNext ==
  ASSUME SingleConsumer, ~SpuriousWakeups, LockInv, WaitInv, [Next]_vars
  PROVE  WaitInv'
<1> USE QueueAssumption
<1>1. pc \in [Threads -> InCritical \cup Outside] /\ queue \in Seq(Item)
  BY DEF LockInv, TypeOK
<1>2. PICK c : Consumers = {c}
  BY DEF SingleConsumer
<1>3. c \in Threads /\ c \notin Producers
  BY <1>2 DEF Threads
<1>4. ASSUME NEW p \in Producers, EnqueueLock(p) \/ Release(p) PROVE WaitInv'
  <2>1. /\ pc[p] \in {"idle", "unlock"} /\ p \in Threads /\ queue' = queue
        /\ \E to \in {"push", "idle"} : pc' = [pc EXCEPT ![p] = to]
    BY <1>4 DEF EnqueueLock, Release, Acquire, Goto, Threads
  <2> QED
    BY <1>1, <1>2, <1>3, <2>1 DEF WaitInv, Threads
<1>5. ASSUME NEW p \in Producers, Push(p) PROVE WaitInv'
  <2>1. /\ pc' = [pc EXCEPT ![p] = "notify"] /\ p \in Threads
        /\ queue' = Append(queue, <<p, sent[p] + 1>>)
    BY <1>5 DEF Push, Goto, Threads
  <2>2. pc'[p] = "notify" /\ queue' # <<>>
    BY <1>1, <2>1
  <2> QED
    BY <2>2 DEF WaitInv
<1>6. ASSUME NEW p \in Producers, NotifyOne(p) PROVE WaitInv'
  <2>1. queue # <<>> /\ queue' = queue /\ p \in Threads
    BY <1>6 DEF NotifyOne, WaitInv, Threads
  <2>2. CASE Waiters = {} /\ pc' = [pc EXCEPT ![p] = "unlock"]
    BY <1>1, <1>2, <1>3, <2>1, <2>2 DEF WaitInv, Waiters, Threads
  <2>3. CASE pc' = [pc EXCEPT ![c] = "woken", ![p] = "unlock"]
    BY <1>1, <1>2, <1>3, <2>1, <2>3 DEF WaitInv, Threads
  <2> QED
    BY <1>2, <1>6, <2>2, <2>3 DEF NotifyOne, Goto, Waiters
<1>7. ASSUME DequeueLock(c) \/ SkipWait(c) \/ Wait(c) \/ WaitReturns(c) \/ Release(c)
      PROVE WaitInv'
  <2>1. /\ queue' = queue
        /\ \/ pc' = [pc EXCEPT ![c] = "test"]
           \/ pc' = [pc EXCEPT ![c] = "idle"]
           \/ pc' = [pc EXCEPT ![c] = "take"] /\ queue # <<>>
           \/ pc' = [pc EXCEPT ![c] = "waiting"] /\ queue = <<>>
    BY <1>2, <1>7 DEF DequeueLock, SkipWait, Wait, WaitReturns, Release, Acquire, Goto, WaitInv
  <2> QED
    BY <1>1, <1>2, <1>3, <2>1 DEF WaitInv, Threads
<1>8. ASSUME Take(c) \/ TakeFromEmpty(c) PROVE WaitInv'
  <2>1. pc[c] = "take" /\ pc' = [pc EXCEPT ![c] = "unlock"]
    BY <1>8 DEF Take, TakeFromEmpty, Goto
  <2>2. \A p \in Producers : pc'[p] # "notify"
    BY <1>1, <1>3, <2>1 DEF LockInv, MutexInv, InCritical, Threads
  <2>3. \A d \in Consumers : pc'[d] = "unlock"
    BY <1>1, <1>2, <1>3, <2>1
  <2> QED
    BY <2>2, <2>3 DEF WaitInv
<1>9. CASE UNCHANGED vars
  BY <1>9 DEF vars, WaitInv
<1> QED
  BY <1>2, <1>4, <1>5, <1>6, <1>7, <1>8, <1>9
     DEF Next, Enqueue, Dequeue, Quiescent, Undefined, SpuriousWake

LEMMA WaitInvAlways ==
  ASSUME SingleConsumer, ~SpuriousWakeups PROVE Spec => [](LockInv /\ WaitInv)
<1>1. LockInv /\ WaitInv /\ [Next]_vars => (LockInv /\ WaitInv)'
  BY LockInvNext, WaitInvNext
<1> QED
  BY <1>1, LockInvInit, WaitInvInit, PTL DEF Spec

\* The test with "if" is enough for ThreadPool's use of the queue: dequeue()
\* never calls front() on an empty queue, and never sleeps through an element.
THEOREM DequeueFindsAnElement ==
  ASSUME SingleConsumer, ~SpuriousWakeups
  PROVE  Spec => [](TakesOnlyFromNonEmpty /\ NoLostWakeup)
<1>1. WaitInv => TakesOnlyFromNonEmpty /\ NoLostWakeup
  BY DEF WaitInv, TakesOnlyFromNonEmpty, NoLostWakeup, Waiters, SingleConsumer
<1> QED
  BY <1>1, WaitInvAlways, PTL

\* Used that way, the queue does what BlockingFifo says, safety part: every
\* step of the locks, waits and wake-ups is a Put, a Get or invisible.
THEOREM RefinesBlockingFifo ==
  ASSUME SingleConsumer, ~SpuriousWakeups
  PROVE  Spec => Fifo!FifoInit /\ [][Fifo!FifoNext]_(Fifo!fifoVars)
<1>1. Init => Fifo!FifoInit
  BY DEF Init, Fifo!FifoInit
<1>2. ASSUME LockInv, WaitInv, [Next]_vars PROVE [Fifo!FifoNext]_(Fifo!fifoVars)
  <2>1. ASSUME NEW p \in Producers, Push(p) PROVE Fifo!FifoNext
    <3>1. <<p, sent[p] + 1>> \in Item
      BY <1>2, <2>1, QueueAssumption
         DEF Push, LockInv, TypeOK, PushBound, Item
    <3>2. Fifo!Put(<<p, sent[p] + 1>>)
      BY <2>1 DEF Push, Fifo!Put
    <3> QED
      BY <3>1, <3>2 DEF Fifo!FifoNext
  <2>2. ASSUME NEW c \in Consumers, Take(c) PROVE Fifo!FifoNext
    BY <2>2 DEF Take, Fifo!FifoNext, Fifo!Get
  <2>3. ASSUME NEW c \in Consumers, TakeFromEmpty(c) PROVE FALSE
    BY <1>2, <2>3 DEF TakeFromEmpty, WaitInv
  <2>4. ASSUME NEW p \in Producers, EnqueueLock(p) \/ NotifyOne(p) \/ Release(p)
        PROVE  UNCHANGED Fifo!fifoVars
    BY <2>4 DEF EnqueueLock, NotifyOne, Release, Acquire, Fifo!fifoVars
  <2>5. ASSUME NEW c \in Consumers,
               DequeueLock(c) \/ SkipWait(c) \/ Wait(c) \/ SpuriousWake(c)
                 \/ WaitReturns(c) \/ Release(c)
        PROVE  UNCHANGED Fifo!fifoVars
    BY <2>5 DEF DequeueLock, SkipWait, Wait, SpuriousWake, WaitReturns, Release,
                Acquire, Fifo!fifoVars
  <2>6. CASE UNCHANGED vars
    BY <2>6 DEF vars, Fifo!fifoVars
  <2> QED
    BY <1>2, <2>1, <2>2, <2>3, <2>4, <2>5, <2>6
       DEF Next, Enqueue, Dequeue, Quiescent, Undefined
<1> QED
  BY <1>1, <1>2, WaitInvAlways, PTL DEF Spec
=============================================================================
