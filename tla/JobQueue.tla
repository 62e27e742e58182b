------------------------------ MODULE JobQueue ------------------------------
(***************************************************************************)
(* support-lib/cpp/JobQueueImpl.cpp: an unbounded queue of functions       *)
(* behind one mutex and one condition variable.  Any number of threads may *)
(* be inside poll(), interruptPoll() and enqueue() at once; pc[t] says how *)
(* far thread t is in the method it called.  "idle" is code outside the    *)
(* queue.  std::condition_variable::wait(lock, pred) is modelled by what   *)
(* it does: test, release and park in one step, wake (notified or          *)
(* spuriously), take the mutex again, test again.                          *)
(***************************************************************************)
EXTENDS Naturals, Sequences, FiniteSets

CONSTANTS
    Threads,        \* the threads that use the queue
    Jobs,           \* the functions they enqueue, each once
    NoThread,       \* owner of a free mutex
    NoJob,          \* an empty local variable
    MaxSpurious,    \* bound: spurious wake-ups in one behaviour
    MaxInterrupts   \* bound: calls of interruptPoll() in one behaviour

ASSUME JobQueueAssumption ==
    /\ IsFiniteSet(Threads)
    /\ NoThread \notin Threads
    /\ NoJob \notin Jobs
    /\ MaxSpurious \in Nat
    /\ MaxInterrupts \in Nat

VARIABLES
    mMutex,      \* the thread that holds mMutex, or NoThread
    mQueue,      \* the deque of functions
    pc,          \* [Threads -> Location]
    func,        \* the argument of enqueue(), or poll()'s local func
    unused,      \* jobs nobody has enqueued yet
    delivered,   \* history: what poll() popped, in order
    spurious,    \* spurious wake-ups so far
    interrupts   \* calls of interruptPoll() so far

queueVars == <<mMutex, mQueue, pc, func, unused, delivered, spurious, interrupts>>

Location == {"idle", "pollLock", "pollTest", "pollWait", "pollRelock", "pollPop",
             "pollReturn", "enqueueLock", "enqueueNotify", "interruptLock"}

\* The locations at which a thread owns mMutex between two of its steps.
InCritical == {"pollTest", "pollPop", "enqueueNotify"}

\* Inside poll(), with neither a job in hand nor parked on mCondition: this thread
\* is going to look at the deque again without anybody's help.
WillLook == {"pollLock", "pollTest", "pollRelock", "pollPop"}

Parked == {t \in Threads : pc[t] = "pollWait"}

\* The threads that will see a queued job, or wake one that will.
Attending == {t \in Threads : pc[t] \in WillLook \cup {"enqueueNotify"}}
InPoll(t) == pc[t] \in WillLook \cup {"pollWait"}

Goto(t, l) == pc' = [pc EXCEPT ![t] = l]

QueueInit ==
    /\ mMutex = NoThread
    /\ mQueue = <<>>
    /\ pc = [t \in Threads |-> "idle"]
    /\ func = [t \in Threads |-> NoJob]
    /\ unused = Jobs
    /\ delivered = <<>>
    /\ spurious = 0
    /\ interrupts = 0

-----------------------------------------------------------------------------
(* poll() *)

PollCall(t) ==
    /\ pc[t] = "idle"
    /\ Goto(t, "pollLock")
    /\ UNCHANGED <<mMutex, mQueue, func, unused, delivered, spurious, interrupts>>

\* Faulty variant: poll() without its unique_lock.
PollLock_Unlocked(t) ==
    /\ pc[t] \in {"pollLock", "pollRelock"}
    /\ mMutex' = t
    /\ Goto(t, "pollTest")
    /\ UNCHANGED <<mQueue, func, unused, delivered, spurious, interrupts>>

\* The constructor of unique_lock, and the lock that wait() takes when it wakes.
PollLock(t) ==
    /\ pc[t] \in {"pollLock", "pollRelock"}
    /\ mMutex = NoThread
    /\ mMutex' = t
    /\ Goto(t, "pollTest")
    /\ UNCHANGED <<mQueue, func, unused, delivered, spurious, interrupts>>

\* The predicate is false: release the mutex and park, atomically.
PollPark(t) ==
    /\ pc[t] = "pollTest"
    /\ mQueue = <<>>
    /\ mMutex' = NoThread
    /\ Goto(t, "pollWait")
    /\ UNCHANGED <<mQueue, func, unused, delivered, spurious, interrupts>>

\* Faulty variant: the front is never copied.
PollFront_NoCopy(t) ==
    /\ pc[t] = "pollTest"
    /\ mQueue # <<>>
    /\ Goto(t, "pollPop")
    /\ UNCHANGED <<mMutex, mQueue, func, unused, delivered, spurious, interrupts>>

\* The predicate is true: wait() returns and the front is copied.
PollFront(t) ==
    /\ pc[t] = "pollTest"
    /\ mQueue # <<>>
    /\ func' = [func EXCEPT ![t] = Head(mQueue)]
    /\ Goto(t, "pollPop")
    /\ UNCHANGED <<mMutex, mQueue, unused, delivered, spurious, interrupts>>

\* Faulty variant: pop_back().
PollPop_Back(t) ==
    /\ pc[t] = "pollPop"
    /\ mQueue' = SubSeq(mQueue, 1, Len(mQueue) - 1)
    /\ delivered' = Append(delivered, func[t])
    /\ mMutex' = NoThread
    /\ Goto(t, "pollReturn")
    /\ UNCHANGED <<func, unused, spurious, interrupts>>

\* pop_front(), wrap the copy in a JobImpl, unlock.
PollPop(t) ==
    /\ pc[t] = "pollPop"
    /\ mQueue' = Tail(mQueue)
    /\ delivered' = Append(delivered, func[t])
    /\ mMutex' = NoThread
    /\ Goto(t, "pollReturn")
    /\ UNCHANGED <<func, unused, spurious, interrupts>>

\* The caller receives the job; poll()'s locals are gone.
PollReturn(t) ==
    /\ pc[t] = "pollReturn"
    /\ func' = [func EXCEPT ![t] = NoJob]
    /\ Goto(t, "idle")
    /\ UNCHANGED <<mMutex, mQueue, unused, delivered, spurious, interrupts>>

SpuriousWakeup(t) ==
    /\ pc[t] = "pollWait"
    /\ spurious < MaxSpurious
    /\ spurious' = spurious + 1
    /\ Goto(t, "pollRelock")
    /\ UNCHANGED <<mMutex, mQueue, func, unused, delivered, interrupts>>

-----------------------------------------------------------------------------
(* notify_one(), called by thread t, which goes on to location l. *)

NotifyOne(t, l) ==
    \/ /\ Parked = {}
       /\ Goto(t, l)
    \/ \E w \in Parked : pc' = [pc EXCEPT ![t] = l, ![w] = "pollRelock"]

-----------------------------------------------------------------------------
(* interruptPoll() *)

InterruptCall(t) ==
    /\ pc[t] = "idle"
    /\ interrupts < MaxInterrupts
    /\ interrupts' = interrupts + 1
    /\ Goto(t, "interruptLock")
    /\ UNCHANGED <<mMutex, mQueue, func, unused, delivered, spurious>>

\* Lock, notify, unlock: nothing else is touched, in particular no flag is set.
InterruptPoll(t) ==
    /\ pc[t] = "interruptLock"
    /\ mMutex = NoThread
    /\ NotifyOne(t, "idle")
    /\ UNCHANGED <<mMutex, mQueue, func, unused, delivered, spurious, interrupts>>

-----------------------------------------------------------------------------
(* enqueue() *)

EnqueueCall(t, j) ==
    /\ pc[t] = "idle"
    /\ j \in unused
    /\ unused' = unused \ {j}
    /\ func' = [func EXCEPT ![t] = j]
    /\ Goto(t, "enqueueLock")
    /\ UNCHANGED <<mMutex, mQueue, delivered, spurious, interrupts>>

EnqueuePush(t) ==
    /\ pc[t] = "enqueueLock"
    /\ mMutex = NoThread
    /\ mMutex' = t
    /\ mQueue' = Append(mQueue, func[t])
    /\ Goto(t, "enqueueNotify")
    /\ UNCHANGED <<func, unused, delivered, spurious, interrupts>>

\* Faulty variants: no notification unless the deque was empty, or none at all.
EnqueueNotify_IfWasEmpty(t) ==
    /\ pc[t] = "enqueueNotify"
    /\ IF Len(mQueue) = 1 THEN NotifyOne(t, "idle") ELSE Goto(t, "idle")
    /\ mMutex' = NoThread
    /\ func' = [func EXCEPT ![t] = NoJob]
    /\ UNCHANGED <<mQueue, unused, delivered, spurious, interrupts>>

EnqueueNotify_Silent(t) ==
    /\ pc[t] = "enqueueNotify"
    /\ Goto(t, "idle")
    /\ mMutex' = NoThread
    /\ func' = [func EXCEPT ![t] = NoJob]
    /\ UNCHANGED <<mQueue, unused, delivered, spurious, interrupts>>

\* notify_one() while the mutex is still held, then unlock.
EnqueueNotify(t) ==
    /\ pc[t] = "enqueueNotify"
    /\ NotifyOne(t, "idle")
    /\ mMutex' = NoThread
    /\ func' = [func EXCEPT ![t] = NoJob]
    /\ UNCHANGED <<mQueue, unused, delivered, spurious, interrupts>>

-----------------------------------------------------------------------------
\* What t does by itself once it is inside a method.
QueueStep(t) ==
    \/ PollLock(t) \/ PollPark(t) \/ PollFront(t) \/ PollPop(t)
    \/ InterruptPoll(t)
    \/ EnqueuePush(t) \/ EnqueueNotify(t)

\* What its caller decides.
QueueCall(t) ==
    \/ PollCall(t) \/ InterruptCall(t)
    \/ \E j \in Jobs : EnqueueCall(t, j)

QueueNext ==
    \E t \in Threads :
        QueueStep(t) \/ PollReturn(t) \/ QueueCall(t) \/ SpuriousWakeup(t)

QueueSpec == QueueInit /\ [][QueueNext]_queueVars

\* A thread inside a method is scheduled again and again.  Nothing makes a caller
\* call, nothing makes a wake-up spurious, and nothing makes the mutex fair:
\* a thread gets it only because the others stop contending for it.
QueueFairSpec ==
    QueueSpec /\ \A t \in Threads : WF_queueVars(QueueStep(t) \/ PollReturn(t))

-----------------------------------------------------------------------------
\* Every variable has its type.
QueueTypeOK ==
    /\ mMutex \in Threads \cup {NoThread}
    /\ mQueue \in Seq(Jobs)
    /\ pc \in [Threads -> Location]
    /\ func \in [Threads -> Jobs \cup {NoJob}]
    /\ unused \in SUBSET Jobs
    /\ delivered \in Seq(Jobs)
    /\ spurious \in 0..MaxSpurious
    /\ interrupts \in 0..MaxInterrupts

\* No wake-up is lost (JobQueueImpl.cpp:17, 29, 35): as long as a thread is parked
\* on mCondition, every queued job has a thread of its own that is on its way to
\* look at the deque, or the enqueue() that has yet to send its notification.  A
\* notification swallowed by the wrong thread, or one not sent because the deque
\* was not empty, would break this.
NoLostWakeup == Parked # {} => Len(mQueue) <= Cardinality(Attending)

\* poll() never runs off the end of the deque: a thread that has copied the front
\* will pop that very element (lines 19 and 20).
PopsWhatItCopied ==
    \A t \in Threads :
        pc[t] = "pollPop" => mQueue # <<>> /\ func[t] = Head(mQueue)

\* The queue promises what FifoQueue.tla says: each enqueued function comes out of
\* exactly one poll(), in the order of the push_backs, whatever the interleaving.
Fifo == INSTANCE FifoQueue WITH pending <- mQueue, delivered <- delivered
ImplementsFifo == Fifo!Spec

\* While a thread is inside poll() a non-empty queue moves: whoever is parked is not
\* left there with a job to take.
Delivering ==
    \A n \in 0..Cardinality(Jobs) :
        (Len(delivered) = n /\ mQueue # <<>> /\ \E t \in Threads : InPoll(t))
            ~> (Len(delivered) > n)
=============================================================================
