---------------------------- MODULE JobDispatcher ----------------------------
(***************************************************************************)
(* support-lib/java/.../JobDispatcherImpl.java on top of JobQueue.tla, and *)
(* its twin support-lib/objc/RVJobDispatcherImpl.m.  Each dispatcher has a *)
(* thread of its own that loops over mQueue.poll(); several dispatchers    *)
(* may share one queue.  start() and quit() are synchronized, so the       *)
(* object's monitor is held while quit() goes into the queue's mutex.  A   *)
(* job is native code: while it runs, its dispatcher thread may itself     *)
(* enqueue, start or quit; it ends normally or with an exception, which    *)
(* run() does not catch.                                                   *)
(*                                                                         *)
(* The twins differ in two ways, for which the constant Java stands: in    *)
(* Java the loop reads mDestroyed inside the monitor and an exception ends *)
(* its thread; in Objective-C it reads an atomic property and an exception *)
(* ends the process, so there is nothing more to model.                    *)
(***************************************************************************)
EXTENDS JobQueue

CONSTANTS
    Dispatchers,    \* dispatcher objects, and the threads they own
    Callers,        \* the application's threads
    Java,           \* the Java dispatcher, or else the Objective-C one
    MaxCalls        \* bound: calls of start() and quit() in one behaviour

ASSUME DispatcherAssumption ==
    /\ Threads = Dispatchers \cup Callers
    /\ Dispatchers \cap Callers = {}
    /\ Java \in BOOLEAN
    /\ MaxCalls \in Nat
    /\ MaxCalls <= MaxInterrupts   \* the bound on interruptPoll() never blocks quit()

VARIABLES
    mDestroyed,     \* [Dispatchers -> BOOLEAN]
    monitor,        \* [Dispatchers -> the thread that is synchronized on it]
    loop,           \* [Dispatchers -> where its thread is in run()]
    method,         \* [Threads -> the dispatcher method the thread is in]
    target,         \* [Threads -> the dispatcher it called it on, or NoThread]
    calls,          \* calls of start() and quit() so far
    ran             \* history: <<dispatcher, job>> in the order jobs began

dispatcherVars == <<mDestroyed, monitor, loop, method, target, calls, ran>>
vars == <<queueVars, dispatcherVars>>

\* "new" is a thread not started, "exited" and "dead" are terminated ones.
LoopState == {"new", "test", "polling", "running", "exited", "dead"}
Method == {"none", "start", "quit", "interrupting"}

Init ==
    /\ QueueInit
    /\ mDestroyed = [d \in Dispatchers |-> FALSE]
    /\ monitor = [d \in Dispatchers |-> NoThread]
    /\ loop = [d \in Dispatchers |-> "new"]
    /\ method = [t \in Threads |-> "none"]
    /\ target = [t \in Threads |-> NoThread]
    /\ calls = 0
    /\ ran = <<>>

\* Application code runs on t: on a caller always, on a dispatcher inside a job.
InClientCode(t) ==
    /\ pc[t] = "idle"
    /\ method[t] = "none"
    /\ t \in Dispatchers => loop[t] = "running"

SetLoop(d, l) == loop' = [loop EXCEPT ![d] = l]

-----------------------------------------------------------------------------
(* start() and quit() *)

Call(t, d, m) ==
    /\ InClientCode(t)
    /\ calls < MaxCalls
    /\ calls' = calls + 1
    /\ method' = [method EXCEPT ![t] = m]
    /\ target' = [target EXCEPT ![t] = d]
    /\ UNCHANGED <<queueVars, mDestroyed, monitor, loop, ran>>

Return(t) ==
    /\ method' = [method EXCEPT ![t] = "none"]
    /\ target' = [target EXCEPT ![t] = NoThread]

\* Enter the monitor, test mDestroyed, Thread.start(), leave the monitor.  Starting a
\* thread twice throws and changes nothing.
Start(t) ==
    LET d == target[t] IN
    /\ method[t] = "start"
    /\ monitor[d] = NoThread
    /\ IF ~mDestroyed[d] /\ loop[d] = "new"
         THEN SetLoop(d, "test")
         ELSE UNCHANGED loop
    /\ Return(t)
    /\ UNCHANGED <<queueVars, mDestroyed, monitor, calls, ran>>

\* quit(): enter the monitor and set mDestroyed ...
QuitEnter(t) ==
    LET d == target[t] IN
    /\ method[t] = "quit"
    /\ monitor[d] = NoThread
    /\ monitor' = [monitor EXCEPT ![d] = t]
    /\ mDestroyed' = [mDestroyed EXCEPT ![d] = TRUE]
    /\ method' = [method EXCEPT ![t] = "interrupting"]
    /\ InterruptCall(t)
    /\ UNCHANGED <<loop, target, calls, ran>>

\* ... interruptPoll() with the monitor held is JobQueue's InterruptPoll; then leave.
QuitExit(t) ==
    /\ method[t] = "interrupting"
    /\ pc[t] = "idle"
    /\ monitor' = [monitor EXCEPT ![target[t]] = NoThread]
    /\ Return(t)
    /\ UNCHANGED <<queueVars, mDestroyed, loop, calls, ran>>

-----------------------------------------------------------------------------
(* run() *)

\* Faulty variant: isDestroyed() keeps the monitor.
IsDestroyed_KeepsMonitor(d) ==
    /\ loop[d] = "test"
    /\ monitor[d] = NoThread
    /\ monitor' = [monitor EXCEPT ![d] = d]
    /\ SetLoop(d, IF mDestroyed[d] THEN "exited" ELSE "polling")
    /\ UNCHANGED <<queueVars, mDestroyed, method, target, calls, ran>>

\* The condition of the outer loop, in Java evaluated inside the monitor.
IsDestroyed(d) ==
    /\ loop[d] = "test"
    /\ Java => monitor[d] = NoThread
    /\ SetLoop(d, IF mDestroyed[d] THEN "exited" ELSE "polling")
    /\ UNCHANGED <<queueVars, mDestroyed, monitor, method, target, calls, ran>>

\* The condition of the inner loop calls poll(), which never answers null ...
Poll(d) ==
    /\ loop[d] = "polling"
    /\ PollCall(d)
    /\ UNCHANGED dispatcherVars

\* Faulty variant: the thread looks at a job it was handed and runs the next one.
RunJob_Twice(d) ==
    /\ loop[d] = "polling"
    /\ PollReturn(d)
    /\ SetLoop(d, "running")
    /\ ran' = ran \o <<<<d, func[d]>>, <<d, func[d]>>>>
    /\ UNCHANGED <<mDestroyed, monitor, method, target, calls>>

\* ... so its body runs: job.run() begins.
RunJob(d) ==
    /\ loop[d] = "polling"
    /\ PollReturn(d)
    /\ SetLoop(d, "running")
    /\ ran' = Append(ran, <<d, func[d]>>)
    /\ UNCHANGED <<mDestroyed, monitor, method, target, calls>>

\* Faulty variant: the thread leaves the loop after a job.
JobReturns_Leaves(d) ==
    /\ loop[d] = "running"
    /\ InClientCode(d)
    /\ SetLoop(d, "exited")
    /\ UNCHANGED <<queueVars, mDestroyed, monitor, method, target, calls, ran>>

\* The job is over: the inner loop polls again, without a look at mDestroyed.
JobReturns(d) ==
    /\ loop[d] = "running"
    /\ InClientCode(d)
    /\ SetLoop(d, "polling")
    /\ UNCHANGED <<queueVars, mDestroyed, monitor, method, target, calls, ran>>

\* The job throws: nothing in run() catches it and the thread ends.
JobThrows(d) ==
    /\ Java
    /\ loop[d] = "running"
    /\ InClientCode(d)
    /\ SetLoop(d, "dead")
    /\ UNCHANGED <<queueVars, mDestroyed, monitor, method, target, calls, ran>>

-----------------------------------------------------------------------------
(* The queue's steps, taken by threads of this system. *)

Queue(t) == QueueStep(t) /\ UNCHANGED dispatcherVars
Spurious(t) == SpuriousWakeup(t) /\ UNCHANGED dispatcherVars
Enqueue(t, j) == InClientCode(t) /\ EnqueueCall(t, j) /\ UNCHANGED dispatcherVars

\* What a thread does by itself, inside a method of the dispatcher or of the queue.
MethodStep(t) == Start(t) \/ QuitEnter(t) \/ QuitExit(t) \/ Queue(t)

\* What the thread of d does by itself.
LoopStep(d) == IsDestroyed(d) \/ Poll(d) \/ RunJob(d)

Next ==
    \/ \E t \in Threads : MethodStep(t) \/ Spurious(t)
    \/ \E t \in Threads, d \in Dispatchers, m \in {"start", "quit"} : Call(t, d, m)
    \/ \E t \in Threads, j \in Jobs : Enqueue(t, j)
    \/ \E d \in Dispatchers : LoopStep(d) \/ JobReturns(d) \/ JobThrows(d)

Spec == Init /\ [][Next]_vars

\* Threads inside the library are scheduled, a job ends some day, one way or the
\* other, and neither the monitors nor the mutex are fair.
Fairness ==
    /\ \A t \in Threads : WF_vars(MethodStep(t))
    /\ \A d \in Dispatchers : WF_vars(LoopStep(d))
    /\ \A d \in Dispatchers : WF_vars(JobReturns(d) \/ JobThrows(d))

FairSpec == Spec /\ Fairness

-----------------------------------------------------------------------------
\* Every variable has its type.
TypeOK ==
    /\ QueueTypeOK
    /\ mDestroyed \in [Dispatchers -> BOOLEAN]
    /\ monitor \in [Dispatchers -> Threads \cup {NoThread}]
    /\ loop \in [Dispatchers -> LoopState]
    /\ method \in [Threads -> Method]
    /\ target \in [Threads -> Dispatchers \cup {NoThread}]
    /\ calls \in 0..MaxCalls
    /\ ran \in Seq(Dispatchers \X Jobs)

\* A job runs at most once, and a dispatcher runs its jobs in the order in which
\* they were enqueued, whatever other dispatchers take from the same queue
\* (JobDispatcherImpl.java:34-36).
Before(i, k) ==
    \E m, n \in DOMAIN delivered :
        m < n /\ delivered[m] = ran[i][2] /\ delivered[n] = ran[k][2]

RunsInOrder ==
    \A i, k \in DOMAIN ran :
        i < k => /\ ran[i][2] # ran[k][2]
                 /\ ran[i][1] = ran[k][1] => Before(i, k)

\* quit() can only end the loop before its first poll(): a thread that terminated
\* normally was told to quit and has run no job, whatever was in the queue.
ExitsOnlyBeforeWork ==
    \A d \in Dispatchers :
        loop[d] = "exited" =>
            /\ mDestroyed[d]
            /\ \A i \in DOMAIN ran : ran[i][1] # d

\* start() and quit() return, though they take a monitor that other threads hold
\* while they wait for the queue's mutex; a job may call them on its own dispatcher.
CallsReturn ==
    \A t \in Threads : method[t] # "none" ~> method[t] = "none"

\* A dispatcher in its loop is a thread that serves the queue.
Serving == \E d \in Dispatchers : loop[d] \in {"test", "polling", "running"}

\* Every enqueued job is taken as long as one dispatcher serves the queue, also when
\* another one died of an exception, quit, or swallowed a notification.
JobsAreServed ==
    \A j \in Jobs :
        (\E i \in DOMAIN mQueue : mQueue[i] = j) /\ Serving
            ~> (\E i \in DOMAIN delivered : delivered[i] = j) \/ ~Serving

\* What the names of quit() and interruptPoll() promise (react.djinni:7 and 12): once
\* quit() was called the dispatcher's thread ends.
QuitEndsLoop ==
    \A d \in Dispatchers :
        mDestroyed[d] ~> loop[d] \in {"new", "exited", "dead"}
=============================================================================
