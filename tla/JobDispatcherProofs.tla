------------------------- MODULE JobDispatcherProofs -------------------------
(***************************************************************************)
(* Theorems about JobQueue.tla for any finite set of threads and any set   *)
(* of jobs: its types, mutual exclusion, that poll() pops what it copied,  *)
(* that no wakeup is lost, and that the queue implements FifoQueue.tla.    *)
(* None of their proofs uses anything of JobDispatcher.tla.                *)
(*                                                                         *)
(* Then theorems about JobDispatcher.tla for any dispatchers, callers and  *)
(* jobs, Java and Objective-C: the dispatchers use the queue as it allows, *)
(* so everything proved of the queue holds in their system, and what       *)
(* quit() does and does not do, and the order in which jobs run.           *)
(***************************************************************************)
EXTENDS JobDispatcher, SequenceTheorems, FiniteSetTheorems, TLAPS

\* mMutex is held by the thread whose location says so, and by nobody else.
MutexInv == \A t \in Threads : pc[t] \in InCritical <=> mMutex = t

\* The argument of enqueue() is a function.
ArgInv == \A t \in Threads : pc[t] = "enqueueLock" => func[t] \in Jobs

\* A job is in one place: unused, in the hands of one enqueue(), or in the past of
\* the queue.
Places(t, j) == pc[t] = "enqueueLock" /\ func[t] = j
FreshInv ==
    \A j \in Jobs :
        /\ j \in Fifo!Members(mQueue) \cup Fifo!Members(delivered) => j \notin unused
        /\ \A t \in Threads : Places(t, j) =>
              /\ j \notin unused
              /\ j \notin Fifo!Members(mQueue) \cup Fifo!Members(delivered)
              /\ \A u \in Threads : Places(u, j) => u = t

IInv == QueueTypeOK /\ MutexInv /\ PopsWhatItCopied /\ ArgInv /\ FreshInv

-----------------------------------------------------------------------------
(* Sequences. *)

\* What append and tail do to the elements of the deque and of the history.
LEMMA MembersOfAppend ==
    ASSUME NEW S, NEW s \in Seq(S), NEW e \in S
    PROVE  /\ Append(s, e) \in Seq(S)
           /\ Fifo!Members(Append(s, e)) = Fifo!Members(s) \cup {e}
<1>1. Append(s, e) \in Seq(S) /\ Len(Append(s, e)) = Len(s) + 1
  OBVIOUS
<1>2. DOMAIN Append(s, e) = 1..(Len(s) + 1) /\ DOMAIN s = 1..Len(s) /\ Len(s) \in Nat
  OBVIOUS
<1>3. \A i \in 1..Len(s) : Append(s, e)[i] = s[i]
  OBVIOUS
<1>4. Append(s, e)[Len(s) + 1] = e
  OBVIOUS
<1>5. Fifo!Members(Append(s, e)) \subseteq Fifo!Members(s) \cup {e}
  BY <1>2, <1>3, <1>4 DEF Fifo!Members
<1>6. Fifo!Members(s) \subseteq Fifo!Members(Append(s, e))
  BY <1>2, <1>3 DEF Fifo!Members
<1>7. e \in Fifo!Members(Append(s, e))
  BY <1>2, <1>4 DEF Fifo!Members
<1> QED BY <1>1, <1>5, <1>6, <1>7

\* What is left of a non-empty deque, and what was taken.
LEMMA MembersOfTail ==
    ASSUME NEW S, NEW s \in Seq(S), s # <<>>
    PROVE  /\ Tail(s) \in Seq(S)
           /\ Head(s) \in S
           /\ Head(s) \in Fifo!Members(s)
           /\ Fifo!Members(Tail(s)) \subseteq Fifo!Members(s)
           /\ Len(Tail(s)) = Len(s) - 1
<1>1. Len(s) \in Nat \ {0} /\ DOMAIN s = 1..Len(s) /\ Head(s) = s[1]
  BY EmptySeq
<1>2. Tail(s) \in Seq(S) /\ Len(Tail(s)) = Len(s) - 1
  OBVIOUS
<1>3. \A i \in 1..(Len(s) - 1) : Tail(s)[i] = s[i + 1]
  OBVIOUS
<1>4. DOMAIN Tail(s) = 1..(Len(s) - 1)
  BY <1>2, <1>1
<1>5. Fifo!Members(Tail(s)) \subseteq Fifo!Members(s)
  <2> SUFFICES ASSUME NEW i \in DOMAIN Tail(s)
               PROVE  Tail(s)[i] \in Fifo!Members(s)
    BY DEF Fifo!Members
  <2>1. i + 1 \in DOMAIN s /\ Tail(s)[i] = s[i + 1]
    BY <1>1, <1>3, <1>4
  <2> QED BY <2>1 DEF Fifo!Members
<1> QED BY <1>1, <1>2, <1>5 DEF Fifo!Members

-----------------------------------------------------------------------------
(* Types. *)

\* Waking a thread, or nobody, leaves every thread at a location.
LEMMA NotifyTypes ==
    ASSUME QueueTypeOK, NEW t \in Threads, NEW l \in Location, NotifyOne(t, l)
    PROVE  pc' \in [Threads -> Location]
BY DEF QueueTypeOK, NotifyOne, Goto, Parked, Location

\* Every step keeps the types, once poll() pops only what it copied and enqueue()
\* has an argument.
LEMMA TypesPreserved ==
    ASSUME QueueTypeOK, PopsWhatItCopied, ArgInv, [QueueNext]_queueVars
    PROVE  QueueTypeOK'
<1> USE JobQueueAssumption
<1>1. ASSUME NEW t \in Threads, PollCall(t) PROVE QueueTypeOK'
  BY <1>1 DEF QueueTypeOK, PollCall, Goto, Location
<1>2. ASSUME NEW t \in Threads, PollLock(t) PROVE QueueTypeOK'
  BY <1>2 DEF QueueTypeOK, PollLock, Goto, Location
<1>3. ASSUME NEW t \in Threads, PollPark(t) PROVE QueueTypeOK'
  BY <1>3 DEF QueueTypeOK, PollPark, Goto, Location
<1>4. ASSUME NEW t \in Threads, PollFront(t) PROVE QueueTypeOK'
  <2>1. Head(mQueue) \in Jobs
    BY <1>4, MembersOfTail DEF PollFront, QueueTypeOK
  <2> QED BY <1>4, <2>1 DEF QueueTypeOK, PollFront, Goto, Location
<1>5. ASSUME NEW t \in Threads, PollPop(t) PROVE QueueTypeOK'
  <2>1. mQueue # <<>> /\ func[t] = Head(mQueue)
    BY <1>5 DEF PollPop, PopsWhatItCopied
  <2>2. Tail(mQueue) \in Seq(Jobs) /\ func[t] \in Jobs
    BY <2>1, MembersOfTail DEF QueueTypeOK
  <2> QED BY <1>5, <2>2 DEF QueueTypeOK, PollPop, Goto, Location
<1>6. ASSUME NEW t \in Threads, PollReturn(t) PROVE QueueTypeOK'
  BY <1>6 DEF QueueTypeOK, PollReturn, Goto, Location
<1>7. ASSUME NEW t \in Threads, SpuriousWakeup(t) PROVE QueueTypeOK'
  BY <1>7 DEF QueueTypeOK, SpuriousWakeup, Goto, Location
<1>8. ASSUME NEW t \in Threads, InterruptCall(t) PROVE QueueTypeOK'
  BY <1>8 DEF QueueTypeOK, InterruptCall, Goto, Location
<1>9. ASSUME NEW t \in Threads, InterruptPoll(t) PROVE QueueTypeOK'
  <2>1. pc' \in [Threads -> Location]
    BY <1>9, NotifyTypes DEF InterruptPoll, Location
  <2> QED BY <1>9, <2>1 DEF QueueTypeOK, InterruptPoll
<1>10. ASSUME NEW t \in Threads, NEW j \in Jobs, EnqueueCall(t, j) PROVE QueueTypeOK'
  BY <1>10 DEF QueueTypeOK, EnqueueCall, Goto, Location
<1>11. ASSUME NEW t \in Threads, EnqueuePush(t) PROVE QueueTypeOK'
  <2>1. func[t] \in Jobs
    BY <1>11 DEF ArgInv, EnqueuePush
  <2> QED BY <1>11, <2>1 DEF QueueTypeOK, EnqueuePush, Goto, Location
<1>12. ASSUME NEW t \in Threads, EnqueueNotify(t) PROVE QueueTypeOK'
  <2>1. pc' \in [Threads -> Location]
    BY <1>12, NotifyTypes DEF EnqueueNotify, Location
  <2> QED BY <1>12, <2>1 DEF QueueTypeOK, EnqueueNotify
<1>13. CASE UNCHANGED queueVars
  BY <1>13 DEF QueueTypeOK, queueVars
<1> QED
  BY <1>1, <1>2, <1>3, <1>4, <1>5, <1>6, <1>7, <1>8, <1>9, <1>10, <1>11, <1>12, <1>13
     DEF QueueNext, QueueStep, QueueCall

-----------------------------------------------------------------------------
(* Mutual exclusion. *)

\* Nobody parked owns the mutex, so waking a thread moves only the notifier and a
\* thread that stays outside.
LEMMA NotifyOutside ==
    ASSUME QueueTypeOK, NEW t \in Threads, pc[t] # "pollWait", NEW l \in Location,
           NotifyOne(t, l), NEW u \in Threads
    PROVE  /\ u = t => pc'[u] = l
           /\ u # t => \/ pc'[u] = pc[u]
                       \/ pc[u] = "pollWait" /\ pc'[u] = "pollRelock"
BY DEF QueueTypeOK, NotifyOne, Goto, Parked, Location

LEMMA MutexPreserved ==
    ASSUME QueueTypeOK, MutexInv, [QueueNext]_queueVars
    PROVE  MutexInv'
<1> USE JobQueueAssumption DEF InCritical
<1>1. ASSUME NEW t \in Threads, PollCall(t) PROVE MutexInv'
  BY <1>1 DEF QueueTypeOK, MutexInv, PollCall, Goto
<1>2. ASSUME NEW t \in Threads, PollLock(t) PROVE MutexInv'
  BY <1>2 DEF QueueTypeOK, MutexInv, PollLock, Goto
<1>3. ASSUME NEW t \in Threads, PollPark(t) PROVE MutexInv'
  BY <1>3 DEF QueueTypeOK, MutexInv, PollPark, Goto
<1>4. ASSUME NEW t \in Threads, PollFront(t) PROVE MutexInv'
  BY <1>4 DEF QueueTypeOK, MutexInv, PollFront, Goto
<1>5. ASSUME NEW t \in Threads, PollPop(t) PROVE MutexInv'
  BY <1>5 DEF QueueTypeOK, MutexInv, PollPop, Goto
<1>6. ASSUME NEW t \in Threads, PollReturn(t) PROVE MutexInv'
  BY <1>6 DEF QueueTypeOK, MutexInv, PollReturn, Goto
<1>7. ASSUME NEW t \in Threads, SpuriousWakeup(t) PROVE MutexInv'
  BY <1>7 DEF QueueTypeOK, MutexInv, SpuriousWakeup, Goto
<1>8. ASSUME NEW t \in Threads, InterruptCall(t) PROVE MutexInv'
  BY <1>8 DEF QueueTypeOK, MutexInv, InterruptCall, Goto
<1>9. ASSUME NEW t \in Threads, InterruptPoll(t) PROVE MutexInv'
  <2>1. ASSUME NEW u \in Threads PROVE pc'[u] \in InCritical <=> pc[u] \in InCritical
    BY <1>9, <2>1, NotifyOutside DEF InterruptPoll, Location
  <2> QED BY <1>9, <2>1 DEF MutexInv, InterruptPoll
<1>10. ASSUME NEW t \in Threads, NEW j \in Jobs, EnqueueCall(t, j) PROVE MutexInv'
  BY <1>10 DEF QueueTypeOK, MutexInv, EnqueueCall, Goto
<1>11. ASSUME NEW t \in Threads, EnqueuePush(t) PROVE MutexInv'
  BY <1>11 DEF QueueTypeOK, MutexInv, EnqueuePush, Goto
<1>12. ASSUME NEW t \in Threads, EnqueueNotify(t) PROVE MutexInv'
  <2>1. ASSUME NEW u \in Threads
        PROVE  pc'[u] \in InCritical <=> (pc[u] \in InCritical /\ u # t)
    BY <1>12, <2>1, NotifyOutside DEF EnqueueNotify, Location
  <2> QED BY <1>12, <2>1 DEF MutexInv, EnqueueNotify
<1>13. CASE UNCHANGED queueVars
  BY <1>13 DEF MutexInv, queueVars
<1> QED
  BY <1>1, <1>2, <1>3, <1>4, <1>5, <1>6, <1>7, <1>8, <1>9, <1>10, <1>11, <1>12, <1>13
     DEF QueueNext, QueueStep, QueueCall

-----------------------------------------------------------------------------
(* poll() pops what it copied; enqueue() keeps its argument. *)

\* Between the copy and the pop the mutex keeps every other thread off the deque.
LEMMA FrontPreserved ==
    ASSUME QueueTypeOK, MutexInv, PopsWhatItCopied, [QueueNext]_queueVars
    PROVE  PopsWhatItCopied'
<1> USE JobQueueAssumption DEF PopsWhatItCopied
<1>1. ASSUME NEW t \in Threads, PollCall(t) PROVE PopsWhatItCopied'
  BY <1>1 DEF QueueTypeOK, PollCall, Goto
<1>2. ASSUME NEW t \in Threads, PollLock(t) PROVE PopsWhatItCopied'
  BY <1>2 DEF QueueTypeOK, PollLock, Goto
<1>3. ASSUME NEW t \in Threads, PollPark(t) PROVE PopsWhatItCopied'
  BY <1>3 DEF QueueTypeOK, PollPark, Goto
<1>4. ASSUME NEW t \in Threads, PollFront(t) PROVE PopsWhatItCopied'
  BY <1>4 DEF QueueTypeOK, PollFront, Goto
<1>5. ASSUME NEW t \in Threads, PollPop(t) PROVE PopsWhatItCopied'
  BY <1>5 DEF QueueTypeOK, MutexInv, InCritical, PollPop, Goto
<1>6. ASSUME NEW t \in Threads, PollReturn(t) PROVE PopsWhatItCopied'
  BY <1>6 DEF QueueTypeOK, PollReturn, Goto
<1>7. ASSUME NEW t \in Threads, SpuriousWakeup(t) PROVE PopsWhatItCopied'
  BY <1>7 DEF QueueTypeOK, SpuriousWakeup, Goto
<1>8. ASSUME NEW t \in Threads, InterruptCall(t) PROVE PopsWhatItCopied'
  BY <1>8 DEF QueueTypeOK, InterruptCall, Goto
<1>9. ASSUME NEW t \in Threads, InterruptPoll(t) PROVE PopsWhatItCopied'
  <2>1. ASSUME NEW u \in Threads, pc'[u] = "pollPop" PROVE pc[u] = "pollPop"
    BY <1>9, <2>1, NotifyOutside DEF InterruptPoll, Location
  <2> QED BY <1>9, <2>1 DEF InterruptPoll
<1>10. ASSUME NEW t \in Threads, NEW j \in Jobs, EnqueueCall(t, j)
       PROVE  PopsWhatItCopied'
  BY <1>10 DEF QueueTypeOK, EnqueueCall, Goto
<1>11. ASSUME NEW t \in Threads, EnqueuePush(t) PROVE PopsWhatItCopied'
  BY <1>11 DEF QueueTypeOK, MutexInv, InCritical, EnqueuePush, Goto
<1>12. ASSUME NEW t \in Threads, EnqueueNotify(t) PROVE PopsWhatItCopied'
  <2>1. ASSUME NEW u \in Threads, pc'[u] = "pollPop"
        PROVE  pc[u] = "pollPop" /\ u # t
    BY <1>12, <2>1, NotifyOutside DEF EnqueueNotify, Location
  <2> QED BY <1>12, <2>1 DEF QueueTypeOK, EnqueueNotify
<1>13. CASE UNCHANGED queueVars
  BY <1>13 DEF queueVars
<1> QED
  BY <1>1, <1>2, <1>3, <1>4, <1>5, <1>6, <1>7, <1>8, <1>9, <1>10, <1>11, <1>12, <1>13
     DEF QueueNext, QueueStep, QueueCall

\* A thread about to push has the function its caller passed, which is in no other
\* place: PollReturn and EnqueueNotify empty locals, and only of their own thread.
LEMMA FreshPreserved ==
    ASSUME IInv, [QueueNext]_queueVars
    PROVE  ArgInv' /\ FreshInv'
<1> USE JobQueueAssumption DEF ArgInv, FreshInv, Places
<1>0. QueueTypeOK /\ PopsWhatItCopied /\ ArgInv /\ FreshInv
  BY DEF IInv
\* Steps after which no thread has come to "enqueueLock" or got another argument.
<1>1. ASSUME \A u \in Threads : pc'[u] = "enqueueLock" =>
                 pc[u] = "enqueueLock" /\ func'[u] = func[u],
             unused' = unused, mQueue' = mQueue, delivered' = delivered
      PROVE  ArgInv' /\ FreshInv'
  BY <1>0, <1>1
<1>2. ASSUME NEW t \in Threads,
             \/ PollCall(t) \/ PollLock(t) \/ PollPark(t) \/ PollFront(t)
             \/ PollReturn(t) \/ SpuriousWakeup(t) \/ InterruptCall(t)
      PROVE  ArgInv' /\ FreshInv'
  BY <1>0, <1>1, <1>2
     DEF QueueTypeOK, PollCall, PollLock, PollPark, PollFront, PollReturn,
         SpuriousWakeup, InterruptCall, Goto
<1>3. ASSUME NEW t \in Threads, InterruptPoll(t) \/ EnqueueNotify(t)
      PROVE  ArgInv' /\ FreshInv'
  <2>1. ASSUME NEW u \in Threads, pc'[u] = "enqueueLock"
        PROVE  pc[u] = "enqueueLock" /\ u # t
    BY <1>0, <1>3, <2>1, NotifyOutside DEF InterruptPoll, EnqueueNotify, Location
  <2> QED BY <1>0, <1>1, <1>3, <2>1 DEF QueueTypeOK, InterruptPoll, EnqueueNotify
<1>4. ASSUME NEW t \in Threads, PollPop(t) PROVE ArgInv' /\ FreshInv'
  <2>1. mQueue # <<>> /\ func[t] = Head(mQueue) /\ mQueue \in Seq(Jobs)
    BY <1>0, <1>4 DEF PollPop, PopsWhatItCopied, QueueTypeOK
  <2>2. /\ func[t] \in Jobs
        /\ func[t] \in Fifo!Members(mQueue)
        /\ Fifo!Members(mQueue') \subseteq Fifo!Members(mQueue)
    BY <1>4, <2>1, MembersOfTail DEF PollPop
  <2>3. Fifo!Members(delivered') = Fifo!Members(delivered) \cup {func[t]}
    BY <1>0, <1>4, <2>2, MembersOfAppend DEF PollPop, QueueTypeOK
  <2>4. Fifo!Members(mQueue') \cup Fifo!Members(delivered')
            \subseteq Fifo!Members(mQueue) \cup Fifo!Members(delivered)
    BY <2>2, <2>3
  <2>5. /\ unused' = unused
        /\ \A u \in Threads : pc'[u] = "enqueueLock" =>
              pc[u] = "enqueueLock" /\ func'[u] = func[u]
    BY <1>0, <1>4 DEF PollPop, Goto, QueueTypeOK
  <2>6. ArgInv'
    BY <1>0, <2>5
  <2>7. FreshInv'
    <3> SUFFICES ASSUME NEW j \in Jobs
                 PROVE  /\ (j \in Fifo!Members(mQueue) \cup Fifo!Members(delivered)
                                => j \notin unused)'
                        /\ \A u \in Threads : Places(u, j)' =>
                              /\ j \notin unused'
                              /\ j \notin Fifo!Members(mQueue') \cup Fifo!Members(delivered')
                              /\ \A v \in Threads : Places(v, j)' => v = u
      BY DEF Fifo!Members
    <3>1. (j \in Fifo!Members(mQueue) \cup Fifo!Members(delivered) => j \notin unused)'
      BY <1>0, <2>4, <2>5 DEF Fifo!Members
    <3>2. \A u \in Threads : Places(u, j)' => Places(u, j)
      BY <2>5
    <3> QED BY <1>0, <2>4, <2>5, <3>1, <3>2
  <2> QED BY <2>6, <2>7
<1>5. ASSUME NEW t \in Threads, NEW j \in Jobs, EnqueueCall(t, j)
      PROVE  ArgInv' /\ FreshInv'
  <2>1. /\ pc'[t] = "enqueueLock" /\ func'[t] = j /\ pc[t] = "idle"
        /\ \A u \in Threads : u # t => pc'[u] = pc[u] /\ func'[u] = func[u]
        /\ j \in unused /\ unused' = unused \ {j}
        /\ mQueue' = mQueue /\ delivered' = delivered
    BY <1>0, <1>5 DEF EnqueueCall, Goto, QueueTypeOK
  <2>2. ArgInv'
    BY <1>0, <2>1
  <2>3. \A u \in Threads, i \in Jobs : Places(u, i)' <=>
           (u = t /\ i = j) \/ (u # t /\ Places(u, i))
    BY <2>1
  <2>4. \A u \in Threads : ~Places(u, j)
    BY <1>0, <2>1
  <2> QED BY <1>0, <2>1, <2>2, <2>3, <2>4
<1>6. ASSUME NEW t \in Threads, EnqueuePush(t) PROVE ArgInv' /\ FreshInv'
  <2>1. func[t] \in Jobs /\ Places(t, func[t])
    BY <1>0, <1>6 DEF EnqueuePush
  <2>2. Fifo!Members(mQueue') = Fifo!Members(mQueue) \cup {func[t]}
    BY <1>0, <1>6, <2>1, MembersOfAppend DEF EnqueuePush, QueueTypeOK
  <2>3. /\ pc'[t] = "enqueueNotify" /\ func' = func /\ unused' = unused
        /\ delivered' = delivered
        /\ \A u \in Threads : u # t => pc'[u] = pc[u]
    BY <1>0, <1>6 DEF EnqueuePush, Goto, QueueTypeOK
  <2>4. \A u \in Threads, i \in Jobs : Places(u, i)' <=> u # t /\ Places(u, i)
    BY <2>3
  <2>5. \A u \in Threads : pc'[u] = "enqueueLock" => func'[u] # func[t]
    BY <1>0, <2>1, <2>3
  <2>6. ArgInv'
    BY <1>0, <2>3
  <2>7. FreshInv'
    <3> SUFFICES ASSUME NEW i \in Jobs
                 PROVE  /\ i \in Fifo!Members(mQueue') \cup Fifo!Members(delivered')
                              => i \notin unused'
                        /\ \A u \in Threads : Places(u, i)' =>
                              /\ i \notin unused'
                              /\ i \notin Fifo!Members(mQueue') \cup Fifo!Members(delivered')
                              /\ \A v \in Threads : Places(v, i)' => v = u
      BY DEF Fifo!Members
    <3> QED BY <1>0, <2>1, <2>2, <2>3, <2>4, <2>5
  <2> QED BY <2>6, <2>7
<1>7. CASE UNCHANGED queueVars
  BY <1>0, <1>1, <1>7 DEF queueVars
<1> QED
  BY <1>2, <1>3, <1>4, <1>5, <1>6, <1>7 DEF QueueNext, QueueStep, QueueCall

-----------------------------------------------------------------------------
(* The theorems. *)

LEMMA InitEstablishes == QueueInit => IInv
<1> USE JobQueueAssumption
<1> SUFFICES ASSUME QueueInit PROVE IInv
  OBVIOUS
<1>1. QueueTypeOK
  BY DEF QueueInit, QueueTypeOK, Location
<1>2. MutexInv /\ PopsWhatItCopied /\ ArgInv
  BY DEF QueueInit, MutexInv, PopsWhatItCopied, ArgInv, InCritical
<1>3. FreshInv
  BY DEF QueueInit, FreshInv, Places, Fifo!Members
<1> QED BY <1>1, <1>2, <1>3 DEF IInv

LEMMA StepPreserves == IInv /\ [QueueNext]_queueVars => IInv'
<1> SUFFICES ASSUME IInv, [QueueNext]_queueVars PROVE IInv'
  OBVIOUS
<1>1. QueueTypeOK'
  BY TypesPreserved DEF IInv
<1>2. MutexInv'
  BY MutexPreserved DEF IInv
<1>3. PopsWhatItCopied'
  BY FrontPreserved DEF IInv
<1>4. ArgInv' /\ FreshInv'
  BY FreshPreserved
<1> QED BY <1>1, <1>2, <1>3, <1>4 DEF IInv

\* The inductive invariant holds in every reachable state.
THEOREM Invariance == QueueSpec => []IInv
BY InitEstablishes, StepPreserves, PTL DEF QueueSpec

\* Type correctness of the queue for any threads and any jobs.
THEOREM TypeCorrect == QueueSpec => []QueueTypeOK
<1>1. IInv => QueueTypeOK
  BY DEF IInv
<1> QED BY Invariance, <1>1, PTL

\* poll() pops the very element it copied, whatever the other threads do between
\* lines 19 and 20 of JobQueueImpl.cpp.
THEOREM PopsCorrect == QueueSpec => []PopsWhatItCopied
<1>1. IInv => PopsWhatItCopied
  BY DEF IInv
<1> QED BY Invariance, <1>1, PTL

\* A step of the queue is a step of the FIFO, or none: push_back submits, pop_front
\* delivers the head, and nothing else is visible.
LEMMA StepRefines ==
    ASSUME IInv, [QueueNext]_queueVars
    PROVE  [Fifo!Next]_(Fifo!vars)
<1> USE JobQueueAssumption DEF Fifo!vars, Fifo!Next
<1>0. QueueTypeOK /\ PopsWhatItCopied /\ ArgInv /\ FreshInv
  BY DEF IInv
<1>1. ASSUME NEW t \in Threads, PollPop(t) PROVE Fifo!Deliver
  BY <1>0, <1>1 DEF PollPop, PopsWhatItCopied, Fifo!Deliver
<1>2. ASSUME NEW t \in Threads, EnqueuePush(t)
      PROVE  func[t] \in Jobs /\ Fifo!Submit(func[t])
  BY <1>0, <1>2 DEF EnqueuePush, ArgInv, FreshInv, Places, Fifo!Submit
<1>3. ASSUME NEW t \in Threads,
             \/ PollCall(t) \/ PollLock(t) \/ PollPark(t) \/ PollFront(t)
             \/ PollReturn(t) \/ SpuriousWakeup(t) \/ InterruptCall(t)
             \/ InterruptPoll(t) \/ EnqueueNotify(t)
             \/ \E j \in Jobs : EnqueueCall(t, j)
      PROVE  UNCHANGED <<mQueue, delivered>>
  BY <1>3
     DEF PollCall, PollLock, PollPark, PollFront, PollReturn, SpuriousWakeup,
         InterruptCall, InterruptPoll, EnqueueNotify, EnqueueCall
<1>4. CASE UNCHANGED queueVars
  BY <1>4 DEF queueVars
<1> QED BY <1>1, <1>2, <1>3, <1>4 DEF QueueNext, QueueStep, QueueCall

\* The queue with its mutex and its condition variable implements the FIFO: every
\* function comes out of one poll(), in the order of the push_backs.
THEOREM Refinement == QueueSpec => ImplementsFifo
<1>1. QueueInit => Fifo!Init
  BY DEF QueueInit, Fifo!Init
<1>2. IInv /\ [QueueNext]_queueVars => [Fifo!Next]_(Fifo!vars)
  BY StepRefines
<1> QED BY <1>1, <1>2, Invariance, PTL DEF QueueSpec, ImplementsFifo, Fifo!Spec

-----------------------------------------------------------------------------
(* No wake-up is lost. *)

\* Attending as a finite set: what one more, one fewer or a change of one does to its
\* size.
LEMMA AttendingSize ==
    ASSUME NEW A \in SUBSET Threads, NEW B \in SUBSET Threads
    PROVE  /\ Cardinality(A) \in Nat
           /\ A \subseteq B => Cardinality(A) <= Cardinality(B)
           /\ \A t \in Threads : t \in A => Cardinality(A \ {t}) = Cardinality(A) - 1
           /\ \A t \in Threads : t \notin A => Cardinality(A \cup {t}) = Cardinality(A) + 1
<1>1. IsFiniteSet(A) /\ IsFiniteSet(B)
  BY JobQueueAssumption, FS_Subset
<1>2. Cardinality(A) \in Nat
  BY <1>1, FS_CardinalityType
<1>3. A \subseteq B => Cardinality(A) <= Cardinality(B)
  BY <1>1, FS_Subset
<1>4. \A t : t \in A => Cardinality(A \ {t}) = Cardinality(A) - 1
  BY <1>1, FS_RemoveElement
<1>5. \A t : t \notin A => Cardinality(A \cup {t}) = Cardinality(A) + 1
  BY <1>1, FS_AddElement
<1> QED BY <1>2, <1>3, <1>4, <1>5

\* A step that queues nothing more, drops nobody from Attending and lets nobody park
\* loses no wake-up.
LEMMA WakeupKept ==
    ASSUME QueueTypeOK, QueueTypeOK', NoLostWakeup, Len(mQueue') <= Len(mQueue),
           Attending \subseteq Attending', Parked' \subseteq Parked
    PROVE  NoLostWakeup'
<1> USE DEF NoLostWakeup
<1>1. Attending \in SUBSET Threads /\ Attending' \in SUBSET Threads
  BY DEF Attending
<1>2. /\ Cardinality(Attending) \in Nat /\ Cardinality(Attending') \in Nat
      /\ Cardinality(Attending) <= Cardinality(Attending')
  BY <1>1, AttendingSize
<1>3. Len(mQueue) \in Nat /\ Len(mQueue') \in Nat
  BY DEF QueueTypeOK
<1> QED BY <1>2, <1>3

LEMMA WakeupPreserved ==
    ASSUME IInv, IInv', NoLostWakeup, [QueueNext]_queueVars
    PROVE  NoLostWakeup'
<1>0. QueueTypeOK /\ QueueTypeOK' /\ PopsWhatItCopied
  BY DEF IInv
<1>a. Attending \in SUBSET Threads /\ Attending' \in SUBSET Threads
  BY DEF Attending
<1>b. Len(mQueue) \in Nat /\ Len(mQueue') \in Nat
  BY <1>0 DEF QueueTypeOK
<1>c. Cardinality(Attending) \in Nat /\ Cardinality(Attending') \in Nat
  BY <1>a, AttendingSize
<1>1. ASSUME NEW t \in Threads,
             \/ PollCall(t) \/ PollLock(t) \/ PollFront(t) \/ PollReturn(t)
             \/ SpuriousWakeup(t) \/ InterruptCall(t)
             \/ \E j \in Jobs : EnqueueCall(t, j)
      PROVE  NoLostWakeup'
  <2>1. mQueue' = mQueue
    BY <1>1 DEF PollCall, PollLock, PollFront, PollReturn, SpuriousWakeup,
                InterruptCall, EnqueueCall
  <2>2. Attending \subseteq Attending' /\ Parked' \subseteq Parked
    BY <1>0, <1>1
       DEF PollCall, PollLock, PollFront, PollReturn, SpuriousWakeup, InterruptCall,
           EnqueueCall, Goto, QueueTypeOK, Attending, Parked, WillLook
  <2> QED BY <1>0, <1>b, <2>1, <2>2, WakeupKept
<1>2. ASSUME NEW t \in Threads, PollPark(t) PROVE NoLostWakeup'
  <2>1. Len(mQueue') = 0
    BY <1>2 DEF PollPark
  <2> QED BY <1>c, <2>1 DEF NoLostWakeup
<1>3. ASSUME NEW t \in Threads, PollPop(t) PROVE NoLostWakeup'
  <2>1. Attending' = Attending \ {t} /\ t \in Attending /\ Parked' = Parked
    BY <1>0, <1>3 DEF PollPop, Goto, QueueTypeOK, Attending, Parked, WillLook
  <2>2. Cardinality(Attending') = Cardinality(Attending) - 1
    BY <1>a, <2>1, AttendingSize
  <2>3. Len(mQueue') = Len(mQueue) - 1
    BY <1>0, <1>3, MembersOfTail DEF PollPop, PopsWhatItCopied, QueueTypeOK
  <2> QED BY <1>b, <1>c, <2>1, <2>2, <2>3 DEF NoLostWakeup
<1>4. ASSUME NEW t \in Threads, EnqueuePush(t) PROVE NoLostWakeup'
  <2>1. Attending' = Attending \cup {t} /\ t \notin Attending /\ Parked' = Parked
    BY <1>0, <1>4 DEF EnqueuePush, Goto, QueueTypeOK, Attending, Parked, WillLook
  <2>2. Cardinality(Attending') = Cardinality(Attending) + 1
    BY <1>a, <2>1, AttendingSize
  <2>3. Len(mQueue') = Len(mQueue) + 1
    BY <1>0, <1>4 DEF EnqueuePush, QueueTypeOK
  <2> QED BY <1>b, <1>c, <2>1, <2>2, <2>3 DEF NoLostWakeup
<1>5. ASSUME NEW t \in Threads, InterruptPoll(t) PROVE NoLostWakeup'
  <2>1. mQueue' = mQueue
    BY <1>5 DEF InterruptPoll
  <2>2. Attending \subseteq Attending' /\ Parked' \subseteq Parked
    BY <1>0, <1>5
       DEF InterruptPoll, NotifyOne, Goto, QueueTypeOK, Attending, Parked, WillLook
  <2> QED BY <1>0, <1>b, <2>1, <2>2, WakeupKept
<1>6. ASSUME NEW t \in Threads, EnqueueNotify(t) PROVE NoLostWakeup'
  <2>1. mQueue' = mQueue /\ pc[t] = "enqueueNotify"
    BY <1>6 DEF EnqueueNotify
  <2>2. CASE Parked = {} /\ Goto(t, "idle")
    <3>1. Parked' = {}
      BY <1>0, <2>1, <2>2 DEF Parked, Goto, QueueTypeOK
    <3> QED BY <3>1 DEF NoLostWakeup
  <2>3. ASSUME NEW w \in Parked, pc' = [pc EXCEPT ![t] = "idle", ![w] = "pollRelock"]
        PROVE  NoLostWakeup'
    <3>1. /\ t \in Attending /\ w \in Threads /\ w \notin Attending
          /\ Attending' = (Attending \ {t}) \cup {w}
      BY <1>0, <2>1, <2>3 DEF QueueTypeOK, Attending, Parked, WillLook
    <3>2. Cardinality(Attending \ {t}) = Cardinality(Attending) - 1
      BY <1>a, <3>1, AttendingSize
    <3>3. Cardinality(Attending') = Cardinality(Attending \ {t}) + 1
      BY <1>a, <3>1, AttendingSize
    <3>4. Parked # {}
      BY <2>3
    <3> QED BY <1>b, <1>c, <2>1, <3>2, <3>3, <3>4 DEF NoLostWakeup
  <2> QED BY <1>6, <2>2, <2>3 DEF EnqueueNotify, NotifyOne
<1>7. CASE UNCHANGED queueVars
  BY <1>7 DEF queueVars, NoLostWakeup, Parked, Attending
<1> QED
  BY <1>1, <1>2, <1>3, <1>4, <1>5, <1>6, <1>7 DEF QueueNext, QueueStep, QueueCall

\* As long as a thread is parked, every queued job has an attending thread of its own:
\* no enqueue() leaves a job behind that nobody will look for.
THEOREM NoWakeupIsLost == QueueSpec => []NoLostWakeup
<1>1. QueueInit => NoLostWakeup
  BY DEF QueueInit, NoLostWakeup, Parked
<1>2. IInv /\ IInv' /\ NoLostWakeup /\ [QueueNext]_queueVars => NoLostWakeup'
  BY WakeupPreserved
<1> QED BY <1>1, <1>2, Invariance, PTL DEF QueueSpec

-----------------------------------------------------------------------------
(* The dispatchers. *)

\* A job that poll() is about to answer is a function that was enqueued.
HandInv == \A t \in Threads : pc[t] = "pollReturn" => func[t] \in Jobs

\* A thread that has not been in the inner loop has run nothing, and one that left
\* the outer loop was told to.
LoopInv ==
    \A d \in Dispatchers :
        /\ loop[d] \in {"new", "test", "exited"} =>
              \A i \in DOMAIN ran : ran[i][1] # d
        /\ loop[d] = "exited" => mDestroyed[d]

DispatcherInv == IInv /\ HandInv /\ TypeOK /\ LoopInv

-----------------------------------------------------------------------------
(* The queue in this system. *)

\* Whatever a thread of this system does is a step of the queue, or none.
LEMMA QueueStepOrStutter == [Next]_vars => [QueueNext]_queueVars
<1> SUFFICES ASSUME [Next]_vars PROVE [QueueNext]_queueVars
  OBVIOUS
<1>0. Dispatchers \subseteq Threads
  BY DispatcherAssumption
<1>1. ASSUME NEW t \in Threads, MethodStep(t) \/ Spurious(t)
      PROVE  [QueueNext]_queueVars
  BY <1>1 DEF MethodStep, Start, QuitEnter, QuitExit, Queue, Spurious, QueueNext, QueueCall
<1>2. ASSUME NEW t \in Threads, NEW d \in Dispatchers, NEW m \in {"start", "quit"},
             Call(t, d, m)
      PROVE  [QueueNext]_queueVars
  BY <1>2 DEF Call
<1>3. ASSUME NEW t \in Threads, NEW j \in Jobs, Enqueue(t, j)
      PROVE  [QueueNext]_queueVars
  BY <1>3 DEF Enqueue, QueueNext, QueueCall
<1>4. ASSUME NEW d \in Dispatchers, LoopStep(d) \/ JobReturns(d) \/ JobThrows(d)
      PROVE  [QueueNext]_queueVars
  BY <1>0, <1>4 DEF LoopStep, IsDestroyed, Poll, RunJob, JobReturns, JobThrows,
     QueueNext, QueueCall
<1>5. CASE UNCHANGED vars
  BY <1>5 DEF vars
<1> QED BY <1>1, <1>2, <1>3, <1>4, <1>5 DEF Next

\* The composed system implements the queue's own specification.
THEOREM QueueKept == Spec => QueueSpec
<1>1. Init => QueueInit
  BY DEF Init
<1> QED BY <1>1, QueueStepOrStutter, PTL DEF Spec, QueueSpec

\* Jobs leave the queue as they came, whatever the dispatchers do.
THEOREM DispatchIsFifo == Spec => ImplementsFifo
BY QueueKept, Refinement

\* No wake-up is lost among dispatchers that are started, told to quit or dead.
THEOREM DispatchLosesNoWakeup == Spec => []NoLostWakeup
BY QueueKept, NoWakeupIsLost

-----------------------------------------------------------------------------
(* What quit() does. *)

\* The initial states satisfy the invariant.
LEMMA DispatcherInit == Init => DispatcherInv
<1> SUFFICES ASSUME Init PROVE DispatcherInv
  OBVIOUS
<1>1. IInv
  BY InitEstablishes DEF Init
<1>2. HandInv /\ LoopInv
  BY DispatcherAssumption DEF Init, QueueInit, HandInv, LoopInv
<1>3. TypeOK
  BY <1>1, DispatcherAssumption DEF Init, IInv, TypeOK, LoopState, Method
<1> QED BY <1>1, <1>2, <1>3 DEF DispatcherInv

\* The job in the hands of poll() survives every step of the queue.
LEMMA HandPreserved ==
    ASSUME IInv, HandInv, [QueueNext]_queueVars
    PROVE  HandInv'
<1> USE DEF IInv, QueueTypeOK, HandInv
<1>1. ASSUME NEW t \in Threads, NEW l \in Location, NotifyOne(t, l), l # "pollReturn"
      PROVE  \A u \in Threads : pc'[u] = "pollReturn" => pc[u] = "pollReturn"
  BY <1>1 DEF NotifyOne, Goto, Parked
<1>2. ASSUME NEW t \in Threads, QueueStep(t) PROVE HandInv'
  <2>1. CASE PollLock(t) \/ PollPark(t) \/ PollFront(t) \/ EnqueuePush(t)
    BY <2>1 DEF PollLock, PollPark, PollFront, EnqueuePush, Goto
  <2>2. CASE PollPop(t)
    <3>1. func[t] \in Jobs
      BY <2>2 DEF PollPop, PopsWhatItCopied
    <3> QED BY <2>2, <3>1 DEF PollPop, Goto
  <2>3. CASE InterruptPoll(t)
    BY <1>1, <2>3 DEF InterruptPoll, Location
  <2>4. CASE EnqueueNotify(t)
    <3>1. pc[t] # "pollReturn" /\ func' = [func EXCEPT ![t] = NoJob]
      BY <2>4 DEF EnqueueNotify
    <3>2. \A u \in Threads : pc'[u] = "pollReturn" => pc[u] = "pollReturn"
      BY <1>1, <2>4 DEF EnqueueNotify, Location
    <3> QED BY <3>1, <3>2
  <2> QED BY <1>2, <2>1, <2>2, <2>3, <2>4 DEF QueueStep
<1>3. ASSUME NEW t \in Threads, PollReturn(t) \/ QueueCall(t) \/ SpuriousWakeup(t)
      PROVE  HandInv'
  BY <1>3 DEF PollReturn, QueueCall, PollCall, InterruptCall, EnqueueCall, SpuriousWakeup,
     Goto
<1>4. CASE UNCHANGED queueVars
  BY <1>4 DEF queueVars
<1> QED BY <1>2, <1>3, <1>4 DEF QueueNext

\* The methods, and what they call, keep the types and the loop's invariant.
LEMMA MethodPreserves ==
    ASSUME DispatcherInv, QueueTypeOK',
           NEW t \in Threads, MethodStep(t) \/ Spurious(t)
    PROVE  TypeOK' /\ LoopInv'
<1>0. Dispatchers \subseteq Threads
  BY DispatcherAssumption
<1> USE DEF DispatcherInv
<1>1. CASE Start(t)
  <2>1. TypeOK'
    BY <1>1 DEF TypeOK, Start, SetLoop, Return, LoopState, Method
  <2>2. LoopInv'
    BY <1>1 DEF LoopInv, TypeOK, Start, SetLoop
  <2> QED BY <2>1, <2>2
<1>2. CASE QuitEnter(t)
  <2>1. TypeOK'
    BY <1>2 DEF TypeOK, QuitEnter, Method
  <2>2. LoopInv'
    BY <1>2 DEF LoopInv, TypeOK, QuitEnter
  <2> QED BY <2>1, <2>2
<1>3. CASE QuitExit(t)
  BY <1>3 DEF LoopInv, TypeOK, QuitExit, Return, Method
<1>4. CASE Queue(t) \/ Spurious(t)
  BY <1>4 DEF LoopInv, TypeOK, Queue, Spurious, dispatcherVars
<1> QED BY <1>1, <1>2, <1>3, <1>4 DEF MethodStep

\* The loop's own steps keep them.
LEMMA LoopPreserves ==
    ASSUME DispatcherInv, QueueTypeOK',
           NEW d \in Dispatchers, LoopStep(d) \/ JobReturns(d) \/ JobThrows(d)
    PROVE  TypeOK' /\ LoopInv'
<1>0. d \in Threads
  BY DispatcherAssumption
<1> USE DEF DispatcherInv
<1>1. CASE IsDestroyed(d)
  BY <1>1 DEF LoopInv, TypeOK, IsDestroyed, SetLoop, LoopState
<1>2. CASE Poll(d)
  BY <1>2 DEF LoopInv, TypeOK, Poll, dispatcherVars
<1>3. CASE RunJob(d)
  <2>1. <<d, func[d]>> \in Dispatchers \X Jobs
    BY <1>0, <1>3 DEF HandInv, RunJob, PollReturn
  <2>2. /\ ran' \in Seq(Dispatchers \X Jobs)
        /\ DOMAIN ran' = DOMAIN ran \cup {Len(ran) + 1}
        /\ \A i \in DOMAIN ran : ran'[i] = ran[i]
        /\ ran'[Len(ran) + 1] = <<d, func[d]>>
    BY <1>3, <2>1 DEF TypeOK, RunJob
  <2>3. TypeOK'
    BY <1>3, <2>2 DEF TypeOK, RunJob, SetLoop, LoopState
  <2>4. /\ mDestroyed' = mDestroyed
        /\ \A e \in Dispatchers : loop'[e] = IF e = d THEN "running" ELSE loop[e]
    BY <1>3 DEF TypeOK, RunJob, SetLoop
  <2>5. LoopInv'
    BY <2>2, <2>4 DEF LoopInv
  <2> QED BY <2>3, <2>5
<1>4. CASE JobReturns(d) \/ JobThrows(d)
  BY <1>4 DEF LoopInv, TypeOK, JobReturns, JobThrows, SetLoop, LoopState
<1> QED BY <1>1, <1>2, <1>3, <1>4 DEF LoopStep

\* Every step preserves the invariant.
LEMMA DispatcherStep == DispatcherInv /\ [Next]_vars => DispatcherInv'
<1> SUFFICES ASSUME DispatcherInv, [Next]_vars PROVE DispatcherInv'
  OBVIOUS
<1>1. IInv' /\ HandInv'
  BY QueueStepOrStutter, StepPreserves, HandPreserved DEF DispatcherInv
<1>2. QueueTypeOK'
  BY <1>1 DEF IInv
<1>3. ASSUME NEW t \in Threads, NEW d \in Dispatchers, NEW m \in {"start", "quit"},
             Call(t, d, m)
      PROVE  TypeOK' /\ LoopInv'
  <2>1. TypeOK'
    BY <1>2, <1>3, DispatcherAssumption DEF DispatcherInv, TypeOK, Call, Method
  <2>2. LoopInv'
    BY <1>3 DEF DispatcherInv, LoopInv, Call
  <2> QED BY <2>1, <2>2
<1>4. ASSUME NEW t \in Threads, NEW j \in Jobs, Enqueue(t, j)
      PROVE  TypeOK' /\ LoopInv'
  BY <1>2, <1>4 DEF DispatcherInv, TypeOK, LoopInv, Enqueue, dispatcherVars
<1>5. ASSUME UNCHANGED vars PROVE TypeOK' /\ LoopInv'
  BY <1>2, <1>5 DEF DispatcherInv, TypeOK, LoopInv, vars, dispatcherVars
<1>6. TypeOK' /\ LoopInv'
  BY <1>2, <1>3, <1>4, <1>5, MethodPreserves, LoopPreserves DEF Next
<1> QED BY <1>1, <1>6 DEF DispatcherInv

\* The invariant holds in every reachable state.
THEOREM DispatcherInvariance == Spec => []DispatcherInv
BY DispatcherInit, DispatcherStep, PTL DEF Spec

\* Type correctness of the composed system.
THEOREM DispatcherTypes == Spec => []TypeOK
<1>1. DispatcherInv => TypeOK
  BY DEF DispatcherInv
<1> QED BY DispatcherInvariance, <1>1, PTL

\* A dispatcher's thread that ended normally was told to quit and has run no job:
\* quit() ends no thread that has reached poll() once.
THEOREM OnlyIdleThreadsExit == Spec => []ExitsOnlyBeforeWork
<1>1. DispatcherInv => ExitsOnlyBeforeWork
  BY DEF DispatcherInv, LoopInv, ExitsOnlyBeforeWork
<1> QED BY DispatcherInvariance, <1>1, PTL

-----------------------------------------------------------------------------
(* The order in which jobs run. *)

Gone(s, j) == \E n \in DOMAIN s : s[n] = j
InOrder(s, j, k) == \E m, n \in DOMAIN s : m < n /\ s[m] = j /\ s[n] = k

\* A job has one position in the deque or in the history, not in both.
OnceInv ==
    /\ \A m, n \in DOMAIN mQueue : mQueue[m] = mQueue[n] => m = n
    /\ \A m \in DOMAIN mQueue : ~ Gone(delivered, mQueue[m])

\* A job that poll() is about to answer has left the queue, after all that the same thread
\* has run, is in nobody else's hands and has not run.
HeldInv ==
    \A t \in Threads :
        pc[t] = "pollReturn" =>
            /\ Gone(delivered, func[t])
            /\ \A i \in DOMAIN ran :
                  /\ ran[i][2] # func[t]
                  /\ ran[i][1] = t => InOrder(delivered, ran[i][2], func[t])
            /\ \A u \in Threads \ {t} : pc[u] = "pollReturn" => func[u] # func[t]

RanInv == \A i \in DOMAIN ran : Gone(delivered, ran[i][2])

OrderInv == OnceInv /\ HeldInv /\ RanInv /\ RunsInOrder

\* What is appended to a history comes after all that is in it.
LEMMA AppendIsLast ==
    ASSUME NEW S, NEW s \in Seq(S), NEW e \in S
    PROVE  /\ Gone(Append(s, e), e)
           /\ \A j : Gone(s, j) => Gone(Append(s, e), j) /\ InOrder(Append(s, e), j, e)
           /\ \A j : Gone(Append(s, e), j) => Gone(s, j) \/ j = e
           /\ \A j, k : InOrder(s, j, k) => InOrder(Append(s, e), j, k)
<1>1. /\ DOMAIN s = 1..Len(s) /\ Len(s) \in Nat
      /\ DOMAIN Append(s, e) = 1..Len(s) + 1
      /\ \A n \in DOMAIN s : Append(s, e)[n] = s[n]
      /\ Append(s, e)[Len(s) + 1] = e
  OBVIOUS
<1> DEFINE a == Append(s, e)
<1> HIDE DEF a
<1>2. DOMAIN s \subseteq DOMAIN a /\ Len(s) + 1 \in DOMAIN a /\ \A n \in DOMAIN s : n < Len(s) + 1
  BY <1>1 DEF a
<1>3. /\ \A n \in DOMAIN s : a[n] = s[n]
      /\ a[Len(s) + 1] = e
      /\ \A n \in DOMAIN a : n \in DOMAIN s \/ n = Len(s) + 1
  BY <1>1 DEF a
<1>4. Gone(a, e)
  BY <1>2, <1>3 DEF Gone
<1>5. \A j : Gone(s, j) => Gone(a, j) /\ InOrder(a, j, e)
  BY <1>2, <1>3 DEF Gone, InOrder
<1>6. \A j : Gone(a, j) => Gone(s, j) \/ j = e
  BY <1>3 DEF Gone
<1>7. \A j, k : InOrder(s, j, k) => InOrder(a, j, k)
  BY <1>2, <1>3 DEF InOrder
<1> QED BY <1>4, <1>5, <1>6, <1>7 DEF a

\* The job that poll() pops has not left the queue before.
LEMMA PopIsNew ==
    ASSUME IInv, OnceInv, NEW t \in Threads, PollPop(t)
    PROVE  ~ Gone(delivered, func[t])
<1>1. mQueue # <<>> /\ func[t] = Head(mQueue) /\ mQueue \in Seq(Jobs)
  BY DEF IInv, PopsWhatItCopied, PollPop, QueueTypeOK
<1>2. 1 \in DOMAIN mQueue /\ func[t] = mQueue[1]
  BY <1>1, EmptySeq
<1> QED BY <1>2 DEF OnceInv

\* What a step of the queue that pops nothing leaves alone.
LEMMA OthersStay ==
    ASSUME IInv, [QueueNext]_queueVars, ~ \E t \in Threads : PollPop(t)
    PROVE  /\ delivered' = delivered
           /\ \A u \in Threads :
                 pc'[u] = "pollReturn" => pc[u] = "pollReturn" /\ func'[u] = func[u]
<1> USE DEF IInv, QueueTypeOK
<1>1. ASSUME NEW t \in Threads, NEW l \in Location, NotifyOne(t, l), l # "pollReturn"
      PROVE  \A u \in Threads : pc'[u] = "pollReturn" => pc[u] = "pollReturn" /\ u # t
  BY <1>1 DEF NotifyOne, Goto, Parked
<1>2. ASSUME NEW t \in Threads,
             PollLock(t) \/ PollPark(t) \/ PollFront(t) \/ EnqueuePush(t)
      PROVE  /\ delivered' = delivered
             /\ \A u \in Threads :
                   pc'[u] = "pollReturn" => pc[u] = "pollReturn" /\ func'[u] = func[u]
  BY <1>2 DEF PollLock, PollPark, PollFront, EnqueuePush, Goto
<1>3. ASSUME NEW t \in Threads, InterruptPoll(t) \/ EnqueueNotify(t)
      PROVE  /\ delivered' = delivered
             /\ \A u \in Threads :
                   pc'[u] = "pollReturn" => pc[u] = "pollReturn" /\ func'[u] = func[u]
  BY <1>1, <1>3 DEF InterruptPoll, EnqueueNotify, Location
<1>4. ASSUME NEW t \in Threads, PollReturn(t) \/ QueueCall(t) \/ SpuriousWakeup(t)
      PROVE  /\ delivered' = delivered
             /\ \A u \in Threads :
                   pc'[u] = "pollReturn" => pc[u] = "pollReturn" /\ func'[u] = func[u]
  BY <1>4 DEF PollReturn, QueueCall, PollCall, InterruptCall, EnqueueCall, SpuriousWakeup,
     Goto
<1>5. CASE UNCHANGED queueVars
  BY <1>5 DEF queueVars
<1> QED BY <1>2, <1>3, <1>4, <1>5 DEF QueueNext, QueueStep

\* Pushing a job that is new and popping the front keep every job in one position.
LEMMA OncePreserved ==
    ASSUME IInv, OnceInv, [QueueNext]_queueVars
    PROVE  OnceInv'
<1> USE DEF IInv, QueueTypeOK
<1>1. ASSUME NEW t \in Threads, PollPop(t)
      PROVE  OnceInv'
  <2>1. mQueue # <<>> /\ func[t] = mQueue[1] /\ mQueue' = Tail(mQueue)
        /\ delivered' = Append(delivered, func[t]) /\ func[t] \in Jobs
    BY <1>1, EmptySeq DEF PopsWhatItCopied, PollPop
  <2>2. /\ DOMAIN mQueue = 1..Len(mQueue) /\ DOMAIN mQueue' = 1..Len(mQueue) - 1
        /\ Len(mQueue) \in Nat \ {0}
        /\ \A m \in DOMAIN mQueue' : m + 1 \in DOMAIN mQueue /\ mQueue'[m] = mQueue[m + 1]
    BY <2>1, EmptySeq
  <2>3. \A j : Gone(delivered', j) => Gone(delivered, j) \/ j = mQueue[1]
    BY <2>1, AppendIsLast
  <2>4. \A m, n \in DOMAIN mQueue' : mQueue'[m] = mQueue'[n] => m = n
    BY <2>2 DEF OnceInv
  <2>5. \A m \in DOMAIN mQueue' : ~ Gone(delivered', mQueue'[m])
    <3> SUFFICES ASSUME NEW m \in DOMAIN mQueue', Gone(delivered', mQueue'[m]) PROVE FALSE
      OBVIOUS
    <3>1. Gone(delivered, mQueue'[m]) \/ mQueue'[m] = mQueue[1]
      BY <2>3
    <3>2. mQueue'[m] = mQueue[m + 1] /\ m + 1 \in DOMAIN mQueue /\ 1 \in DOMAIN mQueue /\ m # 0
      BY <2>2
    <3> QED BY <3>1, <3>2, <2>2 DEF OnceInv
  <2> QED BY <2>4, <2>5 DEF OnceInv
<1>2. ASSUME NEW t \in Threads, EnqueuePush(t)
      PROVE  OnceInv'
  <2>1. /\ mQueue' = Append(mQueue, func[t]) /\ delivered' = delivered /\ func[t] \in Jobs
        /\ func[t] \notin Fifo!Members(mQueue) \cup Fifo!Members(delivered)
    BY <1>2 DEF EnqueuePush, ArgInv, FreshInv, Places
  <2>2. /\ \A m \in DOMAIN mQueue : mQueue[m] # func[t]
        /\ ~ Gone(delivered, func[t])
    BY <2>1 DEF Fifo!Members, Gone
  <2>3. /\ DOMAIN mQueue = 1..Len(mQueue) /\ DOMAIN mQueue' = 1..Len(mQueue) + 1
        /\ Len(mQueue) \in Nat
        /\ \A m \in DOMAIN mQueue : mQueue'[m] = mQueue[m]
        /\ mQueue'[Len(mQueue) + 1] = func[t]
    BY <2>1
  <2> QED BY <2>1, <2>2, <2>3 DEF OnceInv, Gone
<1>3. CASE UNCHANGED <<mQueue, delivered>>
  BY <1>3 DEF OnceInv, Gone
<1>4. UNCHANGED <<mQueue, delivered>> \/ \E t \in Threads : PollPop(t) \/ EnqueuePush(t)
  BY DEF QueueNext, QueueStep, QueueCall, PollLock, PollPark, PollFront, InterruptPoll,
     EnqueueNotify, PollReturn, PollCall, InterruptCall, EnqueueCall, SpuriousWakeup, queueVars
<1> QED BY <1>1, <1>2, <1>3, <1>4

\* A pop puts one job behind all that were popped.
LEMMA PopKeepsOrder ==
    ASSUME DispatcherInv, OrderInv, NEW t \in Threads, PollPop(t), ran' = ran
    PROVE  HeldInv' /\ RanInv' /\ RunsInOrder'
<1>1. /\ delivered' = Append(delivered, func[t]) /\ delivered \in Seq(Jobs) /\ func[t] \in Jobs
      /\ func' = func /\ pc' = [pc EXCEPT ![t] = "pollReturn"] /\ pc[t] = "pollPop"
      /\ pc \in [Threads -> Location]
  BY MembersOfTail
     DEF DispatcherInv, IInv, QueueTypeOK, PopsWhatItCopied, PollPop, Goto
<1>2. ~ Gone(delivered, func[t])
  BY PopIsNew DEF DispatcherInv, OrderInv
<1>3. /\ \A j : Gone(delivered, j) => Gone(delivered', j) /\ InOrder(delivered', j, func[t])
      /\ Gone(delivered', func[t])
  BY <1>1, AppendIsLast
<1>4. \A j, k : InOrder(delivered, j, k) => InOrder(delivered', j, k)
  BY <1>1, AppendIsLast
<1>5. RanInv'
  BY <1>3 DEF OrderInv, RanInv
<1>6. RunsInOrder'
  <2>1. \A i, k : Before(i, k) <=> InOrder(delivered, ran[i][2], ran[k][2])
    BY DEF Before, InOrder
  <2>2. \A i, k : Before(i, k)' <=> InOrder(delivered', ran[i][2], ran[k][2])
    BY DEF Before, InOrder
  <2> QED BY <1>4, <2>1, <2>2 DEF OrderInv, RunsInOrder
<1>7. HeldInv'
  <2> SUFFICES ASSUME NEW u \in Threads, pc'[u] = "pollReturn"
               PROVE  /\ Gone(delivered', func[u])
                      /\ \A i \in DOMAIN ran :
                            /\ ran[i][2] # func[u]
                            /\ ran[i][1] = u => InOrder(delivered', ran[i][2], func[u])
                      /\ \A v \in Threads \ {u} : pc'[v] = "pollReturn" => func[v] # func[u]
    BY <1>1 DEF HeldInv
  <2>1. \A v \in Threads \ {t} : pc'[v] = pc[v]
    BY <1>1
  <2>2. CASE u = t
    BY <1>2, <1>3, <2>1, <2>2 DEF OrderInv, HeldInv, RanInv
  <2>3. CASE u # t
    BY <1>2, <1>3, <1>4, <2>1, <2>3 DEF OrderInv, HeldInv
  <2> QED BY <2>2, <2>3
<1> QED BY <1>5, <1>6, <1>7

\* A job that begins to run is the one its thread holds.
LEMMA RunKeepsOrder ==
    ASSUME DispatcherInv, OrderInv, NEW d \in Dispatchers, RunJob(d)
    PROVE  HeldInv' /\ RanInv' /\ RunsInOrder'
<1>1. /\ d \in Threads /\ pc[d] = "pollReturn" /\ func[d] \in Jobs /\ delivered' = delivered
      /\ pc' = [pc EXCEPT ![d] = "idle"] /\ func' = [func EXCEPT ![d] = NoJob]
      /\ ran' = Append(ran, <<d, func[d]>>) /\ ran \in Seq(Dispatchers \X Jobs)
      /\ pc \in [Threads -> Location] /\ func \in [Threads -> Jobs \cup {NoJob}]
  BY DispatcherAssumption
     DEF DispatcherInv, HandInv, TypeOK, QueueTypeOK, RunJob, PollReturn, Goto
<1>2. /\ DOMAIN ran = 1..Len(ran) /\ Len(ran) \in Nat
      /\ DOMAIN ran' = 1..Len(ran) + 1
      /\ \A i \in DOMAIN ran : ran'[i] = ran[i]
      /\ ran'[Len(ran) + 1] = <<d, func[d]>>
  BY <1>1
<1>3. RanInv'
  BY <1>1, <1>2 DEF OrderInv, HeldInv, RanInv, Gone
<1>4. HeldInv'
  <2> SUFFICES ASSUME NEW u \in Threads, pc'[u] = "pollReturn"
               PROVE  /\ Gone(delivered, func'[u])
                      /\ \A i \in DOMAIN ran' :
                            /\ ran'[i][2] # func'[u]
                            /\ ran'[i][1] = u => InOrder(delivered, ran'[i][2], func'[u])
                      /\ \A v \in Threads \ {u} : pc'[v] = "pollReturn" => func'[v] # func'[u]
    BY <1>1 DEF HeldInv, Gone, InOrder
  <2>1. u # d /\ \A v \in Threads \ {d} : pc'[v] = pc[v] /\ func'[v] = func[v]
    BY <1>1
  <2>2. func[u] # func[d] /\ pc[u] = "pollReturn"
    BY <1>1, <2>1 DEF OrderInv, HeldInv
  <2>3. \A v \in Threads \ {u} : pc'[v] = "pollReturn" => v # d
    BY <1>1
  <2> QED BY <1>1, <1>2, <2>1, <2>2, <2>3 DEF OrderInv, HeldInv
<1>5. RunsInOrder'
  <2> SUFFICES ASSUME NEW i \in DOMAIN ran', NEW k \in DOMAIN ran', i < k
               PROVE  /\ ran'[i][2] # ran'[k][2]
                      /\ ran'[i][1] = ran'[k][1] => InOrder(delivered, ran'[i][2], ran'[k][2])
    BY <1>1 DEF RunsInOrder, Before, InOrder
  <2>1. i \in DOMAIN ran
    BY <1>2
  <2>2. CASE k \in DOMAIN ran
    BY <1>2, <2>1, <2>2 DEF OrderInv, RunsInOrder, Before, InOrder
  <2>3. CASE k = Len(ran) + 1
    BY <1>1, <1>2, <2>1, <2>3 DEF OrderInv, HeldInv
  <2> QED BY <1>2, <2>2, <2>3
<1> QED BY <1>3, <1>4, <1>5

\* Every other step leaves what has run and what is held as they are.
LEMMA OrderStep == DispatcherInv /\ OrderInv /\ [Next]_vars => OrderInv'
<1> SUFFICES ASSUME DispatcherInv, OrderInv, [Next]_vars PROVE OrderInv'
  OBVIOUS
<1>1. [QueueNext]_queueVars
  BY QueueStepOrStutter
<1>2. OnceInv'
  BY <1>1, OncePreserved DEF DispatcherInv, OrderInv
<1>3. ran' = ran \/ \E d \in Dispatchers : RunJob(d)
  BY DEF Next, vars, dispatcherVars, MethodStep, Start, QuitEnter, QuitExit, Queue, Spurious,
     Call, Enqueue, LoopStep, IsDestroyed, Poll, JobReturns, JobThrows
<1>4. CASE \E d \in Dispatchers : RunJob(d)
  BY <1>2, <1>4, RunKeepsOrder DEF OrderInv
<1>5. CASE ran' = ran /\ \E t \in Threads : PollPop(t)
  BY <1>2, <1>5, PopKeepsOrder DEF OrderInv
<1>6. CASE ran' = ran /\ ~ \E t \in Threads : PollPop(t)
  <2>1. /\ delivered' = delivered
        /\ \A u \in Threads :
              pc'[u] = "pollReturn" => pc[u] = "pollReturn" /\ func'[u] = func[u]
    BY <1>1, <1>6, OthersStay DEF DispatcherInv
  <2>2. HeldInv'
    BY <1>6, <2>1 DEF OrderInv, HeldInv, Gone, InOrder
  <2>3. RanInv' /\ RunsInOrder'
    BY <1>6, <2>1 DEF OrderInv, RanInv, RunsInOrder, Before, Gone
  <2> QED BY <1>2, <2>2, <2>3 DEF OrderInv
<1> QED BY <1>3, <1>4, <1>5, <1>6

\* A job runs at most once, and each dispatcher runs its jobs in the order in which they were
\* enqueued, whatever the others take from the same queue.
THEOREM JobsRunInOrder == Spec => []RunsInOrder
<1>1. Init => OrderInv
  BY DispatcherAssumption
     DEF Init, QueueInit, OrderInv, OnceInv, HeldInv, RanInv, RunsInOrder
<1>2. OrderInv => RunsInOrder
  BY DEF OrderInv
<1> QED BY <1>1, <1>2, OrderStep, DispatcherInvariance, PTL DEF Spec
=============================================================================
