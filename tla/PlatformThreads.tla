--------------------------- MODULE PlatformThreads ---------------------------
(***************************************************************************)
(* extension-libs/platform-threads: the implementations of the interface   *)
(* PlatformThreads, whose createThread() starts a thread that runs a       *)
(* function.  The C++ one detaches a std::thread and configures it from    *)
(* within; those of Java, of Android (which extends it) and of Objective-C *)
(* configure the thread object before they start it.                       *)
(*                                                                         *)
(* Nobody joins these threads: who created one may drop the function, and  *)
(* the implementation itself, before the thread has used either.  So the   *)
(* state is who holds a strong reference to what: a shared_ptr, one that   *)
(* ARC counts, or one that Java's collector finds.                         *)
(***************************************************************************)
CONSTANTS
    Workers,      \* threads to create
    Funcs,        \* ThreadFuncs, and what else a thread needs: ...
    Hook,         \* ... the function or block that configures, with what owns it
    CallsVM,      \* the functions that call into the VM
    App           \* the application, among the holders of references

ASSUME ThreadsAssumption ==
    /\ Hook \notin Funcs
    /\ CallsVM \subseteq Funcs
    /\ App \notin Workers

VARIABLES
    library,      \* which implementation, and whether it configures
    worker,       \* where each thread is
    runs,         \* the function of each
    holders,      \* who has a strong reference to each function and to the hook
    attached,     \* the threads that the VM knows
    process       \* "runs", "terminated" by an exception, or "aborted" by djinni

threadVars == <<library, worker, runs, holders, attached, process>>

Libraries == [by : {"cpp", "java", "android", "objc"}, configures : BOOLEAN]
OfJava == {"java", "android"}

WorkerStates == {"none", "created", "started", "configured", "running", "ended", "died"}

ThreadInit ==
    /\ library \in Libraries
    /\ worker = [w \in Workers |-> "none"]
    /\ runs \in [Workers -> Funcs]
    /\ holders = [f \in Funcs \cup {Hook} |-> {App}]
    /\ attached = {}
    /\ process = "runs"

Owned(f) == holders[f] # {}

Goes(w, from, to) ==
    /\ process = "runs"
    /\ worker[w] = from
    /\ worker' = [worker EXCEPT ![w] = to]
    /\ UNCHANGED <<library, runs>>

Takes(w, F) == holders' = [f \in DOMAIN holders |->
                             IF f \in F THEN holders[f] \cup {w} ELSE holders[f]]
Drops(w) == holders' = [f \in DOMAIN holders |-> holders[f] \ {w}]

\* Faulty variant: the closure captures `this` to get at m_func_on_thread_start.
Captured_This(w) == {runs[w]}

\* What the closure of a std::thread captures: func, and start_func, a copy of the shared_ptr.
\* In Java and Objective-C the thread object holds the function alone.
Captured(w) == {runs[w]} \cup (IF library.by = "cpp" THEN {Hook} ELSE {})

\* createThread(), with a function and an implementation that the caller has.
CreateThread(w) ==
    /\ {runs[w], Hook} \subseteq {f \in DOMAIN holders : App \in holders[f]}
    /\ Goes(w, "none", IF library.by = "cpp" THEN "started" ELSE "created")
    /\ Takes(w, Captured(w))
    /\ UNCHANGED <<attached, process>>

\* configureThread(thread), _cfgBlock(thread), on the thread that creates; when it throws,
\* the thread object is dropped and never starts.
ConfigureFromOutside(w) ==
    /\ library.by # "cpp"
    /\ \/ Goes(w, "created", "configured") /\ UNCHANGED holders
       \/ Goes(w, "created", "died") /\ library.configures /\ Drops(w)
    /\ UNCHANGED <<attached, process>>

\* thread.start(): Java makes a thread of its own.
StartThread(w) ==
    /\ library.by # "cpp"
    /\ Goes(w, "configured", "running")
    /\ attached' = IF library.by \in OfJava THEN attached \cup {w} ELSE attached
    /\ UNCHANGED <<holders, process>>

\* (*start_func)(), on the new thread, if there is a function and it is not empty: it may attach
\* the thread to the VM or do something else, and nobody catches what it throws.
ConfigureFromInside(w) ==
    /\ library.by = "cpp"
    /\ \/ /\ Goes(w, "started", "running")
          /\ \/ attached' = attached
             \/ library.configures /\ attached' = attached \cup {w}
          /\ UNCHANGED process
       \/ /\ Goes(w, "started", "died") /\ library.configures
          /\ process' = "terminated" /\ UNCHANGED attached
    /\ UNCHANGED holders

\* run_func->run() throws: std::terminate() under C++ and Objective-C.  In Java the thread ends
\* and drops what it held; Android's handler of uncaught exceptions ends the process.
Escapes(w) ==
    /\ Goes(w, "running", "died")
    /\ IF library.by = "java" THEN Drops(w) ELSE UNCHANGED holders
    /\ process' = IF library.by = "java" THEN "runs" ELSE "terminated"
    /\ UNCHANGED attached

\* There is no VM next to Objective-C.
NeedsVM(w) == library.by # "objc" /\ runs[w] \in CallsVM

\* run_func->run() returns, and the closure or the thread object is destroyed on this thread; a
\* function that calls into the VM gets an abort from jniGetThreadEnv() if the thread is
\* not attached.
Runs(w) ==
    /\ \/ /\ NeedsVM(w) /\ w \notin attached
          /\ Goes(w, "running", "running")
          /\ process' = "aborted" /\ UNCHANGED holders
       \/ /\ NeedsVM(w) => w \in attached
          /\ Goes(w, "running", "ended")
          /\ Drops(w) /\ UNCHANGED process
    /\ UNCHANGED attached

\* The application drops a function, or the implementation with its hook; not from within
\* createThread().
Forget(f) ==
    /\ process = "runs"
    /\ App \in holders[f]
    /\ f = Hook => \A w \in Workers : worker[w] \notin {"created", "configured"}
    /\ holders' = [holders EXCEPT ![f] = @ \ {App}]
    /\ UNCHANGED <<library, worker, runs, attached, process>>

ThreadNext ==
    \/ \E w \in Workers :
        \/ CreateThread(w) \/ ConfigureFromOutside(w) \/ StartThread(w)
        \/ ConfigureFromInside(w) \/ Escapes(w) \/ Runs(w)
    \/ \E f \in Funcs \cup {Hook} : Forget(f)

ThreadSpec == ThreadInit /\ [][ThreadNext]_threadVars

-----------------------------------------------------------------------------

\* What thread w has still to call.
Needs(w) ==
    CASE worker[w] \in {"created", "started"} -> {Hook, runs[w]}
      [] worker[w] \in {"configured", "running"} -> {runs[w]}
      [] OTHER -> {}

\* Whoever dropped them meanwhile, a thread that nobody joins finds its function and the hook
\* alive when it comes to them, and once the threads that were to run a function are gone and
\* the application has dropped it, nothing keeps it (platform_threads_impl.hpp:56).
ThreadsKeepWhatTheyNeed ==
    process = "runs" =>
        /\ \A w \in Workers : \A f \in Needs(w) : Owned(f)
        /\ \A f \in Funcs :
            Owned(f) => App \in holders[f] \/ \E w \in Workers : f \in Needs(w)
=============================================================================
