----------------------------- MODULE JniRuntime -----------------------------
(***************************************************************************)
(* support-lib/jni/djinni_support.cpp and .hpp: loading the library and    *)
(* initializing the classes, calls in both directions and any nesting of   *)
(* them, exceptions that cross the border in both directions, and global   *)
(* references.  The variable custom says whether the program is linked     *)
(* with extension-libs/jni-exceptions/custom_exception_type.cpp, which     *)
(* replaces both translations of exceptions.                               *)
(*                                                                         *)
(* A Java thread is attached to the VM; a C++ thread, which C++ code       *)
(* started, is not.                                                        *)
(***************************************************************************)
EXTENDS Integers, Sequences, FiniteSets

CONSTANTS
    JavaThreads, CppThreads,
    Initializers,    \* the registered classes, in the order of their registration
    None,
    MaxDepth,        \* calls nested on one thread
    MaxThrows,       \* throwables that are ever made
    MaxProxies       \* JavaProxy objects alive at once

Threads == JavaThreads \cup CppThreads
Registered == {Initializers[i] : i \in DOMAIN Initializers}

VARIABLES
    custom,      \* whether the exception hooks are replaced
    process,     \* "running", or how it ended
    vm,          \* g_cachedJVM is set
    library,     \* the shared library: unloaded, loading, loaded, failed, closed
    todo,        \* the initializers that jniInit() has not run
    singletons,  \* the classes C with JniClass<C>::s_singleton set
    stack,       \* per thread: whose code is active, innermost last
    pending,     \* per thread: the exception pending in the VM
    thrown,      \* per thread: the C++ exception in flight
    raised,      \* history, per thread: the throwable that was thrown and not handled
    kept,        \* an exception that C++ code stored in a std::exception_ptr
    proxies,     \* the number of JavaProxy objects
    globals,     \* the number of global references, the classes' not counted
    leaked,      \* history: how many of them were given up without being deleted
    born         \* the number of throwables made so far

libraryVars == <<vm, library, todo, singletons>>
threadVars  == <<stack, pending, thrown, raised>>
refVars     == <<kept, proxies, globals, leaked>>
vars == <<custom, process, libraryVars, threadVars, refVars, born>>

\* A MutedSecurity is a SecurityException that has no message.
Throwable ==
    [class : {"App", "Security", "MutedSecurity", "Runtime", "Error", "NoClass", "Memory"},
     id : 1..MaxThrows]

\* jni_exception has a global reference to the throwable; my_security_exception copies its
\* message; std is any other std::exception and other is anything else.
Exception == [type : {"jni", "security", "std", "other"}, java : Throwable \cup {None}]

\* What a std::exception_ptr holds, and (history) the throwable it came from.
Kept == [exception : Exception, raised : Throwable \cup {None}]

ASSUME RuntimeAssumption ==
    /\ JavaThreads \cap CppThreads = {}
    /\ IsFiniteSet(Threads)
    /\ MaxDepth \in Nat /\ MaxThrows \in Nat /\ MaxProxies \in Nat
    /\ Initializers \in Seq(Registered)
    /\ {"SystemClassInfo", "SecurityExceptionClassInfo"} \subseteq Registered
    /\ None \notin Throwable \cup Exception \cup Kept

Top(s) == s[Len(s)]
Pop(s) == SubSeq(s, 1, Len(s) - 1)

In(t, codes) == process = "running" /\ Top(stack[t]) \in codes
InJava(t) == In(t, {"java"}) /\ pending[t] = None
InCpp(t) == In(t, {"native", "cpp"}) /\ thrown[t] = None

IsJni(x) == x # None /\ x.type = "jni"

-----------------------------------------------------------------------------
Init ==
    /\ custom \in BOOLEAN
    /\ process = "running"
    /\ vm = FALSE
    /\ library = "unloaded"
    /\ todo = <<>>
    /\ singletons = {}
    /\ stack = [t \in Threads |-> IF t \in JavaThreads THEN <<"java">> ELSE <<"cpp">>]
    /\ pending = [t \in Threads |-> None]
    /\ thrown = [t \in Threads |-> None]
    /\ raised = [t \in Threads |-> None]
    /\ kept = None
    /\ proxies = 0
    /\ globals = 0
    /\ leaked = 0
    /\ born = 0

Enter(t, codes) == stack' = [stack EXCEPT ![t] = @ \o codes]
Leave(t) == stack' = [stack EXCEPT ![t] = Pop(@)]

\* The VM has an exception pending; a C++ exception is in flight; it is over.
Raise(t, e) ==
    /\ pending' = [pending EXCEPT ![t] = e]
    /\ raised' = [raised EXCEPT ![t] = e]

Throw(t, x, e) ==
    /\ thrown' = [thrown EXCEPT ![t] = x]
    /\ raised' = [raised EXCEPT ![t] = e]

\* The next throwable that is made.
New(class) == [class |-> class, id |-> born + 1]
Make == born < MaxThrows /\ born' = born + 1

\* ~GlobalRef(): deletes the reference, unless the thread is not attached or the VM is gone.
Release(t, n) ==
    IF vm /\ t \in JavaThreads
    THEN globals' = globals - n /\ UNCHANGED leaked
    ELSE leaked' = leaked + n /\ UNCHANGED globals

-----------------------------------------------------------------------------
(* Loading: JNI_OnLoad() runs jniInit(), which runs the initializers. *)

LoadLibrary(t) ==
    /\ InJava(t) /\ Len(stack[t]) = 1
    /\ library = "unloaded"
    /\ library' = "loading"
    /\ vm' = TRUE
    /\ todo' = Initializers
    /\ Enter(t, <<"onload">>)
    /\ UNCHANGED <<custom, process, singletons, pending, thrown, raised, refVars, born>>

\* allocate(): jniFindClass() and the other lookups find what they are asked for.
RunInitializer(t) ==
    /\ In(t, {"onload"}) /\ todo # <<>>
    /\ singletons' = singletons \cup {Head(todo)}
    /\ todo' = Tail(todo)
    /\ UNCHANGED <<custom, process, vm, library, threadVars, refVars, born>>

\* Faulty variant: the exception is swallowed and the VM never hears of it.
InitializerFails_Silent(t) ==
    /\ In(t, {"onload"}) /\ todo # <<>>
    /\ Make
    /\ todo' = <<>>
    /\ library' = "loaded"
    /\ Leave(t)
    /\ UNCHANGED <<custom, process, vm, singletons, pending, thrown, raised, refVars>>

\* One is missing: jniExceptionCheck() throws it, jniInit() catches it and sets it pending
\* again, and the initializers that have not run never will.
InitializerFails(t) ==
    /\ In(t, {"onload"}) /\ todo # <<>>
    /\ custom => "SecurityExceptionClassInfo" \in singletons
    /\ Make
    /\ todo' = <<>>
    /\ library' = "failed"
    /\ Leave(t)
    /\ Raise(t, New("NoClass"))
    /\ UNCHANGED <<custom, process, vm, singletons, thrown, refVars>>

\* The hook that jniExceptionCheck() calls asks for its own class, which is not there yet.
InitializerFailsInHook(t) ==
    /\ In(t, {"onload"}) /\ todo # <<>>
    /\ custom /\ "SecurityExceptionClassInfo" \notin singletons
    /\ process' = "undefined"
    /\ UNCHANGED <<custom, libraryVars, threadVars, refVars, born>>

OnLoadReturns(t) ==
    /\ In(t, {"onload"}) /\ todo = <<>>
    /\ library' = "loaded"
    /\ Leave(t)
    /\ UNCHANGED <<custom, process, vm, todo, singletons, pending, thrown, raised, refVars,
                   born>>

\* JNI_OnUnload(), jniShutdown(): the VM unloads a library when nobody is in it.
UnloadLibrary(t) ==
    /\ InJava(t)
    /\ library = "loaded"
    /\ \A s \in JavaThreads : Len(stack[s]) = 1
    /\ library' = "closed"
    /\ vm' = FALSE
    /\ UNCHANGED <<custom, process, todo, singletons, threadVars, refVars, born>>

-----------------------------------------------------------------------------
(* Java code *)

\* A native method of a CppProxy.  On Android it can still be called when loading failed.
CallNative(t) ==
    /\ InJava(t)
    /\ library \in {"loaded", "failed"}
    /\ Len(stack[t]) < MaxDepth
    /\ Enter(t, <<"native">>)
    /\ UNCHANGED <<custom, process, libraryVars, pending, thrown, raised, refVars, born>>

\* A Java method that C++ called returns, throws, or does not catch what it was thrown.
JavaReturns(t) ==
    /\ InJava(t) /\ Len(stack[t]) > 1
    /\ Leave(t)
    /\ UNCHANGED <<custom, process, libraryVars, pending, thrown, raised, refVars, born>>

JavaThrows(t, class) ==
    /\ InJava(t) /\ Len(stack[t]) > 1
    /\ Make
    /\ Leave(t)
    /\ Raise(t, New(class))
    /\ UNCHANGED <<custom, process, libraryVars, thrown, refVars>>

JavaPassesOn(t) ==
    /\ In(t, {"java"}) /\ pending[t] # None /\ Len(stack[t]) > 1
    /\ Leave(t)
    /\ UNCHANGED <<custom, process, libraryVars, pending, thrown, raised, refVars, born>>

JavaCatches(t) ==
    /\ In(t, {"java"}) /\ pending[t] # None
    /\ Raise(t, None)
    /\ UNCHANGED <<custom, process, libraryVars, stack, thrown, refVars, born>>

-----------------------------------------------------------------------------
(* C++ code, and the methods of its JavaProxy objects *)

\* jniGetThreadEnv() where there is no environment: std::abort() on a thread that is not
\* attached, and a null pointer when the VM is gone.
Dies(t) ==
    /\ ~ vm \/ t \in CppThreads
    /\ process' = IF vm THEN "aborted" ELSE "undefined"

\* An argument of an interface type: _fromJava() makes a JavaProxy, and C++ code keeps it.
TakeProxy(t) ==
    /\ InCpp(t) /\ t \in JavaThreads
    /\ Registered = singletons
    /\ proxies < MaxProxies
    /\ proxies' = proxies + 1
    /\ globals' = globals + 1
    /\ UNCHANGED <<custom, process, libraryVars, threadVars, kept, leaked, born>>

\* C++ code drops the last reference to a JavaProxy, possibly because an exception passes:
\* ~Handle() takes it out of the JavaProxyCache, whose hash function needs the environment,
\* and then deletes the global reference.
DropProxy(t) ==
    /\ In(t, {"native", "cpp"})
    /\ proxies > 0
    /\ vm /\ t \in JavaThreads
    /\ proxies' = proxies - 1
    /\ Release(t, 1)
    /\ UNCHANGED <<custom, process, libraryVars, threadVars, kept, born>>

DropProxyDies(t) ==
    /\ In(t, {"native", "cpp"})
    /\ proxies > 0
    /\ proxies' = proxies - 1
    /\ Dies(t)
    /\ UNCHANGED <<custom, libraryVars, threadVars, kept, globals, leaked, born>>

\* JniClass<C>::get() of a class whose initializer did not run.
UseMissingClass(t) ==
    /\ InCpp(t) /\ t \in JavaThreads
    /\ Registered # singletons
    /\ process' = "undefined"
    /\ UNCHANGED <<custom, libraryVars, threadVars, refVars, born>>

CallProxy(t) ==
    /\ InCpp(t) /\ t \in JavaThreads /\ proxies > 0
    /\ Len(stack[t]) + 1 < MaxDepth
    /\ Enter(t, <<"proxy", "java">>)
    /\ UNCHANGED <<custom, process, libraryVars, pending, thrown, raised, refVars, born>>

CallProxyDies(t) ==
    /\ InCpp(t) /\ proxies > 0
    /\ Dies(t)
    /\ UNCHANGED <<custom, libraryVars, threadVars, refVars, born>>

\* PushLocalFrame or the marshalling of an argument fails: an OutOfMemoryError is pending.
CallProxyFails(t) ==
    /\ InCpp(t) /\ t \in JavaThreads /\ proxies > 0
    /\ Make
    /\ Throw(t, [type |-> "jni", java |-> New("Memory")], New("Memory"))
    /\ globals' = globals + 1
    /\ UNCHANGED <<custom, process, libraryVars, stack, pending, kept, proxies, leaked>>

ProxyReturns(t) ==
    /\ In(t, {"proxy"}) /\ pending[t] = None
    /\ Leave(t)
    /\ UNCHANGED <<custom, process, libraryVars, pending, thrown, raised, refVars, born>>

\* Faulty variant: what is pending stays pending while the C++ exception is in flight.
ProxyRethrows_NotCleared(t) ==
    LET e == pending[t] IN
    /\ In(t, {"proxy"}) /\ e # None
    /\ ~ (custom /\ e.class \in {"Security", "MutedSecurity"})
    /\ Leave(t)
    /\ thrown' = [thrown EXCEPT ![t] = [type |-> "jni", java |-> e]]
    /\ globals' = globals + 1
    /\ UNCHANGED <<custom, process, libraryVars, pending, raised, kept, proxies, leaked, born>>

\* jniExceptionCheck() after the call: clears what is pending and throws it as jni_exception,
\* or, when the hook is linked, as what the hook makes of it.
ProxyRethrows(t) ==
    LET e == pending[t] IN
    /\ In(t, {"proxy"}) /\ e # None
    /\ ~ (custom /\ e.class \in {"Security", "MutedSecurity"})
    /\ Leave(t)
    /\ pending' = [pending EXCEPT ![t] = None]
    /\ thrown' = [thrown EXCEPT ![t] = [type |-> "jni", java |-> e]]
    /\ globals' = globals + 1
    /\ UNCHANGED <<custom, process, libraryVars, raised, kept, proxies, leaked, born>>

ProxyRethrowsSecurity(t) ==
    LET e == pending[t] IN
    /\ In(t, {"proxy"}) /\ e # None
    /\ custom /\ e.class = "Security"
    /\ Leave(t)
    /\ pending' = [pending EXCEPT ![t] = None]
    /\ thrown' = [thrown EXCEPT ![t] = [type |-> "security", java |-> None]]
    /\ UNCHANGED <<custom, process, libraryVars, raised, refVars, born>>

\* The hook reads the message without a check for null: jniUTF8FromString() asserts, and an
\* Error takes the place of the SecurityException.
ProxyRethrowsMuted(t) ==
    LET e == pending[t] IN
    /\ In(t, {"proxy"}) /\ e # None
    /\ custom /\ e.class = "MutedSecurity"
    /\ Make
    /\ Leave(t)
    /\ pending' = [pending EXCEPT ![t] = None]
    /\ thrown' = [thrown EXCEPT ![t] = [type |-> "jni", java |-> New("Error")]]
    /\ globals' = globals + 1
    /\ UNCHANGED <<custom, process, libraryVars, raised, kept, proxies, leaked>>

\* Any other code of C++ throws; catches; and stores an exception for later.
CppThrows(t, type) ==
    /\ InCpp(t)
    /\ Throw(t, [type |-> type, java |-> None], None)
    /\ UNCHANGED <<custom, process, libraryVars, stack, pending, refVars, born>>

CppCatches(t) ==
    /\ In(t, {"native", "cpp"}) /\ thrown[t] # None
    /\ Throw(t, None, None)
    /\ IF IsJni(thrown[t]) THEN Release(t, 1) ELSE UNCHANGED <<globals, leaked>>
    /\ UNCHANGED <<custom, process, libraryVars, stack, pending, kept, proxies, born>>

CppKeeps(t) ==
    /\ In(t, {"native", "cpp"}) /\ thrown[t] # None /\ kept = None
    /\ kept' = [exception |-> thrown[t], raised |-> raised[t]]
    /\ Throw(t, None, None)
    /\ UNCHANGED <<custom, process, libraryVars, stack, pending, proxies, globals, leaked,
                   born>>

RethrowKept(t) ==
    /\ InCpp(t) /\ kept # None
    /\ Throw(t, kept.exception, kept.raised)
    /\ kept' = None
    /\ UNCHANGED <<custom, process, libraryVars, stack, pending, proxies, globals, leaked,
                   born>>

DropKept(t) ==
    /\ In(t, {"native", "cpp"}) /\ kept # None
    /\ kept' = None
    /\ IF IsJni(kept.exception) THEN Release(t, 1) ELSE UNCHANGED <<globals, leaked>>
    /\ UNCHANGED <<custom, process, libraryVars, threadVars, proxies, born>>

NativeReturns(t) ==
    /\ In(t, {"native"}) /\ thrown[t] = None
    /\ Leave(t)
    /\ UNCHANGED <<custom, process, libraryVars, pending, thrown, raised, refVars, born>>

\* Faulty variant: the reference is not deleted.
NativeThrowsJni_Leaks(t) ==
    /\ In(t, {"native"}) /\ IsJni(thrown[t])
    /\ Leave(t)
    /\ pending' = [pending EXCEPT ![t] = thrown[t].java]
    /\ thrown' = [thrown EXCEPT ![t] = None]
    /\ UNCHANGED <<custom, process, libraryVars, raised, refVars, born>>

\* JNI_TRANSLATE_EXCEPTIONS_RETURN: jniSetPendingFromCurrent() makes a Java exception of the
\* C++ one.  A jni_exception is the throwable itself, whose reference goes with it.
NativeThrowsJni(t) ==
    /\ In(t, {"native"}) /\ IsJni(thrown[t])
    /\ Leave(t)
    /\ pending' = [pending EXCEPT ![t] = thrown[t].java]
    /\ thrown' = [thrown EXCEPT ![t] = None]
    /\ Release(t, 1)
    /\ UNCHANGED <<custom, process, libraryVars, raised, kept, proxies, born>>

\* Faulty variant: the hook's catch clause is missing.
NativeThrowsNew_NoHook(t) ==
    LET x == thrown[t]
        e == New("Runtime")
    IN  /\ In(t, {"native"}) /\ x # None /\ x.type \in {"security", "std"}
        /\ Make
        /\ Leave(t)
        /\ pending' = [pending EXCEPT ![t] = e]
        /\ thrown' = [thrown EXCEPT ![t] = None]
        /\ raised' = [raised EXCEPT ![t] = IF @ = None THEN e ELSE @]
        /\ UNCHANGED <<custom, process, libraryVars, refVars>>

\* A new SecurityException for my_security_exception; a RuntimeException for the others.
NativeThrowsNew(t) ==
    LET x == thrown[t]
        e == New(IF x.type = "security" THEN "Security" ELSE "Runtime")
    IN  /\ In(t, {"native"}) /\ x # None /\ x.type \in {"security", "std"}
        /\ Make
        /\ Leave(t)
        /\ pending' = [pending EXCEPT ![t] = e]
        /\ thrown' = [thrown EXCEPT ![t] = None]
        /\ raised' = [raised EXCEPT ![t] = IF @ = None THEN e ELSE @]
        /\ UNCHANGED <<custom, process, libraryVars, refVars>>

\* What is no std::exception leaves a native method uncaught; anything leaves a thread.
Terminates(t) ==
    /\ process = "running" /\ thrown[t] # None
    /\ \/ Top(stack[t]) = "native" /\ thrown[t].type = "other"
       \/ Top(stack[t]) = "cpp"
    /\ process' = "terminated"
    /\ UNCHANGED <<custom, libraryVars, threadVars, refVars, born>>

-----------------------------------------------------------------------------
Next ==
    \/ \E t \in Threads :
          \/ DropProxy(t) \/ DropProxyDies(t) \/ CallProxyDies(t)
          \/ \E type \in {"std", "other"} : CppThrows(t, type)
          \/ CppCatches(t) \/ CppKeeps(t) \/ RethrowKept(t) \/ DropKept(t)
          \/ Terminates(t)
    \/ \E t \in JavaThreads :
          \/ LoadLibrary(t) \/ RunInitializer(t) \/ InitializerFails(t)
          \/ InitializerFailsInHook(t) \/ OnLoadReturns(t) \/ UnloadLibrary(t)
          \/ CallNative(t) \/ JavaReturns(t) \/ JavaPassesOn(t) \/ JavaCatches(t)
          \/ \E class \in {"App", "Security", "MutedSecurity"} : JavaThrows(t, class)
          \/ TakeProxy(t) \/ UseMissingClass(t) \/ CallProxy(t) \/ CallProxyFails(t)
          \/ ProxyReturns(t) \/ ProxyRethrows(t) \/ ProxyRethrowsSecurity(t)
          \/ ProxyRethrowsMuted(t)
          \/ NativeReturns(t) \/ NativeThrowsJni(t) \/ NativeThrowsNew(t)

Spec == Init /\ [][Next]_vars

-----------------------------------------------------------------------------
(* Properties *)

Code == {"java", "native", "proxy", "onload", "cpp"}

\* Types.
TypeOK ==
    /\ custom \in BOOLEAN
    /\ process \in {"running", "aborted", "undefined", "terminated"}
    /\ vm \in BOOLEAN
    /\ library \in {"unloaded", "loading", "loaded", "failed", "closed"}
    /\ todo \in Seq(Registered)
    /\ singletons \subseteq Registered
    /\ stack \in [Threads -> Seq(Code)]
    /\ \A t \in Threads : stack[t] # <<>>
    /\ pending \in [Threads -> Throwable \cup {None}]
    /\ thrown \in [Threads -> Exception \cup {None}]
    /\ raised \in [Threads -> Throwable \cup {None}]
    /\ kept \in Kept \cup {None}
    /\ proxies \in Nat /\ globals \in Nat /\ leaked \in Nat /\ born \in Nat

\* C++ code never runs with a Java exception pending: JNI forbids nearly every call then, so
\* each crossing must clear it (jniExceptionCheck) or hand it back (jniSetPendingFromCurrent).
NativeRunsClean ==
    \A t \in Threads : In(t, {"native", "cpp", "onload"}) => pending[t] = None

\* What was thrown on one side arrives on the other, however often it crosses, and until
\* somebody catches it: as the same throwable, and where the hooks copy it as one of the same
\* class.  The one exception is a SecurityException that has no message.
SameThrowable(e, f) ==
    \/ f = e
    \/ custom /\ e.class = "Security" /\ f.class = "Security"
    \/ custom /\ e.class = "MutedSecurity" /\ f.class = "Error"

Carries(t, e) ==
    \/ thrown[t] = None /\ pending[t] # None /\ SameThrowable(e, pending[t])
    \/ /\ pending[t] = None /\ thrown[t] # None
       /\ \/ IsJni(thrown[t]) /\ SameThrowable(e, thrown[t].java)
          \/ thrown[t].type = "security" /\ custom /\ e.class = "Security"

ExceptionsTravel ==
    \A t \in Threads :
        IF raised[t] # None THEN Carries(t, raised[t])
        ELSE pending[t] = None /\ (thrown[t] = None \/ thrown[t].type \in {"std", "other"})

\* Every global reference has one owner - a JavaProxy, an exception in flight or a stored
\* one - or was given up on a thread where it cannot be deleted: none is deleted twice, none
\* is forgotten when a call fails half way.
Owners ==
    proxies + Cardinality({t \in Threads : IsJni(thrown[t])})
    + (IF kept # None /\ IsJni(kept.exception) THEN 1 ELSE 0)

GlobalsAreOwned == process = "running" => globals = Owners + leaked

\* A library that loaded without an exception never looks for a class that is not there: a
\* failure of one initializer must be reported, or the first call dereferences null.
LoadedMeansReady == library = "loaded" => singletons = Registered /\ process # "undefined"

\* djinni_support.cpp:62: "Default exception handling only, since non-default might not be
\* safe if init is incomplete."
InitUsesDefaultHandling == library = "loading" => process # "undefined"

\* djinni_support.cpp:89: "this allows us to ignore GlobalRef deletions that happen after
\* this thread has been detached."
DroppingIsSafe == [][proxies' < proxies => process' = "running"]_vars
=============================================================================
