# Verification of react-native-cpp-support

TLA+ models of the run-time part of this repository (a fork of Djinni that binds C++
to JavaScript through React Native), the TLC configurations that check them, and
theorems about them that TLAPS proves.  Paths are relative to the repository's root, which
the project files call `src/`.

## The system

Djinni turns an interface description into classes in C++, Java and Objective-C and the
glue between them.  At run time the glue rests on the support library
(`support-lib/`), which this project is about, with two small libraries beside it
(`extension-libs/`) and what the generator writes (`generated-src/` of the test suite and of
the support library itself).  The generator (`src/source/`) is a batch program that runs on
the developer's machine.

| Component | State it keeps | Operations | Interacts with |
|---|---|---|---|
| JobQueue (`support-lib/cpp/JobQueueImpl.cpp`) | a deque of functions, a mutex, a condition variable | `enqueue`, `poll`, `interruptPoll` | called by any number of threads, from C++ and, through JNI or Objective-C++, from the dispatchers |
| JobDispatcher (`java/.../JobDispatcherImpl.java`, `objc/RVJobDispatcherImpl.m`) | a thread, a flag `mDestroyed`, the object's monitor | `start`, `quit`, the loop | polls a JobQueue; the jobs it runs are native code that may call back |
| ProxyCache (`proxy_cache_impl.hpp`, `proxy_cache_interface.hpp`) | a table from (type, pointer) to a weak pointer, a mutex | `get`, `remove` | `Handle`s, the destructors of proxies on any thread, finalizers of the Java VM, allocators of the four instantiations |
| JNI runtime (`jni/djinni_support.*`, `jni/djinni_main.cpp`, `jni-exceptions/custom_exception_type.cpp`) | the VM pointer, the registry of class initializers, global references, per thread the exception on its way | `jniInit`, `jniShutdown`, reference deleters, translation of exceptions both ways, hooks that replace it | every native method and every JavaProxy |
| CppProxy objects (generated Java classes such as `JobQueue.java`) | `nativeRef`, `destroyed` | `destroy`, `finalize`, native methods | own a `Handle` on the native heap |
| JavascriptArray, JavascriptMap, key iterator (Java and Objective-C) | a read-only or a writable React Native collection | get, push, put, append, merge | React Native |
| JavascriptObject (`cpp/JavascriptObjectImpl.cpp`) | a tagged union | constructors, copy, `asX`, destructor | collections, callbacks |
| JavascriptCallback, JavascriptPromise, ReactBridge | a reference to React Native's object | forwarding | React Native |
| String transcoders (`jni/djinni_support.cpp:331-581`) | none | UTF-8, UTF-16, wide | JNI strings |
| Marshalling (`jni/Marshal.hpp`, `objc/DJIMarshal+Private.h`) | none, but local references while it runs | conversions of numbers, texts, enums, optionals and containers | every call; containers that the application may change meanwhile |
| Durations and dates (`Duration-jni.hpp`, `Duration-objc.hpp`, class `Date`) | none | conversions between counts, nanoseconds and seconds | every call that carries one |
| Generated glue (`jni/Native*.cpp`, `generated-src/jni`) | a method id per method | one translated call per method; records field by field | JavaProxy, CppProxy, marshalling |
| Records (`generated-src/cpp`, `generated-src/java`) | their fields | equality, order, hash code, written once per language | containers that sort and look up |
| `optional<T>` (`handwritten-src/cpp/optional.hpp`) | a flag and raw storage | construct, assign, emplace, swap, destroy, compare | records and calls carry it |
| Platform threads (`extension-libs/platform-threads`) | a thread per call | `create_thread`, hooks that configure it | the platform, the VM |
| Generator, IntelliJ plugin, test suite | files | - | - |

What is hard here, and what has to be true of it:

* **Queue.** Several producers and several consumers, one condition variable,
  `notify_one` and spurious wake-ups.  A job comes out once and in order; a thread that
  copied the front pops that element; no wake-up is lost.
* **Dispatcher.** `quit()` holds the monitor while it goes into the queue's mutex; jobs call
  `start`, `quit` and `enqueue` on their own dispatcher; jobs throw; dispatchers share a
  queue.  Nothing deadlocks, jobs keep their order, and `quit` should end the thread.
* **Cache.** A proxy dies in two steps: its weak pointer expires when the last reference
  goes, and its entry leaves the table when the destructor gets the mutex, on the
  thread that dropped it or on a finalizer thread much later.  In between another thread
  may look the object up.  An object must never have two reachable proxies, and an entry
  must not outlive the object whose address is its key, because the heap hands addresses
  out again.  Both `alloc` and `is_expired` may run a destructor while the mutex is held.
* **JNI.** Calls nest: Java calls C++, which calls Java, which calls C++.  An exception may
  cross the border at each of them and may be stored and thrown again elsewhere; it must be
  cleared before C++ runs and be pending again, as the same throwable, when Java does.  Each
  global reference has one owner, whatever unwinds.  References are dropped on threads the
  VM does not know.  An initializer may fail, and what ran before it stays.
  (`destroy()` of a CppProxy does not race native calls: the class is private and only
  `finalize()` calls it.)
* **Glue.** JNI's calls are variadic and its frames have a size: a method id must have the
  signature of the arguments and a frame must have room for every local reference, in about
  two hundred calls of which each shows its own mistake only.  An object that crosses to the
  other side and comes back is itself, not a proxy of a proxy.
* **Marshalling.** A container is asked for its size, then for an iterator, then element by
  element, and belongs to an application that may change it on another thread.  Any element
  may be null, and no text, and two keys may become one: JNI mends what is no text with U+FFFD,
  and on the way from Objective-C to C++ it becomes empty.  Nothing else may be lost in
  silence or be left behind when a conversion fails half way.
* **Threads.** Nobody joins the threads that C++ creates, so whoever started one may be gone
  before the thread has used its function and the hook that configures it.
* **Values.** The union and the optional construct and destroy members by hand, and a
  constructor may throw in between.  Transcoders see strings that are no text.  Times change
  their unit and their width.  C++ and Java compare the same record each in its own way.
* **Collections.** Wrappers, their elements, copies and the wrappers put into others refer to
  shared containers.  What JavaScript passed must not change, arguments are to be read-only,
  two wrappers must not write to one container, and what is sent must arrive.  The twin implementations differ in what
  they copy and in which side of a wrapper exists.

## Modules

| Module | Models | Reads like |
|---|---|---|
| `FifoQueue` | what a queue promises | two actions, push and deliver |
| `JobQueue` | `JobQueueImpl.cpp`, each lock, wait, notify and unlock a step | implements `FifoQueue` |
| `JobDispatcher` | both dispatchers, EXTENDS `JobQueue` | the loop, `start`, `quit`, and application code that calls them |
| `IdentityCache` | what the cache promises | ask, answer, become unreachable |
| `ProxyCache` | the template with its four instantiations | implements `IdentityCache` |
| `JniRuntime` | loading, calls nested both ways, exceptions, global references | a stack of code per thread |
| `Collections` | containers, wrappers and `JavascriptObject`s as carriers, common to both platforms | state, helpers and properties |
| `JavaCollections` | `JavascriptArrayImpl.java`, `JavascriptMapImpl.java`, `ReactDjinni.java`, and what promises, callbacks and events send | EXTENDS `Collections` |
| `ObjcCollections` | `RVJavascriptArrayImpl.mm`, `RVJavascriptMapImpl.mm`, `RVReactDjinni.mm` | EXTENDS `Collections` |
| `JavascriptObject` | the tagged union, its life cycle and accessors | boxes that are made, copied, asked and destroyed |
| `Optional` | `optional.hpp`, with a T that may throw in every operation | slots with a flag and a cell |
| `Marshal` | the conversion of one container, both ways, both platforms | a loop, next to an application that changes the source |
| `GlueTypes`, `SupportGlue`, `TestGlue`, `TestRecords` | the calls, look-ups and records of the generated glue | tables, one row per method |
| `NativeGlue` | one generated call at work, and its local references | an argument at a time |
| `Crossing` | an object of an interface that crosses the border to and fro | itself at home, a proxy abroad |
| `PlatformThreads` | `create_thread` in C++, Java, Android and Objective-C | a state machine per thread, and who holds what |
| `Utf` | the transcoders, as recursive functions | operators, and strings that grow |
| `Times` | durations and dates on their way | a number that crosses |
| `Derivings` | equality, order and hash of records, C++ next to Java | three records compared field by field |
| `JobDispatcherProofs` (the queue too), `ProxyCacheProofs`, `JniRuntimeProofs`, `JavaCollectionsProofs`, `ObjcCollectionsProofs`, `ValuesProofs`, `TextProofs` | theorems | |
| `CollectionsProofs` | lemmas about collections that both platforms use | |
| `MCJobQueue`, `MCJobDispatcher`, `MCDispatchers`, `MCProxyCache`, `MCProxyCacheTraits`, `MCJniRuntime`, `MCJavaCollections`, `MCCollections`, `MCValues` | instances for TLC | model values, symmetry, and the choice of a platform |

Operators whose name has an underscore, such as `PollPop_Back`, are faulty variants of the
one they are named after.  No specification uses them: put in its place they show
that a property notices the mistake.

### JobQueue

`pc[t]` is how far thread `t` is in the method it called, `func[t]` the local or the argument
of that name.  `condition_variable::wait(lock, pred)` is modelled by what it does: test the
predicate with the mutex held (`PollPark` or `PollFront`), release and park in one step,
wake when notified (`NotifyOne`, any one of the parked threads) or spuriously
(`SpuriousWakeup`), take the mutex again (`PollLock` from `pollRelock`).  `enqueue` pushes
and notifies under the lock (two steps, nobody else can enter between them);
`interruptPoll` locks, notifies and unlocks and changes nothing else, so it is one step.
The variables `delivered`, `unused`, `spurious` and `interrupts` are history and bounds.

### JobDispatcher

`loop[d]` is where the dispatcher's own thread is in `run()`; `method[t]` and `target[t]`
are the call of `start` or `quit` thread `t` is in; `monitor[d]` is the lock of
`synchronized`.  `quit` is three steps: enter and set the flag, the queue's
`interruptPoll` with the monitor held, leave.  Application code runs on callers at any time
and on a dispatcher while a job runs, so a job may do all that callers do, its own
dispatcher included.  A job ends normally or throws.  The constant `Java` picks the twin: the
Objective-C loop reads its atomic flag without the monitor, and there an exception ends the
process and with it the behaviour.  `MCDispatchers` has both twins in one run: its variable
`platform` says which one a behaviour is of.

### ProxyCache

`mMapping` is the table (without the type index: an address stands for the pair),
`holders[p]` and `probe[t]` the strong references to proxy `p`, so that
`Live(p)` is "the weak pointer can be upgraded".  `handles` are the Handles that exist and
`wraps[p]` the object in one.  `object[a]` counts the objects the heap has put at address
`a`: `Reuse` frees one that neither a Handle nor a caller of `get()` owns and puts another
there, which the code under test cannot see.  Every locked section is split where another
thread could tell: looking an entry up, pruning it and emplacing the new one are steps.

Three constants are the traits that tell the instantiations apart:

| Instantiation | SyncDestroy | StrongProbe | AllocMayFail | module |
|---|---|---|---|---|
| JavaProxyCache, ObjcProxyCache (`std::weak_ptr`) | TRUE | FALSE | FALSE | `MCProxyCache` |
| CppProxyCache (`__weak id`, ARC) | TRUE | TRUE | FALSE | `MCProxyCacheTraits`, its instance `Objc` |
| JniCppProxyCache (`JavaWeakRef`, finalizer) | FALSE | TRUE | TRUE | `MCProxyCacheTraits`, its instance `Java` |

An allocation may fail in two places: inside `alloc`, when the Handle is there and its proxy is not
(`GetAllocFails`), and when `emplace()` constructs the weak reference and `JavaWeakRef`'s
constructor throws (`GetEmplaceFails`, `proxy_cache_impl.hpp:96`); then the proxy is there, nobody
holds it, and its finalizer will find no entry of its own.  In `IdentityCache` it is `Lost`.

`answer` is history: the last answer of `get()`, as the pair of the object *by identity* and the
proxy.  `IdentityCache` compares it with what it allows.

### JniRuntime

`stack[t]` says whose code is active on thread `t`, innermost last: `"java"`, a `"native"`
method, a `"proxy"` method (generated code of a JavaProxy), `"onload"`; a thread that C++ code
started has `"cpp"` alone, because the VM does not know it.  `pending[t]` is the Java exception pending in the VM
and `thrown[t]` the C++ exception in flight; `raised[t]` is history: the throwable that was
thrown and that nobody has handled.  A `jni_exception` owns a global reference, and so does a
JavaProxy (`proxies` counts them) and a stored exception (`kept`, a `std::exception_ptr`);
`globals` counts the references in use and `leaked` those that `GlobalRefDeleter` gave up on a
thread without an environment.  `custom` says whether the program is linked with
`custom_exception_type.cpp`, which replaces both hooks.

Loading runs the initializers in the order of `Initializers`; `todo` is what is left of them
and `singletons` the classes whose `JniClass<C>::s_singleton` is set.  One that fails
(`InitializerFails`) ends `jniInit()` with an exception pending, and the rest is never run; on
Android the native methods can be called even then.  `process` says how the process ended: `std::abort()`
in `jniGetThreadEnv()`, `std::terminate()`, or undefined behaviour (a null singleton, a null VM).

### Values

`MCValues` puts the parts together that share no state: its variable `subject` says which one
moves.  Each has an initial state of its own and stays in it while another moves.

* `JavascriptObject`.  A box has a tag, the member of the union that is alive and its value;
  reading another member is `Undefined`.  `owners` counts, for each array and map, the
  `shared_ptr`s that hold it, `strings` the strings that live in a union.  `CopiedTags` and
  `DestroyedTags` are the cases of the two switches.
* `Optional`.  A slot has the flag `init` and a `cell` that holds a T or is `Raw`.  `living`
  counts the Ts, `damage` notes that a T was destroyed or written where there is none.  Where
  T throws, the action has a disjunct for what is left.
* `Marshal`.  `trip` says which conversion it is: the platform, the direction, the kind of
  container, the type of its values and whether `assert` is compiled in.  `source` is the
  container, `walk` what its iterator goes through and after how many changes it was made,
  `arrived` the new container; `Change` is the application on another thread, and stands for the
  changes that an iterator can notice (replacing the value of a key is none).  An element
  may be null or no text: `BadTexts` are strings that are none, and `Mended` is what the decoders of
  JNI make of each.  In Objective-C such a text becomes empty in C++, and nil on the way back,
  which Foundation's containers refuse.
* `NativeGlue`.  `frame` says whose frame it is, and `call` is a row of the tables: a method of
  a JavaProxy, a native method, or a record's `toCpp()`.  The two are separate because several
  interfaces, among them `UserToken` and `EnumUsageInterface`, have the same row both ways, with
  frames of different sizes.  `PassArgument`, `TakeArgument` and `TakeField` convert one argument,
  in any order where C++ leaves it open, and keep `localRefs` and `most`, the local references
  in the frame now and at most.  `PeakFrom` and `Taken` count what a conversion holds meanwhile
  and leaves: `PeakFromParts` and `TakenFromParts` do so for a type whose parts have been
  counted, and there is a definition for each level of nesting, as many as the interfaces need
  (a record of a list of maps).  What is below them is `Deeper`, which is not a number, so
  that a deeper type would fail the checks and not be counted as nothing.
* `Crossing`.  `traveller` is an object of an interface that crosses to and fro: `ToJava` and
  `ToCpp` are `_toJava()` and `_fromJava()` with their shortcuts, and with their asserts, which
  may be compiled in or not.  Which interfaces have a proxy
  in which language are constants; the run gives them those of the tables.
* `PlatformThreads`.  `library` is the implementation and whether it was given something that
  configures.  `worker[w]` is where a thread is, `runs[w]` its function, `holders` who has a strong
  reference to each function and to the hook (the function or block that configures, with what
  owns it): a closure, a thread object, or the application, which may drop its own at any time
  (`Forget`).  `attached` are the threads that the VM knows: Java makes its own known, and
  a thread that C++ configures is known if its hook attaches it, which it need not.  `process` is
  how the process ended: an exception that nobody catches ends it everywhere but in plain Java
  (Android's handler of uncaught exceptions ends it too), and a function that calls into the VM
  from an unknown thread is an abort in `jniGetThreadEnv()`.
* `Utf`.  `text` grows by one unit per step and each state compares the transcoders' answers
  with Unicode's table 3-7.  A decoder that stepped over the end would not be defined there.
* `Times`.  `held` is the time as the side that has it knows it, in half nanoseconds or clock
  ticks.  Integers keep their width, scaled down; what a double loses is a choice among
  what rounding can do.
* `Derivings`.  Three records are read one field at a time; `order`, `equal` and `oneHash` are
  the answers so far in each language, `quirks` what has been seen that may tell them apart.
  The records and the values are constants: `Kept` is what Java has of a time, `Utf16Rank` where
  its order of strings has a string; the run reads the records of the test suite
  (`GeneratedRecords`).

### Collections

A container is an array or a map that React Native knows; `kind[c]` and `content[c]` say what it
is and holds.  Containers refer to each other, so aliasing shows.  A wrapper is a
`JavascriptArray` or `JavascriptMap`: `readable[w]` is the container its getters use and
`writable[w]` the one its setters use.  `object` is the `JavascriptObject` that C++ code has at
hand, with the type it claims and the element it was made from; `argument` remembers the
wrappers that came in as arguments.  `MCCollections` has both platforms in one run.

* In Java, a wrapper of what came from React Native has no writable side and `unwrap()` of
  it answers null, while a container that C++ created is both sides of its wrapper.  React
  Native's own classes are not in the repository: that a writable container is *consumed*
  when it is put into another one or sent (it may not be used again; `frozen`) is
  modelled from how the code uses them.  `arrived` compares what was sent with what
  `unwrap()` made of it.
* In Objective-C every wrapper owns one mutable container, filled with a shallow copy of what it
  wraps, and both sides are that one.  `pushArray:` and `pushMap:` push an immutable copy
  (`frozen`), `putArray:value:` and `putMap:value:` store the container itself.

A scalar stands for all values of its type.  Calls that throw change nothing and are left out.

## Runs

| Run | Asks | Result |
|---|---|---|
| `queue` (`MCJobQueue.cfg`) | three threads in all three methods at once: `NoLostWakeup`, `PopsWhatItCopied`, the queue implements `FifoQueue`, and `Delivering`: a thread inside `poll()` is never left there while jobs are queued | holds, 122149 states |
| `dispatchers` (`MCDispatchers.cfg`) | two dispatchers of either platform on one queue, two application threads, jobs that call back and throw: `RunsInOrder`, `ExitsOnlyBeforeWork`, `CallsReturn` (no deadlock between monitor and mutex), `JobsAreServed` (a dispatcher that died, quit or swallowed a notification does not strand the jobs of the others) | holds, 149644 states |
| `dispatcher_quit` | `QuitEndsLoop`: `quit()` ends the thread | **violated** |
| `cache` (`MCProxyCache.cfg`) | proxies that are destroyed by whoever drops them: `OneProxyPerObject`, `LiveIsCached`, `KeysNeverDangle`, the cache implements `IdentityCache`, `HandleLeavesCache` (dead entries go away), `GetReturns`; two clients, two addresses, one reuse | holds, 242328 states |
| `cache_traits` | the other two instantiations: three clients, a finalizer thread, an allocator that may throw, a probe that is a reference: `KeysNeverDangle`, implements `IdentityCache` | holds, 126095 states |
| `cache_jni_throw` | `GetReturns` when Java's `NewObject` throws | **violated** |
| `cache_objc_probe` | `HandleLeavesCache` when `is_expired()` makes a strong temporary | **violated** |
| `collections` (`MCCollections.cfg`) | both platforms: `JavascriptKeepsItsOwn` (what JavaScript passed stays as it was, and so does what was pushed as a copy or consumed), `WritersAreAlone` (no two wrappers write to one container) | holds, 290367 states |
| `java_sent` | `ArrivesAsSent`: what is sent to JavaScript is what arrives | **violated** |
| `jni` (`MCJniRuntime.cfg`) | two threads of the VM and one of C++, calls nested in both directions, either pair of hooks: `NativeRunsClean` (C++ code never runs with a Java exception pending), `ExceptionsTravel` (what was thrown arrives as what it was), `GlobalsAreOwned` (one owner for each global reference), `LoadedMeansReady` (a failure to load is reported) | holds, 675874 states |
| `jni_init_hook` | `InitUsesDefaultHandling`: exceptions inside `jniInit()` do not need what `jniInit()` sets up | **violated** |
| `values` (`MCValues.cfg`) | the sixteen properties below, each about one part | holds, 706635 states |

What `values` asks of each part:

| Part | Properties |
|---|---|
| `JavascriptObject` | `MembersAreCounted`: no shared array, map or string is leaked or destroyed twice; `AnswersWhatWasPut`: an accessor answers the value or a zero, and where the code has neither (`asString()` of another type, `asInt()` out of range) the model says `Undefined` |
| `Optional` | `FlagsTellTheTruth`: after each operation and each exception the flag says whether a T is alive, until a copy constructor has thrown (see `optional.hpp:307`); `ComparesConsistently`: the eighteen comparisons are one order |
| `Marshal` | `QuietMeansWhole`: what a conversion returns is the whole container as it was at one moment, also if the application changes it meanwhile, but for a Java set or map that grows between `size()` and `iterator()`, and for texts that are none and become equal to another one (in JNI both ways, in Objective-C on the way to C++); `FailsForAReason`: a conversion fails for a change, and then with an exception only, or for the very element it is at; `NothingLeftBehind`: however it ends, no local reference stays |
| `NativeGlue` | `SignaturesAgree`: each call passes what the signature of its method id says; `FrameFits`: no call needs more local references than its frame has room for, with two exceptions that the property names |
| `Crossing` | `CrossesAndReturns`: an object is itself at home and one proxy abroad; one that its interface does not allow where it is aborts with asserts, and without them is lost or undefined |
| `PlatformThreads` | `ThreadsKeepWhatTheyNeed`: whoever drops it meanwhile, a thread finds its function and its hook alive when it comes to them, and nothing keeps them longer than it must |
| `Utf` | `ArrivesWellFormed`, `TextSurvives`: against Unicode's definitions, with any bytes and lone surrogates |
| `Times` | `TimesSurvive`: what each way through the other language may lose, and nothing more |
| `Derivings` | `OrdersStrictly`: comparison of records is an order in both languages; `ComparesAlike`: and the same one |

Several of these properties name exceptions.  Each of them is a behaviour of the code that the
run reaches: dropping the exception makes the run fail.

The five violations are behaviours of the code:

* `interruptPoll()` notifies, but the predicate of the wait is `!mQueue.empty()`, so the woken
  thread goes back to sleep; `poll()` never returns null, its branch for that
  (`JobQueueImpl.cpp:22-23`) is unreachable, the inner loop of `run()` never ends, and a
  dispatcher's thread that has called `poll()` once lives for ever.  `ExitsOnlyBeforeWork`
  says it positively and is proved: a thread that ended normally never ran a job.
* `newCppProxy` runs with the cache's mutex held.  If `NewObject` throws (out of memory
  in the VM), the `CppProxyHandle` is destroyed while the exception passes through, and
  `~Handle()` locks the same, non-recursive mutex.
* `remove()` asks `is_expired(it->second)`, which for `__weak id` loads a strong
  temporary.  If another thread drops the last other reference meanwhile, ARC deallocates the
  younger proxy inside `remove()`, whose `~Handle()` re-enters `remove()`.
* `ReactDjinni.unwrap()` answers the writable side of a wrapper.  A wrapper of what came
  from JavaScript has none, so an argument that the module hands on, to a promise, a
  callback, an event or another container, becomes null.
* `jniInit()` handles its own exceptions in the default way "since non-default might not be safe
  if init is incomplete", but a failing look-up inside an initializer goes through
  `jniExceptionCheck()` to the other hook, and `custom_exception_type.cpp` starts by asking
  `JniClass<SecurityExceptionClassInfo>` for a singleton that may not be set yet.

One more claim of the documentation is not what the code does, and no run is needed to see it:
`README.md:24` says of collections that "the instances passed as arguments are readonly", on every
platform.  In Java they are: the wrapper has no writable side, and `ArgumentsAreReadonly` is
proved of it.  In Objective-C the constructor makes a mutable copy of what it wraps
(`RVJavascriptArrayImpl.mm:13-18`), so that every push, put, append and merge on an argument succeeds and
shows through it (:64-90); a model in which both are checked violates `ArgumentsAreReadonly` on
iOS.  What JavaScript passed stays as it was there too (`JavascriptKeepsItsOwn`).

### Bounds, and why they are enough

* Threads: three in the queue, because a lost wake-up takes a waiter, a thread that
  swallows the notification and a producer; two dispatchers and two callers, so that two
  methods and both loops may contend for one monitor; three clients in the cache (two where
  liveness is checked as well), because the race in `remove()` takes a thread that destroys,
  one that creates and one that looks.
* Jobs: three distinct ones (two in `dispatchers`) are enough for an order to go
  wrong.  `MaxSpurious` and `MaxInterrupts` bound wake-ups that carry no job; one
  spurious one and two interrupts already reach every location with an empty deque.
* `MaxCalls` bounds `start` and `quit`: three let a start and a quit race a second quit.
  `MaxCalls <= MaxInterrupts` is assumed so that the latter bound never blocks `quit()`.
* `Proxies` are used once each; three let an object have a dying, a dead and a live one, and
  four add a new one.  The guard on `GetCall` keeps the supply from running out inside
  `get()`: only a call that can be finished is begun.  `MaxGen` lets an address be reused
  once or twice, `MaxGets` bounds the calls of `get()`.
* Three wrappers let one be an argument, one a copy or an element of it and one the target
  of a write; two or three containers besides JavaScript's own take the copies (the Java side
  leaves `JavaSpares` of them alone, as it can do more with each).
  `MaxLength` bounds what a write leaves in a container and `MaxWrites` (`JavaWrites` in Java)
  the number of writes: two let one wrapper write after the other, and three let a write follow
  a push of what was written.  One key is enough, as the maps never compare keys; it is a number
  so that TLC can compare the content of a map with that of an array.
* `MaxDepth` lets a stack hold five pieces of code, so that an exception crosses the border four
  times; `MaxThrows` is two exceptions, one of which may be stored while the other flies.
  Three initializers are one the hooks need for throwing, one they need for asking, and one
  more; any of them may fail.
* `MCValues`.  Two objects, one array and one map; three optionals, so that an order may fail
  to be transitive, with two values of T; containers of two elements, one change, and four texts
  (the empty one, one with U+FFFD, and two that are none, which JNI mends to the same), because
  every loop has the same body and a change before, between or after its rounds makes the
  difference, and a text that is none may become equal to a text or to another such one; two
  threads and two functions, of which one calls into the VM; containers of 0, 1 and 20 elements for the glue, as a reference per element shows
  in a frame of sixteen (the proofs need no such bound); strings of four bytes or units, the longest sequence of UTF-8,
  made of those at the borders of Unicode's tables; longs of seven bits and ints of
  four (`LongLimit`, `IntLimit32`) with units of 1, 4 and 16, so that each overflows where the
  real ones do, at the same side of the same division; records of the test suite, with
  numbers, times and strings of which some are the same to one language only.
* Symmetry is used only in runs without liveness (`cache_traits`, `collections`,
  `java_sent`).  Deadlock is not checked because the system may stop: all callers may stop
  calling, all consumers may be parked in `poll()`, a value arrives.

### Fairness

Weak fairness alone, and only for what runs by itself: a thread inside a method of the
library goes on, Java finalizes what is unreachable, and a job ends some day, one way or
the other.  Nobody need call anything, no wake-up need be spurious, no reference need be
dropped.  The mutexes and monitors of the code are not fair, and none is assumed to be: a
thread waiting for one gets it because the others' contention is finite, which is what the
bounds on calls stand for.

## What is proved

For all values of the constants, checked by TLAPS:

* `JobDispatcherProofs`, on the queue.  The inductive invariant is `IInv`: types, mutual exclusion
  (`MutexInv`: the owner of `mMutex` is the thread whose location says so), what a thread
  that is about to pop has copied, and that a job is in one place only (`FreshInv`: not
  yet enqueued, in the hands of one `enqueue()`, or in the queue's past).  The last one is
  what `FifoQueue` needs, whose jobs are enqueued once.  From it: `TypeCorrect`,
  `PopsCorrect`, `Refinement` (the queue implements `FifoQueue`), and `NoWakeupIsLost`,
  whose step lemma counts the threads that attend to the queue and shows that each step
  that takes one away also takes a job or happens when nobody is parked.
* The same module, on the dispatchers.  Every step of the composed system is a step of the queue or a
  stutter (`QueueStepOrStutter`), so `QueueKept`, `DispatchIsFifo` and
  `DispatchLosesNoWakeup` follow from the queue's theorems.  With the invariant `LoopInv`:
  `DispatcherTypes` and `OnlyIdleThreadsExit`, for both twins.
  `JobsRunInOrder` says when jobs run, not only when they leave the queue, and needs more: each
  job has one place, in the deque or in the queue's history (`OnceInv`); a thread holds what
  poll() gave it until it has run it (`HeldInv`, `RanInv`); and what poll() is about to answer
  came after all that its thread has run and is in nobody else's hands (`OrderInv`).
* `ProxyCacheProofs`.  For all settings of the three traits.  The inductive invariant
  adds to the checked properties who owns the mutex, what each thread's locals are,
  that a Handle is destroyed once and only after its proxy became unreachable
  (`HandleInv`), and `TableInv`: between prune and emplace the entry stays empty, and
  when `remove()` is done the entry is not the dying proxy's.  From it: `TypeCorrect`,
  `ReachableIsCached`, `IdentityKept`, `NoDanglingKey`, and `Refinement` (the cache
  implements `IdentityCache`); an allocation that fails in either place is among the steps.
* `JniRuntimeProofs`.  The inductive invariant `IInv` has seven parts: the types; `StackInv`,
  which code may be called by which, so that what lies under a frame that returns is known;
  `SideInv`, a C++ exception flies only while C++ code is innermost and a Java exception is
  pending only while it is not, which `NativeRunsClean` alone does not give; `ExceptionsTravel`
  itself; `KeptInv`, a stored exception is as good as one in flight, since rethrowing it must
  re-establish `ExceptionsTravel`; `LoadInv`, one thread loads, and the initializers that ran
  and those that remain are all there are; and `GlobalsAreOwned`, whose step lemmas count the
  threads with a `jni_exception` in flight before and after.  There is a lemma per action.  From
  it: `TypeCorrect`, `NativeCodeRunsClean`, `ExceptionsCross`, `ReferencesAreOwned`,
  `LoadingIsComplete`, for any threads, depth of calls and list of initializers, and both pairs
  of hooks.
* `JavaCollectionsProofs` and `ObjcCollectionsProofs`, with what they share in
  `CollectionsProofs`.  The invariant `Common` adds to the types that containers hold only
  scalars and containers in use (`Contents`), that wrappers and JavaScript refer to containers
  in use (`ReadersUse`, `KeptInUse`), and that what a wrapper writes to is what it
  reads and not JavaScript's (`WritersOwn`).  Without `Contents` the induction fails: a container that is
  made must not be one that somebody can reach and write to.  Java adds what arguments read as
  (`ArgumentsRead`), iOS that every wrapper owns its copy (`WrappersOwn`).  From it:
  `WritersKeepApart` and `JavascriptIsSafe` on both, and `ArgumentsAreSafe` (arguments are
  read-only) on Android alone, since on iOS it is false.
* `ValuesProofs`.  `OptionalsTellTheTruth` and `ObjectsCountTheirMembers` count by hand as the
  code does: one lemma says how the number of engaged slots, or of boxes that hold a given
  array, changes when one place changes (a second one when two do, for assignment and swap),
  and each operation is then shown to change `living`, or the owners, by as much.  For the
  union the invariant says field by field that what is in a box is what a call has put there;
  `ObjectsAnswerWhatWasPut` follows, with the arithmetic of the cast in `Rounds`.
  `OptionalsCompare` needs the types only.
* `ValuesProofs`, on what crosses the border.  `ContainersArriveWhole`,
  `ConversionsFailForAReason` and `ConversionsLeaveNothing` rest on `MarshalInv`, for containers of
  any length, any texts and any number of changes.  `Walked` is what the loop goes through: what
  the iterator was made of, or the source itself.  Where that stays the same (`Settled`: nobody
  changes the source, or there is an iterator, which notices or does not see it), what has
  arrived is what its first elements become, one by one, or fewer if two of them have become
  one on the way, which takes a text that is none (`ArrivedSoFar`); Foundation has accepted nothing that is nil
  (`NothingNil`); what the loop knows of the source, its size or how far its
  iterator is, fits that (`WalkedIs`, `KnowsTheSource`); and the references in the frame are
  those of the loop.  `QuietMeansWhole` speaks of the end of a conversion only and is not
  inductive.  `TimesSurviveTheBorder` needs
  what a time may have become at each place (`TimesInv`), and is arithmetic after that: division
  towards zero and back, halves, and where a long or an int ends, for ends and units of any size.
  `ObjectsComeHome` needs what a side can hold at all (`TravelInv`).  `ThreadsAreSafe` needs
  `ThreadInv`: who holds a function or the hook is exactly the application, perhaps, and the
  threads whose closure or object carries it (`HoldersFit`), and a thread object is configured
  only while its implementation is there (`PlacesFit`); one step lemma, `OneThreadMoves`, says that
  what one thread takes or drops leaves the others' as it was.  `RecordsAreOrdered` and `LanguagesCompareAlike` are about records with
  any fields: `DerivingsInv` says that after each field the order so far of two records is the
  opposite the other way round (`Opposite`), that of three records it is transitive
  (`Composed`, which needs that there was no NaN), and that they are equal so far where nothing
  has been decided.  `FieldsCompose` is the heart: one more field composes two such orders.
* `ValuesProofs`, on the generated glue.  `CallsFitTheirFrames` and `CallsAreLookedUp` hold
  with containers of any size.  The inductive invariant is `GlueInv`: `CallTypes` says that the
  call is a row of the table that its frame is for, and `RefsBounded` counts the references by the
  arguments that have been converted, which `FrameFits` alone does not and a step needs: as many
  as those in a JavaProxy and a `toCpp()`; in a native method also `this` and its arguments.
  Three layers lead there.  Types: whatever a call gives holds at most eight references at a
  time (`GivenWithin`, from the parts to the whole: `PartsWithin`, `FieldsWithin`,
  `GivensWithin`, and for a record `RowFits`), whatever it takes leaves at most one and holds
  five, a field that is read leaves none and holds six, and only if it is a container.
  Tables: every row has arguments of such types and few of them (`ProxyRow`, `NativeRow`,
  `RecordRow`), table by table.  Steps: with two arguments converted and the third at
  its worst a JavaProxy holds 2 + 8, which is all of its frame of ten; a native method holds at
  most 5 + 8 of sixteen.  The exceptions are as narrow as that: one native method, `conflictArg`,
  takes a set of objects and leaves one reference for each (`ConflictArg`), and a `toCpp()`
  exceeds its frame by five at most, on a container.  `MaxOfBounded` is needed because
  a record evaluates its fields in any order, so that its peak is the largest of a set.
  For the signatures, `RowAgrees` says that a row in terms of codes is the row of the look-up;
  what remains is to compare the tables (`ProxiesAgree`) and the twenty-two records
  (`RecordsAgree`).
* `TextProofs`.  `TextsSurviveTheBorder` and `TextsArriveWellFormed`, for strings of any
  length made of any bytes or units.  Three layers: arithmetic of one character
  (`Utf8DecodesBack`, `Utf8EncodesBack`, `Utf16DecodesBack`: what a decoder reads is what the encoder
  has written, and the other way round unless the answer is U+FFFD; `ScalarIsBytes`,
  `ScalarIsUnits`: what is written is well formed, row by row of Unicode's table); the
  loops, which transcode the first character and then what is left of the string
  (`CollectsOn`); and induction on the length.  `WellFormed8Parts` and
  `WellFormed8Joins` take well-formed bytes apart at a character and put them together again, which
  is why `WellFormed8` names the places where characters start.  The library's
  induction theorems take an operator, which no prover here can instantiate, so `TextInduction` is
  stated of a set of strings: one that holds a string whenever it holds all shorter ones holds
  every string.  It follows from the least length of a string outside it
  (`LeastNumber`, `SetInduction`).

The assumptions are the named ASSUMEs of the modules: bounds are natural numbers, model
values that mean "none" differ from the others, the sets of threads are finite
(needed to count), threads are of one kind only, bytes are less than 256 and units of
UTF-16 less than 65536, what the decoders mend is a text that needs no mending, the ends of integers and the units of time are positive.  Of
what Java has of a time it is assumed that it keeps the order (conversions cut or round), and of
strings that two that differ in valid UTF-8 differ in UTF-16, which is part of what
`TextsSurviveTheBorder` says.

Only model-checked: every liveness property (`Delivering`, `CallsReturn`, `JobsAreServed`,
`HandleLeavesCache`, `GetReturns`), as fairness and ENABLED are outside the prover's reach, and
with it that a conversion or a loop ends.  No run has `ArgumentsAreReadonly`, which is true of
Java alone; `ArgumentsAreSafe` proves it there.  Every invariant that a passing
run checks has a theorem.

## Not modelled, and the plan

In this order:

1. The Objective-C side of the values: comparison of records over Foundation's methods, and what
   a promise, a callback or an event is handed while the module may still write to it.
2. `resolver.scala`: imports and names, as a relation over a small set of files.

Left out, and why:

* What the forwarding classes (`JavascriptCallback`, `JavascriptPromise`, `ReactBridge`) do with
  scalars and rejections: a call is passed on with its arguments, no state and no choice.
* Calls on collections that throw: they change nothing.  The key iterators: the Java one walks
  through React Native's own, and the Objective-C one calls itself for ever in the first call.
* `append()` of an array to itself in Java, which never returns.
* `cleanup()` of the cache: a null pointer whose deleter keeps the table from being destroyed
  early when the process ends.
* `Binary` and `WString` of the marshalling: one copy of a block, without a choice.
* `optional<T&>`, the observers, `make_optional` and `hash`: they keep no state.
* The Objective-C++ glue: one translated call per method; ARC counts, so there is no frame
  to overflow, and the compiler checks the types that JNI does not.
* The code generator and the IntelliJ plugin: programs that read and print text once.  Tests,
  examples and build files.
