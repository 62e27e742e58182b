-------------------------- MODULE JniRuntimeProofs --------------------------
(***************************************************************************)
(* Proofs about JniRuntime.tla, for any number of threads, any depth of    *)
(* nesting, any list of initializers and either setting of the hooks.      *)
(***************************************************************************)
EXTENDS JniRuntime, FiniteSetTheorems, SequenceTheorems, TLAPS

-----------------------------------------------------------------------------
(* The inductive invariant *)

\* What is called from what: Java calls a native method and loads the library, C++ calls a
\* JavaProxy, and a JavaProxy calls Java.
Calls == {<<"java", "native">>, <<"java", "onload">>, <<"native", "proxy">>,
          <<"proxy", "java">>}

Nested(s) == \A i \in 2..Len(s) : <<s[i - 1], s[i]>> \in Calls

StackInv ==
    \A t \in Threads :
        /\ Nested(stack[t])
        /\ t \in JavaThreads => stack[t][1] = "java"
        /\ t \in CppThreads => stack[t] = <<"cpp">>

\* Only C++ code has a C++ exception in flight, and only the rest has a Java exception pending.
SideAt(t) ==
    /\ Top(stack[t]) \in {"java", "proxy", "onload"} => thrown[t] = None
    /\ Top(stack[t]) \in {"native", "cpp", "onload"} => pending[t] = None
    /\ IsJni(thrown[t]) => thrown[t].java # None

SideInv == \A t \in Threads : SideAt(t)

\* ExceptionsTravel, for one thread.
TravelsAt(t) ==
    IF raised[t] # None THEN Carries(t, raised[t])
    ELSE pending[t] = None /\ (thrown[t] = None \/ thrown[t].type \in {"std", "other"})

\* A stored exception is as good as one in flight.
KeptInv ==
    kept # None =>
        LET x == kept.exception
            e == kept.raised
        IN  /\ IsJni(x) => x.java # None
            /\ IF e = None THEN x.type \in {"std", "other"}
               ELSE \/ IsJni(x) /\ SameThrowable(e, x.java)
                    \/ x.type = "security" /\ custom /\ e.class = "Security"

\* One thread at most is loading, and what it has not run is still to do.
Remaining == {todo[i] : i \in DOMAIN todo}

LoadInv ==
    /\ \A t \in Threads : Top(stack[t]) = "onload" => library = "loading"
    /\ \A t, u \in Threads : Top(stack[t]) = "onload" /\ Top(stack[u]) = "onload" => t = u
    /\ library = "loading" => singletons \cup Remaining = Registered
    /\ vm <=> library \in {"loading", "loaded", "failed"}
    /\ LoadedMeansReady

IInv ==
    /\ TypeOK
    /\ StackInv
    /\ SideInv
    /\ ExceptionsTravel
    /\ KeptInv
    /\ LoadInv
    /\ GlobalsAreOwned

-----------------------------------------------------------------------------
(* Stacks *)

\* A call puts one more kind of code on top of a stack.
LEMMA PushOne ==
    ASSUME NEW s \in Seq(Code), s # <<>>, NEW c \in Code
    PROVE  /\ s \o <<c>> \in Seq(Code) \ {<<>>}
           /\ Top(s \o <<c>>) = c
           /\ (s \o <<c>>)[1] = s[1]
           /\ Nested(s) /\ <<Top(s), c>> \in Calls => Nested(s \o <<c>>)
<1> DEFINE r == s \o <<c>>
<1>1. Len(s) \in Nat \ {0} /\ \A i \in 1..Len(s) : s[i] \in Code
  OBVIOUS
<1>2. /\ r \in Seq(Code)
      /\ Len(r) = Len(s) + 1
      /\ \A i \in 1..Len(s) : r[i] = s[i]
      /\ r[Len(s) + 1] = c
  OBVIOUS
<1>3. r # <<>> /\ Top(r) = c /\ r[1] = s[1]
  BY <1>1, <1>2 DEF Top
<1>4. ASSUME Nested(s), <<Top(s), c>> \in Calls, NEW i \in 2..Len(r)
      PROVE  <<r[i - 1], r[i]>> \in Calls
  <2>1. CASE i = Len(r)
    BY <1>1, <1>2, <1>4, <2>1 DEF Top
  <2>2. CASE i # Len(r)
    <3>1. i \in 2..Len(s) /\ i - 1 \in 1..Len(s) /\ i \in 1..Len(s)
      BY <1>1, <1>2, <2>2
    <3> QED BY <1>2, <1>4, <3>1 DEF Nested
  <2> QED BY <2>1, <2>2
<1> QED BY <1>2, <1>3, <1>4 DEF Nested

\* A return takes one away, and what is then on top is what called.
LEMMA PopOne ==
    ASSUME NEW s \in Seq(Code), Len(s) > 1
    PROVE  /\ Pop(s) \in Seq(Code) \ {<<>>}
           /\ Pop(s)[1] = s[1]
           /\ Nested(s) => Nested(Pop(s)) /\ <<Top(Pop(s)), Top(s)>> \in Calls
<1>1. Len(s) \in Nat /\ Len(s) - 1 \in 1..Len(s)
  OBVIOUS
<1>2. /\ Pop(s) \in Seq(Code)
      /\ Len(Pop(s)) = Len(s) - 1
      /\ \A i \in 1..Len(s) - 1 : Pop(s)[i] = s[i]
  BY <1>1 DEF Pop
<1>3. Pop(s) # <<>> /\ Pop(s)[1] = s[1] /\ Top(Pop(s)) = s[Len(s) - 1]
  BY <1>1, <1>2 DEF Top
<1>4. ASSUME Nested(s) PROVE <<Top(Pop(s)), Top(s)>> \in Calls
  BY <1>1, <1>3, <1>4 DEF Nested, Top
<1>5. ASSUME Nested(s), NEW i \in 2..Len(Pop(s)) PROVE <<Pop(s)[i - 1], Pop(s)[i]>> \in Calls
  <2>1. i \in 2..Len(s) /\ i \in 1..Len(s) - 1 /\ i - 1 \in 1..Len(s) - 1
    BY <1>1, <1>2
  <2> QED BY <1>2, <1>5, <2>1 DEF Nested
<1> QED BY <1>2, <1>3, <1>4, <1>5 DEF Nested

\* Every thread has a stack of the right shape.
Stacks == stack \in [Threads -> Seq(Code) \ {<<>>}] /\ StackInv

\* The invariant says it of all stacks.
LEMMA StacksHold == IInv => Stacks
BY DEF IInv, TypeOK, Stacks

\* Only Java threads are in a call, and what is below is what calls.
LEMMA Below ==
    ASSUME Stacks, NEW t \in Threads, Top(stack[t]) \in {"native", "proxy", "onload"}
    PROVE  t \in JavaThreads /\ Len(stack[t]) > 1
<1>1. CASE t \in CppThreads
  BY <1>1 DEF Stacks, StackInv, Top
<1>2. CASE t \in JavaThreads
  <2>1. stack[t][1] = "java" /\ Len(stack[t]) \in Nat \ {0}
    BY <1>2 DEF Stacks, StackInv
  <2> QED BY <1>2, <2>1 DEF Top
<1> QED BY <1>1, <1>2 DEF Threads

\* No Java thread is in the C++ code of a C++ thread.
LEMMA JavaIsNotCpp ==
    ASSUME Stacks, NEW t \in JavaThreads
    PROVE  Top(stack[t]) # "cpp"
<1>1. /\ stack[t] \in Seq(Code) \ {<<>>} /\ Nested(stack[t]) /\ stack[t][1] = "java"
  BY DEF Stacks, StackInv, Threads
<1>2. CASE Len(stack[t]) = 1
  BY <1>1, <1>2 DEF Top
<1>3. CASE Len(stack[t]) # 1
  <2> DEFINE n == Len(stack[t])
  <2>1. n \in Nat \ {0}
    BY <1>1
  <2>2. n # 1
    BY <1>3
  <2> HIDE DEF n
  <2>3. n \in 2..n
    BY <2>1, <2>2
  <2>4. <<stack[t][n - 1], stack[t][n]>> \in Calls
    BY <1>1, <2>3 DEF Nested, n
  <2> QED BY <2>4 DEF Calls, Top, n
<1> QED BY <1>2, <1>3

\* Leave(t) keeps every stack in shape and touches that of t alone.
LEMMA LeaveKeeps ==
    ASSUME Stacks, NEW t \in Threads, Len(stack[t]) > 1, Leave(t)
    PROVE  /\ Stacks'
           /\ <<Top(stack'[t]), Top(stack[t])>> \in Calls
           /\ \A u \in Threads : u # t => stack'[u] = stack[u]
<1>1. /\ stack' = [stack EXCEPT ![t] = Pop(stack[t])]
      /\ stack[t] \in Seq(Code) /\ Nested(stack[t])
  BY DEF Leave, Stacks, StackInv
<1>2. t \notin CppThreads
  <2> SUFFICES ASSUME t \in CppThreads PROVE FALSE
    OBVIOUS
  <2>1. stack[t] = <<"cpp">>
    BY DEF Stacks, StackInv
  <2>2. Len(stack[t]) = 1
    BY <2>1
  <2> QED BY <2>2
<1>3. /\ stack' \in [Threads -> Seq(Code) \ {<<>>}]
      /\ stack'[t] = Pop(stack[t])
      /\ \A u \in Threads : u # t => stack'[u] = stack[u]
  BY <1>1, PopOne DEF Stacks
<1>4. StackInv'
  <2> SUFFICES ASSUME NEW u \in Threads
               PROVE  /\ Nested(stack'[u])
                      /\ u \in JavaThreads => stack'[u][1] = "java"
                      /\ u \in CppThreads => stack'[u] = <<"cpp">>
    BY DEF StackInv
  <2>1. CASE u # t
    BY <1>3, <2>1 DEF Stacks, StackInv
  <2>2. CASE u = t
    <3>1. Nested(Pop(stack[t])) /\ Pop(stack[t])[1] = stack[t][1]
      BY <1>1, PopOne
    <3>2. t \in JavaThreads => stack[t][1] = "java"
      BY DEF Stacks, StackInv
    <3> QED
      BY <1>2, <1>3, <2>2, <3>1, <3>2
  <2> QED
    BY <2>1, <2>2
<1> QED BY <1>1, <1>3, <1>4, PopOne DEF Stacks

\* So does Enter(t, <<c>>), where c may be called.
LEMMA EnterKeeps ==
    ASSUME Stacks, NEW t \in JavaThreads, NEW c \in Code,
           <<Top(stack[t]), c>> \in Calls, Enter(t, <<c>>)
    PROVE  /\ Stacks'
           /\ Top(stack'[t]) = c
           /\ \A u \in Threads : u # t => stack'[u] = stack[u]
<1>1. /\ stack' = [stack EXCEPT ![t] = stack[t] \o <<c>>]
      /\ stack[t] \in Seq(Code) \ {<<>>} /\ Nested(stack[t])
  BY DEF Enter, Stacks, StackInv, Threads
<1>2. t \notin CppThreads /\ t \in Threads
  BY RuntimeAssumption DEF Threads
<1>3. /\ stack' \in [Threads -> Seq(Code) \ {<<>>}]
      /\ stack'[t] = stack[t] \o <<c>>
      /\ \A u \in Threads : u # t => stack'[u] = stack[u]
  BY <1>1, <1>2, PushOne DEF Stacks
<1>4. StackInv'
  BY <1>1, <1>2, <1>3, PushOne DEF Stacks, StackInv
<1> QED BY <1>1, <1>3, <1>4, PushOne DEF Stacks

\* So does a call through a JavaProxy, which enters two kinds of code at once.
LEMMA EnterProxyKeeps ==
    ASSUME Stacks, NEW t \in JavaThreads, Top(stack[t]) = "native",
           Enter(t, <<"proxy", "java">>)
    PROVE  /\ Stacks'
           /\ Top(stack'[t]) = "java"
           /\ \A u \in Threads : u # t => stack'[u] = stack[u]
<1> DEFINE s == stack[t] \o <<"proxy">>
<1>0. t \notin CppThreads /\ t \in Threads
  BY RuntimeAssumption DEF Threads
<1>1. stack[t] \in Seq(Code) \ {<<>>} /\ Nested(stack[t]) /\ stack[t][1] = "java"
  BY <1>0 DEF Stacks, StackInv
<1>2. s \in Seq(Code) \ {<<>>} /\ Top(s) = "proxy" /\ Nested(s) /\ s[1] = "java"
  BY <1>1, PushOne, "proxy" \in Code DEF Calls, Code
<1>3. stack[t] \o <<"proxy", "java">> = s \o <<"java">>
  BY <1>1 DEF Code
<1> HIDE DEF s
<1>4. /\ s \o <<"java">> \in Seq(Code) \ {<<>>}
      /\ Top(s \o <<"java">>) = "java"
      /\ (s \o <<"java">>)[1] = "java"
      /\ Nested(s \o <<"java">>)
  <2>1. "java" \in Code /\ <<Top(s), "java">> \in Calls
    BY <1>2 DEF Code, Calls
  <2> QED BY <1>2, <2>1, PushOne
<1>5. stack' = [stack EXCEPT ![t] = s \o <<"java">>]
  BY <1>3 DEF Enter
<1>6. /\ stack' \in [Threads -> Seq(Code) \ {<<>>}]
      /\ stack'[t] = s \o <<"java">>
      /\ \A u \in Threads : u # t => stack'[u] = stack[u]
  BY <1>0, <1>4, <1>5 DEF Stacks
<1>7. StackInv'
  BY <1>0, <1>4, <1>6 DEF Stacks, StackInv
<1> QED BY <1>4, <1>6, <1>7 DEF Stacks

-----------------------------------------------------------------------------
(* Exceptions in flight *)

Flying == {t \in Threads : IsJni(thrown[t])}

References(x) == IF IsJni(x) THEN 1 ELSE 0

\* The count of the exceptions in flight that own a reference follows the thread that steps.
LEMMA FlyingCounts ==
    ASSUME NEW t \in Threads, thrown \in [Threads -> Exception \cup {None}],
           NEW x, thrown' = [thrown EXCEPT ![t] = x]
    PROVE  Cardinality(Flying') = Cardinality(Flying) + References(x) - References(thrown[t])
<1>1. IsFiniteSet(Flying)
  <2>1. IsFiniteSet(Threads) /\ Flying \subseteq Threads
    BY RuntimeAssumption DEF Flying
  <2> QED BY <2>1, FS_Subset
<1>2. Cardinality(Flying) \in Nat
  BY <1>1, FS_CardinalityType
<1>3. Flying' = IF IsJni(x) THEN Flying \cup {t} ELSE Flying \ {t}
  BY DEF Flying, IsJni
<1>4. t \in Flying <=> IsJni(thrown[t])
  BY DEF Flying
<1>5. CASE IsJni(x) /\ ~ IsJni(thrown[t])
  <2>1. Cardinality(Flying \cup {t}) = Cardinality(Flying) + 1
    BY <1>1, <1>4, <1>5, FS_AddElement
  <2> QED BY <1>2, <1>3, <1>5, <2>1 DEF References
<1>6. CASE ~ IsJni(x) /\ IsJni(thrown[t])
  <2>1. Cardinality(Flying \ {t}) = Cardinality(Flying) - 1
    BY <1>1, <1>4, <1>6, FS_RemoveElement
  <2> QED BY <1>2, <1>3, <1>6, <2>1 DEF References
<1>7. CASE IsJni(x) <=> IsJni(thrown[t])
  <2>1. Flying' = Flying
    BY <1>3, <1>4, <1>7
  <2> QED BY <1>2, <1>7, <2>1 DEF References
<1> QED BY <1>5, <1>6, <1>7

\* The references in use, by owner.
Stored == IF kept # None THEN References(kept.exception) ELSE 0

\* GlobalsAreOwned in these terms; who has an exception in flight is among the owners.
LEMMA Owning ==
    ASSUME TypeOK, GlobalsAreOwned, process = "running"
    PROVE  /\ Cardinality(Flying) \in Nat
           /\ Stored \in {0, 1}
           /\ globals = proxies + Cardinality(Flying) + Stored + leaked
           /\ \A t \in Threads : IsJni(thrown[t]) => Cardinality(Flying) > 0
<1>1. IsFiniteSet(Flying)
  <2>1. IsFiniteSet(Threads) /\ Flying \subseteq Threads
    BY RuntimeAssumption DEF Flying
  <2> QED BY <2>1, FS_Subset
<1>2. Cardinality(Flying) \in Nat
  BY <1>1, FS_CardinalityType
<1>3. ASSUME NEW t \in Threads, IsJni(thrown[t]) PROVE Cardinality(Flying) > 0
  <2>1. Flying # {}
    BY <1>3 DEF Flying
  <2> QED BY <1>1, <1>2, <2>1, FS_EmptySet
<1>4. globals = proxies + Cardinality(Flying) + Stored + leaked
  BY <1>2 DEF TypeOK, GlobalsAreOwned, Owners, Flying, Stored, References
<1> QED BY <1>2, <1>3, <1>4 DEF Stored, References

\* ~GlobalRef() leaves one reference less in use.
LEMMA Releasing ==
    ASSUME NEW t, globals \in Nat, leaked \in Nat, globals > 0, Release(t, 1)
    PROVE  globals' \in Nat /\ leaked' \in Nat /\ globals' - leaked' = globals - leaked - 1
BY DEF Release

\* What is made is new, and no record is None.
LEMMA Making ==
    ASSUME TypeOK, Make,
           NEW c \in {"App", "Security", "MutedSecurity", "Runtime", "Error", "NoClass", "Memory"}
    PROVE  /\ New(c) \in Throwable /\ New(c) # None /\ New(c).class = c
           /\ born' \in Nat
<1>1. born + 1 \in 1..MaxThrows /\ born' = born + 1
  BY RuntimeAssumption DEF TypeOK, Make
<1>2. New(c) \in Throwable /\ New(c).class = c
  BY <1>1 DEF New, Throwable
<1> QED BY <1>1, <1>2, RuntimeAssumption

\* What is thrown is an exception, with the type and the throwable it was made of.
LEMMA MakingException ==
    ASSUME NEW y \in {"jni", "security", "std", "other"}, NEW e \in Throwable \cup {None}
    PROVE  LET x == [type |-> y, java |-> e] IN
           /\ x \in Exception /\ x # None /\ x.type = y /\ x.java = e
           /\ IsJni(x) <=> y = "jni"
<1> DEFINE x == [type |-> y, java |-> e]
<1>1. x \in Exception /\ x.type = y /\ x.java = e
  BY DEF Exception
<1> QED BY <1>1, RuntimeAssumption DEF IsJni

\* The same terms after a step.
LEMMA OwnedNext ==
    ASSUME process' = "running",
           globals' = proxies' + Cardinality(Flying') + Stored' + leaked'
    PROVE  GlobalsAreOwned'
BY DEF GlobalsAreOwned, Owners, Flying, Stored, References

\* A thread without an exception in flight owns no reference.
LEMMA NothingIsNotJni == ~ IsJni(None)
BY DEF IsJni

-----------------------------------------------------------------------------
(* What a step leaves alone *)

\* A step of t disturbs SideInv and ExceptionsTravel at t only.
LEMMA ThreadFrame ==
    ASSUME SideInv, ExceptionsTravel, NEW t \in Threads, UNCHANGED custom,
           \A u \in Threads : u # t =>
               /\ stack'[u] = stack[u] /\ pending'[u] = pending[u]
               /\ thrown'[u] = thrown[u] /\ raised'[u] = raised[u],
           SideAt(t)', TravelsAt(t)'
    PROVE  SideInv' /\ ExceptionsTravel'
<1>1. \A u \in Threads : u # t => SideAt(u)'
  BY DEF SideInv, SideAt
<1>2. \A u \in Threads : u # t => TravelsAt(u)'
  BY DEF ExceptionsTravel, TravelsAt, Carries, SameThrowable
<1> QED BY <1>1, <1>2 DEF SideInv, ExceptionsTravel, TravelsAt

\* A step that leaves the std::exception_ptr alone keeps what is said of it.
LEMMA KeptFrame == KeptInv /\ UNCHANGED <<custom, kept>> => KeptInv'
BY DEF KeptInv, SameThrowable

\* A step that neither loads nor enters jniInit() keeps what is said of loading.
LEMMA LoadFrame ==
    ASSUME LoadInv, UNCHANGED <<process, libraryVars>>, NEW t \in Threads,
           \A u \in Threads : u # t => stack'[u] = stack[u],
           stack'[t] = stack[t] \/ Top(stack'[t]) # "onload"
    PROVE  LoadInv'
<1>1. Remaining' = Remaining
  BY DEF Remaining, libraryVars
<1>2. \A u \in Threads : Top(stack'[u]) = "onload" => Top(stack[u]) = "onload"
  OBVIOUS
<1> QED BY <1>1, <1>2 DEF LoadInv, LoadedMeansReady, libraryVars

\* A step that neither throws nor releases keeps the owners.
LEMMA OwnedFrame ==
    GlobalsAreOwned /\ UNCHANGED <<process, thrown, refVars>> => GlobalsAreOwned'
BY DEF GlobalsAreOwned, Owners, refVars

-----------------------------------------------------------------------------
(* The steps *)

\* The first thread that loads has everything still to do.
LEMMA LoadLibraryPreserves ==
    ASSUME IInv, NEW t \in JavaThreads, LoadLibrary(t)
    PROVE  IInv'
<1>0. /\ TypeOK /\ Stacks /\ SideInv /\ ExceptionsTravel /\ KeptInv /\ LoadInv
      /\ GlobalsAreOwned /\ t \in Threads
  BY StacksHold DEF IInv, Threads
<1>1. /\ Stacks'
      /\ Top(stack'[t]) = "onload"
      /\ \A u \in Threads : u # t => stack'[u] = stack[u]
  BY <1>0, EnterKeeps DEF LoadLibrary, InJava, In, Calls, Code
<1>2. GlobalsAreOwned'
  BY <1>0, OwnedFrame DEF LoadLibrary
<1>3. TypeOK'
  BY RuntimeAssumption, <1>0, <1>1 DEF LoadLibrary, refVars, TypeOK, Stacks
<1>4. SideAt(t)'
  BY <1>0 DEF LoadLibrary, InJava, In, SideInv, SideAt
<1>5. TravelsAt(t)'
  BY <1>0 DEF LoadLibrary, ExceptionsTravel, TravelsAt, Carries, SameThrowable, SideAt, TypeOK
<1>6. SideInv' /\ ExceptionsTravel'
  BY <1>0, <1>1, <1>4, <1>5, ThreadFrame DEF LoadLibrary
<1>7. KeptInv'
  BY <1>0, KeptFrame DEF LoadLibrary, refVars
<1>8. LoadInv'
  <2>1. Remaining' = Registered
    BY DEF LoadLibrary, Remaining, Registered
  <2>2. \A u \in Threads : Top(stack[u]) # "onload"
    BY <1>0 DEF LoadLibrary, LoadInv
  <2>3. \A u \in Threads : Top(stack'[u]) = "onload" <=> u = t
    BY <1>1, <2>2
  <2> QED BY <1>0, <2>1, <2>3 DEF LoadLibrary, LoadInv, LoadedMeansReady, TypeOK
<1> QED BY <1>1, <1>2, <1>3, <1>6, <1>7, <1>8 DEF IInv, Stacks

\* An initializer that ran need not run again.
LEMMA RunInitializerPreserves ==
    ASSUME IInv, NEW t \in JavaThreads, RunInitializer(t)
    PROVE  IInv'
<1>0. /\ TypeOK /\ Stacks /\ SideInv /\ ExceptionsTravel /\ KeptInv /\ LoadInv
      /\ GlobalsAreOwned /\ t \in Threads
  BY StacksHold DEF IInv, Threads
<1>1. Stacks' /\ stack' = stack
  BY <1>0 DEF RunInitializer, threadVars, Stacks, StackInv
<1>2. GlobalsAreOwned'
  BY <1>0, OwnedFrame DEF RunInitializer, threadVars
<1>3. TypeOK'
  BY <1>0 DEF RunInitializer, threadVars, refVars, TypeOK
<1>4. SideAt(t)'
  BY <1>0 DEF RunInitializer, threadVars, SideInv, SideAt
<1>5. TravelsAt(t)'
  BY <1>0
     DEF RunInitializer, threadVars, ExceptionsTravel, TravelsAt, Carries, SameThrowable,
         SideAt, TypeOK
<1>6. SideInv' /\ ExceptionsTravel'
  BY <1>0, <1>4, <1>5, ThreadFrame DEF RunInitializer, threadVars
<1>7. KeptInv'
  BY <1>0, KeptFrame DEF RunInitializer, refVars
<1>8. LoadInv'
  <2>1. Remaining = {Head(todo)} \cup Remaining'
    <3>1. todo \in Seq(Registered) /\ todo # <<>> /\ todo' = Tail(todo)
      BY <1>0 DEF RunInitializer, TypeOK
    <3>2. /\ Len(todo) \in Nat \ {0} /\ DOMAIN todo = 1..Len(todo)
          /\ DOMAIN todo' = 1..(Len(todo) - 1) /\ Head(todo) = todo[1]
          /\ \A i \in 1..(Len(todo) - 1) : todo'[i] = todo[i + 1]
      <4>1. Len(todo) \in Nat \ {0} /\ DOMAIN todo = 1..Len(todo) /\ Head(todo) = todo[1]
        BY <3>1
      <4>2. Len(todo') = Len(todo) - 1 /\ DOMAIN todo' = 1..Len(todo')
        BY <3>1
      <4>3. \A i \in 1..(Len(todo) - 1) : todo'[i] = todo[i + 1]
        BY <3>1
      <4> QED BY <4>2, <4>3
    <3>3. \A i \in 2..Len(todo) : i - 1 \in 1..(Len(todo) - 1) /\ todo[i] = todo'[i - 1]
      BY <3>2
    <3>4. ASSUME NEW i \in DOMAIN todo PROVE todo[i] \in {Head(todo)} \cup Remaining'
      BY <3>2, <3>3 DEF Remaining
    <3>5. ASSUME NEW i \in DOMAIN todo' PROVE todo'[i] \in Remaining
      <4>1. i + 1 \in DOMAIN todo /\ todo'[i] = todo[i + 1]
        BY <3>2
      <4> QED BY <4>1 DEF Remaining
    <3>6. Head(todo) \in Remaining
      BY <3>2 DEF Remaining
    <3> QED BY <3>4, <3>5, <3>6 DEF Remaining
  <2> QED
    BY <1>0, <1>1, <2>1 DEF RunInitializer, In, LoadInv, LoadedMeansReady
<1> QED BY <1>1, <1>2, <1>3, <1>6, <1>7, <1>8 DEF IInv, Stacks

\* The failure is pending in Java, and the library is not loaded.
LEMMA InitializerFailsPreserves ==
    ASSUME IInv, NEW t \in JavaThreads, InitializerFails(t)
    PROVE  IInv'
<1>0. /\ TypeOK /\ Stacks /\ SideInv /\ ExceptionsTravel /\ KeptInv /\ LoadInv
      /\ GlobalsAreOwned /\ t \in Threads
  BY StacksHold DEF IInv, Threads
<1>1. /\ Stacks'
      /\ <<Top(stack'[t]), Top(stack[t])>> \in Calls
      /\ \A u \in Threads : u # t => stack'[u] = stack[u]
  BY <1>0, Below, LeaveKeeps DEF InitializerFails, In
<1>2. /\ New("NoClass") \in Throwable /\ New("NoClass") # None /\ New("NoClass").class = "NoClass"
      /\ born' \in Nat
  BY <1>0, Making DEF InitializerFails
<1>3. GlobalsAreOwned'
  BY <1>0, OwnedFrame DEF InitializerFails
<1>4. TypeOK'
  BY <1>0, <1>1, <1>2 DEF InitializerFails, Raise, refVars, TypeOK, Stacks
<1>5. SideAt(t)'
  BY <1>0, <1>1 DEF InitializerFails, In, SideInv, SideAt, Calls
<1>6. TravelsAt(t)'
  BY <1>0
     DEF InitializerFails, In, Raise, TravelsAt, Carries, SameThrowable, SideInv, SideAt,
         TypeOK
<1>7. SideInv' /\ ExceptionsTravel'
  BY <1>0, <1>1, <1>5, <1>6, ThreadFrame DEF InitializerFails, Raise
<1>8. KeptInv'
  BY <1>0, KeptFrame DEF InitializerFails, refVars
<1>9. LoadInv'
  BY <1>0, <1>1 DEF InitializerFails, In, LoadInv, LoadedMeansReady, Calls
<1> QED BY <1>1, <1>3, <1>4, <1>7, <1>8, <1>9 DEF IInv, Stacks

\* Nothing is left to do, so all the classes are there.
LEMMA OnLoadReturnsPreserves ==
    ASSUME IInv, NEW t \in JavaThreads, OnLoadReturns(t)
    PROVE  IInv'
<1>0. /\ TypeOK /\ Stacks /\ SideInv /\ ExceptionsTravel /\ KeptInv /\ LoadInv
      /\ GlobalsAreOwned /\ t \in Threads
  BY StacksHold DEF IInv, Threads
<1>1. /\ Stacks'
      /\ <<Top(stack'[t]), Top(stack[t])>> \in Calls
      /\ \A u \in Threads : u # t => stack'[u] = stack[u]
  BY <1>0, Below, LeaveKeeps DEF OnLoadReturns, In
<1>2. GlobalsAreOwned'
  BY <1>0, OwnedFrame DEF OnLoadReturns
<1>3. TypeOK'
  BY <1>0, <1>1 DEF OnLoadReturns, refVars, TypeOK, Stacks
<1>4. SideAt(t)'
  BY <1>0 DEF OnLoadReturns, In, SideInv, SideAt
<1>5. TravelsAt(t)'
  BY <1>0 DEF OnLoadReturns, ExceptionsTravel, TravelsAt, Carries, SameThrowable, TypeOK
<1>6. SideInv' /\ ExceptionsTravel'
  BY <1>0, <1>1, <1>4, <1>5, ThreadFrame DEF OnLoadReturns
<1>7. KeptInv'
  BY <1>0, KeptFrame DEF OnLoadReturns, refVars
<1>8. LoadInv'
  <2>1. Remaining = {}
    BY DEF OnLoadReturns, Remaining
  <2>2. \A u \in Threads : Top(stack'[u]) # "onload"
    BY <1>0, <1>1 DEF OnLoadReturns, In, LoadInv, Calls
  <2> QED BY <1>0, <2>1, <2>2 DEF OnLoadReturns, In, LoadInv, LoadedMeansReady
<1> QED BY <1>1, <1>2, <1>3, <1>6, <1>7, <1>8 DEF IInv, Stacks

\* The library is closed.
LEMMA UnloadLibraryPreserves ==
    ASSUME IInv, NEW t \in JavaThreads, UnloadLibrary(t)
    PROVE  IInv'
<1>0. /\ TypeOK /\ Stacks /\ SideInv /\ ExceptionsTravel /\ KeptInv /\ LoadInv
      /\ GlobalsAreOwned /\ t \in Threads
  BY StacksHold DEF IInv, Threads
<1>1. Stacks' /\ stack' = stack
  BY <1>0 DEF UnloadLibrary, threadVars, Stacks, StackInv
<1>2. GlobalsAreOwned'
  BY <1>0, OwnedFrame DEF UnloadLibrary, threadVars
<1>3. TypeOK'
  BY <1>0, <1>1 DEF UnloadLibrary, InJava, threadVars, refVars, In, TypeOK, Stacks
<1>4. SideAt(t)'
  BY <1>0 DEF UnloadLibrary, threadVars, SideInv, SideAt
<1>5. TravelsAt(t)'
  BY <1>0
     DEF UnloadLibrary, threadVars, ExceptionsTravel, TravelsAt, Carries, SameThrowable,
         SideInv, SideAt, TypeOK
<1>6. SideInv' /\ ExceptionsTravel'
  BY <1>0, <1>4, <1>5, ThreadFrame DEF UnloadLibrary, threadVars
<1>7. KeptInv'
  BY <1>0, KeptFrame DEF UnloadLibrary, refVars
<1>8. LoadInv'
  BY <1>0 DEF UnloadLibrary, threadVars, LoadInv, LoadedMeansReady
<1> QED BY <1>1, <1>2, <1>3, <1>6, <1>7, <1>8 DEF IInv, Stacks

\* C++ is entered with nothing pending.
LEMMA CallNativePreserves ==
    ASSUME IInv, NEW t \in JavaThreads, CallNative(t)
    PROVE  IInv'
<1>0. /\ TypeOK /\ Stacks /\ SideInv /\ ExceptionsTravel /\ KeptInv /\ LoadInv
      /\ GlobalsAreOwned /\ t \in Threads
  BY StacksHold DEF IInv, Threads
<1>1. /\ Stacks'
      /\ Top(stack'[t]) = "native"
      /\ \A u \in Threads : u # t => stack'[u] = stack[u]
  BY <1>0, EnterKeeps DEF CallNative, InJava, In, Calls, Code
<1>2. GlobalsAreOwned'
  BY <1>0, OwnedFrame DEF CallNative
<1>3. TypeOK'
  BY <1>0, <1>1 DEF CallNative, libraryVars, refVars, TypeOK, Stacks
<1>4. SideAt(t)'
  BY <1>0 DEF CallNative, InJava, In, SideInv, SideAt
<1>5. TravelsAt(t)'
  BY <1>0
     DEF CallNative, ExceptionsTravel, TravelsAt, Carries, SameThrowable, SideInv, SideAt,
         TypeOK
<1>6. SideInv' /\ ExceptionsTravel'
  BY <1>0, <1>1, <1>4, <1>5, ThreadFrame DEF CallNative
<1>7. KeptInv'
  BY <1>0, KeptFrame DEF CallNative, refVars
<1>8. LoadInv'
  BY <1>0, <1>1, LoadFrame DEF CallNative
<1> QED BY <1>1, <1>2, <1>3, <1>6, <1>7, <1>8 DEF IInv, Stacks

\* Java returns to the JavaProxy.
LEMMA JavaReturnsPreserves ==
    ASSUME IInv, NEW t \in JavaThreads, JavaReturns(t)
    PROVE  IInv'
<1>0. /\ TypeOK /\ Stacks /\ SideInv /\ ExceptionsTravel /\ KeptInv /\ LoadInv
      /\ GlobalsAreOwned /\ t \in Threads
  BY StacksHold DEF IInv, Threads
<1>1. /\ Stacks'
      /\ <<Top(stack'[t]), Top(stack[t])>> \in Calls
      /\ \A u \in Threads : u # t => stack'[u] = stack[u]
  BY <1>0, LeaveKeeps DEF JavaReturns
<1>2. GlobalsAreOwned'
  BY <1>0, OwnedFrame DEF JavaReturns
<1>3. TypeOK'
  BY <1>0, <1>1 DEF JavaReturns, libraryVars, refVars, TypeOK, Stacks
<1>4. SideAt(t)'
  BY <1>0 DEF JavaReturns, InJava, In, SideInv, SideAt
<1>5. TravelsAt(t)'
  BY <1>0
     DEF JavaReturns, ExceptionsTravel, TravelsAt, Carries, SameThrowable, SideInv, SideAt,
         TypeOK
<1>6. SideInv' /\ ExceptionsTravel'
  BY <1>0, <1>1, <1>4, <1>5, ThreadFrame DEF JavaReturns
<1>7. KeptInv'
  BY <1>0, KeptFrame DEF JavaReturns, refVars
<1>8. LoadInv'
  BY <1>0, <1>1, LoadFrame DEF JavaReturns, Calls
<1> QED BY <1>1, <1>2, <1>3, <1>6, <1>7, <1>8 DEF IInv, Stacks

\* What Java throws is pending in the JavaProxy, not in C++ code.
LEMMA JavaThrowsPreserves ==
    ASSUME IInv, NEW t \in JavaThreads,
           NEW class \in {"App", "Security", "MutedSecurity"},
           JavaThrows(t, class)
    PROVE  IInv'
<1>0. /\ TypeOK /\ Stacks /\ SideInv /\ ExceptionsTravel /\ KeptInv /\ LoadInv
      /\ GlobalsAreOwned /\ t \in Threads
  BY StacksHold DEF IInv, Threads
<1>1. /\ Stacks'
      /\ <<Top(stack'[t]), Top(stack[t])>> \in Calls
      /\ \A u \in Threads : u # t => stack'[u] = stack[u]
  BY <1>0, LeaveKeeps DEF JavaThrows
<1>2. /\ New(class) \in Throwable /\ New(class) # None /\ New(class).class = class
      /\ born' \in Nat
  BY <1>0, Making DEF JavaThrows
<1>3. GlobalsAreOwned'
  BY <1>0, OwnedFrame DEF JavaThrows
<1>4. TypeOK'
  BY <1>0, <1>1, <1>2 DEF JavaThrows, Raise, libraryVars, refVars, TypeOK, Stacks
<1>5. SideAt(t)'
  BY <1>0, <1>1 DEF JavaThrows, InJava, In, SideInv, SideAt, TypeOK, Calls
<1>6. TravelsAt(t)'
  BY <1>0
     DEF JavaThrows, InJava, Raise, In, TravelsAt, Carries, SameThrowable, SideInv, SideAt,
         TypeOK
<1>7. SideInv' /\ ExceptionsTravel'
  BY <1>0, <1>1, <1>5, <1>6, ThreadFrame DEF JavaThrows, Raise
<1>8. KeptInv'
  BY <1>0, KeptFrame DEF JavaThrows, refVars
<1>9. LoadInv'
  BY <1>0, <1>1, LoadFrame DEF JavaThrows, Calls
<1> QED BY <1>1, <1>3, <1>4, <1>7, <1>8, <1>9 DEF IInv, Stacks

\* So is what it passes on.
LEMMA JavaPassesOnPreserves ==
    ASSUME IInv, NEW t \in JavaThreads, JavaPassesOn(t)
    PROVE  IInv'
<1>0. /\ TypeOK /\ Stacks /\ SideInv /\ ExceptionsTravel /\ KeptInv /\ LoadInv
      /\ GlobalsAreOwned /\ t \in Threads
  BY StacksHold DEF IInv, Threads
<1>1. /\ Stacks'
      /\ <<Top(stack'[t]), Top(stack[t])>> \in Calls
      /\ \A u \in Threads : u # t => stack'[u] = stack[u]
  BY <1>0, LeaveKeeps DEF JavaPassesOn
<1>2. GlobalsAreOwned'
  BY <1>0, OwnedFrame DEF JavaPassesOn
<1>3. TypeOK'
  BY <1>0, <1>1 DEF JavaPassesOn, libraryVars, refVars, TypeOK, Stacks
<1>4. SideAt(t)'
  BY <1>0, <1>1 DEF JavaPassesOn, In, SideInv, SideAt, Calls
<1>5. TravelsAt(t)'
  BY <1>0 DEF JavaPassesOn, ExceptionsTravel, TravelsAt, Carries, SameThrowable, SideAt, TypeOK
<1>6. SideInv' /\ ExceptionsTravel'
  BY <1>0, <1>1, <1>4, <1>5, ThreadFrame DEF JavaPassesOn
<1>7. KeptInv'
  BY <1>0, KeptFrame DEF JavaPassesOn, refVars
<1>8. LoadInv'
  BY <1>0, <1>1, LoadFrame DEF JavaPassesOn, Calls
<1> QED BY <1>1, <1>2, <1>3, <1>6, <1>7, <1>8 DEF IInv, Stacks

\* What is caught is over.
LEMMA JavaCatchesPreserves ==
    ASSUME IInv, NEW t \in JavaThreads, JavaCatches(t)
    PROVE  IInv'
<1>0. /\ TypeOK /\ Stacks /\ SideInv /\ ExceptionsTravel /\ KeptInv /\ LoadInv
      /\ GlobalsAreOwned /\ t \in Threads
  BY StacksHold DEF IInv, Threads
<1>1. Stacks' /\ stack' = stack
  BY <1>0 DEF JavaCatches, Stacks, StackInv
<1>2. GlobalsAreOwned'
  BY <1>0, OwnedFrame DEF JavaCatches
<1>3. TypeOK'
  BY <1>0 DEF JavaCatches, Raise, libraryVars, refVars, TypeOK
<1>4. SideAt(t)'
  BY <1>0 DEF JavaCatches, SideInv, SideAt
<1>5. TravelsAt(t)'
  BY <1>0 DEF JavaCatches, Raise, ExceptionsTravel, TravelsAt, Carries, SideInv, SideAt, TypeOK
<1>6. SideInv' /\ ExceptionsTravel'
  BY <1>0, <1>4, <1>5, ThreadFrame DEF JavaCatches, Raise
<1>7. KeptInv'
  BY <1>0, KeptFrame DEF JavaCatches, refVars
<1>8. LoadInv'
  BY <1>0, LoadFrame DEF JavaCatches
<1> QED BY <1>1, <1>2, <1>3, <1>6, <1>7, <1>8 DEF IInv, Stacks

\* A new JavaProxy owns a new reference.
LEMMA TakeProxyPreserves ==
    ASSUME IInv, NEW t \in JavaThreads, TakeProxy(t)
    PROVE  IInv'
<1>0. /\ TypeOK /\ Stacks /\ SideInv /\ ExceptionsTravel /\ KeptInv /\ LoadInv
      /\ GlobalsAreOwned /\ t \in Threads
  BY StacksHold DEF IInv, Threads
<1>1. Stacks' /\ stack' = stack
  BY <1>0 DEF TakeProxy, threadVars, Stacks, StackInv
<1>2. Flying' = Flying
  BY DEF TakeProxy, threadVars, Flying
<1>3. process = "running" /\ process' = "running"
  BY DEF TakeProxy, InCpp, In
<1>4. GlobalsAreOwned'
  <2>1. /\ Cardinality(Flying) \in Nat /\ Stored \in {0, 1}
        /\ globals = proxies + Cardinality(Flying) + Stored + leaked
    BY <1>0, <1>3, Owning
  <2>2. Stored' = Stored
    BY DEF TakeProxy, Stored
  <2>3. proxies' = proxies + 1 /\ globals' = globals + 1 /\ leaked' = leaked
    BY DEF TakeProxy
  <2>5. proxies \in Nat /\ globals \in Nat /\ leaked \in Nat
    BY <1>0 DEF TypeOK
  <2>6. globals' = proxies' + Cardinality(Flying') + Stored' + leaked'
    BY <1>2, <2>1, <2>2, <2>3, <2>5
  <2> QED BY <1>3, <2>6, OwnedNext
<1>5. TypeOK'
  BY <1>0 DEF TakeProxy, libraryVars, threadVars, TypeOK
<1>6. SideAt(t)'
  BY <1>0 DEF TakeProxy, threadVars, SideInv, SideAt
<1>7. TravelsAt(t)'
  BY <1>0
     DEF TakeProxy, threadVars, ExceptionsTravel, TravelsAt, Carries, SameThrowable, SideInv,
         SideAt, TypeOK
<1>8. SideInv' /\ ExceptionsTravel'
  BY <1>0, <1>6, <1>7, ThreadFrame DEF TakeProxy, threadVars
<1>9. KeptInv'
  BY <1>0, KeptFrame DEF TakeProxy
<1>10. LoadInv'
  BY <1>0, <1>1, LoadFrame DEF TakeProxy
<1> QED BY <1>1, <1>4, <1>5, <1>8, <1>9, <1>10 DEF IInv, Stacks

\* Its reference is deleted or given up.
LEMMA DropProxyPreserves ==
    ASSUME IInv, NEW t \in Threads, DropProxy(t)
    PROVE  IInv'
<1>0. /\ TypeOK /\ Stacks /\ SideInv /\ ExceptionsTravel /\ KeptInv /\ LoadInv
      /\ GlobalsAreOwned /\ t \in Threads
  BY StacksHold DEF IInv
<1>1. Stacks' /\ stack' = stack
  BY <1>0 DEF DropProxy, threadVars, Stacks, StackInv
<1>2. Flying' = Flying
  BY DEF DropProxy, threadVars, Flying
<1>3. process = "running" /\ process' = "running"
  BY DEF DropProxy, In
<1>4. globals > 0
  BY <1>0, <1>3, Owning DEF DropProxy, TypeOK
<1>5. /\ globals' \in Nat /\ leaked' \in Nat
      /\ globals' - leaked' = globals - leaked - 1
  BY <1>0, <1>4, Releasing DEF DropProxy, TypeOK
<1>6. GlobalsAreOwned'
  <2>1. /\ Cardinality(Flying) \in Nat /\ Stored \in {0, 1}
        /\ globals = proxies + Cardinality(Flying) + Stored + leaked
    BY <1>0, <1>3, Owning
  <2>2. Stored' = Stored
    BY DEF DropProxy, Stored
  <2>3. proxies' = proxies - 1
    BY DEF DropProxy
  <2>5. proxies \in Nat /\ globals \in Nat /\ leaked \in Nat
    BY <1>0 DEF TypeOK
  <2>6. globals' = proxies' + Cardinality(Flying') + Stored' + leaked'
    BY <1>2, <1>5, <2>1, <2>2, <2>3, <2>5
  <2> QED BY <1>3, <2>6, OwnedNext
<1>7. TypeOK'
  BY <1>0, <1>5 DEF DropProxy, libraryVars, threadVars, TypeOK
<1>8. SideAt(t)'
  BY <1>0 DEF DropProxy, threadVars, SideInv, SideAt
<1>9. TravelsAt(t)'
  BY <1>0
     DEF DropProxy, threadVars, ExceptionsTravel, TravelsAt, Carries, SameThrowable, SideAt,
         TypeOK
<1>10. SideInv' /\ ExceptionsTravel'
  BY <1>0, <1>8, <1>9, ThreadFrame DEF DropProxy, threadVars
<1>11. KeptInv'
  BY <1>0, KeptFrame DEF DropProxy
<1>12. LoadInv'
  BY <1>0, <1>1, LoadFrame DEF DropProxy
<1> QED BY <1>1, <1>6, <1>7, <1>10, <1>11, <1>12 DEF IInv, Stacks

\* C++ calls Java through a JavaProxy.
LEMMA CallProxyPreserves ==
    ASSUME IInv, NEW t \in JavaThreads, CallProxy(t)
    PROVE  IInv'
<1>0. /\ TypeOK /\ Stacks /\ SideInv /\ ExceptionsTravel /\ KeptInv /\ LoadInv
      /\ GlobalsAreOwned /\ t \in Threads
  BY StacksHold DEF IInv, Threads
<1>1. /\ Stacks'
      /\ Top(stack'[t]) = "java"
      /\ \A u \in Threads : u # t => stack'[u] = stack[u]
  BY <1>0, JavaIsNotCpp, EnterProxyKeeps DEF CallProxy, InCpp, In
<1>2. GlobalsAreOwned'
  BY <1>0, OwnedFrame DEF CallProxy
<1>3. TypeOK'
  BY <1>0, <1>1 DEF CallProxy, libraryVars, refVars, TypeOK, Stacks
<1>4. SideAt(t)'
  BY <1>0 DEF CallProxy, InCpp, In, SideInv, SideAt
<1>5. TravelsAt(t)'
  BY <1>0
     DEF CallProxy, ExceptionsTravel, TravelsAt, Carries, SameThrowable, SideInv, SideAt,
         TypeOK
<1>6. SideInv' /\ ExceptionsTravel'
  BY <1>0, <1>1, <1>4, <1>5, ThreadFrame DEF CallProxy
<1>7. KeptInv'
  BY <1>0, KeptFrame DEF CallProxy, refVars
<1>8. LoadInv'
  BY <1>0, <1>1, LoadFrame DEF CallProxy
<1> QED BY <1>1, <1>2, <1>3, <1>6, <1>7, <1>8 DEF IInv, Stacks

\* The call fails before Java is entered.
LEMMA CallProxyFailsPreserves ==
    ASSUME IInv, NEW t \in JavaThreads, CallProxyFails(t)
    PROVE  IInv'
<1>0. /\ TypeOK /\ Stacks /\ SideInv /\ ExceptionsTravel /\ KeptInv /\ LoadInv
      /\ GlobalsAreOwned /\ t \in Threads
  BY StacksHold DEF IInv, Threads
<1>1. Stacks' /\ stack' = stack
  BY <1>0 DEF CallProxyFails, Stacks, StackInv
<1>2. /\ New("Memory") \in Throwable /\ New("Memory") # None /\ New("Memory").class = "Memory"
      /\ born' \in Nat
  BY <1>0, Making DEF CallProxyFails
<1> DEFINE x == [type |-> "jni", java |-> New("Memory")]
<1>3. /\ x \in Exception /\ x # None /\ IsJni(x)
      /\ x.type = "jni" /\ x.java = New("Memory")
  BY <1>2, MakingException
<1>4. thrown' = [thrown EXCEPT ![t] = x]
  BY DEF CallProxyFails, Throw
<1> HIDE DEF x
<1>5. ~ IsJni(thrown[t])
  BY NothingIsNotJni DEF CallProxyFails, InCpp
<1>6. /\ Cardinality(Flying') = Cardinality(Flying) + 1
      /\ Cardinality(Flying) \in Nat
  <2>1. Cardinality(Flying') = Cardinality(Flying) + References(x) - References(thrown[t])
    BY <1>0, <1>4, FlyingCounts DEF TypeOK
  <2>2. References(x) = 1 /\ References(thrown[t]) = 0
    BY <1>3, <1>5 DEF References
  <2> QED BY <1>0, <2>1, <2>2, Owning DEF CallProxyFails, InCpp, In
<1>7. process = "running" /\ process' = "running"
  BY DEF CallProxyFails, InCpp, In
<1>8. GlobalsAreOwned'
  <2>1. /\ Cardinality(Flying) \in Nat /\ Stored \in {0, 1}
        /\ globals = proxies + Cardinality(Flying) + Stored + leaked
    BY <1>0, <1>7, Owning
  <2>2. Stored' = Stored
    BY DEF CallProxyFails, Stored
  <2>3. proxies' = proxies /\ globals' = globals + 1 /\ leaked' = leaked
    BY DEF CallProxyFails
  <2>5. proxies \in Nat /\ globals \in Nat /\ leaked \in Nat
    BY <1>0 DEF TypeOK
  <2>6. globals' = proxies' + Cardinality(Flying') + Stored' + leaked'
    BY <1>6, <2>1, <2>2, <2>3, <2>5
  <2> QED BY <1>7, <2>6, OwnedNext
<1>9. TypeOK'
  BY <1>0, <1>2, <1>3, <1>4 DEF CallProxyFails, Throw, libraryVars, TypeOK
<1>10. SideAt(t)'
  BY <1>0, <1>2 DEF CallProxyFails, InCpp, Throw, In, SideInv, SideAt, TypeOK
<1>11. TravelsAt(t)'
  BY <1>0, <1>2, <1>3, <1>4
     DEF CallProxyFails, InCpp, Throw, In, TravelsAt, Carries, SameThrowable, SideInv, SideAt,
         TypeOK
<1>12. SideInv' /\ ExceptionsTravel'
  BY <1>0, <1>10, <1>11, ThreadFrame DEF CallProxyFails, Throw
<1>13. KeptInv'
  BY <1>0, KeptFrame DEF CallProxyFails
<1>14. LoadInv'
  BY <1>0, LoadFrame DEF CallProxyFails
<1> QED BY <1>1, <1>8, <1>9, <1>12, <1>13, <1>14 DEF IInv, Stacks

\* Nothing is pending.
LEMMA ProxyReturnsPreserves ==
    ASSUME IInv, NEW t \in JavaThreads, ProxyReturns(t)
    PROVE  IInv'
<1>0. /\ TypeOK /\ Stacks /\ SideInv /\ ExceptionsTravel /\ KeptInv /\ LoadInv
      /\ GlobalsAreOwned /\ t \in Threads
  BY StacksHold DEF IInv, Threads
<1>1. /\ Stacks'
      /\ <<Top(stack'[t]), Top(stack[t])>> \in Calls
      /\ \A u \in Threads : u # t => stack'[u] = stack[u]
  BY <1>0, Below, LeaveKeeps DEF ProxyReturns, In
<1>2. GlobalsAreOwned'
  BY <1>0, OwnedFrame DEF ProxyReturns
<1>3. TypeOK'
  BY <1>0, <1>1 DEF ProxyReturns, libraryVars, refVars, TypeOK, Stacks
<1>4. SideAt(t)'
  BY <1>0 DEF ProxyReturns, In, SideInv, SideAt
<1>5. TravelsAt(t)'
  BY <1>0 DEF ProxyReturns, ExceptionsTravel, TravelsAt, Carries, SameThrowable, SideAt, TypeOK
<1>6. SideInv' /\ ExceptionsTravel'
  BY <1>0, <1>1, <1>4, <1>5, ThreadFrame DEF ProxyReturns
<1>7. KeptInv'
  BY <1>0, KeptFrame DEF ProxyReturns, refVars
<1>8. LoadInv'
  BY <1>0, <1>1, LoadFrame DEF ProxyReturns, Calls
<1> QED BY <1>1, <1>2, <1>3, <1>6, <1>7, <1>8 DEF IInv, Stacks

\* What is pending becomes a jni_exception.
LEMMA ProxyRethrowsPreserves ==
    ASSUME IInv, NEW t \in JavaThreads, ProxyRethrows(t)
    PROVE  IInv'
<1>0. /\ TypeOK /\ Stacks /\ SideInv /\ ExceptionsTravel /\ KeptInv /\ LoadInv
      /\ GlobalsAreOwned /\ t \in Threads
  BY StacksHold DEF IInv, Threads
<1>1. /\ Stacks'
      /\ <<Top(stack'[t]), Top(stack[t])>> \in Calls
      /\ \A u \in Threads : u # t => stack'[u] = stack[u]
  BY <1>0, Below, LeaveKeeps DEF ProxyRethrows, In
<1>2. pending[t] \in Throwable
  BY <1>0 DEF ProxyRethrows, TypeOK
<1> DEFINE x == [type |-> "jni", java |-> pending[t]]
<1>3. /\ x \in Exception /\ x # None /\ IsJni(x)
      /\ x.type = "jni" /\ x.java = pending[t]
  BY <1>2, MakingException
<1>4. thrown' = [thrown EXCEPT ![t] = x]
  BY DEF ProxyRethrows
<1> HIDE DEF x
<1>5. ~ IsJni(thrown[t])
  BY <1>0, NothingIsNotJni DEF ProxyRethrows, In, SideInv, SideAt
<1>6. /\ Cardinality(Flying') = Cardinality(Flying) + 1
      /\ Cardinality(Flying) \in Nat
  <2>1. Cardinality(Flying') = Cardinality(Flying) + References(x) - References(thrown[t])
    BY <1>0, <1>4, FlyingCounts DEF TypeOK
  <2>2. References(x) = 1 /\ References(thrown[t]) = 0
    BY <1>3, <1>5 DEF References
  <2> QED BY <1>0, <2>1, <2>2, Owning DEF ProxyRethrows, In
<1>7. process = "running" /\ process' = "running"
  BY DEF ProxyRethrows, In
<1>8. GlobalsAreOwned'
  <2>1. /\ Cardinality(Flying) \in Nat /\ Stored \in {0, 1}
        /\ globals = proxies + Cardinality(Flying) + Stored + leaked
    BY <1>0, <1>7, Owning
  <2>2. Stored' = Stored
    BY DEF ProxyRethrows, Stored
  <2>3. proxies' = proxies /\ globals' = globals + 1 /\ leaked' = leaked
    BY DEF ProxyRethrows
  <2>5. proxies \in Nat /\ globals \in Nat /\ leaked \in Nat
    BY <1>0 DEF TypeOK
  <2>6. globals' = proxies' + Cardinality(Flying') + Stored' + leaked'
    BY <1>6, <2>1, <2>2, <2>3, <2>5
  <2> QED BY <1>7, <2>6, OwnedNext
<1>9. TypeOK'
  BY <1>0, <1>1, <1>3, <1>4 DEF ProxyRethrows, libraryVars, TypeOK, Stacks
<1>10. SideAt(t)'
  BY <1>0, <1>1 DEF ProxyRethrows, In, SideAt, TypeOK, Calls
<1>11. TravelsAt(t)'
  BY <1>0, <1>3, <1>4
     DEF ProxyRethrows, ExceptionsTravel, TravelsAt, Carries, SameThrowable, SideInv, SideAt,
         TypeOK
<1>12. SideInv' /\ ExceptionsTravel'
  BY <1>0, <1>1, <1>10, <1>11, ThreadFrame DEF ProxyRethrows
<1>13. KeptInv'
  BY <1>0, KeptFrame DEF ProxyRethrows
<1>14. LoadInv'
  BY <1>0, <1>1, LoadFrame DEF ProxyRethrows, Calls
<1> QED BY <1>1, <1>8, <1>9, <1>12, <1>13, <1>14 DEF IInv, Stacks

\* The hook makes a my_security_exception of a SecurityException.
LEMMA ProxyRethrowsSecurityPreserves ==
    ASSUME IInv, NEW t \in JavaThreads, ProxyRethrowsSecurity(t)
    PROVE  IInv'
<1>0. /\ TypeOK /\ Stacks /\ SideInv /\ ExceptionsTravel /\ KeptInv /\ LoadInv
      /\ GlobalsAreOwned /\ t \in Threads
  BY StacksHold DEF IInv, Threads
<1>1. /\ Stacks'
      /\ <<Top(stack'[t]), Top(stack[t])>> \in Calls
      /\ \A u \in Threads : u # t => stack'[u] = stack[u]
  BY <1>0, Below, LeaveKeeps DEF ProxyRethrowsSecurity, In
<1>2. pending[t] \in Throwable
  BY <1>0 DEF ProxyRethrowsSecurity, TypeOK
<1> DEFINE x == [type |-> "security", java |-> None]
<1>3. /\ x \in Exception /\ x # None /\ ~ IsJni(x)
      /\ x.type = "security" /\ x.java = None
  BY MakingException
<1>4. thrown' = [thrown EXCEPT ![t] = x]
  BY DEF ProxyRethrowsSecurity
<1> HIDE DEF x
<1>5. ~ IsJni(thrown[t])
  BY <1>0, NothingIsNotJni DEF ProxyRethrowsSecurity, In, SideInv, SideAt
<1>6. /\ Cardinality(Flying') = Cardinality(Flying)
      /\ Cardinality(Flying) \in Nat
  <2>1. Cardinality(Flying') = Cardinality(Flying) + References(x) - References(thrown[t])
    BY <1>0, <1>4, FlyingCounts DEF TypeOK
  <2>2. References(x) = 0 /\ References(thrown[t]) = 0
    BY <1>3, <1>5 DEF References
  <2> QED BY <1>0, <2>1, <2>2, Owning DEF ProxyRethrowsSecurity, In
<1>7. process = "running" /\ process' = "running"
  BY DEF ProxyRethrowsSecurity, In
<1>8. GlobalsAreOwned'
  <2>1. /\ Cardinality(Flying) \in Nat /\ Stored \in {0, 1}
        /\ globals = proxies + Cardinality(Flying) + Stored + leaked
    BY <1>0, <1>7, Owning
  <2>2. Stored' = Stored
    BY DEF ProxyRethrowsSecurity, refVars, Stored
  <2>3. proxies' = proxies /\ globals' = globals /\ leaked' = leaked
    BY DEF ProxyRethrowsSecurity, refVars
  <2>5. proxies \in Nat /\ globals \in Nat /\ leaked \in Nat
    BY <1>0 DEF TypeOK
  <2>6. globals' = proxies' + Cardinality(Flying') + Stored' + leaked'
    BY <1>6, <2>1, <2>2, <2>3
  <2> QED BY <1>7, <2>6, OwnedNext
<1>9. TypeOK'
  BY <1>0, <1>1, <1>3, <1>4 DEF ProxyRethrowsSecurity, libraryVars, refVars, TypeOK, Stacks
<1>10. SideAt(t)'
  BY <1>0, <1>1, <1>3, <1>4 DEF ProxyRethrowsSecurity, In, SideAt, TypeOK, Calls
<1>11. TravelsAt(t)'
  BY <1>0, <1>3, <1>4
     DEF ProxyRethrowsSecurity, ExceptionsTravel, TravelsAt, Carries, SameThrowable, SideInv,
         SideAt, TypeOK
<1>12. SideInv' /\ ExceptionsTravel'
  BY <1>0, <1>1, <1>10, <1>11, ThreadFrame DEF ProxyRethrowsSecurity
<1>13. KeptInv'
  BY <1>0, KeptFrame DEF ProxyRethrowsSecurity, refVars
<1>14. LoadInv'
  BY <1>0, <1>1, LoadFrame DEF ProxyRethrowsSecurity, Calls
<1> QED BY <1>1, <1>8, <1>9, <1>12, <1>13, <1>14 DEF IInv, Stacks

\* And an Error of one without a message.
LEMMA ProxyRethrowsMutedPreserves ==
    ASSUME IInv, NEW t \in JavaThreads, ProxyRethrowsMuted(t)
    PROVE  IInv'
<1>0. /\ TypeOK /\ Stacks /\ SideInv /\ ExceptionsTravel /\ KeptInv /\ LoadInv
      /\ GlobalsAreOwned /\ t \in Threads
  BY StacksHold DEF IInv, Threads
<1>1. /\ Stacks'
      /\ <<Top(stack'[t]), Top(stack[t])>> \in Calls
      /\ \A u \in Threads : u # t => stack'[u] = stack[u]
  BY <1>0, Below, LeaveKeeps DEF ProxyRethrowsMuted, In
<1>2. /\ New("Error") \in Throwable /\ New("Error") # None /\ New("Error").class = "Error"
      /\ born' \in Nat
  BY <1>0, Making DEF ProxyRethrowsMuted
<1>3. pending[t] \in Throwable
  BY <1>0 DEF ProxyRethrowsMuted, TypeOK
<1> DEFINE x == [type |-> "jni", java |-> New("Error")]
<1>4. /\ x \in Exception /\ x # None /\ IsJni(x)
      /\ x.type = "jni" /\ x.java = New("Error")
  BY <1>2, MakingException
<1>5. thrown' = [thrown EXCEPT ![t] = x]
  BY DEF ProxyRethrowsMuted
<1> HIDE DEF x
<1>6. ~ IsJni(thrown[t])
  BY <1>0, NothingIsNotJni DEF ProxyRethrowsMuted, In, SideInv, SideAt
<1>7. /\ Cardinality(Flying') = Cardinality(Flying) + 1
      /\ Cardinality(Flying) \in Nat
  <2>1. Cardinality(Flying') = Cardinality(Flying) + References(x) - References(thrown[t])
    BY <1>0, <1>5, FlyingCounts DEF TypeOK
  <2>2. References(x) = 1 /\ References(thrown[t]) = 0
    BY <1>4, <1>6 DEF References
  <2> QED BY <1>0, <2>1, <2>2, Owning DEF ProxyRethrowsMuted, In
<1>8. process = "running" /\ process' = "running"
  BY DEF ProxyRethrowsMuted, In
<1>9. GlobalsAreOwned'
  <2>1. /\ Cardinality(Flying) \in Nat /\ Stored \in {0, 1}
        /\ globals = proxies + Cardinality(Flying) + Stored + leaked
    BY <1>0, <1>8, Owning
  <2>2. Stored' = Stored
    BY DEF ProxyRethrowsMuted, Stored
  <2>3. proxies' = proxies /\ globals' = globals + 1 /\ leaked' = leaked
    BY DEF ProxyRethrowsMuted
  <2>5. proxies \in Nat /\ globals \in Nat /\ leaked \in Nat
    BY <1>0 DEF TypeOK
  <2>6. globals' = proxies' + Cardinality(Flying') + Stored' + leaked'
    BY <1>7, <2>1, <2>2, <2>3, <2>5
  <2> QED BY <1>8, <2>6, OwnedNext
<1>10. TypeOK'
  BY <1>0, <1>1, <1>2, <1>4, <1>5 DEF ProxyRethrowsMuted, libraryVars, TypeOK, Stacks
<1>11. SideAt(t)'
  BY <1>0, <1>1, <1>2 DEF ProxyRethrowsMuted, In, SideAt, TypeOK, Calls
<1>12. TravelsAt(t)'
  BY <1>0, <1>2, <1>4, <1>5
     DEF ProxyRethrowsMuted, ExceptionsTravel, TravelsAt, Carries, SameThrowable, SideInv,
         SideAt, TypeOK
<1>13. SideInv' /\ ExceptionsTravel'
  BY <1>0, <1>1, <1>11, <1>12, ThreadFrame DEF ProxyRethrowsMuted
<1>14. KeptInv'
  BY <1>0, KeptFrame DEF ProxyRethrowsMuted
<1>15. LoadInv'
  BY <1>0, <1>1, LoadFrame DEF ProxyRethrowsMuted, Calls
<1> QED BY <1>1, <1>9, <1>10, <1>13, <1>14, <1>15 DEF IInv, Stacks

\* C++ throws what no Java code has thrown.
LEMMA CppThrowsPreserves ==
    ASSUME IInv, NEW t \in Threads, NEW type \in {"std", "other"},
           CppThrows(t, type)
    PROVE  IInv'
<1>0. /\ TypeOK /\ Stacks /\ SideInv /\ ExceptionsTravel /\ KeptInv /\ LoadInv
      /\ GlobalsAreOwned /\ t \in Threads
  BY StacksHold DEF IInv
<1>1. Stacks' /\ stack' = stack
  BY <1>0 DEF CppThrows, Stacks, StackInv
<1> DEFINE x == [type |-> type, java |-> None]
<1>2. /\ x \in Exception /\ x # None /\ ~ IsJni(x)
      /\ x.type = type /\ x.java = None
  BY MakingException
<1>3. thrown' = [thrown EXCEPT ![t] = x]
  BY DEF CppThrows, Throw
<1> HIDE DEF x
<1>4. ~ IsJni(thrown[t])
  BY NothingIsNotJni DEF CppThrows, InCpp
<1>5. /\ Cardinality(Flying') = Cardinality(Flying)
      /\ Cardinality(Flying) \in Nat
  <2>1. Cardinality(Flying') = Cardinality(Flying) + References(x) - References(thrown[t])
    BY <1>0, <1>3, FlyingCounts DEF TypeOK
  <2>2. References(x) = 0 /\ References(thrown[t]) = 0
    BY <1>2, <1>4 DEF References
  <2> QED BY <1>0, <2>1, <2>2, Owning DEF CppThrows, InCpp, In
<1>6. process = "running" /\ process' = "running"
  BY DEF CppThrows, InCpp, In
<1>7. GlobalsAreOwned'
  <2>1. /\ Cardinality(Flying) \in Nat /\ Stored \in {0, 1}
        /\ globals = proxies + Cardinality(Flying) + Stored + leaked
    BY <1>0, <1>6, Owning
  <2>2. Stored' = Stored
    BY DEF CppThrows, refVars, Stored
  <2>3. proxies' = proxies /\ globals' = globals /\ leaked' = leaked
    BY DEF CppThrows, refVars
  <2>5. proxies \in Nat /\ globals \in Nat /\ leaked \in Nat
    BY <1>0 DEF TypeOK
  <2>6. globals' = proxies' + Cardinality(Flying') + Stored' + leaked'
    BY <1>5, <2>1, <2>2, <2>3
  <2> QED BY <1>6, <2>6, OwnedNext
<1>8. TypeOK'
  BY <1>0, <1>2, <1>3 DEF CppThrows, Throw, libraryVars, refVars, TypeOK
<1>9. SideAt(t)'
  BY <1>0, <1>2, <1>3 DEF CppThrows, InCpp, In, SideInv, SideAt, TypeOK
<1>10. TravelsAt(t)'
  BY <1>0
     DEF CppThrows, InCpp, Throw, In, TravelsAt, Carries, SameThrowable, SideInv, SideAt,
         TypeOK
<1>11. SideInv' /\ ExceptionsTravel'
  BY <1>0, <1>9, <1>10, ThreadFrame DEF CppThrows, Throw
<1>12. KeptInv'
  BY <1>0, KeptFrame DEF CppThrows, refVars
<1>13. LoadInv'
  BY <1>0, LoadFrame DEF CppThrows
<1> QED BY <1>1, <1>7, <1>8, <1>11, <1>12, <1>13 DEF IInv, Stacks

\* A caught exception gives its reference back.
LEMMA CppCatchesPreserves ==
    ASSUME IInv, NEW t \in Threads, CppCatches(t)
    PROVE  IInv'
<1>0. /\ TypeOK /\ Stacks /\ SideInv /\ ExceptionsTravel /\ KeptInv /\ LoadInv
      /\ GlobalsAreOwned /\ t \in Threads
  BY StacksHold DEF IInv
<1>1. Stacks' /\ stack' = stack
  BY <1>0 DEF CppCatches, Stacks, StackInv
<1> DEFINE x == None
<1>2. x = None /\ ~ IsJni(x)
  BY NothingIsNotJni
<1>3. thrown' = [thrown EXCEPT ![t] = x]
  BY DEF CppCatches, Throw
<1> HIDE DEF x
<1>4. thrown[t] \in Exception
  BY <1>0 DEF CppCatches, TypeOK
<1>5. /\ Cardinality(Flying') = Cardinality(Flying) - References(thrown[t])
      /\ Cardinality(Flying) \in Nat
  <2>1. Cardinality(Flying') = Cardinality(Flying) + References(x) - References(thrown[t])
    BY <1>0, <1>3, FlyingCounts DEF TypeOK
  <2>2. References(x) = 0 /\ References(thrown[t]) \in {0, 1}
    BY <1>2 DEF References
  <2> QED BY <1>0, <2>1, <2>2, Owning DEF CppCatches, In
<1>6. process = "running" /\ process' = "running"
  BY DEF CppCatches, In
<1>7. IsJni(thrown[t]) => globals > 0
  BY <1>0, <1>6, Owning DEF TypeOK
<1>8. IsJni(thrown[t]) =>
        /\ globals' \in Nat /\ leaked' \in Nat
        /\ globals' - leaked' = globals - leaked - 1
  BY <1>0, <1>7, Releasing DEF CppCatches, TypeOK
<1>9. GlobalsAreOwned'
  <2>1. /\ Cardinality(Flying) \in Nat /\ Stored \in {0, 1}
        /\ globals = proxies + Cardinality(Flying) + Stored + leaked
    BY <1>0, <1>6, Owning
  <2>2. Stored' = Stored
    BY DEF CppCatches, Stored
  <2>3. proxies' = proxies
    BY DEF CppCatches
  <2>4. /\ References(thrown[t]) \in {0, 1} /\ globals' \in Nat /\ leaked' \in Nat
        /\ globals' - leaked' = globals - leaked - References(thrown[t])
    <3>1. CASE IsJni(thrown[t])
      BY <3>1, <1>8 DEF References
    <3>2. CASE ~ IsJni(thrown[t])
      BY <1>0, <3>2 DEF CppCatches, References, TypeOK
    <3> QED BY <3>1, <3>2
  <2>5. proxies \in Nat /\ globals \in Nat /\ leaked \in Nat
    BY <1>0 DEF TypeOK
  <2>6. globals' = proxies' + Cardinality(Flying') + Stored' + leaked'
    BY <1>5, <2>4, <2>1, <2>2, <2>3, <2>5
  <2> QED BY <1>6, <2>6, OwnedNext
<1>10. TypeOK'
  BY <1>0, <1>8 DEF CppCatches, Throw, libraryVars, TypeOK, Stacks
<1>11. SideAt(t)'
  BY <1>0 DEF CppCatches, Throw, IsJni, SideInv, SideAt, TypeOK
<1>12. TravelsAt(t)'
  BY <1>0
     DEF CppCatches, Throw, ExceptionsTravel, TravelsAt, Carries, SameThrowable, SideInv,
         SideAt, TypeOK
<1>13. SideInv' /\ ExceptionsTravel'
  BY <1>0, <1>11, <1>12, ThreadFrame DEF CppCatches, Throw
<1>14. KeptInv'
  BY <1>0, KeptFrame DEF CppCatches
<1>15. LoadInv'
  BY <1>0, LoadFrame DEF CppCatches
<1> QED BY <1>1, <1>9, <1>10, <1>13, <1>14, <1>15 DEF IInv, Stacks

\* A stored one keeps it.
LEMMA CppKeepsPreserves ==
    ASSUME IInv, NEW t \in Threads, CppKeeps(t)
    PROVE  IInv'
<1>0. /\ TypeOK /\ Stacks /\ SideInv /\ ExceptionsTravel /\ KeptInv /\ LoadInv
      /\ GlobalsAreOwned /\ t \in Threads
  BY StacksHold DEF IInv
<1>1. Stacks' /\ stack' = stack
  BY <1>0 DEF CppKeeps, Stacks, StackInv
<1> DEFINE x == None
<1>2. x = None /\ ~ IsJni(x)
  BY NothingIsNotJni
<1>3. thrown' = [thrown EXCEPT ![t] = x]
  BY DEF CppKeeps, Throw
<1> HIDE DEF x
<1>4. thrown[t] \in Exception
  BY <1>0 DEF CppKeeps, TypeOK
<1>5. /\ Cardinality(Flying') = Cardinality(Flying) - References(thrown[t])
      /\ Cardinality(Flying) \in Nat
  <2>1. Cardinality(Flying') = Cardinality(Flying) + References(x) - References(thrown[t])
    BY <1>0, <1>3, FlyingCounts DEF TypeOK
  <2>2. References(x) = 0 /\ References(thrown[t]) \in {0, 1}
    BY <1>2 DEF References
  <2> QED BY <1>0, <2>1, <2>2, Owning DEF CppKeeps, In
<1>6. process = "running" /\ process' = "running"
  BY DEF CppKeeps, In
<1>7. GlobalsAreOwned'
  <2>1. /\ Cardinality(Flying) \in Nat /\ Stored \in {0, 1}
        /\ globals = proxies + Cardinality(Flying) + Stored + leaked
    BY <1>0, <1>6, Owning
  <2>2. Stored' = References(thrown[t]) /\ Stored = 0
    BY <1>0, RuntimeAssumption DEF CppKeeps, Stored, TypeOK, Kept
  <2>3. proxies' = proxies /\ globals' = globals /\ leaked' = leaked
    BY DEF CppKeeps
  <2>5. proxies \in Nat /\ globals \in Nat /\ leaked \in Nat
    BY <1>0 DEF TypeOK
  <2>6. globals' = proxies' + Cardinality(Flying') + Stored' + leaked'
    BY <1>5, <2>1, <2>2, <2>3, <2>5 DEF References
  <2> QED BY <1>6, <2>6, OwnedNext
<1>8. TypeOK'
  BY <1>0 DEF CppKeeps, Throw, libraryVars, TypeOK, Kept
<1>9. SideAt(t)'
  BY <1>0, <1>2 DEF CppKeeps, Throw, SideInv, SideAt, TypeOK
<1>10. TravelsAt(t)'
  BY <1>0
     DEF CppKeeps, Throw, ExceptionsTravel, TravelsAt, Carries, SameThrowable, SideInv, SideAt,
         TypeOK
<1>11. SideInv' /\ ExceptionsTravel'
  BY <1>0, <1>9, <1>10, ThreadFrame DEF CppKeeps, Throw
<1>12. KeptInv'
  BY <1>0
     DEF CppKeeps, KeptInv, ExceptionsTravel, Carries, SameThrowable, SideInv, SideAt, TypeOK
<1>13. LoadInv'
  BY <1>0, LoadFrame DEF CppKeeps
<1> QED BY <1>1, <1>7, <1>8, <1>11, <1>12, <1>13 DEF IInv, Stacks

\* A rethrown one takes it along.
LEMMA RethrowKeptPreserves ==
    ASSUME IInv, NEW t \in Threads, RethrowKept(t)
    PROVE  IInv'
<1>0. /\ TypeOK /\ Stacks /\ SideInv /\ ExceptionsTravel /\ KeptInv /\ LoadInv
      /\ GlobalsAreOwned /\ t \in Threads
  BY StacksHold DEF IInv
<1>1. Stacks' /\ stack' = stack
  BY <1>0 DEF RethrowKept, Stacks, StackInv
<1> DEFINE x == kept.exception
<1>2. x \in Exception /\ x # None /\ kept.raised \in Throwable \cup {None}
  BY <1>0, RuntimeAssumption DEF RethrowKept, TypeOK, Kept
<1>3. thrown' = [thrown EXCEPT ![t] = x]
  BY DEF RethrowKept, Throw
<1>4. pending[t] = None /\ thrown[t] = None
  BY <1>0 DEF RethrowKept, InCpp, In, SideInv, SideAt
<1> HIDE DEF x
<1>5. ~ IsJni(thrown[t])
  BY NothingIsNotJni DEF RethrowKept, InCpp
<1>6. /\ Cardinality(Flying') = Cardinality(Flying) + References(x)
      /\ Cardinality(Flying) \in Nat
  <2>1. Cardinality(Flying') = Cardinality(Flying) + References(x) - References(thrown[t])
    BY <1>0, <1>3, FlyingCounts DEF TypeOK
  <2>2. References(x) \in {0, 1} /\ References(thrown[t]) = 0
    BY <1>5 DEF References
  <2> QED BY <1>0, <2>1, <2>2, Owning DEF RethrowKept, InCpp, In
<1>7. process = "running" /\ process' = "running"
  BY DEF RethrowKept, InCpp, In
<1>8. GlobalsAreOwned'
  <2>1. /\ Cardinality(Flying) \in Nat /\ Stored \in {0, 1}
        /\ globals = proxies + Cardinality(Flying) + Stored + leaked
    BY <1>0, <1>7, Owning
  <2>2. Stored' = 0 /\ Stored = References(x)
    BY DEF RethrowKept, Stored, x
  <2>3. proxies' = proxies /\ globals' = globals /\ leaked' = leaked
    BY DEF RethrowKept
  <2>5. proxies \in Nat /\ globals \in Nat /\ leaked \in Nat
    BY <1>0 DEF TypeOK
  <2>6. globals' = proxies' + Cardinality(Flying') + Stored' + leaked'
    BY <1>6, <2>1, <2>2, <2>3, <2>5
  <2> QED BY <1>7, <2>6, OwnedNext
<1>9. TypeOK'
  BY <1>0 DEF RethrowKept, Throw, libraryVars, TypeOK, Kept
<1>10. SideAt(t)'
  BY <1>0 DEF RethrowKept, InCpp, Throw, In, SideInv, SideAt, TypeOK, KeptInv
<1>11. TravelsAt(t)'
  BY <1>0, <1>2, <1>3
     DEF RethrowKept, InCpp, Throw, In, TravelsAt, Carries, SameThrowable, SideInv, SideAt,
         TypeOK, KeptInv
<1>12. SideInv' /\ ExceptionsTravel'
  BY <1>0, <1>10, <1>11, ThreadFrame DEF RethrowKept, Throw
<1>13. KeptInv'
  BY DEF RethrowKept, KeptInv, SameThrowable, SideInv, SideAt, TypeOK
<1>14. LoadInv'
  BY <1>0, LoadFrame DEF RethrowKept
<1> QED BY <1>1, <1>8, <1>9, <1>12, <1>13, <1>14 DEF IInv, Stacks

\* A forgotten one gives it back.
LEMMA DropKeptPreserves ==
    ASSUME IInv, NEW t \in Threads, DropKept(t)
    PROVE  IInv'
<1>0. /\ TypeOK /\ Stacks /\ SideInv /\ ExceptionsTravel /\ KeptInv /\ LoadInv
      /\ GlobalsAreOwned /\ t \in Threads
  BY StacksHold DEF IInv
<1>1. Stacks' /\ stack' = stack
  BY <1>0 DEF DropKept, threadVars, Stacks, StackInv
<1>2. Flying' = Flying
  BY DEF DropKept, threadVars, Flying
<1>3. process = "running" /\ process' = "running"
  BY DEF DropKept, In
<1>4. IsJni(kept.exception) => globals > 0
  BY <1>0, <1>3, Owning DEF DropKept, TypeOK, Stored, References
<1>5. IsJni(kept.exception) =>
        /\ globals' \in Nat /\ leaked' \in Nat
        /\ globals' - leaked' = globals - leaked - 1
  BY <1>0, <1>4, Releasing DEF DropKept, TypeOK
<1>6. GlobalsAreOwned'
  <2>1. /\ Cardinality(Flying) \in Nat /\ Stored \in {0, 1}
        /\ globals = proxies + Cardinality(Flying) + Stored + leaked
    BY <1>0, <1>3, Owning
  <2>2. Stored' = 0 /\ Stored = References(kept.exception)
    BY DEF DropKept, Stored
  <2>3. proxies' = proxies
    BY DEF DropKept
  <2>4. /\ References(kept.exception) \in {0, 1} /\ globals' \in Nat /\ leaked' \in Nat
        /\ globals' - leaked' = globals - leaked - References(kept.exception)
    <3>1. CASE IsJni(kept.exception)
      BY <3>1, <1>5 DEF References
    <3>2. CASE ~ IsJni(kept.exception)
      BY <1>0, <3>2 DEF DropKept, References, TypeOK
    <3> QED BY <3>1, <3>2
  <2>5. proxies \in Nat /\ globals \in Nat /\ leaked \in Nat
    BY <1>0 DEF TypeOK
  <2>6. globals' = proxies' + Cardinality(Flying') + Stored' + leaked'
    BY <1>2, <2>4, <2>1, <2>2, <2>3, <2>5
  <2> QED BY <1>3, <2>6, OwnedNext
<1>7. TypeOK'
  BY <1>0, <1>5 DEF DropKept, libraryVars, threadVars, TypeOK
<1>8. SideAt(t)'
  BY <1>0 DEF DropKept, threadVars, SideInv, SideAt
<1>9. TravelsAt(t)'
  BY <1>0
     DEF DropKept, threadVars, ExceptionsTravel, TravelsAt, Carries, SameThrowable, SideInv,
         SideAt, TypeOK
<1>10. SideInv' /\ ExceptionsTravel'
  BY <1>0, <1>8, <1>9, ThreadFrame DEF DropKept, threadVars
<1>11. KeptInv'
  BY DEF DropKept, KeptInv, SideAt, TypeOK
<1>12. LoadInv'
  BY <1>0, <1>1, LoadFrame DEF DropKept
<1> QED BY <1>1, <1>6, <1>7, <1>10, <1>11, <1>12 DEF IInv, Stacks

\* Nothing is in flight.
LEMMA NativeReturnsPreserves ==
    ASSUME IInv, NEW t \in JavaThreads, NativeReturns(t)
    PROVE  IInv'
<1>0. /\ TypeOK /\ Stacks /\ SideInv /\ ExceptionsTravel /\ KeptInv /\ LoadInv
      /\ GlobalsAreOwned /\ t \in Threads
  BY StacksHold DEF IInv, Threads
<1>1. /\ Stacks'
      /\ <<Top(stack'[t]), Top(stack[t])>> \in Calls
      /\ \A u \in Threads : u # t => stack'[u] = stack[u]
  BY <1>0, Below, LeaveKeeps DEF NativeReturns, In
<1>2. GlobalsAreOwned'
  BY <1>0, OwnedFrame DEF NativeReturns
<1>3. TypeOK'
  BY <1>0, <1>1 DEF NativeReturns, libraryVars, refVars, TypeOK, Stacks
<1>4. SideAt(t)'
  BY <1>0 DEF NativeReturns, In, SideInv, SideAt
<1>5. TravelsAt(t)'
  BY <1>0
     DEF NativeReturns, ExceptionsTravel, TravelsAt, Carries, SameThrowable, SideAt, TypeOK
<1>6. SideInv' /\ ExceptionsTravel'
  BY <1>0, <1>1, <1>4, <1>5, ThreadFrame DEF NativeReturns
<1>7. KeptInv'
  BY <1>0, KeptFrame DEF NativeReturns, refVars
<1>8. LoadInv'
  BY <1>0, <1>1, LoadFrame DEF NativeReturns, Calls
<1> QED BY <1>1, <1>2, <1>3, <1>6, <1>7, <1>8 DEF IInv, Stacks

\* The throwable of a jni_exception is pending again, as itself.
LEMMA NativeThrowsJniPreserves ==
    ASSUME IInv, NEW t \in JavaThreads, NativeThrowsJni(t)
    PROVE  IInv'
<1>0. /\ TypeOK /\ Stacks /\ SideInv /\ ExceptionsTravel /\ KeptInv /\ LoadInv
      /\ GlobalsAreOwned /\ t \in Threads
  BY StacksHold DEF IInv, Threads
<1>1. /\ Stacks'
      /\ <<Top(stack'[t]), Top(stack[t])>> \in Calls
      /\ \A u \in Threads : u # t => stack'[u] = stack[u]
  BY <1>0, Below, LeaveKeeps DEF NativeThrowsJni, In
<1> DEFINE x == None
<1>2. x = None /\ ~ IsJni(x)
  BY NothingIsNotJni
<1>3. thrown' = [thrown EXCEPT ![t] = x]
  BY DEF NativeThrowsJni
<1> HIDE DEF x
<1>4. thrown[t] \in Exception
  BY <1>0 DEF NativeThrowsJni, TypeOK, IsJni
<1>5. thrown[t].java \in Throwable
  BY <1>0, <1>4 DEF NativeThrowsJni, SideInv, SideAt, Exception
<1>6. /\ Cardinality(Flying') = Cardinality(Flying) - 1
      /\ Cardinality(Flying) \in Nat
  <2>1. Cardinality(Flying') = Cardinality(Flying) + References(x) - References(thrown[t])
    BY <1>0, <1>3, FlyingCounts DEF TypeOK
  <2>2. References(x) = 0 /\ References(thrown[t]) = 1
    BY <1>2 DEF NativeThrowsJni, References
  <2> QED BY <1>0, <2>1, <2>2, Owning DEF NativeThrowsJni, In
<1>7. process = "running" /\ process' = "running"
  BY DEF NativeThrowsJni, In
<1>8. globals > 0
  BY <1>0, <1>7, Owning DEF NativeThrowsJni, TypeOK
<1>9. /\ globals' \in Nat /\ leaked' \in Nat
      /\ globals' - leaked' = globals - leaked - 1
  BY <1>0, <1>8, Releasing DEF NativeThrowsJni, TypeOK
<1>10. GlobalsAreOwned'
  <2>1. /\ Cardinality(Flying) \in Nat /\ Stored \in {0, 1}
        /\ globals = proxies + Cardinality(Flying) + Stored + leaked
    BY <1>0, <1>7, Owning
  <2>2. Stored' = Stored
    BY DEF NativeThrowsJni, Stored
  <2>3. proxies' = proxies
    BY DEF NativeThrowsJni
  <2>5. proxies \in Nat /\ globals \in Nat /\ leaked \in Nat
    BY <1>0 DEF TypeOK
  <2>6. globals' = proxies' + Cardinality(Flying') + Stored' + leaked'
    BY <1>6, <1>9, <2>1, <2>2, <2>3, <2>5
  <2> QED BY <1>7, <2>6, OwnedNext
<1>11. TypeOK'
  BY <1>0, <1>1, <1>5, <1>9 DEF NativeThrowsJni, libraryVars, TypeOK, Stacks
<1>12. SideAt(t)'
  BY <1>0, <1>1 DEF NativeThrowsJni, IsJni, SideInv, SideAt, TypeOK, Calls
<1>13. TravelsAt(t)'
  BY RuntimeAssumption, <1>0, <1>1, <1>2, <1>3, <1>4, <1>5
     DEF NativeThrowsJni, In, IsJni, libraryVars, ExceptionsTravel, TravelsAt, Carries,
         SameThrowable, SideInv, SideAt, TypeOK
<1>14. SideInv' /\ ExceptionsTravel'
  BY <1>0, <1>1, <1>12, <1>13, ThreadFrame DEF NativeThrowsJni
<1>15. KeptInv'
  BY <1>0, KeptFrame DEF NativeThrowsJni
<1>16. LoadInv'
  BY <1>0, <1>1, LoadFrame DEF NativeThrowsJni, Calls
<1> QED BY <1>1, <1>10, <1>11, <1>14, <1>15, <1>16 DEF IInv, Stacks

\* A new throwable stands for any other exception.
LEMMA NativeThrowsNewPreserves ==
    ASSUME IInv, NEW t \in JavaThreads, NativeThrowsNew(t)
    PROVE  IInv'
<1>0. /\ TypeOK /\ Stacks /\ SideInv /\ ExceptionsTravel /\ KeptInv /\ LoadInv
      /\ GlobalsAreOwned /\ t \in Threads
  BY StacksHold DEF IInv, Threads
<1>1. /\ Stacks'
      /\ <<Top(stack'[t]), Top(stack[t])>> \in Calls
      /\ \A u \in Threads : u # t => stack'[u] = stack[u]
  BY <1>0, Below, LeaveKeeps DEF NativeThrowsNew, In
<1> DEFINE c == IF thrown[t].type = "security" THEN "Security" ELSE "Runtime"
<1>2. /\ New(c) \in Throwable /\ New(c) # None /\ New(c).class = c
      /\ born' \in Nat
  BY <1>0, Making DEF NativeThrowsNew
<1> DEFINE x == None
<1>3. x = None /\ ~ IsJni(x)
  BY NothingIsNotJni
<1>4. thrown' = [thrown EXCEPT ![t] = x]
  BY DEF NativeThrowsNew
<1> HIDE DEF x
<1>5. thrown[t] \in Exception
  BY <1>0 DEF NativeThrowsNew, TypeOK
<1>6. ~ IsJni(thrown[t])
  BY DEF NativeThrowsNew, IsJni
<1>7. /\ Cardinality(Flying') = Cardinality(Flying)
      /\ Cardinality(Flying) \in Nat
  <2>1. Cardinality(Flying') = Cardinality(Flying) + References(x) - References(thrown[t])
    BY <1>0, <1>4, FlyingCounts DEF TypeOK
  <2>2. References(x) = 0 /\ References(thrown[t]) = 0
    BY <1>3, <1>6 DEF References
  <2> QED BY <1>0, <2>1, <2>2, Owning DEF NativeThrowsNew, In
<1>8. process = "running" /\ process' = "running"
  BY DEF NativeThrowsNew, In
<1>9. GlobalsAreOwned'
  <2>1. /\ Cardinality(Flying) \in Nat /\ Stored \in {0, 1}
        /\ globals = proxies + Cardinality(Flying) + Stored + leaked
    BY <1>0, <1>8, Owning
  <2>2. Stored' = Stored
    BY DEF NativeThrowsNew, refVars, Stored
  <2>3. proxies' = proxies /\ globals' = globals /\ leaked' = leaked
    BY DEF NativeThrowsNew, refVars
  <2>5. proxies \in Nat /\ globals \in Nat /\ leaked \in Nat
    BY <1>0 DEF TypeOK
  <2>6. globals' = proxies' + Cardinality(Flying') + Stored' + leaked'
    BY <1>7, <2>1, <2>2, <2>3
  <2> QED BY <1>8, <2>6, OwnedNext
<1>10. TypeOK'
  BY <1>0, <1>1, <1>2 DEF NativeThrowsNew, libraryVars, refVars, TypeOK, Stacks
<1>11. SideAt(t)'
  BY <1>0, <1>1, <1>3 DEF NativeThrowsNew, SideInv, SideAt, TypeOK, Calls
<1>12. TravelsAt(t)'
  BY <1>0, <1>2
     DEF NativeThrowsNew, ExceptionsTravel, TravelsAt, Carries, SameThrowable, SideInv, SideAt,
         TypeOK, IsJni
<1>13. SideInv' /\ ExceptionsTravel'
  BY <1>0, <1>1, <1>11, <1>12, ThreadFrame DEF NativeThrowsNew
<1>14. KeptInv'
  BY <1>0, KeptFrame DEF NativeThrowsNew, refVars
<1>15. LoadInv'
  BY <1>0, <1>1, LoadFrame DEF NativeThrowsNew, Calls
<1> QED BY <1>1, <1>9, <1>10, <1>13, <1>14, <1>15 DEF IInv, Stacks

\* The process ends: no thread runs, and nothing else that the invariant looks at changes.
LEMMA EndPreserves ==
    ASSUME IInv, UNCHANGED <<custom, libraryVars, threadVars, kept, globals, leaked, born>>,
           process' \in {"aborted", "undefined", "terminated"}, proxies' \in Nat,
           process' = "undefined" => library # "loaded"
    PROVE  IInv'
<1>1. TypeOK' /\ StackInv'
  BY DEF IInv, TypeOK, StackInv, libraryVars, threadVars
<1>2. SideInv' /\ ExceptionsTravel'
  BY DEF IInv, SideInv, SideAt, ExceptionsTravel, Carries, SameThrowable, threadVars
<1>3. KeptInv'
  BY KeptFrame DEF IInv
<1>4. LoadInv'
  <2>1. Remaining' = Remaining
    BY DEF Remaining, libraryVars
  <2> QED BY <2>1 DEF IInv, LoadInv, LoadedMeansReady, libraryVars, threadVars
<1>5. GlobalsAreOwned'
  BY DEF GlobalsAreOwned
<1> QED BY <1>1, <1>2, <1>3, <1>4, <1>5 DEF IInv

\* Five steps end it.
LEMMA EndStepPreserves ==
    ASSUME IInv, NEW t \in Threads,
           \/ InitializerFailsInHook(t)
           \/ DropProxyDies(t)
           \/ UseMissingClass(t)
           \/ CallProxyDies(t)
           \/ Terminates(t)
    PROVE  IInv'
<1>0. TypeOK /\ LoadInv
  BY DEF IInv
<1>1. CASE InitializerFailsInHook(t)
  <2>1. library # "loaded"
    BY <1>0, <1>1 DEF InitializerFailsInHook, In, LoadInv
  <2> QED BY <1>0, <1>1, <2>1, EndPreserves DEF InitializerFailsInHook, TypeOK, refVars
<1>2. CASE DropProxyDies(t)
  BY <1>0, <1>2, EndPreserves DEF DropProxyDies, Dies, LoadInv, TypeOK
<1>3. CASE UseMissingClass(t)
  BY <1>0, <1>3, EndPreserves
     DEF UseMissingClass, LoadInv, LoadedMeansReady, TypeOK, refVars
<1>4. CASE CallProxyDies(t)
  BY <1>0, <1>4, EndPreserves DEF CallProxyDies, Dies, LoadInv, TypeOK, refVars
<1>5. CASE Terminates(t)
  BY <1>0, <1>5, EndPreserves DEF Terminates, TypeOK, refVars
<1> QED BY <1>1, <1>2, <1>3, <1>4, <1>5

-----------------------------------------------------------------------------
(* The theorems *)

\* Nothing is loaded, in flight, kept or referred to at first.
LEMMA InitEstablishes == Init => IInv
<1> SUFFICES ASSUME Init PROVE IInv
  OBVIOUS
<1>1. \A t \in Threads :
        /\ stack[t] = IF t \in JavaThreads THEN <<"java">> ELSE <<"cpp">>
        /\ Top(stack[t]) # "onload" /\ Top(stack[t]) # "proxy"
        /\ stack[t] # <<>>
  BY DEF Init, Top
<1>2. TypeOK
  <2>1. <<"java">> \in Seq(Code) /\ <<"cpp">> \in Seq(Code) /\ <<>> \in Seq(Registered)
    BY DEF Code
  <2> QED BY <1>1, <2>1 DEF Init, TypeOK
<1>3. StackInv
  <2>1. \A t \in Threads : Len(stack[t]) = 1
    BY <1>1
  <2>2. \A t \in Threads : Nested(stack[t])
    BY <2>1 DEF Nested
  <2>3. \A t \in CppThreads : t \notin JavaThreads
    BY RuntimeAssumption
  <2>4. \A t \in Threads : t \in JavaThreads => stack[t] = <<"java">>
    BY <1>1
  <2> QED BY <1>1, <2>2, <2>3, <2>4 DEF StackInv
<1>4. SideInv /\ ExceptionsTravel
  BY NothingIsNotJni DEF Init, SideInv, SideAt, ExceptionsTravel
<1>5. KeptInv
  BY DEF Init, KeptInv
<1>6. LoadInv
  BY <1>1 DEF Init, LoadInv, LoadedMeansReady
<1>7. GlobalsAreOwned
  <2>1. {t \in Threads : IsJni(thrown[t])} = {}
    BY NothingIsNotJni DEF Init
  <2>2. Cardinality({t \in Threads : IsJni(thrown[t])}) = 0
    BY <2>1, FS_EmptySet
  <2> QED BY <2>2 DEF Init, GlobalsAreOwned, Owners
<1> QED BY <1>2, <1>3, <1>4, <1>5, <1>6, <1>7 DEF IInv

\* Every step preserves the invariant.
LEMMA StepPreserves == IInv /\ [Next]_vars => IInv'
<1> SUFFICES ASSUME IInv, [Next]_vars PROVE IInv'
  OBVIOUS
<1>1. CASE UNCHANGED vars
  <2>1. TypeOK' /\ StackInv'
    BY <1>1 DEF vars, IInv, TypeOK, StackInv, libraryVars, threadVars, refVars
  <2>2. SideInv' /\ ExceptionsTravel'
    BY <1>1 DEF vars, IInv, SideInv, SideAt, ExceptionsTravel, Carries, SameThrowable,
                threadVars
  <2>3. KeptInv' /\ GlobalsAreOwned'
    BY <1>1, KeptFrame, OwnedFrame DEF vars, IInv, threadVars, refVars
  <2>4. LoadInv'
    <3>1. Remaining' = Remaining
      BY <1>1 DEF vars, Remaining, libraryVars
    <3> QED BY <1>1, <3>1 DEF vars, IInv, LoadInv, LoadedMeansReady, libraryVars, threadVars
  <2> QED BY <2>1, <2>2, <2>3, <2>4 DEF IInv
<1>2. ASSUME NEW t \in Threads,
             \/ InitializerFailsInHook(t)
             \/ DropProxyDies(t)
             \/ UseMissingClass(t)
             \/ CallProxyDies(t)
             \/ Terminates(t)
      PROVE  IInv'
  BY <1>2, EndStepPreserves
<1>3. ASSUME NEW t \in JavaThreads,
             \/ LoadLibrary(t) \/ RunInitializer(t) \/ InitializerFails(t)
             \/ OnLoadReturns(t) \/ UnloadLibrary(t)
      PROVE  IInv'
  BY <1>3, LoadLibraryPreserves, RunInitializerPreserves, InitializerFailsPreserves,
     OnLoadReturnsPreserves, UnloadLibraryPreserves
<1>4. ASSUME NEW t \in JavaThreads,
             \/ CallNative(t) \/ JavaReturns(t) \/ JavaPassesOn(t) \/ JavaCatches(t)
             \/ \E class \in {"App", "Security", "MutedSecurity"} : JavaThrows(t, class)
      PROVE  IInv'
  BY <1>4, CallNativePreserves, JavaReturnsPreserves, JavaPassesOnPreserves,
     JavaCatchesPreserves, JavaThrowsPreserves
<1>5. ASSUME NEW t \in JavaThreads,
             \/ TakeProxy(t) \/ CallProxy(t) \/ CallProxyFails(t) \/ ProxyReturns(t)
             \/ ProxyRethrows(t) \/ ProxyRethrowsSecurity(t) \/ ProxyRethrowsMuted(t)
      PROVE  IInv'
  BY <1>5, TakeProxyPreserves, CallProxyPreserves, CallProxyFailsPreserves,
     ProxyReturnsPreserves, ProxyRethrowsPreserves, ProxyRethrowsSecurityPreserves,
     ProxyRethrowsMutedPreserves
<1>6. ASSUME NEW t \in JavaThreads,
             NativeReturns(t) \/ NativeThrowsJni(t) \/ NativeThrowsNew(t)
      PROVE  IInv'
  BY <1>6, NativeReturnsPreserves, NativeThrowsJniPreserves, NativeThrowsNewPreserves
<1>7. ASSUME NEW t \in Threads,
             \/ DropProxy(t)
             \/ \E type \in {"std", "other"} : CppThrows(t, type)
             \/ CppCatches(t) \/ CppKeeps(t) \/ RethrowKept(t) \/ DropKept(t)
      PROVE  IInv'
  BY <1>7, DropProxyPreserves, CppThrowsPreserves, CppCatchesPreserves, CppKeepsPreserves,
     RethrowKeptPreserves, DropKeptPreserves
<1>8. JavaThreads \subseteq Threads
  BY DEF Threads
<1> QED BY <1>1, <1>2, <1>3, <1>4, <1>5, <1>6, <1>7, <1>8 DEF Next

\* The inductive invariant holds in every reachable state, with either setting of the hooks.
THEOREM Invariance == Spec => []IInv
BY InitEstablishes, StepPreserves, PTL DEF Spec

\* Type correctness.
THEOREM TypeCorrect == Spec => []TypeOK
<1>1. IInv => TypeOK
  BY DEF IInv
<1> QED BY Invariance, <1>1, PTL

\* However calls nest, C++ code never runs with a Java exception pending.
THEOREM NativeCodeRunsClean == Spec => []NativeRunsClean
<1>1. IInv => NativeRunsClean
  BY DEF IInv, SideInv, SideAt, NativeRunsClean, In
<1> QED BY Invariance, <1>1, PTL

\* What was thrown on one side arrives on the other, through any number of crossings.
THEOREM ExceptionsCross == Spec => []ExceptionsTravel
<1>1. IInv => ExceptionsTravel
  BY DEF IInv
<1> QED BY Invariance, <1>1, PTL

\* No global reference is forgotten and none is deleted twice.
THEOREM ReferencesAreOwned == Spec => []GlobalsAreOwned
<1>1. IInv => GlobalsAreOwned
  BY DEF IInv
<1> QED BY Invariance, <1>1, PTL

\* A library that loaded has every class it will look for.
THEOREM LoadingIsComplete == Spec => []LoadedMeansReady
<1>1. IInv => LoadedMeansReady
  BY DEF IInv, LoadInv
<1> QED BY Invariance, <1>1, PTL
=============================================================================
