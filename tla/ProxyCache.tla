----------------------------- MODULE ProxyCache -----------------------------
(***************************************************************************)
(* support-lib/proxy_cache_impl.hpp and proxy_cache_interface.hpp: the     *)
(* cache of proxy objects that all four language directions share.  The    *)
(* table maps the address of an object to a weak pointer to its proxy.     *)
(* Each proxy owns a Handle, which owns the object, and whose destructor   *)
(* takes the entry out of the table after the proxy became unreachable:    *)
(* between the two another thread may look the object up, find the pointer *)
(* expired and put a second proxy in its place.                            *)
(*                                                                         *)
(* The instantiations differ in three ways, which are constants here:      *)
(*    SyncDestroy   the thread that drops the last reference runs          *)
(*                  ~Handle() itself (shared_ptr, ARC); otherwise a        *)
(*                  finalizer thread does, some time later (Java)          *)
(*    StrongProbe   is_expired() upgrades the weak pointer to a strong     *)
(*                  temporary (JavaWeakRef, __weak id); otherwise it only  *)
(*                  looks (std::weak_ptr)                                  *)
(*    AllocMayFail  the allocator may throw after it made the Handle       *)
(*                  (newCppProxy), and so may the constructor of the weak  *)
(*                  pointer after that (JavaWeakRef)                       *)
(***************************************************************************)
EXTENDS Naturals, FiniteSets

CONSTANTS
    Clients,        \* threads that pass objects and drop proxies
    Finalizers,     \* threads that finalize unreachable Java objects
    Addresses,      \* keys of the table: <<type_index, pointer>>
    Proxies,        \* proxy objects, each used once
    MaxGen,         \* bound: how often an address is reused by a new object
    MaxGets,        \* bound: calls of get()
    SyncDestroy,
    StrongProbe,
    AllocMayFail,
    None            \* no thread, no proxy, no address

Threads == Clients \cup Finalizers
Objects == Addresses \X (0..MaxGen)

ASSUME ProxyCacheAssumption ==
    /\ MaxGen \in Nat
    /\ MaxGets \in Nat
    /\ SyncDestroy \in BOOLEAN
    /\ StrongProbe \in BOOLEAN
    /\ AllocMayFail \in BOOLEAN
    /\ None \notin Threads \cup Proxies \cup Addresses \cup Objects

VARIABLES
    mMutex,     \* owner of m_mutex, or None
    mMapping,   \* [Addresses -> the proxy the weak pointer was made for, or None]
    object,     \* [Addresses -> generation of the object that lives there]
    wraps,      \* [Proxies -> the object in its Handle's m_obj, or None]
    handles,    \* the proxies whose Handle exists and owns that object
    holders,    \* [Proxies -> the clients with a strong reference]
    probe,      \* [Threads -> the proxy is_expired() upgraded, or None]
    pc,         \* [Threads -> Location]
    arg,        \* [Threads -> address of the object passed to get(), or None]
    dying,      \* [Threads -> the proxy whose ~Handle() it runs, or None]
    answer,     \* history: [Clients -> <<object, proxy>> of the last get(), or None]
    gets        \* calls of get() so far

vars == <<mMutex, mMapping, object, wraps, handles, holders, probe, pc, arg, dying,
          answer, gets>>

Location == {"idle", "getLock", "getFind", "getAlloc", "removeLock", "removeFind",
             "removeProbe", "removeDone", "nestedLock"}

\* m_mutex is held between two steps.  A thread at "nestedLock" called remove()
\* from inside get() or remove() and waits for the mutex that it owns itself.
InCritical == {"getFind", "getAlloc", "removeFind", "removeProbe", "nestedLock"}

\* The weak pointer of p can still be upgraded.
Live(p) == holders[p] # {} \/ \E t \in Threads : probe[t] = p

Goto(t, l) == pc' = [pc EXCEPT ![t] = l]

Unlock(t, l) ==
    /\ mMutex' = None
    /\ Goto(t, l)

Init ==
    /\ mMutex = None
    /\ mMapping = [a \in Addresses |-> None]
    /\ object = [a \in Addresses |-> 0]
    /\ wraps = [p \in Proxies |-> None]
    /\ handles = {}
    /\ holders = [p \in Proxies |-> {}]
    /\ probe = [t \in Threads |-> None]
    /\ pc = [t \in Threads |-> "idle"]
    /\ arg = [t \in Threads |-> None]
    /\ dying = [t \in Threads |-> None]
    /\ answer = [c \in Clients |-> None]
    /\ gets = 0

-----------------------------------------------------------------------------
(* get() *)

Unborn == {p \in Proxies : wraps[p] = None}
Getting == {t \in Threads : arg[t] # None}

\* The caller owns the object (OwningImplPointer) until get() returns.  The guard on
\* Unborn keeps the supply of proxies from running out inside get().
GetCall(c, a) ==
    /\ pc[c] = "idle"
    /\ gets < MaxGets
    /\ Cardinality(Getting) < Cardinality(Unborn)
    /\ gets' = gets + 1
    /\ arg' = [arg EXCEPT ![c] = a]
    /\ answer' = [answer EXCEPT ![c] = None]
    /\ Goto(c, "getLock")
    /\ UNCHANGED <<mMutex, mMapping, object, wraps, handles, holders, probe, dying>>

GetLock(c) ==
    /\ pc[c] = "getLock"
    /\ mMutex = None
    /\ mMutex' = c
    /\ Goto(c, "getFind")
    /\ UNCHANGED <<mMapping, object, wraps, handles, holders, probe, arg, dying, answer,
                   gets>>

\* Faulty variant: the object is known by its address only.
Answer_ByAddress(c, p) ==
    /\ answer' = [answer EXCEPT ![c] = <<arg[c], p>>]
    /\ holders' = [holders EXCEPT ![p] = @ \cup {c}]
    /\ arg' = [arg EXCEPT ![c] = None]
    /\ Unlock(c, "idle")

Answer(c, p) ==
    /\ answer' = [answer EXCEPT ![c] = <<<<arg[c], object[arg[c]]>>, p>>]
    /\ holders' = [holders EXCEPT ![p] = @ \cup {c}]
    /\ arg' = [arg EXCEPT ![c] = None]
    /\ Unlock(c, "idle")

\* The weak pointer upgrades: return that proxy.
GetFindLive(c) ==
    LET p == mMapping[arg[c]] IN
    /\ pc[c] = "getFind"
    /\ p # None
    /\ Live(p)
    /\ Answer(c, p)
    /\ UNCHANGED <<mMapping, object, wraps, handles, probe, dying, gets>>

\* Faulty variants: an expired entry is not pruned, or a live one is.
GetPrune_Keeps(c) ==
    LET p == mMapping[arg[c]] IN
    /\ pc[c] = "getFind"
    /\ p # None => ~Live(p)
    /\ Goto(c, "getAlloc")
    /\ UNCHANGED <<mMutex, mMapping, object, wraps, handles, holders, probe, arg, dying,
                   answer, gets>>

GetPrune_Always(c) ==
    /\ pc[c] = "getFind"
    /\ mMapping' = [mMapping EXCEPT ![arg[c]] = None]
    /\ Goto(c, "getAlloc")
    /\ UNCHANGED <<mMutex, object, wraps, handles, holders, probe, arg, dying, answer,
                   gets>>

\* There is no entry, or it is expired and pruned.
GetPrune(c) ==
    LET p == mMapping[arg[c]] IN
    /\ pc[c] = "getFind"
    /\ p # None => ~Live(p)
    /\ mMapping' = [mMapping EXCEPT ![arg[c]] = None]
    /\ Goto(c, "getAlloc")
    /\ UNCHANGED <<mMutex, object, wraps, handles, holders, probe, arg, dying, answer,
                   gets>>

\* Faulty variant: the Handle of the new proxy is not given the object.
GetAlloc_NoHandle(c, p) ==
    LET a == arg[c] IN
    /\ pc[c] = "getAlloc"
    /\ wraps[p] = None
    /\ wraps' = [wraps EXCEPT ![p] = <<a, object[a]>>]
    /\ mMapping' = [mMapping EXCEPT ![a] = IF @ = None THEN p ELSE @]
    /\ Answer(c, p)
    /\ UNCHANGED <<object, handles, probe, dying, gets>>

\* alloc(), emplace() (which leaves an entry with that key alone), return.
GetAlloc(c, p) ==
    LET a == arg[c] IN
    /\ pc[c] = "getAlloc"
    /\ wraps[p] = None
    /\ wraps' = [wraps EXCEPT ![p] = <<a, object[a]>>]
    /\ handles' = handles \cup {p}
    /\ mMapping' = [mMapping EXCEPT ![a] = IF @ = None THEN p ELSE @]
    /\ Answer(c, p)
    /\ UNCHANGED <<object, probe, dying, gets>>

\* The allocator throws where p should have been: the Handle it made is destroyed on
\* the way out, still inside get(), and calls remove().
GetAllocFails(c, p) ==
    /\ pc[c] = "getAlloc"
    /\ wraps[p] = None
    /\ Goto(c, "nestedLock")
    /\ UNCHANGED <<mMutex, mMapping, object, wraps, handles, holders, probe, arg, dying,
                   answer, gets>>

\* The allocator answers p, but the weak pointer that emplace() makes for it throws: nothing
\* enters the table, get() unlocks on the way out, and p is left to a finalizer.
GetEmplaceFails(c, p) ==
    /\ ~SyncDestroy
    /\ pc[c] = "getAlloc"
    /\ wraps[p] = None
    /\ wraps' = [wraps EXCEPT ![p] = <<arg[c], object[arg[c]]>>]
    /\ handles' = handles \cup {p}
    /\ arg' = [arg EXCEPT ![c] = None]
    /\ Unlock(c, "idle")
    /\ UNCHANGED <<mMapping, object, holders, probe, dying, answer, gets>>

-----------------------------------------------------------------------------
(* The life of a proxy, outside the cache *)

\* A client hands a reference to another thread.
Share(c, d, p) ==
    /\ c \in holders[p]
    /\ pc[c] = "idle"
    /\ holders' = [holders EXCEPT ![p] = @ \cup {d}]
    /\ UNCHANGED <<mMutex, mMapping, object, wraps, handles, probe, pc, arg, dying,
                   answer, gets>>

\* A client drops its reference and others are left, or a finalizer will see to it.
Drop(c, p) ==
    /\ c \in holders[p]
    /\ pc[c] = "idle"
    /\ holders' = [holders EXCEPT ![p] = @ \ {c}]
    /\ UNCHANGED <<mMutex, mMapping, object, wraps, handles, probe, pc, arg, dying,
                   answer, gets>>
    /\ ~SyncDestroy \/ Live(p)'

\* It was the last one, and ~Handle() runs on this thread.
DropLast(c, p) ==
    /\ SyncDestroy
    /\ c \in holders[p]
    /\ pc[c] = "idle"
    /\ holders' = [holders EXCEPT ![p] = @ \ {c}]
    /\ dying' = [dying EXCEPT ![c] = p]
    /\ Goto(c, "removeLock")
    /\ UNCHANGED <<mMutex, mMapping, object, wraps, handles, probe, arg, answer, gets>>
    /\ ~Live(p)'

\* CppProxy.finalize(): nativeDestroy() deletes the Handle of an unreachable proxy.
Finalize(f, p) ==
    /\ ~SyncDestroy
    /\ pc[f] = "idle"
    /\ p \in handles
    /\ ~Live(p)
    /\ \A t \in Threads : dying[t] # p
    /\ dying' = [dying EXCEPT ![f] = p]
    /\ Goto(f, "removeLock")
    /\ UNCHANGED <<mMutex, mMapping, object, wraps, handles, holders, probe, arg, answer,
                   gets>>

\* Nobody owns the object at a any more: it is freed and another one gets its address.
Reuse(a) ==
    /\ object[a] < MaxGen
    /\ \A t \in Threads : arg[t] # a
    /\ \A p \in handles : wraps[p] # <<a, object[a]>>
    /\ object' = [object EXCEPT ![a] = @ + 1]
    /\ UNCHANGED <<mMutex, mMapping, wraps, handles, holders, probe, pc, arg, dying,
                   answer, gets>>

-----------------------------------------------------------------------------
(* ~Handle() and remove() *)

KeyOf(t) == wraps[dying[t]][1]
Entry(t) == mMapping[KeyOf(t)]

RemoveLock(t) ==
    /\ pc[t] = "removeLock"
    /\ mMutex = None
    /\ mMutex' = t
    /\ Goto(t, "removeFind")
    /\ UNCHANGED <<mMapping, object, wraps, handles, holders, probe, arg, dying, answer,
                   gets>>

\* Faulty variants: remove() does not look whether the entry is expired, or erases
\* nothing, or forgets to unlock.
RemoveExpired_Unchecked(t) ==
    /\ pc[t] = "removeFind"
    /\ mMapping' = [mMapping EXCEPT ![KeyOf(t)] = None]
    /\ Unlock(t, "removeDone")
    /\ UNCHANGED <<object, wraps, handles, holders, probe, arg, dying, answer, gets>>

RemoveExpired_Keeps(t) ==
    /\ pc[t] = "removeFind"
    /\ Entry(t) # None => ~Live(Entry(t))
    /\ Unlock(t, "removeDone")
    /\ UNCHANGED <<mMapping, object, wraps, handles, holders, probe, arg, dying, answer,
                   gets>>

RemoveExpired_StaysLocked(t) ==
    /\ pc[t] = "removeFind"
    /\ Entry(t) # None => ~Live(Entry(t))
    /\ mMapping' = [mMapping EXCEPT ![KeyOf(t)] = None]
    /\ Goto(t, "removeDone")
    /\ UNCHANGED <<mMutex, object, wraps, handles, holders, probe, arg, dying, answer,
                   gets>>

\* The entry is gone, or expired and erased.
RemoveExpired(t) ==
    /\ pc[t] = "removeFind"
    /\ Entry(t) # None => ~Live(Entry(t))
    /\ mMapping' = [mMapping EXCEPT ![KeyOf(t)] = None]
    /\ Unlock(t, "removeDone")
    /\ UNCHANGED <<object, wraps, handles, holders, probe, arg, dying, answer, gets>>

\* The entry belongs to a younger proxy and stays.
RemoveKeeps(t) ==
    /\ ~StrongProbe
    /\ pc[t] = "removeFind"
    /\ Entry(t) # None /\ Live(Entry(t))
    /\ Unlock(t, "removeDone")
    /\ UNCHANGED <<mMapping, object, wraps, handles, holders, probe, arg, dying, answer,
                   gets>>

\* The same, by way of a strong temporary: take it ...
ProbeTake(t, q) ==
    /\ pc[t] = "removeFind"
    /\ Entry(t) = q /\ Live(q)
    /\ probe' = [probe EXCEPT ![t] = q]
    /\ Goto(t, "removeProbe")
    /\ UNCHANGED <<mMutex, mMapping, object, wraps, handles, holders, arg, dying, answer,
                   gets>>

\* ... and drop it, as one reference among others or where a finalizer comes later,
ProbeDrop(t, q) ==
    /\ pc[t] = "removeProbe"
    /\ probe[t] = q
    /\ probe' = [probe EXCEPT ![t] = None]
    /\ Unlock(t, "removeDone")
    /\ UNCHANGED <<mMapping, object, wraps, handles, holders, arg, dying, answer, gets>>
    /\ ~SyncDestroy \/ Live(q)'

\* or as the last one: the younger proxy is deallocated here, and its ~Handle() calls
\* remove() while this call of remove() holds the mutex.
ProbeDropLast(t, q) ==
    /\ SyncDestroy
    /\ pc[t] = "removeProbe"
    /\ probe[t] = q
    /\ probe' = [probe EXCEPT ![t] = None]
    /\ Goto(t, "nestedLock")
    /\ UNCHANGED <<mMutex, mMapping, object, wraps, handles, holders, arg, dying, answer,
                   gets>>
    /\ ~Live(q)'

\* The end of ~Handle(): m_obj lets go of the object.
HandleGone(t) ==
    /\ pc[t] = "removeDone"
    /\ handles' = handles \ {dying[t]}
    /\ dying' = [dying EXCEPT ![t] = None]
    /\ Goto(t, "idle")
    /\ UNCHANGED <<mMutex, mMapping, object, wraps, holders, probe, arg, answer, gets>>

-----------------------------------------------------------------------------
\* What the traits allow: proxies that may not come to be, and proxies that is_expired()
\* may hold.
Refused == {p \in Proxies : AllocMayFail}
Probed == {p \in Proxies : StrongProbe}

GetStep(c) ==
    \/ GetLock(c) \/ GetFindLive(c) \/ GetPrune(c)
    \/ \E p \in Proxies : GetAlloc(c, p)
    \/ \E p \in Refused : GetAllocFails(c, p) \/ GetEmplaceFails(c, p)

RemoveStep(t) ==
    \/ RemoveLock(t) \/ RemoveExpired(t) \/ RemoveKeeps(t)
    \/ HandleGone(t)
    \/ \E q \in Probed : ProbeTake(t, q) \/ ProbeDrop(t, q) \/ ProbeDropLast(t, q)

Next ==
    \/ \E c \in Clients : GetStep(c)
    \/ \E t \in Threads : RemoveStep(t)
    \/ \E c \in Clients, a \in Addresses : GetCall(c, a)
    \/ \E c, d \in Clients, p \in Proxies : Share(c, d, p)
    \/ \E c \in Clients, p \in Proxies : Drop(c, p) \/ DropLast(c, p)
    \/ \E f \in Finalizers, p \in Proxies : Finalize(f, p)
    \/ \E a \in Addresses : Reuse(a)

Spec == Init /\ [][Next]_vars

\* A thread inside the cache is scheduled, and Java finalizes what is unreachable.
\* Nobody need ever call get(), drop a reference or reuse an address.
Fairness ==
    /\ \A c \in Clients : WF_vars(GetStep(c))
    /\ \A t \in Threads : WF_vars(RemoveStep(t))
    /\ \A f \in Finalizers : WF_vars(\E p \in Proxies : Finalize(f, p))

FairSpec == Spec /\ Fairness

-----------------------------------------------------------------------------
\* Every variable has its type.
TypeOK ==
    /\ mMutex \in Threads \cup {None}
    /\ mMapping \in [Addresses -> Proxies \cup {None}]
    /\ object \in [Addresses -> 0..MaxGen]
    /\ wraps \in [Proxies -> Objects \cup {None}]
    /\ handles \in SUBSET Proxies
    /\ holders \in [Proxies -> SUBSET Clients]
    /\ probe \in [Threads -> Proxies \cup {None}]
    /\ pc \in [Threads -> Location]
    /\ arg \in [Threads -> Addresses \cup {None}]
    /\ dying \in [Threads -> Proxies \cup {None}]
    /\ answer \in [Clients -> (Objects \X Proxies) \cup {None}]
    /\ gets \in 0..MaxGets

\* Identity (proxy_cache_interface.hpp:42-46): an object never has two reachable
\* proxies, though destructors of older ones run late and in any order.
OneProxyPerObject ==
    \A p, q \in Proxies :
        Live(p) /\ Live(q) /\ wraps[p] = wraps[q] => p = q

\* remove() only takes out what is its to take (the comment at
\* proxy_cache_impl.hpp:107-115): a reachable proxy is always the one in the table.
LiveIsCached ==
    \A p \in Proxies :
        Live(p) => wraps[p] # None /\ mMapping[wraps[p][1]] = p

\* No entry outlives the Handle it was made for, so the pointer that is its key never
\* dangles: it points at the object that its proxy wraps, not at a later object that
\* was given the same address.
KeysNeverDangle ==
    \A a \in Addresses :
        mMapping[a] # None =>
            /\ mMapping[a] \in handles
            /\ wraps[mMapping[a]] = <<a, object[a]>>

\* Every step of the cache is one that IdentityCache.tla allows: get() answers the
\* reachable proxy of the object it was given if there is one, else a new one.
Identity == INSTANCE IdentityCache WITH live <- {p \in Proxies : Live(p)}
ImplementsIdentity == Identity!Spec

\* "Handle::~Handle() removes the reference from the cache"
\* (proxy_cache_interface.hpp:114): the entry of a proxy that died goes away.
HandleLeavesCache ==
    \A p \in Proxies :
        (p \in handles /\ ~Live(p)) ~> (\A a \in Addresses : mMapping[a] # p)

\* get() always returns, whatever destructors and finalizers do meanwhile.
GetReturns == \A c \in Clients : arg[c] # None ~> arg[c] = None
=============================================================================
