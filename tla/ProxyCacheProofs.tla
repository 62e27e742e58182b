-------------------------- MODULE ProxyCacheProofs --------------------------
(***************************************************************************)
(* Theorems about ProxyCache.tla for any threads, addresses and proxies    *)
(* and for all eight settings of the three traits: identity, no dangling   *)
(* keys, and that the cache implements IdentityCache.tla.                  *)
(***************************************************************************)
EXTENDS ProxyCache, TLAPS

InGet == {"getLock", "getFind", "getAlloc"}
InRemove == {"removeLock", "removeFind", "removeProbe", "removeDone"}

\* m_mutex belongs to the thread whose location says so.
MutexInv == \A t \in Threads : pc[t] \in InCritical <=> mMutex = t

\* What a thread in get() and in ~Handle() has in its locals.
LocalInv ==
    \A t \in Threads :
        /\ pc[t] \in InGet => arg[t] \in Addresses /\ t \in Clients
        /\ pc[t] \in InRemove => dying[t] \in Proxies
        /\ pc[t] \in InGet \cup {"idle"} => dying[t] = None
        /\ probe[t] # None <=> pc[t] = "removeProbe"
        /\ pc[t] \in InRemove \cup {"idle"} => arg[t] = None

\* A Handle is destroyed once, after its proxy became unreachable; and its object is
\* not freed before.
HandleInv ==
    /\ \A p \in handles : wraps[p] # None /\ wraps[p][2] = object[wraps[p][1]]
    /\ \A p \in Proxies : Live(p) => p \in handles
    /\ \A t \in Threads, p \in Proxies :
          dying[t] = p =>
              /\ p \in handles
              /\ ~Live(p)
              /\ \A u \in Threads : dying[u] = p => u = t

\* Between the prune and the emplace the entry stays empty, and once remove() has
\* looked at it, it is not the dying proxy's.
TableInv ==
    \A t \in Threads :
        /\ pc[t] = "getAlloc" => mMapping[arg[t]] = None
        /\ pc[t] \in {"removeProbe", "removeDone"} => mMapping[KeyOf(t)] # dying[t]

IInv ==
    /\ TypeOK
    /\ MutexInv
    /\ LocalInv
    /\ HandleInv
    /\ LiveIsCached
    /\ KeysNeverDangle
    /\ TableInv

-----------------------------------------------------------------------------
(* Each step preserves the inductive invariant. *)

\* A call of get() touches its own locals only.
LEMMA GetCallPreserves ==
    ASSUME IInv, NEW c \in Clients, NEW a \in Addresses, GetCall(c, a)
    PROVE  IInv'
<1>0. /\ TypeOK /\ MutexInv /\ LocalInv /\ HandleInv
      /\ LiveIsCached /\ KeysNeverDangle /\ TableInv
  BY DEF IInv
<1>1. \A q \in Proxies : Live(q)' <=> Live(q)
  BY <1>0 DEF GetCall, Live
<1>2. TypeOK'
  BY ProxyCacheAssumption, <1>0 DEF GetCall, Goto, Location, Threads, TypeOK
<1>3. MutexInv'
  BY <1>0 DEF GetCall, Goto, InCritical, MutexInv
<1>4. LocalInv'
  BY <1>0 DEF GetCall, Goto, InRemove, TypeOK, LocalInv
<1>5. HandleInv'
  BY <1>0, <1>1 DEF GetCall, HandleInv
<1>6. LiveIsCached'
  BY <1>0, <1>1 DEF GetCall, LiveIsCached
<1>7. KeysNeverDangle'
  BY <1>0 DEF GetCall, KeysNeverDangle
<1>8. TableInv'
  BY <1>0 DEF GetCall, Goto, TableInv, KeyOf
<1> QED BY <1>2, <1>3, <1>4, <1>5, <1>6, <1>7, <1>8 DEF IInv

\* get() takes the mutex.
LEMMA GetLockPreserves ==
    ASSUME IInv, NEW c \in Clients, GetLock(c)
    PROVE  IInv'
<1>0. /\ TypeOK /\ MutexInv /\ LocalInv /\ HandleInv
      /\ LiveIsCached /\ KeysNeverDangle /\ TableInv
  BY DEF IInv
<1>1. \A q \in Proxies : Live(q)' <=> Live(q)
  BY <1>0 DEF GetLock, Live
<1>2. TypeOK'
  BY <1>0 DEF GetLock, Goto, Location, Threads, TypeOK
<1>3. MutexInv'
  BY ProxyCacheAssumption, <1>0 DEF GetLock, Goto, InCritical, TypeOK, MutexInv
<1>4. LocalInv'
  BY <1>0 DEF GetLock, Goto, InGet, InRemove, LocalInv
<1>5. HandleInv'
  BY <1>0, <1>1 DEF GetLock, HandleInv
<1>6. LiveIsCached'
  BY <1>0, <1>1 DEF GetLock, LiveIsCached
<1>7. KeysNeverDangle'
  BY <1>0 DEF GetLock, KeysNeverDangle
<1>8. TableInv'
  BY <1>0 DEF GetLock, Goto, TableInv, KeyOf
<1> QED BY <1>2, <1>3, <1>4, <1>5, <1>6, <1>7, <1>8 DEF IInv

\* get() finds a reachable proxy: the caller becomes one more of its holders.
LEMMA GetFindLivePreserves ==
    ASSUME IInv, NEW c \in Clients, GetFindLive(c)
    PROVE  IInv'
<1>0. /\ TypeOK /\ MutexInv /\ LocalInv /\ HandleInv
      /\ LiveIsCached /\ KeysNeverDangle /\ TableInv
  BY DEF IInv
<1>1. \A q \in Proxies : Live(q)' <=> Live(q)
  BY <1>0 DEF GetFindLive, Answer, Unlock, Goto, InCritical, InGet, Live
<1>2. TypeOK'
  BY <1>0
     DEF GetFindLive, Answer, Unlock, Goto, InGet, InRemove, Location, Threads, TypeOK,
         LocalInv, KeysNeverDangle, HandleInv
<1>3. MutexInv'
  BY ProxyCacheAssumption, <1>0
     DEF GetFindLive, Answer, Unlock, Goto, InCritical, Threads, TypeOK, MutexInv
<1>4. LocalInv'
  BY <1>0
     DEF GetFindLive, Answer, Unlock, Goto, InGet, InRemove, TypeOK, MutexInv, LocalInv
<1>5. HandleInv'
  BY <1>0, <1>1 DEF GetFindLive, HandleInv
<1>6. LiveIsCached'
  BY <1>0, <1>1 DEF GetFindLive, LiveIsCached, TableInv, KeyOf
<1>7. KeysNeverDangle'
  BY <1>0 DEF GetFindLive, KeysNeverDangle
<1>8. TableInv'
  BY <1>0 DEF GetFindLive, Answer, Unlock, Goto, LiveIsCached, TableInv, KeyOf
<1> QED BY <1>2, <1>3, <1>4, <1>5, <1>6, <1>7, <1>8 DEF IInv

\* get() prunes an entry whose proxy is not reachable, so no reachable one loses its
\* entry.
LEMMA GetPrunePreserves ==
    ASSUME IInv, NEW c \in Clients, GetPrune(c)
    PROVE  IInv'
<1>0. /\ TypeOK /\ MutexInv /\ LocalInv /\ HandleInv
      /\ LiveIsCached /\ KeysNeverDangle /\ TableInv
  BY DEF IInv
<1>1. \A q \in Proxies : Live(q)' <=> Live(q)
  BY <1>0 DEF GetPrune, Live
<1>2. TypeOK'
  BY <1>0 DEF GetPrune, Goto, InGet, Location, Threads, TypeOK, LocalInv
<1>3. MutexInv'
  BY <1>0 DEF GetPrune, Goto, InCritical, MutexInv
<1>4. LocalInv'
  BY <1>0 DEF GetPrune, Goto, InGet, InRemove, LocalInv
<1>5. HandleInv'
  BY <1>0, <1>1 DEF GetPrune, HandleInv
<1>6. LiveIsCached'
  BY <1>0, <1>1 DEF GetPrune, LiveIsCached, KeyOf
<1>7. KeysNeverDangle'
  BY <1>0 DEF GetPrune, LocalInv, KeysNeverDangle
<1>8. TableInv'
  BY <1>0
     DEF GetPrune, Goto, InGet, InRemove, Threads, TypeOK, LocalInv, HandleInv,
         TableInv, KeyOf
<1> QED BY <1>2, <1>3, <1>4, <1>5, <1>6, <1>7, <1>8 DEF IInv

\* get() makes a proxy and puts it in the entry, which the mutex kept empty.
LEMMA GetAllocPreserves ==
    ASSUME IInv, NEW c \in Clients, NEW p \in Proxies, GetAlloc(c, p)
    PROVE  IInv'
<1>0. /\ TypeOK /\ MutexInv /\ LocalInv /\ HandleInv
      /\ LiveIsCached /\ KeysNeverDangle /\ TableInv
  BY DEF IInv
<1>1. \A q \in Proxies : Live(q)' <=> Live(q) \/ q = p
  <2>1. holders' = [holders EXCEPT ![p] = @ \cup {c}] /\ probe' = probe
    BY DEF GetAlloc, Answer
  <2> QED BY <1>0, <2>1 DEF TypeOK, Live
<1>2. TypeOK'
  BY <1>0
     DEF GetAlloc, Answer, Unlock, Goto, InGet, Location, Threads, TypeOK, Objects,
         LocalInv, HandleInv
<1>3. MutexInv'
  BY ProxyCacheAssumption, <1>0
     DEF GetAlloc, Answer, Unlock, Goto, InCritical, Threads, TypeOK, MutexInv
<1>4. LocalInv'
  BY <1>0 DEF GetAlloc, Answer, Unlock, Goto, InGet, InRemove, TypeOK, LocalInv
<1>5. HandleInv'
  BY ProxyCacheAssumption, <1>0, <1>1
     DEF GetAlloc, InGet, Threads, TypeOK, Objects, LocalInv, HandleInv
<1>6. LiveIsCached'
  BY ProxyCacheAssumption, <1>0, <1>1
     DEF GetAlloc, InGet, Threads, TypeOK, Objects, LocalInv, LiveIsCached, TableInv,
         KeyOf
<1>7. KeysNeverDangle'
  BY <1>0 DEF GetAlloc, TypeOK, HandleInv, KeysNeverDangle, TableInv, KeyOf
<1>8. TableInv'
  BY <1>0
     DEF GetAlloc, Answer, Unlock, Goto, InCritical, Threads, TypeOK, MutexInv,
         HandleInv, LiveIsCached, TableInv, KeyOf
<1> QED BY <1>2, <1>3, <1>4, <1>5, <1>6, <1>7, <1>8 DEF IInv

\* A failed allocation leaves the table as it is, and the mutex locked.
LEMMA GetAllocFailsPreserves ==
    ASSUME IInv, NEW c \in Clients, NEW p \in Proxies, GetAllocFails(c, p)
    PROVE  IInv'
<1>0. /\ TypeOK /\ MutexInv /\ LocalInv /\ HandleInv
      /\ LiveIsCached /\ KeysNeverDangle /\ TableInv
  BY DEF IInv
<1>1. \A q \in Proxies : Live(q)' <=> Live(q)
  BY <1>0 DEF GetAllocFails, Live
<1>2. TypeOK'
  BY <1>0 DEF GetAllocFails, Goto, Location, Threads, TypeOK
<1>3. MutexInv'
  BY <1>0 DEF GetAllocFails, Goto, InCritical, MutexInv
<1>4. LocalInv'
  BY <1>0 DEF GetAllocFails, Goto, InGet, InRemove, LocalInv
<1>5. HandleInv'
  BY <1>0, <1>1 DEF GetAllocFails, HandleInv
<1>6. LiveIsCached'
  BY <1>0, <1>1 DEF GetAllocFails, LiveIsCached
<1>7. KeysNeverDangle'
  BY <1>0 DEF GetAllocFails, KeysNeverDangle
<1>8. TableInv'
  BY <1>0, <1>1 DEF GetAllocFails, Goto, InCritical, InGet, TableInv, KeyOf
<1> QED BY <1>2, <1>3, <1>4, <1>5, <1>6, <1>7, <1>8 DEF IInv

\* A proxy that does not reach the table is nobody's, and its Handle has yet to be destroyed.
LEMMA GetEmplaceFailsPreserves ==
    ASSUME IInv, NEW c \in Clients, NEW p \in Proxies, GetEmplaceFails(c, p)
    PROVE  IInv'
<1>0. /\ TypeOK /\ MutexInv /\ LocalInv /\ HandleInv
      /\ LiveIsCached /\ KeysNeverDangle /\ TableInv
  BY DEF IInv
<1>1. \A q \in Proxies : Live(q)' <=> Live(q)
  BY <1>0 DEF GetEmplaceFails, Live
<1>2. TypeOK'
  BY <1>0
     DEF GetEmplaceFails, Unlock, Goto, InGet, Location, Threads, TypeOK, Objects,
         LocalInv, HandleInv
<1>3. MutexInv'
  BY ProxyCacheAssumption, <1>0
     DEF GetEmplaceFails, Unlock, Goto, InCritical, Threads, TypeOK, MutexInv
<1>4. LocalInv'
  BY <1>0 DEF GetEmplaceFails, Unlock, Goto, InGet, InRemove, TypeOK, LocalInv
<1>5. HandleInv'
  BY ProxyCacheAssumption, <1>0, <1>1
     DEF GetEmplaceFails, InGet, Threads, TypeOK, Objects, LocalInv, HandleInv
<1>6. LiveIsCached'
  BY ProxyCacheAssumption, <1>0, <1>1
     DEF GetEmplaceFails, InGet, Threads, TypeOK, Objects, LocalInv, LiveIsCached
<1>7. KeysNeverDangle'
  BY <1>0 DEF GetEmplaceFails, TypeOK, HandleInv, KeysNeverDangle
<1>8. TableInv'
  BY <1>0
     DEF GetEmplaceFails, Unlock, Goto, InCritical, Threads, TypeOK, MutexInv,
         HandleInv, TableInv, KeyOf
<1> QED BY <1>2, <1>3, <1>4, <1>5, <1>6, <1>7, <1>8 DEF IInv

\* Only a reachable proxy can be shared.
LEMMA SharePreserves ==
    ASSUME IInv, NEW c \in Clients, NEW d \in Clients, NEW p \in Proxies, Share(c, d, p)
    PROVE  IInv'
<1>0. /\ TypeOK /\ MutexInv /\ LocalInv /\ HandleInv
      /\ LiveIsCached /\ KeysNeverDangle /\ TableInv
  BY DEF IInv
<1>1. \A q \in Proxies : Live(q)' <=> Live(q)
  BY <1>0 DEF Share, Live
<1>2. TypeOK'
  BY <1>0 DEF Share, Threads, TypeOK
<1>3. MutexInv'
  BY <1>0 DEF Share, MutexInv
<1>4. LocalInv'
  BY <1>0 DEF Share, LocalInv
<1>5. HandleInv'
  BY <1>0, <1>1 DEF Share, HandleInv
<1>6. LiveIsCached'
  BY <1>0, <1>1 DEF Share, LiveIsCached
<1>7. KeysNeverDangle'
  BY <1>0 DEF Share, KeysNeverDangle
<1>8. TableInv'
  BY <1>0 DEF Share, TableInv, KeyOf
<1> QED BY <1>2, <1>3, <1>4, <1>5, <1>6, <1>7, <1>8 DEF IInv

\* A proxy may become unreachable, never reachable again.
LEMMA DropPreserves ==
    ASSUME IInv, NEW c \in Clients, NEW p \in Proxies, Drop(c, p)
    PROVE  IInv'
<1>0. /\ TypeOK /\ MutexInv /\ LocalInv /\ HandleInv
      /\ LiveIsCached /\ KeysNeverDangle /\ TableInv
  BY DEF IInv
<1>1. \A q \in Proxies : Live(q)' => Live(q)
  BY <1>0 DEF Drop, Live
<1>2. TypeOK'
  BY <1>0 DEF Drop, TypeOK
<1>3. MutexInv'
  BY <1>0 DEF Drop, MutexInv
<1>4. LocalInv'
  BY <1>0 DEF Drop, LocalInv
<1>5. HandleInv'
  BY <1>0, <1>1 DEF Drop, HandleInv
<1>6. LiveIsCached'
  BY <1>0, <1>1 DEF Drop, LiveIsCached
<1>7. KeysNeverDangle'
  BY <1>0 DEF Drop, KeysNeverDangle
<1>8. TableInv'
  BY <1>0 DEF Drop, TableInv, KeyOf
<1> QED BY <1>2, <1>3, <1>4, <1>5, <1>6, <1>7, <1>8 DEF IInv

\* The thread that drops the last reference starts the one run of ~Handle().
LEMMA DropLastPreserves ==
    ASSUME IInv, NEW c \in Clients, NEW p \in Proxies, DropLast(c, p)
    PROVE  IInv'
<1>0. /\ TypeOK /\ MutexInv /\ LocalInv /\ HandleInv
      /\ LiveIsCached /\ KeysNeverDangle /\ TableInv
  BY DEF IInv
<1>1. \A q \in Proxies : Live(q)' => Live(q)
  BY <1>0 DEF DropLast, Live
<1>2. TypeOK'
  BY ProxyCacheAssumption, <1>0 DEF DropLast, Goto, Location, Threads, TypeOK
<1>3. MutexInv'
  BY ProxyCacheAssumption, <1>0 DEF DropLast, Goto, InCritical, MutexInv
<1>4. LocalInv'
  BY <1>0 DEF DropLast, Goto, InCritical, InGet, TypeOK, LocalInv
<1>5. HandleInv'
  <2>1. /\ Live(p) /\ ~Live(p)' /\ dying' = [dying EXCEPT ![c] = p]
        /\ UNCHANGED <<handles, wraps, object>> /\ p \in handles
    BY <1>0 DEF DropLast, Live, HandleInv
  <2>2. \A t \in Threads : dying'[t] = IF t = c THEN p ELSE dying[t]
    BY <1>0, <2>1 DEF TypeOK
  <2>3. \A t \in Threads : dying[t] # p
    BY <1>0, <2>1 DEF HandleInv
  <2>4. ASSUME NEW t \in Threads, NEW q \in Proxies, dying'[t] = q
        PROVE  /\ q \in handles'
               /\ ~Live(q)'
               /\ \A u \in Threads : dying'[u] = q => u = t
    BY <1>0, <1>1, <2>1, <2>2, <2>3, <2>4 DEF HandleInv
  <2> QED BY <1>0, <1>1, <2>1, <2>4 DEF HandleInv
<1>6. LiveIsCached'
  BY <1>0, <1>1 DEF DropLast, LiveIsCached
<1>7. KeysNeverDangle'
  BY <1>0 DEF DropLast, KeysNeverDangle
<1>8. TableInv'
  BY <1>0 DEF DropLast, Goto, InRemove, Location, Threads, TypeOK, TableInv, KeyOf
<1> QED BY <1>2, <1>3, <1>4, <1>5, <1>6, <1>7, <1>8 DEF IInv

\* A finalizer starts the one run of ~Handle().
LEMMA FinalizePreserves ==
    ASSUME IInv, NEW f \in Finalizers, NEW p \in Proxies, Finalize(f, p)
    PROVE  IInv'
<1>0. /\ TypeOK /\ MutexInv /\ LocalInv /\ HandleInv
      /\ LiveIsCached /\ KeysNeverDangle /\ TableInv
  BY DEF IInv
<1>1. \A q \in Proxies : Live(q)' <=> Live(q)
  BY <1>0 DEF Finalize, Live
<1>2. TypeOK'
  BY <1>0 DEF Finalize, Goto, Location, Threads, TypeOK, LocalInv
<1>3. MutexInv'
  BY <1>0 DEF Finalize, Goto, InCritical, MutexInv
<1>4. LocalInv'
  BY <1>0 DEF Finalize, Goto, InGet, TypeOK, MutexInv, LocalInv
<1>5. HandleInv'
  BY <1>0, <1>1 DEF Finalize, HandleInv
<1>6. LiveIsCached'
  BY <1>0, <1>1 DEF Finalize, LiveIsCached
<1>7. KeysNeverDangle'
  BY <1>0 DEF Finalize, KeysNeverDangle
<1>8. TableInv'
  BY <1>0 DEF Finalize, Goto, MutexInv, HandleInv, LiveIsCached, TableInv, KeyOf
<1> QED BY <1>2, <1>3, <1>4, <1>5, <1>6, <1>7, <1>8 DEF IInv

\* An address is reused when no Handle and so no entry knows it.
LEMMA ReusePreserves ==
    ASSUME IInv, NEW a \in Addresses, Reuse(a)
    PROVE  IInv'
<1>0. /\ TypeOK /\ MutexInv /\ LocalInv /\ HandleInv
      /\ LiveIsCached /\ KeysNeverDangle /\ TableInv
  BY DEF IInv
<1>1. \A q \in Proxies : Live(q)' <=> Live(q)
  BY <1>0 DEF Reuse, Live
<1>2. TypeOK'
  BY ProxyCacheAssumption, <1>0 DEF Reuse, TypeOK
<1>3. MutexInv'
  BY <1>0 DEF Reuse, MutexInv
<1>4. LocalInv'
  BY <1>0 DEF Reuse, LocalInv
<1>5. HandleInv'
  BY <1>0, <1>1 DEF Reuse, TypeOK, Objects, HandleInv
<1>6. LiveIsCached'
  BY <1>0, <1>1 DEF Reuse, LiveIsCached
<1>7. KeysNeverDangle'
  BY <1>0, SMTT(30) DEF Reuse, KeysNeverDangle, KeyOf
<1>8. TableInv'
  BY <1>0 DEF Reuse, TableInv, KeyOf
<1> QED BY <1>2, <1>3, <1>4, <1>5, <1>6, <1>7, <1>8 DEF IInv

\* remove() takes the mutex.
LEMMA RemoveLockPreserves ==
    ASSUME IInv, NEW t \in Threads, RemoveLock(t)
    PROVE  IInv'
<1>0. /\ TypeOK /\ MutexInv /\ LocalInv /\ HandleInv
      /\ LiveIsCached /\ KeysNeverDangle /\ TableInv
  BY DEF IInv
<1>1. \A q \in Proxies : Live(q)' <=> Live(q)
  BY <1>0 DEF RemoveLock, Live
<1>2. TypeOK'
  BY <1>0 DEF RemoveLock, Goto, Location, TypeOK
<1>3. MutexInv'
  BY ProxyCacheAssumption, <1>0 DEF RemoveLock, Goto, InCritical, TypeOK, MutexInv
<1>4. LocalInv'
  BY <1>0 DEF RemoveLock, Goto, InGet, InRemove, LocalInv
<1>5. HandleInv'
  BY <1>0, <1>1 DEF RemoveLock, HandleInv
<1>6. LiveIsCached'
  BY <1>0, <1>1 DEF RemoveLock, LiveIsCached
<1>7. KeysNeverDangle'
  BY <1>0 DEF RemoveLock, KeysNeverDangle
<1>8. TableInv'
  BY <1>0 DEF RemoveLock, Goto, TableInv, KeyOf
<1> QED BY <1>2, <1>3, <1>4, <1>5, <1>6, <1>7, <1>8 DEF IInv

\* remove() erases an entry whose proxy is not reachable.
LEMMA RemoveExpiredPreserves ==
    ASSUME IInv, NEW t \in Threads, RemoveExpired(t)
    PROVE  IInv'
<1>0. /\ TypeOK /\ MutexInv /\ LocalInv /\ HandleInv
      /\ LiveIsCached /\ KeysNeverDangle /\ TableInv
  BY DEF IInv
<1>1. \A q \in Proxies : Live(q)' <=> Live(q)
  BY <1>0 DEF RemoveExpired, Live
<1>2. TypeOK'
  BY <1>0
     DEF RemoveExpired, Unlock, Goto, InRemove, Location, TypeOK, Objects, LocalInv,
         KeyOf, HandleInv
<1>3. MutexInv'
  BY ProxyCacheAssumption, <1>0
     DEF RemoveExpired, Unlock, Goto, InCritical, TypeOK, MutexInv
<1>4. LocalInv'
  BY <1>0 DEF RemoveExpired, Unlock, Goto, InGet, InRemove, LocalInv
<1>5. HandleInv'
  BY <1>0, <1>1 DEF RemoveExpired, HandleInv
<1>6. LiveIsCached'
  BY <1>0, <1>1 DEF RemoveExpired, Entry, LiveIsCached, TableInv, KeyOf
<1>7. KeysNeverDangle'
  BY <1>0 DEF RemoveExpired, TypeOK, KeysNeverDangle, TableInv, KeyOf
<1>8. TableInv'
  BY ProxyCacheAssumption, <1>0
     DEF RemoveExpired, Unlock, Goto, InRemove, TypeOK, Objects, LocalInv, HandleInv,
         LiveIsCached, TableInv, KeyOf
<1> QED BY <1>2, <1>3, <1>4, <1>5, <1>6, <1>7, <1>8 DEF IInv

\* remove() leaves a reachable proxy's entry, which is not that of the dying one.
LEMMA RemoveKeepsPreserves ==
    ASSUME IInv, NEW t \in Threads, RemoveKeeps(t)
    PROVE  IInv'
<1>0. /\ TypeOK /\ MutexInv /\ LocalInv /\ HandleInv
      /\ LiveIsCached /\ KeysNeverDangle /\ TableInv
  BY DEF IInv
<1>1. \A q \in Proxies : Live(q)' <=> Live(q)
  BY <1>0 DEF RemoveKeeps, Live
<1>2. TypeOK'
  BY <1>0 DEF RemoveKeeps, Unlock, Goto, Location, TypeOK, HandleInv
<1>3. MutexInv'
  BY ProxyCacheAssumption, <1>0
     DEF RemoveKeeps, Unlock, Goto, InCritical, TypeOK, MutexInv
<1>4. LocalInv'
  BY <1>0 DEF RemoveKeeps, Unlock, Goto, InGet, InRemove, LocalInv
<1>5. HandleInv'
  BY <1>0, <1>1 DEF RemoveKeeps, HandleInv
<1>6. LiveIsCached'
  BY <1>0, <1>1 DEF RemoveKeeps, LiveIsCached
<1>7. KeysNeverDangle'
  BY <1>0 DEF RemoveKeeps, KeysNeverDangle
<1>8. TableInv'
  BY <1>0
     DEF RemoveKeeps, Unlock, Entry, Goto, TypeOK, HandleInv, LiveIsCached, TableInv,
         KeyOf
<1> QED BY <1>2, <1>3, <1>4, <1>5, <1>6, <1>7, <1>8 DEF IInv

\* The strong temporary is of a reachable proxy, so not of the dying one.
LEMMA ProbeTakePreserves ==
    ASSUME IInv, NEW t \in Threads, NEW p \in Proxies, ProbeTake(t, p)
    PROVE  IInv'
<1>0. /\ TypeOK /\ MutexInv /\ LocalInv /\ HandleInv
      /\ LiveIsCached /\ KeysNeverDangle /\ TableInv
  BY DEF IInv
<1>1. \A q \in Proxies : Live(q)' <=> Live(q)
  BY ProxyCacheAssumption, <1>0 DEF ProbeTake, LocalInv, Live
<1>2. TypeOK'
  BY <1>0 DEF ProbeTake, Goto, Location, TypeOK
<1>3. MutexInv'
  BY <1>0 DEF ProbeTake, Goto, InCritical, MutexInv
<1>4. LocalInv'
  BY ProxyCacheAssumption, <1>0 DEF ProbeTake, Goto, InGet, InRemove, TypeOK, LocalInv
<1>5. HandleInv'
  BY <1>0, <1>1 DEF ProbeTake, HandleInv
<1>6. LiveIsCached'
  BY <1>0, <1>1 DEF ProbeTake, LiveIsCached
<1>7. KeysNeverDangle'
  BY <1>0 DEF ProbeTake, KeysNeverDangle
<1>8. TableInv'
  BY <1>0 DEF ProbeTake, Entry, Goto, TypeOK, HandleInv, TableInv, KeyOf
<1> QED BY <1>2, <1>3, <1>4, <1>5, <1>6, <1>7, <1>8 DEF IInv

\* Dropping the temporary may make its proxy unreachable.
LEMMA ProbeDropPreserves ==
    ASSUME IInv, NEW t \in Threads, NEW p \in Proxies, ProbeDrop(t, p)
    PROVE  IInv'
<1>0. /\ TypeOK /\ MutexInv /\ LocalInv /\ HandleInv
      /\ LiveIsCached /\ KeysNeverDangle /\ TableInv
  BY DEF IInv
<1>1. \A q \in Proxies : Live(q)' => Live(q)
  BY ProxyCacheAssumption DEF ProbeDrop, Live
<1>2. TypeOK'
  BY <1>0 DEF ProbeDrop, Unlock, Goto, Location, TypeOK
<1>3. MutexInv'
  BY ProxyCacheAssumption, <1>0
     DEF ProbeDrop, Unlock, Goto, InCritical, TypeOK, MutexInv
<1>4. LocalInv'
  BY <1>0 DEF ProbeDrop, Unlock, Goto, InGet, InRemove, TypeOK, LocalInv
<1>5. HandleInv'
  BY <1>0, <1>1 DEF ProbeDrop, HandleInv
<1>6. LiveIsCached'
  BY <1>0, <1>1 DEF ProbeDrop, LiveIsCached
<1>7. KeysNeverDangle'
  BY <1>0 DEF ProbeDrop, KeysNeverDangle
<1>8. TableInv'
  BY <1>0 DEF ProbeDrop, Unlock, Goto, TableInv, KeyOf
<1> QED BY <1>2, <1>3, <1>4, <1>5, <1>6, <1>7, <1>8 DEF IInv

\* Or does, and the thread is stuck with the mutex.
LEMMA ProbeDropLastPreserves ==
    ASSUME IInv, NEW t \in Threads, NEW p \in Proxies, ProbeDropLast(t, p)
    PROVE  IInv'
<1>0. /\ TypeOK /\ MutexInv /\ LocalInv /\ HandleInv
      /\ LiveIsCached /\ KeysNeverDangle /\ TableInv
  BY DEF IInv
<1>1. \A q \in Proxies : Live(q)' => Live(q)
  BY ProxyCacheAssumption DEF ProbeDropLast, Live
<1>2. TypeOK'
  BY <1>0 DEF ProbeDropLast, Goto, Location, TypeOK
<1>3. MutexInv'
  BY <1>0 DEF ProbeDropLast, Goto, InCritical, MutexInv
<1>4. LocalInv'
  BY <1>0 DEF ProbeDropLast, Goto, InGet, InRemove, TypeOK, LocalInv
<1>5. HandleInv'
  BY <1>0, <1>1 DEF ProbeDropLast, HandleInv
<1>6. LiveIsCached'
  BY <1>0, <1>1 DEF ProbeDropLast, LiveIsCached
<1>7. KeysNeverDangle'
  BY <1>0 DEF ProbeDropLast, KeysNeverDangle
<1>8. TableInv'
  BY <1>0 DEF ProbeDropLast, Goto, TableInv, KeyOf
<1> QED BY <1>2, <1>3, <1>4, <1>5, <1>6, <1>7, <1>8 DEF IInv

\* The Handle goes, and no entry was left to it.
LEMMA HandleGonePreserves ==
    ASSUME IInv, NEW t \in Threads, HandleGone(t)
    PROVE  IInv'
<1>0. /\ TypeOK /\ MutexInv /\ LocalInv /\ HandleInv
      /\ LiveIsCached /\ KeysNeverDangle /\ TableInv
  BY DEF IInv
<1>1. \A q \in Proxies : Live(q)' <=> Live(q)
  BY <1>0 DEF HandleGone, Live
<1>2. TypeOK'
  BY <1>0 DEF HandleGone, Goto, Location, TypeOK
<1>3. MutexInv'
  BY <1>0 DEF HandleGone, Goto, InCritical, MutexInv
<1>4. LocalInv'
  BY <1>0 DEF HandleGone, Goto, InGet, InRemove, TypeOK, LocalInv
<1>5. HandleInv'
  BY ProxyCacheAssumption, <1>0, <1>1 DEF HandleGone, TypeOK, HandleInv
<1>6. LiveIsCached'
  BY <1>0, <1>1 DEF HandleGone, LiveIsCached
<1>7. KeysNeverDangle'
  BY <1>0 DEF HandleGone, TypeOK, KeysNeverDangle, TableInv, KeyOf
<1>8. TableInv'
  BY ProxyCacheAssumption, <1>0, <1>1
     DEF HandleGone, Goto, InCritical, InGet, InRemove, Location, Threads, TypeOK,
         Objects, MutexInv, LocalInv, HandleInv, LiveIsCached, TableInv, KeyOf
<1> QED BY <1>2, <1>3, <1>4, <1>5, <1>6, <1>7, <1>8 DEF IInv

-----------------------------------------------------------------------------
(* The theorems. *)

\* The initial states satisfy the inductive invariant.
LEMMA InitEstablishes == Init => IInv
<1> SUFFICES ASSUME Init PROVE IInv
  OBVIOUS
<1>1. TypeOK
  BY ProxyCacheAssumption DEF Init, TypeOK, Location, Objects
<1>2. \A p \in Proxies : ~Live(p)
  BY ProxyCacheAssumption DEF Init, Live, Threads
<1>3. MutexInv
  BY ProxyCacheAssumption DEF Init, MutexInv, InCritical
<1>4. LocalInv
  BY DEF Init, LocalInv, InGet, InRemove
<1>5. HandleInv
  BY <1>2, ProxyCacheAssumption DEF Init, HandleInv
<1>6. LiveIsCached /\ KeysNeverDangle /\ TableInv
  BY <1>2 DEF Init, LiveIsCached, KeysNeverDangle, TableInv
<1> QED BY <1>1, <1>3, <1>4, <1>5, <1>6 DEF IInv

\* Every step preserves it.
LEMMA StepPreserves == IInv /\ [Next]_vars => IInv'
<1> SUFFICES ASSUME IInv, [Next]_vars PROVE IInv'
  OBVIOUS
<1>1. ASSUME NEW c \in Clients, GetStep(c) PROVE IInv'
  BY <1>1, GetLockPreserves, GetFindLivePreserves, GetPrunePreserves, GetAllocPreserves,
     GetAllocFailsPreserves, GetEmplaceFailsPreserves
     DEF GetStep, Refused
<1>2. ASSUME NEW t \in Threads, RemoveStep(t) PROVE IInv'
  BY <1>2, RemoveLockPreserves, RemoveExpiredPreserves, RemoveKeepsPreserves,
     ProbeTakePreserves, ProbeDropPreserves, ProbeDropLastPreserves, HandleGonePreserves
     DEF RemoveStep, Probed
<1>3. CASE UNCHANGED vars
  <2>1. \A p \in Proxies : Live(p)' <=> Live(p)
    BY <1>3 DEF vars, Live
  <2>2. TypeOK' /\ MutexInv' /\ LocalInv' /\ KeysNeverDangle' /\ TableInv'
    BY <1>3 DEF vars, IInv, TypeOK, MutexInv, LocalInv, KeysNeverDangle, TableInv, KeyOf
  <2>3. HandleInv' /\ LiveIsCached'
    BY <1>3, <2>1 DEF vars, IInv, HandleInv, LiveIsCached
  <2> QED BY <2>2, <2>3 DEF IInv
<1> QED
  BY <1>1, <1>2, <1>3, GetCallPreserves, SharePreserves, DropPreserves,
     DropLastPreserves, FinalizePreserves, ReusePreserves
     DEF Next

\* The inductive invariant holds in every reachable state, for every choice of traits.
THEOREM Invariance == Spec => []IInv
BY InitEstablishes, StepPreserves, PTL DEF Spec

\* Type correctness.
THEOREM TypeCorrect == Spec => []TypeOK
<1>1. IInv => TypeOK
  BY DEF IInv
<1> QED BY Invariance, <1>1, PTL

\* A reachable proxy is the one in the table: remove() never takes away an entry that
\* a younger proxy of the same object owns.
THEOREM ReachableIsCached == Spec => []LiveIsCached
<1>1. IInv => LiveIsCached
  BY DEF IInv
<1> QED BY Invariance, <1>1, PTL

\* An object never has two reachable proxies.
THEOREM IdentityKept == Spec => []OneProxyPerObject
<1>1. IInv => OneProxyPerObject
  BY DEF IInv, LiveIsCached, OneProxyPerObject
<1> QED BY Invariance, <1>1, PTL

\* A key of the table is the address of an object that is still owned by the Handle of
\* the entry's proxy, also after the heap reused addresses.
THEOREM NoDanglingKey == Spec => []KeysNeverDangle
<1>1. IInv => KeysNeverDangle
  BY DEF IInv
<1> QED BY Invariance, <1>1, PTL

-----------------------------------------------------------------------------
(* Refinement. *)

\* A step that leaves references, wraps and answers alone is a stutter of the
\* abstract cache.
LEMMA HiddenStep ==
    ASSUME UNCHANGED <<holders, probe, wraps, answer>>
    PROVE  UNCHANGED Identity!vars
<1>1. \A q \in Proxies : Live(q)' <=> Live(q)
  BY DEF Live
<1> QED BY <1>1 DEF Identity!vars

\* A step that changes nothing but whether p is reachable is one, too, unless p has
\* become unreachable.
LEMMA ReferenceStep ==
    ASSUME NEW p \in Proxies, UNCHANGED <<wraps, answer>>,
           \A q \in Proxies \ {p} : Live(q)' <=> Live(q),
           Live(p)' => Live(p)
    PROVE  [Identity!Next]_(Identity!vars)
<1> DEFINE L == {q \in Proxies : Live(q)}
<1>1. L' = L \/ L' = L \ {p}
  OBVIOUS
<1>2. CASE L' = L
  BY <1>2 DEF Identity!vars
<1>3. CASE L' = L \ {p}
  BY <1>3 DEF Identity!Next, Identity!Unreachable
<1> QED BY <1>1, <1>2, <1>3

\* GetFindLive answers the reachable proxy of the object.
LEMMA FindLiveRefines ==
    ASSUME IInv, NEW c \in Clients, GetFindLive(c)
    PROVE  Identity!Next
<1> DEFINE a == arg[c]
           p == mMapping[arg[c]]
           o == <<arg[c], object[arg[c]]>>
<1>1. a \in Addresses /\ p \in Proxies /\ Live(p) /\ wraps[p] = o /\ o \in Objects
  BY ProxyCacheAssumption
     DEF IInv, TypeOK, LocalInv, InGet, Threads, KeysNeverDangle, GetFindLive, Objects
<1>2. \A q \in Proxies : Live(q)' <=> Live(q)
  BY <1>1 DEF IInv, TypeOK, GetFindLive, Answer, Live
<1>3. UNCHANGED wraps /\ answer' = [answer EXCEPT ![c] = <<o, p>>]
  BY DEF GetFindLive, Answer
<1>4. Identity!AnswerExisting(c, o, p)
  BY <1>1, <1>2, <1>3 DEF Identity!AnswerExisting
<1> QED BY <1>1, <1>4 DEF Identity!Next

\* GetAlloc answers a new proxy, and the object had no reachable one.
LEMMA AllocRefines ==
    ASSUME IInv, NEW c \in Clients, NEW p \in Proxies, GetAlloc(c, p)
    PROVE  Identity!Next
<1> DEFINE o == <<arg[c], object[arg[c]]>>
<1>1. arg[c] \in Addresses /\ o \in Objects
  BY DEF IInv, TypeOK, LocalInv, InGet, Threads, GetAlloc, Objects
<1>2. \A q \in Proxies : Live(q) => wraps[q] # o
  <2>1. mMapping[arg[c]] = None
    BY DEF IInv, TableInv, GetAlloc, Threads
  <2>2. None \notin Proxies
    BY ProxyCacheAssumption
  <2>3. ASSUME NEW q \in Proxies, Live(q), wraps[q] = o PROVE FALSE
    <3>1. mMapping[wraps[q][1]] = q
      BY <2>3 DEF IInv, LiveIsCached
    <3> QED BY <2>1, <2>2, <2>3, <3>1
  <2> QED BY <2>3
<1>3. wraps[p] = None
  BY DEF GetAlloc
<1>4. /\ wraps' = [wraps EXCEPT ![p] = o]
      /\ answer' = [answer EXCEPT ![c] = <<o, p>>]
      /\ holders' = [holders EXCEPT ![p] = @ \cup {c}]
      /\ probe' = probe
  BY DEF GetAlloc, Answer
<1>5. \A q \in Proxies : Live(q)' <=> Live(q) \/ q = p
  BY <1>4 DEF IInv, TypeOK, Live
<1>6. Identity!AnswerNew(c, o, p)
  BY <1>2, <1>3, <1>4, <1>5 DEF Identity!AnswerNew
<1> QED BY <1>1, <1>6 DEF Identity!Next

\* GetEmplaceFails loses a new proxy, and the object had no reachable one.
LEMMA EmplaceFailsRefines ==
    ASSUME IInv, NEW c \in Clients, NEW p \in Proxies, GetEmplaceFails(c, p)
    PROVE  Identity!Next
<1> DEFINE o == <<arg[c], object[arg[c]]>>
<1>1. arg[c] \in Addresses /\ o \in Objects
  BY DEF IInv, TypeOK, LocalInv, InGet, Threads, GetEmplaceFails, Objects
<1>2. \A q \in Proxies : Live(q) => wraps[q] # o
  <2>1. mMapping[arg[c]] = None
    BY DEF IInv, TableInv, GetEmplaceFails, Threads
  <2>2. None \notin Proxies
    BY ProxyCacheAssumption
  <2>3. ASSUME NEW q \in Proxies, Live(q), wraps[q] = o PROVE FALSE
    <3>1. mMapping[wraps[q][1]] = q
      BY <2>3 DEF IInv, LiveIsCached
    <3> QED BY <2>1, <2>2, <2>3, <3>1
  <2> QED BY <2>3
<1>3. wraps[p] = None /\ wraps' = [wraps EXCEPT ![p] = o]
  BY DEF GetEmplaceFails
<1>4. \A q \in Proxies : Live(q)' <=> Live(q)
  BY DEF GetEmplaceFails, Live
<1>5. answer' = answer
  BY DEF GetEmplaceFails
<1>6. Identity!Lost(o, p)
  BY <1>2, <1>3, <1>4, <1>5 DEF Identity!Lost
<1> QED BY <1>1, <1>6 DEF Identity!Next

\* Every step of the cache is a step of the abstract one, or a stutter.
LEMMA StepRefines ==
    ASSUME IInv, [Next]_vars
    PROVE  [Identity!Next]_(Identity!vars)
<1>1. ASSUME NEW c \in Clients, GetStep(c) PROVE [Identity!Next]_(Identity!vars)
  <2>1. ASSUME GetLock(c) \/ GetPrune(c) \/ \E p \in Refused : GetAllocFails(c, p)
        PROVE  UNCHANGED <<holders, probe, wraps, answer>>
    BY <2>1 DEF GetLock, GetPrune, GetAllocFails
  <2>2. ASSUME NEW p \in Refused, GetEmplaceFails(c, p) PROVE Identity!Next
    BY <2>2, EmplaceFailsRefines DEF Refused
  <2> QED BY <1>1, <2>1, <2>2, HiddenStep, FindLiveRefines, AllocRefines DEF GetStep
<1>2. ASSUME NEW t \in Threads, RemoveStep(t) PROVE [Identity!Next]_(Identity!vars)
  <2>1. ASSUME RemoveLock(t) \/ RemoveExpired(t) \/ RemoveKeeps(t) \/ HandleGone(t)
        PROVE  UNCHANGED <<holders, probe, wraps, answer>>
    BY <2>1 DEF RemoveLock, RemoveExpired, RemoveKeeps, HandleGone
  <2>2. ASSUME NEW q \in Proxies, ProbeTake(t, q)
        PROVE  [Identity!Next]_(Identity!vars)
    <3>1. \A r \in Proxies : Live(r)' <=> Live(r)
      <4>1. holders' = holders /\ probe' = [probe EXCEPT ![t] = q] /\ Live(q)
        BY <2>2 DEF ProbeTake
      <4>2. probe[t] = None
        BY <2>2 DEF ProbeTake, IInv, LocalInv
      <4>3. \A u \in Threads : probe'[u] = IF u = t THEN q ELSE probe[u]
        BY <4>1 DEF IInv, TypeOK
      <4> QED BY <4>1, <4>2, <4>3, ProxyCacheAssumption DEF Live
    <3>2. UNCHANGED <<wraps, answer>>
      BY <2>2 DEF ProbeTake
    <3> QED BY <2>2, <3>1, <3>2, ReferenceStep
  <2>3. ASSUME NEW q \in Proxies, ProbeDrop(t, q) \/ ProbeDropLast(t, q)
        PROVE  [Identity!Next]_(Identity!vars)
    <3>1. UNCHANGED <<holders, wraps, answer>> /\ probe' = [probe EXCEPT ![t] = None]
          /\ probe[t] = q
      BY <2>3 DEF ProbeDrop, ProbeDropLast
    <3>2. \A r \in Proxies \ {q} : Live(r)' <=> Live(r)
      BY <3>1, ProxyCacheAssumption DEF IInv, TypeOK, Live
    <3>3. Live(q)' => Live(q)
      BY <3>1 DEF Live
    <3> QED BY <3>1, <3>2, <3>3, ReferenceStep
  <2> QED BY <1>2, <2>1, <2>2, <2>3, HiddenStep DEF RemoveStep, Probed
<1>3. ASSUME NEW c \in Clients, NEW a \in Addresses, GetCall(c, a)
      PROVE  [Identity!Next]_(Identity!vars)
  <2>1. \A q \in Proxies : Live(q)' <=> Live(q)
    BY <1>3 DEF GetCall, Live
  <2>2. Identity!Ask(c)
    BY <1>3, <2>1 DEF GetCall, Identity!Ask
  <2> QED BY <2>2 DEF Identity!Next
<1>4. ASSUME NEW c \in Clients, NEW d \in Clients, NEW p \in Proxies, Share(c, d, p)
      PROVE  [Identity!Next]_(Identity!vars)
  <2>1. /\ c \in holders[p] /\ holders' = [holders EXCEPT ![p] = @ \cup {d}]
        /\ UNCHANGED <<probe, wraps, answer>>
    BY <1>4 DEF Share
  <2>2. \A q \in Proxies : Live(q)' <=> Live(q)
    BY <2>1 DEF IInv, TypeOK, Live
  <2> QED BY <2>1, <2>2, ReferenceStep
<1>5. ASSUME NEW c \in Clients, NEW p \in Proxies, Drop(c, p) \/ DropLast(c, p)
      PROVE  [Identity!Next]_(Identity!vars)
  <2>1. /\ c \in holders[p] /\ holders' = [holders EXCEPT ![p] = @ \ {c}]
        /\ UNCHANGED <<probe, wraps, answer>>
    BY <1>5 DEF Drop, DropLast
  <2>2. \A q \in Proxies \ {p} : Live(q)' <=> Live(q)
    BY <2>1 DEF IInv, TypeOK, Live
  <2>3. Live(p)' => Live(p)
    BY <2>1 DEF Live
  <2> QED BY <2>1, <2>2, <2>3, ReferenceStep
<1>6. ASSUME \/ \E f \in Finalizers, p \in Proxies : Finalize(f, p)
             \/ \E a \in Addresses : Reuse(a)
             \/ UNCHANGED vars
      PROVE  UNCHANGED <<holders, probe, wraps, answer>>
  BY <1>6 DEF Finalize, Reuse, vars
<1> QED BY <1>1, <1>2, <1>3, <1>4, <1>5, <1>6, HiddenStep DEF Next

\* The cache implements IdentityCache.tla: with its table, its lock and destructors
\* that run late, get() still answers the one reachable proxy of the object.
THEOREM Refinement == Spec => ImplementsIdentity
<1>1. Init => Identity!Init
  <2>1. Init => \A p \in Proxies : ~Live(p)
    BY ProxyCacheAssumption DEF Init, Live, Threads
  <2> QED BY <2>1 DEF Init, Identity!Init
<1>2. IInv /\ [Next]_vars => [Identity!Next]_(Identity!vars)
  BY StepRefines
<1> QED BY Invariance, <1>1, <1>2, PTL DEF Spec, ImplementsIdentity, Identity!Spec
=============================================================================
