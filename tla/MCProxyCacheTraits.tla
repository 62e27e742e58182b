------------------------- MODULE MCProxyCacheTraits -------------------------
(***************************************************************************)
(* The two instantiations whose weak pointer upgrades to be looked at, for *)
(* TLC: Java proxies of C++ objects (JniCppProxyCache), which a finalizer  *)
(* thread destroys and whose allocator may throw, and Objective-C proxies  *)
(* of C++ objects (CppProxyCache), which ARC destroys at once.             *)
(***************************************************************************)
EXTENDS MCProxyCache

VARIABLE traits

Java == INSTANCE ProxyCache WITH SyncDestroy <- FALSE, AllocMayFail <- TRUE
Objc == INSTANCE ProxyCache WITH SyncDestroy <- TRUE, AllocMayFail <- FALSE

TraitsInit == Init /\ traits \in {"java", "objc"}

TraitsNext ==
    /\ \/ traits = "java" /\ Java!Next
       \/ traits = "objc" /\ Objc!Next
    /\ UNCHANGED traits

TraitsSpec == TraitsInit /\ [][TraitsNext]_<<vars, traits>>
=============================================================================
