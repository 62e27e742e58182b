--------------------------- MODULE IdentityCache ---------------------------
(***************************************************************************)
(* What the proxy cache promises (proxy_cache_interface.hpp, lines 42-46): *)
(* passing an object across the language boundary answers a proxy of that  *)
(* very object, and as long as that proxy is reachable, the same one each  *)
(* time.  No table, no lock and no destructor: ProxyCache.tla implements   *)
(* this.                                                                   *)
(***************************************************************************)
CONSTANTS
    Clients,    \* the threads that pass objects across the boundary
    Objects,    \* the objects passed, told apart by identity and not by address
    Proxies,    \* proxy objects
    None        \* no object, no answer

VARIABLES
    live,       \* the proxies somebody can reach
    wraps,      \* [Proxies -> the object each was created for, or None]
    answer      \* [Clients -> <<object asked for, proxy answered>>, or None]

vars == <<live, wraps, answer>>

Init ==
    /\ live = {}
    /\ wraps = [p \in Proxies |-> None]
    /\ answer = [c \in Clients |-> None]

Ask(c) ==
    /\ answer' = [answer EXCEPT ![c] = None]
    /\ UNCHANGED <<live, wraps>>

\* The object has a reachable proxy: that one is the answer.
AnswerExisting(c, o, p) ==
    /\ p \in live
    /\ wraps[p] = o
    /\ answer' = [answer EXCEPT ![c] = <<o, p>>]
    /\ UNCHANGED <<live, wraps>>

\* It has none: a proxy never used before is.
AnswerNew(c, o, p) ==
    /\ \A q \in live : wraps[q] # o
    /\ wraps[p] = None
    /\ wraps' = [wraps EXCEPT ![p] = o]
    /\ live' = live \cup {p}
    /\ answer' = [answer EXCEPT ![c] = <<o, p>>]

\* A proxy that was made for an object without one is lost, and there is no answer.
Lost(o, p) ==
    /\ \A q \in live : wraps[q] # o
    /\ wraps[p] = None
    /\ wraps' = [wraps EXCEPT ![p] = o]
    /\ UNCHANGED <<live, answer>>

\* The last reference is dropped, for good.
Unreachable(p) ==
    /\ live' = live \ {p}
    /\ UNCHANGED <<wraps, answer>>

Next ==
    \/ \E c \in Clients : Ask(c)
    \/ \E c \in Clients, o \in Objects, p \in Proxies :
          AnswerExisting(c, o, p) \/ AnswerNew(c, o, p)
    \/ \E o \in Objects, p \in Proxies : Lost(o, p)
    \/ \E p \in Proxies : Unreachable(p)

Spec == Init /\ [][Next]_vars
=============================================================================
