---------------------------- MODULE MCProxyCache ----------------------------
(***************************************************************************)
(* TLC instances of ProxyCache.tla, one per instantiation of the template. *)
(***************************************************************************)
EXTENDS ProxyCache, TLC

CONSTANTS c1, c2, c3, f1, a1, a2, p1, p2, p3, p4

Symmetry ==
    Permutations(Clients) \cup Permutations(Addresses) \cup Permutations(Proxies)
=============================================================================
