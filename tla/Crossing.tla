------------------------------ MODULE Crossing ------------------------------
(***************************************************************************)
(* How an object of an interface crosses the border: JniInterface of       *)
(* djinni_support.hpp, where the caches have what crossed before.  An      *)
(* object is named by the side that implements it, and each side holds it  *)
(* itself or a proxy of it.                                                *)
(***************************************************************************)

CONSTANTS
    Interfaces,      \* all interfaces
    WithCppProxy,    \* those that C++ implements: they have a class CppProxy in Java
    WithJavaProxy    \* those that Java implements: they have a class JavaProxy in C++

VARIABLE traveller   \* an object of one interface: who implements it, and who holds what now;
                     \* and whether assert is compiled in

NoObject == [on |-> "none", is |-> "null"]
Itself(side) == [on |-> side, is |-> "object"]
Proxy(side) == [on |-> side, is |-> "proxy"]

\* Without asserts, newCppProxy() calls JNI on the class that is not there.
Crash == [on |-> "none", is |-> "undefined"]
Aborted == [on |-> "none", is |-> "aborted"]

\* _toJava(): unwrap a JavaProxy, or assert(m_cppProxyClass) and find or make a CppProxy.
ToJava(interface, asserts, c) ==
    CASE c = NoObject -> NoObject
      [] c = Proxy("cpp") -> Itself("java")
      [] c = Itself("cpp") /\ interface \in WithCppProxy -> Proxy("java")
      [] c = Itself("cpp") /\ interface \notin WithCppProxy ->
            IF asserts THEN Aborted ELSE Crash

\* Faulty variant: a CppProxy is wrapped like any object of Java.
ToCpp_Wraps(interface, asserts, j) == IF j = NoObject THEN NoObject ELSE Proxy("cpp")

\* _fromJava(): unwrap a CppProxy, or find or make a JavaProxy; for an interface that has no
\* class JavaProxy, assert(false) and null.
ToCpp(interface, asserts, j) ==
    CASE j = NoObject -> NoObject
      [] j = Proxy("java") -> Itself("cpp")
      [] j = Itself("java") /\ interface \in WithJavaProxy -> Proxy("cpp")
      [] j = Itself("java") /\ interface \notin WithJavaProxy ->
            IF asserts THEN Aborted ELSE NoObject

TravelInit ==
    \E i \in Interfaces, h \in {"cpp", "java"}, a \in BOOLEAN :
        traveller = [interface |-> i, asserts |-> a, home |-> h, side |-> h,
                     holds |-> Itself(h)]

Lives == traveller.holds \notin {Crash, Aborted}

\* fromCpp() and toCpp() of the interface, as often as it is passed to and fro.
CrossToJava ==
    /\ traveller.side = "cpp" /\ Lives
    /\ traveller' = [traveller EXCEPT
                        !.side = "java",
                        !.holds = ToJava(traveller.interface, traveller.asserts, @)]

CrossToCpp ==
    /\ traveller.side = "java" /\ Lives
    /\ traveller' = [traveller EXCEPT
                        !.side = "cpp",
                        !.holds = ToCpp(traveller.interface, traveller.asserts, @)]

TravelNext == CrossToJava \/ CrossToCpp

TravelSpec == TravelInit /\ [][TravelNext]_traveller

-----------------------------------------------------------------------------

\* An object that crosses, however often, is itself at home and one proxy abroad, never a proxy
\* of a proxy.  One that is implemented on a side that its interface does not allow, which the
\* compilers of both languages accept, ends the process where asserts are compiled in; without
\* them it is lost on the way from Java and undefined on the way to it
\* (djinni_support.hpp:370-387, 395-413, 477-480).
CrossesAndReturns ==
    LET x == traveller
        allowed == x.interface \in (IF x.home = "cpp" THEN WithCppProxy ELSE WithJavaProxy)
    IN  \/ x.holds = IF x.side = x.home THEN Itself(x.home) ELSE Proxy(x.side)
        \/ /\ ~ allowed
           /\ x.holds = CASE x.asserts -> Aborted
                          [] ~ x.asserts /\ x.home = "cpp" -> Crash
                          [] ~ x.asserts /\ x.home = "java" -> NoObject
=============================================================================
