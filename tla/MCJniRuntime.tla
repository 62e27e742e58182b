---------------------------- MODULE MCJniRuntime ----------------------------
(* The classes to look up: two that the hooks use, and one of the generated ones. *)
EXTENDS JniRuntime

MCInitializers == <<"SystemClassInfo", "SecurityExceptionClassInfo", "NativeReactBridge">>
=============================================================================
