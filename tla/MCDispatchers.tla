---------------------------- MODULE MCDispatchers ----------------------------
(***************************************************************************)
(* The dispatchers of both platforms for TLC.                              *)
(***************************************************************************)
EXTENDS MCJobDispatcher

VARIABLE platform

OnJava == INSTANCE JobDispatcher WITH Java <- TRUE
OnIos == INSTANCE JobDispatcher WITH Java <- FALSE

PlatformInit == Init /\ platform \in {"java", "objc"}

PlatformNext ==
    /\ \/ platform = "java" /\ OnJava!Next
       \/ platform = "objc" /\ OnIos!Next
    /\ UNCHANGED platform

PlatformSpec ==
    /\ PlatformInit
    /\ [][PlatformNext]_<<vars, platform>>
    /\ \A t \in Threads : WF_vars(MethodStep(t))
    /\ \A d \in Dispatchers :
          /\ WF_vars(platform = "java" /\ OnJava!LoopStep(d))
          /\ WF_vars(platform = "objc" /\ OnIos!LoopStep(d))
          /\ WF_vars(JobReturns(d) \/ (platform = "java" /\ OnJava!JobThrows(d)))
=============================================================================
