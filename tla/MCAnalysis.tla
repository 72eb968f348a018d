----------------------------- MODULE MCAnalysis -----------------------------
(* Analysis with three analyzer processes on one task, in four worlds:     *)
(* every fault; a lock that works, for processes of every kind; children   *)
(* of the API server that the lock serialises; and the faults that         *)
(* runAnalysis is prepared for.                                            *)
EXTENDS Analysis

Children == {"auto", "trigger"}

AllWorlds ==
    {[starts |-> StartKinds, faults |-> FaultKinds],
     [starts |-> StartKinds, faults |-> FaultKinds \ {"lock_fails"}],
     [starts |-> Children, faults |-> FaultKinds \ {"lock_fails", "check_fails", "late"}],
     [starts |-> Children, faults |-> FaultKinds \ {"complete_fails", "late", "api_crash"}]}

\* One child of runAnalysis that is killed while its report is under way.
KilledWorld == {[starts |-> {"auto"}, faults |-> {"kill", "late"}]}

=============================================================================
