------------------------------ MODULE LongRunning ------------------------------
(* What goes on without a goroutine of the API server that waits for it:    *)
(* continuous tasks and schedules.  They do not meet, so that a world has   *)
(* the one or the other.                                                    *)
EXTENDS ContinuousSync, Schedule

longVars == <<syncAll, schedVars>>

Init == ChainInit /\ SyncInit /\ ScheduleInit

ContinuousTask ==
    /\ world.schedules = {} /\ SyncStep
    /\ UNCHANGED schedVars

SchedulesOfUsers ==
    /\ world.schedules # {} /\ ScheduleStep
    /\ UNCHANGED syncAll

Spec ==
    /\ Init /\ [][ContinuousTask \/ SchedulesOfUsers]_longVars
    /\ SyncFairness
=============================================================================
