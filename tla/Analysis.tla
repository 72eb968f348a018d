------------------------------- MODULE Analysis -------------------------------
(***************************************************************************)
(* The analysis of one finished task: the analysis_status of its row, the  *)
(* goroutines of the API server that run the analyzer as a child process   *)
(* (runAnalysis, TriggerAnalysis), and the analyzer processes              *)
(* (hotmethod_analyzer.py), which wait for each other at a file lock and   *)
(* write the status back by HTTP.  The lock file is in /tmp: the children  *)
(* of the API server share one, an analyzer started by hand runs in a      *)
(* container of its own (analysis-runner) and locks a file no other one    *)
(* sees.                                                                   *)
(*                                                                         *)
(* A PUT is retried up to three times with the same value, so it is one    *)
(* step: it takes effect, or all attempts fail.  One that a killed process *)
(* leaves behind may still be served later.                                *)
(***************************************************************************)
EXTENDS Naturals

CONSTANTS
    Procs,      \* analyzer processes
    Worlds      \* the environments to be considered

NONE == "NONE"

StartKinds == {"auto", "trigger", "cli"}
FaultKinds == {"error",             \* an analyzer raises or finds no data
               "lock_fails",        \* flock raises an OSError
               "check_fails", "mark_fails", "complete_fails", "fail_fails",
                                    \* the HTTP call of that step fails
               "kill",              \* the 10 minute limit kills the child
               "late",              \* the PUT of a killed child is served later
               "api_crash"}         \* the API server's container restarts

\* How analyzers are started, and what can go wrong.
World == [starts : SUBSET StartKinds, faults : SUBSET FaultKinds]

ASSUME AnalysisAssumption ==
    /\ Worlds \subseteq World
    /\ NONE \notin Procs

VARIABLES
    world,      \* the environment of this behaviour, chosen once
    astatus,    \* analysis_status of the row
    stale,      \* updated_at of the row is over RUNNING_STALE_SECONDS old
    holder,     \* who holds the lock of /tmp/analysis_<tid>.lock in the
                \* container of the API server
    pc,         \* where each process stands
    kind,       \* how it was started
    parent,     \* the goroutine in runAnalysis that waits for the process
    late,       \* statuses of abandoned PUTs that may still be served
    products    \* the analysis products are in object storage

analysisVars == <<world, astatus, stale, holder, pc, kind, parent, late, products>>

Starts == world.starts
Faults == world.faults

AnalysisStatus == {"PENDING", "RUNNING", "SUCCESS", "FAILED"}
Ended == {"SUCCESS", "FAILED"}

\* The steps a process takes once it is past the lock.
Inside == {"check", "mark", "analyse", "complete", "fail"}
Step == Inside \cup {NONE, "queued", "lock", "exited"}

TypeOK ==
    /\ world \in Worlds
    /\ astatus \in AnalysisStatus
    /\ stale \in BOOLEAN
    /\ holder \in Procs \cup {NONE}
    /\ pc \in [Procs -> Step]
    /\ kind \in [Procs -> StartKinds \cup {NONE}]
    /\ parent \in [Procs -> {NONE, "waiting", "fallback", "overwrite"}]
    /\ late \subseteq AnalysisStatus
    /\ products \in BOOLEAN

Init ==
    /\ world \in Worlds
    /\ astatus = "PENDING"
    /\ stale = FALSE
    /\ holder = NONE
    /\ pc = [p \in Procs |-> NONE]
    /\ kind = [p \in Procs |-> NONE]
    /\ parent = [p \in Procs |-> NONE]
    /\ late = {}
    /\ products = FALSE

-----------------------------------------------------------------------------
\* transitionAnalysisStatus: any status may follow any other; every write
\* refreshes updated_at.
TransitionAnalysisStatus(s) ==
    /\ astatus' = s
    /\ stale' = FALSE

Goes(p, s) == pc' = [pc EXCEPT ![p] = s]

Start(p, k, s) ==
    /\ pc[p] = NONE
    /\ k \in Starts
    /\ kind' = [kind EXCEPT ![p] = k]
    /\ Goes(p, s)

\* waitTaskResult starts runAnalysis when the result is there, once.
AutoStart(p) ==
    /\ \A q \in Procs : kind[q] # "auto"
    /\ Start(p, "auto", "lock")
    /\ parent' = [parent EXCEPT ![p] = "waiting"]
    /\ UNCHANGED <<astatus, stale, holder, late, products>>

\* TriggerAnalysis refuses when the row it has read says RUNNING ...
TriggerCheck(p) ==
    /\ astatus # "RUNNING"
    /\ Start(p, "trigger", "queued")
    /\ UNCHANGED <<astatus, stale, holder, parent, late, products>>

\* ... else it marks the row, unconditionally, and starts runAnalysis.
TriggerMark(p) ==
    /\ pc[p] = "queued"
    /\ TransitionAnalysisStatus("RUNNING")
    /\ Goes(p, "lock")
    /\ parent' = [parent EXCEPT ![p] = "waiting"]
    /\ UNCHANGED <<holder, kind, late, products>>

\* The analyzer started by hand in its own container, to debug or to run an
\* analysis again.
CliStart(p) ==
    /\ Start(p, "cli", "lock")
    /\ UNCHANGED <<astatus, stale, holder, parent, late, products>>

-----------------------------------------------------------------------------
\* Mutant: a lock that is taken is not waited for.
AcquireLockAnyway(p) ==
    /\ pc[p] = "lock"
    /\ holder' = p
    /\ Goes(p, "check")
    /\ UNCHANGED <<astatus, stale, kind, parent, late, products>>

\* main: flock, blocking.  Nobody shares the lock file of an analyzer that was
\* started by hand.  (A process that ends before it has the lock is a Kill.)
AcquireLock(p) ==
    /\ pc[p] = "lock"
    /\ \/ kind[p] = "cli" /\ UNCHANGED holder
       \/ kind[p] # "cli" /\ holder = NONE /\ holder' = p
    /\ Goes(p, "check")
    /\ UNCHANGED <<astatus, stale, kind, parent, late, products>>

\* flock raises an OSError: a warning, and main goes on without the lock.
LockFails(p) ==
    /\ "lock_fails" \in Faults
    /\ pc[p] = "lock"
    /\ Goes(p, "check")
    /\ UNCHANGED <<astatus, stale, holder, kind, parent, late, products>>

\* Mutant: the lock is not released.
ExitForgetsLock(p, ok) ==
    /\ Goes(p, "exited")
    /\ parent' = [parent EXCEPT ![p] = IF @ = "waiting" /\ ~ok THEN "fallback" ELSE NONE]
    /\ UNCHANGED holder

\* The process ends: the lock is free and runAnalysis gets the exit code.
Exit(p, ok) ==
    /\ Goes(p, "exited")
    /\ holder' = IF holder = p THEN NONE ELSE holder
    /\ parent' = [parent EXCEPT ![p] = IF @ = "waiting" /\ ~ok THEN "fallback" ELSE NONE]

\* _should_skip_running_analysis: a process the API server did not start
\* leaves an analysis that runs, and is not stale, alone.
ShouldSkipRunning(p) == astatus = "RUNNING" /\ ~stale /\ kind[p] = "cli"

\* Mutant: only a running analysis is skipped.
CheckRunningOnly(p) ==
    /\ pc[p] = "check"
    /\ IF ShouldSkipRunning(p)
       THEN Exit(p, TRUE)
       ELSE Goes(p, "mark") /\ UNCHANGED <<holder, parent>>
    /\ UNCHANGED <<astatus, stale, kind, late, products>>

\* The idempotency check; an analysis that succeeded is not repeated.
Check(p) ==
    /\ pc[p] = "check"
    /\ IF astatus = "SUCCESS" \/ ShouldSkipRunning(p)
       THEN Exit(p, TRUE)
       ELSE Goes(p, "mark") /\ UNCHANGED <<holder, parent>>
    /\ UNCHANGED <<astatus, stale, kind, late, products>>

\* The row cannot be read: "will proceed".
CheckFails(p) ==
    /\ "check_fails" \in Faults
    /\ pc[p] = "check"
    /\ Goes(p, "mark")
    /\ UNCHANGED <<astatus, stale, holder, kind, parent, late, products>>

\* The analysis is marked as started; a failure to do so is only logged.
Mark(p) ==
    /\ pc[p] = "mark"
    /\ \/ TransitionAnalysisStatus("RUNNING")
       \/ "mark_fails" \in Faults /\ UNCHANGED <<astatus, stale>>
    /\ Goes(p, "analyse")
    /\ UNCHANGED <<holder, kind, parent, late, products>>

\* Mutant: the status is reported before the products are uploaded.
AnalyseBeforeUpload(p) ==
    /\ pc[p] = "analyse"
    /\ Goes(p, "complete")
    /\ UNCHANGED <<astatus, stale, holder, kind, parent, late, products>>

\* Download, analyzer, upload of the products and of the suggestions.
Analyse(p) ==
    /\ pc[p] = "analyse"
    /\ Goes(p, "complete")
    /\ products' = TRUE
    /\ UNCHANGED <<astatus, stale, holder, kind, parent, late>>

\* No data (error_exit) or an exception of any of these.
AnalyseFails(p) ==
    /\ "error" \in Faults
    /\ pc[p] = "analyse"
    /\ Goes(p, "fail")
    /\ UNCHANGED <<astatus, stale, holder, kind, parent, late, products>>

\* The success is reported; a failure to do so is swallowed and the process
\* exits with 0.
Complete(p) ==
    /\ pc[p] = "complete"
    /\ \/ TransitionAnalysisStatus("SUCCESS")
       \/ "complete_fails" \in Faults /\ UNCHANGED <<astatus, stale>>
    /\ Exit(p, TRUE)
    /\ UNCHANGED <<kind, late, products>>

\* The failure is reported, and the process exits with an error code.
Fail(p) ==
    /\ pc[p] = "fail"
    /\ \/ TransitionAnalysisStatus("FAILED")
       \/ "fail_fails" \in Faults /\ UNCHANGED <<astatus, stale>>
    /\ Exit(p, FALSE)
    /\ UNCHANGED <<kind, late, products>>

-----------------------------------------------------------------------------
\* The status of the PUT a process has under way.
PutOf(s) ==
    CASE s = "mark"     -> {"RUNNING"}
      [] s = "complete" -> {"SUCCESS"}
      [] s = "fail"     -> {"FAILED"}
      [] OTHER          -> {}

\* The context of runAnalysis kills the child after 10 minutes.
Kill(p) ==
    /\ "kill" \in Faults
    /\ parent[p] = "waiting"
    /\ Exit(p, FALSE)
    /\ late' \in IF "late" \in Faults THEN {late, late \cup PutOf(pc[p])} ELSE {late}
    /\ UNCHANGED <<astatus, stale, kind, products>>

ServeLate(s) ==
    /\ s \in late
    /\ late' = late \ {s}
    /\ TransitionAnalysisStatus(s)
    /\ UNCHANGED <<holder, pc, kind, parent, products>>

\* Mutant: after a failure only a child that marked the row is looked for.
FallbackReadPendingOnly(p) ==
    /\ parent[p] = "fallback"
    /\ parent' = [parent EXCEPT ![p] = IF astatus # "PENDING" THEN NONE ELSE "overwrite"]
    /\ UNCHANGED <<astatus, stale, holder, pc, kind, late, products>>

\* runAnalysis, the child has failed: the row is read ...
FallbackRead(p) ==
    /\ parent[p] = "fallback"
    /\ parent' = [parent EXCEPT ![p] = IF astatus \in Ended THEN NONE ELSE "overwrite"]
    /\ UNCHANGED <<astatus, stale, holder, pc, kind, late, products>>

\* ... and, if it had no final status, overwritten.
FallbackWrite(p) ==
    /\ parent[p] = "overwrite"
    /\ TransitionAnalysisStatus("FAILED")
    /\ parent' = [parent EXCEPT ![p] = NONE]
    /\ UNCHANGED <<holder, pc, kind, late, products>>

\* Time passes RUNNING_STALE_SECONDS.
TimePasses ==
    /\ astatus = "RUNNING"
    /\ ~stale
    /\ stale' = TRUE
    /\ UNCHANGED <<astatus, holder, pc, kind, parent, late, products>>

\* The container of the API server restarts: goroutines, handlers and child
\* processes are gone.
APICrash ==
    /\ "api_crash" \in Faults
    /\ holder' = NONE
    /\ pc' = [p \in Procs |-> IF kind[p] \in {"auto", "trigger"} THEN "exited" ELSE pc[p]]
    /\ parent' = [p \in Procs |-> NONE]
    /\ late' = {}
    /\ UNCHANGED <<astatus, stale, kind, products>>

Child(p) ==
    \/ AcquireLock(p)
    \/ Check(p)
    \/ CheckFails(p)
    \/ Mark(p)
    \/ Analyse(p)
    \/ AnalyseFails(p)
    \/ Complete(p)
    \/ Fail(p)

Next ==
    /\ UNCHANGED world
    /\ \/ \E p \in Procs :
             \/ AutoStart(p)
             \/ TriggerCheck(p)
             \/ TriggerMark(p)
             \/ CliStart(p)
             \/ Child(p)
             \/ LockFails(p)
             \/ Kill(p)
             \/ FallbackRead(p)
             \/ FallbackWrite(p)
       \/ \E s \in AnalysisStatus : ServeLate(s)
       \/ TimePasses
       \/ APICrash

Spec == Init /\ [][Next]_analysisVars

\* The goroutines and the processes run; the 10 minute limit bounds the latter.
FairSpec ==
    /\ Spec
    /\ \A p \in Procs :
          /\ WF_analysisVars(UNCHANGED world /\ TriggerMark(p))
          /\ WF_analysisVars(UNCHANGED world /\ Child(p))
          /\ WF_analysisVars(UNCHANGED world /\ (FallbackRead(p) \/ FallbackWrite(p)))

-----------------------------------------------------------------------------
\* The analyzers the API server starts share a lock.
Locked(p) == kind[p] # "cli" /\ "lock_fails" \notin Faults

\* The lock lets one child of the API server work at a time, whoever is killed
\* or restarted, as long as flock does not fail: who is past the lock holds it.
OneAtATime ==
    \A p, q \in Procs :
        pc[p] \in Inside /\ pc[q] \in Inside /\ Locked(p) /\ Locked(q) => p = q

\* SUCCESS in the row means that the products are there to be shown, also
\* when the report of a killed process is served late.
SuccessHasProducts == (astatus = "SUCCESS" \/ "SUCCESS" \in late) => products

\* Every analyzer is a child of the API server and gets the lock, the status
\* can be read, and no report comes late.
Serialised ==
    /\ Starts \subseteq {"auto", "trigger"}
    /\ Faults \cap {"lock_fails", "check_fails", "late"} = {}

\* No analyzer undoes the success of another: one that waited for the lock
\* finds out that the work is done and skips it, as long as the lock keeps
\* them apart and the status can be read.  (A user may trigger it again.)
SuccessStays ==
    [][\A p \in Procs : Serialised /\ astatus = "SUCCESS" /\ Child(p)
          => astatus' = "SUCCESS"]_analysisVars

\* The faults the fallback of runAnalysis makes up for, and processes that
\* the API server starts: the report of a success gets through, no PUT comes
\* late and the API server stays up.
Supervised ==
    /\ Starts \subseteq {"auto", "trigger"}
    /\ Faults \cap {"complete_fails", "late", "api_crash"} = {}

Owned ==
    astatus = "RUNNING" =>
        \E p \in Procs : \/ pc[p] \in {"lock"} \cup Inside
                         \/ parent[p] \in {"fallback", "overwrite"}

\* A row says RUNNING only while somebody is left who will end it: a process
\* the API server waits for, or the goroutine that overwrites the status of
\* one that failed.  Otherwise TriggerAnalysis refuses the task for ever.
RunningHasOwner == Supervised => Owned

\* Under fairness, then, the analysis ends.
AnalysisEnds == Supervised /\ astatus = "RUNNING" ~> astatus # "RUNNING"

\* analysis.go: a final status set by the child is not overwritten by the
\* fallback of runAnalysis.
FallbackKeepsOutcome ==
    [][\A p \in Procs : FallbackWrite(p) => astatus \notin Ended]_analysisVars
=============================================================================
