--------------------------- MODULE AnalysisProofs ---------------------------
(***************************************************************************)
(* Analysis, for any number of analyzer processes: the products under      *)
(* every fault, the file lock wherever it is shared and does not fail, and *)
(* the owner of a RUNNING row under the faults the code is prepared for.   *)
(***************************************************************************)
EXTENDS Analysis, TLAPS

\* A child of the API server that got past a lock that works holds it.
HoldsLock == \A p \in Procs : pc[p] \in Inside /\ Locked(p) => holder = p

\* What is inductive under every fault: a process that was started has a
\* kind, whoever is past the lock holds it, and what has been or is about to
\* be reported as a success has its products.
SafeInv ==
    /\ TypeOK
    /\ \A p \in Procs : /\ pc[p] # NONE => kind[p] # NONE
                        /\ parent[p] # NONE => pc[p] # NONE
    /\ HoldsLock
    /\ SuccessHasProducts
    /\ \A p \in Procs : pc[p] = "complete" => products

\* Every step of Next keeps SafeInv, whatever the faults.
LEMMA SafeInvInductive == SafeInv /\ [Next]_analysisVars => SafeInv'
<1> SUFFICES ASSUME SafeInv, [Next]_analysisVars PROVE SafeInv'
  OBVIOUS
<1>0. CASE UNCHANGED analysisVars
  BY <1>0 DEF analysisVars, SafeInv, TypeOK, HoldsLock, Locked, Faults, SuccessHasProducts
<1> SUFFICES ASSUME Next PROVE SafeInv'
  BY <1>0
<1>w. world' = world
  BY DEF Next
<1>f. Faults' = Faults
  BY <1>w DEF Faults
<1>s. Starts \subseteq {"auto", "trigger", "cli"}
  BY AnalysisAssumption DEF SafeInv, TypeOK, World, Starts, StartKinds
<1> USE AnalysisAssumption, <1>w, <1>f DEF SafeInv, TypeOK, HoldsLock, Locked, SuccessHasProducts, Step,
        Inside, AnalysisStatus, Goes, StartKinds, NONE
<1>1. ASSUME NEW p \in Procs, AutoStart(p) \/ TriggerCheck(p) \/ CliStart(p) PROVE SafeInv'
  <2>1. CASE AutoStart(p)
    BY <1>s, <2>1 DEF AutoStart, Start
  <2>2. CASE TriggerCheck(p)
    BY <1>s, <2>2 DEF TriggerCheck, Start
  <2>3. CASE CliStart(p)
    BY <1>s, <2>3 DEF CliStart, Start
  <2> QED
    BY <1>1, <2>1, <2>2, <2>3
<1>2. ASSUME NEW p \in Procs, TriggerMark(p) PROVE SafeInv'
  BY <1>2 DEF TriggerMark, TransitionAnalysisStatus
<1>3. ASSUME NEW p \in Procs, AcquireLock(p) \/ LockFails(p) PROVE SafeInv'
  <2>1. CASE AcquireLock(p)
    BY <2>1 DEF AcquireLock
  <2>2. CASE LockFails(p)
    BY <2>2 DEF LockFails
  <2> QED
    BY <1>3, <2>1, <2>2
<1>4. ASSUME NEW p \in Procs, Check(p) \/ CheckFails(p) PROVE SafeInv'
  <2>1. CASE Check(p) /\ Exit(p, TRUE)
    BY <2>1 DEF Check, Exit
  <2>2. CASE Check(p) /\ pc' = [pc EXCEPT ![p] = "mark"] /\ UNCHANGED <<holder, parent>>
    BY <2>2 DEF Check
  <2>3. CASE CheckFails(p)
    BY <2>3 DEF CheckFails
  <2> QED
    BY <1>4, <2>1, <2>2, <2>3 DEF Check
<1>5. ASSUME NEW p \in Procs, Mark(p) PROVE SafeInv'
  BY <1>5 DEF Mark, TransitionAnalysisStatus
<1>6. ASSUME NEW p \in Procs, Analyse(p) \/ AnalyseFails(p) PROVE SafeInv'
  BY <1>6, ZenonT(60) DEF Analyse, AnalyseFails
<1>7. ASSUME NEW p \in Procs, Complete(p) \/ Fail(p) PROVE SafeInv'
  <2>1. CASE Complete(p)
    BY <2>1 DEF Complete, TransitionAnalysisStatus, Exit
  <2>2. CASE Fail(p)
    BY <2>2 DEF Fail, TransitionAnalysisStatus, Exit
  <2> QED
    BY <1>7, <2>1, <2>2
<1>8. ASSUME NEW p \in Procs, Kill(p) PROVE SafeInv'
  <2>1. late' = late \/ late' = late \cup PutOf(pc[p])
    BY <1>8 DEF Kill
  <2>2. PutOf(pc[p]) \subseteq AnalysisStatus /\ ("SUCCESS" \in PutOf(pc[p]) => pc[p] = "complete")
    BY DEF PutOf
  <2>3. late' \subseteq AnalysisStatus /\ ("SUCCESS" \in late' => products)
    BY <2>1, <2>2
  <2>4. Exit(p, FALSE) /\ UNCHANGED <<astatus, stale, kind, products>>
    BY <1>8 DEF Kill
  <2>5. TypeOK'
    BY <2>3, <2>4 DEF Exit
  <2>6. HoldsLock'
    BY <2>4 DEF Exit
  <2>7. pc[p] # NONE
    BY <1>8 DEF Kill
  <2>8. \A q \in Procs : (pc[q] # NONE => kind[q] # NONE)' /\ (parent[q] # NONE => pc[q] # NONE)'
    BY <2>4, <2>7 DEF Exit
  <2>9. SuccessHasProducts' /\ \A q \in Procs : (pc[q] = "complete" => products)'
    BY <2>3, <2>4 DEF Exit
  <2> QED
    BY <2>5, <2>6, <2>8, <2>9
<1>9. ASSUME NEW p \in Procs, FallbackRead(p) \/ FallbackWrite(p) PROVE SafeInv'
  BY <1>9, ZenonT(60) DEF FallbackRead, FallbackWrite, TransitionAnalysisStatus
<1>10. ASSUME NEW s \in AnalysisStatus, ServeLate(s) PROVE SafeInv'
  BY <1>10 DEF ServeLate, TransitionAnalysisStatus
<1>11. CASE TimePasses
  BY <1>11 DEF TimePasses
<1>12. CASE APICrash
  BY <1>12 DEF APICrash
<1> QED
  BY <1>1, <1>2, <1>3, <1>4, <1>5, <1>6, <1>7, <1>8, <1>9, <1>10, <1>11, <1>12
     DEF Next, Child

LEMMA SafeInvInit == Init => SafeInv
BY AnalysisAssumption DEF Init, SafeInv, TypeOK, HoldsLock, Locked, SuccessHasProducts, Step, Inside,
   AnalysisStatus, NONE

LEMMA SafeInvAlways == Spec => []SafeInv
BY SafeInvInit, SafeInvInductive, PTL DEF Spec

\* Every variable of the analysis keeps its type.
THEOREM TypeCorrect == Spec => []TypeOK
BY SafeInvAlways, PTL DEF SafeInv

\* flock in hotmethod_analyzer.py: whatever process is killed, and also when
\* the API server restarts, at most one of its children works on the task, as
\* long as flock does not fail.
THEOREM LockExcludes == Spec => []OneAtATime
<1>1. SafeInv => OneAtATime
  BY DEF SafeInv, HoldsLock, OneAtATime
<1>2. QED
  BY SafeInvAlways, <1>1, PTL

\* The row says SUCCESS only when the products were uploaded, under every
\* fault, late reports of killed processes included.
THEOREM NoSuccessWithoutProducts == Spec => []SuccessHasProducts
BY SafeInvAlways, PTL DEF SafeInv

-----------------------------------------------------------------------------
\* The goroutine of every process at work waits for it, so that whoever ends
\* is followed by the fallback, and nobody skips a row that is RUNNING.
OwnerInv ==
    /\ SafeInv
    /\ Supervised
    /\ late = {}
    /\ \A p \in Procs : /\ pc[p] \in {"lock"} \cup Inside => parent[p] = "waiting"
                        /\ kind[p] # "cli"
    /\ Owned

\* A behaviour is supervised from beginning to end or not at all, and OwnerInv
\* is inductive for those that are.
LEMMA OwnerInvInductive == OwnerInv /\ [Next]_analysisVars => OwnerInv'
<1> SUFFICES ASSUME OwnerInv, [Next]_analysisVars PROVE OwnerInv'
  OBVIOUS
<1>0. SafeInv'
  BY SafeInvInductive DEF OwnerInv
<1>1. CASE UNCHANGED analysisVars
  BY <1>0, <1>1 DEF analysisVars, OwnerInv, Supervised, Starts, Faults, Owned
<1> SUFFICES ASSUME Next PROVE OwnerInv'
  BY <1>1
<1>w. Starts' = Starts /\ Faults' = Faults
  BY DEF Next, Starts, Faults
<1> USE <1>0, <1>w, AnalysisAssumption
    DEF OwnerInv, Owned, Inside, Goes, NONE, SafeInv, TypeOK, Supervised
<1>2. ASSUME NEW p \in Procs, AutoStart(p) \/ TriggerCheck(p) PROVE OwnerInv'
  BY <1>2 DEF AutoStart, TriggerCheck, Start
<1>3. ASSUME NEW p \in Procs, TriggerMark(p) PROVE OwnerInv'
  BY <1>3 DEF TriggerMark, TransitionAnalysisStatus
<1>4. ASSUME NEW p \in Procs, CliStart(p) PROVE FALSE
  BY <1>4 DEF CliStart, Start
<1>5. ASSUME NEW p \in Procs, AcquireLock(p) \/ LockFails(p) PROVE OwnerInv'
  BY <1>5 DEF AcquireLock, LockFails
<1>6. ASSUME NEW p \in Procs, Check(p) \/ CheckFails(p) PROVE OwnerInv'
  BY <1>6 DEF Check, CheckFails, Exit, ShouldSkipRunning
<1>7. ASSUME NEW p \in Procs, Mark(p) PROVE OwnerInv'
  BY <1>7 DEF Mark, TransitionAnalysisStatus
<1>8. ASSUME NEW p \in Procs, Analyse(p) \/ AnalyseFails(p) PROVE OwnerInv'
  BY <1>8 DEF Analyse, AnalyseFails
<1>9. ASSUME NEW p \in Procs, Complete(p) PROVE OwnerInv'
  BY <1>9 DEF Complete, TransitionAnalysisStatus, Exit
<1>10. ASSUME NEW p \in Procs, Fail(p) PROVE OwnerInv'
  BY <1>10 DEF Fail, TransitionAnalysisStatus, Exit
<1>11. ASSUME NEW p \in Procs, Kill(p) PROVE OwnerInv'
  BY <1>11 DEF Kill, Exit
<1>12. ASSUME NEW p \in Procs, FallbackRead(p) \/ FallbackWrite(p) PROVE OwnerInv'
  BY <1>12 DEF FallbackRead, FallbackWrite, TransitionAnalysisStatus, Ended
<1>13. ASSUME NEW s \in AnalysisStatus, ServeLate(s) PROVE FALSE
  BY <1>13 DEF ServeLate
<1>14. CASE TimePasses
  BY <1>14 DEF TimePasses
<1>15. CASE APICrash
  BY <1>15 DEF APICrash
<1> QED
  BY <1>2, <1>3, <1>4, <1>5, <1>6, <1>7, <1>8, <1>9, <1>10, <1>11, <1>12, <1>13, <1>14, <1>15
     DEF Next, Child

\* With the API server up, the last report of a success delivered and no late
\* ones, no error, kill or failed call leaves a row RUNNING with nobody who
\* will end it, whatever the number of processes and triggers.
THEOREM NobodyForgetsARunningRow == Spec => []RunningHasOwner
<1> DEFINE Inv == Supervised => OwnerInv
<1>1. Init => Inv
  BY SafeInvInit DEF Init, OwnerInv, Owned, Inside, NONE
<1>2. Inv /\ [Next]_analysisVars => Inv'
  <2>1. [Next]_analysisVars => (Supervised' => Supervised)
    BY DEF Next, analysisVars, Supervised, Starts, Faults
  <2>2. QED
    BY <2>1, OwnerInvInductive
<1>3. Inv => RunningHasOwner
  BY DEF OwnerInv, RunningHasOwner
<1> QED
  BY <1>1, <1>2, <1>3, PTL DEF Spec

-----------------------------------------------------------------------------
\* While the lock keeps all of them apart, the status can be read and nothing
\* comes late, whoever has passed the check works on a row that does not say
\* SUCCESS: only the one inside could write that, and he leaves with it.
FreshInv ==
    /\ SafeInv
    /\ Serialised
    /\ late = {}
    /\ \A p \in Procs : kind[p] # "cli"
    /\ \A p \in Procs : pc[p] \in Inside \ {"check"} => astatus # "SUCCESS"

LEMMA FreshInvInductive == FreshInv /\ [Next]_analysisVars => FreshInv'
<1> SUFFICES ASSUME FreshInv, [Next]_analysisVars PROVE FreshInv'
  OBVIOUS
<1>0. SafeInv'
  BY SafeInvInductive DEF FreshInv
<1>1. CASE UNCHANGED analysisVars
  BY <1>0, <1>1 DEF analysisVars, FreshInv, Serialised, Starts, Faults
<1> SUFFICES ASSUME Next PROVE FreshInv'
  BY <1>1
<1>w. Starts' = Starts /\ Faults' = Faults
  BY DEF Next, Starts, Faults
<1> USE <1>0, <1>w, AnalysisAssumption
    DEF FreshInv, Serialised, Inside, Goes, NONE, SafeInv, TypeOK, HoldsLock, Locked
<1>2. ASSUME NEW p \in Procs, AutoStart(p) \/ TriggerCheck(p) \/ CliStart(p) PROVE FreshInv'
  BY <1>2 DEF AutoStart, TriggerCheck, CliStart, Start
<1>3. ASSUME NEW p \in Procs, TriggerMark(p) PROVE FreshInv'
  BY <1>3 DEF TriggerMark, TransitionAnalysisStatus
<1>4. ASSUME NEW p \in Procs, AcquireLock(p) PROVE FreshInv'
  BY <1>4 DEF AcquireLock
<1>4a. ASSUME NEW p \in Procs, LockFails(p) PROVE FALSE
  BY <1>4a DEF LockFails
<1>5. ASSUME NEW p \in Procs, Check(p) PROVE FreshInv'
  BY <1>5 DEF Check, Exit
<1>6. ASSUME NEW p \in Procs, CheckFails(p) PROVE FALSE
  BY <1>6 DEF CheckFails
<1>7. ASSUME NEW p \in Procs, Mark(p) PROVE FreshInv'
  BY <1>7 DEF Mark, TransitionAnalysisStatus
<1>8. ASSUME NEW p \in Procs, Analyse(p) \/ AnalyseFails(p) PROVE FreshInv'
  BY <1>8 DEF Analyse, AnalyseFails
<1>9. ASSUME NEW p \in Procs, Complete(p) PROVE FreshInv'
  BY <1>9 DEF Complete, TransitionAnalysisStatus, Exit
<1>10. ASSUME NEW p \in Procs, Fail(p) PROVE FreshInv'
  BY <1>10 DEF Fail, TransitionAnalysisStatus, Exit
<1>11. ASSUME NEW p \in Procs, Kill(p) PROVE FreshInv'
  BY <1>11 DEF Kill, Exit
<1>12. ASSUME NEW p \in Procs, FallbackRead(p) \/ FallbackWrite(p) PROVE FreshInv'
  BY <1>12 DEF FallbackRead, FallbackWrite, TransitionAnalysisStatus
<1>13. ASSUME NEW s \in AnalysisStatus, ServeLate(s) PROVE FALSE
  BY <1>13 DEF ServeLate
<1>14. CASE TimePasses
  BY <1>14 DEF TimePasses
<1>15. CASE APICrash
  BY <1>15 DEF APICrash
<1> QED
  BY <1>2, <1>3, <1>4, <1>4a, <1>5, <1>6, <1>7, <1>8, <1>9, <1>10, <1>11, <1>12, <1>13, <1>14, <1>15
     DEF Next, Child

\* No analyzer undoes the success of another, for any number of them, whoever
\* is killed, and also across a restart of the API server, as long as the lock
\* keeps them apart, the check can read the status and no report comes late
\* (main of hotmethod_analyzer.py).
THEOREM AnalyzersKeepSuccess == Spec => SuccessStays
<1> DEFINE Inv == Serialised => FreshInv
           Kept == \A p \in Procs : Serialised /\ astatus = "SUCCESS" /\ Child(p)
                      => astatus' = "SUCCESS"
<1>1. Init => Inv
  BY SafeInvInit DEF Init, FreshInv, Inside, NONE
<1>2. Inv /\ [Next]_analysisVars => Inv'
  <2>1. [Next]_analysisVars => (Serialised' => Serialised)
    BY DEF Next, analysisVars, Serialised, Starts, Faults
  <2>2. QED
    BY <2>1, FreshInvInductive
<1>3. Inv /\ [Next]_analysisVars => [Kept]_analysisVars
  <2> SUFFICES ASSUME FreshInv, NEW p \in Procs, astatus = "SUCCESS", Child(p)
               PROVE  astatus' = "SUCCESS"
    OBVIOUS
  <2>1. pc[p] \notin {"mark", "analyse", "complete", "fail"}
    BY DEF FreshInv, Inside
  <2>2. AcquireLock(p) \/ Check(p) \/ CheckFails(p)
    BY <2>1 DEF Child, Mark, Analyse, AnalyseFails, Complete, Fail
  <2>3. QED
    BY <2>2 DEF AcquireLock, Check, CheckFails
<1>4. QED
  BY <1>1, <1>2, <1>3, PTL DEF Spec, SuccessStays
=============================================================================
