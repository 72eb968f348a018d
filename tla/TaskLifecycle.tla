---------------------------- MODULE TaskLifecycle ----------------------------
(***************************************************************************)
(* What the API server promises about the status of a task and its audit   *)
(* trail (model.HotmethodTask.status, model.TaskStateHistory): every       *)
(* change of the status is recorded with the status it started from, a     *)
(* task leaves PENDING (NEW in the code) for good, and SUCCESS and FAILED   *)
(* are final.  EndToEnd implements this.                                   *)
(***************************************************************************)
EXTENDS Sequences

CONSTANT Tasks

VARIABLES
    status,     \* the status of each task
    trail       \* its recorded transitions, oldest first

lifecycleVars == <<status, trail>>

Open == {"NEW", "RUNNING", "UPLOADING"}
Final == {"SUCCESS", "FAILED"}

Record(t, s) ==
    /\ status' = [status EXCEPT ![t] = s]
    /\ trail' = [trail EXCEPT ![t] = Append(@, <<status[t], s>>)]

Init ==
    /\ status = [t \in Tasks |-> "NONE"]
    /\ trail = [t \in Tasks |-> <<>>]

Create(t) == status[t] = "NONE" /\ Record(t, "NEW")

Move(t, s) ==
    /\ status[t] \in Open
    /\ s \in (Open \cup Final) \ {"NEW", status[t]}
    /\ Record(t, s)

Next == \E t \in Tasks : Create(t) \/ \E s \in Open \cup Final : Move(t, s)

Spec == Init /\ [][Next]_lifecycleVars
=============================================================================
