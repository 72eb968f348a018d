---------------------------- MODULE MCLongRunning ----------------------------
(* The chain by itself in four worlds: everything together on two windows; *)
(* repeated and lost reports on three; every failure but repeated reports  *)
(* on four; and what the chain is meant to survive.  The chain with the    *)
(* API server in three: windows that fail; a crash of the API server;      *)
(* deletions, results that are not stored, a full queue and restarts of    *)
(* drop_server.  And two schedules.                                        *)
EXTENDS LongRunning

Chain == [faults |-> {}, last |-> 1, api |-> {}, schedules |-> {}]

AllWorlds ==
    {[Chain EXCEPT !.faults = FaultKinds],
     [Chain EXCEPT !.faults = {"duplicate", "lost_report"}, !.last = 2],
     [Chain EXCEPT !.faults = FaultKinds \ {"duplicate"}, !.last = 3],
     [Chain EXCEPT !.faults = {"duplicate", "upload_fails", "error"}],
     [Chain EXCEPT !.api = {"request"}, !.faults = {"error"}],
     [Chain EXCEPT !.api = {"request", "api_crash"}],
     [Chain EXCEPT !.api = {"request", "delete"}, !.last = 0,
                   !.faults = {"upload_fails", "queue_full", "restart"}],
     [Chain EXCEPT !.schedules = Schedules]}
=============================================================================
