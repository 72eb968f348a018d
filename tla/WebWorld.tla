------------------------------- MODULE WebWorld -------------------------------
(* What a run of the web console assumes of its surroundings: which page    *)
(* is looked at, and for that page what users do, what the server holds and *)
(* whether requests may fail.  It never changes.                            *)
VARIABLE world
=============================================================================
