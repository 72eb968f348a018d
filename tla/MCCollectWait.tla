---------------------------- MODULE MCCollectWait ---------------------------
(* CollectWait with two tasks for one agent and a queue of one.            *)
EXTENDS CollectWait
=============================================================================
