----------------------------- MODULE MCEndToEnd -----------------------------
(* EndToEnd on small instances: one or two tasks for one agent.            *)
EXTENDS EndToEnd, TLC

Symmetry == Permutations(Tasks)
=============================================================================
