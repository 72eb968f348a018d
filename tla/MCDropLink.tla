----------------------------- MODULE MCDropLink -----------------------------
(* DropLink on small instances: two tasks for one agent, or for two.       *)
EXTENDS DropLink, TLC

Symmetry == Permutations(Tasks) \cup Permutations(Agents)
=============================================================================
