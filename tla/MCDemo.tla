------------------------------- MODULE MCDemo -------------------------------
(* Two sessions on the demos of one lead. *)
EXTENDS DemoDeploy, TLC

Symmetric == Permutations(Sessions) \cup Permutations(Pages)

=============================================================================
