--------------------------- MODULE MCRunLifecycle ---------------------------
(* Symmetry for checking RunLifecycle: run ids and handlers are anonymous. *)
EXTENDS RunLifecycle, TLC

LifecycleSymmetry == Permutations(Runs) \cup Permutations(Committers)

=============================================================================
