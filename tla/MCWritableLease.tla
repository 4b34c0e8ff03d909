-------------------------- MODULE MCWritableLease --------------------------
(* Model values and symmetry for checking WritableLease. *)
EXTENDS WritableLease, TLC

\* Neither an owner nor a handler is told apart by its name.
LeaseSymmetry == Permutations(Owners) \cup Permutations(Sessions)

=============================================================================
