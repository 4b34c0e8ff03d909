---------------------------- MODULE MCWarmCache ----------------------------
(* Symmetry for checking WarmCache. *)
EXTENDS WarmCache, TLC

CacheSymmetry ==
  Permutations(Boots) \cup Permutations(Committers) \cup Permutations(Gens)
    \cup Permutations(Parts)

=============================================================================
