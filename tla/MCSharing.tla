------------------------------ MODULE MCSharing ------------------------------
(* Sharing, with the names that may be exchanged for each other. *)
EXTENDS Sharing, TLC

Symmetry ==
  Permutations(Tenants) \cup Permutations(Items)
    \cup Permutations(Shares) \cup Permutations(Requests)
=============================================================================
