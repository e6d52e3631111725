------------------------------- MODULE MCPortal -------------------------------
(* The portal, with the names that may be exchanged for each other. *)
EXTENDS ResearcherPortal, TLC

Symmetry ==
  Permutations(Researchers) \cup Permutations(Jobs) \cup Permutations(Workers)
=============================================================================
