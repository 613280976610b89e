---------------------------- MODULE MCGlobalModel ----------------------------
(* GlobalModel with names that may be exchanged. *)
EXTENDS GlobalModel, TLC

MCSymmetry == Permutations(Job) \cup Permutations(Cluster)
==============================================================================
