---------------------------- MODULE MCLeaseTable ----------------------------
(* Small instances of LeaseTable for TLC. *)
EXTENDS LeaseTable, TLC

Symmetry == Permutations(Cluster) \cup Permutations(Incarnation)

=============================================================================
