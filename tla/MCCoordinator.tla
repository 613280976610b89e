--------------------------- MODULE MCCoordinator ---------------------------
(* Small instances of Coordinator for TLC. *)
EXTENDS Coordinator, TLC

ClusterSymmetry == Permutations(Cluster)

\* The history variables restrict nothing, so a run whose properties do not
\* mention them may forget them.
NoHistory == <<table, disk, phase, todo, lines>>

\* Without a limit on attempts (MaxAttempts = 0) nothing depends on how many
\* there were, and replaying a release twice counts it twice without end.
Unattempted(t) == IF t = NoSnapshot THEN t ELSE [t EXCEPT !.attempts = <<>>]
NoAttempts ==
    <<Unattempted(table), Unattempted(snapshot), journal, durable, phase, todo, lines, acked, held,
      covered, outrun>>

=============================================================================
