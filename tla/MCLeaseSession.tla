--------------------------- MODULE MCLeaseSession ---------------------------
(***************************************************************************)
(* Instances of LeaseSession for TLC.  Clusters are model values and       *)
(* interchangeable; incarnations are the lives of a job.                   *)
(***************************************************************************)
EXTENDS LeaseSession, TLC

Lives == 1 .. MaxLives

\* What ViewIsSafe and the guards depend on: without a limit nothing turns on the
\* attempts, `disk' and `fresh' are only written, of the positions that are left to
\* train the next step takes any, so their number matters, and a heartbeat that has
\* been answered is applied by its answer alone.
WhatMatters ==
    <<[table EXCEPT !.attempts = <<>>],
      [c \in Job |->
         [job[c] EXCEPT !.fresh = {}, !.todo = Cardinality(@),
                        !.beat.progress = IF job[c].beat.at = "answered" THEN <<>> ELSE @]]>>

=============================================================================
