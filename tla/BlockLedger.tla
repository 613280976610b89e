----------------------------- MODULE BlockLedger -----------------------------
(***************************************************************************)
(* What the lease table promises the clusters, with leases, watermarks,    *)
(* counters and the free pool left out: within one epoch every position    *)
(* has one holder at a time, only the holder can settle it, and a settled  *)
(* position is never handed out again.  (table.py, module docstring:       *)
(* disjointness, coverage and zero duplication.)                           *)
(***************************************************************************)
EXTENDS Naturals

CONSTANTS Cluster, Position, Free, Done, Bad

VARIABLES epoch, holder

vars == <<epoch, holder>>

Init == epoch = 0 /\ holder = [p \in Position |-> Free]

Holder == Cluster \cup {Free, Done, Bad}

\* Positions whose holder is gone go back to the pool or are given up on;
\* in the same step one cluster may be given free or held positions.
MayAssign(old, new, c) ==
    \/ new = old
    \/ old = Free /\ new = c
    \/ old \in Cluster /\ new \in {Free, Bad, c}

\* The holder of a position, and nobody else, settles it.
MaySettle(old, new, c) == new = old \/ (old = c /\ new = Done)

\* In each of these steps every position goes from its old to its new holder.
Assign(c) ==
    /\ epoch' = epoch
    /\ \E new \in {holder'} :
         /\ new \in [Position -> Holder]
         /\ \A p \in Position : MayAssign(holder[p], new[p], c)

Settle(c) ==
    /\ epoch' = epoch
    /\ \E new \in {holder'} :
         /\ new \in [Position -> Holder]
         /\ \A p \in Position : MaySettle(holder[p], new[p], c)

\* The next epoch starts with everything free, except what the acquire that
\* started it was given (Free: no acquire did).
NewEpoch(c) ==
    /\ epoch' = epoch + 1
    /\ holder' \in [Position -> {Free, c}]

Next ==
    \/ \E c \in Cluster : Assign(c) \/ Settle(c)
    \/ \E c \in Cluster \cup {Free} : NewEpoch(c)

Spec == Init /\ [][Next]_vars

=============================================================================
