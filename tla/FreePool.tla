------------------------------ MODULE FreePool ------------------------------
(***************************************************************************)
(* The free pool of the lease table (class IntervalSet of table.py) as a   *)
(* set of positions, and what its allocator take_near takes from it.       *)
(* IntervalSet.tla models the sorted lists and the loop of the class, and  *)
(* its runs show that they compute what is defined here.                   *)
(***************************************************************************)
EXTENDS Integers, FiniteSets, Functions

CONSTANTS
    NumBlocks,      \* num_blocks: positions in an epoch
    MaxSpans        \* max_spans of an acquire request

ASSUME PoolAssumption == NumBlocks \in Nat \ {0} /\ MaxSpans \in Nat \ {0}

Blocks == 0 .. NumBlocks - 1

Larger(a, b)  == IF a >= b THEN a ELSE b
Smaller(a, b) == IF a <= b THEN a ELSE b

\* The total of the first n values of f.
SumTo(f, n) == SumFunctionOnSet(f, 1 .. n)

\* The maximal intervals <<start, end>> of the pool, end exclusive.
Runs(free) ==
    {r \in (0 .. NumBlocks) \X (0 .. NumBlocks) :
        /\ r[1] < r[2]
        /\ r[1] .. r[2] - 1 \subseteq free
        /\ r[1] - 1 \notin free /\ r[2] \notin free}

\* Intervals are visited from the cursor on, wrapping at the end.
NearKey(r, cursor) == IF r[2] > cursor THEN r[1] ELSE r[1] + NumBlocks

\* Only the first span may start inside its interval, at the cursor.
TakeFrom(runs, i, cursor) ==
    IF i = 1 /\ runs[1][1] < cursor /\ cursor < runs[1][2] THEN cursor ELSE runs[i][1]

SpanSeq(runs, n, last, cursor) ==
    [i \in 1 .. n |-> <<TakeFrom(runs, i, cursor), IF i = n THEN last ELSE runs[i][2]>>]

\* take_near: the spans taken from the pool, at most MaxSpans of them and at
\* most `want' positions.  Every span but the last runs to the end of its
\* interval.  The loop also stops once it has visited as many intervals as
\* the pool still has, and a wholly consumed interval shortens the pool.
TakeNear(free, cursor, want) ==
    LET k == Cardinality(Runs(free))
        Order == {runs \in [1 .. k -> Runs(free)] :
                     \A i, j \in 1 .. k : i < j => NearKey(runs[i], cursor) < NearKey(runs[j], cursor)}
        Before(runs, i) == SumTo([j \in 1 .. k |-> runs[j][2] - TakeFrom(runs, j, cursor)], i)
        Left(runs, i) == k - i + (IF TakeFrom(runs, 1, cursor) > runs[1][1] THEN 1 ELSE 0)
        Goes(runs, i) == Before(runs, i) < want /\ i < MaxSpans /\ i < Left(runs, i)
        Stop(runs, n, last) ==
            /\ TakeFrom(runs, n, cursor) < last /\ last <= runs[n][2]
            /\ last = Smaller(runs[n][2], TakeFrom(runs, n, cursor) + want - Before(runs, n - 1))
            /\ \A i \in 1 .. n - 1 : Goes(runs, i)
            /\ ~Goes(runs, n)
    IN  {SpanSeq(p[1], p[2], p[3], cursor) :
            p \in {q \in Order \X (1 .. k) \X (1 .. NumBlocks) : Stop(q[1], q[2], q[3])}}

Covered(spans) == UNION {spans[i][1] .. spans[i][2] - 1 : i \in DOMAIN spans}

=============================================================================
