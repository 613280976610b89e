----------------------------- MODULE IntervalSet -----------------------------
(***************************************************************************)
(* class IntervalSet of src/pww/darl/table.py: the free pool as a sorted   *)
(* list of merged half-open intervals, with the loops that insert, take    *)
(* and remove.  The variable `pool' is the pair of lists _starts, _ends as *)
(* one sequence of pairs; Python index i is TLA+ index i + 1.              *)
(***************************************************************************)
EXTENDS FreePool, SequencesExt

VARIABLE pool

DoubleFree == <<"DoubleFreeError">>
NotFree    == <<"ValueError">>

\* bisect_left(_starts, x) + 1: the first interval that starts at x or later.
BisectLeft(p, x) == 1 + Cardinality({i \in DOMAIN p : p[i][1] < x})

Length(interval) == interval[2] - interval[1]

-----------------------------------------------------------------------------
(* add                                                                     *)

\* Merge into the interval before, then absorb every following one that
\* touches; the length lost in the merge reveals an overlap.
Add(p, start, end) ==
    LET i == BisectLeft(p, start)
        left == IF i > 1 /\ p[i - 1][2] >= start THEN i - 1 ELSE i
        lo == IF left < i THEN Smaller(start, p[left][1]) ELSE start
        reach == IF left < i THEN Larger(end, p[left][2]) ELSE end
        Absorb[n \in left .. Len(p) + 1] ==   \* the end once intervals left .. n-1 are absorbed
            IF n = left THEN reach
            ELSE IF p[n - 1][1] <= Absorb[n - 1] THEN Larger(Absorb[n - 1], p[n - 1][2])
                 ELSE Absorb[n - 1]
        hi == Absorb[Len(p) + 1]
        gone == {n \in DOMAIN p : (n = left /\ left < i) \/ (n >= left /\ p[n][1] <= hi)}
        removed == SumFunctionOnSet([n \in DOMAIN p |-> Length(p[n])], gone)
        kept == SelectSeq(p, LAMBDA r : \A n \in gone : r # p[n])
    IN  IF end <= start THEN p
        ELSE IF hi - lo < removed + (end - start) THEN DoubleFree
        ELSE InsertAt(kept, left, <<lo, hi>>)

-----------------------------------------------------------------------------
(* remove, _remove_at                                                      *)

\* (A name ending in _ is a slip; LeaseTable.tla explains.)
CutAt_(p, i, start, end) ==
    SubSeq(p, 1, i - 1) \o << <<p[i][1], start>>, <<end, p[i][2]>> >> \o SubSeq(p, i + 1, Len(p))

CutAt(p, i, start, end) ==
    LET pieces == (IF start > p[i][1] THEN << <<p[i][1], start>> >> ELSE <<>>)
                  \o (IF end < p[i][2] THEN << <<end, p[i][2]>> >> ELSE <<>>)
    IN  SubSeq(p, 1, i - 1) \o pieces \o SubSeq(p, i + 1, Len(p))

TakeRange(p, start, end) ==
    LET i == Cardinality({n \in DOMAIN p : p[n][1] <= start})   \* bisect_right
    IN  IF i = 0 \/ p[i][2] < end THEN NotFree ELSE CutAt(p, i, start, end)

-----------------------------------------------------------------------------
(* take_near                                                               *)

\* Where the loop starts: the interval around the cursor, or the next one.
FirstIndex_(p, cursor) == BisectLeft(p, cursor)
FirstIndex(p, cursor) ==
    LET i == BisectLeft(p, cursor)
    IN  IF i > 1 /\ p[i - 1][2] > cursor THEN i - 1 ELSE i

\* The state of the loop: the pool, the spans taken, what is still wanted,
\* where it looks next and how many intervals it has visited.
LoopStart(p, cursor, blocks) ==
    [pool |-> p, spans |-> <<>>, remaining |-> blocks, visited |-> 0,
     index |-> FirstIndex(p, cursor)]

LoopGuard(s) ==
    s.remaining > 0 /\ Len(s.spans) < MaxSpans /\ s.visited < Len(s.pool)

LoopBody(s, cursor) ==
    LET i == IF s.index > Len(s.pool) THEN 1 ELSE s.index
        lo == s.pool[i][1]
        hi == s.pool[i][2]
        from == IF lo <= cursor /\ cursor < hi /\ s.spans = <<>> THEN Larger(lo, cursor) ELSE lo
        to == Smaller(hi, from + s.remaining)
    IN  [pool |-> CutAt(s.pool, i, from, to),
         spans |-> Append(s.spans, <<from, to>>),
         remaining |-> s.remaining - (to - from),
         visited |-> s.visited + 1,
         index |-> CASE from > lo /\ to < hi -> i + 2
                     [] from = lo /\ to = hi -> i
                     [] OTHER -> i + 1]

RECURSIVE Loop(_, _)
Loop(s, cursor) == IF LoopGuard(s) THEN Loop(LoopBody(s, cursor), cursor) ELSE s

Taken(p, cursor, blocks) == Loop(LoopStart(p, cursor, blocks), cursor)

-----------------------------------------------------------------------------

Init == pool = << <<0, NumBlocks>> >>

AddRange(start, end) ==
    /\ Add(pool, start, end) # DoubleFree
    /\ pool' = Add(pool, start, end)

Take(cursor, blocks) ==
    /\ pool # <<>>
    /\ pool' = Taken(pool, cursor, blocks).pool

RemoveExactRange(start, end) ==
    /\ TakeRange(pool, start, end) # NotFree
    /\ pool' = TakeRange(pool, start, end)

Ranges == {r \in Blocks \X (1 .. NumBlocks) : r[1] < r[2]}

Next ==
    \/ \E r \in Ranges : AddRange(r[1], r[2])
    \/ \E cursor \in Blocks, blocks \in 1 .. NumBlocks : Take(cursor, blocks)
    \/ \E r \in Ranges : RemoveExactRange(r[1], r[2])

Spec == Init /\ [][Next]_pool

-----------------------------------------------------------------------------
(* Properties                                                              *)

\* The positions an interval list stands for.
Positions(p) == UNION {p[i][1] .. p[i][2] - 1 : i \in DOMAIN p}

\* Sorted, merged and without empty intervals: bisect needs the first, and
\* `fragments' the rest.
Canonical ==
    /\ \A i \in DOMAIN pool : pool[i][1] < pool[i][2]
    /\ \A i \in 1 .. Len(pool) - 1 : pool[i][2] < pool[i + 1][1]

\* Whatever order ranges are freed and taken in, the list stays canonical and
\* the loops compute what LeaseTable and FreePool say of a set of positions.
\* add() frees exactly its range, and raises DoubleFreeError exactly when some
\* position of it was free already; remove(), which journal replay depends on,
\* takes exactly a free range and refuses any other; take_near takes the spans
\* that TakeNear defines, and nothing else.
PoolExact ==
    /\ Canonical
    /\ \A r \in Ranges :
         LET range == r[1] .. r[2] - 1
             free  == Positions(pool)
         IN  /\ IF range \cap free # {}
                THEN Add(pool, r[1], r[2]) = DoubleFree
                ELSE /\ Add(pool, r[1], r[2]) # DoubleFree
                     /\ Positions(Add(pool, r[1], r[2])) = free \cup range
             /\ IF range \subseteq free
                THEN Positions(TakeRange(pool, r[1], r[2])) = free \ range
                ELSE TakeRange(pool, r[1], r[2]) = NotFree
    /\ \A cursor \in Blocks, blocks \in 1 .. NumBlocks :
         LET s == Taken(pool, cursor, blocks)
         IN  pool # <<>> =>
               /\ TakeNear(Positions(pool), cursor, blocks) = {s.spans}
               /\ Positions(s.pool) = Positions(pool) \ Covered(s.spans)

=============================================================================
