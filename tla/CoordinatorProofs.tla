------------------------- MODULE CoordinatorProofs -------------------------
(***************************************************************************)
(* Theorems about Coordinator: whatever a crash does to the journal, the   *)
(* table that a restart rebuilds, line by line, is one that verify()       *)
(* accepts, and so is every snapshot; and a journal that tells the whole   *)
(* story gives back every commit that was acknowledged, no other commit,   *)
(* and every lease.                                                        *)
(***************************************************************************)
EXTENDS Coordinator, LeaseTableProofs, SequenceTheorems

-----------------------------------------------------------------------------
(* The journal's lines                                                     *)

LeaseId == Nat \X Nat \X Nat

Line ==
    [op : {"register"}, cluster : Cluster, incarnation : Incarnation \cup {NoIncarnation}]
    \cup [op : {"acquire"}, cluster : Cluster, leases : Seq(Lease) \ {<<>>}]
    \cup [op : {"commit"}, cluster : Cluster, lease : LeaseId, through : Nat]
    \cup [op : {"release"}, cluster : Cluster, lease : LeaseId \cup {NoLease}]
    \cup [op : {"reap", "advance_epoch", "torn", "garbled"}]

\* A table that verify() accepts, in the form that every step keeps.
Sound(t) == Inv(t) /\ CreditIn(t)

\* The inductive invariant.
Recoverable ==
    /\ Sound(table)
    /\ snapshot = NoSnapshot \/ Sound(snapshot)
    /\ journal \in Seq(Line) /\ todo \in Seq(Line)
    /\ durable \in 0 .. Len(journal)
    /\ phase \in {"up", "truncating", "down", "replaying"}
    /\ todo # <<>> => phase = "replaying"

-----------------------------------------------------------------------------
(* Lemmas on the operators of a restart                                    *)

\* Forgetting that a deadline has passed moves nothing.
LEMMA UndatedLease ==
  ASSUME NEW l \in Lease, l.progress_end <= l.end
  PROVE  /\ [l EXCEPT !.overdue = FALSE] \in Lease
         /\ Refreshed(l, [l EXCEPT !.overdue = FALSE])
  <1> DEFINE m == [l EXCEPT !.overdue = FALSE]
  <1>1. /\ m \in Lease
        /\ m.id = l.id /\ m.epoch = l.epoch /\ m.start = l.start /\ m.end = l.end
        /\ m.committed_end = l.committed_end /\ m.progress_end = l.progress_end
    BY DEF Lease
  <1>2. l.progress_end \in Nat
    BY DEF Lease
  <1> HIDE DEF m
  <1>3. Refreshed(l, m)
    BY <1>1, <1>2 DEF Refreshed
  <1> QED BY <1>1, <1>3 DEF m

\* A snapshot forgets which deadlines have passed and nothing else.
LEMMA UndatedSound ==
  ASSUME NEW t, Sound(t)
  PROVE  Sound(Undated(t))
  <1> DEFINE D(l) == [l EXCEPT !.overdue = FALSE]
             L == {D(l) : l \in t.leases}
             r == [t EXCEPT !.leases = L]
  <1>1. /\ Inv(t) /\ CreditIn(t) /\ t \in Table /\ Ordered(t) /\ DisjointIn(t)
    BY InvCoverage DEF Sound
  <1>2. \A l \in t.leases : l \in Lease /\ l.progress_end <= l.end
    BY <1>1 DEF Table, Ordered
  <1>3. ASSUME NEW l \in t.leases
        PROVE  D(l) \in Lease /\ Refreshed(l, D(l)) /\ D(l).id = l.id
    <2>1. l \in Lease /\ l.progress_end <= l.end
      BY <1>2
    <2>2. D(l) \in Lease /\ Refreshed(l, D(l))
      BY <2>1, UndatedLease
    <2> QED BY <2>2 DEF Refreshed
  <1>4. Undated(t) = r
    BY DEF Undated
  <1> HIDE DEF D
  <1>5. /\ L \in SUBSET Lease
        /\ \A m \in L : \E l \in t.leases : Refreshed(l, m)
        /\ \A l \in t.leases : \E m \in L : Refreshed(l, m)
    BY <1>3
  <1>6. \A m, n \in L : m.id = n.id => m = n
    BY <1>1, <1>3 DEF DisjointIn
  <1> HIDE DEF L
  <1>7. Inv(r)
    BY <1>1, <1>5, <1>6, RefreshInv
  <1>8. r \in Table /\ r.epoch = t.epoch /\ r.committed = t.committed /\ r.clusters = t.clusters
    BY <1>1, <1>7, InvCoverage DEF Table
  <1> HIDE DEF r
  <1>9. CreditIn(r)
    BY <1>1, <1>8, SameCredit
  <1> QED BY <1>4, <1>7, <1>9 DEF Sound

\* The pool recomputed from the states is the pool there was.
LEMMA RestoredSame ==
  ASSUME NEW s, Sound(s)
  PROVE  Restored(s) = s
  <1>1. s \in Table /\ CoverageIn(s)
    BY InvCoverage DEF Sound
  <1>2. {b \in Blocks : s.state[b] = UNASSIGNED} = s.free
    BY <1>1 DEF Table, CoverageIn
  <1> QED BY <1>1, <1>2 DEF Restored, Table

\* A replayed lease takes free positions only.
LEMMA InstalledSound ==
  ASSUME NEW t, Sound(t), NEW lease \in Lease, lease.epoch = t.epoch,
         \A m \in t.leases : m.id # lease.id,
         NEW lo \in 0 .. NumBlocks, NEW hi \in 0 .. NumBlocks, Replayable(t, lease, lo, hi)
  PROVE  Sound(Installed(t, lease, lo, hi))
  <1> DEFINE span == lo .. hi - 1
             progress == Smaller(Larger(lease.progress_end, lo), hi)
             l == [lease EXCEPT !.start = lo, !.end = hi, !.committed_end = lo,
                                !.progress_end = progress, !.overdue = FALSE]
             S == Fill(t.state, span, LEASED)
             L == t.leases \cup {l}
             n == Larger(t.seq, lease.id[3])
             r == Installed(t, lease, lo, hi)
  <1>1. /\ t \in Table /\ Issued(t) /\ Ordered(t) /\ DisjointIn(t)
        /\ CoverageIn(t) /\ CountersIn(t) /\ QuarantineIn(t) /\ CreditIn(t)
    BY InvCoverage DEF Sound
  <1>2. /\ lo \in Nat /\ hi \in Nat /\ lo < hi /\ hi <= NumBlocks /\ NumBlocks \in Nat
        /\ \A b \in span : t.state[b] = UNASSIGNED
    BY PoolAssumption DEF Replayable
  <1>3. progress \in Nat /\ lo <= progress /\ progress <= hi
    BY <1>2 DEF Lease, Larger, Smaller
  <1>4. span \subseteq Blocks
    BY <1>2 DEF Blocks
  <1> HIDE DEF progress
  <1>5. /\ l \in Lease /\ l.id = lease.id /\ l.epoch = t.epoch /\ l.start = lo /\ l.end = hi
        /\ l.committed_end = lo /\ l.progress_end = progress
    BY <1>2, <1>3 DEF Lease
  <1>6. Outstanding(l) = span
    BY <1>5 DEF Outstanding
  <1>7. t.seq \in Nat /\ lease.id[3] \in Nat /\ n \in Nat /\ t.seq <= n /\ lease.id[3] <= n
    BY <1>1 DEF Table, Lease, Larger
  <1> HIDE DEF l, span, n
  <1>8. S \in [Blocks -> BlockState] /\ L \in SUBSET Lease /\ t.free \ span \in SUBSET Blocks
    BY <1>1, <1>5 DEF Fill, Table, BlockState
  <1>9. r = [t EXCEPT !.free = t.free \ span, !.state = S, !.leases = L, !.seq = n]
    BY <1>1 DEF Installed, Table, l, progress, span, n
  <1> HIDE DEF S, L, r
  <1>10. /\ r \in Table
         /\ r.epoch = t.epoch /\ r.state = S /\ r.attempts = t.attempts /\ r.free = t.free \ span
         /\ r.committed = t.committed /\ r.quarantined = t.quarantined
         /\ r.leases = L /\ r.seq = n /\ r.clusters = t.clusters
    BY <1>1, <1>7, <1>8, <1>9 DEF Table
  <1>11. \A b \in Blocks : r.state[b] = IF b \in span THEN LEASED ELSE t.state[b]
    BY <1>10 DEF S, Fill
  <1>12. Issued(r) /\ Ordered(r)
    <2>1. \A m \in t.leases : m.id[3] \in Nat /\ m.id[3] <= t.seq
      BY <1>1 DEF Issued, Table, Lease
    <2>2. Issued(r)
      BY <1>5, <1>7, <1>10, <2>1 DEF Issued, L
    <2>3. Ordered(r)
      BY <1>1, <1>2, <1>3, <1>5, <1>10 DEF Ordered, L
    <2> QED BY <2>2, <2>3
  <1>13. \A m \in t.leases : Outstanding(m) \cap span = {}
    <2>1. \A m \in t.leases : Outstanding(m) \subseteq Blocks
      BY <1>1, OutstandingInBlocks
    <2> QED BY <1>1, <1>2, <2>1 DEF CoverageIn, UNASSIGNED, LEASED
  <1>14. DisjointIn(r)
    BY <1>1, <1>5, <1>6, <1>10, <1>13 DEF DisjointIn, L
  <1>15. CoverageBut(r, {})
    <2> SUFFICES ASSUME NEW b \in Blocks
                 PROVE  /\ r.state[b] = LEASED <=> \E m \in r.leases : b \in Outstanding(m)
                        /\ r.state[b] = UNASSIGNED <=> b \in r.free
      BY DEF CoverageBut
    <2>1. CASE b \in span
      BY <2>1, <1>6, <1>10, <1>11 DEF L, UNASSIGNED, LEASED
    <2>2. CASE b \notin span
      BY <2>2, <1>1, <1>6, <1>10, <1>11 DEF L, CoverageIn
    <2> QED BY <2>1, <2>2
  <1>16. CountersIn(r) /\ QuarantineIn(r)
    <2>1. /\ InState(r, COMMITTED) = InState(t, COMMITTED)
          /\ InState(r, QUARANTINED) = InState(t, QUARANTINED)
      BY <1>2, <1>11 DEF InState, UNASSIGNED, LEASED, COMMITTED, QUARANTINED
    <2>2. \A b \in Blocks : r.state[b] = QUARANTINED <=> t.state[b] = QUARANTINED
      BY <1>2, <1>11 DEF UNASSIGNED, LEASED, QUARANTINED
    <2> QED BY <1>1, <1>10, <2>1, <2>2 DEF CountersIn, QuarantineIn
  <1>17. Inv(r)
    BY <1>10, <1>12, <1>14, <1>15, <1>16 DEF Inv, InvBut
  <1>18. CreditIn(r)
    BY <1>1, <1>10, SameCredit
  <1> QED BY <1>17, <1>18 DEF Sound, r

\* replay_lease, whether it skips the lease or takes a part of it.
LEMMA ReplayLeaseSound ==
  ASSUME NEW t, Sound(t), NEW lease \in Lease, NEW r \in ReplayLease(t, lease)
  PROVE  Sound(r)
  <1> DEFINE fits == lease.epoch = t.epoch /\ \A m \in t.leases : m.id # lease.id
             runs == {q \in (0 .. NumBlocks) \X (0 .. NumBlocks) :
                         fits /\ Replayable(t, lease, q[1], q[2])}
  <1>1. r \in (IF runs = {} THEN {t} ELSE {Installed(t, lease, q[1], q[2]) : q \in runs})
    BY DEF ReplayLease
  <1>2. CASE r = t
    BY <1>2
  <1>3. CASE \E q \in runs : r = Installed(t, lease, q[1], q[2])
    <2>1. PICK q \in runs : r = Installed(t, lease, q[1], q[2])
      BY <1>3
    <2>2. /\ q[1] \in 0 .. NumBlocks /\ q[2] \in 0 .. NumBlocks
          /\ fits /\ Replayable(t, lease, q[1], q[2])
      OBVIOUS
    <2> QED BY <2>1, <2>2, InstalledSound
  <1> QED BY <1>1, <1>2, <1>3

-----------------------------------------------------------------------------
(* Lemmas on the journal                                                   *)

\* What is appended, or glued to a torn line, is a line.
LEMMA LoggedLines ==
  ASSUME journal \in Seq(Line), NEW entry \in Line
  PROVE  Logged(entry) \in Seq(Line) /\ Len(Logged(entry)) >= Len(journal)
  <1>1. Garbled \in Line
    BY DEF Line, Garbled
  <1>2. CASE journal # <<>> /\ journal[Len(journal)] = Torn
    <2>1. Logged(entry) = [journal EXCEPT ![Len(journal)] = Garbled]
      BY <1>2 DEF Logged
    <2>2. Len(journal) \in 1 .. Len(journal)
      BY <1>2, EmptySeq, LenProperties
    <2> QED BY <1>1, <2>1, <2>2, ExceptSeq
  <1>3. CASE ~(journal # <<>> /\ journal[Len(journal)] = Torn)
    <2>1. Logged(entry) = Append(journal, entry)
      BY <1>3 DEF Logged
    <2> QED BY <2>1
  <1> QED BY <1>2, <1>3

\* What every journalled or unjournalled step does to the files.
LEMMA WriteLines ==
  ASSUME Recoverable, NEW entry \in Line, Write(entry),
         durable' = durable \/ durable' = Len(journal')
  PROVE  /\ snapshot' = snapshot /\ phase' = "up" /\ todo' = todo /\ todo = <<>>
         /\ journal' \in Seq(Line) /\ durable' \in 0 .. Len(journal')
  <1>1. journal' = Logged(entry) /\ phase = "up" /\ snapshot' = snapshot
        /\ phase' = phase /\ todo' = todo
    BY DEF Write
  <1>2. Logged(entry) \in Seq(Line) /\ Len(Logged(entry)) >= Len(journal)
    BY LoggedLines DEF Recoverable
  <1>3. durable \in 0 .. Len(journal) /\ Len(journal) \in Nat /\ todo = <<>>
    BY <1>1 DEF Recoverable
  <1>4. journal' \in Seq(Line) /\ Len(journal') >= Len(journal) /\ Len(journal') \in Nat
    BY <1>1, <1>2
  <1> QED BY <1>1, <1>3, <1>4

\* A step that writes a line keeps the invariant if it keeps the table sound.
LEMMA WriteKeeps ==
  ASSUME Recoverable, Sound(table'), NEW entry \in Line, Log(entry) \/ LogSynced(entry)
  PROVE  Recoverable'
  <1>1. Write(entry) /\ (durable' = durable \/ durable' = Len(journal'))
    BY DEF Log, LogSynced
  <1>2. /\ snapshot' = snapshot /\ phase' = "up" /\ todo' = todo /\ todo = <<>>
        /\ journal' \in Seq(Line) /\ durable' \in 0 .. Len(journal')
    BY <1>1, WriteLines
  <1> QED BY <1>2 DEF Recoverable

\* So does one that writes none.
LEMMA UnloggedKeeps ==
  ASSUME Recoverable, Sound(table'), Unlogged
  PROVE  Recoverable'
  BY DEF Recoverable, Unlogged, disk

\* Every method of the table keeps it sound.
LEMMA TableStepSound ==
  ASSUME Sound(table), [Next]_table
  PROVE  Sound(table')
  BY StepInv, StepCredit DEF Sound

\* A reclaim keeps a table sound.
LEMMA ReclaimedSound ==
  ASSUME NEW t, Sound(t), NEW gone \in SUBSET t.leases, NEW count \in BOOLEAN
  PROVE  Sound(Reclaimed(t, gone, count))
  BY ReclaimedInv, ReclaimedCredit DEF Sound

\* Starting the next epoch, or staying in the last one.
LEMMA AdvancedSound ==
  ASSUME NEW t, Sound(t)
  PROVE  Sound(Advanced(t))
  BY AdvancedInv, AdvancedCredit DEF Sound

\* The table of a first start.
LEMMA NewTableSound == Sound(NewTable)
  BY NewTableInv, NewTableCredit DEF Sound

\* The leases of a grant can be told from the others by their ids.
LEMMA GrantsAreLeases ==
  ASSUME Inv(table), NEW c \in Cluster, AcquireFree(c) \/ AcquireStolen(c)
  PROVE  Grants \in Seq(Lease) \ {<<>>}
  <1>1. ASSUME NEW t \in Table, NEW spans, WorkVector(spans), t.seq = table.seq,
               table' = Granted(t, c, spans), Inv(table')
        PROVE  Grants \in Seq(Lease) \ {<<>>}
    <2> DEFINE n == Len(spans)
               N(i) == [id |-> <<t.epoch, spans[i][1], t.seq + i>>,
                        cluster |-> c, epoch |-> t.epoch,
                        start |-> spans[i][1], end |-> spans[i][2],
                        committed_end |-> spans[i][1], progress_end |-> spans[i][1],
                        overdue |-> FALSE]
    <2>1. /\ table'.seq = t.seq + n /\ table'.leases = t.leases \cup {N(i) : i \in 1 .. n}
          /\ t.seq \in Nat /\ n \in Nat \ {0}
      BY <1>1 DEF Granted, Table, WorkVector
    <2>2. \A i : N(i).id[3] = t.seq + i
      OBVIOUS
    <2> HIDE DEF N, n
    <2>3. table'.seq - table.seq = n
      BY <1>1, <2>1
    <2>4. ASSUME NEW i \in 1 .. n
          PROVE  (CHOOSE l \in table'.leases : l.id[3] = table.seq + i) \in Lease
      <3>1. \E l \in table'.leases : l.id[3] = table.seq + i
        BY <1>1, <2>1, <2>2
      <3>2. (CHOOSE l \in table'.leases : l.id[3] = table.seq + i) \in table'.leases
        BY <3>1, Zenon
      <3> QED BY <1>1, <3>2, InvCoverage DEF Table
    <2>5. Grants = [i \in 1 .. n |-> CHOOSE l \in table'.leases : l.id[3] = table.seq + i]
      BY <2>3 DEF Grants
    <2>6. Grants \in [1 .. n -> Lease]
      BY <2>4, <2>5
    <2>7. Grants \in Seq(Lease) /\ Len(Grants) = n
      BY <2>1, <2>6, SeqDef, LenProperties
    <2> QED BY <2>1, <2>7
  <1>2. Inv(table') /\ AcquireBase(c).seq = table.seq
    BY StepInv, AcquireBaseFewer DEF Next
  <1>3. CASE AcquireFree(c)
    <2> DEFINE t == AcquireBase(c)
    <2>1. PICK spans :
            /\ t \in Table /\ WorkVector(spans)
            /\ InvBut([t EXCEPT !.free = @ \ Covered(spans)], Covered(spans))
            /\ table' = Granted([t EXCEPT !.free = @ \ Covered(spans)], c, spans)
      BY <1>3, AcquireFreeFacts
    <2> HIDE DEF t
    <2> DEFINE taken == [t EXCEPT !.free = @ \ Covered(spans)]
    <2>2. taken \in Table /\ taken.seq = t.seq /\ table' = Granted(taken, c, spans)
      BY <2>1 DEF Table, InvBut
    <2> HIDE DEF taken
    <2> QED BY <1>1, <1>2, <2>1, <2>2 DEF t
  <1>4. CASE AcquireStolen(c)
    <2> DEFINE t == AcquireBase(c)
    <2>1. PICK victims, cuts :
            /\ t \in Table /\ WorkVector(StolenSpans(victims, cuts))
            /\ InvBut(Robbed(t, victims, cuts), Covered(StolenSpans(victims, cuts)))
            /\ table' = Granted(Robbed(t, victims, cuts), c, StolenSpans(victims, cuts))
      BY <1>4, AcquireStolenFacts
    <2> HIDE DEF t
    <2> DEFINE robbed == Robbed(t, victims, cuts)
    <2>2. /\ robbed \in Table /\ robbed.seq = t.seq
          /\ table' = Granted(robbed, c, StolenSpans(victims, cuts))
      BY <2>1 DEF Robbed, Table, InvBut
    <2> HIDE DEF robbed
    <2> QED BY <1>1, <1>2, <2>1, <2>2 DEF t
  <1> QED BY <1>3, <1>4

-----------------------------------------------------------------------------
(* The invariant holds in every state                                      *)

\* An RPC that reaches the table, the tick, and the passing of time.
LEMMA ServeKeeps ==
  ASSUME Recoverable, CoordinatorNext, phase = "up", phase' = "up"
  PROVE  Recoverable'
  <1>0. Sound(table) /\ Inv(table) /\ table \in Table
    BY InvCoverage DEF Recoverable, Sound
  <1>1. ASSUME NEW c \in Cluster, NEW inc \in Incarnation \cup {NoIncarnation}, ServeRegister(c, inc)
        PROVE  Recoverable'
    <2>1. Sound(table') /\ table' \in Table
      BY <1>0, <1>1, TableStepSound, InvCoverage DEF ServeRegister, Next, Sound
    <2> DEFINE i == table'.clusters[c].incarnation
    <2>2. i \in Incarnation \cup {NoIncarnation}
      BY <2>1 DEF Table, ClusterRecord
    <2> HIDE DEF i
    <2>3. [op |-> "register", cluster |-> c, incarnation |-> i] \in Line
      BY <2>2 DEF Line
    <2> QED BY <1>1, <2>1, <2>3, WriteKeeps DEF ServeRegister, i
  <1>2. ASSUME NEW c \in Cluster, ServeAcquire(c)
        PROVE  Recoverable'
    <2>1. Sound(table')
      BY <1>0, <1>2, TableStepSound DEF ServeAcquire, Next
    <2> DEFINE g == Grants
    <2>2. g \in Seq(Lease) \ {<<>>}
      BY <1>0, <1>2, GrantsAreLeases DEF ServeAcquire
    <2> HIDE DEF g
    <2>3. [op |-> "acquire", cluster |-> c, leases |-> g] \in Line
      BY <2>2 DEF Line
    <2> QED BY <1>2, <2>1, <2>3, WriteKeeps DEF ServeAcquire, g
  <1>3. ASSUME NEW c \in Cluster, ServeAcquireNothing(c)
        PROVE  Recoverable'
    <2>1. Sound(table')
      BY <1>0, <1>3, TableStepSound DEF ServeAcquireNothing, Next
    <2> QED BY <1>3, <2>1, UnloggedKeeps DEF ServeAcquireNothing
  <1>4. ASSUME NEW c \in Cluster, NEW renewed \in SUBSET Holding(table, c),
               NEW progress \in [{l.id : l \in renewed} -> Watermarks],
               ServeHeartbeat(c, progress)
        PROVE  Recoverable'
    <2>1. Next
      BY <1>4 DEF ServeHeartbeat, Next
    <2>2. Sound(table')
      BY <1>0, <2>1, TableStepSound
    <2> QED BY <1>4, <2>2, UnloggedKeeps DEF ServeHeartbeat
  <1>5. ASSUME NEW l \in table.leases, NEW w \in Watermarks, ServeCommit(l, w)
        PROVE  Recoverable'
    <2>1. Sound(table')
      BY <1>0, <1>5, TableStepSound DEF ServeCommit, Next
    <2>2. l.cluster \in Cluster /\ l.id \in LeaseId /\ w \in Nat
      BY <1>0, PoolAssumption DEF Table, Lease, LeaseId, Watermarks
    <2>3. [op |-> "commit", cluster |-> l.cluster, lease |-> l.id, through |-> w] \in Line
      BY <2>2 DEF Line
    <2> QED BY <1>5, <2>1, <2>3, WriteKeeps DEF ServeCommit
  <1>6. ASSUME NEW l \in table.leases, NEW count \in BOOLEAN, ServeReleaseOne(l, count)
        PROVE  Recoverable'
    <2>1. Sound(table')
      BY <1>0, <1>6, TableStepSound DEF ServeReleaseOne, Next
    <2>2. l.cluster \in Cluster /\ l.id \in LeaseId
      BY <1>0 DEF Table, Lease, LeaseId
    <2>3. [op |-> "release", cluster |-> l.cluster, lease |-> l.id] \in Line
      BY <2>2 DEF Line
    <2> QED BY <1>6, <2>1, <2>3, WriteKeeps DEF ServeReleaseOne
  <1>7. ASSUME NEW l \in Remembered, ServeReleaseGone(l)
        PROVE  Recoverable'
    <2>1. l \in Lease
      <3>1. snapshot # NoSnapshot => snapshot.leases \subseteq Lease
        BY InvCoverage DEF Recoverable, Sound, Table
      <3>2. ASSUME NEW i \in DOMAIN journal, journal[i].op = "acquire",
                   NEW j \in DOMAIN journal[i].leases
            PROVE  journal[i].leases[j] \in Lease
        <4>1. journal[i] \in Line
          BY LenProperties DEF Recoverable
        <4>2. journal[i].leases \in Seq(Lease)
          BY <3>2, <4>1 DEF Line
        <4> QED BY <4>2
      <3> QED BY <3>1, <3>2 DEF Remembered
    <2>2. l.cluster \in Cluster /\ l.id \in LeaseId
      BY <2>1 DEF Lease, LeaseId
    <2>3. [op |-> "release", cluster |-> l.cluster, lease |-> l.id] \in Line
      BY <2>2 DEF Line
    <2> QED BY <1>0, <1>7, <2>3, WriteKeeps DEF ServeReleaseGone
  <1>8. ASSUME NEW c \in Cluster, NEW inc, NEW count \in BOOLEAN, ServeReleaseAll(c, inc, count)
        PROVE  Recoverable'
    <2> DEFINE gone == IF MayReleaseAll(table, c, inc) THEN Holding(table, c) ELSE {}
    <2>1. gone \in SUBSET table.leases
      BY DEF Holding
    <2>2. table' = Reclaimed(table, gone, count)
      BY <1>8 DEF ServeReleaseAll
    <2> HIDE DEF gone
    <2>3. Sound(table')
      BY <1>0, <2>1, <2>2, ReclaimedSound
    <2>4. [op |-> "release", cluster |-> c, lease |-> NoLease] \in Line
      BY DEF Line
    <2> QED BY <1>8, <2>3, <2>4, WriteKeeps DEF ServeReleaseAll
  <1>9. CASE Tick
    <2>1. Sound(table')
      BY <1>0, <1>9, TableStepSound DEF Tick, Next
    <2>2. [op |-> "reap"] \in Line
      BY DEF Line
    <2> QED BY <1>9, <2>1, <2>2, WriteKeeps DEF Tick
  <1>10. CASE Status
    <2>1. Sound(table')
      BY <1>0, <1>10, TableStepSound DEF Status, Next
    <2> QED BY <1>10, <2>1, UnloggedKeeps DEF Status
  <1>11. CASE ServeAdvance
    <2>1. Sound(table')
      BY <1>0, <1>11, AdvancedSound DEF ServeAdvance
    <2>2. [op |-> "advance_epoch"] \in Line
      BY DEF Line
    <2> QED BY <1>11, <2>1, <2>2, WriteKeeps DEF ServeAdvance
  <1>12. CASE TimePasses
    <2>1. Next
      BY <1>12 DEF TimePasses, Next
    <2>2. Sound(table')
      BY <1>0, <2>1, TableStepSound
    <2> QED BY <1>12, <2>2, UnloggedKeeps DEF TimePasses
  <1>13. ~SaveSnapshot /\ ~Truncate /\ ~Crash /\ ~Load
    BY DEF SaveSnapshot, Truncate, Crash, Load
  <1>14. \A op : ~Replaying(op)
    BY DEF Replaying
  <1>15. ~(ReplayRegister \/ ReplayAcquire \/ ReplayCommit \/ ReplayRelease
           \/ ReplayReap \/ ReplayAdvance \/ ReplayStop \/ ReplayDone)
    BY <1>14 DEF ReplayRegister, ReplayAcquire, ReplayCommit, ReplayRelease,
                 ReplayReap, ReplayAdvance, ReplayStop, ReplayDone
  <1> QED BY <1>1, <1>2, <1>3, <1>4, <1>5, <1>6, <1>7, <1>8, <1>9, <1>10, <1>11, <1>12,
             <1>13, <1>15 DEF CoordinatorNext

\* Writing the snapshot, and truncating the journal.
LEMMA SnapshotKeeps ==
  ASSUME Recoverable, SaveSnapshot \/ Truncate
  PROVE  Recoverable'
  <1>1. CASE SaveSnapshot
    <2>1. Sound(snapshot') /\ table' = table /\ phase' = "truncating" /\ phase = "up"
          /\ journal' = journal /\ durable' = durable /\ todo' = todo
      BY <1>1, UndatedSound DEF SaveSnapshot, Recoverable
    <2> QED BY <2>1 DEF Recoverable
  <1>2. CASE Truncate
    <2>1. /\ journal' = <<>> /\ durable' = 0 /\ table' = table /\ snapshot' = snapshot
          /\ phase' = "up" /\ todo' = todo /\ phase = "truncating"
      BY <1>2 DEF Truncate
    <2>2. journal' \in Seq(Line) /\ durable' \in 0 .. Len(journal')
      BY <2>1
    <2> QED BY <2>1, <2>2 DEF Recoverable
  <1> QED BY <1>1, <1>2

\* A crash leaves a prefix of the journal, with or without a torn line after
\* it, that holds whatever was fsynced.
LEMMA CrashKeeps ==
  ASSUME Recoverable, Crash
  PROVE  Recoverable'
  <1>1. PICK n \in durable .. Len(journal) :
          \/ journal' = SubSeq(journal, 1, n)
          \/ journal' = Append(SubSeq(journal, 1, n), Torn)
    BY DEF Crash
  <1>2. journal \in Seq(Line) /\ durable \in 0 .. Len(journal)
    BY DEF Recoverable
  <1>3. n \in 0 .. Len(journal) /\ durable <= n /\ durable \in Nat /\ Len(journal) \in Nat
    BY <1>1, <1>2
  <1> DEFINE kept == SubSeq(journal, 1, n)
  <1>4. kept \in Seq(Line) /\ Len(kept) = n
    BY <1>2, <1>3, SubSeqProperties
  <1>5. Torn \in Line
    BY DEF Line, Torn
  <1>6. journal' \in Seq(Line) /\ Len(journal') \in {n, n + 1}
    <2>1. journal' = kept \/ journal' = Append(kept, Torn)
      BY <1>1
    <2> HIDE DEF kept
    <2>2. CASE journal' = kept
      BY <1>4, <2>2
    <2>3. CASE journal' = Append(kept, Torn)
      <3>1. Append(kept, Torn) \in Seq(Line) /\ Len(Append(kept, Torn)) = n + 1
        BY <1>4, <1>5, AppendProperties
      <3> QED BY <2>3, <3>1
    <2> QED BY <2>1, <2>2, <2>3
  <1> HIDE DEF kept
  <1>7. /\ table' = NewTable /\ todo' = <<>> /\ phase' = "down"
        /\ snapshot' = snapshot /\ durable' = durable
    BY DEF Crash
  <1>8. durable' \in 0 .. Len(journal')
    BY <1>3, <1>6, <1>7
  <1>9. todo' \in Seq(Line)
    BY <1>7
  <1> QED BY <1>6, <1>7, <1>8, <1>9, NewTableSound DEF Recoverable

\* Loading the snapshot, if there is one, and setting out to replay.
LEMMA LoadKeeps ==
  ASSUME Recoverable, Load
  PROVE  Recoverable'
  <1>1. snapshot' = snapshot /\ journal' = journal /\ durable' = durable
    BY DEF Load, disk
  <1>2. CASE snapshot = NoSnapshot
    <2>1. table' = NewTable /\ todo' = <<>> /\ phase' = "up"
      BY <1>2 DEF Load
    <2> QED BY <1>1, <2>1, NewTableSound DEF Recoverable
  <1>3. CASE snapshot # NoSnapshot
    <2>1. table' = Restored(snapshot) /\ todo' = journal /\ phase' = "replaying"
      BY <1>3 DEF Load
    <2>2. Sound(table')
      BY <1>3, <2>1, RestoredSame DEF Recoverable
    <2> QED BY <1>1, <2>1, <2>2 DEF Recoverable
  <1> QED BY <1>2, <1>3

\* What a step of a replay has to show.
LEMMA ReplayKeeps ==
  ASSUME Recoverable, Sound(table'), todo' \in Seq(Line), phase = "replaying",
         UNCHANGED <<disk, phase>>
  PROVE  Recoverable'
  BY DEF Recoverable, disk

\* The next line of a replay is a line, and so are those after it.
LEMMA NextLine ==
  ASSUME Recoverable, NEW op, Replaying(op)
  PROVE  /\ phase = "replaying" /\ Head(todo) \in Line /\ Head(todo).op = op
         /\ Tail(todo) \in Seq(Line)
  BY HeadTailProperties DEF Replaying, Recoverable

\* The leases of an acquire line are taken one at a time, each on the table
\* that the one before it left.
LEMMA ReplayAcquireKeeps ==
  ASSUME Recoverable, ReplayAcquire
  PROVE  Recoverable'
  <1> DEFINE line == Head(todo)
             base == Registered(table, line.cluster, NoIncarnation)
  <1>1. /\ phase = "replaying" /\ line \in Line /\ line.op = "acquire"
        /\ Tail(todo) \in Seq(Line)
    BY NextLine DEF ReplayAcquire
  <1>2. /\ line \in [op : {"acquire"}, cluster : Cluster, leases : Seq(Lease) \ {<<>>}]
        /\ line.cluster \in Cluster /\ line.leases \in Seq(Lease) /\ line.leases # <<>>
    BY <1>1 DEF Line
  <1>3. line.leases[1] \in Lease /\ Tail(line.leases) \in Seq(Lease) /\ Len(line.leases) \in Nat
    BY <1>2, EmptySeq, LenProperties, HeadTailProperties, ElementOfSeq
  <1>4. Sound(base)
    BY <1>2, RegisteredInv, RegisteredCredit DEF Recoverable, Sound
  <1>5. table' \in ReplayLease(base, line.leases[1])
    BY DEF ReplayAcquire
  <1> HIDE DEF base
  <1>6. Sound(table')
    BY <1>3, <1>4, <1>5, ReplayLeaseSound
  <1>7. todo' \in Seq(Line)
    <2>1. CASE Len(line.leases) = 1
      BY <1>1, <2>1 DEF ReplayAcquire
    <2>2. CASE Len(line.leases) # 1
      <3>1. Tail(line.leases) # <<>>
        <4> DEFINE g == line.leases
        <4>1. g \in Seq(Lease) /\ g # <<>> /\ Len(g) # 1
          BY <1>2, <2>2
        <4> HIDE DEF g
        <4>2. Len(g) \in Nat /\ Len(g) # 0 /\ Len(Tail(g)) = Len(g) - 1
          BY <4>1, EmptySeq, LenProperties, HeadTailProperties
        <4>3. Len(Tail(g)) # 0 /\ Len(<<>>) = 0
          BY <4>1, <4>2
        <4>4. Tail(g) # <<>>
          BY <4>3
        <4> QED BY <4>4 DEF g
      <3> DEFINE rest == [line EXCEPT !.leases = Tail(line.leases)]
      <3>2. rest \in Line
        BY <1>2, <1>3, <3>1 DEF Line
      <3>3. todo \in Seq(Line) /\ todo # <<>> /\ todo[1] = line
        BY DEF Recoverable, ReplayAcquire, Replaying
      <3>4. todo' = [todo EXCEPT ![1].leases = Tail(@)]
        BY <2>2 DEF ReplayAcquire
      <3>5. todo' = [todo EXCEPT ![1] = rest]
        BY <3>3, <3>4
      <3>6. 1 \in 1 .. Len(todo)
        BY <3>3, EmptySeq, LenProperties
      <3> HIDE DEF rest
      <3> QED BY <3>2, <3>3, <3>5, <3>6, ExceptSeq
    <2> QED BY <2>1, <2>2
  <1> QED BY <1>1, <1>6, <1>7, ReplayKeeps DEF ReplayAcquire

\* The other lines of a replay.
LEMMA ReplayLineKeeps ==
  ASSUME Recoverable,
         \/ ReplayRegister \/ ReplayCommit \/ ReplayRelease
         \/ ReplayReap \/ ReplayAdvance \/ ReplayStop \/ ReplayDone
  PROVE  Recoverable'
  <1>0. Sound(table) /\ Inv(table) /\ CreditIn(table)
    BY DEF Recoverable, Sound
  <1>1. ASSUME NEW op, Replaying(op), Sound(table'), LineDone
        PROVE  Recoverable'
    <2>1. phase = "replaying" /\ todo' \in Seq(Line) /\ UNCHANGED <<disk, phase>>
      BY <1>1, NextLine DEF LineDone
    <2> QED BY <1>1, <2>1, ReplayKeeps
  <1>2. CASE ReplayRegister
    <2> DEFINE line == Head(todo)
    <2>1. line.cluster \in Cluster /\ line.incarnation \in Incarnation \cup {NoIncarnation}
      <3>1. line \in Line /\ line.op = "register"
        BY <1>2, NextLine DEF ReplayRegister
      <3> QED BY <3>1 DEF Line
    <2>2. table' = Registered(table, line.cluster, line.incarnation)
      BY <1>2 DEF ReplayRegister
    <2> HIDE DEF line
    <2>3. Sound(table')
      BY <1>0, <2>1, <2>2, RegisteredInv, RegisteredCredit DEF Sound
    <2> QED BY <1>1, <1>2, <2>3 DEF ReplayRegister
  <1>3. CASE ReplayCommit
    <2> DEFINE line == Head(todo)
    <2>1. line.through \in Nat
      <3>1. line \in Line /\ line.op = "commit"
        BY <1>3, NextLine DEF ReplayCommit
      <3> QED BY <3>1 DEF Line
    <2>2. table' = table \/ \E l \in table.leases : table' = Committed(table, l, line.through)
      BY <1>3 DEF ReplayCommit, Holding
    <2> HIDE DEF line
    <2>3. Sound(table')
      BY <1>0, <2>1, <2>2, CommittedInv, CommittedCredit DEF Sound
    <2> QED BY <1>1, <1>3, <2>3 DEF ReplayCommit
  <1>4. CASE ReplayRelease
    <2> DEFINE gone == Released(table, Head(todo))
    <2>1. gone \in SUBSET table.leases
      BY DEF Released, Holding
    <2>2. table' = Reclaimed(table, gone, TRUE)
      BY <1>4 DEF ReplayRelease
    <2> HIDE DEF gone
    <2>3. Sound(table')
      BY <1>0, <2>1, <2>2, ReclaimedSound
    <2> QED BY <1>1, <1>4, <2>3 DEF ReplayRelease
  <1>5. CASE ReplayReap
    BY <1>0, <1>1, <1>5 DEF ReplayReap
  <1>6. CASE ReplayAdvance
    <2>1. Sound(table')
      BY <1>0, <1>6, AdvancedSound DEF ReplayAdvance
    <2> QED BY <1>1, <1>6, <2>1 DEF ReplayAdvance
  <1>7. CASE ReplayStop
    <2>1. phase = "replaying" /\ todo' = <<>> /\ UNCHANGED <<table, disk, phase>>
      BY <1>7 DEF ReplayStop, Replaying
    <2> QED BY <1>0, <2>1, ReplayKeeps
  <1>8. CASE ReplayDone
    <2>1. /\ todo = <<>> /\ phase' = "up" /\ UNCHANGED <<table, disk, todo>>
      BY <1>8 DEF ReplayDone
    <2> QED BY <2>1 DEF Recoverable, disk
  <1> QED BY <1>2, <1>3, <1>4, <1>5, <1>6, <1>7, <1>8

\* Every step of the coordinator keeps the invariant.
LEMMA CoordinatorStep ==
  ASSUME Recoverable, [CoordinatorNext]_vars
  PROVE  Recoverable'
  <1>1. CASE SaveSnapshot \/ Truncate
    BY <1>1, SnapshotKeeps
  <1>2. CASE Crash
    BY <1>2, CrashKeeps
  <1>3. CASE Load
    BY <1>3, LoadKeeps
  <1>4. CASE ReplayAcquire
    BY <1>4, ReplayAcquireKeeps
  <1>5. CASE \/ ReplayRegister \/ ReplayCommit \/ ReplayRelease
             \/ ReplayReap \/ ReplayAdvance \/ ReplayStop \/ ReplayDone
    BY <1>5, ReplayLineKeeps
  <1>6. CASE CoordinatorNext /\ phase = "up" /\ phase' = "up"
    BY <1>6, ServeKeeps
  <1>7. CASE UNCHANGED vars
    BY <1>7 DEF vars, disk, history, Recoverable
  <1>8. CASE CoordinatorNext
    <2>1. \A entry : Log(entry) \/ LogSynced(entry) \/ Unlogged => phase = "up" /\ phase' = "up"
      BY DEF Log, LogSynced, Write, Unlogged
    <2>2. \/ SaveSnapshot \/ Truncate \/ Crash \/ Load \/ ReplayAcquire
          \/ ReplayRegister \/ ReplayCommit \/ ReplayRelease
          \/ ReplayReap \/ ReplayAdvance \/ ReplayStop \/ ReplayDone
          \/ phase = "up" /\ phase' = "up"
      BY <1>8, <2>1 DEF CoordinatorNext, ServeRegister, ServeAcquire, ServeAcquireNothing,
         ServeHeartbeat, ServeCommit, ServeReleaseOne, ServeReleaseGone, ServeReleaseAll,
         Tick, Status, ServeAdvance, TimePasses
    <2> QED BY <1>1, <1>2, <1>3, <1>4, <1>5, <1>6, <1>8, <2>2
  <1> QED BY <1>7, <1>8

\* The coordinator starts with a new table, an empty journal, and no snapshot
\* or the snapshot of a new table.
LEMMA CoordinatorStarts == CoordinatorInit => Recoverable
  <1> SUFFICES ASSUME CoordinatorInit
               PROVE  Recoverable
    OBVIOUS
  <1>1. /\ table = NewTable /\ journal = <<>> /\ durable = 0 /\ phase = "up" /\ todo = <<>>
        /\ snapshot = NewTable \/ snapshot = NoSnapshot
    BY DEF CoordinatorInit, Init
  <1> QED BY <1>1, NewTableSound DEF Recoverable

\* The table, live or half rebuilt, and the snapshot are sound in every
\* state that the coordinator and its crashes can reach.
THEOREM StaysRecoverable == CoordinatorSpec => []Recoverable
  <1>1. CoordinatorInit => Recoverable
    BY CoordinatorStarts
  <1>2. Recoverable /\ [CoordinatorNext]_vars => Recoverable'
    BY CoordinatorStep
  <1> QED BY <1>1, <1>2, PTL DEF CoordinatorSpec

\* Every variable of the coordinator has its type: a replay never leaves the
\* table half written, and no crash unwrites an fsynced line.
THEOREM CoordinatorTypeCorrect == CoordinatorSpec => []CoordinatorTypeOK
  <1>1. Recoverable => CoordinatorTypeOK
    BY InvCoverage DEF Recoverable, Sound, CoordinatorTypeOK
  <1> QED BY <1>1, StaysRecoverable, PTL

\* verify() passes on the table after every RPC, on every snapshot, and after
\* every line of every replay, however much of the unsynced journal a crash
\* took, wherever it tore it, and whatever the snapshot already held.
THEOREM RestartsVerify == CoordinatorSpec => []ReplayVerifies
  <1>1. Recoverable => ReplayVerifies
    <2>1. \A t : Sound(t) => VerifiedIn(t) /\ CreditIn(t)
      BY InvCoverage DEF Sound, VerifiedIn
    <2> QED BY <2>1 DEF Recoverable, ReplayVerifies
  <1> QED BY <1>1, StaysRecoverable, PTL

-----------------------------------------------------------------------------
(* What a replay makes of a snapshot and a journal                         *)

\* A line that is not the trace of a torn write.
Whole == {e \in Line : e.op \notin {"torn", "garbled"}}

SoundTable == {t \in Table : Sound(t)}

\* What a line, or the first lease of an acquire, does to a table.
Applied(t, line, u) ==
    \/ /\ line.op = "register"
       /\ u = Registered(t, line.cluster, line.incarnation)
    \/ /\ line.op = "acquire"
       /\ u \in ReplayLease(Registered(t, line.cluster, NoIncarnation), line.leases[1])
    \/ /\ line.op = "commit"
       /\ \/ \E l \in Holding(t, line.cluster) : l.id = line.lease /\ u = Committed(t, l, line.through)
          \/ u = t /\ \A l \in Holding(t, line.cluster) : l.id # line.lease
    \/ /\ line.op = "release"
       /\ u = Reclaimed(t, Released(t, line), TRUE)
    \/ line.op = "reap" /\ u = t
    \/ line.op = "advance_epoch" /\ u = Advanced(t)

\* An acquire without its first lease.
Shorter(line) == [op |-> "acquire", cluster |-> line.cluster, leases |-> Tail(line.leases)]

\* What is left of some lines after that.
Left(j) ==
    IF Head(j).op = "acquire" /\ Len(Head(j).leases) # 1
    THEN [j EXCEPT ![1] = Shorter(Head(j))]
    ELSE Tail(j)

\* A moment of a replay is a table and the lines still to come.
Moment == SoundTable \X Seq(Whole)

ReplayStep(x, y) == x[2] # <<>> /\ Applied(x[1], Head(x[2]), y[1]) /\ y[2] = Left(x[2])

Onward(R) == \A x \in R : \A y \in Moment : ReplayStep(x, y) => y \in R

\* The replay of the lines j over the table s ends with the table t: every set
\* of moments that the replay starts in and cannot leave has that end in it.
Rebuilt(s, j, t) ==
    \A R \in SUBSET Moment : <<s, j>> \in R /\ Onward(R) => <<t, <<>>>> \in R

\* The record that the replay puts back for the rest of an acquire.
LEMMA ShorterLine ==
  ASSUME NEW line \in Line, line.op = "acquire", Len(line.leases) # 1
  PROVE  [line EXCEPT !.leases = Tail(line.leases)] = Shorter(line)
  <1>1. line \in [op : {"acquire"}, cluster : Cluster, leases : Seq(Lease) \ {<<>>}]
    BY DEF Line
  <1> DEFINE r == [line EXCEPT !.leases = Tail(line.leases)]
  <1>2. r.op = "acquire" /\ r.cluster = line.cluster /\ r.leases = Tail(line.leases)
    BY <1>1
  <1>3. DOMAIN r = {"op", "cluster", "leases"}
    BY <1>1
  <1>4. r = [x \in {"op", "cluster", "leases"} |-> r[x]]
    BY <1>3
  <1>5. Shorter(line) = [x \in {"op", "cluster", "leases"} |-> Shorter(line)[x]]
    BY DEF Shorter
  <1> HIDE DEF r
  <1>6. r["op"] = Shorter(line)["op"] /\ r["cluster"] = Shorter(line)["cluster"] /\ r["leases"] = Shorter(line)["leases"]
    BY <1>2 DEF Shorter
  <1>7. r = Shorter(line)
    BY <1>4, <1>5, <1>6
  <1> QED BY <1>7 DEF r

\* A line turns a sound table into a sound table.
LEMMA AppliedSound ==
  ASSUME NEW t, Sound(t), NEW line \in Whole, NEW u, Applied(t, line, u)
  PROVE  Sound(u)
  <1>0. Inv(t) /\ CreditIn(t) /\ line \in Line
    BY DEF Sound, Whole
  <1>1. CASE line.op = "register" /\ u = Registered(t, line.cluster, line.incarnation)
    <2>1. line.cluster \in Cluster /\ line.incarnation \in Incarnation \cup {NoIncarnation}
      BY <1>0, <1>1 DEF Line
    <2> QED BY <1>0, <1>1, <2>1, RegisteredInv, RegisteredCredit DEF Sound
  <1>2. CASE /\ line.op = "acquire"
             /\ u \in ReplayLease(Registered(t, line.cluster, NoIncarnation), line.leases[1])
    <2>1. line.cluster \in Cluster /\ line.leases \in Seq(Lease) /\ line.leases # <<>>
      BY <1>0, <1>2 DEF Line
    <2>2. line.leases[1] \in Lease
      BY <2>1, EmptySeq, LenProperties, ElementOfSeq
    <2> DEFINE base == Registered(t, line.cluster, NoIncarnation)
    <2>3. Sound(base)
      BY <1>0, <2>1, RegisteredInv, RegisteredCredit DEF Sound
    <2>4. u \in ReplayLease(base, line.leases[1])
      BY <1>2
    <2> HIDE DEF base
    <2> QED BY <2>2, <2>3, <2>4, ReplayLeaseSound
  <1>3. CASE line.op = "commit" /\ \E l \in Holding(t, line.cluster) : u = Committed(t, l, line.through)
    <2>1. line.through \in Nat
      BY <1>0, <1>3 DEF Line
    <2>2. PICK l \in t.leases : u = Committed(t, l, line.through)
      BY <1>3 DEF Holding
    <2> QED BY <1>0, <2>1, <2>2, CommittedInv, CommittedCredit DEF Sound
  <1>4. CASE u = Reclaimed(t, Released(t, line), TRUE)
    <2>1. Released(t, line) \in SUBSET t.leases
      BY DEF Released, Holding
    <2> QED BY <1>4, <2>1, ReclaimedSound
  <1>5. CASE u = t
    BY <1>5
  <1>6. CASE u = Advanced(t)
    BY <1>6, AdvancedSound
  <1> QED BY <1>1, <1>2, <1>3, <1>4, <1>5, <1>6 DEF Applied

\* What is left of whole lines are whole lines.
LEMMA LeftWhole ==
  ASSUME NEW j \in Seq(Whole), j # <<>>
  PROVE  Left(j) \in Seq(Whole)
  <1> DEFINE line == Head(j)
             g == line.leases
             rest == Shorter(line)
  <1>1. line \in Whole /\ Tail(j) \in Seq(Whole) /\ line = j[1]
    BY HeadTailProperties
  <1>2. CASE ~(line.op = "acquire" /\ Len(g) # 1)
    BY <1>1, <1>2 DEF Left
  <1>3. CASE line.op = "acquire" /\ Len(g) # 1
    <2>1. /\ line \in [op : {"acquire"}, cluster : Cluster, leases : Seq(Lease) \ {<<>>}]
          /\ g \in Seq(Lease) /\ g # <<>> /\ Len(g) # 1
      BY <1>1, <1>3 DEF Line, Whole
    <2> HIDE DEF g
    <2>2. Tail(g) \in Seq(Lease) /\ Tail(g) # <<>>
      <3>1. Len(g) \in Nat /\ Len(g) # 0 /\ Len(Tail(g)) = Len(g) - 1 /\ Tail(g) \in Seq(Lease)
        BY <2>1, EmptySeq, LenProperties, HeadTailProperties
      <3>2. Len(Tail(g)) # 0 /\ Len(<<>>) = 0
        BY <2>1, <3>1
      <3> QED BY <3>1, <3>2
    <2>3. rest \in Whole
      BY <2>1, <2>2 DEF Line, Whole, Shorter, g
    <2>4. Left(j) = [j EXCEPT ![1] = rest]
      BY <1>3 DEF Left, g
    <2>5. 1 \in 1 .. Len(j)
      BY EmptySeq, LenProperties
    <2> HIDE DEF rest
    <2> QED BY <2>3, <2>4, <2>5, ExceptSeq
  <1> QED BY <1>2, <1>3

\* A replay never has two ways to go on: a lease has one first free run, and
\* an id names one lease.
LEMMA OneRun ==
  ASSUME NEW t, NEW lease \in Lease, NEW a \in Nat, NEW b \in Nat, NEW c \in Nat, NEW d \in Nat,
         Replayable(t, lease, a, b), Replayable(t, lease, c, d)
  PROVE  a = c /\ b = d
  <1>1. lease.start \in Nat /\ lease.end \in Nat
    BY DEF Lease
  <1>2. /\ lease.start <= a /\ a < b /\ b <= lease.end
        /\ \A x \in lease.start .. a - 1 : t.state[x] # UNASSIGNED
        /\ \A x \in a .. b - 1 : t.state[x] = UNASSIGNED
        /\ b = lease.end \/ t.state[b] # UNASSIGNED
    BY DEF Replayable
  <1>3. /\ lease.start <= c /\ c < d /\ d <= lease.end
        /\ \A x \in lease.start .. c - 1 : t.state[x] # UNASSIGNED
        /\ \A x \in c .. d - 1 : t.state[x] = UNASSIGNED
        /\ d = lease.end \/ t.state[d] # UNASSIGNED
    BY DEF Replayable
  <1>4. t.state[a] = UNASSIGNED /\ t.state[c] = UNASSIGNED
    BY <1>2, <1>3
  <1>5. ~(a < c) /\ ~(c < a)
    BY <1>1, <1>2, <1>3, <1>4
  <1>6. a = c
    BY <1>5
  <1>7. ~(b < d) /\ ~(d < b)
    BY <1>1, <1>2, <1>3, <1>6
  <1> QED BY <1>6, <1>7

\* So a lease of a line is installed in one way, or not at all.
LEMMA OneLease ==
  ASSUME NEW t, NEW lease \in Lease, NEW u \in ReplayLease(t, lease), NEW v \in ReplayLease(t, lease)
  PROVE  u = v
  <1> DEFINE fits == lease.epoch = t.epoch /\ \A m \in t.leases : m.id # lease.id
             runs == {q \in (0 .. NumBlocks) \X (0 .. NumBlocks) :
                         fits /\ Replayable(t, lease, q[1], q[2])}
  <1>1. ReplayLease(t, lease) = IF runs = {} THEN {t} ELSE {Installed(t, lease, q[1], q[2]) : q \in runs}
    BY DEF ReplayLease
  <1>2. CASE runs = {}
    <2> HIDE DEF runs
    <2> QED BY <1>1, <1>2
  <1>3. CASE runs # {}
    <2>1. \A p, q \in runs : p[1] = q[1] /\ p[2] = q[2]
      <3> SUFFICES ASSUME NEW p \in runs, NEW q \in runs
                   PROVE  p[1] = q[1] /\ p[2] = q[2]
        OBVIOUS
      <3>1. p[1] \in Nat /\ p[2] \in Nat /\ q[1] \in Nat /\ q[2] \in Nat
        BY PoolAssumption
      <3>2. Replayable(t, lease, p[1], p[2]) /\ Replayable(t, lease, q[1], q[2])
        OBVIOUS
      <3> HIDE DEF runs
      <3> QED BY <3>1, <3>2, OneRun
    <2> HIDE DEF runs
    <2>2. PICK p \in runs : u = Installed(t, lease, p[1], p[2])
      BY <1>1, <1>3
    <2>3. PICK q \in runs : v = Installed(t, lease, q[1], q[2])
      BY <1>1, <1>3
    <2> QED BY <2>1, <2>2, <2>3
  <1> QED BY <1>2, <1>3

\* A line, and the first lease of an acquire, does one thing to a table.
LEMMA OneOutcome ==
  ASSUME NEW t, Sound(t), NEW line \in Whole, NEW u, NEW v, Applied(t, line, u), Applied(t, line, v)
  PROVE  u = v
  <1>1. CASE line.op = "register"
    BY <1>1 DEF Applied
  <1>2. CASE line.op = "acquire"
    <2>1. line.leases \in Seq(Lease) /\ line.leases # <<>>
      BY <1>2 DEF Line, Whole
    <2>2. line.leases[1] \in Lease
      BY <2>1, EmptySeq, LenProperties, ElementOfSeq
    <2> DEFINE base == Registered(t, line.cluster, NoIncarnation)
    <2>3. u \in ReplayLease(base, line.leases[1]) /\ v \in ReplayLease(base, line.leases[1])
      BY <1>2 DEF Applied
    <2> HIDE DEF base
    <2> QED BY <2>2, <2>3, OneLease
  <1>3. CASE line.op = "commit"
    <2>1. \A l, m \in Holding(t, line.cluster) : l.id = line.lease /\ m.id = line.lease => l = m
      BY InvCoverage DEF Sound, DisjointIn, Holding
    <2> QED BY <1>3, <2>1 DEF Applied
  <1>4. CASE line.op = "release"
    BY <1>4 DEF Applied
  <1>5. CASE line.op = "reap"
    BY <1>5 DEF Applied
  <1>6. CASE line.op = "advance_epoch"
    BY <1>6 DEF Applied
  <1> QED BY <1>1, <1>2, <1>3, <1>4, <1>5, <1>6 DEF Applied

-----------------------------------------------------------------------------
(* The end of a replay                                                     *)

\* Each step of a replay leads to a moment of it.
LEMMA MomentStep ==
  ASSUME NEW x \in Moment, NEW u, x[2] # <<>>, Applied(x[1], Head(x[2]), u)
  PROVE  <<u, Left(x[2])>> \in Moment /\ ReplayStep(x, <<u, Left(x[2])>>)
  <1>1. x[1] \in Table /\ Sound(x[1]) /\ x[2] \in Seq(Whole)
    BY DEF Moment, SoundTable
  <1>2. Head(x[2]) \in Whole
    BY <1>1, HeadTailProperties
  <1>3. Sound(u) /\ u \in Table
    BY <1>1, <1>2, AppliedSound, InvCoverage DEF Sound
  <1>4. Left(x[2]) \in Seq(Whole)
    BY <1>1, LeftWhole
  <1> QED BY <1>3, <1>4 DEF Moment, SoundTable, ReplayStep

\* Replaying nothing.
LEMMA RebuiltNothing ==
  ASSUME NEW s \in SoundTable
  PROVE  /\ Rebuilt(s, <<>>, s)
         /\ \A t : Rebuilt(s, <<>>, t) => t = s
  <1> DEFINE R == {<<s, <<>>>>}
  <1>1. R \in SUBSET Moment
    <2>1. <<>> \in Seq(Whole)
      BY EmptySeq
    <2>2. <<s, <<>>>> \in Moment
      BY <2>1 DEF Moment
    <2> QED BY <2>2
  <1>2. Onward(R)
    BY DEF Onward, ReplayStep
  <1>3. \A t : Rebuilt(s, <<>>, t) => <<t, <<>>>> \in R
    BY <1>1, <1>2 DEF Rebuilt
  <1> QED BY <1>3 DEF Rebuilt

\* Where a replay ends is a sound table.
LEMMA RebuiltSound ==
  ASSUME NEW s \in SoundTable, NEW j \in Seq(Whole), NEW t, Rebuilt(s, j, t)
  PROVE  t \in SoundTable /\ t \in Table /\ Sound(t)
  <1>1. Onward(Moment) /\ <<s, j>> \in Moment
    BY DEF Onward, Moment
  <1>2. <<t, <<>>>> \in Moment
    BY <1>1 DEF Rebuilt
  <1> QED BY <1>2 DEF Moment, SoundTable

\* A replay ends where it ends after its first step.
LEMMA RebuiltStep ==
  ASSUME NEW x \in Moment, NEW y \in Moment, ReplayStep(x, y), NEW t
  PROVE  Rebuilt(x[1], x[2], t) <=> Rebuilt(y[1], y[2], t)
  <1>0. x = <<x[1], x[2]>> /\ y = <<y[1], y[2]>> /\ x[2] # <<>>
    BY DEF Moment, ReplayStep
  <1>1. ASSUME Rebuilt(y[1], y[2], t)
        PROVE  Rebuilt(x[1], x[2], t)
    <2> SUFFICES ASSUME NEW R \in SUBSET Moment, x \in R, Onward(R)
                 PROVE  <<t, <<>>>> \in R
      BY <1>0 DEF Rebuilt
    <2>1. y \in R
      BY DEF Onward
    <2> QED BY <1>0, <1>1, <2>1 DEF Rebuilt
  <1>2. ASSUME Rebuilt(x[1], x[2], t)
        PROVE  Rebuilt(y[1], y[2], t)
    <2> SUFFICES ASSUME NEW R \in SUBSET Moment, y \in R, Onward(R)
                 PROVE  <<t, <<>>>> \in R
      BY <1>0 DEF Rebuilt
    <2> DEFINE Q == R \cup {x}
    <2>1. \A z \in Moment : ReplayStep(x, z) => z = y
      <3> SUFFICES ASSUME NEW z \in Moment, ReplayStep(x, z)
                   PROVE  z = y
        OBVIOUS
      <3>1. Sound(x[1]) /\ x[2] \in Seq(Whole)
        BY DEF Moment, SoundTable
      <3>2. Head(x[2]) \in Whole
        BY <1>0, <3>1, HeadTailProperties
      <3>3. Applied(x[1], Head(x[2]), y[1]) /\ Applied(x[1], Head(x[2]), z[1])
        BY DEF ReplayStep
      <3>4. z[1] = y[1]
        BY <3>1, <3>2, <3>3, OneOutcome
      <3>5. z[2] = y[2]
        BY DEF ReplayStep
      <3> QED BY <3>4, <3>5 DEF Moment
    <2>2. Q \in SUBSET Moment /\ x \in Q
      OBVIOUS
    <2>3. Onward(Q)
      BY <2>1 DEF Onward
    <2> HIDE DEF Q
    <2>4. <<t, <<>>>> \in Q
      BY <1>0, <1>2, <2>2, <2>3 DEF Rebuilt
    <2>5. <<t, <<>>>> # x
      BY <1>0
    <2> QED BY <2>4, <2>5 DEF Q
  <1> QED BY <1>1, <1>2

\* A replay has one end.
LEMMA RebuiltOnce ==
  ASSUME NEW s \in SoundTable, NEW j \in Seq(Whole), NEW t, NEW u, Rebuilt(s, j, t), Rebuilt(s, j, u)
  PROVE  t = u
  <1> DEFINE R == {x \in Moment : Rebuilt(x[1], x[2], t)}
  <1>1. R \in SUBSET Moment /\ <<s, j>> \in R
    BY DEF Moment
  <1>2. Onward(R)
    BY RebuiltStep DEF Onward
  <1>3. <<u, <<>>>> \in R
    BY <1>1, <1>2 DEF Rebuilt
  <1>4. u \in SoundTable /\ Rebuilt(u, <<>>, t)
    BY <1>3 DEF Moment
  <1> QED BY <1>4, RebuiltNothing

\* A line at the end of a journal is replayed last.
LEMMA AppendStep ==
  ASSUME NEW x \in Moment, NEW y \in Moment, ReplayStep(x, y), NEW e \in Whole
  PROVE  /\ <<x[1], Append(x[2], e)>> \in Moment /\ <<y[1], Append(y[2], e)>> \in Moment
         /\ ReplayStep(<<x[1], Append(x[2], e)>>, <<y[1], Append(y[2], e)>>)
  <1> DEFINE j == x[2]
             k == Append(j, e)
  <1>1. j \in Seq(Whole) /\ y[2] \in Seq(Whole) /\ x[1] \in SoundTable /\ y[1] \in SoundTable
    BY DEF Moment
  <1>2. j # <<>> /\ Applied(x[1], Head(j), y[1]) /\ y[2] = Left(j)
    BY DEF ReplayStep
  <1>3. k \in Seq(Whole) /\ Append(y[2], e) \in Seq(Whole) /\ k # <<>>
    BY <1>1, AppendProperties
  <1> HIDE DEF j
  <1>4. Head(k) = Head(j) /\ Tail(k) = Append(Tail(j), e)
    BY <1>1, <1>2, HeadTailAppend
  <1>5. Left(k) = Append(Left(j), e)
    <2>1. CASE ~(Head(j).op = "acquire" /\ Len(Head(j).leases) # 1)
      BY <1>4, <2>1 DEF Left
    <2>2. CASE Head(j).op = "acquire" /\ Len(Head(j).leases) # 1
      <3> DEFINE rest == Shorter(Head(j))
      <3>1. Left(j) = [j EXCEPT ![1] = rest] /\ Left(k) = [k EXCEPT ![1] = rest]
        BY <1>4, <2>2 DEF Left
      <3>2. Left(j) \in Seq(Whole) /\ Left(k) \in Seq(Whole)
        BY <1>1, <1>2, <1>3, LeftWhole
      <3> HIDE DEF rest, k
      <3>3. Len(j) \in Nat /\ 1 \in 1 .. Len(j) /\ DOMAIN j = 1 .. Len(j)
        BY <1>1, <1>2, EmptySeq, LenProperties
      <3>4. /\ Len(k) = Len(j) + 1 /\ k[Len(j) + 1] = e /\ DOMAIN k = 1 .. Len(k)
            /\ \A i \in 1 .. Len(j) : k[i] = j[i]
        BY <1>1, <1>3, AppendProperties, LenProperties DEF k
      <3>5. /\ DOMAIN Left(j) = 1 .. Len(j) /\ DOMAIN Left(k) = 1 .. Len(k)
            /\ \A i \in 1 .. Len(j) : Left(j)[i] = IF i = 1 THEN rest ELSE j[i]
            /\ \A i \in 1 .. Len(k) : Left(k)[i] = IF i = 1 THEN rest ELSE k[i]
        BY <3>1, <3>3, <3>4
      <3>6. Len(Left(j)) = Len(j) /\ Len(Left(k)) = Len(k)
        BY <3>2, <3>3, <3>4, <3>5, LenProperties
      <3> DEFINE a == Left(k)
                 b == Append(Left(j), e)
      <3>7. /\ b \in Seq(Whole) /\ Len(b) = Len(Left(j)) + 1 /\ b[Len(Left(j)) + 1] = e
            /\ \A i \in 1 .. Len(Left(j)) : b[i] = Left(j)[i]
        BY <3>2, AppendProperties
      <3> HIDE DEF b
      <3>8. Len(a) = Len(b) /\ \A i \in 1 .. Len(a) : a[i] = b[i]
        BY <3>3, <3>4, <3>5, <3>6, <3>7
      <3>9. a = b
        BY <3>2, <3>7, <3>8, SeqEqual
      <3> QED BY <3>9 DEF b
    <2> QED BY <2>1, <2>2
  <1> HIDE DEF k
  <1>6. <<x[1], k>> \in Moment /\ <<y[1], Append(y[2], e)>> \in Moment
    BY <1>1, <1>3 DEF Moment
  <1>7. ReplayStep(<<x[1], k>>, <<y[1], Append(y[2], e)>>)
    BY <1>2, <1>3, <1>4, <1>5 DEF ReplayStep
  <1> QED BY <1>6, <1>7 DEF k, j

\* One more line at the end of a journal: one more line to replay.
LEMMA RebuiltAppend ==
  ASSUME NEW s \in SoundTable, NEW j \in Seq(Whole), NEW e \in Whole, NEW t, NEW u,
         Rebuilt(s, j, t), Rebuilt(t, <<e>>, u)
  PROVE  Rebuilt(s, Append(j, e), u)
  <1> DEFINE R == {x \in Moment : Rebuilt(x[1], Append(x[2], e), u) => Rebuilt(s, Append(j, e), u)}
  <1>1. R \in SUBSET Moment /\ <<s, j>> \in R
    BY DEF Moment
  <1>2. ASSUME NEW x \in R, NEW y \in Moment, ReplayStep(x, y)
        PROVE  y \in R
    <2> DEFINE xe == <<x[1], Append(x[2], e)>>
               ye == <<y[1], Append(y[2], e)>>
    <2>1. xe \in Moment /\ ye \in Moment /\ ReplayStep(xe, ye)
      BY <1>2, AppendStep
    <2>2. xe[1] = x[1] /\ xe[2] = Append(x[2], e) /\ ye[1] = y[1] /\ ye[2] = Append(y[2], e)
      OBVIOUS
    <2> HIDE DEF xe, ye
    <2>3. Rebuilt(xe[1], xe[2], u) <=> Rebuilt(ye[1], ye[2], u)
      BY <2>1, RebuiltStep
    <2> QED BY <1>2, <2>2, <2>3
  <1>3. <<t, <<>>>> \in R
    BY <1>1, <1>2 DEF Rebuilt, Onward
  <1>4. Append(<<>>, e) = <<e>>
    OBVIOUS
  <1> QED BY <1>3, <1>4

-----------------------------------------------------------------------------
(* A table and its rebuilt copy                                            *)

\* When the journal tells the whole story.  Every other setting leaves out
\* something that a replay would need: see CommitsSurvive in the README.
Faithful ==
    /\ SnapshotFirst
    /\ ~Expires /\ ~TornWrites /\ ~AllowStealing
    /\ MaxEpochs <= 1 /\ MaxAttempts = 0
    /\ Incarnation = {}

Fresh(t) == \A l \in t.leases : ~l.overdue

\* Two leases at the same point: a rebuilt one may have forgotten where it
\* started and how far its owner said it was.
SameLease(l, m) ==
    l.id = m.id /\ l.cluster = m.cluster /\ l.committed_end = m.committed_end /\ l.end = m.end

SameCore(t, u) == t.epoch = u.epoch /\ t.seq = u.seq /\ t.state = u.state /\ t.leases = u.leases

\* Two tables that a client's commits and releases cannot tell apart.
Alike(t, u) ==
    /\ t.epoch = u.epoch /\ t.seq = u.seq /\ t.state = u.state
    /\ \A l \in t.leases : \E m \in u.leases : SameLease(l, m)
    /\ \A m \in u.leases : \E l \in t.leases : SameLease(l, m)

\* A table is alike itself, whatever its clusters.
LEMMA AlikeItself ==
  ASSUME NEW t, NEW u, SameCore(t, u)
  PROVE  Alike(t, u)
  BY DEF SameCore, Alike, SameLease

\* Being alike goes both ways.
LEMMA AlikeBack ==
  ASSUME NEW t, NEW u, Alike(t, u)
  PROVE  Alike(u, t)
  BY DEF Alike, SameLease

\* Being alike does not depend on the clusters, the pool or the counters.
LEMMA AlikeSame ==
  ASSUME NEW t, NEW u, Alike(t, u), NEW v, SameCore(t, v), NEW w, SameCore(u, w)
  PROVE  Alike(v, w)
  BY DEF SameCore, Alike

\* A registration changes the record of a cluster only.
LEMMA RegisteredCore ==
  ASSUME NEW t, Sound(t), NEW c \in Cluster, NEW inc
  PROVE  SameCore(t, Registered(t, c, inc))
  <1>1. t \in Table
    BY InvCoverage DEF Sound
  <1> DEFINE r == Registered(t, c, inc)
  <1>2. \E C : r = [t EXCEPT !.clusters = C]
    BY DEF Registered
  <1> HIDE DEF r
  <1>3. r.epoch = t.epoch /\ r.seq = t.seq /\ r.state = t.state /\ r.leases = t.leases
    BY <1>1, <1>2 DEF Table
  <1> QED BY <1>3 DEF SameCore, r

\* There is no epoch after the only one.
LEMMA AdvancedCore ==
  ASSUME Faithful, NEW t, Sound(t)
  PROVE  Advanced(t) = t
  <1>1. t.epoch \in Nat
    BY InvCoverage DEF Sound, Table
  <1> QED BY <1>1, TableAssumption DEF Advanced, CanAdvance, Faithful

\* The positions of some leases.
Risked(gone) == UNION {Outstanding(l) : l \in gone}

\* A reclaim puts positions back, and quarantines none.
LEMMA ReclaimedCore ==
  ASSUME Faithful, NEW t, Sound(t), NEW gone, NEW count
  PROVE  /\ Reclaimed(t, gone, count).epoch = t.epoch
         /\ Reclaimed(t, gone, count).seq = t.seq
         /\ Reclaimed(t, gone, count).leases = t.leases \ gone
         /\ Reclaimed(t, gone, count).state = Fill(t.state, Risked(gone), UNASSIGNED)
  <1> DEFINE r == Reclaimed(t, gone, count)
             tail == Risked(gone)
             tried == [b \in Blocks |-> IF count /\ b \in tail
                                        THEN t.attempts[b] + 1 ELSE t.attempts[b]]
             bad == {b \in tail : count /\ Exhausted(tried[b])}
             S == Fill(Fill(t.state, tail \ bad, UNASSIGNED), bad, QUARANTINED)
  <1>1. t \in Table
    BY InvCoverage DEF Sound
  <1>2. bad = {}
    BY DEF Exhausted, Faithful
  <1>3. \E F, q : r = [t EXCEPT !.leases = t.leases \ gone, !.attempts = tried, !.state = S,
                              !.free = F, !.quarantined = q]
    <2>1. r = [t EXCEPT !.leases = t.leases \ gone, !.attempts = tried, !.state = S,
                        !.free = @ \cup (tail \ bad), !.quarantined = @ + Cardinality(bad)]
      BY <1>1 DEF Reclaimed, Table, Risked
    <2> HIDE DEF S, bad, tried, r, tail
    <2> QED BY <2>1
  <1>4. S = Fill(t.state, tail, UNASSIGNED)
    BY <1>2 DEF Fill
  <1> HIDE DEF S, bad, tried, r, tail
  <1>5. r.epoch = t.epoch /\ r.seq = t.seq /\ r.leases = t.leases \ gone /\ r.state = S
    BY <1>1, <1>3 DEF Table
  <1> QED BY <1>4, <1>5 DEF r, tail

\* Nothing is overdue, so an acquire and a heartbeat find the table as it was.
LEMMA ReapedCore ==
  ASSUME Faithful, NEW t, Sound(t), Fresh(t)
  PROVE  SameCore(t, Reaped(t)) /\ Sound(Reaped(t))
  <1> DEFINE gone == {l \in t.leases : l.overdue}
             counted == TRUE
  <1>0. t \in Table
    BY InvCoverage DEF Sound
  <1>1. gone = {} /\ gone \in SUBSET t.leases
    BY DEF Fresh
  <1>2. Sound(Reaped(t))
    BY <1>1, ReclaimedSound DEF Reaped
  <1>3. Reaped(t) = Reclaimed(t, gone, counted)
    BY DEF Reaped
  <1>4. t.leases \ gone = t.leases /\ Risked(gone) = {}
    BY <1>1 DEF Risked
  <1>5. Fill(t.state, Risked(gone), UNASSIGNED) = t.state
    BY <1>0, <1>4 DEF Fill, Table
  <1> HIDE DEF gone, counted
  <1>6. /\ Reaped(t).epoch = t.epoch /\ Reaped(t).seq = t.seq /\ Reaped(t).leases = t.leases
        /\ Reaped(t).state = t.state
    <2> DEFINE r == Reclaimed(t, gone, counted)
    <2>1. /\ r.epoch = t.epoch /\ r.seq = t.seq /\ r.leases = t.leases \ gone
          /\ r.state = Fill(t.state, Risked(gone), UNASSIGNED)
      BY ReclaimedCore
    <2> HIDE DEF r
    <2>2. Reaped(t) = r
      BY <1>3 DEF r
    <2> QED BY <1>4, <1>5, <2>1, <2>2
  <1> QED BY <1>2, <1>6 DEF SameCore

\* What an acquire works on is the table as it was.
LEMMA AcquireBaseCore ==
  ASSUME Faithful, Sound(table), Fresh(table), NEW c \in Cluster
  PROVE  SameCore(table, AcquireBase(c)) /\ Sound(AcquireBase(c))
  <1> DEFINE s == Reaped(table)
             t == Registered(s, c, NoIncarnation)
  <1>1. SameCore(table, s) /\ Sound(s)
    BY ReapedCore
  <1> HIDE DEF s
  <1>2. SameCore(s, t) /\ Sound(t)
    BY <1>1, RegisteredCore, RegisteredInv, RegisteredCredit DEF Sound
  <1> HIDE DEF t
  <1>3. Advanced(t) = t
    BY <1>2, AdvancedCore
  <1>4. AcquireBase(c) = t
    BY <1>3 DEF AcquireBase, t, s
  <1> QED BY <1>1, <1>2, <1>4 DEF SameCore

-----------------------------------------------------------------------------
(* Lines of one step                                                       *)

\* A line that is done in one step.
LEMMA OneLine ==
  ASSUME NEW t \in SoundTable, NEW e \in Whole, NEW u, Applied(t, e, u),
         e.op = "acquire" => Len(e.leases) = 1
  PROVE  Rebuilt(t, <<e>>, u)
  <1> DEFINE x == <<t, <<e>>>>
             y == <<u, <<>>>>
  <1>1. <<e>> \in Seq(Whole) /\ <<e>> # <<>> /\ Head(<<e>>) = e /\ Tail(<<e>>) = <<>>
    OBVIOUS
  <1>2. Left(<<e>>) = <<>>
    BY <1>1 DEF Left
  <1>3. x \in Moment /\ x[1] = t /\ x[2] = <<e>>
    BY <1>1 DEF Moment
  <1> HIDE DEF x
  <1>4. y \in Moment /\ ReplayStep(x, y)
    BY <1>1, <1>2, <1>3, MomentStep
  <1>5. y[1] = u /\ y[2] = <<>> /\ u \in SoundTable
    BY <1>4 DEF Moment
  <1> HIDE DEF y
  <1>6. Rebuilt(u, <<>>, u)
    BY <1>5, RebuiltNothing
  <1> QED BY <1>3, <1>4, <1>5, <1>6, RebuiltStep

\* A release of leases, and of their copies.
LEMMA ReclaimedAlike ==
  ASSUME Faithful, NEW t, Sound(t), NEW u, Sound(u), Alike(t, u),
         NEW gone \in SUBSET t.leases, NEW lost \in SUBSET u.leases, NEW first, NEW second,
         \A l \in gone : \E m \in lost : SameLease(l, m),
         \A m \in lost : \E l \in gone : SameLease(l, m)
  PROVE  Alike(Reclaimed(t, gone, first), Reclaimed(u, lost, second))
  <1>1. /\ \A l, m \in t.leases : l.id = m.id => l = m
        /\ \A l, m \in u.leases : l.id = m.id => l = m
    BY InvCoverage DEF Sound, DisjointIn
  <1>2. \A l, m : SameLease(l, m) => Outstanding(l) = Outstanding(m)
    BY DEF SameLease, Outstanding
  <1>4. ASSUME NEW l \in t.leases \ gone
        PROVE  \E m \in u.leases \ lost : SameLease(l, m)
    <2>1. PICK m \in u.leases : SameLease(l, m)
      BY DEF Alike
    <2>2. m \notin lost
      BY <1>1, <2>1 DEF SameLease
    <2> QED BY <2>1, <2>2
  <1>5. ASSUME NEW m \in u.leases \ lost
        PROVE  \E l \in t.leases \ gone : SameLease(l, m)
    <2>1. PICK l \in t.leases : SameLease(l, m)
      BY DEF Alike
    <2>2. l \notin gone
      BY <1>1, <2>1 DEF SameLease
    <2> QED BY <2>1, <2>2
  <1> DEFINE r == Reclaimed(t, gone, first)
             q == Reclaimed(u, lost, second)
  <1>3. Risked(gone) = Risked(lost)
    BY <1>2 DEF Risked
  <1>6. r.epoch = t.epoch /\ r.seq = t.seq /\ r.leases = t.leases \ gone
        /\ r.state = Fill(t.state, Risked(gone), UNASSIGNED)
    BY ReclaimedCore
  <1>7. q.epoch = u.epoch /\ q.seq = u.seq /\ q.leases = u.leases \ lost
        /\ q.state = Fill(u.state, Risked(gone), UNASSIGNED)
    BY <1>3, ReclaimedCore
  <1> HIDE DEF r, q
  <1>8. Alike(r, q)
    BY <1>4, <1>5, <1>6, <1>7 DEF Alike
  <1> QED BY <1>8 DEF r, q

\* What a commit leaves.
LEMMA CommittedCore ==
  ASSUME NEW t, Sound(t), NEW l \in t.leases, NEW w \in Nat
  PROVE  LET r == Committed(t, l, w)
             through == Settled(l, w)
         IN  /\ r.epoch = t.epoch /\ r.seq = t.seq
             /\ r.state = Fill(t.state, l.committed_end .. through - 1, COMMITTED)
             /\ \E k : /\ k.id = l.id /\ k.cluster = l.cluster /\ k.end = l.end
                       /\ k.committed_end = through /\ k.overdue = l.overdue
                       /\ r.leases = (t.leases \ {l}) \cup (IF through >= l.end THEN {} ELSE {k})
  <1> DEFINE through == Settled(l, w)
             newly == through - l.committed_end
             kept == [l EXCEPT !.committed_end = through,
                               !.progress_end = IF newly > 0 THEN Larger(@, through) ELSE @]
             S == Fill(t.state, l.committed_end .. through - 1, COMMITTED)
             L == (t.leases \ {l}) \cup (IF through >= l.end THEN {} ELSE {kept})
             r == Committed(t, l, w)
  <1>1. t \in Table /\ l \in Lease
    BY InvCoverage DEF Sound, Table
  <1>2. \E n, C : r = [t EXCEPT !.state = S, !.committed = n, !.leases = L, !.clusters = C]
    <2>1. \E n, C : r = [t EXCEPT !.state = S, !.committed = n, !.leases = L, !.clusters = C]
      BY DEF Committed
    <2> QED BY <2>1
  <1>3. /\ kept.id = l.id /\ kept.cluster = l.cluster /\ kept.end = l.end
        /\ kept.committed_end = through /\ kept.overdue = l.overdue
    <2>1. \E p : kept = [l EXCEPT !.committed_end = through, !.progress_end = p]
      OBVIOUS
    <2> HIDE DEF kept, through
    <2> QED BY <1>1, <2>1 DEF Lease
  <1> HIDE DEF r, S, kept
  <1>4. r.epoch = t.epoch /\ r.seq = t.seq /\ r.state = S /\ r.leases = L
    BY <1>1, <1>2 DEF Table
  <1>5. \E k : /\ k.id = l.id /\ k.cluster = l.cluster /\ k.end = l.end
               /\ k.committed_end = through /\ k.overdue = l.overdue
               /\ r.leases = (t.leases \ {l}) \cup (IF through >= l.end THEN {} ELSE {k})
    BY <1>3, <1>4
  <1> QED BY <1>4, <1>5 DEF S, r

\* A commit to a lease, and to its copy.
LEMMA CommittedAlike ==
  ASSUME NEW t, Sound(t), NEW u, Sound(u), Alike(t, u),
         NEW l \in t.leases, NEW m \in u.leases, SameLease(l, m), NEW w \in Nat
  PROVE  Alike(Committed(t, l, w), Committed(u, m, w))
  <1> DEFINE r == Committed(t, l, w)
             q == Committed(u, m, w)
             h == Settled(l, w)
             S == l.committed_end .. h - 1
  <1>1. /\ \A x, y \in t.leases : x.id = y.id => x = y
        /\ \A x, y \in u.leases : x.id = y.id => x = y
    BY InvCoverage DEF Sound, DisjointIn
  <1>2. h = Settled(m, w) /\ S = m.committed_end .. h - 1
    BY DEF SameLease, Settled
  <1>3. r.epoch = t.epoch /\ r.seq = t.seq /\ r.state = Fill(t.state, S, COMMITTED)
    BY CommittedCore
  <1>4. q.epoch = u.epoch /\ q.seq = u.seq /\ q.state = Fill(u.state, S, COMMITTED)
    BY <1>2, CommittedCore
  <1>5. PICK k : /\ k.id = l.id /\ k.cluster = l.cluster /\ k.end = l.end /\ k.committed_end = h
                 /\ r.leases = (t.leases \ {l}) \cup (IF h >= l.end THEN {} ELSE {k})
    BY CommittedCore
  <1>6. PICK n : /\ n.id = m.id /\ n.cluster = m.cluster /\ n.end = m.end /\ n.committed_end = h
                 /\ q.leases = (u.leases \ {m}) \cup (IF h >= m.end THEN {} ELSE {n})
    BY <1>2, CommittedCore
  <1> HIDE DEF r, q, h, S
  <1>7. ASSUME NEW x \in t.leases \ {l}
        PROVE  \E y \in u.leases \ {m} : SameLease(x, y)
    <2>1. PICK y \in u.leases : SameLease(x, y)
      BY DEF Alike
    <2>2. y # m
      BY <1>1, <2>1 DEF SameLease
    <2> QED BY <2>1, <2>2
  <1>8. ASSUME NEW y \in u.leases \ {m}
        PROVE  \E x \in t.leases \ {l} : SameLease(x, y)
    <2>1. PICK x \in t.leases : SameLease(x, y)
      BY DEF Alike
    <2>2. x # l
      BY <1>1, <2>1 DEF SameLease
    <2> QED BY <2>1, <2>2
  <1>9. SameLease(k, n) /\ l.end = m.end
    BY <1>5, <1>6 DEF SameLease
  <1>10. /\ \A x \in r.leases : \E y \in q.leases : SameLease(x, y)
         /\ \A y \in q.leases : \E x \in r.leases : SameLease(x, y)
    <2>1. CASE h >= l.end
      BY <1>5, <1>6, <1>7, <1>8, <1>9, <2>1
    <2>2. CASE ~(h >= l.end)
      BY <1>5, <1>6, <1>7, <1>8, <1>9, <2>2
    <2> QED BY <2>1, <2>2
  <1>11. Alike(r, q)
    BY <1>3, <1>4, <1>10 DEF Alike
  <1> QED BY <1>11 DEF r, q

-----------------------------------------------------------------------------
(* An acquire, and the replay of its line                                  *)

\* Reaching the top of a ladder one rung at a time.
LEMMA Climb ==
  ASSUME NEW n \in Nat, NEW D \in SUBSET (0 .. n), 0 \in D, \A i \in D : i < n => i + 1 \in D
  PROVE  n \in D
  <1> DEFINE Above(i) == i .. n
             B == {Above(i) : i \in D}
             S == 0 .. n
  <1>1. B \in SUBSET (SUBSET S) /\ \E x : x \in B
    <2>1. \A i \in D : i \in Nat
      OBVIOUS
    <2> QED BY <2>1
  <1>2. IsFiniteSet(S)
    <2>1. 0 \in Int /\ n \in Int
      OBVIOUS
    <2> QED BY <2>1, FS_Interval
  <1>3. \A i \in D : Above(i) \in B
    OBVIOUS
  <1>4. \A x \in B : \E i \in D : x = Above(i)
    OBVIOUS
  <1> HIDE DEF B
  <1>5. PICK x \in B : \A y \in B : y \subseteq x => y = x
    <2> HIDE DEF S, Above
    <2> QED BY <1>1, <1>2, Smallest
  <1>6. PICK i \in D : x = Above(i)
    BY <1>4
  <1>7. ASSUME i < n
        PROVE  FALSE
    <2>1. i + 1 \in D /\ i \in Nat
      BY <1>7
    <2>2. Above(i + 1) \in B
      BY <1>3, <2>1
    <2>3. Above(i + 1) \subseteq Above(i) /\ i \in Above(i) /\ i \notin Above(i + 1)
      BY <1>7, <2>1
    <2> QED BY <1>5, <1>6, <2>2, <2>3
  <1>8. i = n
    BY <1>7
  <1> QED BY <1>6, <1>8

\* The i-th lease of a grant.
Grant(t, c, spans, i) ==
    [id |-> <<t.epoch, spans[i][1], t.seq + i>>, cluster |-> c, epoch |-> t.epoch,
     start |-> spans[i][1], end |-> spans[i][2],
     committed_end |-> spans[i][1], progress_end |-> spans[i][1], overdue |-> FALSE]

\* What a granting acquire did to the table, and wrote to the journal.
GrantOf(c, spans) ==
    LET n == Len(spans)
    IN  /\ WorkVector(spans)
        /\ \A b \in Covered(spans) : b \in Blocks /\ table.state[b] = UNASSIGNED
        /\ table'.epoch = table.epoch /\ table'.seq = table.seq + n
        /\ table'.state = Fill(table.state, Covered(spans), LEASED)
        /\ table'.leases = table.leases \cup {Grant(table, c, spans, i) : i \in 1 .. n}
        /\ Grants = [i \in 1 .. n |-> Grant(table, c, spans, i)]

\* Every acquire that grants is a grant of free positions by spans.
LEMMA AcquireGrants ==
  ASSUME Faithful, Sound(table), Fresh(table), NEW c \in Cluster, AcquireFree(c)
  PROVE  \E spans : GrantOf(c, spans)
  <1> DEFINE t == AcquireBase(c)
  <1>0. Inv(table) /\ table \in Table
    BY InvCoverage DEF Sound
  <1>1. PICK spans :
          /\ t \in Table /\ Inv(t) /\ WorkVector(spans) /\ Covered(spans) \subseteq t.free
          /\ table' = Granted([t EXCEPT !.free = @ \ Covered(spans)], c, spans)
    BY <1>0, AcquireFreeFacts
  <1>2. SameCore(table, t)
    BY AcquireBaseCore
  <1> HIDE DEF t
  <1> DEFINE taken == [t EXCEPT !.free = @ \ Covered(spans)]
             n == Len(spans)
             N(i) == Grant(table, c, spans, i)
  <1>3. /\ taken.epoch = table.epoch /\ taken.seq = table.seq /\ taken.state = table.state
        /\ taken.leases = table.leases /\ table' = Granted(taken, c, spans) /\ taken \in Table
    BY <1>1, <1>2 DEF SameCore, Table
  <1> HIDE DEF taken
  <1>4. /\ table'.epoch = table.epoch /\ table'.seq = table.seq + n
        /\ table'.state = Fill(table.state, Covered(spans), LEASED)
        /\ table'.leases = table.leases \cup {N(i) : i \in 1 .. n}
    BY <1>3 DEF Granted, Grant, Table
  <1>5. \A b \in Covered(spans) : b \in Blocks /\ table.state[b] = UNASSIGNED
    <2>1. CoverageIn(t) /\ t.free \in SUBSET Blocks
      BY <1>1, InvCoverage DEF Table
    <2> QED BY <1>1, <1>2, <2>1 DEF CoverageIn, SameCore
  <1>6. table.seq \in Nat /\ n \in Nat \ {0}
    BY <1>0, <1>1 DEF Table, WorkVector
  <1>7. \A l \in table.leases : l.id[3] \in Nat /\ l.id[3] <= table.seq
    BY <1>0 DEF Inv, InvBut, Issued, Table, Lease
  <1>8. \A i : N(i).id[3] = table.seq + i
    BY DEF Grant
  <1> HIDE DEF n, N
  <1>9. ASSUME NEW i \in 1 .. n
        PROVE  (CHOOSE l \in table'.leases : l.id[3] = table.seq + i) = N(i)
    <2>1. N(i) \in table'.leases /\ N(i).id[3] = table.seq + i
      BY <1>4, <1>8
    <2>2. ASSUME NEW l \in table'.leases, l.id[3] = table.seq + i
          PROVE  l = N(i)
      <3>1. CASE l \in table.leases
        BY <1>6, <1>7, <2>2, <3>1
      <3>2. CASE \E k \in 1 .. n : l = N(k)
        <4>1. PICK k \in 1 .. n : l = N(k)
          BY <3>2
        <4>2. table.seq + k = table.seq + i
          BY <1>8, <2>2, <4>1
        <4>3. k = i
          BY <1>6, <4>2
        <4> QED BY <4>1, <4>3
      <3> QED BY <1>4, <3>1, <3>2
    <2> QED BY <2>1, <2>2
  <1>10. Grants = [i \in 1 .. n |-> N(i)]
    <2>1. table'.seq - table.seq = n
      BY <1>4, <1>6
    <2>2. Grants = [i \in 1 .. n |-> CHOOSE l \in table'.leases : l.id[3] = table.seq + i]
      BY <2>1 DEF Grants
    <2> QED BY <1>9, <2>2
  <1> QED BY <1>1, <1>4, <1>5, <1>10 DEF GrantOf, n, N

\* y is the copy t of the table after i leases of the grant.
TakenOver(t, c, spans, i, y) ==
    /\ y \in SoundTable
    /\ y.epoch = t.epoch /\ y.seq = t.seq + i
    /\ \A b \in Blocks : y.state[b] = IF \E k \in 1 .. i : b \in spans[k][1] .. spans[k][2] - 1
                                      THEN LEASED ELSE t.state[b]
    /\ t.leases \subseteq y.leases
    /\ \A k \in 1 .. i : \E m \in y.leases : SameLease(m, Grant(table, c, spans, k))
    /\ \A m \in y.leases : m \in t.leases \/ \E k \in 1 .. i : SameLease(m, Grant(table, c, spans, k))

\* The fields of a lease of a grant.
LEMMA GrantLease ==
  ASSUME Sound(table), NEW c \in Cluster, NEW spans, WorkVector(spans), NEW i \in 1 .. Len(spans)
  PROVE  LET g == Grant(table, c, spans, i)
         IN  /\ g \in Lease /\ g.epoch = table.epoch /\ g.cluster = c
             /\ g.start = spans[i][1] /\ g.end = spans[i][2] /\ g.committed_end = spans[i][1]
             /\ g.id = <<table.epoch, spans[i][1], table.seq + i>> /\ g.id[3] = table.seq + i
  <1>1. table.epoch \in Nat /\ table.seq \in Nat
    BY InvCoverage DEF Sound, Table
  <1>2. Len(spans) \in Nat /\ i \in Nat /\ spans[i][1] \in Nat /\ spans[i][2] \in Nat
    BY DEF WorkVector
  <1> QED BY <1>1, <1>2 DEF Grant, Lease

\* The positions of the next lease of a grant are still free in the copy, so the
\* replay takes all of them.
LEMMA NextGrant ==
  ASSUME Faithful, Sound(table), NEW t \in SoundTable, Alike(t, table), NEW c \in Cluster,
         NEW spans, WorkVector(spans),
         \A b \in Covered(spans) : b \in Blocks /\ table.state[b] = UNASSIGNED,
         NEW i \in Nat, i + 1 \in 1 .. Len(spans), NEW y, TakenOver(t, c, spans, i, y)
  PROVE  \E z : /\ z \in ReplayLease(Registered(y, c, NoIncarnation), Grant(table, c, spans, i + 1))
                /\ Sound(z) /\ TakenOver(t, c, spans, i + 1, z)
  <1> DEFINE base == Registered(y, c, NoIncarnation)
             g == Grant(table, c, spans, i + 1)
             j == i + 1
             lo == spans[i + 1][1]
             hi == spans[i + 1][2]
             z == Installed(base, g, lo, hi)
             span == lo .. hi - 1
  <1>1. y \in SoundTable /\ Sound(y) /\ y \in Table /\ Sound(t) /\ t \in Table /\ table \in Table
    BY InvCoverage DEF TakenOver, SoundTable, Sound
  <1>2. SameCore(y, base) /\ Sound(base)
    BY <1>1, RegisteredCore, RegisteredInv, RegisteredCredit DEF Sound
  <1>3. base \in Table
    BY <1>2, InvCoverage DEF Sound
  <1> HIDE DEF base
  <1>4. /\ g \in Lease /\ g.epoch = table.epoch /\ g.cluster = c
        /\ g.start = lo /\ g.end = hi /\ g.committed_end = lo
        /\ g.id[3] = table.seq + (i + 1)
    BY GrantLease
  <1>5. /\ lo \in Nat /\ hi \in Nat /\ lo < hi /\ hi <= NumBlocks /\ NumBlocks \in Nat
        /\ Len(spans) \in Nat /\ j \in 1 .. Len(spans) /\ j \in DOMAIN spans
    BY PoolAssumption DEF WorkVector
  <1>6. table.seq \in Nat /\ t.seq = table.seq /\ t.epoch = table.epoch /\ t.state = table.state
    BY <1>1 DEF Alike, Table
  <1>7. /\ base.epoch = table.epoch /\ base.seq = table.seq + i /\ base.leases = y.leases
        /\ base.state = y.state
    BY <1>2, <1>6 DEF SameCore, TakenOver
  <1>8. ASSUME NEW b \in span
        PROVE  base.state[b] = UNASSIGNED
    <2>1. b \in Covered(spans)
      BY <1>5 DEF Covered
    <2>2. b \in Blocks /\ t.state[b] = UNASSIGNED
      BY <1>6, <2>1
    <2>3. \A k \in 1 .. i : b \notin spans[k][1] .. spans[k][2] - 1
      <3> SUFFICES ASSUME NEW k \in 1 .. i
                   PROVE  b \notin spans[k][1] .. spans[k][2] - 1
        OBVIOUS
      <3>1. k \in DOMAIN spans /\ k # j
        BY <1>5 DEF WorkVector
      <3>2. (spans[k][1] .. spans[k][2] - 1) \cap (spans[j][1] .. spans[j][2] - 1) = {}
        BY <1>5, <3>1 DEF WorkVector
      <3> QED BY <3>2
    <2> QED BY <1>7, <2>2, <2>3 DEF TakenOver
  <1>9. ASSUME NEW m \in base.leases
        PROVE  m.id # g.id
    <2>1. CASE m \in t.leases
      <3>1. m.id[3] <= t.seq /\ m.id[3] \in Nat
        BY <1>1, <2>1 DEF Sound, Inv, InvBut, Issued, Table, Lease
      <3> QED BY <1>4, <1>6, <3>1
    <2>2. CASE \E k \in 1 .. i : SameLease(m, Grant(table, c, spans, k))
      <3>1. PICK k \in 1 .. i : SameLease(m, Grant(table, c, spans, k))
        BY <2>2
      <3>2. k \in 1 .. Len(spans) /\ k \in Nat /\ k # i + 1
        BY <1>5
      <3>3. Grant(table, c, spans, k).id[3] = table.seq + k
        BY <3>2, GrantLease
      <3>4. table.seq + k # table.seq + (i + 1)
        BY <1>6, <3>2
      <3> QED BY <1>4, <3>1, <3>3, <3>4 DEF SameLease
    <2> QED BY <1>7, <2>1, <2>2 DEF TakenOver
  <1> HIDE DEF g
  <1>10. Replayable(base, g, lo, hi)
    BY <1>4, <1>5, <1>8 DEF Replayable
  <1>11. z \in ReplayLease(base, g)
    <2> DEFINE runs == {r \in (0 .. NumBlocks) \X (0 .. NumBlocks) :
                           /\ g.epoch = base.epoch /\ \A m \in base.leases : m.id # g.id
                           /\ Replayable(base, g, r[1], r[2])}
    <2>1. <<lo, hi>> \in runs
      BY <1>4, <1>5, <1>7, <1>9, <1>10
    <2>2. ReplayLease(base, g) = IF runs = {} THEN {base} ELSE {Installed(base, g, r[1], r[2]) : r \in runs}
      BY DEF ReplayLease
    <2> HIDE DEF runs
    <2> QED BY <2>1, <2>2
  <1>12. Sound(z)
    BY <1>2, <1>4, <1>11, ReplayLeaseSound
  <1>13. z \in SoundTable
    BY <1>12, InvCoverage DEF SoundTable, Sound
  <1>14. \E l : /\ l.id = g.id /\ l.cluster = c /\ l.committed_end = lo /\ l.end = hi
                /\ z.leases = base.leases \cup {l}
    <2> DEFINE l == [g EXCEPT !.start = lo, !.end = hi, !.committed_end = lo,
                              !.progress_end = Smaller(Larger(@, lo), hi), !.overdue = FALSE]
    <2>1. z.leases = base.leases \cup {l}
      BY <1>3 DEF Installed, Table
    <2>2. l.id = g.id /\ l.cluster = c /\ l.committed_end = lo /\ l.end = hi
      BY <1>4 DEF Lease
    <2> HIDE DEF l
    <2> QED BY <2>1, <2>2
  <1>15. z.epoch = base.epoch /\ z.seq = Larger(base.seq, g.id[3]) /\ z.state = Fill(base.state, span, LEASED)
    BY <1>3 DEF Installed, Table
  <1> HIDE DEF z
  <1>16. z.epoch = t.epoch /\ z.seq = t.seq + (i + 1)
    BY <1>4, <1>6, <1>7, <1>15 DEF Larger
  <1>17. ASSUME NEW b \in Blocks
         PROVE  z.state[b] = IF \E k \in 1 .. i + 1 : b \in spans[k][1] .. spans[k][2] - 1
                             THEN LEASED ELSE t.state[b]
    <2>1. z.state[b] = IF b \in span THEN LEASED ELSE y.state[b]
      BY <1>7, <1>15 DEF Fill
    <2>2. y.state[b] = IF \E k \in 1 .. i : b \in spans[k][1] .. spans[k][2] - 1
                       THEN LEASED ELSE t.state[b]
      BY DEF TakenOver
    <2>3. \A k : k \in 1 .. i + 1 <=> k \in 1 .. i \/ k = i + 1
      OBVIOUS
    <2>4. (\E k \in 1 .. i + 1 : b \in spans[k][1] .. spans[k][2] - 1)
          <=> (b \in span \/ \E k \in 1 .. i : b \in spans[k][1] .. spans[k][2] - 1)
      BY <2>3
    <2> QED BY <2>1, <2>2, <2>4
  <1>18. /\ t.leases \subseteq z.leases
         /\ \A k \in 1 .. i + 1 : \E m \in z.leases : SameLease(m, Grant(table, c, spans, k))
         /\ \A m \in z.leases : m \in t.leases \/ \E k \in 1 .. i + 1 : SameLease(m, Grant(table, c, spans, k))
    <2>1. PICK l : /\ l.id = g.id /\ l.cluster = c /\ l.committed_end = lo /\ l.end = hi
                   /\ z.leases = base.leases \cup {l}
      BY <1>14
    <2>2. SameLease(l, g)
      BY <1>4, <2>1 DEF SameLease
    <2>3. \A k : k \in 1 .. i + 1 <=> k \in 1 .. i \/ k = i + 1
      OBVIOUS
    <2> QED BY <1>7, <2>1, <2>2, <2>3 DEF TakenOver, g
  <1>19. TakenOver(t, c, spans, i + 1, z)
    BY <1>13, <1>16, <1>17, <1>18 DEF TakenOver
  <1> QED BY <1>11, <1>12, <1>19 DEF base, g

\* What is left of the line of a grant after i of its leases.
LineAfter(c, spans, i) ==
    [op |-> "acquire", cluster |-> c, leases |-> SubSeq(Grants, i + 1, Len(spans))]

\* The line of a grant loses its leases from the front.
LEMMA LineAfterFacts ==
  ASSUME Sound(table), NEW c \in Cluster, NEW spans, GrantOf(c, spans),
         NEW i \in Nat, i + 1 \in 1 .. Len(spans)
  PROVE  /\ LineAfter(c, spans, i) \in Whole
         /\ LineAfter(c, spans, i).op = "acquire" /\ LineAfter(c, spans, i).cluster = c
         /\ LineAfter(c, spans, i).leases[1] = Grant(table, c, spans, i + 1)
         /\ Len(LineAfter(c, spans, i).leases) = Len(spans) - i
         /\ i + 1 < Len(spans) => Shorter(LineAfter(c, spans, i)) = LineAfter(c, spans, i + 1)
         /\ LineAfter(c, spans, 0) = [op |-> "acquire", cluster |-> c, leases |-> Grants]
  <1> DEFINE n == Len(spans)
             g == Grants
             r == SubSeq(g, i + 1, n)
             line == LineAfter(c, spans, i)
  <1>1. WorkVector(spans) /\ g = [k \in 1 .. n |-> Grant(table, c, spans, k)] /\ n \in Nat \ {0}
    BY DEF GrantOf, WorkVector
  <1>2. \A k \in 1 .. n : g[k] = Grant(table, c, spans, k) /\ g[k] \in Lease
    BY <1>1, GrantLease
  <1>3. g \in Seq(Lease) /\ Len(g) = n
    <2>1. g \in [1 .. n -> Lease]
      BY <1>1, <1>2
    <2> HIDE DEF g, n
    <2> QED BY <1>1, <2>1, SeqDef, LenProperties
  <1> HIDE DEF g
  <1>4. i + 1 \in 1 .. n /\ i + 1 \in Int /\ n \in Int /\ n \in i + 1 .. Len(g) /\ i + 1 \in 1 .. Len(g)
    BY <1>1, <1>3
  <1> HIDE DEF n
  <1>5. r \in Seq(Lease) /\ Len(r) = n - i /\ r[1] = g[i + 1]
    <2>1. \A k \in i + 1 .. n : g[k] \in Lease
      BY <1>2, <1>4
    <2>2. /\ r \in Seq(Lease) /\ Len(r) = IF i + 1 <= n THEN n - (i + 1) + 1 ELSE 0
          /\ \A k \in 1 .. n - (i + 1) + 1 : r[k] = g[i + 1 + k - 1]
      BY <1>4, <2>1, SubSeqProperties
    <2> HIDE DEF r
    <2> QED BY <1>4, <2>2
  <1>7. SubSeq(g, 1, n) = g
    BY <1>3, SubSeqFull
  <1>8. line = [op |-> "acquire", cluster |-> c, leases |-> r]
    BY DEF LineAfter, n, g
  <1> HIDE DEF r
  <1>9. r # <<>>
    BY <1>4, <1>5
  <1>10. line \in Whole
    BY <1>5, <1>8, <1>9 DEF Whole, Line
  <1>11. Shorter(line) = LineAfter(c, spans, i + 1)
    <2>1. LineAfter(c, spans, i + 1) = [op |-> "acquire", cluster |-> c, leases |-> SubSeq(g, i + 1 + 1, n)]
      BY DEF LineAfter, n, g
    <2>2. Tail(r) = SubSeq(g, i + 1 + 1, n)
      BY <1>3, <1>4, HeadTailOfSubSeq DEF r
    <2> HIDE DEF line
    <2>3. Shorter(line) = [op |-> "acquire", cluster |-> c, leases |-> Tail(r)]
      BY <1>8 DEF Shorter
    <2> QED BY <2>1, <2>2, <2>3
  <1>12. LineAfter(c, spans, 0) = [op |-> "acquire", cluster |-> c, leases |-> Grants]
    <2>1. 0 + 1 = 1
      OBVIOUS
    <2> QED BY <1>7, <2>1 DEF LineAfter, n, g
  <1> QED BY <1>2, <1>4, <1>5, <1>8, <1>10, <1>11, <1>12 DEF n

\* Replaying the first lease of what is left of a grant.
LEMMA GrantStep ==
  ASSUME Sound(table), NEW c \in Cluster, NEW spans, GrantOf(c, spans),
         NEW i \in Nat, i + 1 < Len(spans), NEW y \in SoundTable, NEW z,
         z \in ReplayLease(Registered(y, c, NoIncarnation), Grant(table, c, spans, i + 1)),
         NEW u
  PROVE  Rebuilt(y, <<LineAfter(c, spans, i)>>, u) <=> Rebuilt(z, <<LineAfter(c, spans, i + 1)>>, u)
  <1> DEFINE line == LineAfter(c, spans, i)
             next == LineAfter(c, spans, i + 1)
             a == <<y, <<line>>>>
             b == <<z, <<next>>>>
             n == Len(spans)
  <1>1. i + 1 \in 1 .. n /\ n \in Nat
    BY DEF GrantOf, WorkVector
  <1>2. /\ line \in Whole /\ line.op = "acquire" /\ line.cluster = c
        /\ line.leases[1] = Grant(table, c, spans, i + 1)
        /\ Len(line.leases) = n - i /\ Shorter(line) = next
    BY <1>1, LineAfterFacts
  <1> HIDE DEF line, next
  <1>3. Applied(y, line, z)
    BY <1>2 DEF Applied
  <1>4. /\ <<line>> \in Seq(Whole) /\ <<line>> # <<>> /\ Head(<<line>>) = line
        /\ [<<line>> EXCEPT ![1] = next] = <<next>>
    BY <1>2
  <1>5. Left(<<line>>) = <<next>>
    <2>1. Len(line.leases) # 1
      BY <1>1, <1>2
    <2>2. Left(<<line>>) = [<<line>> EXCEPT ![1] = Shorter(line)]
      BY <1>2, <1>4, <2>1 DEF Left
    <2> QED BY <1>2, <1>4, <2>2
  <1>6. a \in Moment /\ a[1] = y /\ a[2] = <<line>>
    BY <1>4 DEF Moment
  <1> HIDE DEF a
  <1>7. b \in Moment /\ ReplayStep(a, b)
    BY <1>3, <1>4, <1>5, <1>6, MomentStep
  <1>8. b[1] = z /\ b[2] = <<next>>
    OBVIOUS
  <1> HIDE DEF b
  <1>9. Rebuilt(a[1], a[2], u) <=> Rebuilt(b[1], b[2], u)
    BY <1>6, <1>7, RebuiltStep
  <1> QED BY <1>6, <1>8, <1>9 DEF line, next

\* The copy of a table takes a grant over from its line.
LEMMA GrantReplayed ==
  ASSUME Faithful, Sound(table), NEW t \in SoundTable, Alike(t, table), NEW c \in Cluster,
         NEW spans, GrantOf(c, spans)
  PROVE  \E u : /\ Rebuilt(t, <<[op |-> "acquire", cluster |-> c, leases |-> Grants]>>, u)
                /\ Alike(u, table')
  <1> DEFINE n == Len(spans)
             last == n - 1
             D == {i \in 0 .. last :
                     \E y : /\ TakenOver(t, c, spans, i, y)
                            /\ \A u : Rebuilt(y, <<LineAfter(c, spans, i)>>, u)
                                        => Rebuilt(t, <<LineAfter(c, spans, 0)>>, u)}
  <1>1. WorkVector(spans) /\ n \in Nat \ {0} /\ last \in Nat
        /\ \A b \in Covered(spans) : b \in Blocks /\ table.state[b] = UNASSIGNED
    BY DEF GrantOf, WorkVector
  <1>2. 0 \in D
    <2>1. t.seq \in Nat /\ t \in Table
      BY DEF SoundTable, Table
    <2>2. TakenOver(t, c, spans, 0, t)
      BY <2>1 DEF TakenOver
    <2> QED BY <1>1, <2>2
  <1>3. ASSUME NEW i \in D
        PROVE  /\ i \in Nat /\ i + 1 \in 1 .. n
               /\ \E y, z : /\ TakenOver(t, c, spans, i, y) /\ y \in SoundTable
                            /\ \A u : Rebuilt(y, <<LineAfter(c, spans, i)>>, u)
                                        => Rebuilt(t, <<LineAfter(c, spans, 0)>>, u)
                            /\ z \in ReplayLease(Registered(y, c, NoIncarnation),
                                                 Grant(table, c, spans, i + 1))
                            /\ TakenOver(t, c, spans, i + 1, z)
    <2>1. i \in Nat /\ i + 1 \in 1 .. n
      BY <1>1
    <2>2. PICK y : /\ TakenOver(t, c, spans, i, y)
                   /\ \A u : Rebuilt(y, <<LineAfter(c, spans, i)>>, u)
                               => Rebuilt(t, <<LineAfter(c, spans, 0)>>, u)
      OBVIOUS
    <2>3. y \in SoundTable
      BY <2>2 DEF TakenOver
    <2>4. \E z : /\ z \in ReplayLease(Registered(y, c, NoIncarnation), Grant(table, c, spans, i + 1))
                 /\ TakenOver(t, c, spans, i + 1, z)
      BY <1>1, <2>1, <2>2, NextGrant
    <2> QED BY <2>1, <2>2, <2>3, <2>4
  <1>4. ASSUME NEW i \in D, i < last
        PROVE  i + 1 \in D
    <2>1. PICK y, z : /\ TakenOver(t, c, spans, i, y) /\ y \in SoundTable
                      /\ \A u : Rebuilt(y, <<LineAfter(c, spans, i)>>, u)
                                  => Rebuilt(t, <<LineAfter(c, spans, 0)>>, u)
                      /\ z \in ReplayLease(Registered(y, c, NoIncarnation),
                                           Grant(table, c, spans, i + 1))
                      /\ TakenOver(t, c, spans, i + 1, z)
      BY <1>3
    <2>2. i \in Nat /\ i + 1 < n /\ i + 1 \in 0 .. last
      BY <1>1, <1>4
    <2>3. \A u : Rebuilt(z, <<LineAfter(c, spans, i + 1)>>, u)
                   => Rebuilt(t, <<LineAfter(c, spans, 0)>>, u)
      BY <2>1, <2>2, GrantStep
    <2> QED BY <2>1, <2>2, <2>3
  <1>5. last \in D
    <2>1. D \in SUBSET (0 .. last)
      OBVIOUS
    <2> HIDE DEF D, last
    <2> QED BY <1>1, <1>2, <1>4, <2>1, Climb
  <1>6. PICK y, z : /\ TakenOver(t, c, spans, last, y) /\ y \in SoundTable
                    /\ \A u : Rebuilt(y, <<LineAfter(c, spans, last)>>, u)
                                => Rebuilt(t, <<LineAfter(c, spans, 0)>>, u)
                    /\ z \in ReplayLease(Registered(y, c, NoIncarnation),
                                         Grant(table, c, spans, last + 1))
                    /\ TakenOver(t, c, spans, last + 1, z)
    BY <1>3, <1>5
  <1> HIDE DEF D
  <1> DEFINE line == LineAfter(c, spans, last)
  <1>7. /\ line \in Whole /\ line.op = "acquire" /\ line.cluster = c
        /\ line.leases[1] = Grant(table, c, spans, last + 1) /\ Len(line.leases) = 1
        /\ LineAfter(c, spans, 0) = [op |-> "acquire", cluster |-> c, leases |-> Grants]
    <2>1. last + 1 \in 1 .. n /\ n - last = 1
      BY <1>1
    <2>2. last \in Nat /\ last + 1 \in 1 .. Len(spans) /\ Len(spans) - last = 1
      BY <1>1, <2>1
    <2> HIDE DEF last, n
    <2>3. /\ line \in Whole /\ line.op = "acquire" /\ line.cluster = c
          /\ line.leases[1] = Grant(table, c, spans, last + 1)
          /\ Len(line.leases) = Len(spans) - last
      BY <2>2, LineAfterFacts
    <2>4. LineAfter(c, spans, 0) = [op |-> "acquire", cluster |-> c, leases |-> Grants]
      BY <2>2, LineAfterFacts
    <2> QED BY <2>2, <2>3, <2>4
  <1> HIDE DEF line
  <1>8. Applied(y, line, z)
    BY <1>6, <1>7 DEF Applied
  <1>9. Rebuilt(y, <<line>>, z)
    BY <1>6, <1>7, <1>8, OneLine
  <1>10. Rebuilt(t, <<[op |-> "acquire", cluster |-> c, leases |-> Grants]>>, z)
    BY <1>6, <1>7, <1>9 DEF line
  <1>11. TakenOver(t, c, spans, n, z) /\ last + 1 = n
    BY <1>1, <1>6
  <1>12. Alike(z, table')
    <2>1. /\ table'.epoch = table.epoch /\ table'.seq = table.seq + n
          /\ table'.state = Fill(table.state, Covered(spans), LEASED)
          /\ table'.leases = table.leases \cup {Grant(table, c, spans, i) : i \in 1 .. n}
      BY DEF GrantOf
    <2>2. z.state = table'.state
      <3>1. z.state \in [Blocks -> BlockState]
        BY <1>11 DEF TakenOver, SoundTable, Table
      <3>2. \A b : b \in Covered(spans) <=> \E k \in 1 .. n : b \in spans[k][1] .. spans[k][2] - 1
        BY <1>1 DEF Covered, WorkVector
      <3>3. \A b \in Blocks : z.state[b] = IF b \in Covered(spans) THEN LEASED ELSE table.state[b]
        BY <1>11, <3>2 DEF TakenOver, Alike
      <3> QED BY <2>1, <3>1, <3>3 DEF Fill
    <2>3. z.epoch = table'.epoch /\ z.seq = table'.seq
      BY <1>11, <2>1 DEF TakenOver, Alike
    <2>4. \A m \in z.leases : \E l \in table'.leases : SameLease(m, l)
      BY <1>11, <2>1 DEF TakenOver, Alike
    <2>5. \A l \in table'.leases : \E m \in z.leases : SameLease(m, l)
      BY <1>11, <2>1 DEF TakenOver, Alike
    <2> QED BY <2>2, <2>3, <2>4, <2>5 DEF Alike
  <1> QED BY <1>10, <1>12

-----------------------------------------------------------------------------
(* What a replay keeps                                                     *)

\* A line starts no epoch, reopens no committed position and lets no deadline
\* pass.
LEMMA AppliedKeeps ==
  ASSUME Faithful, NEW t, Sound(t), NEW line \in Whole, NEW u, Applied(t, line, u)
  PROVE  /\ u.epoch = t.epoch
         /\ \A b \in Blocks : t.state[b] = COMMITTED => u.state[b] = COMMITTED
         /\ Fresh(t) => Fresh(u)
  <1>0. t \in Table /\ CoverageIn(t) /\ line \in Line
    BY InvCoverage DEF Sound, Whole
  <1>1. CASE line.op = "register" /\ u = Registered(t, line.cluster, line.incarnation)
    <2>1. line.cluster \in Cluster
      BY <1>0, <1>1 DEF Line
    <2>2. SameCore(t, u)
      BY <1>1, <2>1, RegisteredCore
    <2> QED BY <2>2 DEF SameCore, Fresh
  <1>2. CASE /\ line.op = "acquire"
             /\ u \in ReplayLease(Registered(t, line.cluster, NoIncarnation), line.leases[1])
    <2> DEFINE base == Registered(t, line.cluster, NoIncarnation)
               lease == line.leases[1]
    <2>1. line.cluster \in Cluster
      BY <1>0, <1>2 DEF Line
    <2>2. SameCore(t, base) /\ base \in Table
      BY <2>1, RegisteredCore, RegisteredInv, InvCoverage DEF Sound
    <2>3. u = base \/ \E lo, hi : Replayable(base, lease, lo, hi) /\ u = Installed(base, lease, lo, hi)
      BY <1>2 DEF ReplayLease
    <2> HIDE DEF base, lease
    <2>4. CASE u = base
      BY <2>2, <2>4 DEF SameCore, Fresh
    <2>5. ASSUME NEW lo, NEW hi, Replayable(base, lease, lo, hi), u = Installed(base, lease, lo, hi)
          PROVE  /\ u.epoch = base.epoch
                 /\ \A b \in Blocks : base.state[b] = COMMITTED => u.state[b] = COMMITTED
                 /\ Fresh(base) => Fresh(u)
      <3> DEFINE l == [lease EXCEPT !.start = lo, !.end = hi, !.committed_end = lo,
                                    !.progress_end = Smaller(Larger(@, lo), hi), !.overdue = FALSE]
      <3>1. /\ u.epoch = base.epoch /\ u.state = Fill(base.state, lo .. hi - 1, LEASED)
            /\ u.leases = base.leases \cup {l}
        BY <2>2, <2>5 DEF Installed, Table
      <3>2. lease \in Lease
        <4>1. line.leases \in Seq(Lease) /\ line.leases # <<>>
          BY <1>0, <1>2 DEF Line
        <4> QED BY <4>1, EmptySeq, LenProperties, ElementOfSeq DEF lease
      <3>3. l.overdue = FALSE
        BY <3>2 DEF Lease
      <3> HIDE DEF l
      <3>4. \A b \in lo .. hi - 1 : base.state[b] = UNASSIGNED
        BY <2>5 DEF Replayable
      <3> QED BY <3>1, <3>3, <3>4 DEF Fill, Fresh, UNASSIGNED, COMMITTED
    <2> QED BY <2>2, <2>3, <2>4, <2>5 DEF SameCore, Fresh
  <1>3. CASE line.op = "commit" /\ \E l \in Holding(t, line.cluster) : u = Committed(t, l, line.through)
    <2>1. PICK l \in t.leases : u = Committed(t, l, line.through)
      BY <1>3 DEF Holding
    <2> DEFINE w == line.through
    <2>2. w \in Nat
      BY <1>0, <1>3 DEF Line
    <2> HIDE DEF w
    <2>3. u = Committed(t, l, w)
      BY <2>1 DEF w
    <2>4. u.epoch = t.epoch /\ u.state = Fill(t.state, l.committed_end .. Settled(l, w) - 1, COMMITTED)
      BY <2>2, <2>3, CommittedCore
    <2>5. PICK k : /\ k.overdue = l.overdue
                   /\ u.leases = (t.leases \ {l}) \cup (IF Settled(l, w) >= l.end THEN {} ELSE {k})
      BY <2>2, <2>3, CommittedCore
    <2>6. Fresh(t) => Fresh(u)
      BY <2>5 DEF Fresh
    <2> QED BY <2>4, <2>6 DEF Fill
  <1>4. CASE u = Reclaimed(t, Released(t, line), TRUE)
    <2> DEFINE gone == Released(t, line)
               counted == TRUE
               r == Reclaimed(t, gone, counted)
    <2>1. gone \subseteq t.leases
      BY DEF Released, Holding
    <2>2. u = r
      BY <1>4
    <2> HIDE DEF gone, counted
    <2>3. /\ r.epoch = t.epoch /\ r.leases = t.leases \ gone
          /\ r.state = Fill(t.state, Risked(gone), UNASSIGNED)
      BY ReclaimedCore
    <2> HIDE DEF r
    <2>4. \A b \in Blocks : b \in Risked(gone) => t.state[b] # COMMITTED
      BY <1>0, <2>1 DEF CoverageIn, Risked, LEASED, COMMITTED
    <2> QED BY <2>2, <2>3, <2>4 DEF Fill, Fresh
  <1>5. CASE u = t
    BY <1>5
  <1>6. CASE u = Advanced(t)
    BY <1>6, AdvancedCore
  <1> QED BY <1>1, <1>2, <1>3, <1>4, <1>5, <1>6 DEF Applied

\* Nor does a whole replay.
LEMMA RebuiltKeeps ==
  ASSUME Faithful, NEW s \in SoundTable, NEW j \in Seq(Whole), NEW t, Rebuilt(s, j, t)
  PROVE  /\ t.epoch = s.epoch
         /\ \A b \in Blocks : s.state[b] = COMMITTED => t.state[b] = COMMITTED
  <1> DEFINE Keeps(x) == /\ x.epoch = s.epoch
                         /\ \A b \in Blocks : s.state[b] = COMMITTED => x.state[b] = COMMITTED
             R == {x \in Moment : Keeps(x[1])}
  <1>1. R \in SUBSET Moment /\ <<s, j>> \in R
    BY DEF Moment
  <1>2. ASSUME NEW x \in R, NEW y \in Moment, ReplayStep(x, y)
        PROVE  y \in R
    <2>1. Sound(x[1]) /\ x[2] \in Seq(Whole) /\ x[2] # <<>> /\ Applied(x[1], Head(x[2]), y[1])
      BY <1>2 DEF Moment, SoundTable, ReplayStep
    <2>2. Head(x[2]) \in Whole
      BY <2>1, HeadTailProperties
    <2>3. /\ y[1].epoch = x[1].epoch
          /\ \A b \in Blocks : x[1].state[b] = COMMITTED => y[1].state[b] = COMMITTED
      BY <2>1, <2>2, AppliedKeeps
    <2> QED BY <2>3
  <1>3. <<t, <<>>>> \in R
    BY <1>1, <1>2 DEF Rebuilt, Onward
  <1> QED BY <1>3

-----------------------------------------------------------------------------
(* Prefixes of the journal                                                 *)

\* A prefix of a prefix is a prefix.
LEMMA Prefix ==
  ASSUME NEW S, NEW j \in Seq(S), NEW n \in 0 .. Len(j)
  PROVE  /\ SubSeq(j, 1, n) \in Seq(S) /\ Len(SubSeq(j, 1, n)) = n
         /\ \A k \in 0 .. n : SubSeq(SubSeq(j, 1, n), 1, k) = SubSeq(j, 1, k)
  <1>1. Len(j) \in Nat /\ n \in Nat /\ n <= Len(j)
    BY LenProperties
  <1>2. SubSeq(j, 1, n) \in Seq(S) /\ Len(SubSeq(j, 1, n)) = n
    <2>1. \A i \in 1 .. n : j[i] \in S
      BY <1>1, ElementOfSeq
    <2>2. /\ SubSeq(j, 1, n) \in Seq(S)
          /\ Len(SubSeq(j, 1, n)) = IF 1 <= n THEN n - 1 + 1 ELSE 0
      BY <1>1, <2>1, SubSeqProperties
    <2> QED BY <1>1, <2>2
  <1>3. ASSUME NEW k \in 0 .. n
        PROVE  SubSeq(SubSeq(j, 1, n), 1, k) = SubSeq(j, 1, k)
    <2> DEFINE p == SubSeq(j, 1, n)
               a == SubSeq(p, 1, k)
               b == SubSeq(j, 1, k)
    <2>1. p \in Seq(S) /\ Len(p) = n /\ \A i \in 1 .. n : p[i] = j[i]
      <3>1. \A i \in 1 .. n : j[i] \in S
        BY <1>1, ElementOfSeq
      <3>2. \A i \in 1 .. n - 1 + 1 : p[i] = j[1 + i - 1]
        BY <1>1, <3>1, SubSeqProperties
      <3> HIDE DEF p
      <3> QED BY <1>1, <1>2, <3>2 DEF p
    <2>2. k \in Nat /\ k <= n
      BY <1>1
    <2> HIDE DEF p
    <2>3. /\ a \in Seq(S) /\ Len(a) = (IF 1 <= k THEN k - 1 + 1 ELSE 0)
          /\ \A i \in 1 .. k - 1 + 1 : a[i] = p[1 + i - 1]
      <3>1. \A i \in 1 .. k : p[i] \in S
        BY <2>1, <2>2, ElementOfSeq
      <3> QED BY <2>2, <3>1, SubSeqProperties
    <2>4. /\ b \in Seq(S) /\ Len(b) = (IF 1 <= k THEN k - 1 + 1 ELSE 0)
          /\ \A i \in 1 .. k - 1 + 1 : b[i] = j[1 + i - 1]
      <3>1. \A i \in 1 .. k : j[i] \in S
        BY <1>1, <2>2, ElementOfSeq
      <3> QED BY <2>2, <3>1, SubSeqProperties
    <2> HIDE DEF a, b
    <2>5. Len(a) = k /\ Len(b) = k
      BY <2>2, <2>3, <2>4
    <2>6. \A i \in 1 .. k : a[i] = b[i]
      <3> SUFFICES ASSUME NEW i \in 1 .. k
                   PROVE  a[i] = b[i]
        OBVIOUS
      <3>1. i \in 1 .. k - 1 + 1 /\ 1 + i - 1 = i /\ i \in 1 .. n
        BY <2>2
      <3> QED BY <2>1, <2>3, <2>4, <3>1
    <2>7. a = b
      BY <2>3, <2>4, <2>5, <2>6, SeqEqual
    <2> QED BY <2>7 DEF a, b, p
  <1> QED BY <1>2, <1>3

\* An appended line is in no shorter prefix.
LEMMA PrefixOfAppend ==
  ASSUME NEW S, NEW j \in Seq(S), NEW e \in S, NEW k \in 0 .. Len(j)
  PROVE  SubSeq(Append(j, e), 1, k) = SubSeq(j, 1, k)
  <1> DEFINE n == Len(j)
             p == Append(j, e)
  <1>1. p \in Seq(S) /\ Len(p) = n + 1 /\ n \in Nat /\ \A i \in 1 .. n : p[i] = j[i]
    BY AppendProperties, LenProperties
  <1> HIDE DEF p, n
  <1>2. k \in Nat /\ k <= n /\ k \in 0 .. Len(p)
    BY <1>1 DEF n
  <1> DEFINE a == SubSeq(p, 1, k)
             b == SubSeq(j, 1, k)
  <1>3. /\ a \in Seq(S) /\ Len(a) = (IF 1 <= k THEN k - 1 + 1 ELSE 0)
        /\ \A i \in 1 .. k - 1 + 1 : a[i] = p[1 + i - 1]
    <2>1. \A i \in 1 .. k : p[i] \in S
      BY <1>1, <1>2, ElementOfSeq
    <2> QED BY <1>2, <2>1, SubSeqProperties
  <1>4. /\ b \in Seq(S) /\ Len(b) = (IF 1 <= k THEN k - 1 + 1 ELSE 0)
        /\ \A i \in 1 .. k - 1 + 1 : b[i] = j[1 + i - 1]
    <2>1. \A i \in 1 .. k : j[i] \in S
      BY <1>1, <1>2, ElementOfSeq DEF n
    <2> QED BY <1>2, <2>1, SubSeqProperties
  <1> HIDE DEF a, b
  <1>5. Len(a) = k /\ Len(b) = k
    BY <1>2, <1>3, <1>4
  <1>6. \A i \in 1 .. k : a[i] = b[i]
    <2> SUFFICES ASSUME NEW i \in 1 .. k
                 PROVE  a[i] = b[i]
      OBVIOUS
    <2>1. i \in 1 .. k - 1 + 1 /\ 1 + i - 1 = i /\ i \in 1 .. n
      BY <1>1, <1>2
    <2> QED BY <1>1, <1>3, <1>4, <2>1
  <1>7. a = b
    BY <1>3, <1>4, <1>5, <1>6, SeqEqual
  <1> QED BY <1>7 DEF a, b, p

-----------------------------------------------------------------------------
(* Replaying lines whose work is done                                      *)

\* The leases that a line hands out, the leases that it takes away, and the
\* commits that it makes on a lease.
Handed(line)   == IF line.op = "acquire" THEN {line.leases[a] : a \in 1 .. Len(line.leases)} ELSE {}
Drops(line, l) == line.op = "release" /\ line.cluster = l.cluster /\ line.lease \in {l.id, NoLease}
Ups(line, l)   == line.op = "commit" /\ line.cluster = l.cluster /\ line.lease = l.id

\* Line k gives the lease l back, and only after that may leases of s that
\* overlap it be handed out.
GoneBy(l, k, j, s) ==
    /\ Drops(j[k], l)
    /\ \A r \in s.leases : r.id # l.id
    /\ \A r \in s.leases : Outstanding(r) \cap Outstanding(l) # {} =>
          \A n \in 1 .. Len(j) : \A g \in Handed(j[n]) : g.id = r.id => k < n

Gone(l, i, j, s) == \E k \in 1 .. Len(j) : i < k /\ GoneBy(l, k, j, s)

\* What s has of a lease that was handed out: all of it is committed, or what
\* is not is the lease r.
Within(b, l) == l.start <= b /\ b < l.end

Closed(l, s) == \A b \in Blocks : Within(b, l) => s.state[b] = COMMITTED

Remains(l, r, s) ==
    /\ r.cluster = l.cluster /\ r.end = l.end /\ l.start <= r.committed_end
    /\ \A b \in Blocks : l.start <= b /\ b < r.committed_end => s.state[b] = COMMITTED

\* t and s have the same positions committed.
Agreed(t, s) ==
    /\ t.epoch = s.epoch /\ t.seq = s.seq
    /\ \A b \in Blocks : t.state[b] = COMMITTED <=> s.state[b] = COMMITTED

\* A lease of t is one of s, or will be given back.
LeasesPass(t, j, s) ==
    \A m \in t.leases : (\E r \in s.leases : SameLease(m, r)) \/ Gone(m, 0, j, s)

\* A lease of s is one of t and stays, or will be handed out and stay.
LeasesCome(t, j, s) ==
    \A r \in s.leases :
        \/ /\ \E m \in t.leases : SameLease(m, r)
           /\ \A k \in 1 .. Len(j) : ~Drops(j[k], r)
        \/ \E k \in 1 .. Len(j) :
             /\ \E g \in Handed(j[k]) : g.id = r.id
             /\ \A n \in 1 .. Len(j) : k < n => ~Drops(j[n], r)

\* What becomes of the leases that are handed out is known.
GrantsEnd(j, s) ==
    \A i \in 1 .. Len(j) : \A l \in Handed(j[i]) :
        /\ l.epoch = s.epoch /\ l.id[3] <= s.seq /\ l.committed_end = l.start
        /\ \A r \in s.leases : r.id = l.id => Remains(l, r, s)
        /\ (\E r \in s.leases : r.id = l.id) \/ Closed(l, s) \/ Gone(l, i, j, s)

\* The commits were made: on leases that were handed out, on those of t, and on
\* those still to be handed out.
CommitsKnown(j, s) == \A k \in 1 .. Len(j) : j[k].op = "commit" => j[k].lease[3] <= s.seq

CommitsReached(t, j) ==
    \A m \in t.leases : \A k \in 1 .. Len(j) : Ups(j[k], m) => j[k].through <= m.committed_end

CommitsSettled(j, s) ==
    \A i \in 1 .. Len(j) : \A l \in Handed(j[i]) : \A k \in 1 .. Len(j) :
        i < k /\ Ups(j[k], l) =>
            \A b \in Blocks : Within(b, l) /\ b < j[k].through => s.state[b] = COMMITTED

\* The lines j, replayed over t, lead to a copy of s and say nothing that s does
\* not hold.
Story(t, j, s) ==
    /\ Agreed(t, s) /\ LeasesPass(t, j, s) /\ LeasesCome(t, j, s) /\ GrantsEnd(j, s)
    /\ CommitsKnown(j, s) /\ CommitsReached(t, j) /\ CommitsSettled(j, s)

\* The lines j have been carried out on t.
Told(t, j) == Story(t, j, t)

\* What is left of some lines after a step: each line is one of the old ones,
\* d lines on, or a shorter acquire.
Follows(q, j, d) ==
    /\ d \in {0, 1} /\ Len(q) \in Nat /\ Len(j) = Len(q) + d /\ Len(j) \in Nat /\ 1 \in 1 .. Len(j)
    /\ \A k \in 1 .. Len(q) :
         /\ k + d \in 1 .. Len(j) /\ Handed(q[k]) \subseteq Handed(j[k + d])
         /\ \A m : Drops(q[k], m) => Drops(j[k + d], m)
         /\ q[k].op = "commit" => q[k] = j[k + d]
    /\ \A k \in 1 .. Len(j) : 1 < k => k - d \in 1 .. Len(q) /\ q[k - d] = j[k]
    /\ j[1].op = "acquire" /\ d = 0 => /\ Handed(j[1]) \subseteq {j[1].leases[1]} \cup Handed(q[1])
                                       /\ \A m : ~Drops(q[1], m) /\ ~Ups(q[1], m)
    /\ j[1].op = "acquire" /\ d = 1 => Handed(j[1]) = {j[1].leases[1]}
    /\ j[1].op # "acquire" => d = 1

\* The lines that a step of a replay leaves.
LEMMA LeftFollows ==
  ASSUME NEW j \in Seq(Whole), j # <<>>
  PROVE  \E d : Follows(Left(j), j, d) /\ Head(j) = j[1]
  <1> DEFINE q == Left(j)
             line == j[1]
  <1>1. /\ Len(j) \in Nat /\ 1 \in 1 .. Len(j) /\ Head(j) = line /\ line \in Whole
        /\ Tail(j) \in Seq(Whole) /\ q \in Seq(Whole) /\ Len(q) \in Nat
        /\ Len(Tail(j)) = Len(j) - 1 /\ \A k \in 1 .. Len(Tail(j)) : Tail(j)[k] = j[k + 1]
    BY EmptySeq, LenProperties, HeadTailProperties, ElementOfSeq, LeftWhole
  <1>2. line.op = "acquire" =>
          /\ line.leases \in Seq(Lease) /\ line.leases # <<>> /\ Len(line.leases) \in Nat
          /\ 1 \in 1 .. Len(line.leases)
    <2> SUFFICES ASSUME line.op = "acquire"
                 PROVE  /\ line.leases \in Seq(Lease) /\ line.leases # <<>> /\ Len(line.leases) \in Nat
                        /\ 1 \in 1 .. Len(line.leases)
      OBVIOUS
    <2>1. line.leases \in Seq(Lease) /\ line.leases # <<>>
      BY <1>1 DEF Line, Whole
    <2> HIDE DEF line
    <2> QED BY <2>1, EmptySeq, LenProperties
  <1>3. CASE line.op = "acquire" /\ Len(line.leases) # 1
    <2> DEFINE rest == Shorter(line)
               g == line.leases
    <2>1. q = [j EXCEPT ![1] = rest]
      BY <1>1, <1>3 DEF Left
    <2>2. DOMAIN j = 1 .. Len(j)
      BY <1>1, LenProperties
    <2>3. /\ DOMAIN q = 1 .. Len(j) /\ q[1] = rest /\ \A k \in 1 .. Len(j) : k # 1 => q[k] = j[k]
      BY <1>1, <2>1, <2>2
    <2>4. Len(q) = Len(j)
      <3> HIDE DEF q
      <3> QED BY <1>1, <2>3, LenProperties
    <2>5. rest.op = "acquire" /\ rest.leases = Tail(g)
      BY DEF Shorter
    <2>6. Handed(rest) \subseteq Handed(line) /\ Handed(line) \subseteq {g[1]} \cup Handed(rest)
      <3>1. Len(Tail(g)) = Len(g) - 1 /\ \A a \in 1 .. Len(Tail(g)) : Tail(g)[a] = g[a + 1]
        BY <1>2, <1>3, HeadTailProperties
      <3> DEFINE f == Tail(g)
      <3>2. /\ Handed(rest) = {f[a] : a \in 1 .. Len(f)}
            /\ Handed(line) = {g[a] : a \in 1 .. Len(g)}
        BY <1>3, <2>5 DEF Handed
      <3> HIDE DEF f, g, rest, line
      <3>3. Len(g) \in Nat /\ Len(f) = Len(g) - 1 /\ \A a \in 1 .. Len(f) : f[a] = g[a + 1]
        BY <1>2, <1>3, <3>1 DEF f, g, line
      <3>4. \A a \in 1 .. Len(f) : a + 1 \in 1 .. Len(g) /\ f[a] = g[a + 1]
        BY <3>3
      <3>5. \A a \in 1 .. Len(g) : a # 1 => a - 1 \in 1 .. Len(f) /\ g[a] = f[a - 1]
        BY <3>3
      <3>6. Handed(rest) \subseteq Handed(line)
        BY <3>2, <3>4
      <3>7. ASSUME NEW x \in Handed(line)
            PROVE  x \in {g[1]} \cup Handed(rest)
        <4>1. PICK a \in 1 .. Len(g) : x = g[a]
          BY <3>2
        <4>2. a # 1 => x \in Handed(rest)
          BY <3>2, <3>5, <4>1
        <4> QED BY <4>1, <4>2
      <3> QED BY <3>6, <3>7
    <2>7. \A m : ~Drops(rest, m) /\ ~Ups(rest, m)
      BY <2>5 DEF Drops, Ups
    <2> HIDE DEF q, rest
    <2>8. Follows(q, j, 0)
      <3> DEFINE d == 0
      <3>1. /\ Len(q) \in Nat /\ Len(j) = Len(q) + d /\ Len(j) \in Nat /\ 1 \in 1 .. Len(j)
        BY <1>1, <2>4
      <3>2. ASSUME NEW k \in 1 .. Len(q)
            PROVE  /\ k + d \in 1 .. Len(j) /\ Handed(q[k]) \subseteq Handed(j[k + d])
                   /\ \A m : Drops(q[k], m) => Drops(j[k + d], m)
                   /\ q[k].op = "commit" => q[k] = j[k + d]
        <4>1. k + d = k /\ k \in 1 .. Len(j)
          BY <2>4
        <4>2. CASE k = 1
          BY <2>3, <2>5, <2>6, <2>7, <4>1, <4>2
        <4>3. CASE k # 1
          BY <2>3, <4>1, <4>3
        <4> QED BY <4>2, <4>3
      <3>3. \A k \in 1 .. Len(j) : 1 < k => k - d \in 1 .. Len(q) /\ q[k - d] = j[k]
        BY <1>1, <2>3, <2>4
      <3> QED BY <1>3, <2>3, <2>6, <2>7, <3>1, <3>2, <3>3 DEF Follows
    <2> QED BY SMTT(30), <1>1, <2>8 DEF q
  <1>4. CASE ~(line.op = "acquire" /\ Len(line.leases) # 1)
    <2>1. q = Tail(j)
      BY <1>1, <1>4 DEF Left
    <2>2. line.op = "acquire" => Handed(line) = {line.leases[1]}
      BY <1>4 DEF Handed
    <2> HIDE DEF q
    <2>3. Follows(q, j, 1)
      <3> DEFINE d == 1
      <3>1. Len(j) = Len(q) + d /\ \A k \in 1 .. Len(q) : k + d \in 1 .. Len(j) /\ q[k] = j[k + d]
        BY <1>1, <2>1
      <3>2. \A k \in 1 .. Len(j) : 1 < k => k - d \in 1 .. Len(q) /\ q[k - d] = j[k]
        BY <1>1, <2>1
      <3> QED BY <1>1, <2>2, <3>1, <3>2 DEF Follows
    <2> QED BY SMTT(30), <1>1, <2>3 DEF q
  <1> QED BY <1>3, <1>4

\* A lease that is given back later is so under any name.
LEMMA GoneSame ==
  ASSUME NEW l, NEW m, SameLease(l, m), NEW i, NEW j, NEW s, Gone(l, i, j, s)
  PROVE  Gone(m, i, j, s)
  BY DEF Gone, GoneBy, SameLease, Outstanding, Drops

\* A story does not depend on what a replay may forget.
LEMMA StoryAlike ==
  ASSUME NEW t, NEW u, Alike(t, u), NEW j, NEW s, Story(t, j, s)
  PROVE  Story(u, j, s)
  <1>1. Agreed(u, s)
    BY DEF Story, Agreed, Alike
  <1>2. LeasesPass(u, j, s)
    <2> SUFFICES ASSUME NEW m \in u.leases
                 PROVE  (\E r \in s.leases : SameLease(m, r)) \/ Gone(m, 0, j, s)
      BY DEF LeasesPass
    <2>1. PICK l \in t.leases : SameLease(l, m)
      BY DEF Alike
    <2>2. CASE \E r \in s.leases : SameLease(l, r)
      BY <2>1, <2>2 DEF SameLease
    <2>3. CASE Gone(l, 0, j, s)
      BY <2>1, <2>3, GoneSame
    <2> QED BY <2>2, <2>3 DEF Story, LeasesPass
  <1>3. LeasesCome(u, j, s)
    <2>1. \A l, m, r : SameLease(l, m) /\ SameLease(l, r) => SameLease(m, r)
      BY DEF SameLease
    <2>2. \A r : (\E l \in t.leases : SameLease(l, r)) => \E m \in u.leases : SameLease(m, r)
      BY <2>1 DEF Alike
    <2> QED BY <2>2 DEF Story, LeasesCome
  <1>4. CommitsReached(u, j)
    <2> SUFFICES ASSUME NEW m \in u.leases, NEW k \in 1 .. Len(j), Ups(j[k], m)
                 PROVE  j[k].through <= m.committed_end
      BY DEF CommitsReached
    <2>1. PICK l \in t.leases : SameLease(l, m)
      BY DEF Alike
    <2>2. Ups(j[k], l) /\ l.committed_end = m.committed_end
      BY <2>1 DEF Ups, SameLease
    <2> QED BY <2>2 DEF Story, CommitsReached
  <1> QED BY <1>1, <1>2, <1>3, <1>4 DEF Story

\* What will be given back is so when one line fewer is left.
LEMMA GoneLeft ==
  ASSUME NEW q, NEW j, NEW d, Follows(q, j, d), NEW s, NEW l, NEW k \in 1 .. Len(j), 1 < k, GoneBy(l, k, j, s)
  PROVE  k - d \in 1 .. Len(q) /\ GoneBy(l, k - d, q, s)
  <1>1. k - d \in 1 .. Len(q) /\ q[k - d] = j[k] /\ k \in Int /\ d \in Int
    BY DEF Follows
  <1>2. Drops(q[k - d], l) /\ \A r \in s.leases : r.id # l.id
    BY <1>1 DEF GoneBy
  <1>3. ASSUME NEW r \in s.leases, Outstanding(r) \cap Outstanding(l) # {},
               NEW n \in 1 .. Len(q), NEW g \in Handed(q[n]), g.id = r.id
        PROVE  k - d < n
    <2>1. n + d \in 1 .. Len(j) /\ g \in Handed(j[n + d])
      BY DEF Follows
    <2>2. k < n + d
      BY <1>3, <2>1 DEF GoneBy
    <2> QED BY <1>1, <2>2
  <1> QED BY <1>1, <1>2, <1>3 DEF GoneBy

\* The parts of a story that are about the lines alone.
LEMMA LinesLeft ==
  ASSUME NEW q, NEW j, NEW d, Follows(q, j, d), NEW s,
         GrantsEnd(j, s), CommitsKnown(j, s), CommitsSettled(j, s)
  PROVE  GrantsEnd(q, s) /\ CommitsKnown(q, s) /\ CommitsSettled(q, s)
  <1>0. d \in {0, 1}
    BY DEF Follows
  <1>1. ASSUME NEW i \in 1 .. Len(q), NEW l \in Handed(q[i])
        PROVE  /\ l.epoch = s.epoch /\ l.id[3] <= s.seq /\ l.committed_end = l.start
               /\ \A r \in s.leases : r.id = l.id => Remains(l, r, s)
               /\ (\E r \in s.leases : r.id = l.id) \/ Closed(l, s) \/ Gone(l, i, q, s)
    <2>1. i + d \in 1 .. Len(j) /\ l \in Handed(j[i + d])
      BY DEF Follows
    <2>2. /\ l.epoch = s.epoch /\ l.id[3] <= s.seq /\ l.committed_end = l.start
          /\ \A r \in s.leases : r.id = l.id => Remains(l, r, s)
          /\ (\E r \in s.leases : r.id = l.id) \/ Closed(l, s) \/ Gone(l, i + d, j, s)
      BY <2>1 DEF GrantsEnd
    <2>3. ASSUME Gone(l, i + d, j, s)
          PROVE  Gone(l, i, q, s)
      <3>1. PICK k \in 1 .. Len(j) : i + d < k /\ GoneBy(l, k, j, s)
        BY <2>3 DEF Gone
      <3>2. 1 < k /\ i < k - d
        BY <1>0, <3>1
      <3>3. k - d \in 1 .. Len(q) /\ GoneBy(l, k - d, q, s)
        BY <3>1, <3>2, GoneLeft
      <3> QED BY <3>2, <3>3 DEF Gone
    <2> QED BY <2>2, <2>3
  <1>2. CommitsKnown(q, s)
    BY DEF CommitsKnown, Follows
  <1>3. ASSUME NEW i \in 1 .. Len(q), NEW l \in Handed(q[i]), NEW k \in 1 .. Len(q), i < k, Ups(q[k], l),
               NEW b \in Blocks, Within(b, l), b < q[k].through
        PROVE  s.state[b] = COMMITTED
    <2>1. i + d \in 1 .. Len(j) /\ l \in Handed(j[i + d]) /\ k + d \in 1 .. Len(j) /\ q[k] = j[k + d]
      BY <1>3 DEF Follows, Ups
    <2>2. i + d < k + d
      BY <1>0, <1>3
    <2> QED BY <1>3, <2>1, <2>2 DEF CommitsSettled
  <1> QED BY <1>1, <1>2, <1>3 DEF GrantsEnd, CommitsSettled

\* A line that hands out nothing, and takes away some leases.
LEMMA StoryPasses ==
  ASSUME NEW q, NEW j, NEW d, Follows(q, j, d), NEW s, NEW t, Story(t, j, s),
         j[1].op # "acquire",
         NEW u, Agreed(u, s), u.leases = {m \in t.leases : ~Drops(j[1], m)}
  PROVE  Story(u, q, s)
  <1>0. d = 1 /\ Handed(j[1]) = {}
    BY DEF Follows, Handed
  <1>1. GrantsEnd(q, s) /\ CommitsKnown(q, s) /\ CommitsSettled(q, s)
    BY LinesLeft DEF Story
  <1>2. LeasesPass(u, q, s)
    <2> SUFFICES ASSUME NEW m \in t.leases, ~Drops(j[1], m), Gone(m, 0, j, s)
                 PROVE  Gone(m, 0, q, s)
      BY DEF LeasesPass, Story
    <2>1. PICK k \in 1 .. Len(j) : 0 < k /\ GoneBy(m, k, j, s)
      BY DEF Gone
    <2>2. 1 < k
      BY <2>1 DEF GoneBy
    <2>3. k - d \in 1 .. Len(q) /\ GoneBy(m, k - d, q, s)
      BY <2>1, <2>2, GoneLeft
    <2> QED BY <2>3 DEF Gone
  <1>3. LeasesCome(u, q, s)
    <2> SUFFICES ASSUME NEW r \in s.leases
                 PROVE  \/ /\ \E m \in u.leases : SameLease(m, r)
                           /\ \A k \in 1 .. Len(q) : ~Drops(q[k], r)
                        \/ \E k \in 1 .. Len(q) :
                             /\ \E g \in Handed(q[k]) : g.id = r.id
                             /\ \A n \in 1 .. Len(q) : k < n => ~Drops(q[n], r)
      BY DEF LeasesCome
    <2>1. ASSUME NEW m \in t.leases, SameLease(m, r), \A k \in 1 .. Len(j) : ~Drops(j[k], r)
          PROVE  m \in u.leases /\ \A k \in 1 .. Len(q) : ~Drops(q[k], r)
      <3>1. ~Drops(j[1], m)
        BY <2>1 DEF Follows, Drops, SameLease
      <3> QED BY <2>1, <3>1 DEF Follows
    <2>2. ASSUME NEW k \in 1 .. Len(j), \E g \in Handed(j[k]) : g.id = r.id,
                 \A n \in 1 .. Len(j) : k < n => ~Drops(j[n], r)
          PROVE  \E i \in 1 .. Len(q) :
                             /\ \E g \in Handed(q[i]) : g.id = r.id
                             /\ \A n \in 1 .. Len(q) : i < n => ~Drops(q[n], r)
      <3>1. 1 < k
        BY <1>0, <2>2
      <3>2. k - d \in 1 .. Len(q) /\ q[k - d] = j[k]
        BY <3>1 DEF Follows
      <3>3. ASSUME NEW n \in 1 .. Len(q), k - d < n
            PROVE  ~Drops(q[n], r)
        <4>1. n + d \in 1 .. Len(j) /\ (Drops(q[n], r) => Drops(j[n + d], r))
          BY DEF Follows
        <4>2. k < n + d
          BY <1>0, <3>3
        <4> QED BY <2>2, <4>1, <4>2
      <3> QED BY <2>2, <3>2, <3>3
    <2> QED BY <2>1, <2>2 DEF Story, LeasesCome
  <1>4. CommitsReached(u, q)
    BY DEF CommitsReached, Story, Follows, Ups
  <1> QED BY <1>1, <1>2, <1>3, <1>4 DEF Story

\* What a lease holds is LEASED, and what is neither committed nor LEASED is free.
LEMMA Occupied ==
  ASSUME Faithful, NEW t, Sound(t)
  PROVE  /\ \A l \in t.leases : \A b \in Outstanding(l) : b \in Blocks /\ t.state[b] = LEASED
         /\ \A b \in Blocks : \/ t.state[b] = COMMITTED \/ t.state[b] = UNASSIGNED
                              \/ t.state[b] = LEASED /\ \E l \in t.leases : b \in Outstanding(l)
         /\ \A l \in t.leases : /\ l \in Lease /\ l.epoch = t.epoch /\ l.end <= NumBlocks
                                /\ l.start <= l.committed_end /\ l.committed_end < l.end
                                /\ l.committed_end \in Outstanding(l)
         /\ \A l, m \in t.leases : l.id = m.id => l = m
         /\ \A l, m \in t.leases : l # m => Outstanding(l) \cap Outstanding(m) = {}
  <1>1. /\ t \in Table /\ CoverageIn(t) /\ QuarantineIn(t) /\ Ordered(t) /\ DisjointIn(t)
    BY InvCoverage DEF Sound
  <1>2. \A l \in t.leases : /\ l \in Lease /\ l.epoch = t.epoch /\ l.end <= NumBlocks
                            /\ l.start <= l.committed_end /\ l.committed_end < l.end
                            /\ l.committed_end \in Outstanding(l)
    <2> SUFFICES ASSUME NEW l \in t.leases
                 PROVE  /\ l \in Lease /\ l.epoch = t.epoch /\ l.end <= NumBlocks
                        /\ l.start <= l.committed_end /\ l.committed_end < l.end
                        /\ l.committed_end \in Outstanding(l)
      OBVIOUS
    <2>1. l \in Lease
      BY <1>1 DEF Table
    <2>2. l.committed_end \in Nat /\ l.end \in Nat
      BY <2>1 DEF Lease
    <2>3. /\ l.epoch = t.epoch /\ l.end <= NumBlocks /\ l.start <= l.committed_end /\ l.committed_end < l.end
      BY <1>1 DEF Ordered
    <2> QED BY <2>1, <2>2, <2>3 DEF Outstanding
  <1>3. \A l \in t.leases : \A b \in Outstanding(l) : b \in Blocks /\ t.state[b] = LEASED
    BY <1>1, OutstandingInBlocks DEF CoverageIn
  <1>4. ASSUME NEW b \in Blocks
        PROVE  \/ t.state[b] = COMMITTED \/ t.state[b] = UNASSIGNED
               \/ t.state[b] = LEASED /\ \E l \in t.leases : b \in Outstanding(l)
    <2>1. t.state[b] \in BlockState
      BY <1>1 DEF Table
    <2>2. t.state[b] # QUARANTINED
      BY <1>1 DEF QuarantineIn, Faithful
    <2> QED BY <1>1, <2>1, <2>2 DEF BlockState, CoverageIn
  <1> QED BY <1>1, <1>2, <1>3, <1>4 DEF DisjointIn

\* When a lease of s is handed out that t does not have, its positions are free.
LEMMA ComesBack ==
  ASSUME Faithful, NEW s \in SoundTable, NEW t \in SoundTable, NEW j, Story(t, j, s),
         1 \in 1 .. Len(j), NEW l \in Handed(j[1]), l \in Lease,
         NEW r \in s.leases, r.id = l.id, \A m \in t.leases : m.id # l.id
  PROVE  Remains(l, r, s) /\ Replayable(t, l, r.committed_end, r.end) /\ r.end \in 0 .. NumBlocks
         /\ r.committed_end \in 0 .. NumBlocks
  <1>0. Sound(s) /\ Sound(t)
    BY DEF SoundTable
  <1>1. /\ r \in Lease /\ r.committed_end < r.end /\ r.end <= NumBlocks /\ r.committed_end \in Outstanding(r)
        /\ r.committed_end \in Nat /\ r.end \in Nat /\ l.start \in Nat /\ l.end \in Nat /\ r.start <= r.committed_end
    <2>1. /\ r \in Lease /\ r.committed_end < r.end /\ r.end <= NumBlocks /\ r.committed_end \in Outstanding(r)
          /\ r.start <= r.committed_end
      BY <1>0, Occupied
    <2> QED BY <2>1 DEF Lease
  <1>2. Remains(l, r, s)
    BY DEF Story, GrantsEnd
  <1>3. \A m \in t.leases : ~SameLease(m, r)
    BY DEF SameLease
  <1>4. ASSUME NEW b \in Outstanding(r)
        PROVE  t.state[b] = UNASSIGNED
    <2>1. b \in Blocks /\ s.state[b] = LEASED
      BY <1>0, Occupied
    <2>2. t.state[b] # COMMITTED
      BY <2>1 DEF Story, Agreed, LEASED, COMMITTED
    <2>3. ASSUME NEW m \in t.leases, b \in Outstanding(m)
          PROVE  FALSE
      <3>1. CASE \E x \in s.leases : SameLease(m, x)
        <4>1. PICK x \in s.leases : SameLease(m, x)
          BY <3>1
        <4>2. b \in Outstanding(x) /\ x # r
          BY <1>3, <2>3, <4>1 DEF SameLease, Outstanding
        <4> QED BY <1>0, <4>2, Occupied
      <3>2. CASE Gone(m, 0, j, s)
        <4>1. PICK k \in 1 .. Len(j) : 0 < k /\ GoneBy(m, k, j, s)
          BY <3>2 DEF Gone
        <4>2. Outstanding(r) \cap Outstanding(m) # {}
          BY <2>3
        <4>3. k < 1
          BY <4>1, <4>2 DEF GoneBy
        <4> QED BY <4>1, <4>3
      <3> QED BY <3>1, <3>2 DEF Story, LeasesPass
    <2> QED BY <1>0, <2>1, <2>2, <2>3, Occupied
  <1>5. \A b \in l.start .. r.committed_end - 1 : t.state[b] # UNASSIGNED
    <2> SUFFICES ASSUME NEW b \in l.start .. r.committed_end - 1
                 PROVE  t.state[b] # UNASSIGNED
      OBVIOUS
    <2>1. b \in Blocks /\ l.start <= b /\ b < r.committed_end
      BY <1>1, PoolAssumption DEF Blocks
    <2>2. t.state[b] = COMMITTED
      BY <1>2, <2>1 DEF Remains, Story, Agreed
    <2> QED BY <2>2 DEF COMMITTED, UNASSIGNED
  <1>6. l.start <= r.committed_end /\ r.end = l.end
    BY <1>2 DEF Remains
  <1>7. Replayable(t, l, r.committed_end, r.end)
    BY <1>1, <1>4, <1>5, <1>6 DEF Replayable, Outstanding
  <1> QED BY <1>1, <1>2, <1>7, PoolAssumption

\* The next lease of an acquire.
LEMMA StoryHands ==
  ASSUME Faithful, NEW s \in SoundTable, NEW t \in SoundTable,
         NEW q, NEW j \in Seq(Whole), NEW d, Follows(q, j, d), Story(t, j, s),
         j[1].op = "acquire", NEW l, l = j[1].leases[1], l \in Lease, l \in Handed(j[1]),
         NEW u \in ReplayLease(t, l)
  PROVE  Story(u, q, s)
  <1>0. /\ Sound(s) /\ Sound(t) /\ d \in {0, 1} /\ 1 \in 1 .. Len(j) /\ t \in Table
        /\ \A m : ~Drops(j[1], m)
        /\ \A r : (\A n \in 1 .. Len(j) : 1 < n => ~Drops(j[n], r)) => \A n \in 1 .. Len(q) : ~Drops(q[n], r)
    <2>1. Sound(s) /\ Sound(t) /\ d \in {0, 1} /\ 1 \in 1 .. Len(j) /\ t \in Table
      BY DEF SoundTable, Follows
    <2>2. \A m : ~Drops(j[1], m)
      BY DEF Drops
    <2>3. ASSUME NEW r, \A n \in 1 .. Len(j) : 1 < n => ~Drops(j[n], r), NEW n \in 1 .. Len(q), Drops(q[n], r)
          PROVE  FALSE
      <3>1. n + d \in 1 .. Len(j) /\ Drops(j[n + d], r)
        BY <2>3 DEF Follows
      <3>2. n + d = 1
        BY <2>3, <3>1
      <3> QED BY <2>2, <3>1, <3>2
    <2> QED BY <2>1, <2>2, <2>3
  <1>1. GrantsEnd(q, s) /\ CommitsKnown(q, s) /\ CommitsSettled(q, s)
    BY LinesLeft DEF Story
  <1>2. ASSUME NEW m, Gone(m, 0, j, s)
        PROVE  Gone(m, 0, q, s)
    <2>1. PICK k \in 1 .. Len(j) : 0 < k /\ GoneBy(m, k, j, s)
      BY <1>2 DEF Gone
    <2>2. 1 < k
      BY <1>0, <2>1 DEF GoneBy
    <2>3. k - d \in 1 .. Len(q) /\ GoneBy(m, k - d, q, s)
      BY <2>1, <2>2, GoneLeft
    <2> QED BY <2>3 DEF Gone
  \* What is asked of u, if it has the leases of t and, once this line has been
  \* replayed, a copy of what s has of l.
  <1>3. ASSUME Agreed(u, s), t.leases \subseteq u.leases,
               \A m \in u.leases : m \in t.leases \/ (\E r \in s.leases : SameLease(m, r)) \/ Gone(m, 0, q, s),
               \A r \in s.leases : r.id = l.id => \E m \in u.leases : SameLease(m, r),
               CommitsReached(u, q)
        PROVE  Story(u, q, s)
    <2>1. LeasesPass(u, q, s)
      BY <1>2, <1>3 DEF LeasesPass, Story
    <2>2. LeasesCome(u, q, s)
      <3> SUFFICES ASSUME NEW r \in s.leases
                   PROVE  \/ /\ \E m \in u.leases : SameLease(m, r)
                             /\ \A k \in 1 .. Len(q) : ~Drops(q[k], r)
                          \/ \E k \in 1 .. Len(q) :
                               /\ \E g \in Handed(q[k]) : g.id = r.id
                               /\ \A n \in 1 .. Len(q) : k < n => ~Drops(q[n], r)
        BY DEF LeasesCome
      <3>1. CASE (\E m \in t.leases : SameLease(m, r)) /\ \A k \in 1 .. Len(j) : ~Drops(j[k], r)
        BY <1>0, <1>3, <3>1
      <3>2. ASSUME NEW k \in 1 .. Len(j), NEW g \in Handed(j[k]), g.id = r.id,
                   \A n \in 1 .. Len(j) : k < n => ~Drops(j[n], r)
            PROVE  \/ /\ \E m \in u.leases : SameLease(m, r)
                      /\ \A n \in 1 .. Len(q) : ~Drops(q[n], r)
                   \/ \E i \in 1 .. Len(q) :
                        /\ \E h \in Handed(q[i]) : h.id = r.id
                        /\ \A n \in 1 .. Len(q) : i < n => ~Drops(q[n], r)
        <4>1. CASE 1 < k
          <5>1. k - d \in 1 .. Len(q) /\ q[k - d] = j[k]
            BY <4>1 DEF Follows
          <5>2. ASSUME NEW n \in 1 .. Len(q), k - d < n
                PROVE  ~Drops(q[n], r)
            <6>1. n + d \in 1 .. Len(j) /\ (Drops(q[n], r) => Drops(j[n + d], r))
              BY DEF Follows
            <6>2. k < n + d
              BY <1>0, <5>2
            <6> QED BY <3>2, <6>1, <6>2
          <5> QED BY <3>2, <5>1, <5>2
        <4>2. CASE k = 1
          <5>1. \A n \in 1 .. Len(q) : ~Drops(q[n], r)
            BY <1>0, <3>2, <4>2
          <5>2. CASE g = l
            BY <1>3, <3>2, <5>1, <5>2
          <5>3. CASE g # l
            <6>1. d = 0 /\ g \in Handed(q[1]) /\ 1 \in 1 .. Len(q)
              BY <1>0, <3>2, <4>2, <5>3 DEF Follows
            <6> QED BY <3>2, <5>1, <6>1
          <5> QED BY <5>2, <5>3
        <4> QED BY <4>1, <4>2
      <3> QED BY <3>1, <3>2 DEF Story, LeasesCome
    <2> QED BY <1>1, <1>3, <2>1, <2>2 DEF Story
  <1>4. ASSUME NEW m \in t.leases, NEW k \in 1 .. Len(q), Ups(q[k], m)
        PROVE  q[k].through <= m.committed_end
    <2>1. k + d \in 1 .. Len(j) /\ q[k] = j[k + d]
      BY <1>4 DEF Follows, Ups
    <2> QED BY <1>4, <2>1 DEF Story, CommitsReached
  <1> DEFINE fits == l.epoch = t.epoch /\ \A m \in t.leases : m.id # l.id
             runs == {p \in (0 .. NumBlocks) \X (0 .. NumBlocks) : fits /\ Replayable(t, l, p[1], p[2])}
  <1>5. ReplayLease(t, l) = IF runs = {} THEN {t} ELSE {Installed(t, l, p[1], p[2]) : p \in runs}
    BY DEF ReplayLease
  <1>6. l.epoch = t.epoch
    BY <1>0 DEF Story, GrantsEnd, Agreed
  <1>7. ASSUME NEW r \in s.leases, r.id = l.id, \A m \in t.leases : m.id # l.id
        PROVE  <<r.committed_end, r.end>> \in runs /\ Remains(l, r, s) /\ Replayable(t, l, r.committed_end, r.end)
    <2>1. /\ Remains(l, r, s) /\ Replayable(t, l, r.committed_end, r.end) /\ r.end \in 0 .. NumBlocks
          /\ r.committed_end \in 0 .. NumBlocks
      BY <1>0, <1>7, ComesBack
    <2> QED BY <1>6, <1>7, <2>1
  <1>8. CASE runs = {}
    <2>1. u = t
      <3> HIDE DEF runs
      <3> QED BY <1>5, <1>8
    <2>2. ASSUME NEW r \in s.leases, r.id = l.id
          PROVE  \E m \in t.leases : SameLease(m, r)
      <3>1. PICK m \in t.leases : m.id = l.id
        BY <1>7, <1>8, <2>2
      <3>2. ~Gone(m, 0, j, s)
        BY <2>2, <3>1 DEF Gone, GoneBy
      <3>3. PICK x \in s.leases : SameLease(m, x)
        BY <3>2 DEF Story, LeasesPass
      <3>4. x = r
        BY <1>0, <2>2, <3>1, <3>3, Occupied DEF SameLease
      <3> QED BY <3>3, <3>4
    <2> QED BY <1>3, <1>4, <2>1, <2>2 DEF Story, CommitsReached
  <1>9. CASE runs # {}
    <2>1. PICK p \in runs : u = Installed(t, l, p[1], p[2])
      <3> HIDE DEF runs
      <3> QED BY <1>5, <1>9
    <2> DEFINE lo == p[1]
               hi == p[2]
               n == [l EXCEPT !.start = lo, !.end = hi, !.committed_end = lo,
                              !.progress_end = Smaller(Larger(@, lo), hi), !.overdue = FALSE]
    <2>2. /\ lo \in Nat /\ hi \in Nat /\ hi <= NumBlocks /\ Replayable(t, l, lo, hi)
          /\ \A m \in t.leases : m.id # l.id
      BY PoolAssumption
    <2>3. /\ u.epoch = t.epoch /\ u.state = Fill(t.state, lo .. hi - 1, LEASED)
          /\ u.leases = t.leases \cup {n} /\ u.seq = Larger(t.seq, l.id[3])
      BY <1>0, <2>1 DEF Installed, Table
    <2>4. n.id = l.id /\ n.cluster = l.cluster /\ n.committed_end = lo /\ n.end = hi
      <3> DEFINE a == Smaller(Larger(l.progress_end, lo), hi)
      <3>1. n = [l EXCEPT !.start = lo, !.end = hi, !.committed_end = lo, !.progress_end = a, !.overdue = FALSE]
        BY DEF Lease
      <3> HIDE DEF a, n, lo, hi
      <3> QED BY <3>1 DEF Lease
    <2> HIDE DEF lo, hi, n, runs
    <2>5. /\ l.start <= lo /\ lo < hi /\ hi <= l.end /\ l.start \in Nat /\ l.end \in Nat
          /\ \A b \in lo .. hi - 1 : t.state[b] = UNASSIGNED
      BY <2>2 DEF Replayable, Lease
    <2>6. t.seq \in Nat /\ s.seq \in Nat /\ l.id[3] \in Nat /\ l.id[3] <= s.seq /\ t.seq = s.seq
      <3>1. t.seq \in Nat /\ l.id[3] \in Nat
        BY <1>0 DEF Table, Lease
      <3> QED BY <1>0, <3>1 DEF Story, GrantsEnd, Agreed
    <2>7. Agreed(u, s)
      <3>1. u.seq = s.seq
        BY <2>3, <2>6 DEF Larger
      <3>2. \A b \in Blocks : u.state[b] = COMMITTED <=> t.state[b] = COMMITTED
        BY <2>3, <2>5 DEF Fill, LEASED, COMMITTED, UNASSIGNED
      <3> QED BY <2>3, <3>1, <3>2 DEF Story, Agreed
    <2>8. ASSUME NEW r \in s.leases, r.id = l.id
          PROVE  SameLease(n, r)
      <3>1. Remains(l, r, s) /\ Replayable(t, l, r.committed_end, r.end)
        BY <1>7, <2>2, <2>8
      <3>2. r.committed_end \in Nat /\ r.end \in Nat
        <4>1. r \in Lease
          BY <1>0, Occupied
        <4> QED BY <4>1 DEF Lease
      <3>3. lo = r.committed_end /\ hi = r.end
        BY <2>2, <3>1, <3>2, OneRun
      <3> QED BY <2>4, <2>8, <3>1, <3>3 DEF SameLease, Remains
    <2>9. ASSUME \A r \in s.leases : r.id # l.id
          PROVE  Gone(n, 0, q, s)
      <3>1. lo \in Blocks /\ Within(lo, l) /\ t.state[lo] = UNASSIGNED
        BY <2>2, <2>5, PoolAssumption DEF Blocks, Within
      <3>2. ~Closed(l, s)
        BY <3>1 DEF Closed, Story, Agreed, UNASSIGNED, COMMITTED
      <3>3. Gone(l, 1, j, s) /\ l.committed_end = l.start
        BY <1>0, <2>9, <3>2 DEF Story, GrantsEnd
      <3>4. Outstanding(n) \subseteq Outstanding(l)
        BY SMTT(30), <2>2, <2>4, <2>5, <3>3 DEF Outstanding
      <3>5. PICK k \in 1 .. Len(j) : 1 < k /\ GoneBy(l, k, j, s)
        BY <3>3 DEF Gone
      <3>6. GoneBy(n, k, j, s)
        BY <2>4, <3>4, <3>5 DEF GoneBy, Drops
      <3>7. Gone(n, 0, j, s)
        BY <3>5, <3>6 DEF Gone
      <3> QED BY <1>2, <3>7
    <2>10. ASSUME NEW k \in 1 .. Len(q), Ups(q[k], n)
           PROVE  q[k].through <= n.committed_end
      <3>1. k + d \in 1 .. Len(j) /\ q[k] = j[k + d] /\ Ups(j[k + d], l)
        BY <2>4, <2>10 DEF Follows, Ups
      <3>2. j[k + d].op = "commit"
        BY <3>1 DEF Ups
      <3>3. 1 < k + d
        BY <3>1, <3>2
      <3>4. lo \in Blocks /\ Within(lo, l) /\ t.state[lo] = UNASSIGNED
        BY SMTT(30), <2>2, <2>5, PoolAssumption DEF Blocks, Within
      <3>5. s.state[lo] # COMMITTED
        BY <3>4 DEF Story, Agreed, UNASSIGNED, COMMITTED
      <3>6. ~(lo < j[k + d].through)
        BY <1>0, <3>1, <3>3, <3>4, <3>5 DEF Story, CommitsSettled
      <3>7. j[k + d] \in Whole
        BY <3>1, ElementOfSeq
      <3>8. j[k + d].through \in Nat
        BY <3>2, <3>7 DEF Whole, Line
      <3> QED BY <2>2, <2>4, <3>1, <3>6, <3>8
    <2> QED BY <1>3, <1>4, <2>3, <2>7, <2>8, <2>9, <2>10 DEF CommitsReached
  <1> QED BY <1>8, <1>9

\* A step of a replay goes on with the story.
LEMMA StoryStep ==
  ASSUME Faithful, NEW s \in SoundTable, NEW x \in Moment, NEW y \in Moment, ReplayStep(x, y),
         Story(x[1], x[2], s)
  PROVE  Story(y[1], y[2], s)
  <1> DEFINE t == x[1]
             j == x[2]
             u == y[1]
             q == y[2]
             line == j[1]
  <1>1. t \in SoundTable /\ Sound(t) /\ j \in Seq(Whole) /\ t \in Table /\ Story(t, j, s) /\ u \in SoundTable
    BY DEF Moment, SoundTable
  <1>2. j # <<>> /\ Applied(t, Head(j), u) /\ q = Left(j)
    BY DEF ReplayStep
  <1> SUFFICES Story(u, q, s)
    OBVIOUS
  <1> HIDE DEF j, t, u, q
  <1>3. PICK d : Follows(q, j, d) /\ Head(j) = j[1]
    BY <1>1, <1>2, LeftFollows
  <1>4. line \in Whole /\ Applied(t, line, u)
    BY <1>1, <1>2, <1>3, HeadTailProperties
  <1> HIDE DEF line
  \* A line that takes nothing away and leaves a copy.
  <1>5. ASSUME Alike(t, u), line.op \notin {"acquire", "release"}
        PROVE  Story(u, q, s)
    <2>1. Story(u, j, s)
      BY <1>1, <1>5, StoryAlike
    <2>2. u.leases = {m \in u.leases : ~Drops(j[1], m)}
      BY <1>5 DEF Drops, line
    <2>3. Agreed(u, s)
      BY <2>1 DEF Story
    <2> QED BY <1>3, <1>5, <2>1, <2>2, <2>3, StoryPasses DEF line
  <1>6. CASE line.op = "register" /\ u = Registered(t, line.cluster, line.incarnation)
    <2>1. line.cluster \in Cluster
      BY <1>4, <1>6 DEF Whole, Line
    <2>2. SameCore(t, u)
      BY <1>1, <1>6, <2>1, RegisteredCore
    <2> QED BY <1>5, <1>6, <2>2, AlikeItself
  <1>7. CASE line.op \in {"reap", "advance_epoch"}
    <2>1. u = t
      BY <1>1, <1>4, <1>7, AdvancedCore DEF Applied
    <2> QED BY <1>5, <1>7, <2>1, AlikeItself DEF SameCore
  <1>8. CASE line.op = "commit" /\ u = t
    BY <1>5, <1>8, AlikeItself DEF SameCore
  <1>9. ASSUME line.op = "commit", NEW l \in Holding(t, line.cluster), l.id = line.lease,
               u = Committed(t, l, line.through)
        PROVE  Story(u, q, s)
    <2> DEFINE w == line.through
    <2>1. w \in Nat /\ l \in t.leases
      BY <1>4, <1>9 DEF Whole, Line, Holding
    <2>2. w <= l.committed_end
      BY <1>1, <1>3, <1>9, <2>1 DEF Story, CommitsReached, Ups, Follows, Holding, line
    <2>3. l.committed_end < l.end /\ l.committed_end \in Nat /\ l.end \in Nat
      BY <1>1, <2>1, Occupied DEF Lease
    <2> HIDE DEF w
    <2>4. Settled(l, w) = l.committed_end
      BY <2>1, <2>2, <2>3 DEF Settled, Smaller, Larger
    <2>5. u = Committed(t, l, w)
      BY <1>9 DEF w
    <2>6. /\ u.epoch = t.epoch /\ u.seq = t.seq
          /\ u.state = Fill(t.state, l.committed_end .. Settled(l, w) - 1, COMMITTED)
      BY <1>1, <2>1, <2>5, CommittedCore
    <2>7. PICK k : /\ k.id = l.id /\ k.cluster = l.cluster /\ k.end = l.end
                   /\ k.committed_end = Settled(l, w)
                   /\ u.leases = (t.leases \ {l}) \cup (IF Settled(l, w) >= l.end THEN {} ELSE {k})
      BY <1>1, <2>1, <2>5, CommittedCore
    <2>8. u.state = t.state
      <3>1. l.committed_end .. Settled(l, w) - 1 = {}
        BY <2>3, <2>4
      <3>2. u.state = Fill(t.state, {}, COMMITTED)
        BY <2>6, <3>1
      <3> QED BY <1>1, <3>2 DEF Fill, Table
    <2>9. u.leases = (t.leases \ {l}) \cup {k} /\ SameLease(l, k)
      BY <2>3, <2>4, <2>7 DEF SameLease
    <2>10. Alike(t, u)
      BY <2>1, <2>6, <2>8, <2>9 DEF Alike, SameLease
    <2> QED BY <1>5, <1>9, <2>10
  <1>10. CASE line.op = "release" /\ u = Reclaimed(t, Released(t, line), TRUE)
    <2> DEFINE gone == Released(t, line)
               counted == TRUE
               r == Reclaimed(t, gone, counted)
    <2>1. gone = {m \in t.leases : Drops(line, m)}
      BY <1>10 DEF Released, Holding, Drops
    <2>2. u = r
      BY <1>10
    <2> HIDE DEF gone, counted
    <2>3. /\ r.epoch = t.epoch /\ r.seq = t.seq /\ r.leases = t.leases \ gone
          /\ r.state = Fill(t.state, Risked(gone), UNASSIGNED)
      BY <1>1, ReclaimedCore
    <2> HIDE DEF r
    <2>4. \A b \in Blocks : b \in Risked(gone) => t.state[b] = LEASED
      BY <1>1, <2>1, Occupied DEF Risked
    <2>5. Agreed(u, s)
      <3>1. \A b \in Blocks : u.state[b] = COMMITTED <=> t.state[b] = COMMITTED
        BY <2>2, <2>3, <2>4 DEF Fill, LEASED, COMMITTED, UNASSIGNED
      <3> QED BY <1>1, <2>2, <2>3, <3>1 DEF Story, Agreed
    <2>6. u.leases = {m \in t.leases : ~Drops(j[1], m)}
      BY <2>1, <2>2, <2>3 DEF line
    <2> QED BY <1>1, <1>3, <1>10, <2>5, <2>6, StoryPasses DEF line
  <1>11. CASE line.op = "acquire" /\ u \in ReplayLease(Registered(t, line.cluster, NoIncarnation), line.leases[1])
    <2> DEFINE base == Registered(t, line.cluster, NoIncarnation)
               l == line.leases[1]
    <2>1. line.cluster \in Cluster /\ line.leases \in Seq(Lease) /\ line.leases # <<>>
      BY <1>4, <1>11 DEF Whole, Line
    <2>2. SameCore(t, base) /\ Sound(base) /\ base \in Table
      BY <1>1, <2>1, RegisteredCore, RegisteredInv, RegisteredCredit, InvCoverage DEF Sound
    <2>3. l \in Lease /\ l \in Handed(line)
      BY <1>11, <2>1, EmptySeq, LenProperties, ElementOfSeq DEF Handed
    <2>4. u \in ReplayLease(base, l)
      BY <1>11
    <2> HIDE DEF base, l
    <2>5. Story(base, j, s) /\ base \in SoundTable
      BY <1>1, <2>2, AlikeItself, StoryAlike DEF SoundTable
    <2>6. j[1].op = "acquire" /\ l = j[1].leases[1] /\ l \in Handed(j[1])
      BY <1>11, <2>3 DEF l, line
    <2> QED BY <1>1, <1>3, <2>3, <2>4, <2>5, <2>6, StoryHands
  <1> QED BY <1>4, <1>6, <1>7, <1>8, <1>9, <1>10, <1>11 DEF Applied

\* Where the story ends is a copy.
LEMMA StoryEnds ==
  ASSUME Faithful, NEW s \in SoundTable, NEW t \in SoundTable, Story(t, <<>>, s)
  PROVE  Alike(t, s)
  <1>0. Sound(s) /\ Sound(t) /\ s \in Table /\ t \in Table
    BY DEF SoundTable
  <1>1. \A k : k \notin 1 .. Len(<<>>)
    OBVIOUS
  <1>2. \A m \in t.leases : \E r \in s.leases : SameLease(m, r)
    BY <1>1 DEF Story, LeasesPass, Gone
  <1>3. \A r \in s.leases : \E m \in t.leases : SameLease(m, r)
    BY <1>1 DEF Story, LeasesCome
  <1>4. \A m, r : SameLease(m, r) => Outstanding(m) = Outstanding(r)
    BY DEF SameLease, Outstanding
  <1>5. ASSUME NEW b \in Blocks
        PROVE  t.state[b] = s.state[b]
    <2>1. t.state[b] = COMMITTED <=> s.state[b] = COMMITTED
      BY DEF Story, Agreed
    <2>2. (\E m \in t.leases : b \in Outstanding(m)) <=> \E r \in s.leases : b \in Outstanding(r)
      BY <1>2, <1>3, <1>4
    <2>3. \A x \in {s, t} : /\ \/ x.state[b] = COMMITTED \/ x.state[b] = UNASSIGNED
                               \/ x.state[b] = LEASED /\ \E l \in x.leases : b \in Outstanding(l)
                            /\ \A l \in x.leases : b \in Outstanding(l) => x.state[b] = LEASED
      BY <1>0, Occupied
    <2>4. LEASED # COMMITTED /\ LEASED # UNASSIGNED /\ COMMITTED # UNASSIGNED
      BY DEF LEASED, COMMITTED, UNASSIGNED
    <2> QED BY <2>1, <2>2, <2>3, <2>4
  <1>6. t.state = s.state
    BY <1>0, <1>5 DEF Table
  <1> QED BY <1>2, <1>3, <1>6 DEF Alike, Story, Agreed

\* Lines that have been carried out on s change nothing when they are replayed
\* on top of it: a double replay is harmless.
LEMMA ReplayTwice ==
  ASSUME Faithful, NEW s \in SoundTable, NEW j \in Seq(Whole), Told(s, j), NEW u, Rebuilt(s, j, u)
  PROVE  Alike(u, s)
  <1> DEFINE R == {x \in Moment : Story(x[1], x[2], s)}
  <1>1. R \in SUBSET Moment /\ <<s, j>> \in R
    BY DEF Moment, Told
  <1>2. ASSUME NEW x \in R, NEW y \in Moment, ReplayStep(x, y)
        PROVE  y \in R
    BY <1>2, StoryStep
  <1>3. <<u, <<>>>> \in R
    BY <1>1, <1>2 DEF Rebuilt, Onward
  <1>4. u \in SoundTable /\ Story(u, <<>>, s)
    BY <1>3 DEF Moment
  <1> QED BY <1>4, StoryEnds


-----------------------------------------------------------------------------
(* Lines that have been carried out                                        *)

\* p is j with one more line.
More(p, j, e) ==
    /\ Len(j) \in Nat /\ Len(p) = Len(j) + 1 /\ p[Len(p)] = e
    /\ \A k \in 1 .. Len(j) : p[k] = j[k]

\* Append adds one line.
LEMMA AppendMore ==
  ASSUME NEW j \in Seq(Whole), NEW e \in Whole
  PROVE  More(Append(j, e), j, e)
  BY AppendProperties, LenProperties DEF More

\* The leases of u are what is left of leases of t, or were never handed out.
LeftOrNew(t, j, u) ==
    \A r \in u.leases :
        \/ \E m \in t.leases : m.id = r.id /\ Outstanding(r) \subseteq Outstanding(m)
        \/ \A n \in 1 .. Len(j) : \A g \in Handed(j[n]) : g.id # r.id

\* A lease that was given back stays so.
LEMMA GoneOn ==
  ASSUME NEW p, NEW j, NEW e, More(p, j, e), NEW t, NEW u, LeftOrNew(t, j, u),
         NEW i \in 1 .. Len(j), NEW l \in Handed(j[i]), Gone(l, i, j, t)
  PROVE  Gone(l, i, p, u)
  <1>1. PICK k \in 1 .. Len(j) : i < k /\ GoneBy(l, k, j, t)
    BY DEF Gone
  <1>2. k \in 1 .. Len(p) /\ p[k] = j[k] /\ Drops(p[k], l)
    BY <1>1 DEF More, GoneBy
  <1>3. \A r \in u.leases : r.id # l.id
    BY <1>1 DEF LeftOrNew, GoneBy
  <1>4. ASSUME NEW r \in u.leases, Outstanding(r) \cap Outstanding(l) # {},
               NEW n \in 1 .. Len(p), NEW g \in Handed(p[n]), g.id = r.id
        PROVE  k < n
    <2>1. CASE n = Len(p)
      BY <2>1 DEF More
    <2>2. CASE n # Len(p)
      <3>1. n \in 1 .. Len(j) /\ g \in Handed(j[n])
        BY <1>4, <2>2 DEF More
      <3>2. PICK m \in t.leases : m.id = r.id /\ Outstanding(r) \subseteq Outstanding(m)
        BY <1>4, <3>1 DEF LeftOrNew
      <3> QED BY <1>1, <1>4, <3>1, <3>2 DEF GoneBy
    <2> QED BY <2>1, <2>2
  <1> QED BY <1>1, <1>2, <1>3, <1>4 DEF Gone, GoneBy

\* The parts of Told that are about the table alone.
LEMMA ToldParts ==
  ASSUME NEW t, NEW j
  PROVE  /\ Agreed(t, t) /\ LeasesPass(t, j, t)
         /\ Told(t, j) <=> /\ LeasesCome(t, j, t) /\ GrantsEnd(j, t) /\ CommitsKnown(j, t)
                           /\ CommitsReached(t, j) /\ CommitsSettled(j, t)
  BY DEF Told, Story, Agreed, LeasesPass, SameLease

\* Nothing has been carried out.
LEMMA ToldNothing ==
  ASSUME NEW t
  PROVE  Told(t, <<>>)
  <1>1. \A k : k \notin 1 .. Len(<<>>)
    OBVIOUS
  <1>2. /\ LeasesCome(t, <<>>, t) /\ GrantsEnd(<<>>, t) /\ CommitsKnown(<<>>, t)
        /\ CommitsReached(t, <<>>) /\ CommitsSettled(<<>>, t)
    BY <1>1 DEF LeasesCome, GrantsEnd, CommitsKnown, CommitsReached, CommitsSettled, SameLease
  <1> QED BY <1>2, ToldParts

\* What has been carried out on a table has been so on its copies.
LEMMA ToldAlike ==
  ASSUME NEW t, NEW u, Alike(t, u), NEW j, Told(t, j)
  PROVE  Told(u, j)
  <1>1. \A l, m : SameLease(l, m) => l.id = m.id /\ Outstanding(l) = Outstanding(m)
    BY DEF SameLease, Outstanding
  <1>2. ASSUME NEW l, NEW i, Gone(l, i, j, t)
        PROVE  Gone(l, i, j, u)
    <2>1. PICK k \in 1 .. Len(j) : i < k /\ GoneBy(l, k, j, t)
      BY <1>2 DEF Gone
    <2>2. \A r \in u.leases : \E m \in t.leases : m.id = r.id /\ Outstanding(m) = Outstanding(r)
      BY <1>1 DEF Alike
    <2>3. GoneBy(l, k, j, u)
      BY <2>1, <2>2 DEF GoneBy
    <2> QED BY <2>1, <2>3 DEF Gone
  <1>3. LeasesCome(u, j, u)
    <2> SUFFICES ASSUME NEW r \in u.leases
                 PROVE  \/ \A k \in 1 .. Len(j) : ~Drops(j[k], r)
                        \/ \E k \in 1 .. Len(j) :
                             /\ \E g \in Handed(j[k]) : g.id = r.id
                             /\ \A n \in 1 .. Len(j) : k < n => ~Drops(j[n], r)
      BY DEF LeasesCome, SameLease
    <2>1. PICK m \in t.leases : SameLease(m, r)
      BY DEF Alike
    <2>2. \A line : Drops(line, m) <=> Drops(line, r)
      BY <2>1 DEF Drops, SameLease
    <2> QED BY <1>1, <2>1, <2>2 DEF Told, Story, LeasesCome
  <1>4. GrantsEnd(j, u)
    <2> SUFFICES ASSUME NEW i \in 1 .. Len(j), NEW l \in Handed(j[i])
                 PROVE  /\ l.epoch = u.epoch /\ l.id[3] <= u.seq /\ l.committed_end = l.start
                        /\ \A r \in u.leases : r.id = l.id => Remains(l, r, u)
                        /\ (\E r \in u.leases : r.id = l.id) \/ Closed(l, u) \/ Gone(l, i, j, u)
      BY DEF GrantsEnd
    <2>1. /\ l.epoch = t.epoch /\ l.id[3] <= t.seq /\ l.committed_end = l.start
          /\ \A r \in t.leases : r.id = l.id => Remains(l, r, t)
          /\ (\E r \in t.leases : r.id = l.id) \/ Closed(l, t) \/ Gone(l, i, j, t)
      BY DEF Told, Story, GrantsEnd
    <2>2. ASSUME NEW r \in u.leases, r.id = l.id
          PROVE  Remains(l, r, u)
      <3>1. PICK m \in t.leases : SameLease(m, r)
        BY DEF Alike
      <3>2. Remains(l, m, t)
        BY <2>1, <2>2, <3>1 DEF SameLease
      <3> QED BY <3>1, <3>2 DEF Remains, SameLease, Alike
    <2>3. (\E r \in t.leases : r.id = l.id) => \E r \in u.leases : r.id = l.id
      BY DEF Alike, SameLease
    <2>4. Closed(l, t) => Closed(l, u)
      BY DEF Closed, Alike
    <2> QED BY <1>2, <2>1, <2>2, <2>3, <2>4 DEF Alike
  <1>5. CommitsKnown(j, u) /\ CommitsSettled(j, u)
    BY DEF Told, Story, CommitsKnown, CommitsSettled, Alike
  <1>6. CommitsReached(u, j)
    <2> SUFFICES ASSUME NEW m \in u.leases, NEW k \in 1 .. Len(j), Ups(j[k], m)
                 PROVE  j[k].through <= m.committed_end
      BY DEF CommitsReached
    <2>1. PICK l \in t.leases : SameLease(l, m)
      BY DEF Alike
    <2>2. Ups(j[k], l) /\ l.committed_end = m.committed_end
      BY <2>1 DEF Ups, SameLease
    <2> QED BY <2>2 DEF Told, Story, CommitsReached
  <1> QED BY <1>3, <1>4, <1>5, <1>6, ToldParts

\* One more line that hands out nothing and commits nothing.
LEMMA ToldPasses ==
  ASSUME Faithful, NEW t \in SoundTable, NEW u, NEW j, Told(t, j),
         NEW p, NEW e, More(p, j, e), e.op \notin {"acquire", "commit"},
         u.epoch = t.epoch, u.seq = t.seq, u.leases = {m \in t.leases : ~Drops(e, m)},
         \A b \in Blocks : u.state[b] = COMMITTED <=> t.state[b] = COMMITTED
  PROVE  Told(u, p)
  <1>0. /\ Sound(t) /\ LeasesCome(t, j, t) /\ GrantsEnd(j, t) /\ CommitsKnown(j, t)
        /\ CommitsReached(t, j) /\ CommitsSettled(j, t)
        /\ Len(j) \in Nat /\ Len(p) = Len(j) + 1 /\ p[Len(p)] = e
        /\ \A k \in 1 .. Len(j) : k \in 1 .. Len(p) /\ p[k] = j[k]
        /\ \A k \in 1 .. Len(p) : k = Len(p) \/ k \in 1 .. Len(j)
    BY DEF Told, Story, More, SoundTable
  <1>1. Handed(e) = {} /\ \A m : ~Ups(e, m)
    BY DEF Handed, Ups
  <1>2. LeftOrNew(t, j, u)
    BY DEF LeftOrNew
  <1>3. LeasesCome(u, p, u)
    <2> SUFFICES ASSUME NEW r \in t.leases, ~Drops(e, r)
                 PROVE  \/ \A k \in 1 .. Len(p) : ~Drops(p[k], r)
                        \/ \E k \in 1 .. Len(p) :
                             /\ \E g \in Handed(p[k]) : g.id = r.id
                             /\ \A n \in 1 .. Len(p) : k < n => ~Drops(p[n], r)
      BY DEF LeasesCome, SameLease
    <2>1. CASE \A k \in 1 .. Len(j) : ~Drops(j[k], r)
      BY <1>0, <2>1
    <2>2. ASSUME NEW k \in 1 .. Len(j), \E g \in Handed(j[k]) : g.id = r.id,
                 \A n \in 1 .. Len(j) : k < n => ~Drops(j[n], r)
          PROVE  \E i \in 1 .. Len(p) :
                             /\ \E g \in Handed(p[i]) : g.id = r.id
                             /\ \A n \in 1 .. Len(p) : i < n => ~Drops(p[n], r)
      BY <1>0, <2>2
    <2> QED BY <1>0, <2>1, <2>2 DEF LeasesCome
  <1>4. GrantsEnd(p, u)
    <2> SUFFICES ASSUME NEW i \in 1 .. Len(j), NEW l \in Handed(j[i])
                 PROVE  /\ l.epoch = u.epoch /\ l.id[3] <= u.seq /\ l.committed_end = l.start
                        /\ \A r \in u.leases : r.id = l.id => Remains(l, r, u)
                        /\ (\E r \in u.leases : r.id = l.id) \/ Closed(l, u) \/ Gone(l, i, p, u)
      BY <1>0, <1>1 DEF GrantsEnd
    <2>1. /\ l.epoch = t.epoch /\ l.id[3] <= t.seq /\ l.committed_end = l.start
          /\ \A r \in t.leases : r.id = l.id => Remains(l, r, t)
          /\ (\E r \in t.leases : r.id = l.id) \/ Closed(l, t) \/ Gone(l, i, j, t)
      BY <1>0 DEF GrantsEnd
    <2>2. \A r \in u.leases : r.id = l.id => Remains(l, r, u)
      BY <2>1 DEF Remains
    <2>3. Closed(l, t) => Closed(l, u)
      BY DEF Closed
    <2>4. Gone(l, i, j, t) => Gone(l, i, p, u)
      BY <1>2, GoneOn
    <2>5. ASSUME NEW r \in t.leases, r.id = l.id, r \notin u.leases
          PROVE  Gone(l, i, p, u)
      <3>1. Drops(e, r) /\ Remains(l, r, t)
        BY <2>1, <2>5
      <3>2. Drops(p[Len(p)], l)
        BY <1>0, <2>5, <3>1 DEF Drops, Remains
      <3>3. \A m \in u.leases : m.id # l.id
        BY <1>0, <2>5, Occupied
      <3>4. ASSUME NEW m \in u.leases, NEW b \in Outstanding(m) \cap Outstanding(l)
            PROVE  FALSE
        <4>1. m \in t.leases /\ m # r /\ b \in Blocks /\ t.state[b] = LEASED
          BY <1>0, <2>5, <3>4, Occupied
        <4>2. b \notin Outstanding(r)
          BY <1>0, <3>4, <4>1, Occupied
        <4>3. b \in l.start .. l.end - 1
          BY <2>1, <3>4 DEF Outstanding
        <4>4. r \in Lease /\ r.end = l.end /\ b \in Int
          BY <1>0, <3>1, <4>1, Occupied, PoolAssumption DEF Remains, Blocks
        <4>5. l.start <= b /\ b < r.committed_end
          BY <4>2, <4>3, <4>4 DEF Outstanding, Lease
        <4>6. t.state[b] = COMMITTED
          BY <3>1, <4>1, <4>5 DEF Remains
        <4> QED BY <4>1, <4>6 DEF LEASED, COMMITTED
      <3>5. GoneBy(l, Len(p), p, u)
        BY <3>2, <3>3, <3>4 DEF GoneBy
      <3>6. Len(p) \in 1 .. Len(p) /\ i < Len(p)
        BY <1>0
      <3> QED BY <3>5, <3>6 DEF Gone
    <2> QED BY <2>1, <2>2, <2>3, <2>4, <2>5
  <1>5. CommitsKnown(p, u)
    BY <1>0 DEF CommitsKnown
  <1>6. CommitsReached(u, p)
    BY <1>0, <1>1 DEF CommitsReached
  <1>7. CommitsSettled(p, u)
    BY <1>0, <1>1 DEF CommitsSettled
  <1> QED BY <1>3, <1>4, <1>5, <1>6, <1>7, ToldParts

\* The numbers of leases that have been handed out.
LEMMA NumberedLease ==
  ASSUME NEW t, Sound(t), NEW l \in t.leases
  PROVE  l.id[3] \in Nat /\ l.id[3] <= t.seq /\ t.seq \in Nat
  <1>1. Inv(t) /\ t \in Table
    BY InvCoverage DEF Sound
  <1> QED BY <1>1 DEF Inv, InvBut, Issued, Table, Lease

\* The numbers of leases in the lines are numbers.
LEMMA LineNumbers ==
  ASSUME NEW j \in Seq(Whole), NEW k \in 1 .. Len(j)
  PROVE  /\ \A g \in Handed(j[k]) : g \in Lease /\ g.id[3] \in Nat
         /\ j[k].op = "commit" => j[k].lease[3] \in Nat /\ j[k].through \in Nat
  <1>1. j[k] \in Whole
    BY ElementOfSeq
  <1>2. ASSUME NEW g \in Handed(j[k])
        PROVE  g \in Lease /\ g.id[3] \in Nat
    <2>1. j[k].op = "acquire" /\ j[k].leases \in Seq(Lease)
      BY <1>1 DEF Handed, Whole, Line
    <2>2. PICK a \in 1 .. Len(j[k].leases) : g = j[k].leases[a]
      BY <2>1 DEF Handed
    <2>3. g \in Lease
      BY <2>1, <2>2, ElementOfSeq
    <2> QED BY <2>3 DEF Lease
  <1>3. j[k].op = "commit" => j[k].lease[3] \in Nat /\ j[k].through \in Nat
    BY <1>1 DEF Whole, Line, LeaseId
  <1> QED BY <1>2, <1>3

\* One more line, of a commit to a lease of the table.
LEMMA ToldCommit ==
  ASSUME Faithful, NEW t \in SoundTable, NEW j \in Seq(Whole), Told(t, j), NEW p, NEW e, More(p, j, e),
         NEW l \in t.leases, NEW w \in Nat, e.op = "commit", e.cluster = l.cluster, e.lease = l.id, e.through = w,
         NEW u, u = Committed(t, l, w)
  PROVE  Told(u, p)
  <1> DEFINE h == Settled(l, w)
  <1>0. /\ Sound(t) /\ LeasesCome(t, j, t) /\ GrantsEnd(j, t) /\ CommitsKnown(j, t)
        /\ CommitsReached(t, j) /\ CommitsSettled(j, t)
        /\ Len(j) \in Nat /\ Len(p) = Len(j) + 1 /\ p[Len(p)] = e
        /\ \A k \in 1 .. Len(j) : k \in 1 .. Len(p) /\ p[k] = j[k]
        /\ \A k \in 1 .. Len(p) : k = Len(p) \/ k \in 1 .. Len(j)
    BY DEF Told, Story, More, SoundTable
  <1>1. PICK k : /\ k.id = l.id /\ k.cluster = l.cluster /\ k.end = l.end /\ k.committed_end = h
                 /\ u.epoch = t.epoch /\ u.seq = t.seq
                 /\ u.state = Fill(t.state, l.committed_end .. h - 1, COMMITTED)
                 /\ u.leases = (t.leases \ {l}) \cup (IF h >= l.end THEN {} ELSE {k})
    BY <1>0, CommittedCore
  <1>2. /\ l.committed_end \in Nat /\ l.end \in Nat /\ l.committed_end < l.end /\ l.end <= NumBlocks
        /\ h \in Nat /\ l.committed_end <= h /\ (w <= h \/ h = l.end)
        /\ \A b \in Nat : b < w /\ b < l.end /\ b >= l.committed_end => b < h
    BY <1>0, Occupied DEF Lease, Settled, Smaller, Larger
  <1> HIDE DEF h
  <1>3. /\ \A b \in Blocks : t.state[b] = COMMITTED => u.state[b] = COMMITTED
        /\ \A b \in Blocks : l.committed_end <= b /\ b < h => u.state[b] = COMMITTED
    BY <1>1, <1>2, PoolAssumption DEF Fill, Blocks
  <1>4. /\ Handed(e) = {} /\ (\A m : ~Drops(e, m)) /\ Ups(e, k) /\ (\A m : Ups(e, m) => m.id = l.id)
        /\ \A line : (Drops(line, k) <=> Drops(line, l)) /\ (Ups(line, k) <=> Ups(line, l))
    BY <1>1 DEF Handed, Drops, Ups
  <1>5. \A r \in u.leases : (r \in t.leases /\ r # l) \/ (r = k /\ h < l.end)
    BY <1>1, <1>2
  <1>6. \A r \in t.leases : r.id = l.id => r = l
    BY <1>0, Occupied
  <1>7. LeftOrNew(t, j, u)
    <2>1. Outstanding(k) \subseteq Outstanding(l)
      BY <1>1, <1>2 DEF Outstanding
    <2> QED BY <1>1, <1>5, <2>1 DEF LeftOrNew
  <1>8. LeasesCome(u, p, u)
    <2> SUFFICES ASSUME NEW r \in u.leases
                 PROVE  \/ \A n \in 1 .. Len(p) : ~Drops(p[n], r)
                        \/ \E i \in 1 .. Len(p) :
                             /\ \E g \in Handed(p[i]) : g.id = r.id
                             /\ \A n \in 1 .. Len(p) : i < n => ~Drops(p[n], r)
      BY DEF LeasesCome, SameLease
    <2>1. PICK m \in t.leases : m.id = r.id /\ \A line : Drops(line, m) <=> Drops(line, r)
      BY <1>1, <1>4, <1>5
    <2>2. CASE \A n \in 1 .. Len(j) : ~Drops(j[n], m)
      BY <1>0, <1>4, <2>1, <2>2
    <2>3. ASSUME NEW i \in 1 .. Len(j), \E g \in Handed(j[i]) : g.id = m.id,
                 \A n \in 1 .. Len(j) : i < n => ~Drops(j[n], m)
          PROVE  \E a \in 1 .. Len(p) :
                             /\ \E g \in Handed(p[a]) : g.id = r.id
                             /\ \A n \in 1 .. Len(p) : a < n => ~Drops(p[n], r)
      BY <1>0, <1>4, <2>1, <2>3
    <2> QED BY <1>0, <2>1, <2>2, <2>3 DEF LeasesCome
  <1>9. ASSUME NEW i \in 1 .. Len(j), NEW g \in Handed(j[i])
        PROVE  /\ g.epoch = t.epoch /\ g.id[3] <= t.seq /\ g.committed_end = g.start
               /\ \A r \in t.leases : r.id = g.id => Remains(g, r, t)
               /\ (\E r \in t.leases : r.id = g.id) \/ Closed(g, t) \/ Gone(g, i, j, t)
               /\ g \in Lease
    BY <1>0, LineNumbers DEF GrantsEnd
  \* What a commit makes of the lease it is on.
  <1>10. ASSUME NEW g \in Lease, Remains(g, l, t)
         PROVE  /\ g.end = l.end /\ g.start <= l.committed_end
                /\ \A b \in Blocks : g.start <= b /\ b < h => u.state[b] = COMMITTED
                /\ g.id = l.id => Remains(g, k, u) \/ h >= l.end
    <2>1. g.end = l.end /\ g.start <= l.committed_end /\ g.cluster = l.cluster
      BY <1>10 DEF Remains
    <2>2. ASSUME NEW b \in Blocks, g.start <= b, b < h
          PROVE  u.state[b] = COMMITTED
      <3>1. b \in Nat
        BY PoolAssumption DEF Blocks
      <3>2. CASE b < l.committed_end
        BY <1>3, <1>10, <2>2, <3>2 DEF Remains
      <3>3. CASE ~(b < l.committed_end)
        BY <1>2, <1>3, <2>2, <3>1, <3>3
      <3> QED BY <3>2, <3>3
    <2>3. g.start <= h
      BY <1>2, <2>1 DEF Lease
    <2> QED BY <1>1, <1>10, <2>1, <2>2, <2>3 DEF Remains
  <1>11. GrantsEnd(p, u)
    <2> SUFFICES ASSUME NEW i \in 1 .. Len(j), NEW g \in Handed(j[i])
                 PROVE  /\ \A r \in u.leases : r.id = g.id => Remains(g, r, u)
                        /\ (\E r \in u.leases : r.id = g.id) \/ Closed(g, u) \/ Gone(g, i, p, u)
      BY <1>0, <1>1, <1>4, <1>9 DEF GrantsEnd
    <2>1. ASSUME NEW r \in u.leases, r.id = g.id
          PROVE  Remains(g, r, u)
      <3>1. CASE r \in t.leases
        <4>1. Remains(g, r, t)
          BY <1>9, <2>1, <3>1
        <4> QED BY <1>3, <4>1 DEF Remains
      <3>2. CASE r = k /\ h < l.end
        <4>1. Remains(g, l, t) /\ g.id = l.id /\ g \in Lease
          BY <1>1, <1>9, <2>1, <3>2
        <4>2. ~(h >= l.end)
          BY <1>2, <3>2
        <4> QED BY <1>10, <3>2, <4>1, <4>2
      <3> QED BY <1>5, <3>1, <3>2
    <2>2. ASSUME NEW r \in t.leases, r.id = g.id, ~\E m \in u.leases : m.id = g.id
          PROVE  Closed(g, u)
      <3>1. r = l /\ h >= l.end
        BY <1>1, <2>2
      <3>2. g.end = l.end /\ \A b \in Blocks : g.start <= b /\ b < h => u.state[b] = COMMITTED
        BY <1>9, <1>10, <2>2, <3>1
      <3>3. \A b \in Blocks : b \in Int
        BY PoolAssumption DEF Blocks
      <3> QED BY <1>2, <3>1, <3>2, <3>3 DEF Closed, Within
    <2>3. Closed(g, t) => Closed(g, u)
      BY <1>3 DEF Closed
    <2>4. Gone(g, i, j, t) => Gone(g, i, p, u)
      BY <1>7, GoneOn
    <2> QED BY <1>9, <2>1, <2>2, <2>3, <2>4
  <1>12. CommitsKnown(p, u)
    <2>1. l.id[3] <= t.seq
      BY <1>0, NumberedLease
    <2> QED BY <1>0, <1>1, <2>1 DEF CommitsKnown
  <1>13. CommitsReached(u, p)
    <2> SUFFICES ASSUME NEW m \in u.leases, NEW n \in 1 .. Len(p), Ups(p[n], m)
                 PROVE  p[n].through <= m.committed_end
      BY DEF CommitsReached
    <2>1. CASE n = Len(p)
      <3>1. m.id = l.id
        BY <1>0, <1>4, <2>1
      <3>2. m = k /\ h < l.end
        BY <1>5, <1>6, <3>1
      <3> QED BY <1>0, <1>1, <1>2, <2>1, <3>2
    <2>2. CASE n \in 1 .. Len(j)
      <3>1. CASE m \in t.leases
        BY <1>0, <2>2, <3>1 DEF CommitsReached
      <3>2. CASE m = k
        <4>1. j[n].through <= l.committed_end /\ p[n] = j[n] /\ Ups(j[n], l) /\ j[n].op = "commit"
          BY <1>0, <1>4, <2>2, <3>2 DEF CommitsReached, Ups
        <4>2. j[n].through \in Nat
          BY <2>2, <4>1, LineNumbers
        <4> QED BY <1>1, <1>2, <3>2, <4>1, <4>2
      <3> QED BY <1>5, <3>1, <3>2
    <2> QED BY <1>0, <2>1, <2>2
  <1>14. CommitsSettled(p, u)
    <2> SUFFICES ASSUME NEW i \in 1 .. Len(p), NEW g \in Handed(p[i]), NEW n \in 1 .. Len(p),
                        i < n, Ups(p[n], g), NEW b \in Blocks, Within(b, g), b < p[n].through
                 PROVE  u.state[b] = COMMITTED
      BY DEF CommitsSettled
    <2>1. i \in 1 .. Len(j) /\ g \in Handed(j[i])
      BY <1>0, <1>4
    <2>2. CASE n \in 1 .. Len(j)
      BY <1>0, <1>3, <2>1, <2>2 DEF CommitsSettled
    <2>3. CASE n = Len(p)
      <3>1. g.id = l.id /\ b < w
        BY <1>0, <1>4, <2>3
      <3>2. Remains(g, l, t) /\ g \in Lease
        BY <1>9, <2>1, <3>1
      <3>3. g.start <= b /\ b < l.end /\ b \in Nat
        BY <1>10, <3>2, PoolAssumption DEF Within, Blocks
      <3>4. b < h
        BY <1>2, <3>1, <3>3
      <3> QED BY <1>10, <3>2, <3>3, <3>4
    <2> QED BY <1>0, <2>2, <2>3
  <1> QED BY <1>8, <1>11, <1>12, <1>13, <1>14, ToldParts

\* One more line, of a grant of free positions under new numbers.
LEMMA ToldGrant ==
  ASSUME Faithful, NEW t \in SoundTable, NEW j \in Seq(Whole), Told(t, j), NEW p, NEW e, More(p, j, e),
         e.op = "acquire", NEW u, u.epoch = t.epoch, u.seq \in Nat, t.seq <= u.seq,
         u.leases = t.leases \cup Handed(e),
         \A b \in Blocks : u.state[b] = COMMITTED <=> t.state[b] = COMMITTED,
         \A g \in Handed(e) : /\ g.epoch = t.epoch /\ g.id[3] \in Nat /\ t.seq < g.id[3] /\ g.id[3] <= u.seq
                              /\ g.committed_end = g.start /\ g.start \in Nat,
         \A g, m \in Handed(e) : g.id = m.id => g = m
  PROVE  Told(u, p)
  <1>0. /\ Sound(t) /\ LeasesCome(t, j, t) /\ GrantsEnd(j, t) /\ CommitsKnown(j, t)
        /\ CommitsReached(t, j) /\ CommitsSettled(j, t)
        /\ Len(j) \in Nat /\ Len(p) = Len(j) + 1 /\ p[Len(p)] = e /\ Len(p) \in 1 .. Len(p)
        /\ \A k \in 1 .. Len(j) : k \in 1 .. Len(p) /\ p[k] = j[k]
        /\ \A k \in 1 .. Len(p) : k = Len(p) \/ k \in 1 .. Len(j)
    BY DEF Told, Story, More, SoundTable
  <1>1. \A m : ~Drops(e, m) /\ ~Ups(e, m)
    BY DEF Drops, Ups
  <1>2. t.seq \in Nat /\ \A r \in t.leases : r.id[3] \in Nat /\ r.id[3] <= t.seq
    <2>1. t.seq \in Nat
      BY <1>0, InvCoverage DEF Sound, Table
    <2> QED BY <1>0, <2>1, NumberedLease
  <1>3. \A n \in 1 .. Len(j) : \A g \in Handed(j[n]) : g.id[3] <= t.seq
    BY <1>0 DEF GrantsEnd
  <1>4. ASSUME NEW r \in Handed(e), NEW n \in 1 .. Len(j), NEW g \in Handed(j[n]), g.id = r.id
        PROVE  FALSE
    <2>1. r.id[3] <= t.seq
      BY <1>3, <1>4
    <2> QED BY <1>2, <2>1
  <1>5. ASSUME NEW r \in Handed(e), NEW m \in t.leases, m.id = r.id
        PROVE  FALSE
    <2>1. r.id[3] <= t.seq
      BY <1>2, <1>5
    <2> QED BY <1>2, <2>1
  <1>6. LeftOrNew(t, j, u)
    BY <1>4 DEF LeftOrNew
  <1>7. LeasesCome(u, p, u)
    <2> SUFFICES ASSUME NEW r \in u.leases
                 PROVE  \/ \A n \in 1 .. Len(p) : ~Drops(p[n], r)
                        \/ \E i \in 1 .. Len(p) :
                             /\ \E g \in Handed(p[i]) : g.id = r.id
                             /\ \A n \in 1 .. Len(p) : i < n => ~Drops(p[n], r)
      BY DEF LeasesCome, SameLease
    <2>1. CASE r \in Handed(e)
      BY <1>0, <2>1
    <2>2. CASE r \in t.leases /\ \A n \in 1 .. Len(j) : ~Drops(j[n], r)
      BY <1>0, <1>1, <2>2
    <2>3. ASSUME NEW i \in 1 .. Len(j), \E g \in Handed(j[i]) : g.id = r.id,
                 \A n \in 1 .. Len(j) : i < n => ~Drops(j[n], r)
          PROVE  \E a \in 1 .. Len(p) :
                             /\ \E g \in Handed(p[a]) : g.id = r.id
                             /\ \A n \in 1 .. Len(p) : a < n => ~Drops(p[n], r)
      BY <1>0, <1>1, <2>3
    <2> QED BY <1>0, <2>1, <2>2, <2>3 DEF LeasesCome
  <1>8. GrantsEnd(p, u)
    <2> SUFFICES ASSUME NEW i \in 1 .. Len(p), NEW g \in Handed(p[i])
                 PROVE  /\ g.epoch = u.epoch /\ g.id[3] <= u.seq /\ g.committed_end = g.start
                        /\ \A r \in u.leases : r.id = g.id => Remains(g, r, u)
                        /\ (\E r \in u.leases : r.id = g.id) \/ Closed(g, u) \/ Gone(g, i, p, u)
      BY DEF GrantsEnd
    <2>1. CASE i = Len(p)
      <3>1. g \in Handed(e)
        BY <1>0, <2>1
      <3>2. \A r \in u.leases : r.id = g.id => r = g
        BY <1>5, <3>1
      <3>3. \A b \in Blocks : b \in Int
        BY PoolAssumption DEF Blocks
      <3>4. Remains(g, g, u)
        BY <3>1, <3>3 DEF Remains
      <3> QED BY <3>1, <3>2, <3>4
    <2>2. CASE i \in 1 .. Len(j)
      <3>1. g \in Handed(j[i])
        BY <1>0, <2>2
      <3>2. /\ g.epoch = t.epoch /\ g.id[3] <= t.seq /\ g.committed_end = g.start
            /\ \A r \in t.leases : r.id = g.id => Remains(g, r, t)
            /\ (\E r \in t.leases : r.id = g.id) \/ Closed(g, t) \/ Gone(g, i, j, t)
        BY <1>0, <2>2, <3>1 DEF GrantsEnd
      <3>3. g.id[3] <= u.seq
        <4>1. g.id[3] \in Nat
          BY <2>2, <3>1, LineNumbers
        <4> QED BY <1>2, <3>2, <4>1
      <3>4. ASSUME NEW r \in u.leases, r.id = g.id
            PROVE  Remains(g, r, u)
        <4>1. r \in t.leases
          BY <1>4, <2>2, <3>1, <3>4
        <4> QED BY <3>2, <3>4, <4>1 DEF Remains
      <3>5. Closed(g, t) => Closed(g, u)
        BY DEF Closed
      <3>6. Gone(g, i, j, t) => Gone(g, i, p, u)
        BY <1>6, <2>2, <3>1, GoneOn
      <3> QED BY <3>2, <3>3, <3>4, <3>5, <3>6
    <2> QED BY <1>0, <2>1, <2>2
  <1>9. CommitsKnown(p, u)
    <2> SUFFICES ASSUME NEW k \in 1 .. Len(j), j[k].op = "commit"
                 PROVE  j[k].lease[3] <= u.seq
      BY <1>0 DEF CommitsKnown
    <2>1. j[k].lease[3] <= t.seq /\ j[k].lease[3] \in Nat
      BY <1>0, LineNumbers DEF CommitsKnown
    <2> QED BY <1>2, <2>1
  <1>10. CommitsReached(u, p)
    <2> SUFFICES ASSUME NEW m \in u.leases, NEW n \in 1 .. Len(j), Ups(j[n], m)
                 PROVE  m \in t.leases
      BY <1>0, <1>1 DEF CommitsReached
    <2>1. m.id[3] <= t.seq
      BY <1>0 DEF CommitsKnown, Ups
    <2> QED BY <1>2, <2>1
  <1>11. CommitsSettled(p, u)
    <2> SUFFICES ASSUME NEW i \in 1 .. Len(p), NEW g \in Handed(p[i]), NEW n \in 1 .. Len(p),
                        i < n, Ups(p[n], g), NEW b \in Blocks, Within(b, g), b < p[n].through
                 PROVE  u.state[b] = COMMITTED
      BY DEF CommitsSettled
    <2>1. n \in 1 .. Len(j)
      BY <1>0, <1>1
    <2>2. i \in 1 .. Len(j)
      BY <1>0, <2>1
    <2>3. g \in Handed(j[i]) /\ Ups(j[n], g) /\ b < j[n].through
      BY <1>0, <2>1, <2>2
    <2>4. t.state[b] = COMMITTED
      BY <1>0, <2>1, <2>2, <2>3 DEF CommitsSettled
    <2> QED BY <2>4
  <1> QED BY <1>7, <1>8, <1>9, <1>10, <1>11, ToldParts

-----------------------------------------------------------------------------
(* Acknowledged commits                                                    *)

\* Every acknowledged position is committed in t.
Keeps(t) == \A p \in acked : p[1] = t.epoch /\ t.state[p[2]] = COMMITTED

\* The inductive invariant.  While RPCs are served, the files hold a copy of
\* the table; and every journal that a crash may leave, replayed over the
\* snapshot, has all that was acknowledged.
Retained ==
    /\ Recoverable
    /\ snapshot # NoSnapshot
    /\ journal \in Seq(Whole) /\ todo \in Seq(Whole)
    /\ acked \in SUBSET (Nat \X Blocks)
    /\ Fresh(table) /\ Fresh(snapshot)
    /\ phase = "up" => \E t \in SoundTable : Rebuilt(snapshot, journal, t) /\ Alike(t, table)
    /\ phase = "truncating" => snapshot = Undated(table)
    /\ phase = "replaying" => \A t : Rebuilt(table, todo, t) => Rebuilt(snapshot, journal, t)
    /\ phase \in {"up", "truncating"} => Keeps(table)
    /\ \A k \in durable .. Len(journal) :
          \A t : Rebuilt(snapshot, SubSeq(journal, 1, k), t) => Keeps(t)

\* Every committed position was acknowledged.
Only(t) == \A b \in Blocks : t.state[b] = COMMITTED => <<t.epoch, b>> \in acked

\* The clusters find their leases in t.
Finds(t) == \A h \in held : \E l \in t.leases : <<l.id, l.cluster>> = h

\* The inductive invariant of a coordinator that never lost lines its snapshot
\* held: the lines of the journal have been carried out on the table, and on
\* whatever a crash may leave of it; so a second replay of them is harmless.
Exact ==
    /\ covered \in 0 .. Len(journal)
    /\ ~outrun =>
         /\ Serving => Told(table, journal) /\ Only(table)
         /\ ~Serving => \A t : Rebuilt(snapshot, journal, t) => Finds(t)
         /\ \A k \in durable .. Len(journal) : covered <= k =>
              \A t : Rebuilt(snapshot, SubSeq(journal, 1, k), t) =>
                       Told(t, SubSeq(journal, 1, k)) /\ Only(t)

\* Replayed over any copy of the table, e leads to a copy of the next one.
Retells(e) == \A t \in SoundTable : Alike(t, table) => \E u : Rebuilt(t, <<e>>, u) /\ Alike(u, table')

\* Types of the parts of the invariant.
LEMMA SoundParts ==
  ASSUME Retained
  PROVE  /\ table \in SoundTable /\ snapshot \in SoundTable
         /\ durable \in 0 .. Len(journal) /\ Len(journal) \in Nat
  BY InvCoverage, LenProperties DEF Retained, Recoverable, Sound, SoundTable

\* A line that is logged goes at the end.
LEMMA LoggedLast ==
  ASSUME Retained, NEW e
  PROVE  Logged(e) = Append(journal, e)
  <1>0. journal \in Seq(Whole) /\ Len(journal) \in Nat
    BY SoundParts DEF Retained
  <1>1. journal # <<>> => journal[Len(journal)] # Torn
    <2>1. journal # <<>> => journal[Len(journal)] \in Whole
      BY <1>0, EmptySeq, ElementOfSeq
    <2>2. Torn \notin Whole
      BY DEF Torn, Whole
    <2> QED BY <2>1, <2>2
  <1> QED BY <1>1 DEF Logged

\* A step that appends a line to the journal.
LEMMA AppendRetains ==
  ASSUME Faithful, Retained, Recoverable', NEW e \in Whole, Retells(e), Fresh(table'),
         \/ Log(e) /\ acked' = acked
         \/ /\ LogSynced(e)
            /\ \A p \in acked' : p \in acked \/ (p \in Nat \X Blocks /\ p[1] = table'.epoch
                                                 /\ table'.state[p[2]] = COMMITTED)
  PROVE  Retained'
  <1>0. /\ table \in SoundTable /\ snapshot \in SoundTable /\ journal \in Seq(Whole)
        /\ durable \in 0 .. Len(journal) /\ Len(journal) \in Nat
    BY SoundParts DEF Retained
  <1>1. /\ phase = "up" /\ phase' = "up" /\ snapshot' = snapshot /\ todo' = todo
        /\ journal' = Logged(e)
        /\ (durable' = durable /\ acked' = acked) \/ durable' = Len(journal')
    BY DEF Log, LogSynced, Write
  <1>2. journal' = Append(journal, e)
    BY <1>1, LoggedLast
  <1>3. PICK t \in SoundTable : Rebuilt(snapshot, journal, t) /\ Alike(t, table)
    BY <1>1 DEF Retained
  <1>4. PICK u : Rebuilt(t, <<e>>, u) /\ Alike(u, table')
    BY <1>3 DEF Retells
  <1>5. <<e>> \in Seq(Whole)
    OBVIOUS
  <1>6. Rebuilt(snapshot, journal', u) /\ u \in SoundTable
    BY <1>0, <1>2, <1>3, <1>4, <1>5, RebuiltAppend, RebuiltSound
  <1>7. Keeps(t)
    <2>1. SubSeq(journal, 1, Len(journal)) = journal
      BY <1>0, SubSeqFull
    <2>2. Len(journal) \in durable .. Len(journal)
      BY <1>0
    <2> QED BY <1>3, <2>1, <2>2 DEF Retained
  <1>8. Keeps(u)
    <2>1. u.epoch = t.epoch /\ \A b \in Blocks : t.state[b] = COMMITTED => u.state[b] = COMMITTED
      BY <1>3, <1>4, <1>5, RebuiltKeeps
    <2>2. \A p \in acked : p[2] \in Blocks
      BY DEF Retained
    <2> QED BY <1>7, <2>1, <2>2 DEF Keeps
  <1>9. Keeps(u)' /\ Keeps(table)' /\ acked' \in SUBSET (Nat \X Blocks)
    <2>1. u.epoch = table'.epoch /\ u.state = table'.state
      BY <1>4 DEF Alike
    <2>2. \A p \in acked' : p \in acked \/ (p \in Nat \X Blocks /\ p[1] = table'.epoch
                                            /\ table'.state[p[2]] = COMMITTED)
      OBVIOUS
    <2> QED BY <1>8, <2>1, <2>2 DEF Keeps, Retained
  <1>10. journal' \in Seq(Whole) /\ Len(journal') = Len(journal) + 1
    BY <1>0, <1>2, AppendProperties
  <1>11. ASSUME NEW k \in durable' .. Len(journal'), NEW x,
                Rebuilt(snapshot', SubSeq(journal', 1, k), x)
         PROVE  Keeps(x)'
    <2>1. durable' \in 0 .. Len(journal') /\ k \in 0 .. Len(journal')
      BY <1>10 DEF Recoverable
    <2>2. CASE k = Len(journal')
      <3>1. SubSeq(journal', 1, k) = journal'
        BY <1>10, <2>2, SubSeqFull
      <3>2. x = u
        BY <1>0, <1>1, <1>6, <1>10, <1>11, <3>1, RebuiltOnce
      <3> QED BY <1>9, <3>2
    <2>3. CASE k # Len(journal')
      <3>1. k \in 0 .. Len(journal) /\ durable' # Len(journal')
        BY <1>0, <1>10, <2>1, <2>3
      <3>2. durable' = durable /\ acked' = acked
        BY <1>1, <3>1
      <3>3. SubSeq(journal', 1, k) = SubSeq(journal, 1, k)
        BY <1>0, <1>2, <3>1, PrefixOfAppend
      <3>4. k \in durable .. Len(journal)
        BY <1>0, <3>1, <3>2
      <3>5. Keeps(x)
        BY <1>1, <1>11, <3>3, <3>4 DEF Retained
      <3> QED BY <3>2, <3>5 DEF Keeps
    <2> QED BY <2>2, <2>3
  <1>12. todo' \in Seq(Whole) /\ snapshot' # NoSnapshot /\ Fresh(snapshot)'
    BY <1>1 DEF Retained, Fresh
  <1>13. \E x \in SoundTable : Rebuilt(snapshot', journal', x) /\ Alike(x, table')
    BY <1>1, <1>4, <1>6
  <1>14. Fresh(table)'
    BY DEF Fresh
  <1> QED BY <1>1, <1>9, <1>10, <1>11, <1>12, <1>13, <1>14 DEF Retained

\* A step that appends a line which it carries out.
LEMMA AppendExact ==
  ASSUME Faithful, Retained, Recoverable', NEW e \in Whole, Retells(e), Fresh(table'),
         \/ Log(e) /\ acked' = acked
         \/ /\ LogSynced(e)
            /\ \A p \in acked' : p \in acked \/ (p \in Nat \X Blocks /\ p[1] = table'.epoch
                                                 /\ table'.state[p[2]] = COMMITTED),
         Told(table, journal) => Told(table', Append(journal, e)),
         Only(table) => Only(table)'
  PROVE  Retained' /\ (Exact => Exact')
  <1>1. Retained'
    BY AppendRetains
  <1> SUFFICES ASSUME Exact
               PROVE  Exact'
    BY <1>1
  <1>2. /\ phase = "up" /\ phase' = "up" /\ snapshot' = snapshot /\ journal' = Append(journal, e)
        /\ covered' = covered /\ outrun' = outrun
        /\ (durable' = durable /\ acked' = acked) \/ durable' = Len(journal')
    BY LoggedLast DEF Log, LogSynced, Write
  <1>3. /\ journal \in Seq(Whole) /\ Len(journal) \in Nat /\ Len(journal') = Len(journal) + 1
        /\ durable \in 0 .. Len(journal) /\ durable' \in 0 .. Len(journal')
        /\ journal' \in Seq(Whole) /\ snapshot \in SoundTable
    BY <1>1, <1>2, SoundParts, AppendProperties DEF Retained, Recoverable
  <1>4. covered \in 0 .. Len(journal) /\ covered' \in 0 .. Len(journal')
    BY <1>2, <1>3 DEF Exact
  <1>5. ASSUME ~outrun
        PROVE  /\ Told(table', journal') /\ Only(table)'
               /\ \A k \in durable' .. Len(journal') : covered' <= k =>
                    \A t : Rebuilt(snapshot', SubSeq(journal', 1, k), t) =>
                             Told(t, SubSeq(journal', 1, k)) /\ Only(t)'
    <2>1. Told(table', journal') /\ Only(table)'
      BY <1>2, <1>5 DEF Exact, Serving
    <2>2. PICK x \in SoundTable : Rebuilt(snapshot', journal', x) /\ Alike(x, table')
      BY <1>1, <1>2 DEF Retained
    <2>3. Told(x, journal') /\ Only(x)'
      <3>1. Alike(table', x)
        BY <2>2, AlikeBack
      <3>2. Told(x, journal')
        BY <2>1, <3>1, ToldAlike
      <3> QED BY <2>1, <2>2, <3>2 DEF Only, Alike
    <2>4. ASSUME NEW k \in durable' .. Len(journal'), covered' <= k, NEW y,
                 Rebuilt(snapshot', SubSeq(journal', 1, k), y)
          PROVE  Told(y, SubSeq(journal', 1, k)) /\ Only(y)'
      <3>1. CASE k = Len(journal')
        <4>1. SubSeq(journal', 1, k) = journal'
          BY <1>3, <3>1, SubSeqFull
        <4>2. y = x
          BY <1>2, <1>3, <2>2, <2>4, <4>1, RebuiltOnce
        <4> QED BY <2>3, <4>1, <4>2
      <3>2. CASE k # Len(journal')
        <4>1. k \in 0 .. Len(journal) /\ durable' # Len(journal')
          BY <1>3, <3>2
        <4>2. durable' = durable /\ acked' = acked /\ k \in durable .. Len(journal)
          BY <1>2, <1>3, <4>1
        <4>3. SubSeq(journal', 1, k) = SubSeq(journal, 1, k)
          BY <1>2, <1>3, <4>1, PrefixOfAppend
        <4>4. Told(y, SubSeq(journal, 1, k)) /\ Only(y)
          BY <1>2, <1>5, <2>4, <4>2, <4>3 DEF Exact
        <4> QED BY <4>2, <4>3, <4>4 DEF Only
      <3> QED BY <3>1, <3>2
    <2> QED BY <2>1, <2>4
  <1> QED BY <1>2, <1>4, <1>5 DEF Exact, Serving

\* A step that leaves no line and moves no position.
LEMMA QuietRetains ==
  ASSUME Faithful, Retained, Recoverable', Unlogged, acked' = acked, Alike(table, table'), Fresh(table')
  PROVE  Retained'
  <1>1. /\ phase = "up" /\ phase' = "up" /\ snapshot' = snapshot /\ todo' = todo
        /\ journal' = journal /\ durable' = durable
    BY DEF Unlogged, disk
  <1>2. PICK t \in SoundTable : Rebuilt(snapshot, journal, t) /\ Alike(t, table)
    BY <1>1 DEF Retained
  <1>3. Alike(t, table')
    <2>1. \A l, m, n : SameLease(l, m) /\ SameLease(m, n) => SameLease(l, n)
      BY DEF SameLease
    <2> QED BY <1>2, <2>1 DEF Alike
  <1>4. Keeps(table)'
    BY <1>1 DEF Retained, Keeps, Alike
  <1>5. \A x : Keeps(x) => Keeps(x)'
    BY DEF Keeps
  <1>6. Fresh(table)' /\ Fresh(snapshot)'
    BY <1>1 DEF Fresh, Retained
  <1>7. \A k \in durable' .. Len(journal') :
          \A x : Rebuilt(snapshot', SubSeq(journal', 1, k), x) => Keeps(x)'
    BY <1>1, <1>5 DEF Retained
  <1>8. \E x \in SoundTable : Rebuilt(snapshot', journal', x) /\ Alike(x, table')
    BY <1>1, <1>2, <1>3
  <1>9. /\ snapshot' # NoSnapshot /\ journal' \in Seq(Whole) /\ todo' \in Seq(Whole)
        /\ acked' \in SUBSET (Nat \X Blocks)
    BY <1>1 DEF Retained
  <1> QED BY <1>1, <1>4, <1>6, <1>7, <1>8, <1>9 DEF Retained

\* A step that leaves no line and a copy of the table.
LEMMA QuietExact ==
  ASSUME Faithful, Retained, Recoverable', Unlogged, acked' = acked, Alike(table, table'), Fresh(table')
  PROVE  Retained' /\ (Exact => Exact')
  <1>1. Retained'
    BY QuietRetains
  <1> SUFFICES ASSUME Exact
               PROVE  Exact'
    BY <1>1
  <1>2. /\ phase = "up" /\ phase' = "up" /\ snapshot' = snapshot /\ journal' = journal
        /\ durable' = durable /\ covered' = covered /\ outrun' = outrun
    BY DEF Unlogged, disk
  <1>3. \A x : Only(x) => Only(x)'
    BY DEF Only
  <1>4. ASSUME ~outrun
        PROVE  Told(table', journal') /\ Only(table)'
    <2>1. Told(table, journal) /\ Only(table)
      BY <1>2, <1>4 DEF Exact, Serving
    <2>2. Told(table', journal)
      BY <2>1, ToldAlike
    <2> QED BY <1>2, <2>1, <2>2 DEF Only, Alike
  <1>5. ASSUME ~outrun, NEW k \in durable' .. Len(journal'), covered' <= k, NEW y,
               Rebuilt(snapshot', SubSeq(journal', 1, k), y)
        PROVE  Told(y, SubSeq(journal', 1, k)) /\ Only(y)'
    BY <1>2, <1>3, <1>5 DEF Exact
  <1>6. covered' \in 0 .. Len(journal')
    BY <1>2 DEF Exact
  <1> QED BY <1>2, <1>4, <1>5, <1>6 DEF Exact, Serving

-----------------------------------------------------------------------------
(* RPCs                                                                    *)

\* The record of a registration is no part of what commits depend on.
LEMMA RegisterRetains ==
  ASSUME Faithful, Retained, Recoverable', NEW c \in Cluster,
         NEW inc \in Incarnation \cup {NoIncarnation}, ServeRegister(c, inc)
  PROVE  Retained' /\ (Exact => Exact')
  <1> DEFINE recorded == table'.clusters[c].incarnation
             e == [op |-> "register", cluster |-> c, incarnation |-> recorded]
  <1>1. Sound(table) /\ Sound(table') /\ Fresh(table) /\ table' \in Table
    BY InvCoverage DEF Retained, Recoverable, Sound
  <1>2. recorded \in Incarnation \cup {NoIncarnation}
    BY <1>1 DEF Table, ClusterRecord
  <1>3. Log(e) /\ acked' = acked /\ table' = Registered(table, c, inc)
    BY DEF ServeRegister, Register
  <1> HIDE DEF recorded
  <1>4. /\ e \in Whole /\ e.op = "register" /\ e.cluster = c /\ e.incarnation = recorded
    BY <1>2 DEF Line, Whole
  <1> HIDE DEF e
  <1>5. SameCore(table, table')
    BY <1>1, <1>3, RegisteredCore
  <1>6. Retells(e)
    <2> SUFFICES ASSUME NEW t \in SoundTable, Alike(t, table)
                 PROVE  \E u : Rebuilt(t, <<e>>, u) /\ Alike(u, table')
      BY DEF Retells
    <2> DEFINE u == Registered(t, c, recorded)
    <2>1. SameCore(t, u)
      BY RegisteredCore DEF SoundTable
    <2>2. Applied(t, e, u)
      BY <1>4 DEF Applied
    <2> HIDE DEF u
    <2>3. Alike(u, table')
      BY <1>5, <2>1, AlikeSame
    <2>4. Rebuilt(t, <<e>>, u)
      BY <1>4, <2>2, OneLine
    <2> QED BY <2>3, <2>4
  <1>7. Fresh(table')
    BY <1>1, <1>5 DEF Fresh, SameCore
  <1>8. Told(table, journal) => Told(table', Append(journal, e))
    <2>1. table'.leases = {m \in table.leases : ~Drops(e, m)}
      BY <1>4, <1>5 DEF Drops, SameCore
    <2>2. table \in SoundTable /\ More(Append(journal, e), journal, e)
      BY <1>1, <1>4, InvCoverage, AppendMore DEF SoundTable, Sound, Retained
    <2>3. /\ table'.epoch = table.epoch /\ table'.seq = table.seq
          /\ \A b \in Blocks : table'.state[b] = COMMITTED <=> table.state[b] = COMMITTED
      BY <1>5 DEF SameCore
    <2> QED BY <1>4, <2>1, <2>2, <2>3, ToldPasses
  <1>9. Only(table) => Only(table)'
    BY <1>3, <1>5 DEF Only, SameCore
  <1> QED BY <1>3, <1>4, <1>6, <1>7, <1>8, <1>9, AppendExact

\* A grant is journalled whole, and replay takes every lease of it.
LEMMA GrantRetains ==
  ASSUME Faithful, Retained, Recoverable', NEW c \in Cluster, ServeAcquire(c)
  PROVE  Retained' /\ (Exact => Exact')
  <1> DEFINE e == [op |-> "acquire", cluster |-> c, leases |-> Grants]
  <1>1. Sound(table) /\ Fresh(table)
    BY DEF Retained, Recoverable
  <1>2. Log(e) /\ acked' = acked /\ AcquireFree(c)
    BY DEF ServeAcquire, AcquireStolen, Faithful
  <1>3. PICK spans : GrantOf(c, spans)
    BY <1>1, <1>2, AcquireGrants
  <1>4. e \in Whole
    <2>1. 0 \in Nat /\ 0 + 1 \in 1 .. Len(spans)
      BY <1>3 DEF GrantOf, WorkVector
    <2> HIDE DEF e
    <2>2. LineAfter(c, spans, 0) \in Whole /\ LineAfter(c, spans, 0) = e
      BY <1>1, <1>3, <2>1, LineAfterFacts DEF e
    <2> QED BY <2>2
  <1>5. Retells(e)
    BY <1>1, <1>3, GrantReplayed DEF Retells
  <1>6. Fresh(table')
    <2>1. \A i : Grant(table, c, spans, i).overdue = FALSE
      BY DEF Grant
    <2> QED BY <1>1, <1>3, <2>1 DEF GrantOf, Fresh
  <1> DEFINE G(i) == Grant(table, c, spans, i)
             n == Len(spans)
  <1>7. e.op = "acquire" /\ Handed(e) = {G(i) : i \in 1 .. n}
    <2>1. e.op = "acquire" /\ e.leases = [i \in 1 .. n |-> G(i)]
      BY <1>3 DEF GrantOf
    <2>2. n \in Nat
      BY <1>3 DEF GrantOf, WorkVector
    <2> HIDE DEF e, n, G
    <2>3. Len(e.leases) = n /\ \A i \in 1 .. n : e.leases[i] = G(i)
      BY <2>1, <2>2
    <2> QED BY <2>1, <2>3 DEF Handed
  <1> HIDE DEF e
  <1>8. table \in SoundTable /\ journal \in Seq(Whole) /\ table.seq \in Nat /\ n \in Nat
    BY <1>1, <1>3, InvCoverage DEF Retained, SoundTable, Sound, Table, GrantOf, WorkVector
  <1>9. ASSUME NEW i \in 1 .. n
        PROVE  /\ G(i).epoch = table.epoch /\ G(i).id[3] = table.seq + i
               /\ G(i).committed_end = G(i).start /\ G(i).start \in Nat
    <2>1. /\ G(i) \in Lease /\ G(i).epoch = table.epoch /\ G(i).id[3] = table.seq + i
          /\ G(i).start = spans[i][1] /\ G(i).committed_end = spans[i][1]
      BY <1>1, <1>3, GrantLease DEF GrantOf
    <2> HIDE DEF G
    <2> QED BY <2>1 DEF Lease
  <1>10. /\ table'.epoch = table.epoch /\ table'.seq = table.seq + n
         /\ table'.leases = table.leases \cup {G(i) : i \in 1 .. n}
         /\ \A b \in Blocks : table'.state[b] = COMMITTED <=> table.state[b] = COMMITTED
    BY <1>3 DEF GrantOf, Fill, LEASED, COMMITTED, UNASSIGNED
  <1> HIDE DEF G, n
  <1>11. Told(table, journal) => Told(table', Append(journal, e))
    <2> SUFFICES ASSUME Told(table, journal)
                 PROVE  Told(table', Append(journal, e))
      OBVIOUS
    <2>1. ASSUME NEW g \in Handed(e)
          PROVE  /\ g.epoch = table.epoch /\ g.id[3] \in Nat
                 /\ table.seq < g.id[3] /\ g.id[3] <= table'.seq
                 /\ g.committed_end = g.start /\ g.start \in Nat
      <3>1. PICK i \in 1 .. n : g = G(i)
        BY <1>7
      <3>2. /\ g.epoch = table.epoch /\ g.id[3] = table.seq + i
            /\ g.committed_end = g.start /\ g.start \in Nat
        BY <1>9, <3>1
      <3>3. table'.seq = table.seq + n
        BY <1>10
      <3> QED BY <1>8, <3>2, <3>3
    <2>2. \A g, m \in Handed(e) : g.id = m.id => g = m
      <3> SUFFICES ASSUME NEW i \in 1 .. n, NEW k \in 1 .. n, G(i).id = G(k).id
                   PROVE  i = k
        BY <1>7
      <3>1. table.seq + i = table.seq + k
        BY <1>9
      <3> QED BY <1>8, <3>1
    <2>3. table'.seq \in Nat /\ table.seq <= table'.seq
      BY <1>8, <1>10
    <2>4. table'.leases = table.leases \cup Handed(e)
      BY <1>7, <1>10
    <2>5. More(Append(journal, e), journal, e)
      BY <1>4, <1>8, AppendMore
    <2>6. /\ e.op = "acquire" /\ table'.epoch = table.epoch /\ table \in SoundTable /\ journal \in Seq(Whole)
          /\ \A b \in Blocks : table'.state[b] = COMMITTED <=> table.state[b] = COMMITTED
      BY <1>7, <1>8, <1>10
    <2> DEFINE p == Append(journal, e)
    <2> HIDE DEF p
    <2>7. More(p, journal, e)
      BY <2>5 DEF p
    <2>8. Told(table', p)
      BY <2>1, <2>2, <2>3, <2>4, <2>6, <2>7, ToldGrant
    <2> QED BY <2>8 DEF p
  <1>12. Only(table) => Only(table)'
    BY <1>2, <1>10 DEF Only
  <1> QED BY <1>2, <1>4, <1>5, <1>6, <1>11, <1>12, AppendExact

\* An acquire that grants nothing.
LEMMA NothingRetains ==
  ASSUME Faithful, Retained, Recoverable', NEW c \in Cluster, ServeAcquireNothing(c)
  PROVE  Retained' /\ (Exact => Exact')
  <1>1. Sound(table) /\ Fresh(table)
    BY DEF Retained, Recoverable
  <1>2. SameCore(table, table')
    BY <1>1, AcquireBaseCore DEF ServeAcquireNothing, AcquireNothing
  <1>3. Alike(table, table') /\ Fresh(table')
    BY <1>1, <1>2, AlikeItself DEF Fresh, SameCore
  <1> QED BY <1>3, QuietExact DEF ServeAcquireNothing

\* A heartbeat moves progress only.
LEMMA HeartbeatRetains ==
  ASSUME Faithful, Retained, Recoverable', NEW c \in Cluster, NEW progress, ServeHeartbeat(c, progress)
  PROVE  Retained' /\ (Exact => Exact')
  <1> DEFINE s == Reaped(table)
             t == Registered(s, c, NoIncarnation)
             Mine(l) == l.cluster = c /\ l.epoch = t.epoch /\ l.id \in DOMAIN progress
             Renew(l) == [l EXCEPT !.progress_end = Reported(l, progress[l.id]), !.overdue = FALSE]
             L == {l \in t.leases : ~Mine(l)} \cup {Renew(l) : l \in {m \in t.leases : Mine(m)}}
  <1>1. Sound(table) /\ Fresh(table)
    BY DEF Retained, Recoverable
  <1>2. SameCore(table, s) /\ Sound(s)
    BY <1>1, ReapedCore
  <1>3. table' = Renewed(t, c, progress)
    BY DEF ServeHeartbeat, Heartbeat
  <1> HIDE DEF s
  <1>4. SameCore(s, t) /\ Sound(t)
    BY <1>2, RegisteredCore, RegisteredInv, RegisteredCredit DEF Sound
  <1> HIDE DEF t
  <1>5. t \in Table /\ t.leases \in SUBSET Lease
    BY <1>4, InvCoverage DEF Sound, Table
  <1>6. table' = [t EXCEPT !.leases = L]
    BY <1>3, <1>5 DEF Renewed, Table
  <1>7. \A l \in t.leases : SameLease(l, Renew(l)) /\ Renew(l).overdue = FALSE
    <2> SUFFICES ASSUME NEW l \in t.leases
                 PROVE  SameLease(l, Renew(l)) /\ Renew(l).overdue = FALSE
      OBVIOUS
    <2>1. l \in Lease
      BY <1>5
    <2>2. \E p : Renew(l) = [l EXCEPT !.progress_end = p, !.overdue = FALSE]
      OBVIOUS
    <2> HIDE DEF Renew
    <2> QED BY <2>1, <2>2 DEF SameLease, Lease
  <1> HIDE DEF Renew, Mine
  <1>8. /\ \A l \in t.leases : \E m \in L : SameLease(l, m)
        /\ \A m \in L : \E l \in t.leases : SameLease(l, m)
        /\ Fresh(t) => \A m \in L : ~m.overdue
    BY <1>7 DEF SameLease, Fresh
  <1> HIDE DEF L
  <1>9. table'.epoch = t.epoch /\ table'.seq = t.seq /\ table'.state = t.state /\ table'.leases = L
    BY <1>5, <1>6 DEF Table
  <1>10. SameCore(table, t) /\ Fresh(t)
    BY <1>1, <1>2, <1>4 DEF SameCore, Fresh
  <1>11. Alike(table, table') /\ Fresh(table')
    BY <1>8, <1>9, <1>10 DEF SameCore, Alike, Fresh
  <1> QED BY <1>11, QuietExact DEF ServeHeartbeat

\* A commit is fsynced, and replayed onto the copy of the lease.
LEMMA CommitRetains ==
  ASSUME Faithful, Retained, Recoverable', NEW l \in table.leases, NEW w \in Watermarks, ServeCommit(l, w)
  PROVE  Retained' /\ (Exact => Exact')
  <1> DEFINE e == [op |-> "commit", cluster |-> l.cluster, lease |-> l.id, through |-> w]
  <1>1. Sound(table) /\ Fresh(table) /\ table \in Table /\ l \in Lease /\ w \in Nat
        /\ Outstanding(l) \subseteq Blocks
    <2>1. Sound(table) /\ Fresh(table)
      BY DEF Retained, Recoverable
    <2>2. table \in Table /\ Ordered(table)
      BY <2>1, InvCoverage DEF Sound
    <2> QED BY <2>1, <2>2, OutstandingInBlocks, PoolAssumption DEF Table, Watermarks
  <1>2. /\ LogSynced(e) /\ table' = Committed(table, l, w)
        /\ acked' = acked \cup Positions(table, {b \in Outstanding(l) : b < w})
    BY DEF ServeCommit, Commit
  <1>3. l.cluster \in Cluster /\ l.id \in LeaseId
    BY <1>1 DEF Lease, LeaseId
  <1>4. e \in Whole /\ e.op = "commit" /\ e.cluster = l.cluster /\ e.lease = l.id /\ e.through = w
    BY <1>1, <1>3 DEF Line, Whole
  <1> HIDE DEF e
  <1>5. Retells(e)
    <2> SUFFICES ASSUME NEW t \in SoundTable, Alike(t, table)
                 PROVE  \E u : Rebuilt(t, <<e>>, u) /\ Alike(u, table')
      BY DEF Retells
    <2>1. PICK m \in t.leases : SameLease(m, l)
      BY DEF Alike
    <2> DEFINE u == Committed(t, m, w)
    <2>2. Alike(u, table')
      BY <1>1, <1>2, <2>1, CommittedAlike DEF SoundTable
    <2>3. Applied(t, e, u)
      BY <1>4, <2>1 DEF Applied, Holding, SameLease
    <2> HIDE DEF u
    <2>4. Rebuilt(t, <<e>>, u)
      BY <1>4, <2>3, OneLine
    <2> QED BY <2>2, <2>4
  <1> DEFINE h == Settled(l, w)
             S == l.committed_end .. h - 1
  <1>6. PICK k : /\ k.overdue = l.overdue
                 /\ table'.epoch = table.epoch
                 /\ table'.state = Fill(table.state, S, COMMITTED)
                 /\ table'.leases = (table.leases \ {l}) \cup (IF h >= l.end THEN {} ELSE {k})
    BY <1>1, <1>2, CommittedCore
  <1>7. \A b \in Outstanding(l) : b < w => b \in S
    BY <1>1 DEF Outstanding, Settled, Smaller, Larger, Lease
  <1> HIDE DEF h, S
  <1>8. Fresh(table')
    BY <1>1, <1>6 DEF Fresh
  <1>9. table.epoch \in Nat
    BY <1>1 DEF Table
  <1>10. \A p \in acked' : p \in acked \/ (p \in Nat \X Blocks /\ p[1] = table'.epoch
                                           /\ table'.state[p[2]] = COMMITTED)
    <2> SUFFICES ASSUME NEW b \in Outstanding(l), b < w
                 PROVE  /\ <<table.epoch, b>> \in Nat \X Blocks
                        /\ table'.state[b] = COMMITTED
      BY <1>2, <1>6 DEF Positions
    <2>1. b \in Blocks /\ b \in S
      BY <1>1, <1>7
    <2> QED BY <1>6, <1>9, <2>1 DEF Fill
  <1>11. Told(table, journal) => Told(table', Append(journal, e))
    BY <1>1, <1>2, <1>4, ToldCommit, AppendMore DEF SoundTable, Retained
  <1>12. Only(table) => Only(table)'
    <2>1. \A b \in Blocks : b \in S => b \in Outstanding(l) /\ b < w
      <3>1. l.end \in Nat /\ l.committed_end \in Nat /\ \A b \in Blocks : b \in Nat
        BY <1>1, PoolAssumption DEF Lease, Blocks
      <3> QED BY <1>1, <3>1 DEF S, h, Outstanding, Settled, Smaller, Larger
    <2>2. \A b \in Blocks : table'.state[b] = COMMITTED => table.state[b] = COMMITTED \/ b \in S
      BY <1>6 DEF Fill
    <2>3. table'.epoch = table.epoch
      BY <1>6
    <2> QED BY <1>2, <2>1, <2>2, <2>3 DEF Only, Positions
  <1> QED BY <1>2, <1>4, <1>5, <1>8, <1>10, <1>11, <1>12, AppendExact

\* A release, of one lease or of all that a cluster holds.
LEMMA ReleaseRetains ==
  ASSUME Faithful, Retained, Recoverable', NEW e \in Whole, e.op = "release",
         NEW count, SameCore(Reclaimed(table, Released(table, e), count), table'),
         Log(e), acked' = acked
  PROVE  Retained' /\ (Exact => Exact')
  <1> DEFINE lost == Released(table, e)
             after == Reclaimed(table, lost, count)
             counted == TRUE
  <1>1. Sound(table) /\ Fresh(table) /\ SameCore(after, table') /\ lost \in SUBSET table.leases
    BY DEF Retained, Recoverable, Released, Holding
  <1> HIDE DEF counted
  <1>2. Retells(e)
    <2> SUFFICES ASSUME NEW t \in SoundTable, Alike(t, table)
                 PROVE  \E u : Rebuilt(t, <<e>>, u) /\ Alike(u, table')
      BY DEF Retells
    <2> DEFINE gone == Released(t, e)
               u == Reclaimed(t, gone, counted)
    <2>1. /\ \A l \in gone : \E m \in lost : SameLease(l, m)
          /\ \A m \in lost : \E l \in gone : SameLease(l, m)
          /\ gone \in SUBSET t.leases
      BY DEF Alike, SameLease, Released, Holding
    <2> HIDE DEF gone, lost
    <2>2. Alike(u, after)
      BY <1>1, <2>1, ReclaimedAlike DEF SoundTable
    <2>3. Applied(t, e, u)
      BY DEF Applied, gone, counted
    <2> HIDE DEF u, after
    <2>4. Alike(u, table')
      <3>1. SameCore(u, u)
        BY DEF SameCore
      <3> QED BY <1>1, <2>2, <3>1, AlikeSame
    <2>5. Rebuilt(t, <<e>>, u)
      BY <2>3, OneLine
    <2> QED BY <2>4, <2>5
  <1>3. lost = {m \in table.leases : Drops(e, m)}
    BY DEF Released, Holding, Drops
  <1> HIDE DEF lost
  <1>4. /\ after.epoch = table.epoch /\ after.seq = table.seq /\ after.leases = table.leases \ lost
        /\ after.state = Fill(table.state, Risked(lost), UNASSIGNED)
    BY <1>1, ReclaimedCore
  <1> HIDE DEF after
  <1>5. Fresh(table')
    BY <1>1, <1>4 DEF Fresh, SameCore
  <1>6. \A b \in Blocks : table'.state[b] = COMMITTED <=> table.state[b] = COMMITTED
    <2>1. \A b \in Risked(lost) : table.state[b] = LEASED
      BY <1>1, Occupied DEF Risked
    <2> QED BY <1>1, <1>4, <2>1 DEF SameCore, Fill, LEASED, COMMITTED, UNASSIGNED
  <1>7. Told(table, journal) => Told(table', Append(journal, e))
    <2>1. table'.leases = {m \in table.leases : ~Drops(e, m)}
      BY <1>1, <1>3, <1>4 DEF SameCore
    <2>2. table \in SoundTable /\ More(Append(journal, e), journal, e)
      BY <1>1, InvCoverage, AppendMore DEF SoundTable, Sound, Retained
    <2> QED BY <1>1, <1>4, <1>6, <2>1, <2>2, ToldPasses DEF SameCore
  <1>8. Only(table) => Only(table)'
    BY <1>1, <1>4, <1>6 DEF Only, SameCore
  <1> QED BY <1>2, <1>5, <1>7, <1>8, AppendExact

\* The three ways a release line comes about.
LEMMA ReleasesRetain ==
  ASSUME Faithful, Retained, Recoverable',
         \/ \E l \in table.leases, count \in BOOLEAN : ServeReleaseOne(l, count)
         \/ \E l \in Remembered : ServeReleaseGone(l)
         \/ \E c \in Cluster, inc \in Incarnation \cup {NoIncarnation}, count \in BOOLEAN :
              ServeReleaseAll(c, inc, count)
  PROVE  Retained' /\ (Exact => Exact')
  <1>0. Sound(table) /\ table \in Table /\ DisjointIn(table)
    BY InvCoverage DEF Retained, Recoverable, Sound
  <1>1. \A t, u : t = u => SameCore(t, u)
    BY DEF SameCore
  <1>2. ASSUME NEW c \in Cluster, NEW id \in LeaseId \cup {NoLease}
        PROVE  LET e == [op |-> "release", cluster |-> c, lease |-> id]
               IN  /\ e \in Whole /\ e.op = "release"
                   /\ Released(table, e) = {m \in table.leases : m.cluster = c /\ id \in {m.id, NoLease}}
    BY DEF Line, Whole, Released, Holding
  <1>3. \A l \in Lease : l.cluster \in Cluster /\ l.id \in LeaseId /\ l.id # NoLease
    BY CoordinatorAssumption DEF Lease, LeaseId
  <1>4. ASSUME NEW l \in table.leases, NEW count \in BOOLEAN, ServeReleaseOne(l, count)
        PROVE  Retained' /\ (Exact => Exact')
    <2> DEFINE e == [op |-> "release", cluster |-> l.cluster, lease |-> l.id]
    <2>1. l.cluster \in Cluster /\ l.id \in LeaseId /\ l.id # NoLease
      BY <1>0, <1>3 DEF Table
    <2>2. /\ e \in Whole /\ e.op = "release"
          /\ Released(table, e) = {m \in table.leases : m.cluster = l.cluster /\ l.id \in {m.id, NoLease}}
      BY <1>2, <2>1
    <2>3. Log(e) /\ acked' = acked /\ table' = Reclaimed(table, {l}, count)
      BY <1>4 DEF ServeReleaseOne, ReleaseOne
    <2> HIDE DEF e
    <2>4. Released(table, e) = {l}
      BY <1>0, <2>1, <2>2 DEF DisjointIn
    <2>5. SameCore(Reclaimed(table, Released(table, e), count), table')
      BY <1>1, <2>3, <2>4
    <2> QED BY <2>2, <2>3, <2>5, ReleaseRetains
  <1>5. ASSUME NEW l \in Remembered, ServeReleaseGone(l)
        PROVE  Retained' /\ (Exact => Exact')
    <2> DEFINE e == [op |-> "release", cluster |-> l.cluster, lease |-> l.id]
               count == TRUE
    <2>1. l \in Lease
      <3>1. snapshot # NoSnapshot => snapshot.leases \subseteq Lease
        BY InvCoverage DEF Retained, Recoverable, Sound, Table
      <3>2. ASSUME NEW i \in DOMAIN journal, journal[i].op = "acquire",
                   NEW j \in DOMAIN journal[i].leases
            PROVE  journal[i].leases[j] \in Lease
        <4>1. journal[i] \in Line
          BY LenProperties DEF Retained, Recoverable
        <4>2. journal[i].leases \in Seq(Lease)
          BY <3>2, <4>1 DEF Line
        <4> QED BY <4>2
      <3> QED BY <3>1, <3>2 DEF Remembered
    <2>2. /\ e \in Whole /\ e.op = "release"
          /\ Released(table, e) = {m \in table.leases : m.cluster = l.cluster /\ l.id \in {m.id, NoLease}}
      BY <1>2, <1>3, <2>1
    <2>3. Log(e) /\ acked' = acked /\ table' = table /\ ~\E m \in Holding(table, l.cluster) : m.id = l.id
      BY <1>5 DEF ServeReleaseGone
    <2> HIDE DEF e, count
    <2>4. Released(table, e) = {}
      BY <1>3, <2>1, <2>2, <2>3 DEF Holding
    <2> DEFINE gone == Released(table, e)
               r == Reclaimed(table, gone, count)
    <2>5. /\ r.epoch = table.epoch /\ r.seq = table.seq /\ r.leases = table.leases \ gone
          /\ r.state = Fill(table.state, Risked(gone), UNASSIGNED)
      <3> HIDE DEF gone
      <3> QED BY <1>0, ReclaimedCore
    <2>6. Fill(table.state, Risked(gone), UNASSIGNED) = table.state
      BY <1>0, <2>4 DEF Fill, Risked, Table
    <2> HIDE DEF r
    <2>7. SameCore(r, table')
      BY <2>3, <2>4, <2>5, <2>6 DEF SameCore
    <2> QED BY <2>2, <2>3, <2>7, ReleaseRetains DEF r
  <1>6. ASSUME NEW c \in Cluster, NEW inc \in Incarnation \cup {NoIncarnation}, NEW count \in BOOLEAN,
               ServeReleaseAll(c, inc, count)
        PROVE  Retained' /\ (Exact => Exact')
    <2> DEFINE e == [op |-> "release", cluster |-> c, lease |-> NoLease]
    <2>1. /\ e \in Whole /\ e.op = "release"
          /\ Released(table, e) = {m \in table.leases : m.cluster = c /\ NoLease \in {m.id, NoLease}}
      BY <1>2
    <2>2. MayReleaseAll(table, c, inc)
      BY DEF MayReleaseAll, Faithful
    <2>3. Log(e) /\ acked' = acked /\ table' = Reclaimed(table, Holding(table, c), count)
      BY <1>6, <2>2 DEF ServeReleaseAll
    <2> HIDE DEF e
    <2>4. Released(table, e) = Holding(table, c)
      BY <2>1 DEF Holding
    <2>5. SameCore(Reclaimed(table, Released(table, e), count), table')
      BY <1>1, <2>3, <2>4
    <2> QED BY <2>1, <2>3, <2>5, ReleaseRetains
  <1> QED BY <1>4, <1>5, <1>6

\* Nothing is reaped, the epoch stays, and a cluster that falls silent moves
\* nothing that a commit depends on.
LEMMA OthersRetain ==
  ASSUME Faithful, Retained, Recoverable', Tick \/ Status \/ ServeAdvance \/ TimePasses
  PROVE  Retained' /\ (Exact => Exact')
  <1>1. Sound(table) /\ Fresh(table) /\ table \in Table
    BY InvCoverage DEF Retained, Recoverable, Sound
  <1>2. ~Tick /\ ~Status
    BY <1>1 DEF Tick, Status, Reap, Fresh
  <1>3. \A t : SameCore(t, t)
    BY DEF SameCore
  <1>4. CASE ServeAdvance
    <2> DEFINE e == [op |-> "advance_epoch"]
    <2>1. e \in Whole /\ e.op = "advance_epoch"
      BY DEF Line, Whole
    <2>2. Log(e) /\ acked' = acked /\ table' = Advanced(table)
      BY <1>4 DEF ServeAdvance
    <2>3. table' = table
      BY <1>1, <2>2, AdvancedCore
    <2> HIDE DEF e
    <2>4. Retells(e)
      <3> SUFFICES ASSUME NEW t \in SoundTable, Alike(t, table)
                   PROVE  \E u : Rebuilt(t, <<e>>, u) /\ Alike(u, table')
        BY DEF Retells
      <3>1. Applied(t, e, t)
        BY <2>1, AdvancedCore DEF Applied, SoundTable
      <3>2. Rebuilt(t, <<e>>, t)
        BY <2>1, <3>1, OneLine
      <3> QED BY <2>3, <3>2
    <2>5. Told(table, journal) => Told(table', Append(journal, e))
      <3>1. table'.leases = {m \in table.leases : ~Drops(e, m)}
        BY <2>1, <2>3 DEF Drops
      <3>2. table \in SoundTable /\ More(Append(journal, e), journal, e)
        BY <1>1, <2>1, AppendMore DEF SoundTable, Retained
      <3> QED BY <2>1, <2>3, <3>1, <3>2, ToldPasses
    <2>6. Only(table) => Only(table)'
      BY <2>2, <2>3 DEF Only
    <2> QED BY <1>1, <2>1, <2>2, <2>3, <2>4, <2>5, <2>6, AppendExact
  <1>5. CASE TimePasses
    <2>1. PICK c \in Cluster : FallSilent(c)
      BY <1>5 DEF TimePasses, Faithful
    <2>2. SameCore(table, table')
      <3>1. \E C : table' = [table EXCEPT !.clusters = C]
        BY <2>1 DEF FallSilent
      <3> QED BY <1>1, <3>1 DEF SameCore, Table
    <2>3. Alike(table, table') /\ Fresh(table')
      BY <1>1, <2>2, AlikeItself DEF Fresh, SameCore
    <2> QED BY <1>5, <2>3, QuietExact DEF TimePasses
  <1> QED BY <1>2, <1>4, <1>5

\* Every RPC, every tick, and the passing of time.
LEMMA ServeRetains ==
  ASSUME Faithful, Retained, CoordinatorNext, phase = "up", phase' = "up"
  PROVE  Retained' /\ (Exact => Exact')
  <1>1. Recoverable'
    BY CoordinatorStep DEF Retained
  <1>2. ~SaveSnapshot /\ ~Truncate /\ ~Crash /\ ~Load
    BY DEF SaveSnapshot, Truncate, Crash, Load
  <1>3. \A op : ~Replaying(op)
    BY DEF Replaying
  <1>4. ~(ReplayRegister \/ ReplayAcquire \/ ReplayCommit \/ ReplayRelease
          \/ ReplayReap \/ ReplayAdvance \/ ReplayStop \/ ReplayDone)
    BY <1>3 DEF ReplayRegister, ReplayAcquire, ReplayCommit, ReplayRelease,
                ReplayReap, ReplayAdvance, ReplayStop, ReplayDone
  <1> QED BY <1>1, <1>2, <1>4, RegisterRetains, GrantRetains, NothingRetains, HeartbeatRetains,
             CommitRetains, ReleasesRetain, OthersRetain DEF CoordinatorNext

-----------------------------------------------------------------------------
(* Snapshots, crashes and restarts                                         *)

\* A snapshot is a copy of the table.
LEMMA UndatedAlike ==
  ASSUME NEW t \in SoundTable
  PROVE  /\ Undated(t) \in SoundTable /\ Undated(t) \in Table /\ Fresh(Undated(t))
         /\ Alike(Undated(t), t)
  <1> DEFINE D(l) == [l EXCEPT !.overdue = FALSE]
             L == {D(l) : l \in t.leases}
             r == Undated(t)
  <1>1. Sound(t) /\ t \in Table
    BY DEF SoundTable
  <1>2. Sound(r) /\ r \in Table
    BY <1>1, UndatedSound, InvCoverage DEF Sound
  <1>3. \A l \in t.leases : SameLease(D(l), l) /\ D(l).overdue = FALSE
    BY <1>1 DEF SameLease, Table, Lease
  <1>4. r = [t EXCEPT !.leases = L]
    BY DEF Undated
  <1> HIDE DEF D
  <1>5. /\ \A m \in L : \E l \in t.leases : SameLease(m, l)
        /\ \A l \in t.leases : \E m \in L : SameLease(m, l)
        /\ \A m \in L : ~m.overdue
    BY <1>3
  <1> HIDE DEF L, r
  <1>6. r.epoch = t.epoch /\ r.seq = t.seq /\ r.state = t.state /\ r.leases = L
    BY <1>1, <1>4 DEF Table
  <1>7. Fresh(r) /\ Alike(r, t)
    BY <1>5, <1>6 DEF Fresh, Alike
  <1> QED BY <1>2, <1>7 DEF SoundTable, r

\* A new snapshot holds all that was acknowledged, whatever is replayed on top
\* of it.
LEMMA SaveRetains ==
  ASSUME Faithful, Retained, Recoverable', SaveSnapshot
  PROVE  Retained'
  <1> DEFINE s == Undated(table)
  <1>0. /\ table \in SoundTable /\ durable \in 0 .. Len(journal) /\ Len(journal) \in Nat
        /\ journal \in Seq(Whole)
    BY SoundParts DEF Retained
  <1>1. s \in SoundTable /\ s \in Table /\ Fresh(s) /\ Alike(s, table)
    BY <1>0, UndatedAlike
  <1>2. /\ snapshot' = s /\ phase = "up" /\ phase' = "truncating"
        /\ table' = table /\ journal' = journal /\ durable' = durable /\ todo' = todo /\ acked' = acked
    BY DEF SaveSnapshot
  <1>3. snapshot' # NoSnapshot /\ snapshot' = Undated(table')
    BY <1>1, <1>2, CoordinatorAssumption
  <1> HIDE DEF s
  <1>4. Keeps(table) /\ \A p \in acked : p[2] \in Blocks
    BY <1>2 DEF Retained
  <1>5. ASSUME NEW k \in durable .. Len(journal), NEW x, Rebuilt(s, SubSeq(journal, 1, k), x)
        PROVE  Keeps(x)'
    <2> DEFINE j == SubSeq(journal, 1, k)
    <2>1. j \in Seq(Whole)
      <3>1. k \in 0 .. Len(journal)
        BY <1>0
      <3> QED BY <1>0, <3>1, Prefix
    <2>2. Rebuilt(s, j, x)
      BY <1>5
    <2> HIDE DEF j
    <2>3. x.epoch = s.epoch /\ \A b \in Blocks : s.state[b] = COMMITTED => x.state[b] = COMMITTED
      BY <1>1, <2>1, <2>2, RebuiltKeeps
    <2> QED BY <1>1, <1>2, <1>4, <2>3 DEF Keeps, Alike
  <1>6. Keeps(table)' /\ Fresh(table)' /\ Fresh(snapshot)'
    BY <1>1, <1>2, <1>4 DEF Keeps, Fresh, Retained
  <1>7. \A k \in durable' .. Len(journal') :
          \A x : Rebuilt(snapshot', SubSeq(journal', 1, k), x) => Keeps(x)'
    BY <1>2, <1>5
  <1>8. journal' \in Seq(Whole) /\ todo' \in Seq(Whole) /\ acked' \in SUBSET (Nat \X Blocks)
    BY <1>2 DEF Retained
  <1> QED BY <1>2, <1>3, <1>6, <1>7, <1>8 DEF Retained

\* Truncating the journal loses nothing that the snapshot does not hold.
LEMMA TruncateRetains ==
  ASSUME Faithful, Retained, Recoverable', Truncate
  PROVE  Retained'
  <1>0. table \in SoundTable /\ snapshot \in SoundTable
    BY SoundParts
  <1>1. /\ phase = "truncating" /\ phase' = "up" /\ journal' = <<>> /\ durable' = 0
        /\ table' = table /\ snapshot' = snapshot /\ todo' = todo /\ acked' = acked
    BY DEF Truncate
  <1>2. Alike(snapshot, table) /\ Keeps(table)
    <2>1. snapshot = Undated(table)
      BY <1>1 DEF Retained
    <2> QED BY <1>0, <1>1, <2>1, UndatedAlike DEF Retained
  <1>3. Rebuilt(snapshot, <<>>, snapshot) /\ \A x : Rebuilt(snapshot, <<>>, x) => x = snapshot
    BY <1>0, RebuiltNothing
  <1>4. Keeps(snapshot)' /\ Keeps(table)'
    BY <1>1, <1>2 DEF Keeps, Alike
  <1>5. ASSUME NEW k \in durable' .. Len(journal'), NEW x, Rebuilt(snapshot', SubSeq(journal', 1, k), x)
        PROVE  Keeps(x)'
    <2>1. SubSeq(journal', 1, k) = <<>>
      BY <1>1
    <2>2. x = snapshot
      BY <1>1, <1>3, <1>5, <2>1
    <2> QED BY <1>1, <1>4, <2>2
  <1>6. \E t \in SoundTable : Rebuilt(snapshot', journal', t) /\ Alike(t, table')
    BY <1>0, <1>1, <1>2, <1>3
  <1>7. /\ snapshot' # NoSnapshot /\ todo' \in Seq(Whole) /\ acked' \in SUBSET (Nat \X Blocks)
        /\ Fresh(table)' /\ Fresh(snapshot)'
    BY <1>1 DEF Retained, Fresh
  <1>8. journal' \in Seq(Whole)
    BY <1>1
  <1> QED BY <1>1, <1>4, <1>5, <1>6, <1>7, <1>8 DEF Retained

\* A crash leaves a prefix of the journal, and the invariant spoke of all of
\* them.
LEMMA CrashRetains ==
  ASSUME Faithful, Retained, Recoverable', Crash
  PROVE  Retained'
  <1>0. /\ journal \in Seq(Whole) /\ durable \in 0 .. Len(journal) /\ Len(journal) \in Nat
    BY SoundParts DEF Retained
  <1>1. /\ phase' = "down" /\ table' = NewTable /\ todo' = <<>>
        /\ snapshot' = snapshot /\ durable' = durable /\ acked' = acked
    BY DEF Crash
  <1>2. PICK n \in durable .. Len(journal) : journal' = SubSeq(journal, 1, n)
    BY DEF Crash, Faithful
  <1>3. n \in 0 .. Len(journal) /\ n \in Nat
    BY <1>0
  <1>4. /\ journal' \in Seq(Whole) /\ Len(journal') = n
        /\ \A k \in 0 .. n : SubSeq(journal', 1, k) = SubSeq(journal, 1, k)
    BY <1>0, <1>2, <1>3, Prefix
  <1>5. ASSUME NEW k \in durable' .. Len(journal'), NEW x, Rebuilt(snapshot', SubSeq(journal', 1, k), x)
        PROVE  Keeps(x)'
    <2>1. k \in 0 .. n /\ k \in durable .. Len(journal)
      BY <1>0, <1>1, <1>3, <1>4
    <2>2. SubSeq(journal', 1, k) = SubSeq(journal, 1, k)
      BY <1>4, <2>1
    <2>3. Keeps(x)
      BY <1>1, <1>5, <2>1, <2>2 DEF Retained
    <2> QED BY <1>1, <2>3 DEF Keeps
  <1>6. Fresh(table)' /\ Fresh(snapshot)'
    BY <1>1 DEF Fresh, NewTable, Retained
  <1>7. snapshot' # NoSnapshot /\ todo' \in Seq(Whole) /\ acked' \in SUBSET (Nat \X Blocks)
    BY <1>1 DEF Retained
  <1> QED BY <1>1, <1>4, <1>5, <1>6, <1>7 DEF Retained

\* What a step that leaves the files alone has to show, outside of the RPCs.
LEMMA FilesRetain ==
  ASSUME Retained, Recoverable', UNCHANGED <<disk, acked>>,
         todo' \in Seq(Whole), Fresh(table)', phase' \notin {"truncating"},
         phase' = "up" => \E t \in SoundTable : Rebuilt(snapshot, journal, t) /\ Alike(t, table'),
         phase' = "up" => Keeps(table)',
         phase' = "replaying" => \A t : Rebuilt(table', todo', t) => Rebuilt(snapshot, journal, t)
  PROVE  Retained'
  <1>1. /\ snapshot' = snapshot /\ journal' = journal /\ durable' = durable /\ acked' = acked
        /\ \A x : Keeps(x) => Keeps(x)'
    BY DEF disk, Keeps
  <1>2. \A k \in durable' .. Len(journal') :
          \A x : Rebuilt(snapshot', SubSeq(journal', 1, k), x) => Keeps(x)'
    BY <1>1 DEF Retained
  <1>3. /\ snapshot' # NoSnapshot /\ journal' \in Seq(Whole) /\ acked' \in SUBSET (Nat \X Blocks)
        /\ Fresh(snapshot)'
    BY <1>1 DEF Retained, Fresh
  <1> QED BY <1>1, <1>2, <1>3 DEF Retained

\* A restart begins the replay that the invariant is about.
LEMMA LoadRetains ==
  ASSUME Faithful, Retained, Recoverable', Load
  PROVE  Retained'
  <1>1. snapshot # NoSnapshot /\ Sound(snapshot) /\ Fresh(snapshot) /\ journal \in Seq(Whole)
    BY DEF Retained, Recoverable
  <1>2. table' = snapshot /\ todo' = journal /\ phase' = "replaying" /\ UNCHANGED <<disk, acked>>
    BY <1>1, RestoredSame DEF Load
  <1>3. Fresh(table)'
    BY <1>1, <1>2 DEF Fresh
  <1> QED BY <1>1, <1>2, <1>3, FilesRetain

\* A step of the replay is one of its moves.
LEMMA MoveRetains ==
  ASSUME Faithful, Retained, Recoverable', phase = "replaying", todo # <<>>,
         Applied(table, Head(todo), table'), todo' = Left(todo), UNCHANGED <<disk, phase, acked>>
  PROVE  Retained'
  <1> DEFINE x == <<table, todo>>
             y == <<table', Left(todo)>>
  <1>0. Sound(table) /\ table \in SoundTable /\ todo \in Seq(Whole) /\ Fresh(table)
    BY SoundParts DEF Retained, Recoverable
  <1>1. x \in Moment /\ x[1] = table /\ x[2] = todo
    BY <1>0 DEF Moment
  <1> HIDE DEF x
  <1>2. y \in Moment /\ ReplayStep(x, y)
    BY <1>1, MomentStep
  <1>3. y[1] = table' /\ y[2] = todo'
    OBVIOUS
  <1>4. todo' \in Seq(Whole)
    BY <1>2 DEF Moment
  <1> HIDE DEF y
  <1>5. \A t : Rebuilt(table', todo', t) => Rebuilt(table, todo, t)
    BY <1>1, <1>2, <1>3, RebuiltStep
  <1>6. \A t : Rebuilt(table', todo', t) => Rebuilt(snapshot, journal, t)
    BY <1>5 DEF Retained
  <1>7. Fresh(table)'
    <2>1. Head(todo) \in Whole
      BY <1>0, HeadTailProperties
    <2>2. Fresh(table')
      BY <1>0, <2>1, AppliedKeeps
    <2> QED BY <2>2 DEF Fresh
  <1>8. phase' = "replaying" /\ UNCHANGED <<disk, acked>>
    OBVIOUS
  <1> QED BY <1>4, <1>6, <1>7, <1>8, FilesRetain

\* The steps of a replay.
LEMMA ReplayRetains ==
  ASSUME Faithful, Retained, Recoverable',
         \/ ReplayRegister \/ ReplayAcquire \/ ReplayCommit \/ ReplayRelease
         \/ ReplayReap \/ ReplayAdvance \/ ReplayStop
  PROVE  Retained'
  <1> DEFINE line == Head(todo)
  <1>0. todo # <<>> => line \in Whole /\ line \in Line
    BY HeadTailProperties DEF Retained, Whole
  <1> HIDE DEF line
  <1>1. ASSUME NEW op, op # "acquire", Replaying(op), LineDone, Applied(table, line, table')
        PROVE  Retained'
    <2>1. phase = "replaying" /\ todo # <<>> /\ line.op = op
      BY <1>1 DEF Replaying, line
    <2>2. todo' = Left(todo) /\ UNCHANGED <<disk, phase, acked>>
      BY <1>1, <2>1 DEF LineDone, Left, history, line
    <2> QED BY <1>1, <2>1, <2>2, MoveRetains DEF line
  <1>2. CASE ReplayRegister
    <2>1. Applied(table, line, table')
      BY <1>2 DEF ReplayRegister, Replaying, Applied, line
    <2> QED BY <1>1, <1>2, <2>1 DEF ReplayRegister
  <1>3. CASE ReplayAcquire
    <2>1. phase = "replaying" /\ todo # <<>> /\ line.op = "acquire"
      BY <1>3 DEF ReplayAcquire, Replaying, line
    <2>2. Applied(table, line, table')
      BY <1>3, <2>1 DEF ReplayAcquire, Applied, line
    <2>3. todo' = Left(todo)
      <3>1. CASE Len(line.leases) = 1
        BY <1>3, <3>1 DEF ReplayAcquire, Left, line
      <3>2. CASE Len(line.leases) # 1
        <4>1. todo' = [todo EXCEPT ![1].leases = Tail(@)]
          BY <1>3, <3>2 DEF ReplayAcquire, line
        <4>2. todo[1] = line /\ 1 \in DOMAIN todo
          <5>1. todo \in Seq(Whole)
            BY DEF Retained
          <5> QED BY <2>1, <5>1, EmptySeq, LenProperties DEF line
        <4> DEFINE rest == [line EXCEPT !.leases = Tail(line.leases)]
        <4>3. todo' = [todo EXCEPT ![1] = rest]
          BY <4>1, <4>2
        <4>4. rest = Shorter(line)
          BY <1>0, <2>1, <3>2, ShorterLine
        <4>5. Left(todo) = [todo EXCEPT ![1] = Shorter(line)]
          BY <2>1, <3>2 DEF Left, line
        <4> HIDE DEF rest
        <4> QED BY <4>3, <4>4, <4>5
      <3> QED BY <3>1, <3>2
    <2>4. UNCHANGED <<disk, phase, acked>>
      BY <1>3 DEF ReplayAcquire, history
    <2> QED BY <2>1, <2>2, <2>3, <2>4, MoveRetains DEF line
  <1>4. CASE ReplayCommit
    <2>1. Applied(table, line, table')
      BY <1>4 DEF ReplayCommit, Replaying, Applied, line
    <2> QED BY <1>1, <1>4, <2>1 DEF ReplayCommit
  <1>5. CASE ReplayRelease
    <2>1. Applied(table, line, table')
      BY <1>5 DEF ReplayRelease, Replaying, Applied, line
    <2> QED BY <1>1, <1>5, <2>1 DEF ReplayRelease
  <1>6. CASE ReplayReap
    <2>1. Applied(table, line, table')
      BY <1>6 DEF ReplayReap, Replaying, Applied, line
    <2> QED BY <1>1, <1>6, <2>1 DEF ReplayReap
  <1>7. CASE ReplayAdvance
    <2>1. Applied(table, line, table')
      BY <1>7 DEF ReplayAdvance, Replaying, Applied, line
    <2> QED BY <1>1, <1>7, <2>1 DEF ReplayAdvance
  <1>8. ~ReplayStop
    BY <1>0 DEF ReplayStop, Replaying, Whole, line
  <1> QED BY <1>2, <1>3, <1>4, <1>5, <1>6, <1>7, <1>8

\* What the replay ends with is the table that the files hold.
LEMMA DoneRetains ==
  ASSUME Faithful, Retained, Recoverable', ReplayDone
  PROVE  Retained'
  <1>0. /\ table \in SoundTable /\ snapshot \in SoundTable /\ journal \in Seq(Whole)
        /\ durable \in 0 .. Len(journal) /\ Len(journal) \in Nat
    BY SoundParts DEF Retained
  <1>1. /\ phase = "replaying" /\ todo = <<>> /\ phase' = "up" /\ table' = table /\ todo' = todo
        /\ UNCHANGED <<disk, acked>>
    BY DEF ReplayDone
  <1>2. Rebuilt(snapshot, journal, table)
    BY <1>0, <1>1, RebuiltNothing DEF Retained
  <1>3. Keeps(table)
    <2>1. SubSeq(journal, 1, Len(journal)) = journal
      BY <1>0, SubSeqFull
    <2>2. Len(journal) \in durable .. Len(journal)
      BY <1>0
    <2> QED BY <1>2, <2>1, <2>2 DEF Retained
  <1>4. Alike(table, table')
    BY <1>1, AlikeItself DEF SameCore
  <1>5. Keeps(table)' /\ Fresh(table)'
    BY <1>1, <1>3 DEF Keeps, Fresh, Retained
  <1>6. todo' \in Seq(Whole)
    BY <1>1 DEF Retained
  <1> QED BY <1>0, <1>1, <1>2, <1>4, <1>5, <1>6, FilesRetain

\* Every step of the coordinator keeps what was acknowledged.
LEMMA RetainedStep ==
  ASSUME Faithful, Retained, [CoordinatorNext]_vars
  PROVE  Retained'
  <1>0. Recoverable'
    BY CoordinatorStep DEF Retained
  <1>1. CASE SaveSnapshot \/ Truncate \/ Crash \/ Load
    BY <1>0, <1>1, SaveRetains, TruncateRetains, CrashRetains, LoadRetains
  <1>2. CASE \/ ReplayRegister \/ ReplayAcquire \/ ReplayCommit \/ ReplayRelease
             \/ ReplayReap \/ ReplayAdvance \/ ReplayStop
    BY <1>0, <1>2, ReplayRetains
  <1>3. CASE ReplayDone
    BY <1>0, <1>3, DoneRetains
  <1>4. CASE CoordinatorNext /\ phase = "up" /\ phase' = "up"
    BY <1>4, ServeRetains
  <1>5. CASE UNCHANGED vars
    <2>1. /\ snapshot' = snapshot /\ journal' = journal /\ durable' = durable /\ table' = table
          /\ phase' = phase /\ todo' = todo /\ acked' = acked
      BY <1>5 DEF vars, disk, history
    <2>2. (\A x : Keeps(x) => Keeps(x)') /\ Fresh(table)' /\ Fresh(snapshot)' /\ (Keeps(table) => Keeps(table)')
      BY <2>1 DEF Keeps, Fresh, Retained
    <2> QED BY <1>0, <2>1, <2>2 DEF Retained
  <1>6. CASE CoordinatorNext
    <2>1. \A entry : Log(entry) \/ LogSynced(entry) \/ Unlogged => phase = "up" /\ phase' = "up"
      BY DEF Log, LogSynced, Write, Unlogged
    <2>2. \/ SaveSnapshot \/ Truncate \/ Crash \/ Load \/ ReplayAcquire
          \/ ReplayRegister \/ ReplayCommit \/ ReplayRelease
          \/ ReplayReap \/ ReplayAdvance \/ ReplayStop \/ ReplayDone
          \/ phase = "up" /\ phase' = "up"
      BY <1>6, <2>1 DEF CoordinatorNext, ServeRegister, ServeAcquire, ServeAcquireNothing,
         ServeHeartbeat, ServeCommit, ServeReleaseOne, ServeReleaseGone, ServeReleaseAll,
         Tick, Status, ServeAdvance, TimePasses
    <2> QED BY <1>1, <1>2, <1>3, <1>4, <1>6, <2>2
  <1> QED BY <1>5, <1>6

\* A coordinator that starts with a snapshot has nothing to lose yet.
LEMMA RetainedStarts ==
  ASSUME Faithful, CoordinatorInit
  PROVE  Retained
  <1>1. /\ table = NewTable /\ snapshot = NewTable /\ journal = <<>> /\ durable = 0
        /\ phase = "up" /\ todo = <<>> /\ acked = {}
    BY DEF CoordinatorInit, Init, Faithful
  <1>2. Recoverable /\ NewTable \in Table /\ NewTable \in SoundTable
    BY CoordinatorStarts, NewTableSound, InvCoverage DEF Sound, SoundTable
  <1>3. Fresh(NewTable)
    BY DEF Fresh, NewTable
  <1>4. Rebuilt(snapshot, journal, NewTable) /\ Alike(NewTable, table)
    BY <1>1, <1>2, RebuiltNothing, AlikeItself DEF SameCore
  <1>5. \A x : Keeps(x)
    BY <1>1 DEF Keeps
  <1>6. snapshot # NoSnapshot
    BY <1>1, <1>2, CoordinatorAssumption
  <1>7. journal \in Seq(Whole) /\ todo \in Seq(Whole)
    BY <1>1
  <1> QED BY <1>1, <1>2, <1>3, <1>4, <1>5, <1>6, <1>7 DEF Retained

\* When the journal tells the whole story, no restart forgets a commit that was
\* acknowledged: whatever suffix of the unsynced lines a crash takes, whether
\* it falls in the middle of a replay or between the snapshot and the
\* truncation, and however often it happens.
THEOREM AckedCommitsSurvive == Faithful => (CoordinatorSpec => []CommitsSurvive)
  <1> SUFFICES ASSUME Faithful
               PROVE  CoordinatorSpec => []CommitsSurvive
    OBVIOUS
  <1>1. CoordinatorInit => Retained
    BY RetainedStarts
  <1>2. Retained /\ [CoordinatorNext]_vars => Retained'
    BY RetainedStep
  <1>3. Retained => CommitsSurvive
    BY DEF Retained, CommitsSurvive, Serving, Keeps
  <1> QED BY <1>1, <1>2, <1>3, PTL DEF CoordinatorSpec

-----------------------------------------------------------------------------
(* What the files tell, exactly                                            *)

\* A new snapshot: replaying the journal on top of it changes nothing.
LEMMA SaveExact ==
  ASSUME Faithful, Retained, Exact, SaveSnapshot
  PROVE  Exact'
  <1> DEFINE s == Undated(table)
  <1>0. /\ table \in SoundTable /\ durable \in 0 .. Len(journal) /\ Len(journal) \in Nat
        /\ journal \in Seq(Whole)
    BY SoundParts DEF Retained
  <1>1. s \in SoundTable /\ Alike(s, table)
    BY <1>0, UndatedAlike
  <1>2. /\ snapshot' = s /\ phase = "up" /\ phase' = "truncating" /\ covered' = Len(journal)
        /\ table' = table /\ journal' = journal /\ durable' = durable
        /\ acked' = acked /\ outrun' = outrun
    BY DEF SaveSnapshot
  <1> HIDE DEF s
  <1>3. \A x : Only(x) <=> Only(x)'
    BY <1>2 DEF Only
  <1>4. ASSUME ~outrun
        PROVE  /\ Told(table, journal) /\ Only(table)
               /\ \A k \in durable .. Len(journal) : Len(journal) <= k =>
                    \A t : Rebuilt(s, SubSeq(journal, 1, k), t) => Told(t, SubSeq(journal, 1, k)) /\ Only(t)
    <2>1. Told(table, journal) /\ Only(table)
      BY <1>2, <1>4 DEF Exact, Serving
    <2>2. Told(s, journal)
      BY <1>1, <2>1, AlikeBack, ToldAlike
    <2>3. ASSUME NEW t, Rebuilt(s, journal, t)
          PROVE  Told(t, journal) /\ Only(t)
      <3>1. Alike(t, s) /\ Alike(s, t)
        BY <1>0, <1>1, <2>2, <2>3, ReplayTwice, AlikeBack
      <3>2. Told(t, journal)
        BY <2>2, <3>1, ToldAlike
      <3>3. t.epoch = table.epoch /\ t.state = table.state
        BY <1>1, <3>1 DEF Alike
      <3> QED BY <2>1, <3>2, <3>3 DEF Only
    <2>4. \A k \in durable .. Len(journal) : Len(journal) <= k => SubSeq(journal, 1, k) = journal
      <3>1. \A k \in durable .. Len(journal) : Len(journal) <= k => k = Len(journal)
        BY <1>0
      <3> QED BY <1>0, <3>1, SubSeqFull
    <2> QED BY <2>1, <2>3, <2>4
  <1>5. covered' \in 0 .. Len(journal') /\ Serving'
    BY <1>0, <1>2 DEF Serving
  <1>6. ASSUME ~outrun, NEW k \in durable' .. Len(journal'), covered' <= k, NEW t,
               Rebuilt(snapshot', SubSeq(journal', 1, k), t)
        PROVE  Told(t, SubSeq(journal', 1, k)) /\ Only(t)'
    BY <1>2, <1>3, <1>4, <1>6
  <1>7. ~outrun => Told(table', journal') /\ Only(table)'
    BY <1>2, <1>4 DEF Only
  <1> QED BY <1>2, <1>5, <1>6, <1>7 DEF Exact

\* An empty journal tells nothing.
LEMMA TruncateExact ==
  ASSUME Faithful, Retained, Exact, Truncate
  PROVE  Exact'
  <1>0. table \in SoundTable /\ snapshot \in SoundTable
    BY SoundParts
  <1>1. /\ phase = "truncating" /\ phase' = "up" /\ journal' = <<>> /\ durable' = 0 /\ covered' = 0
        /\ table' = table /\ snapshot' = snapshot /\ acked' = acked /\ outrun' = outrun
    BY DEF Truncate
  <1>2. Alike(snapshot, table)
    BY <1>0, <1>1, UndatedAlike DEF Retained
  <1>3. ~outrun => Only(table)' /\ Only(snapshot)'
    BY <1>1, <1>2 DEF Exact, Serving, Only, Alike
  <1>4. Len(<<>>) = 0 /\ SubSeq(<<>>, 1, 0) = <<>>
    OBVIOUS
  <1>5. ASSUME ~outrun, NEW k \in durable' .. Len(journal'), NEW t,
               Rebuilt(snapshot', SubSeq(journal', 1, k), t)
        PROVE  Told(t, SubSeq(journal', 1, k)) /\ Only(t)'
    <2>1. SubSeq(journal', 1, k) = <<>>
      BY <1>1, <1>4
    <2>2. t = snapshot
      BY <1>0, <1>1, <1>5, <2>1, RebuiltNothing
    <2>3. Told(t, <<>>)
      BY ToldNothing
    <2>4. Only(t)'
      BY <1>1, <1>3, <1>5, <2>2 DEF Only
    <2> QED BY <2>1, <2>3, <2>4
  <1>6. Told(table', journal')
    BY <1>1, ToldNothing
  <1>7. covered' \in 0 .. Len(journal') /\ Serving'
    BY <1>1, <1>4 DEF Serving
  <1> QED BY <1>1, <1>3, <1>5, <1>6, <1>7 DEF Exact

\* A crash that loses no line leaves a copy of the table, leases and all.
LEMMA CrashFinds ==
  ASSUME Faithful, Retained, Exact, ~outrun, phase \in {"up", "truncating"},
         NEW x, Rebuilt(snapshot, journal, x)
  PROVE  Alike(x, table)
  <1>0. table \in SoundTable /\ snapshot \in SoundTable /\ journal \in Seq(Whole)
    BY SoundParts DEF Retained
  <1>1. CASE phase = "up"
    <2>1. PICK t \in SoundTable : Rebuilt(snapshot, journal, t) /\ Alike(t, table)
      BY <1>1 DEF Retained
    <2> QED BY <1>0, <2>1, RebuiltOnce
  <1>2. CASE phase = "truncating"
    <2>1. Alike(snapshot, table)
      BY <1>0, <1>2, UndatedAlike DEF Retained
    <2>2. Told(snapshot, journal)
      BY <1>2, <2>1, AlikeBack, ToldAlike DEF Exact, Serving
    <2>3. Alike(x, snapshot)
      BY <1>0, <2>2, ReplayTwice
    <2>4. \A l, m, n : SameLease(l, m) /\ SameLease(m, n) => SameLease(l, n)
      BY DEF SameLease
    <2> QED BY <2>1, <2>3, <2>4 DEF Alike
  <1> QED BY <1>1, <1>2

\* A crash leaves a prefix of the journal: if it still has the lines that the
\* snapshot holds, nothing was outrun.
LEMMA CrashExact ==
  ASSUME Faithful, Retained, Exact, Crash
  PROVE  Exact'
  <1>0. /\ journal \in Seq(Whole) /\ durable \in 0 .. Len(journal) /\ Len(journal) \in Nat
        /\ covered \in 0 .. Len(journal) /\ phase \in {"up", "truncating", "down", "replaying"}
    BY SoundParts DEF Retained, Recoverable, Exact
  <1>1. /\ phase # "down" /\ phase' = "down" /\ snapshot' = snapshot /\ durable' = durable /\ acked' = acked
    BY DEF Crash
  <1>2. PICK n \in durable .. Len(journal) :
          /\ journal' = SubSeq(journal, 1, n)
          /\ held' = IF n < Len(journal) THEN {}
                     ELSE IF phase = "replaying" THEN held
                     ELSE {<<l.id, l.cluster>> : l \in table.leases}
          /\ outrun' = (outrun \/ n < covered) /\ covered' = Smaller(covered, n)
    BY DEF Crash, Faithful
  <1>3. n \in 0 .. Len(journal) /\ n \in Nat
    BY <1>0
  <1>4. /\ Len(journal') = n /\ \A k \in 0 .. n : SubSeq(journal', 1, k) = SubSeq(journal, 1, k)
    BY <1>0, <1>2, <1>3, Prefix
  <1>5. covered' \in 0 .. Len(journal') /\ ~Serving'
    BY <1>0, <1>1, <1>2, <1>3, <1>4 DEF Smaller, Serving
  <1>6. \A x : Only(x) => Only(x)'
    BY <1>1 DEF Only
  <1>7. ASSUME ~outrun'
        PROVE  ~outrun /\ covered' = covered
    <2>1. ~outrun /\ ~(n < covered)
      BY <1>2, <1>7
    <2> QED BY <1>0, <1>2, <1>3, <2>1 DEF Smaller
  <1>8. ASSUME ~outrun', NEW k \in durable' .. Len(journal'), covered' <= k, NEW t,
               Rebuilt(snapshot', SubSeq(journal', 1, k), t)
        PROVE  Told(t, SubSeq(journal', 1, k)) /\ Only(t)'
    <2>1. k \in 0 .. n /\ k \in durable .. Len(journal)
      BY <1>0, <1>1, <1>3, <1>4
    <2>2. SubSeq(journal', 1, k) = SubSeq(journal, 1, k)
      BY <1>4, <2>1
    <2>3. Told(t, SubSeq(journal, 1, k)) /\ Only(t)
      BY <1>1, <1>7, <1>8, <2>1, <2>2 DEF Exact
    <2> QED BY <1>6, <2>2, <2>3
  <1>9. ASSUME ~outrun', NEW t, Rebuilt(snapshot', journal', t)
        PROVE  Finds(t)'
    <2>1. CASE n < Len(journal)
      BY <1>2, <2>1 DEF Finds
    <2>2. CASE ~(n < Len(journal))
      <3>1. n = Len(journal)
        BY <1>0, <1>3, <2>2
      <3>2. journal' = journal
        BY <1>0, <1>2, <3>1, SubSeqFull
      <3>3. Rebuilt(snapshot, journal, t)
        BY <1>1, <1>9, <3>2
      <3>4. CASE phase = "replaying"
        <4>1. Finds(t)
          BY <1>7, <1>9, <3>3, <3>4 DEF Exact, Serving
        <4>2. held' = held
          BY <1>2, <2>2, <3>4
        <4> QED BY <4>1, <4>2 DEF Finds
      <3>5. CASE phase \in {"up", "truncating"}
        <4>1. Alike(t, table)
          BY <1>7, <1>9, <3>3, <3>5, CrashFinds
        <4>2. held' = {<<l.id, l.cluster>> : l \in table.leases}
          BY <1>2, <2>2, <3>5
        <4> QED BY <4>1, <4>2 DEF Finds, Alike, SameLease
      <3> QED BY <1>0, <1>1, <3>4, <3>5
    <2> QED BY <2>1, <2>2
  <1> QED BY <1>5, <1>8, <1>9 DEF Exact

\* A restart that goes on, or comes to its end.
LEMMA RestartExact ==
  ASSUME Faithful, Retained, Exact, UNCHANGED <<disk, acked, covered, outrun>>,
         phase \in {"down", "replaying"},
         \/ phase' = "replaying" /\ held' = held
         \/ phase' = "up" /\ table' = table /\ Rebuilt(snapshot, journal, table)
  PROVE  Exact'
  <1>0. /\ journal \in Seq(Whole) /\ durable \in 0 .. Len(journal) /\ Len(journal) \in Nat
        /\ covered \in 0 .. Len(journal)
    BY SoundParts DEF Retained, Exact
  <1>1. /\ snapshot' = snapshot /\ journal' = journal /\ durable' = durable /\ acked' = acked
        /\ covered' = covered /\ outrun' = outrun /\ ~Serving
        /\ \A x : Only(x) => Only(x)'
    BY DEF disk, Serving, Only
  <1>2. \A k \in durable' .. Len(journal') : ~outrun /\ covered' <= k =>
          \A t : Rebuilt(snapshot', SubSeq(journal', 1, k), t) =>
                   Told(t, SubSeq(journal', 1, k)) /\ Only(t)'
    BY <1>1 DEF Exact
  <1>3. CASE phase' = "replaying" /\ held' = held
    <2>1. ~Serving'
      BY <1>3 DEF Serving
    <2>2. ~outrun => \A t : Rebuilt(snapshot', journal', t) => Finds(t)'
      BY <1>1, <1>3 DEF Exact, Finds
    <2> QED BY <1>0, <1>1, <1>2, <2>1, <2>2 DEF Exact
  <1>4. CASE phase' = "up" /\ table' = table /\ Rebuilt(snapshot, journal, table)
    <2>1. Serving'
      BY <1>4 DEF Serving
    <2>2. ~outrun => Told(table, journal) /\ Only(table)
      <3>1. SubSeq(journal, 1, Len(journal)) = journal
        BY <1>0, SubSeqFull
      <3>2. Len(journal) \in durable .. Len(journal) /\ covered <= Len(journal)
        BY <1>0
      <3> QED BY <1>4, <3>1, <3>2 DEF Exact
    <2>3. ~outrun => Told(table', journal') /\ Only(table)'
      BY <1>1, <1>4, <2>2 DEF Only
    <2> QED BY <1>0, <1>1, <1>2, <2>1, <2>3 DEF Exact
  <1> QED BY <1>3, <1>4

\* What a replay ends with is what the files hold.
LEMMA DoneRebuilt ==
  ASSUME Retained, ReplayDone
  PROVE  Rebuilt(snapshot, journal, table) /\ table' = table
  <1>1. table \in SoundTable /\ phase = "replaying" /\ todo = <<>> /\ table' = table
    BY SoundParts DEF ReplayDone
  <1> QED BY <1>1, RebuiltNothing DEF Retained

\* Every step keeps the two invariants.
LEMMA ExactStep ==
  ASSUME Faithful, Retained, Exact, [CoordinatorNext]_vars
  PROVE  Retained' /\ Exact'
  <1>0. Retained' /\ Recoverable'
    BY RetainedStep DEF Retained
  <1>1. CASE SaveSnapshot \/ Truncate \/ Crash
    BY <1>0, <1>1, SaveExact, TruncateExact, CrashExact
  <1>2. CASE Load
    <2>1. snapshot # NoSnapshot
      BY DEF Retained
    <2>2. /\ phase \in {"down", "replaying"} /\ phase' = "replaying" /\ held' = held
          /\ UNCHANGED <<disk, acked, covered, outrun>>
      BY <1>2, <2>1 DEF Load
    <2> QED BY <1>0, <2>2, RestartExact
  <1>3. CASE \/ ReplayRegister \/ ReplayAcquire \/ ReplayCommit \/ ReplayRelease
             \/ ReplayReap \/ ReplayAdvance \/ ReplayStop
    <2>1. /\ phase \in {"down", "replaying"} /\ phase' = "replaying" /\ held' = held
          /\ UNCHANGED <<disk, acked, covered, outrun>>
      BY <1>3 DEF ReplayRegister, ReplayAcquire, ReplayCommit, ReplayRelease,
                  ReplayReap, ReplayAdvance, ReplayStop, LineDone, Replaying, history
    <2> QED BY <1>0, <2>1, RestartExact
  <1>4. CASE ReplayDone
    <2>1. /\ phase \in {"down", "replaying"} /\ phase' = "up"
          /\ UNCHANGED <<disk, acked, covered, outrun>>
      BY <1>4 DEF ReplayDone
    <2> QED BY <1>0, <1>4, <2>1, DoneRebuilt, RestartExact
  <1>5. CASE CoordinatorNext /\ phase = "up" /\ phase' = "up"
    BY <1>5, ServeRetains
  <1>6. CASE UNCHANGED vars
    <2>1. /\ snapshot' = snapshot /\ journal' = journal /\ durable' = durable /\ table' = table
          /\ phase' = phase /\ acked' = acked /\ covered' = covered /\ outrun' = outrun /\ held' = held
      BY <1>6 DEF vars, disk, history
    <2>2. /\ \A x : (Only(x) => Only(x)') /\ (Finds(x) => Finds(x)')
          /\ (Only(table) => Only(table)') /\ (Serving' <=> Serving)
      BY <2>1 DEF Only, Finds, Serving
    <2>3. /\ covered' \in 0 .. Len(journal')
          /\ ~outrun' =>
               /\ Serving' => Told(table', journal') /\ Only(table)'
               /\ ~Serving' => \A t : Rebuilt(snapshot', journal', t) => Finds(t)'
               /\ \A k \in durable' .. Len(journal') : covered' <= k =>
                    \A t : Rebuilt(snapshot', SubSeq(journal', 1, k), t) =>
                             Told(t, SubSeq(journal', 1, k)) /\ Only(t)'
      BY <2>1, <2>2 DEF Exact
    <2> QED BY <1>0, <2>3 DEF Exact
  <1>7. CASE CoordinatorNext
    <2>1. \A entry : Log(entry) \/ LogSynced(entry) \/ Unlogged => phase = "up" /\ phase' = "up"
      BY DEF Log, LogSynced, Write, Unlogged
    <2>2. \/ SaveSnapshot \/ Truncate \/ Crash \/ Load \/ ReplayAcquire
          \/ ReplayRegister \/ ReplayCommit \/ ReplayRelease
          \/ ReplayReap \/ ReplayAdvance \/ ReplayStop \/ ReplayDone
          \/ phase = "up" /\ phase' = "up"
      BY <1>7, <2>1 DEF CoordinatorNext, ServeRegister, ServeAcquire, ServeAcquireNothing,
         ServeHeartbeat, ServeCommit, ServeReleaseOne, ServeReleaseGone, ServeReleaseAll,
         Tick, Status, ServeAdvance, TimePasses
    <2> QED BY <1>1, <1>2, <1>3, <1>4, <1>5, <1>7, <2>2
  <1> QED BY <1>6, <1>7

\* At the start nothing has been told and nothing is committed.
LEMMA ExactStarts ==
  ASSUME Faithful, CoordinatorInit
  PROVE  Retained /\ Exact
  <1>1. /\ table = NewTable /\ snapshot = NewTable /\ journal = <<>> /\ durable = 0
        /\ phase = "up" /\ covered = 0
    BY DEF CoordinatorInit, Init, Faithful
  <1>2. Retained /\ NewTable \in SoundTable
    BY <1>1, RetainedStarts, SoundParts
  <1>3. Only(NewTable)
    BY DEF Only, NewTable, COMMITTED, UNASSIGNED
  <1>4. Len(<<>>) = 0 /\ SubSeq(<<>>, 1, 0) = <<>>
    OBVIOUS
  <1>5. ASSUME NEW k \in durable .. Len(journal), NEW t, Rebuilt(snapshot, SubSeq(journal, 1, k), t)
        PROVE  Told(t, SubSeq(journal, 1, k)) /\ Only(t)
    <2>1. SubSeq(journal, 1, k) = <<>>
      BY <1>1, <1>4
    <2>2. t = NewTable
      BY <1>1, <1>2, <1>5, <2>1, RebuiltNothing
    <2> QED BY <1>3, <2>1, <2>2, ToldNothing
  <1>6. Told(table, journal) /\ Only(table) /\ Serving /\ covered \in 0 .. Len(journal)
    BY <1>1, <1>3, <1>4, ToldNothing DEF Serving
  <1> QED BY <1>2, <1>5, <1>6 DEF Exact

\* When the journal tells the whole story, no restart settles a position that
\* was not acknowledged, as long as no crash took lines that a snapshot held:
\* replaying a commit line on top of a snapshot that already has its effect, on
\* a lease that is gone or handed out again, settles nothing.
THEOREM RestartsSettleNothing == Faithful => (CoordinatorSpec => []NoPhantomCommit)
  <1> SUFFICES ASSUME Faithful
               PROVE  CoordinatorSpec => []NoPhantomCommit
    OBVIOUS
  <1>1. CoordinatorInit => Retained /\ Exact
    BY ExactStarts
  <1>2. (Retained /\ Exact) /\ [CoordinatorNext]_vars => (Retained /\ Exact)'
    BY ExactStep
  <1>3. Retained /\ Exact => NoPhantomCommit
    BY DEF Exact, NoPhantomCommit, Only
  <1> QED BY <1>1, <1>2, <1>3, PTL DEF CoordinatorSpec

\* Under the same conditions the clusters find, after a restart that lost no
\* line, every lease they held: restore rebuilds all of them from the snapshot
\* and the journal, also when the journal is replayed a second time.
THEOREM RestartsFindLeases == Faithful => (CoordinatorSpec => LeasesSurvive)
  <1> DEFINE Found == phase' = "up" /\ phase \in {"down", "replaying"} /\ ~outrun =>
                        \A h \in held : \E l \in table'.leases : <<l.id, l.cluster>> = h
  <1> SUFFICES ASSUME Faithful
               PROVE  CoordinatorSpec => LeasesSurvive
    OBVIOUS
  <1>1. CoordinatorInit => Retained /\ Exact
    BY ExactStarts
  <1>2. (Retained /\ Exact) /\ [CoordinatorNext]_vars => (Retained /\ Exact)'
    BY ExactStep
  <1>3. (Retained /\ Exact) /\ [CoordinatorNext]_vars => [Found]_vars
    <2> SUFFICES ASSUME Retained, Exact, CoordinatorNext, phase' = "up", phase \in {"down", "replaying"}, ~outrun
                 PROVE  \A h \in held : \E l \in table'.leases : <<l.id, l.cluster>> = h
      OBVIOUS
    <2>1. \A entry : ~Log(entry) /\ ~LogSynced(entry) /\ ~Unlogged
      BY DEF Log, LogSynced, Write, Unlogged
    <2>2. ~Load /\ ~SaveSnapshot /\ ~Truncate /\ ~Crash
      BY DEF Load, SaveSnapshot, Truncate, Crash, Retained
    <2>3. ~(ReplayRegister \/ ReplayAcquire \/ ReplayCommit \/ ReplayRelease
            \/ ReplayReap \/ ReplayAdvance \/ ReplayStop)
      BY DEF ReplayRegister, ReplayAcquire, ReplayCommit, ReplayRelease,
             ReplayReap, ReplayAdvance, ReplayStop, LineDone, Replaying
    <2>4. ReplayDone
      BY <2>1, <2>2, <2>3 DEF CoordinatorNext, ServeRegister, ServeAcquire, ServeAcquireNothing,
         ServeHeartbeat, ServeCommit, ServeReleaseOne, ServeReleaseGone, ServeReleaseAll,
         Tick, Status, ServeAdvance, TimePasses
    <2>5. Finds(table) /\ table' = table
      BY <2>4, DoneRebuilt DEF Exact, Serving
    <2> QED BY <2>5 DEF Finds
  <1>4. CoordinatorSpec => [][Found]_vars
    BY <1>1, <1>2, <1>3, PTL DEF CoordinatorSpec
  <1> QED BY <1>4 DEF LeasesSurvive

=============================================================================
