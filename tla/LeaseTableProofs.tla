-------------------------- MODULE LeaseTableProofs --------------------------
(***************************************************************************)
(* Theorems about LeaseTable for every number of positions, clusters and   *)
(* epochs.  The lemmas speak of table values, one per operator, so that    *)
(* they serve the live table and a table rebuilt by journal replay alike.  *)
(* The second half is what a step may do: a steal spares what its victim   *)
(* reported, an epoch is left only when nothing is left in it, and each    *)
(* step is one the abstract BlockLedger allows.                            *)
(***************************************************************************)
EXTENDS LeaseTable, FiniteSetTheorems, WellFoundedInduction, TLAPS

-----------------------------------------------------------------------------
(* The inductive invariant                                                 *)

\* Ids in use were handed out: seq is at least the counter in each.
Issued(t) == \A l \in t.leases : l.id[3] <= t.seq

\* The coverage of every position outside S, while the positions in S are
\* between two owners: out of the pool and in no lease yet.
CoverageBut(t, S) ==
    \A b \in Blocks :
        IF b \in S
        THEN /\ t.state[b] \in {UNASSIGNED, LEASED}
             /\ b \notin t.free
             /\ \A l \in t.leases : b \notin Outstanding(l)
        ELSE /\ t.state[b] = LEASED <=> \E l \in t.leases : b \in Outstanding(l)
             /\ t.state[b] = UNASSIGNED <=> b \in t.free

InvBut(t, S) ==
    /\ t \in Table
    /\ Issued(t)
    /\ Ordered(t)
    /\ DisjointIn(t)
    /\ CoverageBut(t, S)
    /\ CountersIn(t)
    /\ QuarantineIn(t)

Inv(t) == InvBut(t, {})

-----------------------------------------------------------------------------
(* Lemmas on the operators                                                 *)

LEMMA BlocksFinite == IsFiniteSet(Blocks) /\ Cardinality(Blocks) = NumBlocks
  BY FS_Interval, PoolAssumption DEF Blocks

\* Outstanding positions are positions of the epoch.
LEMMA OutstandingInBlocks ==
  ASSUME NEW t \in Table, Ordered(t), NEW l \in t.leases
  PROVE  Outstanding(l) \subseteq Blocks /\ Outstanding(l) # {}
  <1>1. l \in Lease
    BY DEF Table
  <1>2. /\ l.committed_end \in Nat /\ l.end \in Nat /\ l.start \in Nat
        /\ l.committed_end < l.end /\ l.end <= NumBlocks
    BY <1>1 DEF Lease, Ordered
  <1>3. Outstanding(l) \subseteq Blocks
    BY <1>2, PoolAssumption DEF Outstanding, Blocks
  <1>4. l.committed_end \in Outstanding(l)
    BY <1>2 DEF Outstanding
  <1> QED BY <1>3, <1>4

\* A new table satisfies the invariant.
LEMMA NewTableInv == Inv(NewTable)
  <1>1. NewTable \in Table
    BY TableAssumption, PoolAssumption
    DEF NewTable, Table, NewRecord, ClusterRecord, BlockState, Blocks, UNASSIGNED
  <1>2. CountersIn(NewTable)
    <2>1. InState(NewTable, COMMITTED) = {} /\ InState(NewTable, QUARANTINED) = {}
      BY DEF InState, NewTable, UNASSIGNED, COMMITTED, QUARANTINED
    <2> QED BY <2>1, FS_EmptySet DEF CountersIn, NewTable
  <1>3. Issued(NewTable) /\ Ordered(NewTable) /\ DisjointIn(NewTable)
    BY DEF Issued, Ordered, DisjointIn, NewTable
  <1>4. CoverageBut(NewTable, {})
    BY DEF CoverageBut, NewTable, UNASSIGNED, LEASED
  <1>5. QuarantineIn(NewTable)
    BY TableAssumption DEF QuarantineIn, NewTable, UNASSIGNED, QUARANTINED
  <1> QED BY <1>1, <1>2, <1>3, <1>4, <1>5 DEF Inv, InvBut

\* InvBut with nothing in between is the plain coverage.
LEMMA InvCoverage ==
  ASSUME NEW t, Inv(t)
  PROVE  /\ t \in Table /\ Issued(t) /\ Ordered(t) /\ DisjointIn(t)
         /\ CoverageIn(t) /\ CountersIn(t) /\ QuarantineIn(t)
  BY DEF Inv, InvBut, CoverageBut, CoverageIn

\* The positions in one state are finitely many.
LEMMA InStateFinite ==
  ASSUME NEW t, NEW value
  PROVE  IsFiniteSet(InState(t, value))
  BY BlocksFinite, FS_Subset DEF InState

LEMMA DisjointCardinality ==
  ASSUME NEW S, NEW T, IsFiniteSet(S), IsFiniteSet(T), S \cap T = {}
  PROVE  /\ IsFiniteSet(S \cup T)
         /\ Cardinality(S \cup T) = Cardinality(S) + Cardinality(T)
  <1>1. Cardinality(S) \in Nat /\ Cardinality(T) \in Nat
    BY FS_CardinalityType
  <1>2. Cardinality(S \cap T) = 0
    BY FS_EmptySet
  <1>3. Cardinality(S \cup T) = Cardinality(S) + Cardinality(T) - Cardinality(S \cap T)
    BY FS_Union
  <1> QED BY <1>1, <1>2, <1>3, FS_Union

\* _reclaim keeps the invariant, for any set of leases and either flag.
LEMMA ReclaimedInv ==
  ASSUME NEW t, Inv(t), NEW gone \in SUBSET t.leases, NEW count \in BOOLEAN
  PROVE  Inv(Reclaimed(t, gone, count))
  <1> DEFINE tail == UNION {Outstanding(l) : l \in gone}
             tried == [b \in Blocks |-> IF count /\ b \in tail
                                        THEN t.attempts[b] + 1 ELSE t.attempts[b]]
             bad == {b \in tail : count /\ MaxAttempts # 0 /\ tried[b] >= MaxAttempts}
             r == Reclaimed(t, gone, count)
  <1>1. /\ t \in Table /\ Issued(t) /\ Ordered(t) /\ DisjointIn(t)
        /\ CoverageIn(t) /\ CountersIn(t) /\ QuarantineIn(t)
    BY InvCoverage
  <1>2. tail \subseteq Blocks /\ bad \subseteq tail
    BY <1>1, OutstandingInBlocks
  <1>3. /\ \A b \in tail : t.state[b] = LEASED
        /\ \A b \in tail, l \in t.leases \ gone : b \notin Outstanding(l)
    BY <1>1, <1>2 DEF CoverageIn, DisjointIn
  <1>4. /\ r.epoch = t.epoch /\ r.committed = t.committed
        /\ r.seq = t.seq /\ r.clusters = t.clusters
        /\ r.leases = t.leases \ gone
        /\ r.attempts = tried
        /\ r.free = t.free \cup (tail \ bad)
        /\ r.quarantined = t.quarantined + Cardinality(bad)
    BY <1>1 DEF Reclaimed, Exhausted, Table
  <1>5. /\ r.state = [b \in Blocks |-> IF b \in bad THEN QUARANTINED
                                       ELSE IF b \in tail THEN UNASSIGNED ELSE t.state[b]]
    <2>1. r.state = Fill(Fill(t.state, tail \ bad, UNASSIGNED), bad, QUARANTINED)
      BY <1>1 DEF Reclaimed, Exhausted, Table
    <2> QED BY <2>1, <1>2 DEF Fill
  <1>6. IsFiniteSet(bad) /\ Cardinality(bad) \in Nat
    BY <1>2, BlocksFinite, FS_Subset, FS_CardinalityType
  <1>7. r \in Table
    <2>1. r.attempts \in [Blocks -> Nat]
      BY <1>1, <1>4 DEF Table
    <2>2. r.state \in [Blocks -> BlockState]
      BY <1>1, <1>5 DEF Table, BlockState
    <2>3. r.free \in SUBSET Blocks /\ r.quarantined \in Nat /\ r.leases \in SUBSET Lease
      BY <1>1, <1>2, <1>4, <1>6 DEF Table
    <2>4. r = [t EXCEPT !.leases = r.leases, !.attempts = r.attempts, !.state = r.state,
                        !.free = r.free, !.quarantined = r.quarantined]
      BY <1>1 DEF Reclaimed, Exhausted, Table
    <2> HIDE DEF r
    <2> QED BY <1>1, <2>1, <2>2, <2>3, <2>4 DEF Table
  <1>8. Issued(r) /\ Ordered(r) /\ DisjointIn(r)
    BY <1>1, <1>4 DEF Issued, Ordered, DisjointIn
  <1>9. CoverageBut(r, {})
    <2> SUFFICES ASSUME NEW b \in Blocks
                 PROVE  /\ r.state[b] = LEASED <=> \E l \in r.leases : b \in Outstanding(l)
                        /\ r.state[b] = UNASSIGNED <=> b \in r.free
      BY DEF CoverageBut
    <2>1. CASE b \in tail
      BY <2>1, <1>1, <1>2, <1>3, <1>4, <1>5
      DEF CoverageIn, UNASSIGNED, LEASED, QUARANTINED
    <2>2. CASE b \notin tail
      <3>1. r.state[b] = t.state[b] /\ b \notin bad
        BY <2>2, <1>2, <1>5
      <3> QED BY <2>2, <3>1, <1>1, <1>4 DEF CoverageIn
    <2> QED BY <2>1, <2>2
  <1>10. CountersIn(r)
    <2>1. InState(r, COMMITTED) = InState(t, COMMITTED)
      BY <1>2, <1>3, <1>5 DEF InState, UNASSIGNED, LEASED, COMMITTED, QUARANTINED
    <2>2. /\ InState(r, QUARANTINED) = InState(t, QUARANTINED) \cup bad
          /\ InState(t, QUARANTINED) \cap bad = {}
      BY <1>2, <1>3, <1>5 DEF InState, UNASSIGNED, LEASED, COMMITTED, QUARANTINED
    <2>3. Cardinality(InState(r, QUARANTINED)) = Cardinality(InState(t, QUARANTINED)) + Cardinality(bad)
      BY <2>2, <1>6, InStateFinite, DisjointCardinality, Zenon
    <2> QED BY <2>1, <2>3, <1>1, <1>4 DEF CountersIn
  <1>11. QuarantineIn(r)
    <2> SUFFICES ASSUME NEW b \in Blocks
                 PROVE  r.state[b] = QUARANTINED <=> MaxAttempts # 0 /\ r.attempts[b] >= MaxAttempts
      BY DEF QuarantineIn
    <2>1. t.attempts[b] \in Nat /\ MaxAttempts \in Nat
      BY <1>1, TableAssumption DEF Table
    <2>2. t.state[b] = QUARANTINED <=> MaxAttempts # 0 /\ t.attempts[b] >= MaxAttempts
      BY <1>1 DEF QuarantineIn
    <2>3. CASE b \in tail
      BY <2>1, <2>2, <2>3, <1>3, <1>4, <1>5 DEF UNASSIGNED, LEASED, QUARANTINED
    <2>4. CASE b \notin tail
      BY <2>2, <2>4, <1>2, <1>4, <1>5
    <2> QED BY <2>3, <2>4
  <1> QED BY <1>7, <1>8, <1>9, <1>10, <1>11 DEF Inv, InvBut

\* Only the cluster records differ.
LEMMA SameBlocks ==
  ASSUME NEW t, Inv(t), NEW r, r \in Table,
         r.epoch = t.epoch, r.state = t.state, r.attempts = t.attempts, r.free = t.free,
         r.committed = t.committed, r.quarantined = t.quarantined, r.leases = t.leases,
         r.seq = t.seq
  PROVE  Inv(r)
  <1>1. Issued(r) /\ Ordered(r) /\ DisjointIn(r)
    BY DEF Inv, InvBut, Issued, Ordered, DisjointIn
  <1>2. CoverageBut(r, {}) /\ QuarantineIn(r)
    BY DEF Inv, InvBut, CoverageBut, QuarantineIn
  <1>3. CountersIn(r)
    BY DEF Inv, InvBut, CountersIn, InState
  <1> QED BY <1>1, <1>2, <1>3 DEF Inv, InvBut

\* register keeps the invariant.
LEMMA RegisteredInv ==
  ASSUME NEW t, Inv(t), NEW c \in Cluster, NEW inc \in Incarnation \cup {NoIncarnation}
  PROVE  Inv(Registered(t, c, inc))
  <1>1. t \in Table
    BY DEF Inv, InvBut
  <1> DEFINE old == t.clusters[c]
             incarnation == IF inc = NoIncarnation THEN old.incarnation ELSE inc
             new == [old EXCEPT !.known = TRUE, !.silent = FALSE, !.incarnation = incarnation]
  <1>2. new \in ClusterRecord
    <2>1. old \in ClusterRecord
      BY <1>1 DEF Table
    <2> QED BY <2>1 DEF ClusterRecord
  <1>3. Registered(t, c, inc) = [t EXCEPT !.clusters = [t.clusters EXCEPT ![c] = new]]
    BY <1>1 DEF Registered, Table
  <1>4. [t.clusters EXCEPT ![c] = new] \in [Cluster -> ClusterRecord]
    <2> HIDE DEF new
    <2> QED BY <1>1, <1>2 DEF Table
  <1>5. Registered(t, c, inc) \in Table
    <2> HIDE DEF new
    <2> QED BY <1>1, <1>3, <1>4 DEF Table
  <1> QED BY <1>1, <1>5, SameBlocks DEF Registered, Table

\* A reset table is a new one, but for the epoch, the records and the counter.
LEMMA AdvancedInv ==
  ASSUME NEW t, Inv(t)
  PROVE  Inv(Advanced(t))
  <1> DEFINE r == ResetEpoch(t, t.epoch + 1)
  <1>1. t \in Table
    BY DEF Inv, InvBut
  <1> DEFINE records == [c \in Cluster |-> [t.clusters[c] EXCEPT !.cursor = 0]]
  <1>2. r \in Table
    <2>1. records \in [Cluster -> ClusterRecord]
      <3>1. \A c \in Cluster : t.clusters[c] \in ClusterRecord
        BY <1>1 DEF Table
      <3> QED BY <3>1 DEF ClusterRecord
    <2>2. r = [t EXCEPT !.epoch = t.epoch + 1, !.state = [b \in Blocks |-> UNASSIGNED],
                        !.attempts = [b \in Blocks |-> 0], !.free = Blocks,
                        !.committed = 0, !.quarantined = 0, !.leases = {},
                        !.clusters = records]
      BY DEF ResetEpoch
    <2>3. /\ [b \in Blocks |-> UNASSIGNED] \in [Blocks -> BlockState]
          /\ [b \in Blocks |-> 0] \in [Blocks -> Nat]
          /\ t.epoch + 1 \in Nat
      BY <1>1 DEF BlockState, Table
    <2> HIDE DEF r, records
    <2> QED BY <1>1, <2>1, <2>2, <2>3 DEF Table
  <1>3. /\ r.state = [b \in Blocks |-> UNASSIGNED] /\ r.attempts = [b \in Blocks |-> 0]
        /\ r.free = Blocks /\ r.committed = 0 /\ r.quarantined = 0 /\ r.leases = {}
    BY <1>1 DEF ResetEpoch, Table
  <1>4. CountersIn(r)
    <2>1. InState(r, COMMITTED) = {} /\ InState(r, QUARANTINED) = {}
      BY <1>3 DEF InState, UNASSIGNED, COMMITTED, QUARANTINED
    <2> QED BY <1>3, <2>1, FS_EmptySet DEF CountersIn
  <1>5. Issued(r) /\ Ordered(r) /\ DisjointIn(r)
    BY <1>3 DEF Issued, Ordered, DisjointIn
  <1>6. CoverageBut(r, {})
    BY <1>3 DEF CoverageBut, UNASSIGNED, LEASED
  <1>7. QuarantineIn(r)
    BY <1>3, TableAssumption DEF QuarantineIn, UNASSIGNED, QUARANTINED
  <1>8. Inv(r)
    BY <1>2, <1>4, <1>5, <1>6, <1>7 DEF Inv, InvBut
  <1> QED BY <1>8 DEF Advanced

\* Reaping, and what an acquire does before it grants.
LEMMA ReapedInv ==
  ASSUME NEW t, Inv(t)
  PROVE  Inv(Reaped(t))
  BY ReclaimedInv DEF Reaped

LEMMA AcquireBaseInv ==
  ASSUME Inv(table), NEW c \in Cluster
  PROVE  Inv(AcquireBase(c))
  <1>1. Inv(Registered(Reaped(table), c, NoIncarnation))
    BY ReapedInv, RegisteredInv
  <1> QED BY <1>1, AdvancedInv DEF AcquireBase

-----------------------------------------------------------------------------
(* Heartbeat, commit, the passing of time                                  *)

\* m is l with at most its progress and its deadline renewed.
Refreshed(l, m) ==
    /\ m.id = l.id /\ m.epoch = l.epoch /\ m.start = l.start /\ m.end = l.end
    /\ m.committed_end = l.committed_end
    /\ l.progress_end <= m.progress_end /\ m.progress_end <= l.end

\* Refreshing leases moves no position.
LEMMA RefreshInv ==
  ASSUME NEW t, Inv(t), NEW L \in SUBSET Lease,
         \A m \in L : \E l \in t.leases : Refreshed(l, m),
         \A l \in t.leases : \E m \in L : Refreshed(l, m),
         \A m, n \in L : m.id = n.id => m = n
  PROVE  Inv([t EXCEPT !.leases = L])
  <1> DEFINE r == [t EXCEPT !.leases = L]
  <1>1. /\ t \in Table /\ Issued(t) /\ Ordered(t) /\ DisjointIn(t)
        /\ CoverageIn(t) /\ CountersIn(t) /\ QuarantineIn(t)
    BY InvCoverage
  <1>2. /\ r \in Table /\ r.leases = L
        /\ r.epoch = t.epoch /\ r.state = t.state /\ r.attempts = t.attempts
        /\ r.free = t.free /\ r.committed = t.committed /\ r.seq = t.seq
        /\ r.quarantined = t.quarantined
    BY <1>1 DEF Table
  <1> HIDE DEF r
  <1>3. \A l, m : Refreshed(l, m) => Outstanding(m) = Outstanding(l)
    BY DEF Refreshed, Outstanding
  <1>4. Issued(r)
    BY <1>1, <1>2 DEF Issued, Refreshed
  <1>5. Ordered(r)
    <2> SUFFICES ASSUME NEW m \in L
                 PROVE  /\ m.epoch = t.epoch
                        /\ m.start <= m.committed_end /\ m.committed_end < m.end /\ m.end <= NumBlocks
                        /\ m.start <= m.progress_end /\ m.progress_end <= m.end
      BY <1>2 DEF Ordered
    <2>1. PICK l \in t.leases : Refreshed(l, m)
      OBVIOUS
    <2>2. l \in Lease /\ m \in Lease
      BY <1>1 DEF Table
    <2> QED BY <1>1, <2>1, <2>2 DEF Ordered, Refreshed, Lease
  <1>6. DisjointIn(r)
    <2> SUFFICES ASSUME NEW m \in L, NEW n \in L, m # n
                 PROVE  m.id # n.id /\ Outstanding(m) \cap Outstanding(n) = {}
      BY <1>2 DEF DisjointIn
    <2>1. PICK l \in t.leases : Refreshed(l, m)
      OBVIOUS
    <2>2. PICK k \in t.leases : Refreshed(k, n)
      OBVIOUS
    <2>3. m.id # n.id /\ l # k
      BY <2>1, <2>2 DEF Refreshed
    <2> QED BY <1>1, <1>3, <2>1, <2>2, <2>3 DEF DisjointIn
  <1>7. CoverageBut(r, {})
    <2>1. \A b \in Blocks : (\E l \in t.leases : b \in Outstanding(l))
                               <=> (\E m \in L : b \in Outstanding(m))
      BY <1>3
    <2> QED BY <1>1, <1>2, <2>1 DEF CoverageBut, CoverageIn
  <1>8. CountersIn(r) /\ QuarantineIn(r)
    BY <1>1, <1>2 DEF CountersIn, InState, QuarantineIn
  <1> QED BY <1>2, <1>4, <1>5, <1>6, <1>7, <1>8 DEF Inv, InvBut, r

\* heartbeat keeps the invariant, whatever watermarks it carries.
LEMMA RenewedInv ==
  ASSUME NEW t, Inv(t), NEW c \in Cluster, NEW progress, 
         \A i \in DOMAIN progress : progress[i] \in Nat
  PROVE  Inv(Renewed(t, c, progress))
  <1> DEFINE Mine(l) == l.cluster = c /\ l.epoch = t.epoch /\ l.id \in DOMAIN progress
             Renew(l) == [l EXCEPT !.progress_end = Larger(l.progress_end, Smaller(progress[l.id], l.end)),
                                   !.overdue = FALSE]
             L == {l \in t.leases : ~Mine(l)} \cup {Renew(l) : l \in {m \in t.leases : Mine(m)}}
  <1>1. /\ t \in Table /\ Ordered(t) /\ DisjointIn(t)
    BY InvCoverage
  <1>2. \A l \in t.leases : l \in Lease /\ l.progress_end <= l.end
    BY <1>1 DEF Table, Ordered
  <1>3. ASSUME NEW l \in t.leases, Mine(l)
        PROVE  Renew(l) \in Lease /\ Refreshed(l, Renew(l)) /\ Renew(l).id = l.id
    <2>1. progress[l.id] \in Nat /\ l \in Lease /\ l.progress_end <= l.end
      BY <1>2, <1>3
    <2>2. /\ Larger(l.progress_end, Smaller(progress[l.id], l.end)) \in Nat
          /\ l.progress_end <= Larger(l.progress_end, Smaller(progress[l.id], l.end))
          /\ Larger(l.progress_end, Smaller(progress[l.id], l.end)) <= l.end
      BY <2>1 DEF Lease, Larger, Smaller
    <2> QED BY <2>1, <2>2 DEF Lease, Refreshed
  <1>4. \A l \in t.leases : Refreshed(l, l)
    BY <1>2 DEF Refreshed, Lease
  <1>5. Renewed(t, c, progress) = [t EXCEPT !.leases = L]
    BY DEF Renewed, Reported
  <1> HIDE DEF Renew, Mine
  <1>6. ASSUME NEW m \in L
        PROVE  \E l \in t.leases : (~Mine(l) /\ m = l) \/ (Mine(l) /\ m = Renew(l))
    <2>1. CASE m \in {l \in t.leases : ~Mine(l)}
      BY <2>1
    <2>2. CASE m \in {Renew(l) : l \in {k \in t.leases : Mine(k)}}
      <3>1. PICK l \in {k \in t.leases : Mine(k)} : m = Renew(l)
        BY <2>2
      <3> QED BY <3>1
    <2> QED BY <2>1, <2>2
  <1>7. /\ \A l \in t.leases : ~Mine(l) => l \in L
        /\ \A l \in t.leases : Mine(l) => Renew(l) \in L
    OBVIOUS
  <1> HIDE DEF L
  <1>8. /\ L \in SUBSET Lease
        /\ \A m \in L : \E l \in t.leases : Refreshed(l, m)
        /\ \A l \in t.leases : \E m \in L : Refreshed(l, m)
    BY <1>2, <1>3, <1>4, <1>6, <1>7
  <1>9. \A m, n \in L : m.id = n.id => m = n
    BY <1>1, <1>3, <1>6 DEF DisjointIn
  <1>10. Inv([t EXCEPT !.leases = L])
    BY <1>8, <1>9, RefreshInv
  <1> QED BY <1>5, <1>10

\* A lease running over its deadline moves nothing.
LEMMA OverdueInv ==
  ASSUME NEW t, Inv(t), NEW l \in t.leases
  PROVE  Inv([t EXCEPT !.leases = (@ \ {l}) \cup {[l EXCEPT !.overdue = TRUE]}])
  <1> DEFINE o == [l EXCEPT !.overdue = TRUE]
             L == (t.leases \ {l}) \cup {o}
  <1>1. /\ t \in Table /\ Ordered(t) /\ DisjointIn(t)
    BY InvCoverage
  <1>2. \A k \in t.leases : k \in Lease /\ k.progress_end <= k.end /\ Refreshed(k, k)
    BY <1>1 DEF Table, Ordered, Refreshed, Lease
  <1>3. o \in Lease /\ Refreshed(l, o) /\ o.id = l.id
    BY <1>2 DEF Lease, Refreshed
  <1>4. /\ L \in SUBSET Lease
        /\ \A m \in L : \E k \in t.leases : Refreshed(k, m)
        /\ \A k \in t.leases : \E m \in L : Refreshed(k, m)
    BY <1>2, <1>3
  <1>5. \A m, n \in L : m.id = n.id => m = n
    BY <1>1, <1>3 DEF DisjointIn
  <1> HIDE DEF L
  <1>6. Inv([t EXCEPT !.leases = L])
    BY <1>4, <1>5, RefreshInv
  <1> QED BY <1>6 DEF L

\* A cluster falling silent moves nothing.
LEMMA SilentInv ==
  ASSUME NEW t, Inv(t), NEW c \in Cluster
  PROVE  Inv([t EXCEPT !.clusters[c].silent = TRUE])
  <1> DEFINE new == [t.clusters[c] EXCEPT !.silent = TRUE]
             r == [t EXCEPT !.clusters[c].silent = TRUE]
  <1>1. t \in Table
    BY InvCoverage
  <1>2. new \in ClusterRecord
    <2>1. t.clusters[c] \in ClusterRecord
      BY <1>1 DEF Table
    <2> QED BY <2>1 DEF ClusterRecord
  <1>3. r = [t EXCEPT !.clusters = [t.clusters EXCEPT ![c] = new]]
    BY <1>1 DEF Table
  <1>4. [t.clusters EXCEPT ![c] = new] \in [Cluster -> ClusterRecord]
    <2> HIDE DEF new
    <2> QED BY <1>1, <1>2 DEF Table
  <1> HIDE DEF r, new
  <1>5. r \in Table
    BY <1>1, <1>3, <1>4 DEF Table
  <1>6. Inv(r)
    BY <1>1, <1>3, <1>5, SameBlocks DEF Table
  <1> QED BY <1>6 DEF r

\* commit keeps the invariant: what it credits is the number of positions it
\* settles, and what is left of the lease is still at risk.
LEMMA CommittedInv ==
  ASSUME NEW t, Inv(t), NEW l \in t.leases, NEW watermark \in Nat
  PROVE  Inv(Committed(t, l, watermark))
  <1> DEFINE through == Smaller(Larger(watermark, l.committed_end), l.end)
             newly == through - l.committed_end
             done == l.committed_end .. through - 1
             progress == IF newly > 0 THEN Larger(l.progress_end, through) ELSE l.progress_end
             kept == [l EXCEPT !.committed_end = through, !.progress_end = progress]
             L == (t.leases \ {l}) \cup (IF through >= l.end THEN {} ELSE {kept})
             S == Fill(t.state, done, COMMITTED)
             old == t.clusters[l.cluster]
             silent == IF newly > 0 THEN FALSE ELSE old.silent
             new == [old EXCEPT !.blocks_committed = old.blocks_committed + newly, !.silent = silent]
             C == [t.clusters EXCEPT ![l.cluster] = new]
             r == Committed(t, l, watermark)
  <1>1. /\ t \in Table /\ Issued(t) /\ Ordered(t) /\ DisjointIn(t)
        /\ CoverageIn(t) /\ CountersIn(t) /\ QuarantineIn(t)
    BY InvCoverage
  <1>2. l \in Lease /\ l.cluster \in Cluster
    BY <1>1 DEF Table, Lease
  <1>3. /\ through \in Nat /\ newly \in Nat
        /\ l.committed_end <= through /\ through <= l.end
        /\ l.committed_end \in Nat /\ l.end \in Nat /\ l.start \in Nat /\ l.progress_end \in Nat
    BY <1>2, <1>1 DEF Lease, Ordered, Larger, Smaller
  <1>4. progress \in Nat /\ l.progress_end <= progress /\ progress <= l.end
    BY <1>1, <1>2, <1>3 DEF Ordered, Larger
  <1>5. /\ kept \in Lease /\ kept.id = l.id /\ kept.epoch = l.epoch /\ kept.start = l.start
        /\ kept.end = l.end /\ kept.committed_end = through /\ kept.progress_end = progress
    <2> HIDE DEF through, progress
    <2> QED BY <1>2, <1>3, <1>4 DEF Lease
  <1>6. Outstanding(kept) = Outstanding(l) \ done /\ done \subseteq Outstanding(l)
    <2> HIDE DEF through, kept
    <2> QED BY <1>3, <1>5 DEF Outstanding
  <1>7. done \subseteq Blocks /\ Outstanding(l) \subseteq Blocks /\ \A b \in Outstanding(l) : t.state[b] = LEASED
    BY <1>1, <1>6, OutstandingInBlocks DEF CoverageIn
  <1>8. IsFiniteSet(done) /\ Cardinality(done) = newly
    <2> HIDE DEF through
    <2>1. l.committed_end \in Int /\ through - 1 \in Int
      BY <1>3
    <2>2. /\ IsFiniteSet(done)
          /\ Cardinality(done) = IF l.committed_end > through - 1 THEN 0
                                 ELSE through - 1 - l.committed_end + 1
      BY <2>1, FS_Interval
    <2> QED BY <1>3, <2>2
  <1>9. new \in ClusterRecord /\ C \in [Cluster -> ClusterRecord]
    <2>1. old \in ClusterRecord
      BY <1>1, <1>2 DEF Table
    <2>2. new \in ClusterRecord
      <3>1. silent \in BOOLEAN
        BY <2>1 DEF ClusterRecord
      <3>2. old.blocks_committed + newly \in Nat
        <4> HIDE DEF newly
        <4> QED BY <2>1, <1>3 DEF ClusterRecord
      <3> HIDE DEF newly, silent, old
      <3> QED BY <2>1, <3>1, <3>2 DEF ClusterRecord
    <2> HIDE DEF new
    <2> QED BY <2>2, <1>1 DEF Table
  <1>10. S \in [Blocks -> BlockState]
    BY <1>1 DEF Fill, Table, BlockState
  <1>11. L \in SUBSET Lease
    <2> HIDE DEF kept, through
    <2> QED BY <1>1, <1>5 DEF Table
  <1>12. /\ r \in Table
         /\ r.epoch = t.epoch /\ r.state = S /\ r.attempts = t.attempts /\ r.free = t.free
         /\ r.committed = t.committed + newly /\ r.quarantined = t.quarantined
         /\ r.leases = L /\ r.seq = t.seq
    <2>1. r = [t EXCEPT !.state = S, !.committed = t.committed + newly, !.leases = L, !.clusters = C]
      BY <1>1, <1>2 DEF Committed, Settled, Table
    <2>2. t.committed + newly \in Nat
      <3> HIDE DEF newly
      <3> QED BY <1>1, <1>3 DEF Table
    <2> HIDE DEF r, S, L, C, newly
    <2> QED BY <2>1, <2>2, <1>1, <1>9, <1>10, <1>11 DEF Table
  <1>13. /\ \A b \in Blocks : b \in done => r.state[b] = COMMITTED
         /\ \A b \in Blocks : b \notin done => r.state[b] = t.state[b]
    BY <1>12 DEF Fill
  <1>14. \A m \in L : \/ m \in t.leases /\ m # l
                      \/ m = kept /\ through < l.end
    BY <1>3
  <1>15. through < l.end => kept \in L
    BY <1>3
  <1> HIDE DEF r, L, kept, done, through, newly
  <1>16. Issued(r) /\ Ordered(r) /\ DisjointIn(r)
    <2>1. Issued(r)
      BY <1>1, <1>5, <1>12, <1>14 DEF Issued
    <2>2. Ordered(r)
      BY <1>1, <1>3, <1>4, <1>5, <1>12, <1>14 DEF Ordered
    <2>3. DisjointIn(r)
      BY <1>1, <1>5, <1>6, <1>12, <1>14 DEF DisjointIn
    <2> QED BY <2>1, <2>2, <2>3
  <1>17. CoverageBut(r, {})
    <2> SUFFICES ASSUME NEW b \in Blocks
                 PROVE  /\ r.state[b] = LEASED <=> \E m \in r.leases : b \in Outstanding(m)
                        /\ r.state[b] = UNASSIGNED <=> b \in r.free
      BY DEF CoverageBut
    <2>1. CASE b \in done
      <3>1. \A m \in L : b \notin Outstanding(m)
        BY <2>1, <1>1, <1>6, <1>14 DEF DisjointIn
      <3> QED BY <2>1, <3>1, <1>1, <1>6, <1>7, <1>12, <1>13 DEF CoverageIn, LEASED, UNASSIGNED, COMMITTED
    <2>2. CASE b \in Outstanding(l) \ done
      <3>1. through < l.end
        BY <2>2, <1>3, <1>6, <1>5 DEF Outstanding
      <3> QED BY <2>2, <3>1, <1>1, <1>6, <1>7, <1>12, <1>13, <1>15 DEF CoverageIn
    <2>3. CASE b \notin Outstanding(l)
      <3>1. (\E m \in L : b \in Outstanding(m)) <=> (\E m \in t.leases : b \in Outstanding(m))
        <4>1. \A m \in t.leases : m # l => m \in L
          BY DEF L
        <4> QED BY <2>3, <4>1, <1>6, <1>14
      <3> QED BY <2>3, <3>1, <1>1, <1>6, <1>12, <1>13 DEF CoverageIn
    <2> QED BY <2>1, <2>2, <2>3
  <1>18. CountersIn(r)
    <2>1. InState(r, QUARANTINED) = InState(t, QUARANTINED)
      BY <1>6, <1>7, <1>13 DEF InState, LEASED, COMMITTED, QUARANTINED
    <2>2. /\ InState(r, COMMITTED) = InState(t, COMMITTED) \cup done
          /\ InState(t, COMMITTED) \cap done = {}
      BY <1>6, <1>7, <1>13 DEF InState, LEASED, COMMITTED
    <2>3. Cardinality(InState(r, COMMITTED)) = Cardinality(InState(t, COMMITTED)) + Cardinality(done)
      BY <2>2, <1>8, InStateFinite, DisjointCardinality, Zenon
    <2> QED BY <2>1, <2>3, <1>1, <1>8, <1>12 DEF CountersIn
  <1>19. QuarantineIn(r)
    <2> SUFFICES ASSUME NEW b \in Blocks
                 PROVE  r.state[b] = QUARANTINED <=> MaxAttempts # 0 /\ t.attempts[b] >= MaxAttempts
      BY <1>12 DEF QuarantineIn
    <2>1. CASE b \in done
      BY <2>1, <1>1, <1>6, <1>7, <1>13 DEF QuarantineIn, LEASED, COMMITTED, QUARANTINED
    <2>2. CASE b \notin done
      BY <2>2, <1>1, <1>13 DEF QuarantineIn
    <2> QED BY <2>1, <2>2
  <1>20. Inv(r)
    BY <1>12, <1>16, <1>17, <1>18, <1>19 DEF Inv, InvBut
  <1> QED BY <1>20 DEF r

-----------------------------------------------------------------------------
(* Granting and stealing                                                   *)

\* A work vector: spans of positions, none empty, no two overlapping.
WorkVector(spans) ==
    /\ Len(spans) \in Nat \ {0} /\ DOMAIN spans = 1 .. Len(spans)
    /\ \A i \in DOMAIN spans :
         /\ spans[i][1] \in Nat /\ spans[i][2] \in Nat
         /\ spans[i][1] < spans[i][2] /\ spans[i][2] <= NumBlocks
    /\ \A i, j \in DOMAIN spans : i # j =>
         (spans[i][1] .. spans[i][2] - 1) \cap (spans[j][1] .. spans[j][2] - 1) = {}

\* Granting a work vector of positions that are out of the pool and in no
\* lease puts each of them in exactly one.
LEMMA GrantedInv ==
  ASSUME NEW t, NEW c \in Cluster, NEW spans, WorkVector(spans), InvBut(t, Covered(spans))
  PROVE  Inv(Granted(t, c, spans))
  <1> DEFINE n == Len(spans)
             N(i) == [id |-> <<t.epoch, spans[i][1], t.seq + i>>,
                      cluster |-> c, epoch |-> t.epoch,
                      start |-> spans[i][1], end |-> spans[i][2],
                      committed_end |-> spans[i][1], progress_end |-> spans[i][1],
                      overdue |-> FALSE]
             new == {N(i) : i \in 1 .. n}
             L == t.leases \cup new
             S == Fill(t.state, Covered(spans), LEASED)
             record == [t.clusters[c] EXCEPT !.cursor = spans[n][2] % NumBlocks, !.silent = FALSE]
             C == [t.clusters EXCEPT ![c] = record]
             r == Granted(t, c, spans)
  <1>1. /\ t \in Table /\ Issued(t) /\ Ordered(t) /\ DisjointIn(t)
        /\ CoverageBut(t, Covered(spans)) /\ CountersIn(t) /\ QuarantineIn(t)
    BY DEF InvBut
  <1>2. n \in Nat /\ n \in DOMAIN spans /\ DOMAIN spans = 1 .. n
    BY DEF WorkVector
  <1>3. \A i \in 1 .. n : /\ spans[i][1] \in Nat /\ spans[i][2] \in Nat
                          /\ spans[i][1] < spans[i][2] /\ spans[i][2] <= NumBlocks
    BY <1>2 DEF WorkVector
  <1>4. \A i \in 1 .. n : /\ N(i) \in Lease
                          /\ N(i).id[3] = t.seq + i /\ N(i).epoch = t.epoch
                          /\ N(i).start = spans[i][1] /\ N(i).committed_end = spans[i][1]
                          /\ N(i).progress_end = spans[i][1] /\ N(i).end = spans[i][2]
    BY <1>1, <1>3 DEF Table, Lease
  <1>5. record \in ClusterRecord /\ C \in [Cluster -> ClusterRecord]
    <2>1. t.clusters[c] \in ClusterRecord
      BY <1>1 DEF Table
    <2>2. spans[n][2] % NumBlocks \in Nat
      BY <1>2, <1>3, PoolAssumption
    <2>3. record \in ClusterRecord
      BY <2>1, <2>2 DEF ClusterRecord
    <2> HIDE DEF record
    <2> QED BY <2>3, <1>1 DEF Table
  <1>6. S \in [Blocks -> BlockState]
    BY <1>1 DEF Fill, Table, BlockState
  <1> HIDE DEF N
  <1>7. L \in SUBSET Lease /\ t.seq + n \in Nat
    BY <1>1, <1>2, <1>4 DEF Table
  <1>8. /\ r \in Table
        /\ r.epoch = t.epoch /\ r.state = S /\ r.attempts = t.attempts /\ r.free = t.free
        /\ r.committed = t.committed /\ r.quarantined = t.quarantined
        /\ r.leases = L /\ r.seq = t.seq + n
    <2>1. r = [t EXCEPT !.seq = t.seq + n, !.state = S, !.leases = L, !.clusters = C]
      BY <1>1 DEF Granted, Table, N
    <2> HIDE DEF r, S, L, C, n
    <2> QED BY <2>1, <1>1, <1>5, <1>6, <1>7 DEF Table
  <1>9. /\ \A m \in L : m \in t.leases \/ \E i \in 1 .. n : m = N(i)
        /\ \A i \in 1 .. n : N(i) \in L
        /\ t.leases \subseteq L
    OBVIOUS
  <1>10. /\ Covered(spans) \subseteq Blocks
         /\ \A i \in 1 .. n : Outstanding(N(i)) = spans[i][1] .. spans[i][2] - 1
         /\ \A b : b \in Covered(spans) <=> \E i \in 1 .. n : b \in Outstanding(N(i))
    <2>1. \A i \in 1 .. n : Outstanding(N(i)) = spans[i][1] .. spans[i][2] - 1
      BY <1>4 DEF Outstanding
    <2>2. ASSUME NEW i \in 1 .. n, NEW b \in Outstanding(N(i))
          PROVE  b \in Blocks
      <3> DEFINE lo == spans[i][1]
                 hi == spans[i][2]
      <3>1. lo \in Nat /\ hi \in Nat /\ hi <= NumBlocks /\ b \in lo .. hi - 1
        BY <2>1, <1>3
      <3> HIDE DEF lo, hi
      <3> QED BY <3>1, PoolAssumption DEF Blocks
    <2>3. \A b : b \in Covered(spans) <=> \E i \in 1 .. n : b \in Outstanding(N(i))
      BY <2>1, <1>2 DEF Covered
    <2> QED BY <2>1, <2>2, <2>3
  <1> HIDE DEF r, L, new, n
  <1>11. Issued(r) /\ Ordered(r) /\ DisjointIn(r)
    <2>1. Issued(r)
      <3> SUFFICES ASSUME NEW m \in L
                   PROVE  m.id[3] <= t.seq + n
        BY <1>8 DEF Issued
      <3>1. CASE m \in t.leases
        <4>1. m.id[3] \in Nat /\ t.seq \in Nat
          BY <3>1, <1>1 DEF Table, Lease
        <4>2. m.id[3] <= t.seq
          BY <3>1, <1>1 DEF Issued
        <4> QED BY <4>1, <4>2, <1>2
      <3>2. CASE \E i \in 1 .. n : m = N(i)
        <4>1. PICK i \in 1 .. n : m = N(i)
          BY <3>2
        <4>2. m.id[3] = t.seq + i
          BY <4>1, <1>4
        <4>3. t.seq \in Nat /\ i \in Nat /\ i <= n /\ n \in Nat
          BY <1>1, <1>2 DEF Table
        <4> QED BY <4>2, <4>3
      <3> QED BY <3>1, <3>2, <1>9
    <2>2. Ordered(r)
      BY <1>1, <1>3, <1>4, <1>8, <1>9 DEF Ordered
    <2>3. DisjointIn(r)
      <3> SUFFICES ASSUME NEW m \in L, NEW k \in L, m # k
                   PROVE  m.id # k.id /\ Outstanding(m) \cap Outstanding(k) = {}
        BY <1>8 DEF DisjointIn
      <3>1. ASSUME NEW a \in t.leases, NEW i \in 1 .. n
            PROVE  a.id # N(i).id /\ Outstanding(a) \cap Outstanding(N(i)) = {}
        <4>1. a.id[3] <= t.seq /\ a.id[3] \in Nat /\ t.seq \in Nat
          BY <1>1 DEF Issued, Table, Lease
        <4>2. N(i).id[3] = t.seq + i /\ i > 0 /\ i \in Nat
          BY <1>2, <1>4
        <4>3. \A b \in Outstanding(N(i)) : b \in Covered(spans) /\ b \in Blocks
          BY <1>10
        <4>4. \A b \in Outstanding(N(i)) : b \notin Outstanding(a)
          BY <4>3, <1>1 DEF CoverageBut
        <4> QED BY <4>1, <4>2, <4>4
      <3>2. ASSUME NEW i \in 1 .. n, NEW j \in 1 .. n, i # j
            PROVE  N(i).id # N(j).id /\ Outstanding(N(i)) \cap Outstanding(N(j)) = {}
        <4>1. N(i).id[3] # N(j).id[3]
          BY <3>2, <1>1, <1>2, <1>4 DEF Table
        <4> QED BY <4>1, <3>2, <1>2, <1>10 DEF WorkVector
      <3> QED BY <3>1, <3>2, <1>1, <1>9 DEF DisjointIn
    <2> QED BY <2>1, <2>2, <2>3
  <1>12. CoverageBut(r, {})
    <2> SUFFICES ASSUME NEW b \in Blocks
                 PROVE  /\ r.state[b] = LEASED <=> \E m \in r.leases : b \in Outstanding(m)
                        /\ r.state[b] = UNASSIGNED <=> b \in r.free
      BY DEF CoverageBut
    <2>1. CASE b \in Covered(spans)
      BY <2>1, <1>1, <1>8, <1>9, <1>10 DEF CoverageBut, Fill, LEASED, UNASSIGNED
    <2>2. CASE b \notin Covered(spans)
      BY <2>2, <1>1, <1>8, <1>9, <1>10 DEF CoverageBut, Fill
    <2> QED BY <2>1, <2>2
  <1>13. \A b \in Covered(spans) : t.state[b] \in {UNASSIGNED, LEASED} /\ r.state[b] = LEASED
    BY <1>1, <1>8, <1>10 DEF CoverageBut, Fill
  <1>14. \A b \in Blocks \ Covered(spans) : r.state[b] = t.state[b]
    BY <1>8 DEF Fill
  <1>15. CountersIn(r) /\ QuarantineIn(r)
    <2>1. InState(r, COMMITTED) = InState(t, COMMITTED) /\ InState(r, QUARANTINED) = InState(t, QUARANTINED)
      BY <1>13, <1>14 DEF InState, UNASSIGNED, LEASED, COMMITTED, QUARANTINED
    <2>2. \A b \in Blocks : r.state[b] = QUARANTINED <=> t.state[b] = QUARANTINED
      BY <1>13, <1>14 DEF UNASSIGNED, LEASED, QUARANTINED
    <2> QED BY <2>1, <2>2, <1>1, <1>8 DEF CountersIn, QuarantineIn
  <1>16. Inv(r)
    BY <1>8, <1>11, <1>12, <1>15 DEF Inv, InvBut
  <1> QED BY <1>16 DEF r

\* Two maximal intervals of the pool share no position.
LEMMA RunsDisjoint ==
  ASSUME NEW free \in SUBSET Blocks, NEW q \in Runs(free), NEW r \in Runs(free), q # r
  PROVE  (q[1] .. q[2] - 1) \cap (r[1] .. r[2] - 1) = {}
  <1>1. ASSUME NEW s \in Runs(free)
        PROVE  /\ s[1] \in Nat /\ s[2] \in Nat /\ s[1] < s[2] /\ s[2] <= NumBlocks
               /\ \A x \in Int : s[1] <= x /\ x < s[2] => x \in free
               /\ s[1] - 1 \notin free /\ s[2] \notin free /\ s = <<s[1], s[2]>>
    BY PoolAssumption DEF Runs
  <1>2. ASSUME NEW b \in q[1] .. q[2] - 1, b \in r[1] .. r[2] - 1
        PROVE  FALSE
    <2>1. b \in Int /\ q[1] <= b /\ b < q[2] /\ r[1] <= b /\ b < r[2]
      BY <1>1, <1>2
    <2>2. q[1] = r[1]
      <3>1. ~(q[1] < r[1])
        BY <1>1, <2>1
      <3>2. ~(r[1] < q[1])
        BY <1>1, <2>1
      <3> QED BY <1>1, <3>1, <3>2
    <2>3. q[2] = r[2]
      <3>1. ~(q[2] < r[2])
        BY <1>1, <2>1
      <3>2. ~(r[2] < q[2])
        BY <1>1, <2>1
      <3> QED BY <1>1, <3>1, <3>2
    <2> QED BY <1>1, <2>2, <2>3
  <1> QED BY <1>2

\* take_near returns a work vector of free positions.
LEMMA TakeNearVector ==
  ASSUME NEW free \in SUBSET Blocks, NEW cursor \in Nat, NEW want,
         NEW spans \in TakeNear(free, cursor, want)
  PROVE  WorkVector(spans) /\ Covered(spans) \subseteq free
  <1> DEFINE k == Cardinality(Runs(free))
  <1>1. k \in Nat
    <2>1. IsFiniteSet(0 .. NumBlocks)
      BY PoolAssumption, FS_Interval
    <2>2. IsFiniteSet((0 .. NumBlocks) \X (0 .. NumBlocks))
      BY <2>1, FS_Product
    <2> QED BY <2>2, FS_Subset, FS_CardinalityType DEF Runs
  <1>2. PICK runs \in [1 .. k -> Runs(free)], n \in 1 .. k, last \in 1 .. NumBlocks :
          /\ \A i, j \in 1 .. k : i < j => NearKey(runs[i], cursor) < NearKey(runs[j], cursor)
          /\ TakeFrom(runs, n, cursor) < last /\ last <= runs[n][2]
          /\ spans = SpanSeq(runs, n, last, cursor)
    BY DEF TakeNear
  <1> HIDE DEF k
  <1>3. /\ n \in Nat \ {0}
        /\ \A i \in 1 .. n : i \in 1 .. k
    BY <1>1
  <1>4. \A i \in 1 .. n : /\ runs[i] \in Runs(free) /\ runs[i][1] \in Nat /\ runs[i][2] \in Nat
                          /\ runs[i][1] < runs[i][2] /\ runs[i][2] <= NumBlocks
                          /\ runs[i][1] .. runs[i][2] - 1 \subseteq free
    <2> SUFFICES ASSUME NEW i \in 1 .. n
                 PROVE  /\ runs[i] \in Runs(free) /\ runs[i][1] \in Nat /\ runs[i][2] \in Nat
                        /\ runs[i][1] < runs[i][2] /\ runs[i][2] <= NumBlocks
                        /\ runs[i][1] .. runs[i][2] - 1 \subseteq free
      OBVIOUS
    <2> DEFINE q == runs[i]
    <2>1. q \in Runs(free)
      BY <1>2, <1>3
    <2> HIDE DEF q
    <2>2. /\ q[1] \in Nat /\ q[2] \in Nat /\ q[1] < q[2] /\ q[2] <= NumBlocks
          /\ q[1] .. q[2] - 1 \subseteq free
      BY <2>1, PoolAssumption DEF Runs
    <2> QED BY <2>1, <2>2 DEF q
  <1>5. \A i, j \in 1 .. n : i # j => runs[i] # runs[j]
    <2> SUFFICES ASSUME NEW i \in 1 .. n, NEW j \in 1 .. n, i < j
                 PROVE  runs[i] # runs[j]
      BY <1>3
    <2>1. NearKey(runs[i], cursor) < NearKey(runs[j], cursor)
      BY <1>2, <1>3
    <2>2. NearKey(runs[i], cursor) \in Nat
      BY <1>4, PoolAssumption DEF NearKey
    <2> QED BY <2>1, <2>2
  <1>6. DOMAIN spans = 1 .. n /\ Len(spans) = n
    BY <1>2, <1>3 DEF SpanSeq
  <1>7. \A i \in 1 .. n : /\ spans[i][1] \in Nat /\ spans[i][2] \in Nat
                          /\ runs[i][1] <= spans[i][1] /\ spans[i][1] < spans[i][2]
                          /\ spans[i][2] <= runs[i][2]
    <2> SUFFICES ASSUME NEW i \in 1 .. n
                 PROVE  /\ spans[i][1] \in Nat /\ spans[i][2] \in Nat
                        /\ runs[i][1] <= spans[i][1] /\ spans[i][1] < spans[i][2]
                        /\ spans[i][2] <= runs[i][2]
      OBVIOUS
    <2>1. /\ spans[i][1] = TakeFrom(runs, i, cursor)
          /\ spans[i][2] = IF i = n THEN last ELSE runs[i][2]
      BY <1>2 DEF SpanSeq
    <2>2. /\ TakeFrom(runs, i, cursor) \in Nat
          /\ runs[i][1] <= TakeFrom(runs, i, cursor) /\ TakeFrom(runs, i, cursor) < runs[i][2]
      BY <1>3, <1>4 DEF TakeFrom
    <2>3. last \in Nat
      BY PoolAssumption
    <2> QED BY <1>2, <1>4, <2>1, <2>2, <2>3
  <1>8. ASSUME NEW i \in 1 .. n
        PROVE  spans[i][1] .. spans[i][2] - 1 \subseteq runs[i][1] .. runs[i][2] - 1
    <2>1. /\ spans[i][1] \in Nat /\ spans[i][2] \in Nat
          /\ runs[i][1] \in Nat /\ runs[i][2] \in Nat
          /\ runs[i][1] <= spans[i][1] /\ spans[i][2] <= runs[i][2]
      BY <1>4, <1>7
    <2> DEFINE a == spans[i][1]
               b == spans[i][2]
               c == runs[i][1]
               d == runs[i][2]
    <2>2. a \in Nat /\ b \in Nat /\ c \in Nat /\ d \in Nat /\ c <= a /\ b <= d
      BY <2>1
    <2> HIDE DEF a, b, c, d
    <2>3. a .. b - 1 \subseteq c .. d - 1
      BY <2>2
    <2> QED BY <2>3 DEF a, b, c, d
  <1>9. \A i, j \in 1 .. n : i # j =>
          (spans[i][1] .. spans[i][2] - 1) \cap (spans[j][1] .. spans[j][2] - 1) = {}
    <2> SUFFICES ASSUME NEW i \in 1 .. n, NEW j \in 1 .. n, i # j
                 PROVE  (spans[i][1] .. spans[i][2] - 1) \cap (spans[j][1] .. spans[j][2] - 1) = {}
      OBVIOUS
    <2>1. runs[i] \in Runs(free) /\ runs[j] \in Runs(free) /\ runs[i] # runs[j]
      BY <1>4, <1>5
    <2>2. (runs[i][1] .. runs[i][2] - 1) \cap (runs[j][1] .. runs[j][2] - 1) = {}
      BY <2>1, RunsDisjoint
    <2>3. /\ spans[i][1] .. spans[i][2] - 1 \subseteq runs[i][1] .. runs[i][2] - 1
          /\ spans[j][1] .. spans[j][2] - 1 \subseteq runs[j][1] .. runs[j][2] - 1
      BY <1>8
    <2> QED BY <2>2, <2>3, Zenon
  <1>10. \A i \in 1 .. n : spans[i][2] <= NumBlocks
    <2> SUFFICES ASSUME NEW i \in 1 .. n
                 PROVE  spans[i][2] <= NumBlocks
      OBVIOUS
    <2>1. /\ spans[i][2] \in Nat /\ runs[i][2] \in Nat
          /\ spans[i][2] <= runs[i][2] /\ runs[i][2] <= NumBlocks
      BY <1>4, <1>7
    <2> QED BY <2>1, PoolAssumption
  <1>11. WorkVector(spans)
    BY <1>3, <1>6, <1>7, <1>9, <1>10 DEF WorkVector
  <1>12. Covered(spans) \subseteq free
    BY <1>4, <1>6, <1>8 DEF Covered
  <1> QED BY <1>11, <1>12

\* What a steal takes leaves the victim more than its floor.
LEMMA StealPlanFacts ==
  ASSUME NEW t, Inv(t), NEW c \in Cluster, NEW want, NEW p \in StealPlans(t, c, want)
  PROVE  \E n \in Nat \ {0} :
           /\ p[1] \in [1 .. n -> t.leases] /\ p[2] \in [1 .. n -> Nat \ {0}]
           /\ \A i, j \in 1 .. n : i # j => p[1][i] # p[1][j]
           /\ \A i \in 1 .. n : Floor(p[1][i]) < p[1][i].end - p[2][i]
  <1> DEFINE C == Candidates(t, c)
  <1>1. t \in Table /\ Ordered(t)
    BY InvCoverage
  <1>2. PICK n \in 1 .. Cardinality(C) :
          /\ p[1] \in [1 .. n -> C] /\ p[2] \in [1 .. n -> StealMin .. NumBlocks]
          /\ StealPlan(t, c, want, n, p[1], p[2])
    BY DEF StealPlans
  <1>3. /\ p[1] \in [1 .. n -> C] /\ p[2] \in [1 .. n -> StealMin .. NumBlocks]
        /\ \A i, j \in 1 .. n : i < j => p[1][i] # p[1][j]
        /\ \A i \in 1 .. n : p[2][i] <= StealShare(p[1][i])
    BY <1>2 DEF StealPlan
  <1>4. C \subseteq t.leases /\ \A l \in C : Available(l) >= 2 * StealMin
    BY DEF Candidates
  <1> HIDE DEF C
  <1>5. n \in Nat \ {0}
    OBVIOUS
  <1>6. p[1] \in [1 .. n -> t.leases] /\ p[2] \in [1 .. n -> Nat \ {0}]
    BY <1>3, <1>4, TableAssumption, PoolAssumption
  <1>7. \A i, j \in 1 .. n : i # j => p[1][i] # p[1][j]
    BY <1>3, <1>5
  <1>8. ASSUME NEW i \in 1 .. n
        PROVE  Floor(p[1][i]) < p[1][i].end - p[2][i]
    <2> DEFINE l == p[1][i]
               cut == p[2][i]
    <2>1. l \in Lease /\ Available(l) >= 2 * StealMin /\ cut <= StealShare(l) /\ cut \in Nat \ {0}
      BY <1>1, <1>3, <1>4, <1>6 DEF Table
    <2> HIDE DEF l, cut
    <2>2. l.end \in Nat /\ Floor(l) \in Nat
      BY <2>1 DEF Lease, Floor, Larger
    <2>3. Available(l) \in Int /\ Available(l) = l.end - Floor(l)
      BY <2>2 DEF Available
    <2>4. StealShare(l) = Available(l) \div 2 /\ StealShare(l) < Available(l)
      BY <2>1, <2>3, TableAssumption DEF StealShare, Larger
    <2>5. Floor(l) < l.end - cut
      BY <2>1, <2>2, <2>3, <2>4
    <2> QED BY <2>5 DEF l, cut
  <1> QED BY <1>5, <1>6, <1>7, <1>8

\* Stealing takes positions out of leases and leaves them with nobody.
LEMMA RobbedInv ==
  ASSUME NEW t, Inv(t), NEW n \in Nat \ {0},
         NEW victims \in [1 .. n -> t.leases], NEW cuts \in [1 .. n -> Nat \ {0}],
         \A i, j \in 1 .. n : i # j => victims[i] # victims[j],
         \A i \in 1 .. n : Floor(victims[i]) < victims[i].end - cuts[i]
  PROVE  /\ WorkVector(StolenSpans(victims, cuts))
         /\ InvBut(Robbed(t, victims, cuts), Covered(StolenSpans(victims, cuts)))
  <1> DEFINE spans == StolenSpans(victims, cuts)
             L == (t.leases \ {victims[i] : i \in 1 .. n}) \cup {Cut(victims[i], cuts[i]) : i \in 1 .. n}
             r == Robbed(t, victims, cuts)
  <1>1. /\ t \in Table /\ Issued(t) /\ Ordered(t) /\ DisjointIn(t)
        /\ CoverageIn(t) /\ CountersIn(t) /\ QuarantineIn(t)
    BY InvCoverage
  <1>2. \A i \in 1 .. n :
          /\ victims[i] \in t.leases /\ victims[i] \in Lease
          /\ victims[i].start \in Nat /\ victims[i].end \in Nat /\ cuts[i] \in Nat \ {0}
          /\ victims[i].committed_end \in Nat /\ victims[i].progress_end \in Nat
          /\ victims[i].committed_end < victims[i].end - cuts[i]
          /\ victims[i].progress_end < victims[i].end - cuts[i]
          /\ victims[i].end <= NumBlocks /\ victims[i].start <= victims[i].committed_end
          /\ victims[i].end - cuts[i] \in Nat
    <2> SUFFICES ASSUME NEW i \in 1 .. n
                 PROVE  /\ victims[i] \in t.leases /\ victims[i] \in Lease
                        /\ victims[i].start \in Nat /\ victims[i].end \in Nat /\ cuts[i] \in Nat \ {0}
                        /\ victims[i].committed_end \in Nat /\ victims[i].progress_end \in Nat
                        /\ victims[i].committed_end < victims[i].end - cuts[i]
                        /\ victims[i].progress_end < victims[i].end - cuts[i]
                        /\ victims[i].end <= NumBlocks /\ victims[i].start <= victims[i].committed_end
                        /\ victims[i].end - cuts[i] \in Nat
      OBVIOUS
    <2>1. victims[i] \in t.leases /\ victims[i] \in Lease /\ cuts[i] \in Nat \ {0}
      BY <1>1 DEF Table
    <2>2. /\ victims[i].start \in Nat /\ victims[i].end \in Nat
          /\ victims[i].committed_end \in Nat /\ victims[i].progress_end \in Nat
      BY <2>1 DEF Lease
    <2>3. victims[i].end <= NumBlocks /\ victims[i].start <= victims[i].committed_end
      BY <1>1, <2>1 DEF Ordered
    <2>4. Floor(victims[i]) < victims[i].end - cuts[i]
      OBVIOUS
    <2>5. /\ victims[i].committed_end < victims[i].end - cuts[i]
          /\ victims[i].progress_end < victims[i].end - cuts[i]
          /\ victims[i].end - cuts[i] \in Nat
      <3>1. ASSUME NEW a \in Nat, NEW b \in Nat, NEW e \in Nat, NEW k \in Nat, Larger(a, b) < e - k
            PROVE  b < e - k /\ a < e - k /\ e - k \in Nat
        BY <3>1 DEF Larger
      <3>2. Larger(victims[i].progress_end, victims[i].committed_end) < victims[i].end - cuts[i]
        BY <2>4, Zenon DEF Floor
      <3>3. cuts[i] \in Nat
        BY <2>1
      <3> QED BY <2>2, <3>1, <3>2, <3>3, Zenon
    <2> QED BY <2>1, <2>2, <2>3, <2>5, Zenon
  <1>3. \A i \in 1 .. n :
          /\ Cut(victims[i], cuts[i]) \in Lease
          /\ Cut(victims[i], cuts[i]).id = victims[i].id
          /\ Cut(victims[i], cuts[i]).epoch = victims[i].epoch
          /\ Cut(victims[i], cuts[i]).start = victims[i].start
          /\ Cut(victims[i], cuts[i]).committed_end = victims[i].committed_end
          /\ Cut(victims[i], cuts[i]).progress_end = victims[i].progress_end
          /\ Cut(victims[i], cuts[i]).end = victims[i].end - cuts[i]
    <2> SUFFICES ASSUME NEW l \in Lease, NEW k, l.end - k \in Nat
                 PROVE  /\ Cut(l, k) \in Lease
                        /\ Cut(l, k).id = l.id /\ Cut(l, k).epoch = l.epoch
                        /\ Cut(l, k).start = l.start
                        /\ Cut(l, k).committed_end = l.committed_end
                        /\ Cut(l, k).progress_end = l.progress_end
                        /\ Cut(l, k).end = l.end - k
      BY <1>2
    <2> QED BY DEF Cut, Lease
  <1>4. spans = [i \in 1 .. n |-> <<victims[i].end - cuts[i], victims[i].end>>]
    BY DEF StolenSpans
  <1>5. DOMAIN spans = 1 .. n /\ Len(spans) = n
    BY <1>4
  <1>6. \A i \in 1 .. n : spans[i][1] = victims[i].end - cuts[i] /\ spans[i][2] = victims[i].end
    BY <1>4
  <1>7. \A i \in 1 .. n :
          /\ Outstanding(victims[i]) = Outstanding(Cut(victims[i], cuts[i]))
                                         \cup (spans[i][1] .. spans[i][2] - 1)
          /\ Outstanding(Cut(victims[i], cuts[i])) \cap (spans[i][1] .. spans[i][2] - 1) = {}
    <2> SUFFICES ASSUME NEW i \in 1 .. n
                 PROVE  /\ Outstanding(victims[i]) = Outstanding(Cut(victims[i], cuts[i]))
                                                        \cup (spans[i][1] .. spans[i][2] - 1)
                        /\ Outstanding(Cut(victims[i], cuts[i]))
                             \cap (spans[i][1] .. spans[i][2] - 1) = {}
      OBVIOUS
    <2> DEFINE from == victims[i].committed_end
               to == victims[i].end
               cut == cuts[i]
    <2>1. /\ from \in Nat /\ to \in Nat /\ cut \in Nat \ {0} /\ from < to - cut
          /\ Outstanding(victims[i]) = from .. to - 1
          /\ Outstanding(Cut(victims[i], cuts[i])) = from .. to - cut - 1
          /\ spans[i][1] .. spans[i][2] - 1 = to - cut .. to - 1
      BY <1>2, <1>3, <1>6 DEF Outstanding
    <2> HIDE DEF from, to, cut
    <2>2. (from .. to - cut - 1) \cap (to - cut .. to - 1) = {}
      BY <2>1
    <2>3. from .. to - 1 = (from .. to - cut - 1) \cup (to - cut .. to - 1)
      BY <2>1
    <2> QED BY <2>1, <2>2, <2>3, Zenon
  <1>8. /\ \A m \in L : \/ m \in t.leases /\ \A i \in 1 .. n : m # victims[i]
                        \/ \E i \in 1 .. n : m = Cut(victims[i], cuts[i])
        /\ \A i \in 1 .. n : Cut(victims[i], cuts[i]) \in L
        /\ \A m \in t.leases : m \in L \/ \E i \in 1 .. n : m = victims[i]
    OBVIOUS
  <1>9. L \in SUBSET Lease
    BY <1>1, <1>3, <1>8 DEF Table
  <1>10. /\ r \in Table
         /\ r.epoch = t.epoch /\ r.state = t.state /\ r.attempts = t.attempts /\ r.free = t.free
         /\ r.committed = t.committed /\ r.quarantined = t.quarantined
         /\ r.leases = L /\ r.seq = t.seq
    <2>1. r = [t EXCEPT !.leases = L]
      BY DEF Robbed
    <2> HIDE DEF r, L
    <2> QED BY <2>1, <1>1, <1>9 DEF Table
  <1> HIDE DEF r, L, spans
  <1>11. WorkVector(spans)
    <2>1. \A i, j \in 1 .. n : i # j =>
            (spans[i][1] .. spans[i][2] - 1) \cap (spans[j][1] .. spans[j][2] - 1) = {}
      BY <1>1, <1>2, <1>7 DEF DisjointIn
    <2>2. ASSUME NEW i \in 1 .. n
          PROVE  /\ spans[i][1] \in Nat /\ spans[i][2] \in Nat
                 /\ spans[i][1] < spans[i][2] /\ spans[i][2] <= NumBlocks
      <3>1. spans[i][1] = victims[i].end - cuts[i] /\ spans[i][2] = victims[i].end
        BY <1>6
      <3>2. /\ victims[i].end \in Nat /\ cuts[i] \in Nat \ {0}
            /\ victims[i].end <= NumBlocks /\ victims[i].end - cuts[i] \in Nat
        BY <1>2
      <3> QED BY <3>1, <3>2
    <2> QED BY <2>1, <2>2, <1>5 DEF WorkVector
  <1>12. Issued(r) /\ Ordered(r)
    <2>1. Issued(r)
      <3> SUFFICES ASSUME NEW m \in L
                   PROVE  m.id[3] <= t.seq
        BY <1>10 DEF Issued
      <3>1. PICK l \in t.leases : m.id = l.id
        <4>1. CASE m \in t.leases
          BY <4>1
        <4>2. CASE \E i \in 1 .. n : m = Cut(victims[i], cuts[i])
          <5>1. PICK i \in 1 .. n : m = Cut(victims[i], cuts[i])
            BY <4>2
          <5>2. m.id = victims[i].id /\ victims[i] \in t.leases
            BY <5>1, <1>2, <1>3
          <5> QED BY <5>2
        <4> QED BY <4>1, <4>2, <1>8
      <3>2. l.id[3] <= t.seq
        BY <3>1, <1>1 DEF Issued
      <3> QED BY <3>1, <3>2
    <2>2. Ordered(r)
      <3> SUFFICES ASSUME NEW m \in L
                   PROVE  /\ m.epoch = t.epoch
                          /\ m.start <= m.committed_end /\ m.committed_end < m.end /\ m.end <= NumBlocks
                          /\ m.start <= m.progress_end /\ m.progress_end <= m.end
        BY <1>10 DEF Ordered
      <3>1. CASE m \in t.leases
        BY <3>1, <1>1 DEF Ordered
      <3>2. CASE \E i \in 1 .. n : m = Cut(victims[i], cuts[i])
        <4>1. PICK i \in 1 .. n : m = Cut(victims[i], cuts[i])
          BY <3>2
        <4>2. victims[i].epoch = t.epoch /\ victims[i].start <= victims[i].progress_end
          BY <1>1, <1>2 DEF Ordered
        <4>3. NumBlocks \in Nat
          BY PoolAssumption
        <4>4. /\ m.epoch = victims[i].epoch /\ m.start = victims[i].start
              /\ m.committed_end = victims[i].committed_end
              /\ m.progress_end = victims[i].progress_end
              /\ m.end = victims[i].end - cuts[i]
          BY <4>1, <1>3
        <4>5. /\ victims[i].end \in Nat /\ cuts[i] \in Nat \ {0}
              /\ victims[i].committed_end \in Nat /\ victims[i].progress_end \in Nat
              /\ victims[i].committed_end < victims[i].end - cuts[i]
              /\ victims[i].progress_end < victims[i].end - cuts[i]
              /\ victims[i].end <= NumBlocks /\ victims[i].start <= victims[i].committed_end
          BY <1>2
        <4> QED BY <4>2, <4>3, <4>4, <4>5
      <3> QED BY <3>1, <3>2, <1>8
    <2> QED BY <2>1, <2>2
  <1>13. DisjointIn(r)
    <2> SUFFICES ASSUME NEW m \in L, NEW k \in L, m # k
                 PROVE  m.id # k.id /\ Outstanding(m) \cap Outstanding(k) = {}
      BY <1>10 DEF DisjointIn
    <2>1. ASSUME NEW a \in L
          PROVE  \E l \in t.leases :
                   /\ a.id = l.id /\ Outstanding(a) \subseteq Outstanding(l)
                   /\ \/ a = l /\ \A i \in 1 .. n : l # victims[i]
                      \/ \E i \in 1 .. n : l = victims[i] /\ a = Cut(victims[i], cuts[i])
      <3>1. CASE a \in t.leases /\ \A i \in 1 .. n : a # victims[i]
        BY <3>1
      <3>2. CASE \E i \in 1 .. n : a = Cut(victims[i], cuts[i])
        <4>1. PICK i \in 1 .. n : a = Cut(victims[i], cuts[i])
          BY <3>2
        <4>2. a.id = victims[i].id /\ Outstanding(a) \subseteq Outstanding(victims[i])
          BY <4>1, <1>3, <1>7
        <4> QED BY <4>1, <4>2, <1>2
      <3> QED BY <3>1, <3>2, <1>8
    <2>2. PICK l \in t.leases :
            /\ m.id = l.id /\ Outstanding(m) \subseteq Outstanding(l)
            /\ \/ m = l /\ \A i \in 1 .. n : l # victims[i]
               \/ \E i \in 1 .. n : l = victims[i] /\ m = Cut(victims[i], cuts[i])
      BY <2>1
    <2>3. PICK o \in t.leases :
            /\ k.id = o.id /\ Outstanding(k) \subseteq Outstanding(o)
            /\ \/ k = o /\ \A i \in 1 .. n : o # victims[i]
               \/ \E i \in 1 .. n : o = victims[i] /\ k = Cut(victims[i], cuts[i])
      BY <2>1
    <2>4. l # o
      BY <2>2, <2>3
    <2> QED BY <2>2, <2>3, <2>4, <1>1 DEF DisjointIn
  <1>14. CoverageBut(r, Covered(spans))
    <2>1. \A b : b \in Covered(spans) <=> \E i \in 1 .. n : b \in spans[i][1] .. spans[i][2] - 1
      BY <1>5 DEF Covered
    <2>2. ASSUME NEW b \in Blocks, b \in Covered(spans)
          PROVE  /\ t.state[b] = LEASED /\ b \notin t.free
                 /\ \A m \in L : b \notin Outstanding(m)
      <3>1. PICK i \in 1 .. n : b \in spans[i][1] .. spans[i][2] - 1
        BY <2>1, <2>2
      <3>2. b \in Outstanding(victims[i]) /\ b \notin Outstanding(Cut(victims[i], cuts[i]))
        BY <3>1, <1>7
      <3>3. \A l \in t.leases : l # victims[i] => b \notin Outstanding(l)
        BY <3>2, <1>1, <1>2 DEF DisjointIn
      <3>4. \A j \in 1 .. n : b \notin Outstanding(Cut(victims[j], cuts[j]))
        BY <3>2, <3>3, <1>2, <1>7
      <3>5. t.state[b] = LEASED
        BY <3>2, <1>1, <1>2 DEF CoverageIn
      <3> QED BY <3>3, <3>4, <3>5, <1>1, <1>8 DEF CoverageIn, LEASED, UNASSIGNED
    <2>3. ASSUME NEW b \in Blocks, b \notin Covered(spans)
          PROVE  (\E l \in t.leases : b \in Outstanding(l)) <=> (\E m \in L : b \in Outstanding(m))
      BY <2>1, <2>3, <1>2, <1>7, <1>8
    <2> QED BY <2>2, <2>3, <1>1, <1>10 DEF CoverageBut, CoverageIn
  <1>15. CountersIn(r) /\ QuarantineIn(r)
    BY <1>1, <1>10 DEF CountersIn, InState, QuarantineIn
  <1>16. InvBut(r, Covered(spans))
    BY <1>10, <1>12, <1>13, <1>14, <1>15 DEF InvBut
  <1> QED BY <1>11, <1>16 DEF r, spans

\* Positions taken out of the pool are in between two owners.
LEMMA TakenInv ==
  ASSUME NEW t, Inv(t), NEW S \in SUBSET t.free
  PROVE  InvBut([t EXCEPT !.free = @ \ S], S)
  <1> DEFINE r == [t EXCEPT !.free = t.free \ S]
  <1>1. /\ t \in Table /\ Issued(t) /\ Ordered(t) /\ DisjointIn(t)
        /\ CoverageIn(t) /\ CountersIn(t) /\ QuarantineIn(t)
    BY InvCoverage
  <1>2. /\ r \in Table /\ r.free = t.free \ S
        /\ r.epoch = t.epoch /\ r.state = t.state /\ r.attempts = t.attempts
        /\ r.committed = t.committed /\ r.quarantined = t.quarantined
        /\ r.leases = t.leases /\ r.seq = t.seq
    BY <1>1 DEF Table
  <1> HIDE DEF r
  <1>3. CoverageBut(r, S)
    BY <1>1, <1>2 DEF CoverageBut, CoverageIn, Table, UNASSIGNED, LEASED
  <1>4. InvBut(r, S)
    BY <1>1, <1>2, <1>3 DEF InvBut, Issued, Ordered, DisjointIn, CountersIn, InState, QuarantineIn
  <1> QED BY <1>4 DEF r

-----------------------------------------------------------------------------
(* The invariant holds in every state                                      *)

\* Every RPC and every tick keeps the invariant.
LEMMA StepInv ==
  ASSUME Inv(table), [Next]_table
  PROVE  Inv(table')
  <1>1. ASSUME NEW c \in Cluster, NEW inc \in Incarnation \cup {NoIncarnation}, Register(c, inc)
        PROVE  Inv(table')
    BY <1>1, RegisteredInv DEF Register
  <1>2. ASSUME NEW c \in Cluster, AcquireFree(c)
        PROVE  Inv(table')
    <2> DEFINE t == AcquireBase(c)
    <2>1. PICK want \in Wanted(t, c) :
            \E spans \in TakeNear(t.free, t.clusters[c].cursor, want) :
              table' = Granted([t EXCEPT !.free = @ \ Covered(spans)], c, spans)
      BY <1>2 DEF AcquireFree
    <2>2. PICK spans \in TakeNear(t.free, t.clusters[c].cursor, want) :
            table' = Granted([t EXCEPT !.free = @ \ Covered(spans)], c, spans)
      BY <2>1
    <2>3. Inv(t)
      BY AcquireBaseInv
    <2> HIDE DEF t
    <2>4. t.free \in SUBSET Blocks /\ t.clusters[c].cursor \in Nat
      BY <2>3, InvCoverage DEF Table, ClusterRecord
    <2>5. WorkVector(spans) /\ Covered(spans) \subseteq t.free
      BY <2>4, TakeNearVector
    <2>6. InvBut([t EXCEPT !.free = @ \ Covered(spans)], Covered(spans))
      BY <2>3, <2>5, TakenInv
    <2> QED BY <2>2, <2>5, <2>6, GrantedInv
  <1>3. ASSUME NEW c \in Cluster, AcquireStolen(c)
        PROVE  Inv(table')
    <2> DEFINE t == AcquireBase(c)
    <2>1. PICK want \in Wanted(t, c) :
            \E p \in StealPlans(t, c, want) :
              table' = Granted(Robbed(t, p[1], p[2]), c, StolenSpans(p[1], p[2]))
      BY <1>3 DEF AcquireStolen
    <2>2. PICK p \in StealPlans(t, c, want) :
            table' = Granted(Robbed(t, p[1], p[2]), c, StolenSpans(p[1], p[2]))
      BY <2>1
    <2>3. Inv(t)
      BY AcquireBaseInv
    <2> HIDE DEF t
    <2>4. PICK n \in Nat \ {0} :
            /\ p[1] \in [1 .. n -> t.leases] /\ p[2] \in [1 .. n -> Nat \ {0}]
            /\ \A i, j \in 1 .. n : i # j => p[1][i] # p[1][j]
            /\ \A i \in 1 .. n : Floor(p[1][i]) < p[1][i].end - p[2][i]
      BY <2>3, StealPlanFacts
    <2>5. /\ WorkVector(StolenSpans(p[1], p[2]))
          /\ InvBut(Robbed(t, p[1], p[2]), Covered(StolenSpans(p[1], p[2])))
      BY <2>3, <2>4, RobbedInv
    <2> QED BY <2>2, <2>5, GrantedInv
  <1>4. ASSUME NEW c \in Cluster, AcquireNothing(c)
        PROVE  Inv(table')
    BY <1>4, AcquireBaseInv DEF AcquireNothing
  <1>5. ASSUME NEW c \in Cluster, NEW held \in SUBSET Holding(table, c),
               NEW progress \in [{l.id : l \in held} -> Watermarks], Heartbeat(c, progress)
        PROVE  Inv(table')
    <2>1. Inv(Registered(Reaped(table), c, NoIncarnation))
      BY ReapedInv, RegisteredInv
    <2>2. \A i \in DOMAIN progress : progress[i] \in Nat
      BY PoolAssumption DEF Watermarks
    <2> QED BY <1>5, <2>1, <2>2, RenewedInv DEF Heartbeat
  <1>6. ASSUME NEW l \in table.leases, NEW w \in Watermarks, Commit(l, w)
        PROVE  Inv(table')
    <2>1. w \in Nat
      BY PoolAssumption DEF Watermarks
    <2> QED BY <1>6, <2>1, CommittedInv DEF Commit
  <1>7. ASSUME NEW l \in table.leases, NEW count \in BOOLEAN, ReleaseOne(l, count)
        PROVE  Inv(table')
    <2>1. {l} \in SUBSET table.leases
      OBVIOUS
    <2> QED BY <1>7, <2>1, ReclaimedInv DEF ReleaseOne
  <1>8. ASSUME NEW c \in Cluster, NEW inc, NEW count \in BOOLEAN, ReleaseAll(c, inc, count)
        PROVE  Inv(table')
    <2>1. Holding(table, c) \in SUBSET table.leases
      BY DEF Holding
    <2> QED BY <1>8, <2>1, ReclaimedInv DEF ReleaseAll
  <1>9. CASE Reap
    BY <1>9, ReapedInv DEF Reap
  <1>10. CASE AdvanceEpoch
    BY <1>10, AdvancedInv DEF AdvanceEpoch
  <1>11. ASSUME NEW l \in table.leases, LeaseOverdue(l)
         PROVE  Inv(table')
    BY <1>11, OverdueInv DEF LeaseOverdue
  <1>12. ASSUME NEW c \in Cluster, FallSilent(c)
         PROVE  Inv(table')
    BY <1>12, SilentInv DEF FallSilent
  <1>13. CASE UNCHANGED table
    BY <1>13
  <1> QED BY <1>1, <1>2, <1>3, <1>4, <1>5, <1>6, <1>7, <1>8, <1>9, <1>10, <1>11, <1>12, <1>13 DEF Next

\* The inductive invariant of the lease table.
THEOREM Invariance == Spec => []Inv(table)
  <1>1. Init => Inv(table)
    BY NewTableInv DEF Init
  <1>2. Inv(table) /\ [Next]_table => Inv(table)'
    BY StepInv
  <1> QED BY <1>1, <1>2, PTL DEF Spec

\* The table is well typed in every state of every run, for any number of
\* positions, clusters, epochs and leases.
THEOREM TypeCorrect == Spec => []TypeOK
  <1>1. Inv(table) => TypeOK
    BY DEF Inv, InvBut, TypeOK
  <1> QED BY <1>1, Invariance, PTL

\* verify()'s watermark check never fails (table.py, verify).
THEOREM WatermarksStayOrdered == Spec => []WatermarksOrdered
  <1>1. Inv(table) => WatermarksOrdered
    BY DEF Inv, InvBut, WatermarksOrdered
  <1> QED BY <1>1, Invariance, PTL

\* No position is ever outstanding in two leases: nothing is trained, committed
\* or freed twice, whatever the clients send and whenever deadlines pass.
THEOREM LeasesStayDisjoint == Spec => []Disjoint
  <1>1. Inv(table) => Disjoint
    BY DEF Inv, InvBut, Disjoint
  <1> QED BY <1>1, Invariance, PTL

\* The state array, the leases and the free pool never disagree, so no position
\* is lost: each is in the pool, in one lease, committed or quarantined.
THEOREM CoverageHolds == Spec => []Coverage
  <1>1. Inv(table) => Coverage
    BY InvCoverage DEF Coverage
  <1> QED BY <1>1, Invariance, PTL

\* The counters epoch_complete is computed from never drift.
THEOREM CountersStayExact == Spec => []CountersExact
  <1>1. Inv(table) => CountersExact
    BY DEF Inv, InvBut, CountersExact
  <1> QED BY <1>1, Invariance, PTL

\* Positions are quarantined for their own counted failures and nothing else.
THEOREM QuarantineStaysExact == Spec => []QuarantineExact
  <1>1. Inv(table) => QuarantineExact
    BY DEF Inv, InvBut, QuarantineExact
  <1> QED BY <1>1, Invariance, PTL

(* LeaseTable.verify() never fails: all its clauses but the credit of the    *)
(* clusters, a sum (NothingCreditedTwice, below), in every table.            *)
THEOREM TableStaysVerified == Spec => []Verified
  <1>1. Inv(table) => Verified
    BY InvCoverage DEF Inv, InvBut, Verified, VerifiedIn
  <1> QED BY <1>1, Invariance, PTL

-----------------------------------------------------------------------------
(* Committed positions                                                     *)

\* r comes after t: a later epoch, or the same with nothing reopened.
After(t, r) ==
    \/ r.epoch > t.epoch
    \/ r.epoch = t.epoch /\ \A b \in Blocks : t.state[b] = COMMITTED => r.state[b] = COMMITTED

LEMMA AfterTransitive ==
  ASSUME NEW t \in Table, NEW s \in Table, NEW r \in Table, After(t, s), After(s, r)
  PROVE  After(t, r)
  BY DEF After, Table

LEMMA ReclaimedAfter ==
  ASSUME NEW t, Inv(t), NEW gone \in SUBSET t.leases, NEW count \in BOOLEAN
  PROVE  After(t, Reclaimed(t, gone, count))
  <1> DEFINE tail == UNION {Outstanding(l) : l \in gone}
             tried == [b \in Blocks |-> IF count /\ b \in tail
                                        THEN t.attempts[b] + 1 ELSE t.attempts[b]]
             bad == {b \in tail : count /\ MaxAttempts # 0 /\ tried[b] >= MaxAttempts}
             r == Reclaimed(t, gone, count)
  <1>1. t \in Table /\ Ordered(t) /\ CoverageIn(t)
    BY InvCoverage
  <1>2. r.epoch = t.epoch /\ r.state = Fill(Fill(t.state, tail \ bad, UNASSIGNED), bad, QUARANTINED)
    BY <1>1 DEF Reclaimed, Exhausted, Table
  <1>3. \A b \in Blocks : b \in tail => t.state[b] # COMMITTED
    BY <1>1 DEF CoverageIn, LEASED, COMMITTED
  <1>4. bad \subseteq tail
    OBVIOUS
  <1> HIDE DEF r, tail, bad
  <1>5. \A b \in Blocks : b \notin tail => r.state[b] = t.state[b]
    BY <1>2, <1>4 DEF Fill
  <1>6. After(t, r)
    BY <1>2, <1>3, <1>5 DEF After
  <1> QED BY <1>6 DEF r

LEMMA AdvancedAfter ==
  ASSUME NEW t \in Table
  PROVE  After(t, Advanced(t))
  BY DEF Advanced, ResetEpoch, After, Table

LEMMA RegisteredAfter ==
  ASSUME NEW t \in Table, NEW c \in Cluster, NEW inc
  PROVE  After(t, Registered(t, c, inc))
  BY DEF Registered, After, Table

LEMMA AcquireBaseAfter ==
  ASSUME Inv(table), NEW c \in Cluster
  PROVE  After(table, AcquireBase(c))
  <1> DEFINE reaped == Reaped(table)
             registered == Registered(reaped, c, NoIncarnation)
  <1>1. Inv(reaped) /\ Inv(registered)
    BY ReapedInv, RegisteredInv
  <1>2. After(table, reaped)
    BY ReclaimedAfter DEF Reaped
  <1>3. After(reaped, registered)
    BY <1>1, RegisteredAfter, InvCoverage
  <1> HIDE DEF reaped, registered
  <1>4. After(table, registered)
    BY <1>1, <1>2, <1>3, AfterTransitive, InvCoverage
  <1>5. After(registered, Advanced(registered)) /\ Inv(Advanced(registered))
    BY <1>1, AdvancedAfter, AdvancedInv, InvCoverage
  <1>6. After(table, Advanced(registered))
    BY <1>1, <1>4, <1>5, AfterTransitive, InvCoverage
  <1> QED BY <1>4, <1>6 DEF AcquireBase, reaped, registered

\* Granting touches only positions that are between two owners.
LEMMA GrantedAfter ==
  ASSUME NEW t, NEW c \in Cluster, NEW spans, InvBut(t, Covered(spans))
  PROVE  After(t, Granted(t, c, spans))
  <1> DEFINE r == Granted(t, c, spans)
  <1>1. t \in Table /\ CoverageBut(t, Covered(spans))
    BY DEF InvBut
  <1>2. r.epoch = t.epoch /\ r.state = Fill(t.state, Covered(spans), LEASED)
    BY <1>1 DEF Granted, Table
  <1>3. \A b \in Blocks : b \in Covered(spans) => t.state[b] # COMMITTED
    BY <1>1 DEF CoverageBut, UNASSIGNED, LEASED, COMMITTED
  <1> HIDE DEF r
  <1>4. After(t, r)
    BY <1>2, <1>3 DEF After, Fill
  <1> QED BY <1>4 DEF r

\* No step reopens a committed position, short of starting the next epoch.
LEMMA StepAfter ==
  ASSUME Inv(table), Next
  PROVE  After(table, table')
  <1>0. Inv(table') /\ table \in Table /\ table' \in Table
    BY StepInv, InvCoverage
  <1>1. ASSUME NEW c \in Cluster, NEW inc \in Incarnation \cup {NoIncarnation}, Register(c, inc)
        PROVE  After(table, table')
    BY <1>0, <1>1, RegisteredAfter DEF Register
  <1>2. ASSUME NEW c \in Cluster, AcquireFree(c)
        PROVE  After(table, table')
    <2> DEFINE t == AcquireBase(c)
    <2>1. PICK want \in Wanted(t, c) :
            \E spans \in TakeNear(t.free, t.clusters[c].cursor, want) :
              table' = Granted([t EXCEPT !.free = @ \ Covered(spans)], c, spans)
      BY <1>2 DEF AcquireFree
    <2>2. PICK spans \in TakeNear(t.free, t.clusters[c].cursor, want) :
            table' = Granted([t EXCEPT !.free = @ \ Covered(spans)], c, spans)
      BY <2>1
    <2>3. Inv(t) /\ After(table, t)
      BY AcquireBaseInv, AcquireBaseAfter
    <2> HIDE DEF t
    <2>4. t \in Table /\ t.free \in SUBSET Blocks /\ t.clusters[c].cursor \in Nat
      BY <2>3, InvCoverage DEF Table, ClusterRecord
    <2>5. Covered(spans) \subseteq t.free
      BY <2>4, TakeNearVector
    <2> DEFINE taken == [t EXCEPT !.free = @ \ Covered(spans)]
    <2>6. InvBut(taken, Covered(spans)) /\ taken \in Table
      BY <2>3, <2>5, TakenInv DEF InvBut
    <2>7. After(t, taken)
      BY <2>4 DEF After, Table
    <2> HIDE DEF taken
    <2>8. After(taken, table')
      BY <2>2, <2>6, GrantedAfter DEF taken
    <2> QED BY <1>0, <2>3, <2>4, <2>6, <2>7, <2>8, AfterTransitive
  <1>3. ASSUME NEW c \in Cluster, AcquireStolen(c)
        PROVE  After(table, table')
    <2> DEFINE t == AcquireBase(c)
    <2>1. PICK want \in Wanted(t, c) :
            \E p \in StealPlans(t, c, want) :
              table' = Granted(Robbed(t, p[1], p[2]), c, StolenSpans(p[1], p[2]))
      BY <1>3 DEF AcquireStolen
    <2>2. PICK p \in StealPlans(t, c, want) :
            table' = Granted(Robbed(t, p[1], p[2]), c, StolenSpans(p[1], p[2]))
      BY <2>1
    <2>3. Inv(t) /\ After(table, t) /\ t \in Table
      BY AcquireBaseInv, AcquireBaseAfter, InvCoverage
    <2> HIDE DEF t
    <2>4. PICK n \in Nat \ {0} :
            /\ p[1] \in [1 .. n -> t.leases] /\ p[2] \in [1 .. n -> Nat \ {0}]
            /\ \A i, j \in 1 .. n : i # j => p[1][i] # p[1][j]
            /\ \A i \in 1 .. n : Floor(p[1][i]) < p[1][i].end - p[2][i]
      BY <2>3, StealPlanFacts
    <2> DEFINE robbed == Robbed(t, p[1], p[2])
    <2>5. InvBut(robbed, Covered(StolenSpans(p[1], p[2]))) /\ robbed \in Table
      BY <2>3, <2>4, RobbedInv DEF InvBut
    <2>6. After(t, robbed)
      BY <2>3 DEF After, Robbed, Table
    <2> HIDE DEF robbed
    <2>7. After(robbed, table')
      BY <2>2, <2>5, GrantedAfter DEF robbed
    <2> QED BY <1>0, <2>3, <2>5, <2>6, <2>7, AfterTransitive
  <1>4. ASSUME NEW c \in Cluster, AcquireNothing(c)
        PROVE  After(table, table')
    BY <1>4, AcquireBaseAfter DEF AcquireNothing
  <1>5. ASSUME NEW c \in Cluster, NEW progress, Heartbeat(c, progress)
        PROVE  After(table, table')
    <2> DEFINE reaped == Reaped(table)
               registered == Registered(reaped, c, NoIncarnation)
    <2>1. /\ Inv(reaped) /\ Inv(registered) /\ reaped \in Table /\ registered \in Table
          /\ After(table, reaped)
      BY ReapedInv, RegisteredInv, InvCoverage, ReclaimedAfter DEF Reaped
    <2>2. After(reaped, registered)
      BY <2>1, RegisteredAfter
    <2>3. table' = Renewed(registered, c, progress)
      BY <1>5 DEF Heartbeat
    <2> HIDE DEF reaped, registered
    <2>4. After(registered, table')
      BY <2>1, <2>3 DEF Renewed, Reported, After, Table
    <2> QED BY <1>0, <2>1, <2>2, <2>4, AfterTransitive
  <1>6. ASSUME NEW l \in table.leases, NEW w \in Watermarks, Commit(l, w)
        PROVE  After(table, table')
    BY <1>0, <1>6 DEF Commit, Committed, Settled, After, Fill, Table
  <1>7. ASSUME NEW l \in table.leases, NEW count \in BOOLEAN, ReleaseOne(l, count)
        PROVE  After(table, table')
    <2>1. {l} \in SUBSET table.leases
      OBVIOUS
    <2> QED BY <1>7, <2>1, ReclaimedAfter DEF ReleaseOne
  <1>8. ASSUME NEW c \in Cluster, NEW inc, NEW count \in BOOLEAN, ReleaseAll(c, inc, count)
        PROVE  After(table, table')
    <2>1. Holding(table, c) \in SUBSET table.leases
      BY DEF Holding
    <2> QED BY <1>8, <2>1, ReclaimedAfter DEF ReleaseAll
  <1>9. CASE Reap
    BY <1>9, ReclaimedAfter DEF Reap, Reaped
  <1>10. CASE AdvanceEpoch
    BY <1>0, <1>10, AdvancedAfter DEF AdvanceEpoch
  <1>11. ASSUME NEW l \in table.leases, LeaseOverdue(l)
         PROVE  After(table, table')
    BY <1>0, <1>11 DEF LeaseOverdue, After, Table
  <1>12. ASSUME NEW c \in Cluster, FallSilent(c)
         PROVE  After(table, table')
    BY <1>0, <1>12 DEF FallSilent, After, Table
  <1> QED BY <1>1, <1>2, <1>3, <1>4, <1>5, <1>6, <1>7, <1>8, <1>9, <1>10, <1>11, <1>12 DEF Next

\* A committed position stays committed until its epoch is over, for any
\* number of clusters and any interleaving of their requests.
THEOREM CommittedStays == Spec => CommitIsFinal
  <1>1. Inv(table) /\ Next => \A b \in Blocks : table.state[b] = COMMITTED =>
                                table'.state[b] = COMMITTED \/ table'.epoch > table.epoch
    BY StepAfter DEF After
  <1>2. Inv(table) /\ [Next]_table
          => [\A b \in Blocks : table.state[b] = COMMITTED =>
                table'.state[b] = COMMITTED \/ table'.epoch > table.epoch]_table
    BY <1>1
  <1> QED BY <1>2, Invariance, PTL DEF Spec, CommitIsFinal


-----------------------------------------------------------------------------
(* What becomes of a lease                                                 *)

\* m is what is left of l: further along, and cut no deeper than the progress
\* that l had reported.
Successor(l, m) ==
    /\ m.id = l.id /\ m.cluster = l.cluster /\ m.start = l.start
    /\ l.committed_end <= m.committed_end /\ l.progress_end <= m.progress_end
    /\ Floor(l) <= m.end /\ m.end <= l.end

\* The leases of r are new ones, or what is left of those of t.
Continues(t, r) ==
    /\ t.seq <= r.seq
    /\ \A m \in r.leases : m.id[3] > t.seq \/ \E l \in t.leases : Successor(l, m)

LEMMA SuccessorTransitive ==
  ASSUME NEW k \in Lease, NEW l \in Lease, NEW m \in Lease, Successor(k, l), Successor(l, m)
  PROVE  Successor(k, m)
  BY DEF Successor, Lease, Floor, Larger

LEMMA ContinuesTransitive ==
  ASSUME NEW t \in Table, NEW s \in Table, NEW r \in Table, Continues(t, s), Continues(s, r)
  PROVE  Continues(t, r)
  <1>1. t.seq \in Nat /\ s.seq \in Nat /\ r.seq \in Nat
    BY DEF Table
  <1>2. t.seq <= r.seq
    BY <1>1 DEF Continues
  <1>3. ASSUME NEW m \in r.leases
        PROVE  m.id[3] > t.seq \/ \E l \in t.leases : Successor(l, m)
    <2>1. m \in Lease /\ m.id[3] \in Nat
      BY DEF Table, Lease
    <2>2. CASE m.id[3] > s.seq
      BY <1>1, <2>1, <2>2 DEF Continues
    <2>3. CASE \E l \in s.leases : Successor(l, m)
      <3>1. PICK l \in s.leases : Successor(l, m)
        BY <2>3
      <3>2. l \in Lease /\ m.id = l.id
        BY <3>1 DEF Table, Successor
      <3>3. CASE l.id[3] > t.seq
        BY <3>2, <3>3
      <3>4. CASE \E k \in t.leases : Successor(k, l)
        <4>1. PICK k \in t.leases : Successor(k, l)
          BY <3>4
        <4>2. k \in Lease
          BY DEF Table
        <4> QED BY <2>1, <3>1, <3>2, <4>1, <4>2, SuccessorTransitive
      <3> QED BY <3>3, <3>4 DEF Continues
    <2> QED BY <2>2, <2>3 DEF Continues
  <1> QED BY <1>2, <1>3 DEF Continues

\* A lease is what is left of itself.
LEMMA SuccessorReflexive ==
  ASSUME NEW t \in Table, Ordered(t), NEW l \in t.leases
  PROVE  Successor(l, l)
  <1>1. l \in Lease /\ l.progress_end <= l.end /\ l.committed_end < l.end
    BY DEF Table, Ordered
  <1> QED BY <1>1 DEF Successor, Lease, Floor, Larger

\* Nothing but forgotten leases: reaping, releasing, registering, a new epoch.
LEMMA FewerContinue ==
  ASSUME NEW t, Inv(t), NEW r \in Table, r.leases \subseteq t.leases, r.seq = t.seq
  PROVE  Continues(t, r)
  <1>1. t \in Table /\ Ordered(t) /\ t.seq \in Nat
    BY InvCoverage DEF Table
  <1> QED BY <1>1, SuccessorReflexive DEF Continues

LEMMA ReclaimedContinues ==
  ASSUME NEW t, Inv(t), NEW gone \in SUBSET t.leases, NEW count \in BOOLEAN
  PROVE  Continues(t, Reclaimed(t, gone, count))
  <1> DEFINE r == Reclaimed(t, gone, count)
  <1>1. t \in Table /\ r \in Table
    BY InvCoverage, ReclaimedInv
  <1>2. r.leases = t.leases \ gone /\ r.seq = t.seq
    BY <1>1 DEF Reclaimed, Table
  <1> HIDE DEF r
  <1>3. Continues(t, r)
    BY <1>1, <1>2, FewerContinue
  <1> QED BY <1>3 DEF r

\* What an acquire begins with only forgets leases.
LEMMA AcquireBaseFewer ==
  ASSUME Inv(table), NEW c \in Cluster
  PROVE  AcquireBase(c).leases \subseteq table.leases /\ AcquireBase(c).seq = table.seq
  <1> DEFINE reaped == Reaped(table)
             registered == Registered(reaped, c, NoIncarnation)
  <1>1. /\ Inv(registered)
        /\ table \in Table /\ reaped \in Table
    BY ReapedInv, RegisteredInv, InvCoverage
  <1>2. reaped.leases \subseteq table.leases /\ reaped.seq = table.seq
    BY <1>1 DEF Reaped, Reclaimed, Table
  <1> HIDE DEF reaped
  <1>3. registered.leases = reaped.leases /\ registered.seq = reaped.seq
    BY <1>1 DEF Registered, Table
  <1>4. registered \in Table
    BY <1>1, InvCoverage
  <1> HIDE DEF registered
  <1>5. Advanced(registered).leases \subseteq registered.leases
          /\ Advanced(registered).seq = registered.seq
    BY <1>4 DEF Advanced, ResetEpoch, Table
  <1> QED BY <1>2, <1>3, <1>5 DEF AcquireBase, reaped, registered

LEMMA AcquireBaseContinues ==
  ASSUME Inv(table), NEW c \in Cluster
  PROVE  Continues(table, AcquireBase(c))
  <1>1. AcquireBase(c) \in Table
    BY AcquireBaseInv, InvCoverage
  <1> QED BY <1>1, AcquireBaseFewer, FewerContinue

\* A grant adds leases with fresh ids.
LEMMA GrantedContinues ==
  ASSUME NEW t \in Table, Ordered(t), NEW c \in Cluster, NEW spans, WorkVector(spans)
  PROVE  Continues(t, Granted(t, c, spans))
  <1> DEFINE n == Len(spans)
             N(i) == [id |-> <<t.epoch, spans[i][1], t.seq + i>>,
                      cluster |-> c, epoch |-> t.epoch,
                      start |-> spans[i][1], end |-> spans[i][2],
                      committed_end |-> spans[i][1], progress_end |-> spans[i][1],
                      overdue |-> FALSE]
             r == Granted(t, c, spans)
  <1>1. /\ r.seq = t.seq + n /\ r.leases = t.leases \cup {N(i) : i \in 1 .. n}
    BY DEF Granted, Table
  <1>2. n \in Nat /\ t.seq \in Nat
    BY DEF WorkVector, Table
  <1>3. \A i \in 1 .. n : N(i).id[3] > t.seq
    BY <1>2
  <1> HIDE DEF N, r, n
  <1>4. Continues(t, r)
    BY <1>1, <1>2, <1>3, SuccessorReflexive DEF Continues
  <1> QED BY <1>4 DEF r

\* A steal cuts at or above the floor of its victim.
LEMMA RobbedContinues ==
  ASSUME NEW t, Inv(t), NEW n \in Nat \ {0},
         NEW victims \in [1 .. n -> t.leases], NEW cuts \in [1 .. n -> Nat \ {0}],
         \A i \in 1 .. n : Floor(victims[i]) < victims[i].end - cuts[i]
  PROVE  Continues(t, Robbed(t, victims, cuts))
  <1> DEFINE r == Robbed(t, victims, cuts)
  <1>1. t \in Table /\ Ordered(t) /\ t.seq \in Nat
    BY InvCoverage DEF Table
  <1>2. /\ r.seq = t.seq
        /\ r.leases = (t.leases \ {victims[i] : i \in 1 .. n})
                      \cup {Cut(victims[i], cuts[i]) : i \in 1 .. n}
    BY <1>1 DEF Robbed, Table
  <1>3. ASSUME NEW i \in 1 .. n
        PROVE  Successor(victims[i], Cut(victims[i], cuts[i]))
    <2> DEFINE l == victims[i]
               k == cuts[i]
    <2>1. l \in Lease /\ k \in Nat \ {0} /\ Floor(l) < l.end - k
      BY <1>1 DEF Table
    <2> HIDE DEF l, k
    <2>2. Successor(l, Cut(l, k))
      BY <2>1 DEF Successor, Cut, Lease, Floor, Larger
    <2> QED BY <2>2 DEF l, k
  <1> HIDE DEF r
  <1>4. ASSUME NEW m \in r.leases
        PROVE  \E l \in t.leases : Successor(l, m)
    <2>1. CASE m \in t.leases
      BY <1>1, <2>1, SuccessorReflexive
    <2>2. CASE \E i \in 1 .. n : m = Cut(victims[i], cuts[i])
      BY <1>3, <2>2
    <2> QED BY <1>2, <2>1, <2>2
  <1>5. Continues(t, r)
    BY <1>1, <1>2, <1>4 DEF Continues
  <1> QED BY <1>5 DEF r

\* A heartbeat moves progress forward within the lease.
LEMMA RenewedContinues ==
  ASSUME NEW t, Inv(t), NEW c \in Cluster, NEW progress,
         \A i \in DOMAIN progress : progress[i] \in Nat
  PROVE  Continues(t, Renewed(t, c, progress))
  <1> DEFINE Mine(l) == l.cluster = c /\ l.epoch = t.epoch /\ l.id \in DOMAIN progress
             Renew(l) == [l EXCEPT !.progress_end = Reported(l, progress[l.id]), !.overdue = FALSE]
             L == {l \in t.leases : ~Mine(l)} \cup {Renew(l) : l \in {m \in t.leases : Mine(m)}}
             r == Renewed(t, c, progress)
  <1>1. t \in Table /\ Ordered(t) /\ t.seq \in Nat
    BY InvCoverage DEF Table
  <1>2. r.leases = L /\ r.seq = t.seq
    BY <1>1 DEF Renewed, Table
  <1>3. ASSUME NEW l \in t.leases, Mine(l)
        PROVE  Successor(l, Renew(l))
    <2> DEFINE w == progress[l.id]
    <2>1. w \in Nat /\ l \in Lease /\ l.progress_end <= l.end /\ l.committed_end < l.end
      BY <1>1, <1>3 DEF Table, Ordered
    <2> HIDE DEF w
    <2>2. Reported(l, w) \in Nat /\ l.progress_end <= Reported(l, w)
      BY <2>1 DEF Lease, Reported, Larger, Smaller
    <2>3. Successor(l, [l EXCEPT !.progress_end = Reported(l, w), !.overdue = FALSE])
      BY <2>1, <2>2 DEF Successor, Lease, Floor, Larger
    <2> QED BY <2>3 DEF w
  <1> HIDE DEF Mine, Renew, r
  <1>4. ASSUME NEW m \in r.leases
        PROVE  \E l \in t.leases : Successor(l, m)
    <2>1. CASE m \in t.leases
      BY <1>1, <2>1, SuccessorReflexive
    <2>2. CASE m \in {Renew(l) : l \in {k \in t.leases : Mine(k)}}
      BY <1>3, <2>2
    <2> QED BY <1>2, <2>1, <2>2
  <1>5. Continues(t, r)
    BY <1>1, <1>2, <1>4 DEF Continues
  <1> QED BY <1>5 DEF r

\* A commit moves the watermark of its lease forward, or closes the lease.
LEMMA CommittedContinues ==
  ASSUME NEW t, Inv(t), NEW l \in t.leases, NEW watermark \in Nat
  PROVE  Continues(t, Committed(t, l, watermark))
  <1> DEFINE through == Settled(l, watermark)
             progress == IF through - l.committed_end > 0 THEN Larger(l.progress_end, through)
                         ELSE l.progress_end
             kept == [l EXCEPT !.committed_end = through, !.progress_end = progress]
             r == Committed(t, l, watermark)
  <1>1. t \in Table /\ Ordered(t) /\ t.seq \in Nat
    BY InvCoverage DEF Table
  <1>2. /\ r.leases = (t.leases \ {l}) \cup (IF through >= l.end THEN {} ELSE {kept})
        /\ r.seq = t.seq
    BY <1>1 DEF Committed, Table
  <1>3. l \in Lease /\ l.committed_end < l.end /\ l.progress_end <= l.end
    BY <1>1 DEF Table, Ordered
  <1>4. through \in Nat /\ l.committed_end <= through /\ through <= l.end
    BY <1>3 DEF Settled, Lease, Larger, Smaller
  <1> HIDE DEF through
  <1>5. progress \in Nat /\ l.progress_end <= progress /\ progress <= l.end
    BY <1>3, <1>4 DEF Lease, Larger
  <1> HIDE DEF progress
  <1>6. Successor(l, kept)
    BY <1>3, <1>4, <1>5 DEF Successor, Lease, Floor, Larger
  <1> HIDE DEF kept, r
  <1>7. \A m \in r.leases : \E k \in t.leases : Successor(k, m)
    BY <1>1, <1>2, <1>6, SuccessorReflexive
  <1>8. Continues(t, r)
    BY <1>1, <1>2, <1>7 DEF Continues
  <1> QED BY <1>8 DEF r

\* A deadline passing changes no watermark.
LEMMA OverdueContinues ==
  ASSUME NEW t, Inv(t), NEW l \in t.leases
  PROVE  Continues(t, [t EXCEPT !.leases = (@ \ {l}) \cup {[l EXCEPT !.overdue = TRUE]}])
  <1> DEFINE o == [l EXCEPT !.overdue = TRUE]
             r == [t EXCEPT !.leases = (@ \ {l}) \cup {o}]
  <1>1. t \in Table /\ Ordered(t) /\ t.seq \in Nat
    BY InvCoverage DEF Table
  <1>2. r.leases = (t.leases \ {l}) \cup {o} /\ r.seq = t.seq
    BY <1>1 DEF Table
  <1>3. l \in Lease /\ l.committed_end < l.end /\ l.progress_end <= l.end
    BY <1>1 DEF Table, Ordered
  <1>4. Successor(l, o)
    BY <1>3 DEF Successor, Lease, Floor, Larger
  <1> HIDE DEF o, r
  <1>5. \A m \in r.leases : \E k \in t.leases : Successor(k, m)
    BY <1>1, <1>2, <1>4, SuccessorReflexive
  <1>6. Continues(t, r)
    BY <1>1, <1>2, <1>5 DEF Continues
  <1> QED BY <1>6 DEF r, o

-----------------------------------------------------------------------------
(* What the two granting acquires do                                       *)

\* An acquire from the pool grants a work vector of free positions.
LEMMA AcquireFreeFacts ==
  ASSUME Inv(table), NEW c \in Cluster, AcquireFree(c)
  PROVE  LET t == AcquireBase(c)
         IN  /\ Inv(t) /\ t \in Table
             /\ \E spans :
                  /\ WorkVector(spans) /\ Covered(spans) \subseteq t.free
                  /\ LET taken == [t EXCEPT !.free = @ \ Covered(spans)]
                     IN  InvBut(taken, Covered(spans)) /\ table' = Granted(taken, c, spans)
  <1> DEFINE t == AcquireBase(c)
  <1>1. PICK want \in Wanted(t, c) :
          \E spans \in TakeNear(t.free, t.clusters[c].cursor, want) :
            table' = Granted([t EXCEPT !.free = @ \ Covered(spans)], c, spans)
    BY DEF AcquireFree
  <1>2. PICK spans \in TakeNear(t.free, t.clusters[c].cursor, want) :
          table' = Granted([t EXCEPT !.free = @ \ Covered(spans)], c, spans)
    BY <1>1
  <1>3. Inv(t) /\ t \in Table
    BY AcquireBaseInv, InvCoverage
  <1> HIDE DEF t
  <1>4. t.free \in SUBSET Blocks /\ t.clusters[c].cursor \in Nat
    BY <1>3 DEF Table, ClusterRecord
  <1>5. WorkVector(spans) /\ Covered(spans) \subseteq t.free
    BY <1>4, TakeNearVector
  <1>6. InvBut([t EXCEPT !.free = @ \ Covered(spans)], Covered(spans))
    BY <1>3, <1>5, TakenInv
  <1>7. \E v : /\ WorkVector(v) /\ Covered(v) \subseteq t.free
               /\ InvBut([t EXCEPT !.free = @ \ Covered(v)], Covered(v))
               /\ table' = Granted([t EXCEPT !.free = @ \ Covered(v)], c, v)
    BY <1>2, <1>5, <1>6
  <1> QED BY <1>3, <1>7 DEF t

\* A steal cuts leases of other clusters above their floors, in a table whose
\* pool is empty.
LEMMA AcquireStolenFacts ==
  ASSUME Inv(table), NEW c \in Cluster, AcquireStolen(c)
  PROVE  LET t == AcquireBase(c)
         IN  /\ Inv(t) /\ t \in Table /\ t.free = {}
             /\ \E n \in Nat \ {0} :
                  \E victims \in [1 .. n -> t.leases], cuts \in [1 .. n -> Nat \ {0}] :
                    /\ \A i, j \in 1 .. n : i # j => victims[i] # victims[j]
                    /\ \A i \in 1 .. n : Floor(victims[i]) < victims[i].end - cuts[i]
                    /\ WorkVector(StolenSpans(victims, cuts))
                    /\ InvBut(Robbed(t, victims, cuts), Covered(StolenSpans(victims, cuts)))
                    /\ table' = Granted(Robbed(t, victims, cuts), c, StolenSpans(victims, cuts))
  <1> DEFINE t == AcquireBase(c)
  <1>1. PICK want \in Wanted(t, c) :
          \E p \in StealPlans(t, c, want) :
            table' = Granted(Robbed(t, p[1], p[2]), c, StolenSpans(p[1], p[2]))
    BY DEF AcquireStolen
  <1>2. PICK p \in StealPlans(t, c, want) :
          table' = Granted(Robbed(t, p[1], p[2]), c, StolenSpans(p[1], p[2]))
    BY <1>1
  <1>3. Inv(t) /\ t \in Table /\ t.free = {}
    BY AcquireBaseInv, InvCoverage DEF AcquireStolen
  <1> HIDE DEF t
  <1>4. PICK n \in Nat \ {0} :
          /\ p[1] \in [1 .. n -> t.leases] /\ p[2] \in [1 .. n -> Nat \ {0}]
          /\ \A i, j \in 1 .. n : i # j => p[1][i] # p[1][j]
          /\ \A i \in 1 .. n : Floor(p[1][i]) < p[1][i].end - p[2][i]
    BY <1>3, StealPlanFacts
  <1>5. /\ WorkVector(StolenSpans(p[1], p[2]))
        /\ InvBut(Robbed(t, p[1], p[2]), Covered(StolenSpans(p[1], p[2])))
    BY <1>3, <1>4, RobbedInv
  <1> QED BY <1>2, <1>3, <1>4, <1>5 DEF t

\* No step shrinks the counter of lease ids, and every lease it leaves is new
\* or what is left of one there was.
LEMMA StepContinues ==
  ASSUME Inv(table), Next
  PROVE  Continues(table, table')
  <1>0. Inv(table') /\ table \in Table /\ table' \in Table
    BY StepInv, InvCoverage
  <1>1. ASSUME NEW c \in Cluster, NEW inc \in Incarnation \cup {NoIncarnation}, Register(c, inc)
        PROVE  Continues(table, table')
    <2>1. table'.leases = table.leases /\ table'.seq = table.seq
      BY <1>0, <1>1 DEF Register, Registered, Table
    <2> QED BY <1>0, <2>1, FewerContinue
  <1>2. ASSUME NEW c \in Cluster, AcquireFree(c)
        PROVE  Continues(table, table')
    <2> DEFINE t == AcquireBase(c)
    <2>1. PICK spans :
            /\ Inv(t) /\ t \in Table
            /\ WorkVector(spans)
            /\ InvBut([t EXCEPT !.free = @ \ Covered(spans)], Covered(spans))
            /\ table' = Granted([t EXCEPT !.free = @ \ Covered(spans)], c, spans)
      BY <1>2, AcquireFreeFacts
    <2>2. Continues(table, t)
      BY AcquireBaseContinues
    <2> HIDE DEF t
    <2> DEFINE taken == [t EXCEPT !.free = @ \ Covered(spans)]
    <2>3. taken.leases = t.leases /\ taken.seq = t.seq
      BY <2>1 DEF Table
    <2> HIDE DEF taken
    <2>4. taken \in Table /\ Ordered(taken) /\ table' = Granted(taken, c, spans)
      BY <2>1 DEF InvBut, taken
    <2>5. Continues(t, taken)
      BY <2>1, <2>3, <2>4, FewerContinue
    <2>6. Continues(taken, table')
      BY <2>1, <2>4, GrantedContinues
    <2> QED BY <1>0, <2>1, <2>2, <2>4, <2>5, <2>6, ContinuesTransitive
  <1>3. ASSUME NEW c \in Cluster, AcquireStolen(c)
        PROVE  Continues(table, table')
    <2> DEFINE t == AcquireBase(c)
    <2>0. PICK n \in Nat \ {0} :
            /\ Inv(t) /\ t \in Table
            /\ \E victims \in [1 .. n -> t.leases], cuts \in [1 .. n -> Nat \ {0}] :
                 /\ \A i \in 1 .. n : Floor(victims[i]) < victims[i].end - cuts[i]
                 /\ WorkVector(StolenSpans(victims, cuts))
                 /\ InvBut(Robbed(t, victims, cuts), Covered(StolenSpans(victims, cuts)))
                 /\ table' = Granted(Robbed(t, victims, cuts), c, StolenSpans(victims, cuts))
      BY <1>3, AcquireStolenFacts
    <2>1. PICK victims \in [1 .. n -> t.leases], cuts \in [1 .. n -> Nat \ {0}] :
            /\ \A i \in 1 .. n : Floor(victims[i]) < victims[i].end - cuts[i]
            /\ WorkVector(StolenSpans(victims, cuts))
            /\ InvBut(Robbed(t, victims, cuts), Covered(StolenSpans(victims, cuts)))
            /\ table' = Granted(Robbed(t, victims, cuts), c, StolenSpans(victims, cuts))
      BY <2>0
    <2>2. Continues(table, t)
      BY AcquireBaseContinues
    <2> HIDE DEF t
    <2>3. Continues(t, Robbed(t, victims, cuts))
      BY <2>0, <2>1, RobbedContinues
    <2> DEFINE robbed == Robbed(t, victims, cuts)
    <2> HIDE DEF robbed
    <2>4. /\ robbed \in Table /\ Ordered(robbed)
          /\ table' = Granted(robbed, c, StolenSpans(victims, cuts))
      BY <2>1 DEF InvBut, robbed
    <2>5. Continues(robbed, table')
      BY <2>1, <2>4, GrantedContinues
    <2>6. Continues(t, robbed)
      BY <2>3 DEF robbed
    <2> QED BY <1>0, <2>0, <2>2, <2>4, <2>5, <2>6, ContinuesTransitive
  <1>4. ASSUME NEW c \in Cluster, AcquireNothing(c)
        PROVE  Continues(table, table')
    BY <1>4, AcquireBaseContinues DEF AcquireNothing
  <1>5. ASSUME NEW c \in Cluster, NEW held \in SUBSET Holding(table, c),
               NEW progress \in [{l.id : l \in held} -> Watermarks], Heartbeat(c, progress)
        PROVE  Continues(table, table')
    <2> DEFINE reaped == Reaped(table)
               registered == Registered(reaped, c, NoIncarnation)
    <2>1. /\ Inv(reaped) /\ Inv(registered) /\ reaped \in Table /\ registered \in Table
          /\ Continues(table, reaped)
      BY ReapedInv, RegisteredInv, InvCoverage, ReclaimedContinues DEF Reaped
    <2> HIDE DEF reaped
    <2>2. registered.leases = reaped.leases /\ registered.seq = reaped.seq
      BY <2>1 DEF Registered, Table
    <2>3. table' = Renewed(registered, c, progress)
      BY <1>5 DEF Heartbeat, reaped
    <2> HIDE DEF registered
    <2>4. Continues(reaped, registered)
      BY <2>1, <2>2, FewerContinue
    <2>5. \A i \in DOMAIN progress : progress[i] \in Nat
      BY PoolAssumption DEF Watermarks
    <2>6. Continues(registered, table')
      BY <2>1, <2>3, <2>5, RenewedContinues
    <2> QED BY <1>0, <2>1, <2>4, <2>6, ContinuesTransitive
  <1>6. ASSUME NEW l \in table.leases, NEW w \in Watermarks, Commit(l, w)
        PROVE  Continues(table, table')
    <2>1. w \in Nat
      BY PoolAssumption DEF Watermarks
    <2> QED BY <1>6, <2>1, CommittedContinues DEF Commit
  <1>7. ASSUME NEW l \in table.leases, NEW count \in BOOLEAN, ReleaseOne(l, count)
        PROVE  Continues(table, table')
    <2>1. {l} \in SUBSET table.leases
      OBVIOUS
    <2> QED BY <1>7, <2>1, ReclaimedContinues DEF ReleaseOne
  <1>8. ASSUME NEW c \in Cluster, NEW inc, NEW count \in BOOLEAN, ReleaseAll(c, inc, count)
        PROVE  Continues(table, table')
    <2>1. Holding(table, c) \in SUBSET table.leases
      BY DEF Holding
    <2> QED BY <1>8, <2>1, ReclaimedContinues DEF ReleaseAll
  <1>9. CASE Reap
    BY <1>9, ReclaimedContinues DEF Reap, Reaped
  <1>10. CASE AdvanceEpoch
    <2>1. table'.leases \subseteq table.leases /\ table'.seq = table.seq
      BY <1>0, <1>10 DEF AdvanceEpoch, Advanced, ResetEpoch, Table
    <2> QED BY <1>0, <2>1, FewerContinue
  <1>11. ASSUME NEW l \in table.leases, LeaseOverdue(l)
         PROVE  Continues(table, table')
    BY <1>11, OverdueContinues DEF LeaseOverdue
  <1>12. ASSUME NEW c \in Cluster, FallSilent(c)
         PROVE  Continues(table, table')
    <2>1. table'.leases = table.leases /\ table'.seq = table.seq
      BY <1>0, <1>12 DEF FallSilent, Table
    <2> QED BY <1>0, <2>1, FewerContinue
  <1> QED BY <1>1, <1>2, <1>3, <1>4, <1>5, <1>6, <1>7, <1>8, <1>9, <1>10, <1>11, <1>12 DEF Next

\* Watermarks of a living lease only grow and its end shrinks to no less than
\* its reported progress, however many clusters steal from it.
THEOREM StealsSpareProgress == Spec => StealSparesProgress
  <1> DEFINE Spared == \A l \in table.leases, m \in table'.leases : l.id = m.id =>
                         /\ l.cluster = m.cluster /\ l.start = m.start
                         /\ l.committed_end <= m.committed_end /\ l.progress_end <= m.progress_end
                         /\ Floor(l) <= m.end /\ m.end <= l.end
  <1>1. ASSUME Inv(table), Next
        PROVE  Spared
    <2>1. Continues(table, table') /\ Issued(table) /\ DisjointIn(table) /\ table \in Table
      BY <1>1, StepContinues, InvCoverage
    <2> SUFFICES ASSUME NEW l \in table.leases, NEW m \in table'.leases, l.id = m.id
                 PROVE  Successor(l, m)
      BY DEF Successor
    <2>2. l.id[3] <= table.seq /\ l.id[3] \in Nat /\ table.seq \in Nat
      BY <2>1 DEF Issued, Table, Lease
    <2>3. PICK k \in table.leases : Successor(k, m)
      BY <2>1, <2>2 DEF Continues
    <2>4. k = l
      BY <2>1, <2>3 DEF DisjointIn, Successor
    <2> QED BY <2>3, <2>4
  <1>2. Inv(table) /\ [Next]_table => [Spared]_table
    BY <1>1
  <1> QED BY <1>2, Invariance, PTL DEF Spec, StealSparesProgress

-----------------------------------------------------------------------------
(* The end of an epoch                                                     *)

\* Counters that reach num_blocks leave no position to train.
LEMMA CompleteMeansSettled ==
  ASSUME NEW t, Inv(t), EpochComplete(t), NEW b \in Blocks
  PROVE  t.state[b] \in {COMMITTED, QUARANTINED}
  <1> DEFINE C == InState(t, COMMITTED)
             Q == InState(t, QUARANTINED)
  <1>1. IsFiniteSet(C) /\ IsFiniteSet(Q) /\ C \cap Q = {}
    BY InStateFinite DEF InState, COMMITTED, QUARANTINED
  <1>2. t.committed = Cardinality(C) /\ t.quarantined = Cardinality(Q)
    BY InvCoverage DEF CountersIn
  <1>3. Cardinality(C) + Cardinality(Q) >= Cardinality(Blocks)
    BY <1>2, BlocksFinite DEF EpochComplete
  <1>4. C \cup Q \in SUBSET Blocks
    BY DEF InState
  <1>5. \A x \in C : t.state[x] = COMMITTED
    BY DEF InState
  <1>6. \A x \in Q : t.state[x] = QUARANTINED
    BY DEF InState
  <1> HIDE DEF C, Q
  <1>7. Cardinality(C \cup Q) = Cardinality(C) + Cardinality(Q)
    BY <1>1, DisjointCardinality
  <1>8. Cardinality(C \cup Q) <= Cardinality(Blocks)
    BY <1>4, BlocksFinite, FS_Subset
  <1>9. Cardinality(C \cup Q) \in Nat /\ Cardinality(Blocks) \in Nat
    BY <1>1, BlocksFinite, DisjointCardinality, FS_CardinalityType
  <1>10. C \cup Q = Blocks
    BY <1>3, <1>4, <1>7, <1>8, <1>9, BlocksFinite, FS_Subset
  <1> QED BY <1>5, <1>6, <1>10

\* What an acquire starts with is a later epoch only when the table, with its
\* overdue leases reaped, had nothing left.
LEMMA AcquireBaseEpoch ==
  ASSUME Inv(table), NEW c \in Cluster, AcquireBase(c).epoch # table.epoch
  PROVE  /\ EpochComplete(Registered(Reaped(table), c, NoIncarnation))
         /\ AcquireBase(c) = Advanced(Registered(Reaped(table), c, NoIncarnation))
  <1> DEFINE reaped == Reaped(table)
             registered == Registered(reaped, c, NoIncarnation)
  <1>1. Inv(reaped) /\ reaped \in Table /\ table \in Table
    BY ReapedInv, InvCoverage
  <1>2. reaped.epoch = table.epoch
    BY <1>1 DEF Reaped, Reclaimed, Table
  <1> HIDE DEF reaped
  <1>3. registered.epoch = reaped.epoch
    BY <1>1 DEF Registered, Table
  <1> HIDE DEF registered
  <1>4. AcquireBase(c) = IF EpochComplete(registered) /\ registered.leases = {}
                         THEN Advanced(registered) ELSE registered
    BY DEF AcquireBase, registered, reaped
  <1>5. EpochComplete(registered) /\ AcquireBase(c) = Advanced(registered)
    BY <1>2, <1>3, <1>4
  <1> QED BY <1>5 DEF registered, reaped

\* A position that a reap leaves settled was settled, or used up its attempts.
LEMMA ReapSettles ==
  ASSUME NEW t, Inv(t), NEW b \in Blocks, Reaped(t).state[b] \in {COMMITTED, QUARANTINED}
  PROVE  \/ t.state[b] \in {COMMITTED, QUARANTINED}
         \/ /\ \E l \in t.leases : l.overdue /\ b \in Outstanding(l)
            /\ MaxAttempts # 0 /\ t.attempts[b] + 1 >= MaxAttempts
  <1> DEFINE gone == {l \in t.leases : l.overdue}
             tail == UNION {Outstanding(l) : l \in gone}
             tried == [x \in Blocks |-> IF TRUE /\ x \in tail
                                        THEN t.attempts[x] + 1 ELSE t.attempts[x]]
             bad == {x \in tail : TRUE /\ Exhausted(tried[x])}
             r == Reaped(t)
  <1>1. t \in Table
    BY InvCoverage
  <1>2. r.state = Fill(Fill(t.state, tail \ bad, UNASSIGNED), bad, QUARANTINED)
    BY <1>1 DEF Reaped, Reclaimed, Table
  <1>3. \A x \in tail : \E l \in t.leases : l.overdue /\ x \in Outstanding(l)
    OBVIOUS
  <1>4. b \in bad => b \in tail /\ MaxAttempts # 0 /\ t.attempts[b] + 1 >= MaxAttempts
    BY DEF Exhausted
  <1> HIDE DEF r, tail, bad
  <1>5. r.state[b] = IF b \in bad THEN QUARANTINED
                     ELSE IF b \in tail THEN UNASSIGNED ELSE t.state[b]
    BY <1>2 DEF Fill
  <1>6. r.state[b] \in {COMMITTED, QUARANTINED}
    BY DEF r
  <1> QED BY <1>3, <1>4, <1>5, <1>6 DEF UNASSIGNED, COMMITTED, QUARANTINED

\* An acquire leaves an epoch only when every position of it is settled.
LEMMA AcquireBaseSkipsNothing ==
  ASSUME Inv(table), NEW c \in Cluster, AcquireBase(c).epoch # table.epoch, NEW b \in Blocks
  PROVE  \/ table.state[b] \in {COMMITTED, QUARANTINED}
         \/ /\ \E l \in table.leases : l.overdue /\ b \in Outstanding(l)
            /\ MaxAttempts # 0 /\ table.attempts[b] + 1 >= MaxAttempts
  <1>1. /\ EpochComplete(Registered(Reaped(table), c, NoIncarnation))
        /\ Inv(Registered(Reaped(table), c, NoIncarnation))
        /\ Reaped(table) \in Table
    BY AcquireBaseEpoch, ReapedInv, RegisteredInv, InvCoverage
  <1>2. Registered(Reaped(table), c, NoIncarnation).state[b] \in {COMMITTED, QUARANTINED}
    BY <1>1, CompleteMeansSettled
  <1>3. Registered(Reaped(table), c, NoIncarnation).state = Reaped(table).state
    BY <1>1 DEF Registered, Table
  <1> QED BY <1>2, <1>3, ReapSettles

\* Outside AdvanceEpoch and the acquires, the epoch stays.
LEMMA StepEpoch ==
  ASSUME Inv(table), Next, table'.epoch # table.epoch
  PROVE  \/ AdvanceEpoch
         \/ \E c \in Cluster : AcquireBase(c).epoch = table'.epoch
  <1>0. Inv(table) /\ table \in Table /\ Reaped(table) \in Table
    BY ReapedInv, InvCoverage
  <1>1. ASSUME NEW t \in Table, NEW gone, NEW count
        PROVE  Reclaimed(t, gone, count).epoch = t.epoch
    BY DEF Reclaimed, Table
  <1>2. ASSUME NEW c \in Cluster, NEW inc, Register(c, inc)
        PROVE  FALSE
    BY <1>0, <1>2 DEF Register, Registered, Table
  <1>3. ASSUME NEW c \in Cluster, AcquireFree(c)
        PROVE  AcquireBase(c).epoch = table'.epoch
    <2> DEFINE t == AcquireBase(c)
    <2>1. PICK spans : /\ t \in Table
                       /\ table' = Granted([t EXCEPT !.free = @ \ Covered(spans)], c, spans)
      BY <1>3, AcquireFreeFacts
    <2> HIDE DEF t
    <2>2. table'.epoch = t.epoch
      BY <2>1 DEF Granted, Table
    <2> QED BY <2>2 DEF t
  <1>4. ASSUME NEW c \in Cluster, AcquireStolen(c)
        PROVE  AcquireBase(c).epoch = table'.epoch
    <2> DEFINE t == AcquireBase(c)
    <2>1. PICK victims, cuts :
            /\ t \in Table
            /\ table' = Granted(Robbed(t, victims, cuts), c, StolenSpans(victims, cuts))
      BY <1>4, AcquireStolenFacts
    <2> HIDE DEF t
    <2>2. table'.epoch = t.epoch
      BY <2>1 DEF Granted, Robbed, Table
    <2> QED BY <2>2 DEF t
  <1>5. ASSUME NEW c \in Cluster, AcquireNothing(c)
        PROVE  AcquireBase(c).epoch = table'.epoch
    BY <1>5 DEF AcquireNothing
  <1>6. ASSUME NEW c \in Cluster, NEW progress, Heartbeat(c, progress)
        PROVE  FALSE
    <2> DEFINE reaped == Reaped(table)
    <2>1. reaped \in Table /\ reaped.epoch = table.epoch
      BY <1>0, <1>1 DEF Reaped
    <2> HIDE DEF reaped
    <2>2. Registered(reaped, c, NoIncarnation).epoch = table.epoch
      BY <2>1 DEF Registered, Table
    <2>3. table'.epoch = Registered(reaped, c, NoIncarnation).epoch
      BY <1>6, <2>1 DEF Heartbeat, Renewed, Registered, Table, reaped
    <2> QED BY <2>2, <2>3
  <1>7. ASSUME NEW l \in table.leases, NEW w, Commit(l, w)
        PROVE  FALSE
    BY <1>0, <1>7 DEF Commit, Committed, Table
  <1>8. ASSUME NEW l \in table.leases, NEW count, ReleaseOne(l, count)
        PROVE  FALSE
    BY <1>0, <1>1, <1>8 DEF ReleaseOne
  <1>9. ASSUME NEW c, NEW inc, NEW count, ReleaseAll(c, inc, count)
        PROVE  FALSE
    BY <1>0, <1>1, <1>9 DEF ReleaseAll
  <1>10. CASE Reap
    BY <1>0, <1>1, <1>10 DEF Reap, Reaped
  <1>11. ASSUME NEW l \in table.leases, LeaseOverdue(l)
         PROVE  FALSE
    BY <1>0, <1>11 DEF LeaseOverdue, Table
  <1>12. ASSUME NEW c \in Cluster, FallSilent(c)
         PROVE  FALSE
    BY <1>0, <1>12 DEF FallSilent, Table
  <1> QED BY <1>2, <1>3, <1>4, <1>5, <1>6, <1>7, <1>8, <1>9, <1>10, <1>11, <1>12 DEF Next

\* An acquire never moves on while a position of its epoch is left to train,
\* whatever its own reap reclaims.
THEOREM EpochsSkipNothing == Spec => AcquireSkipsNothing
  <1> DEFINE NothingLeft(b) ==
               \/ table.state[b] \in {COMMITTED, QUARANTINED}
               \/ /\ \E l \in table.leases : l.overdue /\ b \in Outstanding(l)
                  /\ MaxAttempts # 0 /\ table.attempts[b] + 1 >= MaxAttempts
             Skips == (table'.epoch # table.epoch /\ ~AdvanceEpoch) => \A b \in Blocks : NothingLeft(b)
  <1>1. ASSUME Inv(table), Next
        PROVE  Skips
    <2> SUFFICES ASSUME table'.epoch # table.epoch, ~AdvanceEpoch, NEW b \in Blocks
                 PROVE  NothingLeft(b)
      OBVIOUS
    <2>1. PICK c \in Cluster : AcquireBase(c).epoch = table'.epoch
      BY <1>1, StepEpoch
    <2> QED BY <1>1, <2>1, AcquireBaseSkipsNothing
  <1>2. Inv(table) /\ [Next]_table => [Skips]_table
    BY <1>1
  <1> QED BY <1>2, Invariance, PTL DEF Spec, AcquireSkipsNothing

-----------------------------------------------------------------------------
(* Who holds what                                                          *)

\* A position in the pool has no holder, one at risk has the cluster of its
\* lease, and a settled one is Done or Bad.
LEMMA HolderValue ==
  ASSUME NEW t, Inv(t), NEW b \in Blocks
  PROVE  /\ t.state[b] = UNASSIGNED => HolderOf(t)[b] = Free
         /\ t.state[b] = COMMITTED => HolderOf(t)[b] = Done
         /\ t.state[b] = QUARANTINED => HolderOf(t)[b] = Bad
         /\ \A l \in t.leases : b \in Outstanding(l) => HolderOf(t)[b] = l.cluster
         /\ t.state[b] = LEASED =>
              \E l \in t.leases : b \in Outstanding(l) /\ HolderOf(t)[b] = l.cluster
  <1> DEFINE owner == CHOOSE l \in t.leases : b \in Outstanding(l)
  <1>1. t \in Table /\ CoverageIn(t) /\ DisjointIn(t)
    BY InvCoverage
  <1>2. HolderOf(t)[b] = CASE t.state[b] = UNASSIGNED -> Free
                           [] t.state[b] = COMMITTED -> Done
                           [] t.state[b] = QUARANTINED -> Bad
                           [] OTHER -> owner.cluster
    BY Zenon DEF HolderOf
  <1>3. ASSUME NEW l \in t.leases, b \in Outstanding(l)
        PROVE  owner = l
    <2>1. owner \in t.leases /\ b \in Outstanding(owner)
      BY <1>3, Zenon
    <2> HIDE DEF owner
    <2> QED BY <1>1, <1>3, <2>1 DEF DisjointIn
  <1>4. t.state[b] = LEASED <=> \E l \in t.leases : b \in Outstanding(l)
    BY <1>1 DEF CoverageIn
  <1> HIDE DEF owner
  <1>5. t.state[b] = LEASED => HolderOf(t)[b] = owner.cluster
    BY <1>2 DEF UNASSIGNED, LEASED, COMMITTED, QUARANTINED
  <1>6. /\ t.state[b] = UNASSIGNED => HolderOf(t)[b] = Free
        /\ t.state[b] = COMMITTED => HolderOf(t)[b] = Done
        /\ t.state[b] = QUARANTINED => HolderOf(t)[b] = Bad
    BY <1>2 DEF UNASSIGNED, COMMITTED, QUARANTINED
  <1> QED BY <1>3, <1>4, <1>5, <1>6

\* Every position has a holder.
LEMMA HolderType ==
  ASSUME NEW t, Inv(t)
  PROVE  HolderOf(t) \in [Blocks -> Ledger!Holder]
  <1>1. t \in Table
    BY InvCoverage
  <1>2. ASSUME NEW b \in Blocks
        PROVE  HolderOf(t)[b] \in Ledger!Holder
    <2>1. t.state[b] \in BlockState
      BY <1>1 DEF Table
    <2>2. \A l \in t.leases : l.cluster \in Cluster
      BY <1>1 DEF Table, Lease
    <2> QED BY <2>1, <2>2, HolderValue DEF BlockState, Ledger!Holder
  <1>3. HolderOf(t) = [b \in Blocks |-> HolderOf(t)[b]]
    BY DEF HolderOf
  <1> QED BY <1>2, <1>3

\* One position: same holder, as long as its state is the same and its lease
\* still covers it.
LEMMA SameHolder ==
  ASSUME NEW t, Inv(t), NEW r, Inv(r), NEW b \in Blocks, r.state[b] = t.state[b],
         \A l \in t.leases : b \in Outstanding(l) =>
            \E m \in r.leases : b \in Outstanding(m) /\ m.cluster = l.cluster
  PROVE  HolderOf(r)[b] = HolderOf(t)[b]
  <1>1. t.state[b] \in BlockState
    BY InvCoverage DEF Table
  <1>2. CASE t.state[b] = LEASED
    <2>1. PICK l \in t.leases : b \in Outstanding(l) /\ HolderOf(t)[b] = l.cluster
      BY <1>2, HolderValue
    <2>2. PICK m \in r.leases : b \in Outstanding(m) /\ m.cluster = l.cluster
      BY <2>1
    <2>3. HolderOf(r)[b] = m.cluster
      BY <2>2, HolderValue
    <2> QED BY <2>1, <2>2, <2>3
  <1>3. CASE t.state[b] \in {UNASSIGNED, COMMITTED, QUARANTINED}
    BY <1>3, HolderValue
  <1> QED BY <1>1, <1>2, <1>3 DEF BlockState

\* All positions: leases change their watermarks or records change.
LEMMA SameHolders ==
  ASSUME NEW t, Inv(t), NEW r, Inv(r), r.state = t.state,
         \A l \in t.leases : \E m \in r.leases :
            Outstanding(l) \subseteq Outstanding(m) /\ m.cluster = l.cluster
  PROVE  HolderOf(r) = HolderOf(t)
  <1>1. \A b \in Blocks : HolderOf(r)[b] = HolderOf(t)[b]
    BY SameHolder
  <1>2. /\ HolderOf(r) = [b \in Blocks |-> HolderOf(r)[b]]
        /\ HolderOf(t) = [b \in Blocks |-> HolderOf(t)[b]]
    BY DEF HolderOf
  <1> QED BY <1>1, <1>2

\* A holder that is gone gives a position back, or it is given up on.
Reclaims(old, new) == new = old \/ (old \in Cluster /\ new \in {Free, Bad})

\* A cluster is given free positions, or some that were held.
Gives(old, new, c) == new = old \/ (old \in Cluster \cup {Free} /\ new = c)

LEMMA ReclaimedHolders ==
  ASSUME NEW t, Inv(t), NEW gone \in SUBSET t.leases, NEW count \in BOOLEAN, NEW b \in Blocks
  PROVE  Reclaims(HolderOf(t)[b], HolderOf(Reclaimed(t, gone, count))[b])
  <1> DEFINE tail == UNION {Outstanding(l) : l \in gone}
             tried == [x \in Blocks |-> IF count /\ x \in tail
                                        THEN t.attempts[x] + 1 ELSE t.attempts[x]]
             bad == {x \in tail : count /\ Exhausted(tried[x])}
             r == Reclaimed(t, gone, count)
  <1>1. t \in Table /\ Inv(r)
    BY InvCoverage, ReclaimedInv
  <1>2. /\ r.state = Fill(Fill(t.state, tail \ bad, UNASSIGNED), bad, QUARANTINED)
        /\ r.leases = t.leases \ gone
    BY <1>1 DEF Reclaimed, Table
  <1>3. bad \subseteq tail
    OBVIOUS
  <1>4. \A x \in tail : \E l \in gone : x \in Outstanding(l)
    OBVIOUS
  <1>5. \A l \in gone : Outstanding(l) \subseteq tail
    OBVIOUS
  <1> HIDE DEF r, tail, bad
  <1>6. r.state[b] = IF b \in bad THEN QUARANTINED
                     ELSE IF b \in tail THEN UNASSIGNED ELSE t.state[b]
    BY <1>2 DEF Fill
  <1>7. CASE b \in tail
    <2>1. PICK l \in gone : b \in Outstanding(l)
      BY <1>4, <1>7
    <2>2. HolderOf(t)[b] = l.cluster /\ l.cluster \in Cluster
      BY <1>1, <2>1, HolderValue DEF Table, Lease
    <2>3. HolderOf(r)[b] \in {Free, Bad}
      BY <1>1, <1>6, <1>7, HolderValue
    <2> QED BY <2>2, <2>3 DEF Reclaims, r
  <1>8. CASE b \notin tail
    <2>1. r.state[b] = t.state[b]
      BY <1>3, <1>6, <1>8
    <2>2. \A l \in t.leases : b \in Outstanding(l) => l \in r.leases
      BY <1>2, <1>5, <1>8
    <2>3. HolderOf(r)[b] = HolderOf(t)[b]
      BY <1>1, <2>1, <2>2, SameHolder
    <2> QED BY <2>3 DEF Reclaims, r
  <1> QED BY <1>7, <1>8

LEMMA ReapedHolders ==
  ASSUME NEW t, Inv(t)
  PROVE  /\ Reaped(t).epoch = t.epoch
         /\ \A b \in Blocks : Reclaims(HolderOf(t)[b], HolderOf(Reaped(t))[b])
  <1> DEFINE gone == {l \in t.leases : l.overdue}
  <1>1. t \in Table /\ gone \in SUBSET t.leases
    BY InvCoverage
  <1>2. Reaped(t) = Reclaimed(t, gone, TRUE)
    BY DEF Reaped
  <1> HIDE DEF gone
  <1>3. Reaped(t).epoch = t.epoch
    BY <1>1, <1>2 DEF Reclaimed, Table
  <1>4. \A b \in Blocks : Reclaims(HolderOf(t)[b], HolderOf(Reaped(t))[b])
    BY <1>1, <1>2, ReclaimedHolders
  <1> QED BY <1>3, <1>4

\* What a grant covers is held by the grantee; nothing else changes state, and
\* no lease goes.
LEMMA GrantedHolders ==
  ASSUME NEW t, NEW c \in Cluster, NEW spans, WorkVector(spans), InvBut(t, Covered(spans)),
         NEW b \in Blocks
  PROVE  LET r == Granted(t, c, spans)
         IN  /\ Inv(r)
             /\ b \in Covered(spans) => HolderOf(r)[b] = c
             /\ b \notin Covered(spans) => r.state[b] = t.state[b]
             /\ t.leases \subseteq r.leases
  <1> DEFINE n == Len(spans)
             N(i) == [id |-> <<t.epoch, spans[i][1], t.seq + i>>,
                      cluster |-> c, epoch |-> t.epoch,
                      start |-> spans[i][1], end |-> spans[i][2],
                      committed_end |-> spans[i][1], progress_end |-> spans[i][1],
                      overdue |-> FALSE]
             r == Granted(t, c, spans)
  <1>1. Inv(r) /\ t \in Table
    BY GrantedInv DEF InvBut
  <1>2. /\ r.leases = t.leases \cup {N(i) : i \in 1 .. n}
        /\ r.state = Fill(t.state, Covered(spans), LEASED)
    BY <1>1 DEF Granted, Table
  <1>3. \A i : N(i).cluster = c /\ Outstanding(N(i)) = spans[i][1] .. spans[i][2] - 1
    BY DEF Outstanding
  <1>4. DOMAIN spans = 1 .. n
    BY DEF WorkVector
  <1> HIDE DEF r, N, n
  <1>5. ASSUME b \in Covered(spans)
        PROVE  HolderOf(r)[b] = c
    <2>1. PICK i \in 1 .. n : b \in spans[i][1] .. spans[i][2] - 1
      BY <1>4, <1>5 DEF Covered
    <2>2. N(i) \in r.leases /\ b \in Outstanding(N(i)) /\ N(i).cluster = c
      BY <1>2, <1>3, <2>1
    <2> QED BY <1>1, <2>2, HolderValue
  <1>6. b \notin Covered(spans) => r.state[b] = t.state[b]
    BY <1>2 DEF Fill
  <1> QED BY <1>1, <1>2, <1>5, <1>6 DEF r

\* A grant from the pool gives free positions and moves no other.
LEMMA FreeGrantHolders ==
  ASSUME NEW t, Inv(t), NEW c \in Cluster, NEW spans, WorkVector(spans),
         Covered(spans) \subseteq t.free, NEW b \in Blocks
  PROVE  LET r == Granted([t EXCEPT !.free = @ \ Covered(spans)], c, spans)
         IN  Inv(r) /\ Gives(HolderOf(t)[b], HolderOf(r)[b], c)
  <1> DEFINE taken == [t EXCEPT !.free = @ \ Covered(spans)]
             r == Granted(taken, c, spans)
  <1>1. InvBut(taken, Covered(spans))
    BY TakenInv
  <1>2. t \in Table /\ CoverageIn(t)
    BY InvCoverage
  <1>3. taken.state = t.state /\ taken.leases = t.leases
    BY <1>2 DEF Table
  <1> HIDE DEF taken
  <1>4. /\ Inv(r)
        /\ b \in Covered(spans) => HolderOf(r)[b] = c
        /\ b \notin Covered(spans) => r.state[b] = taken.state[b]
        /\ taken.leases \subseteq r.leases
    BY <1>1, GrantedHolders
  <1> HIDE DEF r
  <1>5. CASE b \in Covered(spans)
    <2>1. t.state[b] = UNASSIGNED
      BY <1>2, <1>5 DEF CoverageIn
    <2> QED BY <1>4, <1>5, <2>1, HolderValue DEF Gives, r, taken
  <1>6. CASE b \notin Covered(spans)
    <2>1. HolderOf(r)[b] = HolderOf(t)[b]
      BY <1>3, <1>4, <1>6, SameHolder
    <2> QED BY <1>4, <2>1 DEF Gives, r, taken
  <1> QED BY <1>5, <1>6

\* A steal moves positions between clusters and leaves the rest of each victim.
LEMMA StealHolders ==
  ASSUME NEW t, Inv(t), NEW c \in Cluster, t.free = {}, NEW n \in Nat \ {0},
         NEW victims \in [1 .. n -> t.leases], NEW cuts \in [1 .. n -> Nat \ {0}],
         \A i \in 1 .. n : Floor(victims[i]) < victims[i].end - cuts[i],
         WorkVector(StolenSpans(victims, cuts)),
         InvBut(Robbed(t, victims, cuts), Covered(StolenSpans(victims, cuts))),
         NEW b \in Blocks
  PROVE  LET r == Granted(Robbed(t, victims, cuts), c, StolenSpans(victims, cuts))
         IN  Inv(r) /\ Gives(HolderOf(t)[b], HolderOf(r)[b], c)
  <1> DEFINE spans == StolenSpans(victims, cuts)
             robbed == Robbed(t, victims, cuts)
             r == Granted(robbed, c, spans)
  <1>1. t \in Table /\ CoverageIn(t)
    BY InvCoverage
  <1>2. /\ robbed.state = t.state
        /\ robbed.leases = (t.leases \ {victims[i] : i \in 1 .. n})
                           \cup {Cut(victims[i], cuts[i]) : i \in 1 .. n}
    BY <1>1 DEF Robbed, Table
  <1>3. ASSUME NEW i \in 1 .. n, b \in Outstanding(victims[i]), b \notin Covered(spans)
        PROVE  b \in Outstanding(Cut(victims[i], cuts[i]))
                 /\ Cut(victims[i], cuts[i]).cluster = victims[i].cluster
    <2> DEFINE l == victims[i]
               k == cuts[i]
    <2>1. l \in Lease /\ k \in Nat
      BY <1>1 DEF Table
    <2>2. DOMAIN spans = 1 .. n /\ spans[i] = <<l.end - k, l.end>>
      BY DEF StolenSpans
    <2>3. b \notin l.end - k .. l.end - 1
      BY <1>3, <2>2 DEF Covered
    <2>4. b \in Outstanding(l)
      BY <1>3
    <2> HIDE DEF l, k
    <2>5. b \in Outstanding(Cut(l, k)) /\ Cut(l, k).cluster = l.cluster
      BY <2>1, <2>3, <2>4 DEF Outstanding, Cut, Lease
    <2> QED BY <2>5 DEF l, k
  <1>4. InvBut(robbed, Covered(spans)) /\ WorkVector(spans)
    OBVIOUS
  <1> HIDE DEF robbed, spans
  <1>5. /\ Inv(r)
        /\ b \in Covered(spans) => HolderOf(r)[b] = c
        /\ b \notin Covered(spans) => r.state[b] = robbed.state[b]
        /\ robbed.leases \subseteq r.leases
    BY <1>4, GrantedHolders
  <1> HIDE DEF r
  <1>6. CASE b \in Covered(spans)
    <2>1. robbed.state[b] \in {UNASSIGNED, LEASED}
      BY <1>4, <1>6 DEF InvBut, CoverageBut
    <2>2. t.state[b] = LEASED
      BY <1>1, <1>2, <2>1 DEF CoverageIn
    <2>3. HolderOf(t)[b] \in Cluster
      <3>1. PICK l \in t.leases : HolderOf(t)[b] = l.cluster
        BY <2>2, HolderValue
      <3> QED BY <1>1, <3>1 DEF Table, Lease
    <2>4. Inv(r) /\ Gives(HolderOf(t)[b], HolderOf(r)[b], c)
      BY <1>5, <1>6, <2>3 DEF Gives
    <2> QED BY <2>4 DEF r, robbed, spans
  <1>7. CASE b \notin Covered(spans)
    <2>1. ASSUME NEW l \in t.leases, b \in Outstanding(l)
          PROVE  \E m \in robbed.leases : b \in Outstanding(m) /\ m.cluster = l.cluster
      <3>1. CASE l \in {victims[i] : i \in 1 .. n}
        BY <1>2, <1>3, <1>7, <2>1, <3>1
      <3>2. CASE l \notin {victims[i] : i \in 1 .. n}
        BY <1>2, <2>1, <3>2
      <3> QED BY <3>1, <3>2
    <2>2. \A l \in t.leases : b \in Outstanding(l) =>
            \E m \in r.leases : b \in Outstanding(m) /\ m.cluster = l.cluster
      BY <1>5, <2>1
    <2>3. HolderOf(r)[b] = HolderOf(t)[b]
      BY <1>2, <1>5, <1>7, <2>2, SameHolder
    <2>4. Inv(r) /\ Gives(HolderOf(t)[b], HolderOf(r)[b], c)
      BY <1>5, <2>3 DEF Gives
    <2> QED BY <2>4 DEF r, robbed, spans
  <1> QED BY <1>6, <1>7

\* A commit settles positions of its own lease and moves no other.
LEMMA CommittedHolders ==
  ASSUME NEW t, Inv(t), NEW l \in t.leases, NEW watermark \in Nat, NEW b \in Blocks
  PROVE  Ledger!MaySettle(HolderOf(t)[b], HolderOf(Committed(t, l, watermark))[b], l.cluster)
  <1> DEFINE through == Settled(l, watermark)
             done == l.committed_end .. through - 1
             kept == [l EXCEPT !.committed_end = through,
                               !.progress_end = IF through - l.committed_end > 0
                                                THEN Larger(@, through) ELSE @]
             r == Committed(t, l, watermark)
  <1>1. t \in Table /\ Ordered(t) /\ Inv(r)
    BY InvCoverage, CommittedInv
  <1>2. /\ r.state = Fill(t.state, done, COMMITTED)
        /\ r.leases = (t.leases \ {l}) \cup (IF through >= l.end THEN {} ELSE {kept})
    BY <1>1 DEF Committed, Table
  <1>3. l \in Lease /\ l.committed_end < l.end
    BY <1>1 DEF Table, Ordered
  <1>4. through \in Nat /\ l.committed_end <= through /\ through <= l.end
    BY <1>3 DEF Settled, Lease, Larger, Smaller
  <1> HIDE DEF through, r
  <1>5. Outstanding(kept) = Outstanding(l) \ done /\ kept.cluster = l.cluster
    BY <1>3, <1>4 DEF Outstanding, Lease
  <1>6. done \subseteq Outstanding(l)
    BY <1>3, <1>4 DEF Outstanding, Lease
  <1>7. through >= l.end => Outstanding(l) \subseteq done
    BY <1>3, <1>4 DEF Outstanding, Lease
  <1> HIDE DEF done, kept
  <1>8. CASE b \in done
    <2>1. HolderOf(t)[b] = l.cluster
      BY <1>6, <1>8, HolderValue
    <2>2. r.state[b] = COMMITTED
      BY <1>2, <1>8 DEF Fill
    <2> QED BY <1>1, <2>1, <2>2, HolderValue DEF Ledger!MaySettle, r
  <1>9. CASE b \notin done
    <2>1. r.state[b] = t.state[b]
      BY <1>2, <1>9 DEF Fill
    <2>2. ASSUME NEW m \in t.leases, b \in Outstanding(m)
          PROVE  \E k \in r.leases : b \in Outstanding(k) /\ k.cluster = m.cluster
      <3>1. CASE m = l
        BY <1>2, <1>5, <1>7, <1>9, <2>2, <3>1
      <3>2. CASE m # l
        BY <1>2, <2>2, <3>2
      <3> QED BY <3>1, <3>2
    <2>3. HolderOf(r)[b] = HolderOf(t)[b]
      BY <1>1, <2>1, <2>2, SameHolder
    <2> QED BY <2>3 DEF Ledger!MaySettle, r
  <1> QED BY <1>8, <1>9

-----------------------------------------------------------------------------
(* The refinement                                                          *)

\* Before it grants anything, an acquire has reclaimed what was overdue, or
\* has started an epoch in which everything is free.
LEMMA AcquireBaseHolders ==
  ASSUME Inv(table), NEW c \in Cluster
  PROVE  LET t == AcquireBase(c)
         IN  \/ /\ t.epoch = table.epoch
                /\ \A b \in Blocks : Reclaims(HolderOf(table)[b], HolderOf(t)[b])
             \/ /\ t.epoch = table.epoch + 1
                /\ t.free = Blocks
                /\ \A b \in Blocks : HolderOf(t)[b] = Free
  <1> DEFINE reaped == Reaped(table)
             registered == Registered(reaped, c, NoIncarnation)
             t == AcquireBase(c)
  <1>1. /\ Inv(reaped) /\ Inv(registered) /\ Inv(t)
        /\ table \in Table /\ reaped \in Table
    BY ReapedInv, RegisteredInv, AcquireBaseInv, InvCoverage
  <1>2. /\ reaped.epoch = table.epoch
        /\ \A b \in Blocks : Reclaims(HolderOf(table)[b], HolderOf(reaped)[b])
    BY ReapedHolders
  <1>3. t \in {registered, Advanced(registered)}
    BY DEF AcquireBase
  <1> HIDE DEF reaped
  <1>4. /\ registered.epoch = reaped.epoch /\ registered.state = reaped.state
        /\ registered.leases = reaped.leases
    BY <1>1 DEF Registered, Table
  <1>5. registered \in Table
    BY <1>1, InvCoverage
  <1> HIDE DEF registered, t
  <1>6. HolderOf(registered) = HolderOf(reaped)
    BY <1>1, <1>4, SameHolders
  <1>7. CASE t = registered
    BY <1>2, <1>4, <1>6, <1>7 DEF t
  <1>8. CASE t = ResetEpoch(registered, registered.epoch + 1)
    <2>1. /\ t.epoch = table.epoch + 1 /\ t.free = Blocks
          /\ t.state = [b \in Blocks |-> UNASSIGNED]
      BY <1>2, <1>4, <1>5, <1>8 DEF ResetEpoch, Table
    <2>2. \A b \in Blocks : HolderOf(t)[b] = Free
      BY <1>1, <2>1, HolderValue
    <2> QED BY <2>1, <2>2 DEF t
  <1> QED BY <1>3, <1>7, <1>8 DEF Advanced

\* A reclaim and a grant in one step are one assignment of the ledger.
LEMMA ReclaimThenGive ==
  ASSUME NEW c \in Cluster, NEW old, NEW mid, NEW new, Reclaims(old, mid), Gives(mid, new, c)
  PROVE  Ledger!MayAssign(old, new, c)
  BY DEF Reclaims, Gives, Ledger!MayAssign

\* So is what an acquire does when it grants, except at the end of an epoch.
LEMMA GrantRefines ==
  ASSUME Inv(table), Inv(table'), NEW c \in Cluster,
         AcquireBase(c).epoch = table'.epoch,
         \A b \in Blocks : Gives(HolderOf(AcquireBase(c))[b], HolderOf(table')[b], c)
  PROVE  Ledger!Next
  <1> DEFINE t == AcquireBase(c)
             old == HolderOf(table)
             mid == HolderOf(t)
             new == HolderOf(table')
  <1>1. new \in [Blocks -> Ledger!Holder]
    BY HolderType
  <1>2. \A b \in Blocks : Gives(mid[b], new[b], c)
    OBVIOUS
  <1>3. \/ t.epoch = table.epoch /\ \A b \in Blocks : Reclaims(old[b], mid[b])
        \/ t.epoch = table.epoch + 1 /\ \A b \in Blocks : mid[b] = Free
    BY AcquireBaseHolders
  <1>4. t.epoch = table'.epoch
    OBVIOUS
  <1>5. CASE t.epoch = table.epoch /\ \A b \in Blocks : Reclaims(old[b], mid[b])
    <2>1. \A b \in Blocks : Ledger!MayAssign(old[b], new[b], c)
      BY <1>2, <1>5, ReclaimThenGive
    <2>2. Ledger!Assign(c)
      BY <1>1, <1>4, <1>5, <2>1 DEF Ledger!Assign
    <2> QED BY <2>2 DEF Ledger!Next
  <1>6. CASE t.epoch = table.epoch + 1 /\ \A b \in Blocks : mid[b] = Free
    <2>1. \A b \in Blocks : new[b] \in {Free, c}
      BY <1>2, <1>6 DEF Gives
    <2>2. new \in [Blocks -> {Free, c}]
      BY <1>1, <2>1
    <2>3. Ledger!NewEpoch(c)
      BY <1>4, <1>6, <2>2 DEF Ledger!NewEpoch
    <2> QED BY <2>3 DEF Ledger!Next
  <1> QED BY <1>3, <1>5, <1>6

\* A step that only takes positions away from leases is an assignment to
\* nobody in particular.
LEMMA ReclaimRefines ==
  ASSUME Inv(table), NEW gone \in SUBSET table.leases, gone # {}, NEW count \in BOOLEAN,
         table' = Reclaimed(table, gone, count)
  PROVE  Ledger!Next
  <1> DEFINE old == HolderOf(table)
             new == HolderOf(table')
  <1>1. PICK l \in gone : TRUE
    OBVIOUS
  <1>2. table \in Table /\ l.cluster \in Cluster
    BY InvCoverage DEF Table, Lease
  <1>3. table'.epoch = table.epoch
    BY <1>2 DEF Reclaimed, Table
  <1>4. Inv(table')
    BY ReclaimedInv
  <1>5. new \in [Blocks -> Ledger!Holder]
    BY <1>4, HolderType
  <1>6. \A b \in Blocks : Reclaims(old[b], new[b])
    BY ReclaimedHolders
  <1>7. \A b \in Blocks : Ledger!MayAssign(old[b], new[b], l.cluster)
    BY <1>6 DEF Reclaims, Ledger!MayAssign
  <1>8. Ledger!Assign(l.cluster)
    BY <1>3, <1>5, <1>7 DEF Ledger!Assign
  <1> QED BY <1>2, <1>8 DEF Ledger!Next

\* Every step of the lease table is a step the ledger allows.
LEMMA StepRefines ==
  ASSUME Inv(table), Next
  PROVE  Ledger!Next \/ UNCHANGED Ledger!vars
  <1>0. Inv(table') /\ table \in Table /\ table' \in Table
    BY StepInv, InvCoverage
  <1>1. ASSUME table'.epoch = table.epoch, HolderOf(table') = HolderOf(table)
        PROVE  UNCHANGED Ledger!vars
    BY <1>1 DEF Ledger!vars
  <1>2. ASSUME NEW c \in Cluster, NEW inc \in Incarnation \cup {NoIncarnation}, Register(c, inc)
        PROVE  UNCHANGED Ledger!vars
    <2>1. /\ table'.epoch = table.epoch /\ table'.state = table.state
          /\ table'.leases = table.leases
      BY <1>0, <1>2 DEF Register, Registered, Table
    <2> QED BY <1>0, <1>1, <2>1, SameHolders
  <1>3. ASSUME NEW c \in Cluster, AcquireFree(c)
        PROVE  Ledger!Next
    <2> DEFINE t == AcquireBase(c)
    <2>1. PICK spans :
            /\ Inv(t) /\ t \in Table /\ WorkVector(spans) /\ Covered(spans) \subseteq t.free
            /\ table' = Granted([t EXCEPT !.free = @ \ Covered(spans)], c, spans)
      BY <1>3, AcquireFreeFacts
    <2> HIDE DEF t
    <2>2. \A b \in Blocks : Gives(HolderOf(t)[b], HolderOf(table')[b], c)
      BY <2>1, FreeGrantHolders
    <2>3. t.epoch = table'.epoch
      BY <2>1 DEF Granted, Table
    <2> QED BY <1>0, <2>2, <2>3, GrantRefines DEF t
  <1>4. ASSUME NEW c \in Cluster, AcquireStolen(c)
        PROVE  Ledger!Next
    <2> DEFINE t == AcquireBase(c)
    <2>1. PICK n \in Nat \ {0} :
            /\ Inv(t) /\ t \in Table /\ t.free = {}
            /\ \E victims \in [1 .. n -> t.leases], cuts \in [1 .. n -> Nat \ {0}] :
                 /\ \A i \in 1 .. n : Floor(victims[i]) < victims[i].end - cuts[i]
                 /\ WorkVector(StolenSpans(victims, cuts))
                 /\ InvBut(Robbed(t, victims, cuts), Covered(StolenSpans(victims, cuts)))
                 /\ table' = Granted(Robbed(t, victims, cuts), c, StolenSpans(victims, cuts))
      BY <1>4, AcquireStolenFacts
    <2>2. PICK victims \in [1 .. n -> t.leases], cuts \in [1 .. n -> Nat \ {0}] :
            /\ \A i \in 1 .. n : Floor(victims[i]) < victims[i].end - cuts[i]
            /\ WorkVector(StolenSpans(victims, cuts))
            /\ InvBut(Robbed(t, victims, cuts), Covered(StolenSpans(victims, cuts)))
            /\ table' = Granted(Robbed(t, victims, cuts), c, StolenSpans(victims, cuts))
      BY <2>1
    <2> HIDE DEF t
    <2>3. \A b \in Blocks : Gives(HolderOf(t)[b], HolderOf(table')[b], c)
      BY <2>1, <2>2, StealHolders
    <2>4. t.epoch = table'.epoch
      BY <2>1, <2>2 DEF Granted, Robbed, Table
    <2> QED BY <1>0, <2>3, <2>4, GrantRefines DEF t
  <1>5. ASSUME NEW c \in Cluster, AcquireNothing(c)
        PROVE  Ledger!Next
    <2>1. table' = AcquireBase(c)
      BY <1>5 DEF AcquireNothing
    <2> QED BY <1>0, <2>1, GrantRefines DEF Gives
  <1>6. ASSUME NEW c \in Cluster, NEW held \in SUBSET Holding(table, c),
               NEW progress \in [{l.id : l \in held} -> Watermarks], Heartbeat(c, progress)
        PROVE  Ledger!Next
    <2> DEFINE reaped == Reaped(table)
               registered == Registered(reaped, c, NoIncarnation)
    <2>1. /\ Inv(reaped) /\ Inv(registered) /\ reaped \in Table /\ registered \in Table
      BY ReapedInv, RegisteredInv, InvCoverage
    <2>2. /\ reaped.epoch = table.epoch
          /\ \A b \in Blocks : Reclaims(HolderOf(table)[b], HolderOf(reaped)[b])
      BY ReapedHolders
    <2> HIDE DEF reaped
    <2>3. /\ registered.epoch = reaped.epoch /\ registered.state = reaped.state
          /\ registered.leases = reaped.leases
      BY <2>1 DEF Registered, Table
    <2>4. table' = Renewed(registered, c, progress)
      BY <1>6 DEF Heartbeat, reaped
    <2> HIDE DEF registered
    <2>5. HolderOf(registered) = HolderOf(reaped)
      BY <2>1, <2>3, SameHolders
    <2> DEFINE Mine(l) == l.cluster = c /\ l.epoch = registered.epoch /\ l.id \in DOMAIN progress
               Renew(l) == [l EXCEPT !.progress_end = Reported(l, progress[l.id]),
                                     !.overdue = FALSE]
    <2>6. /\ table'.epoch = registered.epoch /\ table'.state = registered.state
          /\ table'.leases = {l \in registered.leases : ~Mine(l)}
                             \cup {Renew(l) : l \in {m \in registered.leases : Mine(m)}}
      BY <2>1, <2>4 DEF Renewed, Table
    <2>7. \A l \in registered.leases :
            Outstanding(Renew(l)) = Outstanding(l) /\ Renew(l).cluster = l.cluster
      BY <2>1 DEF Outstanding, Table, Lease
    <2> HIDE DEF Mine, Renew
    <2>8. \A l \in registered.leases : \E m \in table'.leases :
            Outstanding(l) \subseteq Outstanding(m) /\ m.cluster = l.cluster
      BY <2>6, <2>7
    <2>9. HolderOf(table') = HolderOf(registered)
      BY <1>0, <2>1, <2>6, <2>8, SameHolders
    <2> DEFINE old == HolderOf(table)
               new == HolderOf(table')
    <2>10. new \in [Blocks -> Ledger!Holder]
      BY <1>0, HolderType
    <2>11. \A b \in Blocks : Ledger!MayAssign(old[b], new[b], c)
      BY <2>2, <2>5, <2>9 DEF Reclaims, Ledger!MayAssign
    <2>12. table'.epoch = table.epoch
      BY <2>2, <2>3, <2>6
    <2>13. Ledger!Assign(c)
      BY <2>10, <2>11, <2>12 DEF Ledger!Assign
    <2> QED BY <2>13 DEF Ledger!Next
  <1>7. ASSUME NEW l \in table.leases, NEW w \in Watermarks, Commit(l, w)
        PROVE  Ledger!Next
    <2> DEFINE old == HolderOf(table)
               new == HolderOf(table')
    <2>1. w \in Nat /\ l.cluster \in Cluster
      BY <1>0, PoolAssumption DEF Watermarks, Table, Lease
    <2>2. table'.epoch = table.epoch
      BY <1>0, <1>7 DEF Commit, Committed, Table
    <2>3. new \in [Blocks -> Ledger!Holder]
      BY <1>0, HolderType
    <2>4. \A b \in Blocks : Ledger!MaySettle(old[b], new[b], l.cluster)
      BY <1>7, <2>1, CommittedHolders DEF Commit
    <2>5. Ledger!Settle(l.cluster)
      BY <2>2, <2>3, <2>4 DEF Ledger!Settle
    <2> QED BY <2>1, <2>5 DEF Ledger!Next
  <1>8. ASSUME NEW l \in table.leases, NEW count \in BOOLEAN, ReleaseOne(l, count)
        PROVE  Ledger!Next
    <2>1. {l} \in SUBSET table.leases /\ {l} # {}
      OBVIOUS
    <2> QED BY <1>8, <2>1, ReclaimRefines DEF ReleaseOne
  <1>9. ASSUME NEW c \in Cluster, NEW inc, NEW count \in BOOLEAN, ReleaseAll(c, inc, count)
        PROVE  Ledger!Next
    <2>1. Holding(table, c) \in SUBSET table.leases
      BY DEF Holding
    <2> QED BY <1>9, <2>1, ReclaimRefines DEF ReleaseAll
  <1>10. CASE Reap
    <2>1. {l \in table.leases : l.overdue} # {}
      BY <1>10 DEF Reap
    <2> QED BY <1>10, <2>1, ReclaimRefines DEF Reap, Reaped
  <1>11. CASE AdvanceEpoch
    <2>1. /\ table'.epoch = table.epoch + 1
          /\ table'.state = [b \in Blocks |-> UNASSIGNED]
      BY <1>0, <1>11 DEF AdvanceEpoch, Advanced, ResetEpoch, Table
    <2>2. \A b \in Blocks : HolderOf(table')[b] = Free
      BY <1>0, <2>1, HolderValue
    <2>3. HolderOf(table') \in [Blocks -> {Free}]
      BY <1>0, <2>2, HolderType
    <2>4. Ledger!NewEpoch(Free)
      BY <2>1, <2>3 DEF Ledger!NewEpoch
    <2> QED BY <2>4 DEF Ledger!Next
  <1>12. ASSUME NEW l \in table.leases, LeaseOverdue(l)
         PROVE  UNCHANGED Ledger!vars
    <2> DEFINE o == [l EXCEPT !.overdue = TRUE]
    <2>1. /\ table'.epoch = table.epoch /\ table'.state = table.state
          /\ table'.leases = (table.leases \ {l}) \cup {o}
      BY <1>0, <1>12 DEF LeaseOverdue, Table
    <2>2. Outstanding(o) = Outstanding(l) /\ o.cluster = l.cluster
      BY <1>0 DEF Outstanding, Table, Lease
    <2> HIDE DEF o
    <2>3. \A k \in table.leases : \E m \in table'.leases :
            Outstanding(k) \subseteq Outstanding(m) /\ m.cluster = k.cluster
      BY <2>1, <2>2
    <2> QED BY <1>0, <1>1, <2>1, <2>3, SameHolders
  <1>13. ASSUME NEW c \in Cluster, FallSilent(c)
         PROVE  UNCHANGED Ledger!vars
    <2>1. /\ table'.epoch = table.epoch /\ table'.state = table.state
          /\ table'.leases = table.leases
      BY <1>0, <1>13 DEF FallSilent, Table
    <2> QED BY <1>0, <1>1, <2>1, SameHolders
  <1> QED BY <1>2, <1>3, <1>4, <1>5, <1>6, <1>7, <1>8, <1>9, <1>10, <1>11, <1>12, <1>13 DEF Next

\* The lease table implements the ledger: one holder a position, settled only
\* by its holder and never handed out again in its epoch.
THEOREM LedgerImplemented == Spec => LedgerSpec
  <1>1. Init => Ledger!Init
    <2> SUFFICES ASSUME Init
                 PROVE  Ledger!Init
      OBVIOUS
    <2>1. Inv(table) /\ table.epoch = 0 /\ table.state = [b \in Blocks |-> UNASSIGNED]
      BY NewTableInv DEF Init, NewTable
    <2>2. \A b \in Blocks : HolderOf(table)[b] = Free
      BY <2>1, HolderValue
    <2>3. HolderOf(table) = [b \in Blocks |-> Free]
      BY <2>1, <2>2, HolderType
    <2> QED BY <2>1, <2>3 DEF Ledger!Init
  <1>2. Inv(table) /\ [Next]_table => [Ledger!Next]_(Ledger!vars)
    <2>1. ASSUME UNCHANGED table
          PROVE  UNCHANGED Ledger!vars
      BY <2>1 DEF Ledger!vars
    <2> QED BY <2>1, StepRefines
  <1> QED BY <1>1, <1>2, Invariance, PTL DEF Spec, LedgerSpec, Ledger!Spec

-----------------------------------------------------------------------------
(* Sums over a finite set                                                  *)
(*                                                                         *)
(* SumFunctionOnSet is a recursive function over the subsets of its set.   *)
(* That it is well defined, and each fact about it, is shown on a smallest *)
(* counterexample among the subsets of a finite set.                       *)

\* The element a fold takes first.
Pick(s) == CHOOSE x \in s : TRUE

\* A table of partial sums of f over the subsets of S.
IsPartial(f, S, g) ==
    g = [s \in SUBSET S |-> IF s = {} THEN 0 ELSE f[Pick(s)] + g[s \ {Pick(s)}]]

\* A sum is the last entry of such a table.
LEMMA SumUnfold ==
  ASSUME NEW f, NEW S
  PROVE  SumFunctionOnSet(f, S) = (CHOOSE g : IsPartial(f, S, g))[S]
  BY DEF SumFunctionOnSet, FoldFunctionOnSet, MapThenFoldSet, IsPartial, Pick

\* A family of subsets of a finite set has a smallest member.
LEMMA Smallest ==
  ASSUME NEW S, IsFiniteSet(S), NEW B \in SUBSET (SUBSET S), B # {}
  PROVE  \E x \in B : \A y \in B : y \subseteq x => y = x
  <1>1. IsWellFoundedOn(StrictSubsetOrdering(S), SUBSET S)
    BY FS_StrictSubsetOrderingWellFounded, FS_FiniteSubsetsOfFinite
  <1>2. PICK x \in B : \A y \in B : ~ (<<y, x>> \in StrictSubsetOrdering(S))
    BY <1>1, WFMin
  <1> QED BY <1>2 DEF StrictSubsetOrdering

\* Two tables of partial sums agree where both are defined.
LEMMA PartialAgree ==
  ASSUME NEW S, IsFiniteSet(S), NEW f, NEW T \in SUBSET S, NEW U \in SUBSET S,
         NEW g, NEW h, IsPartial(f, T, g), IsPartial(f, U, h)
  PROVE  \A s \in SUBSET (T \cap U) : g[s] = h[s]
  <1> DEFINE B == {s \in SUBSET (T \cap U) : g[s] # h[s]}
  <1>1. \A s \in SUBSET T : g[s] = IF s = {} THEN 0 ELSE f[Pick(s)] + g[s \ {Pick(s)}]
    BY DEF IsPartial
  <1>2. \A s \in SUBSET U : h[s] = IF s = {} THEN 0 ELSE f[Pick(s)] + h[s \ {Pick(s)}]
    BY DEF IsPartial
  <1>3. \A s : s # {} => Pick(s) \in s
    BY Zenon DEF Pick
  <1>4. ASSUME B # {}
        PROVE  FALSE
    <2>1. B \in SUBSET (SUBSET S)
      OBVIOUS
    <2>2. PICK s \in B : \A y \in B : y \subseteq s => y = s
      <3> HIDE DEF B
      <3> QED BY <1>4, <2>1, Smallest
    <2>3. s # {}
      BY <1>1, <1>2, <2>2
    <2>4. s \ {Pick(s)} \in SUBSET (T \cap U) /\ s \ {Pick(s)} # s
      BY <1>3, <2>3
    <2>5. g[s \ {Pick(s)}] = h[s \ {Pick(s)}]
      BY <2>2, <2>4
    <2> QED BY <1>1, <1>2, <2>2, <2>3, <2>5
  <1> QED BY <1>4

\* A finite set has a table of partial sums.
LEMMA PartialExists ==
  ASSUME NEW S, IsFiniteSet(S), NEW f
  PROVE  \E g : IsPartial(f, S, g)
  <1> DEFINE B == {T \in SUBSET S : ~ \E g : IsPartial(f, T, g)}
  <1>1. SUFFICES ASSUME S \in B
                 PROVE  FALSE
    OBVIOUS
  <1>2. PICK T \in B : \A y \in B : y \subseteq T => y = T
    <2>1. B \in SUBSET (SUBSET S)
      OBVIOUS
    <2> HIDE DEF B
    <2> QED BY <1>1, <2>1, Smallest
  <1> DEFINE h(s) == CHOOSE g : IsPartial(f, s, g)
             G == [s \in SUBSET T |-> IF s = {} THEN 0
                                      ELSE f[Pick(s)] + h(s \ {Pick(s)})[s \ {Pick(s)}]]
  <1>3. \A s : s # {} => Pick(s) \in s
    BY Zenon DEF Pick
  <1>4. ASSUME NEW u \in SUBSET T, u # T
        PROVE  IsPartial(f, u, h(u))
    <2>1. \E g : IsPartial(f, u, g)
      BY <1>2, <1>4
    <2> QED BY <2>1, Zenon
  <1> HIDE DEF h
  <1>5. ASSUME NEW u \in SUBSET T, u # T
        PROVE  G[u] = h(u)[u]
    <2>1. h(u)[u] = IF u = {} THEN 0 ELSE f[Pick(u)] + h(u)[u \ {Pick(u)}]
      BY <1>4, <1>5 DEF IsPartial
    <2>2. CASE u = {}
      BY <2>1, <2>2
    <2>3. CASE u # {}
      <3> DEFINE v == u \ {Pick(u)}
      <3>1. v \in SUBSET T /\ v # T /\ v \subseteq u
        BY <1>3, <1>5, <2>3
      <3>2. IsPartial(f, u, h(u)) /\ IsPartial(f, v, h(v))
        BY <1>4, <1>5, <3>1
      <3>3. h(u)[v] = h(v)[v]
        BY <1>2, <3>1, <3>2, PartialAgree
      <3> QED BY <2>1, <2>3, <3>3
    <2> QED BY <2>2, <2>3
  <1>6. \A s \in SUBSET T : s # {} => s \ {Pick(s)} \in SUBSET T /\ s \ {Pick(s)} # T
    BY <1>3
  <1>7. G = [s \in SUBSET T |-> IF s = {} THEN 0 ELSE f[Pick(s)] + G[s \ {Pick(s)}]]
    BY <1>5, <1>6
  <1>8. IsPartial(f, T, G)
    BY <1>7 DEF IsPartial
  <1> QED BY <1>2, <1>8

\* A sum loses its picked element.
LEMMA SumStep ==
  ASSUME NEW S, IsFiniteSet(S), NEW f, NEW T \in SUBSET S
  PROVE  SumFunctionOnSet(f, T) =
           IF T = {} THEN 0 ELSE f[Pick(T)] + SumFunctionOnSet(f, T \ {Pick(T)})
  <1> DEFINE P(U) == CHOOSE g : IsPartial(f, U, g)
  <1>1. ASSUME NEW U \in SUBSET S
        PROVE  IsPartial(f, U, P(U)) /\ SumFunctionOnSet(f, U) = P(U)[U]
    <2>1. IsFiniteSet(U)
      BY FS_Subset
    <2>2. \E g : IsPartial(f, U, g)
      BY <2>1, PartialExists
    <2> QED BY <2>2, SumUnfold, Zenon
  <1> HIDE DEF P
  <1>2. P(T)[T] = IF T = {} THEN 0 ELSE f[Pick(T)] + P(T)[T \ {Pick(T)}]
    BY <1>1 DEF IsPartial
  <1>3. P(T)[T \ {Pick(T)}] = P(T \ {Pick(T)})[T \ {Pick(T)}]
    BY <1>1, PartialAgree
  <1> QED BY <1>1, <1>2, <1>3

\* A sum of naturals is a natural.
LEMMA SumType ==
  ASSUME NEW S, IsFiniteSet(S), NEW f, \A x \in S : f[x] \in Nat
  PROVE  SumFunctionOnSet(f, S) \in Nat
  <1> DEFINE B == {T \in SUBSET S : SumFunctionOnSet(f, T) \notin Nat}
  <1>1. SUFFICES ASSUME S \in B
                 PROVE  FALSE
    OBVIOUS
  <1>2. PICK T \in B : \A y \in B : y \subseteq T => y = T
    <2>1. B \in SUBSET (SUBSET S)
      OBVIOUS
    <2> HIDE DEF B
    <2> QED BY <1>1, <2>1, Smallest
  <1>3. \A s : s # {} => Pick(s) \in s
    BY Zenon DEF Pick
  <1>4. SumFunctionOnSet(f, T) = IF T = {} THEN 0
                                 ELSE f[Pick(T)] + SumFunctionOnSet(f, T \ {Pick(T)})
    BY SumStep
  <1>5. T # {} => /\ SumFunctionOnSet(f, T \ {Pick(T)}) \in Nat
                  /\ f[Pick(T)] \in Nat
    BY <1>2, <1>3
  <1> QED BY <1>2, <1>4, <1>5

\* Adding d to one value of a function adds d to its sum.
LEMMA SumUpdate ==
  ASSUME NEW S, IsFiniteSet(S), NEW f \in [S -> Nat], NEW h \in [S -> Nat],
         NEW a \in S, NEW d \in Nat, h[a] = f[a] + d, \A x \in S \ {a} : h[x] = f[x]
  PROVE  SumFunctionOnSet(h, S) = SumFunctionOnSet(f, S) + d
  <1> DEFINE D(T) == IF a \in T THEN d ELSE 0
             B == {T \in SUBSET S : SumFunctionOnSet(h, T) # SumFunctionOnSet(f, T) + D(T)}
  <1>1. SUFFICES ASSUME S \in B
                 PROVE  FALSE
    OBVIOUS
  <1>2. PICK T \in B : \A y \in B : y \subseteq T => y = T
    <2>1. B \in SUBSET (SUBSET S)
      OBVIOUS
    <2> HIDE DEF B
    <2> QED BY <1>1, <2>1, Smallest
  <1>3. \A s : s # {} => Pick(s) \in s
    BY Zenon DEF Pick
  <1>4. ASSUME NEW k
        PROVE  SumFunctionOnSet(k, T) = IF T = {} THEN 0
                                        ELSE k[Pick(T)] + SumFunctionOnSet(k, T \ {Pick(T)})
    BY SumStep
  <1>5. T # {}
    BY <1>2, <1>4
  <1> DEFINE p == Pick(T)
             U == T \ {p}
  <1>6. p \in T /\ p \in S /\ U \in SUBSET S /\ U # T /\ U \subseteq T
    BY <1>3, <1>5
  <1>7. SumFunctionOnSet(h, U) = SumFunctionOnSet(f, U) + D(U)
    BY <1>2, <1>6
  <1>8. SumFunctionOnSet(f, U) \in Nat
    <2>1. IsFiniteSet(U)
      BY <1>6, FS_Subset
    <2> QED BY <1>6, <2>1, SumType
  <1>9. p = a => D(U) = 0 /\ D(T) = d /\ h[p] = f[p] + d
    BY <1>6
  <1>10. p # a => D(U) = D(T) /\ h[p] = f[p]
    BY <1>6
  <1>11. f[p] \in Nat /\ D(U) \in Nat
    BY <1>6
  <1>12. /\ SumFunctionOnSet(f, T) = f[p] + SumFunctionOnSet(f, U)
         /\ SumFunctionOnSet(h, T) = h[p] + SumFunctionOnSet(h, U)
         /\ SumFunctionOnSet(h, T) # SumFunctionOnSet(f, T) + D(T)
    BY <1>2, <1>4, <1>5
  <1> HIDE DEF p, U, D
  <1> QED BY <1>7, <1>8, <1>9, <1>10, <1>11, <1>12

-----------------------------------------------------------------------------
(* The credit of the clusters                                              *)

Credit(t) == SumFunctionOnSet([c \in Cluster |-> t.clusters[c].blocks_committed], Cluster)

LEMMA CreditUnfold ==
  ASSUME NEW t \in Table
  PROVE  /\ CreditIn(t) <=> IF t.epoch = 0 THEN Credit(t) = t.committed ELSE Credit(t) >= t.committed
         /\ Credit(t) \in Nat
  <1> DEFINE f == [c \in Cluster |-> t.clusters[c].blocks_committed]
  <1>1. SumFunction(f) = SumFunctionOnSet(f, Cluster)
    BY DEF SumFunction
  <1>2. \A c \in Cluster : f[c] \in Nat
    BY DEF Table, ClusterRecord
  <1>3. SumFunctionOnSet(f, Cluster) \in Nat
    <2> HIDE DEF f
    <2> QED BY <1>2, TableAssumption, SumType
  <1> QED BY <1>1, <1>3 DEF CreditIn, Credit

\* Whatever leaves the counts alone keeps the balance.
LEMMA SameCredit ==
  ASSUME NEW t \in Table, NEW r \in Table, CreditIn(t),
         r.epoch = t.epoch, r.committed = t.committed,
         \A c \in Cluster : r.clusters[c].blocks_committed = t.clusters[c].blocks_committed
  PROVE  CreditIn(r)
  <1>1. Credit(r) = Credit(t)
    BY DEF Credit
  <1> QED BY <1>1, CreditUnfold

\* A new table owes nobody anything.
LEMMA NewTableCredit == CreditIn(NewTable)
  <1> DEFINE f == [c \in Cluster |-> 0]
             B == {S \in SUBSET Cluster : SumFunctionOnSet(f, S) # 0}
  <1>1. NewTable \in Table /\ NewTable.epoch = 0 /\ NewTable.committed = 0
    BY NewTableInv, InvCoverage DEF NewTable
  <1>2. Credit(NewTable) = SumFunctionOnSet(f, Cluster)
    BY DEF Credit, NewTable, NewRecord
  <1>3. ASSUME Cluster \in B
        PROVE  FALSE
    <2>1. B \in SUBSET (SUBSET Cluster) /\ B # {}
      BY <1>3
    <2>2. PICK S \in B : \A y \in B : y \subseteq S => y = S
      <3> HIDE DEF B
      <3> QED BY <2>1, TableAssumption, Smallest
    <2>3. SumFunctionOnSet(f, S) = IF S = {} THEN 0
                                   ELSE f[Pick(S)] + SumFunctionOnSet(f, S \ {Pick(S)})
      <3>1. S \in SUBSET Cluster
        BY <2>2
      <3> HIDE DEF f
      <3> QED BY <3>1, TableAssumption, SumStep
    <2>4. \A s : s # {} => Pick(s) \in s
      BY Zenon DEF Pick
    <2> QED BY <2>2, <2>3, <2>4
  <1>4. SumFunctionOnSet(f, Cluster) = 0
    BY <1>3
  <1> QED BY <1>1, <1>2, <1>4, CreditUnfold

\* A commit credits its cluster with what it settles.
LEMMA CommittedCredit ==
  ASSUME NEW t, Inv(t), CreditIn(t), NEW l \in t.leases, NEW watermark \in Nat
  PROVE  CreditIn(Committed(t, l, watermark))
  <1> DEFINE d == Settled(l, watermark) - l.committed_end
             r == Committed(t, l, watermark)
             f == [c \in Cluster |-> t.clusters[c].blocks_committed]
             h == [c \in Cluster |-> r.clusters[c].blocks_committed]
             a == l.cluster
  <1>1. t \in Table /\ Ordered(t) /\ r \in Table
    BY CommittedInv, InvCoverage
  <1>2. l \in Lease /\ a \in Cluster /\ l.committed_end < l.end
    BY <1>1 DEF Table, Lease, Ordered
  <1>3. d \in Nat
    BY <1>2 DEF Settled, Lease, Larger, Smaller
  <1>4. t.clusters \in [Cluster -> ClusterRecord]
    BY <1>1 DEF Table
  <1> HIDE DEF d
  <1>5. /\ r.epoch = t.epoch /\ r.committed = t.committed + d
        /\ \E flag : r.clusters = [t.clusters EXCEPT ![a] =
              [t.clusters[a] EXCEPT !.blocks_committed = @ + d, !.silent = flag]]
    BY <1>1, <1>2 DEF Committed, Table, d
  <1>6. /\ r.clusters[a].blocks_committed = t.clusters[a].blocks_committed + d
        /\ \A c \in Cluster \ {a} : r.clusters[c] = t.clusters[c]
    BY <1>2, <1>4, <1>5 DEF ClusterRecord
  <1> HIDE DEF r
  <1>7. f \in [Cluster -> Nat] /\ h \in [Cluster -> Nat]
    BY <1>1 DEF Table, ClusterRecord
  <1>8. h[a] = f[a] + d /\ \A c \in Cluster \ {a} : h[c] = f[c]
    BY <1>2, <1>6
  <1>9. Credit(t) = SumFunctionOnSet(f, Cluster) /\ Credit(r) = SumFunctionOnSet(h, Cluster)
    BY DEF Credit
  <1> HIDE DEF f, h, a
  <1>10. Credit(r) = Credit(t) + d
    BY <1>2, <1>3, <1>7, <1>8, <1>9, TableAssumption, SumUpdate
  <1>11. t.committed \in Nat
    BY <1>1 DEF Table
  <1>12. CreditIn(r)
    BY <1>1, <1>3, <1>5, <1>10, <1>11, CreditUnfold
  <1> QED BY <1>12 DEF r

LEMMA ReclaimedCredit ==
  ASSUME NEW t, Inv(t), CreditIn(t), NEW gone \in SUBSET t.leases, NEW count \in BOOLEAN
  PROVE  CreditIn(Reclaimed(t, gone, count))
  <1> DEFINE r == Reclaimed(t, gone, count)
  <1>1. t \in Table /\ r \in Table
    BY InvCoverage, ReclaimedInv
  <1>2. r.epoch = t.epoch /\ r.committed = t.committed /\ r.clusters = t.clusters
    BY <1>1 DEF Reclaimed, Table
  <1> HIDE DEF r
  <1>3. CreditIn(r)
    BY <1>1, <1>2, SameCredit
  <1> QED BY <1>3 DEF r

LEMMA RegisteredCredit ==
  ASSUME NEW t, Inv(t), CreditIn(t), NEW c \in Cluster, NEW inc \in Incarnation \cup {NoIncarnation}
  PROVE  CreditIn(Registered(t, c, inc))
  <1> DEFINE r == Registered(t, c, inc)
  <1>1. t \in Table /\ r \in Table
    BY InvCoverage, RegisteredInv
  <1>2. t.clusters \in [Cluster -> ClusterRecord]
    BY <1>1 DEF Table
  <1>3. /\ r.epoch = t.epoch /\ r.committed = t.committed
        /\ \A k \in Cluster : r.clusters[k].blocks_committed = t.clusters[k].blocks_committed
    BY <1>1, <1>2 DEF Registered, Table, ClusterRecord
  <1> HIDE DEF r
  <1>4. CreditIn(r)
    BY <1>1, <1>3, SameCredit
  <1> QED BY <1>4 DEF r

LEMMA RenewedCredit ==
  ASSUME NEW t, Inv(t), CreditIn(t), NEW c \in Cluster, NEW progress,
         \A i \in DOMAIN progress : progress[i] \in Nat
  PROVE  CreditIn(Renewed(t, c, progress))
  <1> DEFINE r == Renewed(t, c, progress)
  <1>1. t \in Table /\ r \in Table
    BY InvCoverage, RenewedInv
  <1>2. r.epoch = t.epoch /\ r.committed = t.committed /\ r.clusters = t.clusters
    BY <1>1 DEF Renewed, Table
  <1> HIDE DEF r
  <1>3. CreditIn(r)
    BY <1>1, <1>2, SameCredit
  <1> QED BY <1>3 DEF r

\* A new epoch forgets the committed positions, not the credit.
LEMMA AdvancedCredit ==
  ASSUME NEW t, Inv(t), CreditIn(t)
  PROVE  CreditIn(Advanced(t))
  <1> DEFINE r == ResetEpoch(t, t.epoch + 1)
  <1>1. t \in Table /\ Advanced(t) \in Table
    BY InvCoverage, AdvancedInv
  <1>2. CASE CanAdvance(t)
    <2>1. Advanced(t) = r /\ r.epoch = t.epoch + 1 /\ r.committed = 0
      BY <1>1, <1>2 DEF Advanced, ResetEpoch, Table
    <2>2. t.epoch \in Nat
      BY <1>1 DEF Table
    <2> HIDE DEF r
    <2> QED BY <1>1, <2>1, <2>2, CreditUnfold
  <1>3. CASE ~CanAdvance(t)
    BY <1>3 DEF Advanced
  <1> QED BY <1>2, <1>3

LEMMA AcquireBaseCredit ==
  ASSUME Inv(table), CreditIn(table), NEW c \in Cluster
  PROVE  CreditIn(AcquireBase(c))
  <1>1. Inv(Reaped(table)) /\ Inv(Registered(Reaped(table), c, NoIncarnation))
    BY ReapedInv, RegisteredInv
  <1>2. CreditIn(Reaped(table))
    BY ReclaimedCredit DEF Reaped
  <1>3. CreditIn(Registered(Reaped(table), c, NoIncarnation))
    BY <1>1, <1>2, RegisteredCredit
  <1> QED BY <1>1, <1>3, AdvancedCredit DEF AcquireBase

LEMMA GrantedCredit ==
  ASSUME NEW t, CreditIn(t), NEW c \in Cluster, NEW spans, WorkVector(spans),
         InvBut(t, Covered(spans))
  PROVE  CreditIn(Granted(t, c, spans))
  <1> DEFINE r == Granted(t, c, spans)
             cursor == spans[Len(spans)][2] % NumBlocks
             served == [t.clusters[c] EXCEPT !.cursor = cursor, !.silent = FALSE]
  <1>1. t \in Table /\ r \in Table
    BY GrantedInv, InvCoverage DEF InvBut
  <1>2. t.clusters \in [Cluster -> ClusterRecord]
    BY <1>1 DEF Table
  <1>3. /\ r.epoch = t.epoch /\ r.committed = t.committed
        /\ r.clusters = [t.clusters EXCEPT ![c] = served]
    BY <1>1 DEF Granted, Table
  <1> HIDE DEF r, cursor
  <1>4. served.blocks_committed = t.clusters[c].blocks_committed
    BY <1>2 DEF ClusterRecord
  <1>5. \A k \in Cluster : r.clusters[k].blocks_committed = t.clusters[k].blocks_committed
    BY <1>2, <1>3, <1>4
  <1>6. CreditIn(r)
    BY <1>1, <1>3, <1>5, SameCredit
  <1> QED BY <1>6 DEF r

\* Every step keeps the balance.
LEMMA StepCredit ==
  ASSUME Inv(table), CreditIn(table), Next
  PROVE  CreditIn(table')
  <1>0. Inv(table') /\ table \in Table /\ table' \in Table
    BY StepInv, InvCoverage
  <1>1. ASSUME NEW c \in Cluster, NEW inc \in Incarnation \cup {NoIncarnation}, Register(c, inc)
        PROVE  CreditIn(table')
    BY <1>1, RegisteredCredit DEF Register
  <1>2. ASSUME NEW c \in Cluster, AcquireFree(c)
        PROVE  CreditIn(table')
    <2> DEFINE t == AcquireBase(c)
    <2>1. PICK spans :
            /\ t \in Table /\ WorkVector(spans)
            /\ InvBut([t EXCEPT !.free = @ \ Covered(spans)], Covered(spans))
            /\ table' = Granted([t EXCEPT !.free = @ \ Covered(spans)], c, spans)
      BY <1>2, AcquireFreeFacts
    <2>2. CreditIn(t)
      BY AcquireBaseCredit
    <2> HIDE DEF t
    <2> DEFINE taken == [t EXCEPT !.free = @ \ Covered(spans)]
    <2>3. /\ taken.epoch = t.epoch /\ taken.committed = t.committed
          /\ taken.clusters = t.clusters /\ taken \in Table
      BY <2>1 DEF Table, InvBut
    <2> HIDE DEF taken
    <2>4. CreditIn(taken)
      BY <2>1, <2>2, <2>3, SameCredit
    <2> QED BY <2>1, <2>4, GrantedCredit DEF taken
  <1>3. ASSUME NEW c \in Cluster, AcquireStolen(c)
        PROVE  CreditIn(table')
    <2> DEFINE t == AcquireBase(c)
    <2>1. PICK victims, cuts :
            /\ t \in Table /\ WorkVector(StolenSpans(victims, cuts))
            /\ InvBut(Robbed(t, victims, cuts), Covered(StolenSpans(victims, cuts)))
            /\ table' = Granted(Robbed(t, victims, cuts), c, StolenSpans(victims, cuts))
      BY <1>3, AcquireStolenFacts
    <2>2. CreditIn(t)
      BY AcquireBaseCredit
    <2> HIDE DEF t
    <2> DEFINE robbed == Robbed(t, victims, cuts)
    <2>3. /\ robbed.epoch = t.epoch /\ robbed.committed = t.committed
          /\ robbed.clusters = t.clusters /\ robbed \in Table
      BY <2>1 DEF Robbed, Table, InvBut
    <2> HIDE DEF robbed
    <2>4. CreditIn(robbed)
      BY <2>1, <2>2, <2>3, SameCredit
    <2> QED BY <2>1, <2>4, GrantedCredit DEF robbed
  <1>4. ASSUME NEW c \in Cluster, AcquireNothing(c)
        PROVE  CreditIn(table')
    BY <1>4, AcquireBaseCredit DEF AcquireNothing
  <1>5. ASSUME NEW c \in Cluster, NEW held \in SUBSET Holding(table, c),
               NEW progress \in [{l.id : l \in held} -> Watermarks], Heartbeat(c, progress)
        PROVE  CreditIn(table')
    <2>1. CreditIn(Reaped(table)) /\ Inv(Reaped(table))
      BY ReclaimedCredit, ReapedInv DEF Reaped
    <2>2. /\ CreditIn(Registered(Reaped(table), c, NoIncarnation))
          /\ Inv(Registered(Reaped(table), c, NoIncarnation))
      BY <2>1, RegisteredCredit, RegisteredInv
    <2>3. \A i \in DOMAIN progress : progress[i] \in Nat
      BY PoolAssumption DEF Watermarks
    <2> QED BY <1>5, <2>2, <2>3, RenewedCredit DEF Heartbeat
  <1>6. ASSUME NEW l \in table.leases, NEW w \in Watermarks, Commit(l, w)
        PROVE  CreditIn(table')
    <2>1. w \in Nat
      BY PoolAssumption DEF Watermarks
    <2> QED BY <1>6, <2>1, CommittedCredit DEF Commit
  <1>7. ASSUME NEW l \in table.leases, NEW count \in BOOLEAN, ReleaseOne(l, count)
        PROVE  CreditIn(table')
    <2>1. {l} \in SUBSET table.leases
      OBVIOUS
    <2> QED BY <1>7, <2>1, ReclaimedCredit DEF ReleaseOne
  <1>8. ASSUME NEW c \in Cluster, NEW inc, NEW count \in BOOLEAN, ReleaseAll(c, inc, count)
        PROVE  CreditIn(table')
    <2>1. Holding(table, c) \in SUBSET table.leases
      BY DEF Holding
    <2> QED BY <1>8, <2>1, ReclaimedCredit DEF ReleaseAll
  <1>9. CASE Reap
    BY <1>9, ReclaimedCredit DEF Reap, Reaped
  <1>10. CASE AdvanceEpoch
    BY <1>10, AdvancedCredit DEF AdvanceEpoch
  <1>11. ASSUME NEW l \in table.leases, LeaseOverdue(l)
         PROVE  CreditIn(table')
    <2>1. /\ table'.epoch = table.epoch /\ table'.committed = table.committed
          /\ table'.clusters = table.clusters
      BY <1>0, <1>11 DEF LeaseOverdue, Table
    <2> QED BY <1>0, <2>1, SameCredit
  <1>12. ASSUME NEW c \in Cluster, FallSilent(c)
         PROVE  CreditIn(table')
    <2>1. table.clusters \in [Cluster -> ClusterRecord]
      BY <1>0 DEF Table
    <2>2. /\ table'.epoch = table.epoch /\ table'.committed = table.committed
          /\ \A k \in Cluster :
               table'.clusters[k].blocks_committed = table.clusters[k].blocks_committed
      BY <1>0, <1>12, <2>1 DEF FallSilent, Table, ClusterRecord
    <2> QED BY <1>0, <2>2, SameCredit
  <1> QED BY <1>1, <1>2, <1>3, <1>4, <1>5, <1>6, <1>7, <1>8, <1>9, <1>10, <1>11, <1>12 DEF Next

(* verify()'s last clause: the clusters are credited with exactly what is    *)
(* committed in the first epoch, and with no less in a later one.            *)
THEOREM NothingCreditedTwice == Spec => []ZeroDuplication
  <1>1. Init => CreditIn(table)
    BY NewTableCredit DEF Init
  <1>2. Inv(table) /\ CreditIn(table) /\ [Next]_table => CreditIn(table)'
    BY StepCredit
  <1> QED BY <1>1, <1>2, Invariance, PTL DEF Spec, ZeroDuplication

=============================================================================
