----------------------------- MODULE LeaseTable -----------------------------
(***************************************************************************)
(* The DARL lease table (src/pww/darl/table.py): the authoritative state   *)
(* of one epoch's block assignment.  A position is UNASSIGNED, LEASED to   *)
(* one cluster, COMMITTED or QUARANTINED; a lease is a contiguous span of  *)
(* positions with a committed and a progress watermark.                    *)
(*                                                                         *)
(* Every method of the Python class is an operator from a table value to   *)
(* the table it leaves (Reaped, Committed, Granted, ...), because the      *)
(* coordinator applies the same methods to the live table and, when it     *)
(* replays its journal, to a restored one.  The actions below apply them   *)
(* to the variable `table'; the arguments of an action are whatever an     *)
(* HTTP client may send, so what is shown here holds for any client.       *)
(*                                                                         *)
(* Time is abstracted: a lease is `overdue' once the clock has passed its  *)
(* deadline and a cluster is `silent' once it has not been seen for a      *)
(* liveness window.  Either may happen at any moment.  Throughput          *)
(* estimates are abstracted to the choices they can lead to: any fair      *)
(* share of the pool, any order of victims.                                *)
(***************************************************************************)
EXTENDS FreePool, Sequences

CONSTANTS
    Cluster,        \* cluster ids
    Incarnation,    \* per-process random ids
    NoIncarnation,  \* the empty incarnation of an older client
    MaxEpochs,      \* max_epochs
    MaxAttempts,    \* max_attempts: counted reclaims before quarantine, 0 = never
    MinBlocks,      \* min_blocks
    MaxBlocks,      \* max_blocks
    StealMin,       \* steal_min_blocks
    AllowStealing,  \* allow_stealing
    MaxRequest,     \* bound: blocks a client asks for
    MaxSeq          \* bound: leases ever granted

ASSUME TableAssumption ==
    /\ IsFiniteSet(Cluster)
    /\ NoIncarnation \notin Incarnation
    /\ MaxEpochs \in Nat /\ MaxAttempts \in Nat
    /\ MinBlocks \in Nat \ {0} /\ MaxBlocks \in Nat \ {0}
    /\ StealMin \in Nat \ {0}
    /\ AllowStealing \in BOOLEAN
    /\ MaxRequest \in Nat /\ MaxSeq \in Nat

VARIABLE table      \* the LeaseTable object

-----------------------------------------------------------------------------
(* Data                                                                    *)

UNASSIGNED  == "unassigned"
LEASED      == "leased"
COMMITTED   == "committed"
QUARANTINED == "quarantined"
BlockState  == {UNASSIGNED, LEASED, COMMITTED, QUARANTINED}

\* An id e<epoch>-b<start>-<seq> is the triple <<epoch, start, seq>>.
Lease == [id : Nat \X Nat \X Nat, cluster : Cluster, epoch : Nat,
          start : Nat, end : Nat, committed_end : Nat, progress_end : Nat,
          overdue : BOOLEAN]

ClusterRecord == [known : BOOLEAN,          \* registered
                  silent : BOOLEAN,         \* not seen for a liveness window
                  incarnation : Incarnation \cup {NoIncarnation},
                  cursor : Nat,             \* where its next grant starts looking
                  blocks_committed : Nat]   \* over all epochs

Table == [epoch : Nat, state : [Blocks -> BlockState], attempts : [Blocks -> Nat],
          free : SUBSET Blocks,             \* the IntervalSet, as a set
          committed : Nat, quarantined : Nat,
          leases : SUBSET Lease,
          clusters : [Cluster -> ClusterRecord],
          seq : Nat]

NewRecord == [known |-> FALSE, silent |-> TRUE, incarnation |-> NoIncarnation,
              cursor |-> 0, blocks_committed |-> 0]

NewTable ==
    [epoch |-> 0, state |-> [b \in Blocks |-> UNASSIGNED],
     attempts |-> [b \in Blocks |-> 0], free |-> Blocks,
     committed |-> 0, quarantined |-> 0, leases |-> {},
     clusters |-> [c \in Cluster |-> NewRecord], seq |-> 0]

Fill(state, S, value) == [b \in Blocks |-> IF b \in S THEN value ELSE state[b]]

\* Definitions whose name ends in _ are slips: the definition that follows
\* with a mistake somebody might make.  Nothing uses them; a property that
\* still held with the slip in place would say nothing about the code.

\* The positions of a lease that are at risk.
Outstanding_(l) == l.start .. l.end - 1
Outstanding(l) == l.committed_end .. l.end - 1

\* Only positions at or beyond this one may be stolen.
Floor(l) == Larger(l.progress_end, l.committed_end)

Holding(t, c) == {l \in t.leases : l.cluster = c}

EpochComplete_(t) == t.committed + t.quarantined >= NumBlocks - 1
EpochComplete(t) == t.committed + t.quarantined >= NumBlocks

-----------------------------------------------------------------------------
(* Epochs, registration, expiry                                            *)

\* _reset_epoch: everything back to UNASSIGNED, every lease forgotten.
ResetEpoch(t, epoch) ==
    [t EXCEPT !.epoch = epoch,
              !.state = [b \in Blocks |-> UNASSIGNED],
              !.attempts = [b \in Blocks |-> 0],
              !.free = Blocks,
              !.committed = 0, !.quarantined = 0,
              !.leases = {},
              !.clusters = [c \in Cluster |-> [t.clusters[c] EXCEPT !.cursor = 0]]]

CanAdvance(t) == t.epoch + 1 < MaxEpochs

Advanced(t) == IF CanAdvance(t) THEN ResetEpoch(t, t.epoch + 1) ELSE t

IsLive(t, c) == Holding(t, c) # {} \/ ~t.clusters[c].silent

\* A second live process under a held id is refused (ClusterBusy).
Busy(t, c, inc) ==
    LET record == t.clusters[c]
    IN  /\ record.known
        /\ inc # NoIncarnation /\ record.incarnation # NoIncarnation
        /\ inc # record.incarnation
        /\ IsLive(t, c)

Registered_(t, c, inc) ==
    [t EXCEPT !.clusters[c] = [NewRecord EXCEPT !.known = TRUE, !.silent = FALSE, !.incarnation = inc]]

Registered(t, c, inc) ==
    LET old == t.clusters[c]
        incarnation == IF inc = NoIncarnation THEN old.incarnation ELSE inc
    IN  [t EXCEPT !.clusters[c] =
            [old EXCEPT !.known = TRUE, !.silent = FALSE, !.incarnation = incarnation]]

\* This many counted attempts take a position out of the epoch.
Exhausted_(n) == MaxAttempts # 0 /\ n > MaxAttempts
Exhausted(n)  == MaxAttempts # 0 /\ n >= MaxAttempts

\* _reclaim, for a set of leases: their uncommitted tails go back to the pool,
\* except positions whose counted attempts are used up, which are quarantined.
Reclaimed(t, gone, count_attempt) ==
    LET tail == UNION {Outstanding(l) : l \in gone}
        tried == [b \in Blocks |-> IF count_attempt /\ b \in tail
                                   THEN t.attempts[b] + 1 ELSE t.attempts[b]]
        bad == {b \in tail : count_attempt /\ Exhausted(tried[b])}
    IN  [t EXCEPT !.leases = @ \ gone,
                  !.attempts = tried,
                  !.state = Fill(Fill(@, tail \ bad, UNASSIGNED), bad, QUARANTINED),
                  !.free = @ \cup (tail \ bad),
                  !.quarantined = @ + Cardinality(bad)]

Reaped(t) == Reclaimed(t, {l \in t.leases : l.overdue}, TRUE)

-----------------------------------------------------------------------------
(* Granting                                                                *)

\* Clusters that share the pool: the live ones, or all known ones.
ActiveClusters(t) ==
    LET live == {c \in Cluster : t.clusters[c].known /\ IsLive(t, c)}
    IN  IF live # {} THEN live ELSE {c \in Cluster : t.clusters[c].known}

\* _grant_size: the sizes a request may be cut to.  A first grant is halved
\* (first_grant_fraction = 0.5); a scarce pool is shared by measured rates,
\* which may make the share anything up to the whole pool.
GrantSizes(t, c, requested) ==
    LET asked == Larger(MinBlocks, requested)
        first == IF t.clusters[c].blocks_committed = 0
                 THEN Larger(MinBlocks, asked \div 2) ELSE asked
        want == Smaller(first, MaxBlocks)
        pool == Cardinality(t.free)
    IN  IF pool > 0 /\ want > pool \div Larger(1, Cardinality(ActiveClusters(t)))
        THEN {Larger(MinBlocks, Smaller(want, Larger(share, MinBlocks))) : share \in 0 .. pool}
        ELSE {want}

\* What the requests a client may send come to.
Wanted(t, c) == UNION {GrantSizes(t, c, requested) : requested \in 1 .. MaxRequest}

\* One new lease per span; the cursor follows the last one.
Granted(t, c, spans) ==
    LET n == Len(spans)
        NewLease(i) == [id |-> <<t.epoch, spans[i][1], t.seq + i>>,
                        cluster |-> c, epoch |-> t.epoch,
                        start |-> spans[i][1], end |-> spans[i][2],
                        committed_end |-> spans[i][1], progress_end |-> spans[i][1],
                        overdue |-> FALSE]
        old == t.clusters[c]
        served == [old EXCEPT !.cursor = spans[n][2] % NumBlocks, !.silent = FALSE]
    IN  [t EXCEPT !.seq = @ + n,
                  !.state = Fill(@, Covered(spans), LEASED),
                  !.leases = @ \cup {NewLease(i) : i \in 1 .. n},
                  !.clusters[c] = served]

-----------------------------------------------------------------------------
(* Stealing                                                                *)

Available_(l) == l.end - l.committed_end
Available(l)  == l.end - Floor(l)

Candidates(t, thief) ==
    {l \in t.leases : l.cluster # thief /\ Available(l) >= 2 * StealMin}

\* What one visit of the stealing loop may take from a victim.
StealShare(l) == Larger(StealMin, Available(l) \div 2)

\* _steal: the victims in the order they are visited and what each loses.
\* Victims are visited by outstanding / rate; rates are abstracted, so two
\* clusters come in either order and leases of one cluster by size.
StealPlan(t, thief, want, n, victims, cuts) ==
    LET Slower(l, m) == l.cluster = m.cluster =>
                            Cardinality(Outstanding(l)) >= Cardinality(Outstanding(m))
    IN  /\ \A i, j \in 1 .. n : i < j => victims[i] # victims[j] /\ Slower(victims[i], victims[j])
        /\ \A i \in 1 .. n :
             /\ cuts[i] <= StealShare(victims[i])
             /\ cuts[i] = Smaller(want - SumTo(cuts, i - 1), StealShare(victims[i]))
        /\ \A m \in Candidates(t, thief) \ {victims[i] : i \in 1 .. n} :
             /\ want - SumTo(cuts, n) < StealMin
             /\ \A i \in 1 .. n : Slower(victims[i], m)

StealPlans(t, thief, want) ==
    LET C == Candidates(t, thief)
    IN  UNION {{p \in [1 .. n -> C] \X [1 .. n -> StealMin .. NumBlocks] :
                  StealPlan(t, thief, want, n, p[1], p[2])} : n \in 1 .. Cardinality(C)}

StolenSpans_(victims, cuts) ==
    [i \in DOMAIN victims |-> <<Floor(victims[i]), Floor(victims[i]) + cuts[i]>>]

StolenSpans(victims, cuts) ==
    [i \in DOMAIN victims |-> <<victims[i].end - cuts[i], victims[i].end>>]

\* The victims' leases, cut.
Cut_(l, n) == [l EXCEPT !.end = l.end - n + 1]
Cut(l, n)  == [l EXCEPT !.end = l.end - n]

Robbed(t, victims, cuts) ==
    [t EXCEPT !.leases = (@ \ {victims[i] : i \in DOMAIN victims})
                         \cup {Cut(victims[i], cuts[i]) : i \in DOMAIN victims}]

-----------------------------------------------------------------------------
(* Heartbeat, commit                                                       *)

\* A report moves the progress watermark forward, within the lease.
Reported(l, progress)  == Larger(l.progress_end, Smaller(progress, l.end))

\* progress maps lease ids to watermarks; unknown ids and other clusters'
\* leases are only reported invalid.
Renewed(t, c, progress) ==
    LET Mine(l) == l.cluster = c /\ l.epoch = t.epoch /\ l.id \in DOMAIN progress
        Renew(l) == [l EXCEPT !.progress_end = Reported(l, progress[l.id]),
                              !.overdue = FALSE]
    IN  [t EXCEPT !.leases = {l \in @ : ~Mine(l)} \cup {Renew(l) : l \in {m \in @ : Mine(m)}}]

SettledPast_(l, watermark) == Larger(watermark, l.committed_end)

\* What is left of a commit watermark: the coordinator settles nothing twice and
\* nothing that a lease no longer holds.
Settled(l, watermark)      == Smaller(Larger(watermark, l.committed_end), l.end)

\* commit through a watermark, clamped into what the lease still holds; a lease
\* with nothing outstanding is closed.
Committed(t, l, watermark) ==
    LET through == Settled(l, watermark)
        newly == through - l.committed_end
        kept == [l EXCEPT !.committed_end = through,
                          !.progress_end = IF newly > 0 THEN Larger(@, through) ELSE @]
        old == t.clusters[l.cluster]
        credited == [old EXCEPT !.blocks_committed = @ + newly,
                                !.silent = IF newly > 0 THEN FALSE ELSE @]
    IN  [t EXCEPT !.state = Fill(@, l.committed_end .. through - 1, COMMITTED),
                  !.committed = @ + newly,
                  !.leases = (@ \ {l}) \cup (IF through >= l.end THEN {} ELSE {kept}),
                  !.clusters[l.cluster] = credited]

-----------------------------------------------------------------------------
(* Actions: one per RPC outcome that changes the table                     *)

Init == table = NewTable

Register(c, inc) ==
    /\ ~Busy(table, c, inc)
    /\ table' = Registered(table, c, inc)

\* What an acquire works on: overdue leases are reaped, the caller is
\* registered and a finished epoch gives way to the next one.
AcquireBase(c) ==
    LET t == Registered(Reaped(table), c, NoIncarnation)
    IN  IF EpochComplete(t) /\ t.leases = {} THEN Advanced(t) ELSE t

AcquireFree(c) ==
    LET t == AcquireBase(c)
    IN  \E want \in Wanted(t, c) :
          \E spans \in TakeNear(t.free, t.clusters[c].cursor, want) :
            /\ t.seq + Len(spans) <= MaxSeq
            /\ table' = Granted([t EXCEPT !.free = @ \ Covered(spans)], c, spans)

AcquireStolen(c) ==
    LET t == AcquireBase(c)
    IN  /\ AllowStealing
        /\ t.free = {}
        /\ \E want \in Wanted(t, c) :
             \E p \in StealPlans(t, c, want) :
               LET spans == StolenSpans(p[1], p[2])
               IN  /\ t.seq + Len(spans) <= MaxSeq
                   /\ table' = Granted(Robbed(t, p[1], p[2]), c, spans)

\* Nothing free, nothing stealable: `drain', or `epoch_complete' at the end.
AcquireNothing(c) ==
    LET t == AcquireBase(c)
    IN  /\ t.free = {}
        /\ \E want \in Wanted(t, c) :
             AllowStealing => StealPlans(t, c, want) = {}
        /\ table' = t

Heartbeat(c, progress) ==
    table' = Renewed(Registered(Reaped(table), c, NoIncarnation), c, progress)

Commit(l, watermark) == table' = Committed(table, l, watermark)

\* Release one lease, or everything a cluster id owns; the latter is refused
\* to an incarnation that no longer holds the id.
ReleaseOne(l, count_attempt) == table' = Reclaimed(table, {l}, count_attempt)

MayReleaseAll(t, c, inc) ==
    \/ inc = NoIncarnation \/ t.clusters[c].incarnation = NoIncarnation
    \/ inc = t.clusters[c].incarnation

ReleaseAll(c, inc, count_attempt) ==
    /\ Holding(table, c) # {}
    /\ MayReleaseAll(table, c, inc)
    /\ table' = Reclaimed(table, Holding(table, c), count_attempt)

\* The background tick, and GET /status.
Reap ==
    /\ \E l \in table.leases : l.overdue
    /\ table' = Reaped(table)

\* POST /advance: unconditional, also in the middle of an epoch.
AdvanceEpoch ==
    /\ CanAdvance(table)
    /\ table' = Advanced(table)

\* The clock passes a lease's deadline, or a cluster's liveness window.
LeaseOverdue(l) ==
    /\ ~l.overdue
    /\ table' = [table EXCEPT !.leases = (@ \ {l}) \cup {[l EXCEPT !.overdue = TRUE]}]

FallSilent(c) ==
    /\ ~table.clusters[c].silent
    /\ table' = [table EXCEPT !.clusters[c].silent = TRUE]

\* A larger watermark is cut down like the largest of these.
Watermarks == 0 .. NumBlocks

Next ==
    \/ \E c \in Cluster, inc \in Incarnation \cup {NoIncarnation} : Register(c, inc)
    \/ \E c \in Cluster : AcquireFree(c)
    \/ \E c \in Cluster : AcquireStolen(c)
    \/ \E c \in Cluster : AcquireNothing(c)
    \/ \E c \in Cluster : \E held \in SUBSET Holding(table, c) :
         \E progress \in [{l.id : l \in held} -> Watermarks] : Heartbeat(c, progress)
    \/ \E l \in table.leases, w \in Watermarks : Commit(l, w)
    \/ \E l \in table.leases, count \in BOOLEAN : ReleaseOne(l, count)
    \/ \E c \in Cluster, inc \in Incarnation \cup {NoIncarnation}, count \in BOOLEAN :
         ReleaseAll(c, inc, count)
    \/ Reap
    \/ AdvanceEpoch
    \/ \E l \in table.leases : LeaseOverdue(l)
    \/ \E c \in Cluster : FallSilent(c)

Spec == Init /\ [][Next]_table

-----------------------------------------------------------------------------
(* Properties                                                              *)
(*                                                                         *)
(* Each state property is stated of a table value, since a table restored  *)
(* by journal replay has to satisfy it too.                                *)

\* The table holds values of the types the Python class gives them.
TypeOK == table \in Table

Ordered(t) ==
    \A l \in t.leases :
        /\ l.epoch = t.epoch
        /\ l.start <= l.committed_end /\ l.committed_end < l.end /\ l.end <= NumBlocks
        /\ l.start <= l.progress_end /\ l.progress_end <= l.end

\* verify(), watermarks: start <= committed_end < end, progress inside the
\* lease.  No lease survives with nothing outstanding, so a complete epoch
\* holds no lease and `drain' is never answered for one.
WatermarksOrdered == Ordered(table)

DisjointIn(t) ==
    \A l, m \in t.leases : l # m => l.id # m.id /\ Outstanding(l) \cap Outstanding(m) = {}

\* No position is outstanding in two leases, so no position can be trained,
\* committed or freed twice (DoubleFreeError in the pool).
Disjoint == DisjointIn(table)

CoverageIn(t) ==
    \A b \in Blocks :
        /\ t.state[b] = LEASED <=> \E l \in t.leases : b \in Outstanding(l)
        /\ t.state[b] = UNASSIGNED <=> b \in t.free

\* The state array, the leases and the free pool tell the
\* same story of every position, through grants, steals, reclaims and commits.
Coverage == CoverageIn(table)

InState(t, value) == {b \in Blocks : t.state[b] = value}

CountersIn(t) ==
    /\ t.committed = Cardinality(InState(t, COMMITTED))
    /\ t.quarantined = Cardinality(InState(t, QUARANTINED))

\* What epoch_complete is computed from is the number of
\* positions in those states.
CountersExact == CountersIn(table)

CreditIn(t) ==
    LET credited == SumFunction([c \in Cluster |-> t.clusters[c].blocks_committed])
    IN  IF t.epoch = 0 THEN credited = t.committed ELSE credited >= t.committed

\* verify(), last clause, zero duplication: what the clusters were credited with adds up to
\* the committed positions of this epoch, plus those of the epochs before it.
ZeroDuplication == CreditIn(table)

QuarantineIn(t) ==
    \A b \in Blocks : t.state[b] = QUARANTINED <=> MaxAttempts # 0 /\ t.attempts[b] >= MaxAttempts

\* A position is quarantined exactly when its counted reclaims reached
\* max_attempts: a release with count_attempt=False never retires data.
QuarantineExact == QuarantineIn(table)

VerifiedIn(t) ==
    Ordered(t) /\ DisjointIn(t) /\ CoverageIn(t) /\ CountersIn(t) /\ QuarantineIn(t)

\* verify() passes on the live table at every moment, not only when a snapshot
\* happens to run it: watermarks in order, no position in two leases, state
\* array, leases and free pool in agreement, counters exact; and beyond what
\* verify() looks at, quarantine is exactly the counted attempts used up.
Verified == VerifiedIn(table)

\* A committed position stays committed until the epoch ends: reap, release,
\* steal and late commits of other leases never reopen it.
CommitIsFinal ==
    [][\A b \in Blocks : table.state[b] = COMMITTED =>
          table'.state[b] = COMMITTED \/ table'.epoch > table.epoch]_table

\* While a lease lives its watermarks only grow, and its end only shrinks, to
\* no less than the progress the coordinator had been told of (_steal).
StealSparesProgress ==
    [][\A l \in table.leases, m \in table'.leases : l.id = m.id =>
          /\ l.cluster = m.cluster /\ l.start = m.start
          /\ l.committed_end <= m.committed_end /\ l.progress_end <= m.progress_end
          /\ Floor(l) <= m.end /\ m.end <= l.end]_table

\* An acquire moves the table to the next epoch only when no position of the
\* old one was left to train: the rest is quarantined, or is quarantined by
\* the reap of that same acquire.
AcquireSkipsNothing ==
    [][(table'.epoch # table.epoch /\ ~AdvanceEpoch) =>
          \A b \in Blocks :
             \/ table.state[b] \in {COMMITTED, QUARANTINED}
             \/ /\ \E l \in table.leases : l.overdue /\ b \in Outstanding(l)
                /\ MaxAttempts # 0 /\ table.attempts[b] + 1 >= MaxAttempts]_table

-----------------------------------------------------------------------------
(* Refinement                                                              *)

CONSTANTS Free, Done, Bad   \* holders that are no cluster

ASSUME LedgerAssumption ==
    /\ {Free, Done, Bad} \cap Cluster = {}
    /\ Free # Done /\ Free # Bad /\ Done # Bad

HolderOf(t) ==
    [b \in Blocks |->
        CASE t.state[b] = UNASSIGNED -> Free
          [] t.state[b] = COMMITTED -> Done
          [] t.state[b] = QUARANTINED -> Bad
          [] OTHER -> (CHOOSE l \in t.leases : b \in Outstanding(l)).cluster]

Ledger == INSTANCE BlockLedger WITH
    Position <- Blocks, epoch <- table.epoch, holder <- HolderOf(table)

\* The lease table keeps the promise BlockLedger makes to the clusters.
LedgerSpec == Ledger!Spec

=============================================================================
