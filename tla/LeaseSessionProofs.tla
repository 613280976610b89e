------------------------- MODULE LeaseSessionProofs -------------------------
(***************************************************************************)
(* Theorems about LeaseSession, for any number of jobs and peers, sizes of *)
(* epochs, phases and rounds, outages, lost replies and crashes: a table   *)
(* that serves sessions is a LeaseTable, so that all that is proved of one *)
(* holds here; a session's view is never ahead of the table; no grant to a *)
(* running process is lost; and what is committed is in a checkpoint.  The *)
(* last two have hypotheses, without which they are false.                 *)
(*                                                                         *)
(* The view is copied: into the answers on their way to a thread, the      *)
(* heartbeat that was built from it, the targets of commit_all and the     *)
(* commit in flight.  The invariant says of each copy how far it may be    *)
(* behind, and that none is about a lease of somebody else or of later.    *)
(***************************************************************************)
EXTENDS LeaseSession, LeaseTableProofs

-----------------------------------------------------------------------------
(* Types                                                                   *)

LeaseId == Nat \X Nat \X Nat
Place   == Nat \X Blocks

Held  == {s \in Span : s.end <= NumBlocks /\ s.consumed <= NumBlocks}
Call  == [at : CallStage, status : CallStatus, spans : SUBSET Held]
Grant == [status : CallStatus, spans : SUBSET Held]

Report == UNION {[I -> Watermarks] : I \in SUBSET LeaseId}
Beat   == [at : {"idle", "sent", "answered"}, progress : Report, view : Report]

CommitCall == [at : {"idle", "sent", "answered"}, id : LeaseId, through : Watermarks,
               gone : BOOLEAN, closed : BOOLEAN]

JobState == [alive : BOOLEAN, life : 0 .. MaxLives, since : Nat, spans : SUBSET Held,
             main : MainStage, todo : SUBSET Place, phase : SUBSET Held,
             fresh : SUBSET Place, steps : 0 .. InnerSteps, exhausted : BOOLEAN,
             acquire : Call, fetch : Call, prefetch : Grant, beat : Beat,
             targets : SUBSET Held, commit : CommitCall]

JobTypeOK == job \in [Job -> JobState] /\ disk \in [Cluster -> SUBSET Place]

-----------------------------------------------------------------------------
(* The inductive invariant, of a job j of cluster c and a table t          *)

\* What the prefetch thread was answered and has not put into the session yet.
Fetched(j) == IF j.fetch.at = "answered" THEN j.fetch.spans ELSE {}

\* The session's spans and those on their way to it.
Mine(j) == j.spans \cup j.acquire.spans \cup Fetched(j)

OneView(S) == \A s, u \in S : s.id = u.id => s = u

\* Each lease is in one of the three places, once.
Parted(j) ==
    /\ OneView(Mine(j))
    /\ j.spans \cap j.acquire.spans = {}
    /\ j.spans \cap Fetched(j) = {}
    /\ j.acquire.spans \cap Fetched(j) = {}

\* The ids a job may send to the coordinator, or hear about.
Mentions(j, i) ==
    \/ \E s \in Mine(j) \cup j.targets : s.id = i
    \/ i \in DOMAIN j.beat.progress \cup DOMAIN j.beat.view
    \/ j.commit.at # "idle" /\ j.commit.id = i

\* They were handed out, and to this cluster.
Entitled(j, c, t) ==
    \A i \in LeaseId : Mentions(j, i) =>
        i[3] <= t.seq /\ \A l \in t.leases : l.id = i => l.cluster = c

Safe(s, l) ==
    l.end <= s.end /\ s.committed <= l.committed_end /\ l.progress_end <= s.consumed

Views(j, t) == \A s \in Mine(j), l \in t.leases : s.id = l.id => Safe(s, l)

\* A heartbeat, and what is to be committed, is behind the session; the
\* coordinator's view in an answer is behind the coordinator.
Reports(j, t) ==
    /\ \A s \in Mine(j) : s.id \in DOMAIN j.beat.progress => j.beat.progress[s.id] <= s.consumed
    /\ \A l \in t.leases : l.id \in DOMAIN j.beat.view => l.end <= j.beat.view[l.id]

Commits(j, t) ==
    /\ \A g \in j.targets, s \in Mine(j) : g.id = s.id => g.consumed <= s.consumed
    /\ j.commit.at # "idle" =>
         \A s \in Mine(j) : s.id = j.commit.id => j.commit.through <= s.consumed
    /\ j.commit.at = "answered" /\ ~j.commit.gone =>
         \A l \in t.leases : l.id = j.commit.id => j.commit.through <= l.committed_end

JobInv(j, c, t) ==
    Parted(j) /\ Entitled(j, c, t) /\ Views(j, t) /\ Reports(j, t) /\ Commits(j, t)

SessionInv ==
    /\ Inv(table)
    /\ JobTypeOK
    /\ \A c \in Job : JobInv(job[c], c, table)

-----------------------------------------------------------------------------
(* A session's coordinator is a LeaseTable                                 *)

\* What an acquire of the session may leave, one of the table's may.
LEMMA ServedIsAcquire ==
  ASSUME Inv(table), NEW c \in Cluster, Served(c)
  PROVE  AcquireFree(c) \/ AcquireStolen(c) \/ AcquireNothing(c)
<1> DEFINE t == AcquireBase(c)
           sizes == GrantSizes(t, c, PhaseBlocks)
           free == UNION {TakeNear(t.free, t.clusters[c].cursor, want) : want \in sizes}
           plans == IF AllowStealing THEN UNION {StealPlans(t, c, want) : want \in sizes} ELSE {}
<1>1. PICK after \in AcquireOutcomes(c) : after.seq <= MaxSeq /\ table' = after
  BY DEF Served
<1>2. sizes \subseteq Wanted(t, c)
  BY SessionAssumption DEF Wanted
<1>3. t \in Table
  BY AcquireBaseInv, InvCoverage
<1>4. sizes # {}
  <2>1. CASE Cardinality(t.free) > 0
    <3>1. IsFiniteSet(t.free)
      BY <1>3, BlocksFinite, FS_Subset DEF Table
    <3>2. 0 \in 0 .. Cardinality(t.free)
      BY <3>1, FS_CardinalityType
    <3>. QED  BY <3>2 DEF GrantSizes
  <2>2. CASE ~(Cardinality(t.free) > 0)
    BY <2>2 DEF GrantSizes
  <2>. QED  BY <2>1, <2>2
<1>5. after \in IF t.free # {}
                THEN {Granted([t EXCEPT !.free = @ \ Covered(s)], c, s) : s \in free}
                ELSE IF plans # {}
                THEN {Granted(Robbed(t, p[1], p[2]), c, StolenSpans(p[1], p[2])) : p \in plans}
                ELSE {t}
  BY <1>1 DEF AcquireOutcomes
<1>. HIDE DEF t, sizes
<1>6. CASE t.free # {}
  <2>0. PICK s \in free : after = Granted([t EXCEPT !.free = @ \ Covered(s)], c, s)
    BY <1>5, <1>6
  <2>1. PICK want \in sizes : s \in TakeNear(t.free, t.clusters[c].cursor, want)
    BY <2>0
  <2>2. after.seq = t.seq + Len(s)
    BY <2>0, <1>3 DEF Granted, Table
  <2>. QED  BY <1>1, <1>2, <2>0, <2>1, <2>2 DEF AcquireFree, t
<1>7. CASE t.free = {} /\ plans # {}
  <2>1. PICK p \in plans :
          after = Granted(Robbed(t, p[1], p[2]), c, StolenSpans(p[1], p[2]))
    BY <1>5, <1>7
  <2>2. AllowStealing /\ \E want \in sizes : p \in StealPlans(t, c, want)
    BY <2>1
  <2>3. after.seq = t.seq + Len(StolenSpans(p[1], p[2]))
    BY <2>1, <1>3 DEF Granted, Robbed, Table
  <2>. QED  BY <1>1, <1>2, <1>7, <2>1, <2>2, <2>3 DEF AcquireStolen, t
<1>8. CASE t.free = {} /\ plans = {}
  <2>1. after = t
    BY <1>5, <1>8
  <2>2. PICK want \in sizes : TRUE
    BY <1>4
  <2>3. AllowStealing => StealPlans(t, c, want) = {}
    BY <1>8
  <2>. QED  BY <1>1, <1>2, <1>8, <2>1, <2>2, <2>3 DEF AcquireNothing, t
<1>. QED  BY <1>6, <1>7, <1>8

\* Of a report, only what is said of the cluster's own leases counts.
LEMMA BeatIsHeartbeat ==
  ASSUME Inv(table), NEW c \in Cluster, NEW progress \in Report, Heartbeat(c, progress)
  PROVE  \E held \in SUBSET Holding(table, c) :
           \E p \in [{l.id : l \in held} -> Watermarks] : Heartbeat(c, p)
<1> DEFINE r == Registered(Reaped(table), c, NoIncarnation)
           held == {l \in Holding(table, c) : l.id \in DOMAIN progress}
           p == [i \in {l.id : l \in held} |-> progress[i]]
           Mine1(l) == l.cluster = c /\ l.epoch = r.epoch /\ l.id \in DOMAIN progress
           Mine2(l) == l.cluster = c /\ l.epoch = r.epoch /\ l.id \in DOMAIN p
           Renew1(l) == [l EXCEPT !.progress_end = Reported(l, progress[l.id]), !.overdue = FALSE]
           Renew2(l) == [l EXCEPT !.progress_end = Reported(l, p[l.id]), !.overdue = FALSE]
<1>1. PICK I \in SUBSET LeaseId : progress \in [I -> Watermarks]
  BY DEF Report
<1>2. p \in [{l.id : l \in held} -> Watermarks]
  BY <1>1
<1>3. r.leases \subseteq table.leases
  <2>1. table \in Table /\ Reaped(table) \in Table
    BY ReapedInv, InvCoverage
  <2>2. Reaped(table).leases \subseteq table.leases
    BY <2>1 DEF Reaped, Reclaimed, Table
  <2>3. r.leases = Reaped(table).leases
    BY <2>1 DEF Registered, Table
  <2>. QED  BY <2>2, <2>3
<1>. HIDE DEF r
<1>4. ASSUME NEW l \in r.leases
      PROVE  Mine1(l) <=> Mine2(l)
  BY <1>3, <1>4 DEF Holding
<1>5. ASSUME NEW l \in r.leases, Mine1(l)
      PROVE  Renew1(l) = Renew2(l)
  <2>1. l.id \in DOMAIN p
    BY <1>4, <1>5
  <2>2. p[l.id] = progress[l.id]
    BY <2>1
  <2>. HIDE DEF p
  <2>. QED  BY <2>2
<1>6. Heartbeat(c, p)
  <2>1. table' = Renewed(r, c, progress)
    BY DEF Heartbeat, r
  <2>2. Renewed(r, c, progress) =
          [r EXCEPT !.leases = {l \in r.leases : ~Mine1(l)}
                               \cup {Renew1(l) : l \in {m \in r.leases : Mine1(m)}}]
    BY DEF Renewed
  <2>3. Renewed(r, c, p) =
          [r EXCEPT !.leases = {l \in r.leases : ~Mine2(l)}
                               \cup {Renew2(l) : l \in {m \in r.leases : Mine2(m)}}]
    BY DEF Renewed
  <2>. HIDE DEF Mine1, Mine2, Renew1, Renew2, p
  <2>4. {l \in r.leases : ~Mine1(l)} = {l \in r.leases : ~Mine2(l)}
    BY <1>4
  <2>5. {Renew1(l) : l \in {m \in r.leases : Mine1(m)}}
          = {Renew2(l) : l \in {m \in r.leases : Mine2(m)}}
    BY <1>4, <1>5
  <2>6. table' = Renewed(r, c, p)
    BY <2>1, <2>2, <2>3, <2>4, <2>5
  <2>. QED  BY <2>6 DEF Heartbeat, r
<1>7. held \in SUBSET Holding(table, c)
  OBVIOUS
<1>. QED  BY <1>2, <1>6, <1>7

\* Reclaiming no lease leaves the table as it is.
LEMMA ReclaimNothing ==
  ASSUME NEW t \in Table, NEW count \in BOOLEAN
  PROVE  Reclaimed(t, {}, count) = t
<1> DEFINE tail == UNION {Outstanding(l) : l \in {}}
           tried == [b \in Blocks |-> IF count /\ b \in tail THEN t.attempts[b] + 1
                                      ELSE t.attempts[b]]
           bad == {b \in tail : count /\ Exhausted(tried[b])}
<1>1. tail = {} /\ bad = {}
  OBVIOUS
<1>2. tried = t.attempts
  BY <1>1 DEF Table
<1>3. Fill(Fill(t.state, {}, UNASSIGNED), {}, QUARANTINED) = t.state
  BY DEF Fill, Table
<1>4. Cardinality({}) = 0
  BY FS_EmptySet
<1>5. Reclaimed(t, {}, count) =
        [t EXCEPT !.leases = t.leases \ {}, !.attempts = tried,
                  !.state = Fill(Fill(t.state, tail \ bad, UNASSIGNED), bad, QUARANTINED),
                  !.free = t.free \cup (tail \ bad),
                  !.quarantined = t.quarantined + Cardinality(bad)]
  BY DEF Reclaimed
<1>. HIDE DEF tail, tried, bad
<1>6. tail \ bad = {} /\ t.leases \ {} = t.leases /\ t.free \cup (tail \ bad) = t.free
  BY <1>1
<1>7. t.quarantined + Cardinality(bad) = t.quarantined
  BY <1>1, <1>4 DEF Table
<1>8. Reclaimed(t, {}, count) =
        [t EXCEPT !.leases = t.leases, !.attempts = t.attempts, !.state = t.state,
                  !.free = t.free, !.quarantined = t.quarantined]
  BY <1>1, <1>2, <1>3, <1>5, <1>6, <1>7
<1>. QED  BY <1>8 DEF Table

\* Releasing all that a cluster holds, refused or not, is a step of the table or none.
LEMMA ReleaseIsRelease ==
  ASSUME Inv(table), NEW c \in Cluster, NEW inc, NEW count \in BOOLEAN,
         table' = IF MayReleaseAll(table, c, inc)
                  THEN Reclaimed(table, Holding(table, c), count) ELSE table
  PROVE  [Next]_table
<1>1. table \in Table
  BY InvCoverage
<1>2. CASE ~MayReleaseAll(table, c, inc) \/ Holding(table, c) = {}
  BY <1>1, <1>2, ReclaimNothing
<1>3. CASE MayReleaseAll(table, c, inc) /\ Holding(table, c) # {}
  <2> DEFINE holder == table.clusters[c].incarnation
  <2>1. holder \in Incarnation \cup {NoIncarnation}
    BY <1>1 DEF Table, ClusterRecord
  <2>2. ReleaseAll(c, holder, count)
    BY <1>3 DEF ReleaseAll, MayReleaseAll
  <2>. QED  BY <2>1, <2>2 DEF Next
<1>. QED  BY <1>2, <1>3

\* What the coordinator does for a session, a peer or by itself is a step of
\* the lease table, or changes nothing of it.
LEMMA TableStep ==
  ASSUME Inv(table), JobTypeOK, [SessionNext]_sessionVars
  PROVE  [Next]_table
<1>0. Job \subseteq Cluster /\ table \in Table /\ Ordered(table)
  BY SessionAssumption, InvCoverage
<1>1. ASSUME NEW c \in Job, ServeAcquire(c) \/ ServeFetch(c)
      PROVE  [Next]_table
  BY <1>0, <1>1, ServedIsAcquire DEF ServeAcquire, ServeFetch, Next
<1>2. ASSUME NEW c \in Job, ServeCommit(c)
      PROVE  [Next]_table
  <2> DEFINE m == job[c].commit
             lease == {l \in table.leases : l.id = m.id}
  <2>1. m.through \in Watermarks
    BY DEF JobTypeOK, JobState, CommitCall
  <2>2. CASE lease = {}
    BY <1>2, <2>2 DEF ServeCommit
  <2>3. CASE lease # {}
    <3> DEFINE l == CHOOSE x \in lease : TRUE
    <3>1. l \in table.leases
      BY <2>3
    <3>2. Commit(l, m.through)
      BY <1>2, <2>3 DEF ServeCommit
    <3>. HIDE DEF l, m
    <3>. QED  BY <2>1, <3>1, <3>2 DEF Next
  <2>. QED  BY <2>2, <2>3
<1>3. ASSUME NEW c \in Job, ServeBeat(c)
      PROVE  [Next]_table
  <2>1. job[c].beat.progress \in Report
    BY DEF JobTypeOK, JobState, Beat
  <2>2. Heartbeat(c, job[c].beat.progress)
    BY <1>3 DEF ServeBeat
  <2>. QED  BY <1>0, <2>1, <2>2, BeatIsHeartbeat DEF Next
<1>4. ASSUME NEW c \in Job, ServeRelease(c)
      PROVE  [Next]_table
  <2>1. job[c].exhausted \in BOOLEAN
    BY DEF JobTypeOK, JobState
  <2>. QED  BY <1>0, <1>4, <2>1, ReleaseIsRelease DEF ServeRelease
<1>5. ASSUME NEW c \in Job, Start(c)
      PROVE  [Next]_table
  <2>1. job[c].life + 1 \in Incarnation
    BY <1>5, SessionAssumption DEF JobTypeOK, JobState, Start
  <2>. QED  BY <1>0, <1>5, <2>1 DEF Start, Next
<1>6. ASSUME NEW c \in Job, Terminate(c)
      PROVE  [Next]_table
  <2>1. table' = IF MayReleaseAll(table, c, job[c].life)
                 THEN Reclaimed(table, Holding(table, c), TRUE) ELSE table
    BY <1>6 DEF Terminate, ReleaseAll
  <2>. QED  BY <1>0, <2>1, ReleaseIsRelease
<1>7. ASSUME NEW c \in Job, Silence(c)
      PROVE  [Next]_table
  BY <1>0, <1>7 DEF Silence, Next
<1>8. ASSUME NEW c \in Cluster, Peer(c)
      PROVE  [Next]_table
  <2>1. CASE Served(c)
    BY <2>1, ServedIsAcquire DEF Next
  <2>2. CASE Heartbeat(c, [id \in {l.id : l \in Holding(table, c)} |-> NumBlocks])
    <3>1. Holding(table, c) \in SUBSET Holding(table, c)
      OBVIOUS
    <3>2. [id \in {l.id : l \in Holding(table, c)} |-> NumBlocks]
            \in [{l.id : l \in Holding(table, c)} -> Watermarks]
      BY PoolAssumption DEF Watermarks
    <3>. QED  BY <2>2, <3>1, <3>2 DEF Next
  <2>3. CASE \E l \in Holding(table, c) : Commit(l, l.end)
    <3>1. PICK l \in Holding(table, c) : Commit(l, l.end)
      BY <2>3
    <3>2. l \in table.leases /\ l.end \in Watermarks
      BY <1>0, <3>1, PoolAssumption DEF Holding, Watermarks, Ordered, Table, Lease
    <3>. QED  BY <3>1, <3>2 DEF Next
  <2>. QED  BY <1>8, <2>1, <2>2, <2>3 DEF Peer
<1>9. ASSUME NEW l \in table.leases, Lapse(l)
      PROVE  [Next]_table
  BY <1>9 DEF Lapse, Next
<1>10. CASE Tick
  BY <1>10 DEF Tick, Next
<1>11. ASSUME NEW c \in Job, Main(c), ~ServeAcquire(c), ~ServeCommit(c), ~ServeRelease(c)
       PROVE  [Next]_table
  BY <1>11 DEF Main, TakePrefetched, Ask, AcquireAnswered, NotePhase, TrainStep, EndOfPhase,
               SaveThenCommit, SendCommit, CommitAnswered, CommitsDone, ReleaseAnswered
<1>12. ASSUME NEW c \in Job, Fetcher(c) \/ Beater(c), ~ServeFetch(c), ~ServeBeat(c)
       PROVE  [Next]_table
  BY <1>12 DEF Fetcher, Beater, FetchAnswered, FetchStored, SendBeat, ApplyBeat
<1>13. ASSUME NEW c \in Job, FetchFailed(c) \/ CommitRetried(c) \/ CommitFailed(c) \/ Crash(c)
       PROVE  [Next]_table
  BY <1>13 DEF FetchFailed, CommitRetried, CommitFailed, Crash
<1>14. CASE UNCHANGED sessionVars
  BY <1>14 DEF sessionVars
<1>15. CASE SessionNext
  BY <1>1, <1>2, <1>3, <1>4, <1>5, <1>6, <1>7, <1>8, <1>9, <1>10, <1>11, <1>12, <1>13, <1>15
  DEF SessionNext
<1>. QED  BY <1>14, <1>15

-----------------------------------------------------------------------------
(* Types of what a step builds                                             *)

\* The places where a job can hold spans are sets of spans.
LEMMA PlacesType ==
  ASSUME NEW spans \in SUBSET Held
  PROVE  Places(spans) \in SUBSET Place
<1>1. ASSUME NEW s \in spans, NEW b \in s.start .. s.end - 1
      PROVE  <<s.id[1], b>> \in Place
  <2>1. /\ s.id[1] \in Nat /\ s.start \in Nat /\ s.end \in Nat /\ s.end <= NumBlocks
    BY DEF Held, Span
  <2>2. b \in Blocks
    BY <2>1, PoolAssumption DEF Blocks
  <2>. QED  BY <2>1, <2>2 DEF Place
<1>. QED  BY <1>1 DEF Places

\* The span made of a lease of the table is a span of the session.
LEMMA NewSpanType ==
  ASSUME NEW t \in Table, Ordered(t), NEW l \in t.leases
  PROVE  NewSpan(l) \in Held
<1>1. l \in Lease /\ l.start \in Nat /\ l.end \in Nat /\ l.start <= l.committed_end
        /\ l.committed_end < l.end /\ l.end <= NumBlocks /\ l.committed_end \in Nat
  BY DEF Table, Lease, Ordered
<1>2. l.start <= NumBlocks
  BY <1>1, PoolAssumption
<1>. QED  BY <1>1, <1>2 DEF NewSpan, Held, Span, Lease

\* An answer to a call is a call record again.
LEMMA AnswerType ==
  ASSUME NEW t \in Table, NEW r \in Table, Ordered(r)
  PROVE  AnswerOf(t, r) \in Call
<1>1. \A l \in r.leases : NewSpan(l) \in Held
  BY NewSpanType
<1>. QED  BY <1>1 DEF AnswerOf, Call, CallStage, CallStatus

\* The empty call and the empty commit are of their types.
LEMMA NothingTypes ==
  /\ NoCall \in Call /\ [NoCall EXCEPT !.at = "sent"] \in Call
  /\ NoGrant \in Grant /\ NoBeat \in Beat /\ NoCommit \in CommitCall
<1>1. <<>> \in Report
  <2>1. <<>> \in [{} -> Watermarks] /\ {} \in SUBSET LeaseId
    OBVIOUS
  <2>. QED  BY <2>1 DEF Report
<1>2. <<0, 0, 0>> \in LeaseId /\ 0 \in Watermarks
  BY PoolAssumption DEF LeaseId, Watermarks
<1>. QED  BY <1>1, <1>2 DEF NoCall, Call, CallStage, CallStatus, NoGrant, Grant, NoBeat, Beat,
                            NoCommit, CommitCall

\* The record of a process that has just started is a job.
LEMMA NewJobType ==
  ASSUME NEW life \in 0 .. MaxLives, NEW since \in Nat
  PROVE  NewJob(life, since) \in JobState /\ Dead(life) \in JobState
<1>1. ASSUME NEW n \in Nat
      PROVE  NewJob(life, n) \in JobState
  <2>1. 0 \in 0 .. InnerSteps /\ "next" \in MainStage
    BY SessionAssumption DEF MainStage
  <2>. QED  BY <2>1, NothingTypes DEF NewJob, JobState
<1>2. "done" \in MainStage /\ NewJob(life, 0) \in JobState
  BY <1>1 DEF MainStage
<1>3. Dead(life) \in JobState
  BY <1>2 DEF Dead, JobState
<1>. QED  BY <1>1, <1>3

\* Taking a phase leaves a job.
LEMMA TakesPhaseType ==
  ASSUME NEW j \in JobState, NEW spans \in SUBSET Held
  PROVE  TakesPhase(j, spans) \in JobState
<1> DEFINE known == {s \in j.spans : \E g \in spans : g.id = s.id}
           lost == {g \in spans : Named(j.spans, g.id) = {}}
<1>1. known \cup lost \in SUBSET Held
  BY DEF JobState
<1>2. Places(known \cup lost) \in SUBSET Place
  BY <1>1, PlacesType
<1>3. TakesPhase(j, spans) = [j EXCEPT !.main = "note", !.phase = known \cup lost,
                                       !.todo = Places(known \cup lost)]
  BY DEF TakesPhase
<1>. HIDE DEF known, lost
<1>. QED  BY <1>1, <1>2, <1>3 DEF JobState, MainStage

-----------------------------------------------------------------------------
(* What a step may do to a job                                             *)

\* j with what it holds, or knows, reduced or moved from one place to another.
LEMMA Forgetting ==
  ASSUME NEW c, NEW t, NEW j, NEW k, JobInv(j, c, t),
         Mine(k) \subseteq Mine(j), Parted(k), k.targets \subseteq j.targets,
         k.beat = j.beat \/ k.beat = NoBeat,
         k.commit = j.commit \/ k.commit.at = "idle"
  PROVE  JobInv(k, c, t)
<1>1. DOMAIN NoBeat.progress = {} /\ DOMAIN NoBeat.view = {}
  BY DEF NoBeat
<1>2. \A i : Mentions(k, i) => Mentions(j, i)
  BY <1>1 DEF Mentions
<1>3. Entitled(k, c, t)
  BY <1>2 DEF JobInv, Entitled
<1>4. Views(k, t)
  BY DEF JobInv, Views
<1>5. Reports(k, t)
  BY <1>1 DEF JobInv, Reports
<1>6. Commits(k, t)
  BY DEF JobInv, Commits
<1>. QED  BY <1>3, <1>4, <1>5, <1>6 DEF JobInv

\* Fewer spans in the same places stay apart.
LEMMA FewerParted ==
  ASSUME NEW j, NEW k, Parted(j),
         k.spans \subseteq j.spans, k.acquire.spans \subseteq j.acquire.spans,
         Fetched(k) \subseteq Fetched(j)
  PROVE  Parted(k) /\ Mine(k) \subseteq Mine(j)
BY DEF Parted, OneView, Mine

\* The session's spans are brought up to date.
LEMMA Updating ==
  ASSUME NEW c, NEW t, NEW j, NEW k, JobInv(j, c, t),
         k.acquire = j.acquire, k.fetch = j.fetch, k.targets = j.targets,
         k.beat = j.beat, k.commit = j.commit, OneView(k.spans),
         \A s \in k.spans : \E u \in j.spans :
            /\ s.id = u.id /\ u.consumed <= s.consumed
            /\ u.consumed \in Nat /\ s.consumed \in Nat
            /\ \A l \in t.leases : l.id = s.id => Safe(s, l),
         j \in JobState
  PROVE  JobInv(k, c, t)
<1>1. Fetched(k) = Fetched(j)
  BY DEF Fetched
<1>2. ASSUME NEW s \in Mine(k)
      PROVE  \E u \in Mine(j) : s.id = u.id /\ u.consumed <= s.consumed
                                /\ u.consumed \in Nat /\ s.consumed \in Nat
  <2>1. CASE s \in k.spans
    BY <2>1 DEF Mine
  <2>2. CASE s \in j.acquire.spans \cup Fetched(j)
    <3>1. s \in Held
      BY <2>2 DEF Fetched, JobState, Call
    <3>2. s.consumed \in Nat
      BY <3>1 DEF Held, Span
    <3>. QED  BY <2>2, <3>2 DEF Mine
  <2>. QED  BY <1>1, <2>1, <2>2 DEF Mine
<1>3. Parted(k)
  <2>1. \A s \in k.spans, u \in j.acquire.spans \cup Fetched(j) : s.id # u.id
    BY DEF JobInv, Parted, OneView, Mine
  <2>2. OneView(Mine(k))
    BY <1>1, <2>1 DEF OneView, Mine, JobInv, Parted
  <2>. QED  BY <1>1, <2>1, <2>2 DEF Parted, JobInv
<1>4. \A i : Mentions(k, i) => Mentions(j, i)
  BY <1>2 DEF Mentions
<1>5. Entitled(k, c, t)
  BY <1>4 DEF JobInv, Entitled
<1>6. Views(k, t)
  BY <1>1 DEF JobInv, Views, Mine
<1>7. Reports(k, t)
  <2>1. ASSUME NEW s \in Mine(k), s.id \in DOMAIN j.beat.progress
        PROVE  j.beat.progress[s.id] <= s.consumed
    <3>1. PICK u \in Mine(j) : s.id = u.id /\ u.consumed <= s.consumed
                               /\ u.consumed \in Nat /\ s.consumed \in Nat
      BY <1>2
    <3>2. j.beat.progress[s.id] <= u.consumed
      BY <2>1, <3>1 DEF JobInv, Reports
    <3>3. j.beat.progress[s.id] \in Nat
      BY <2>1, PoolAssumption DEF JobState, Beat, Report, Watermarks
    <3>. QED  BY <3>1, <3>2, <3>3
  <2>. QED  BY <2>1 DEF JobInv, Reports
<1>8. Commits(k, t)
  <2>1. ASSUME NEW g \in j.targets, NEW s \in Mine(k), g.id = s.id
        PROVE  g.consumed <= s.consumed
    <3>1. PICK u \in Mine(j) : s.id = u.id /\ u.consumed <= s.consumed
                               /\ u.consumed \in Nat /\ s.consumed \in Nat
      BY <1>2
    <3>2. g.consumed <= u.consumed /\ g.consumed \in Nat
      BY <2>1, <3>1 DEF JobInv, Commits, JobState, Held, Span
    <3>. QED  BY <3>1, <3>2
  <2>2. ASSUME j.commit.at # "idle", NEW s \in Mine(k), s.id = j.commit.id
        PROVE  j.commit.through <= s.consumed
    <3>1. PICK u \in Mine(j) : s.id = u.id /\ u.consumed <= s.consumed
                               /\ u.consumed \in Nat /\ s.consumed \in Nat
      BY <1>2
    <3>2. j.commit.through <= u.consumed
      BY <2>2, <3>1 DEF JobInv, Commits
    <3>3. j.commit.through \in Nat
      BY PoolAssumption DEF JobState, CommitCall, Watermarks
    <3>. QED  BY <3>1, <3>2, <3>3
  <2>. QED  BY <2>1, <2>2 DEF JobInv, Commits
<1>. QED  BY <1>3, <1>5, <1>6, <1>7, <1>8 DEF JobInv

\* The table moves on, and reports nothing beyond what the session has consumed.
LEMMA TableMoves ==
  ASSUME NEW t \in Table, NEW r \in Table, DisjointIn(t), Continues(t, r),
         NEW c, NEW j \in JobState, JobInv(j, c, t),
         \A s \in Mine(j), m \in r.leases : s.id = m.id => m.progress_end <= s.consumed
  PROVE  JobInv(j, c, r)
<1>1. t.seq \in Nat /\ r.seq \in Nat /\ t.seq <= r.seq
  BY DEF Table, Continues
<1>2. ASSUME NEW i \in LeaseId, Mentions(j, i), NEW m \in r.leases, m.id = i
      PROVE  \E l \in t.leases : Successor(l, m) /\ l \in Lease /\ m \in Lease
  <2>1. i[3] <= t.seq /\ i[3] \in Nat
    BY <1>2 DEF JobInv, Entitled, LeaseId
  <2>. QED  BY <1>1, <1>2, <2>1 DEF Continues, Table
<1>3. Entitled(j, c, r)
  <2> SUFFICES ASSUME NEW i \in LeaseId, Mentions(j, i)
               PROVE  i[3] <= r.seq /\ \A m \in r.leases : m.id = i => m.cluster = c
    BY DEF Entitled
  <2>1. i[3] <= t.seq /\ i[3] \in Nat
    BY DEF JobInv, Entitled, LeaseId
  <2>2. ASSUME NEW m \in r.leases, m.id = i
        PROVE  m.cluster = c
    <3>1. PICK l \in t.leases : Successor(l, m)
      BY <1>2, <2>2
    <3>. QED  BY <2>2, <3>1 DEF JobInv, Entitled, Successor
  <2>. QED  BY <1>1, <2>1, <2>2
<1>4. Views(j, r)
  <2> SUFFICES ASSUME NEW s \in Mine(j), NEW m \in r.leases, s.id = m.id
               PROVE  Safe(s, m)
    BY DEF Views
  <2>1. s \in Held /\ s.id \in LeaseId /\ s.end \in Nat /\ s.committed \in Nat
    BY DEF Mine, Fetched, JobState, Call, Held, Span, LeaseId
  <2>2. PICK l \in t.leases : Successor(l, m) /\ l \in Lease /\ m \in Lease
    BY <1>2, <2>1 DEF Mentions
  <2>3. Safe(s, l)
    BY <2>2 DEF JobInv, Views, Successor
  <2>. QED  BY <2>1, <2>2, <2>3 DEF Safe, Successor, Lease
<1>5. Reports(j, r)
  <2>1. ASSUME NEW m \in r.leases, m.id \in DOMAIN j.beat.view
        PROVE  m.end <= j.beat.view[m.id]
    <3>1. m.id \in LeaseId /\ j.beat.view[m.id] \in Nat
      BY <2>1, PoolAssumption DEF Table, Lease, LeaseId, JobState, Beat, Report, Watermarks
    <3>2. PICK l \in t.leases : Successor(l, m) /\ l \in Lease /\ m \in Lease
      BY <1>2, <2>1, <3>1 DEF Mentions
    <3>3. l.end <= j.beat.view[m.id]
      BY <2>1, <3>2 DEF JobInv, Reports, Successor
    <3>. QED  BY <3>1, <3>2, <3>3 DEF Successor, Lease
  <2>. QED  BY <2>1 DEF JobInv, Reports
<1>6. Commits(j, r)
  <2>1. ASSUME j.commit.at = "answered", ~j.commit.gone,
               NEW m \in r.leases, m.id = j.commit.id
        PROVE  j.commit.through <= m.committed_end
    <3>1. m.id \in LeaseId /\ j.commit.through \in Nat
      BY PoolAssumption DEF Table, Lease, LeaseId, JobState, CommitCall, Watermarks
    <3>2. PICK l \in t.leases : Successor(l, m) /\ l \in Lease /\ m \in Lease
      BY <1>2, <2>1, <3>1 DEF Mentions
    <3>3. j.commit.through <= l.committed_end
      BY <2>1, <3>2 DEF JobInv, Commits, Successor
    <3>. QED  BY <3>1, <3>2, <3>3 DEF Successor, Lease
  <2>. QED  BY <2>1 DEF JobInv, Commits
<1>. QED  BY <1>3, <1>4, <1>5, <1>6 DEF JobInv

-----------------------------------------------------------------------------
(* Who moves the progress of a lease                                       *)

\* No lease of cluster c is reported further from t to r.
Untold(t, r, c) ==
    \A m \in r.leases, l \in t.leases :
        l.id = m.id /\ l.cluster = c => m.progress_end = l.progress_end

\* Where nothing was reported of a cluster's leases, its job's view stays safe.
LEMMA QuietMove ==
  ASSUME NEW t \in Table, NEW r \in Table, DisjointIn(t), Continues(t, r),
         NEW c, NEW j \in JobState, JobInv(j, c, t), Untold(t, r, c)
  PROVE  JobInv(j, c, r)
<1>1. ASSUME NEW s \in Mine(j), NEW m \in r.leases, s.id = m.id
      PROVE  m.progress_end <= s.consumed
  <2>1. s.id \in LeaseId
    BY DEF Mine, Fetched, JobState, Call, Held, Span, LeaseId
  <2>2. s.id[3] <= t.seq /\ s.id[3] \in Nat /\ t.seq \in Nat
    BY <2>1 DEF JobInv, Entitled, Mentions, LeaseId, Table
  <2>3. PICK l \in t.leases : Successor(l, m)
    BY <1>1, <2>2 DEF Continues
  <2>4. l.id = s.id /\ l.cluster = c
    BY <1>1, <2>1, <2>3 DEF Successor, JobInv, Entitled, Mentions
  <2>5. m.progress_end = l.progress_end
    BY <1>1, <2>4 DEF Untold
  <2>6. l.progress_end <= s.consumed
    BY <2>4 DEF JobInv, Views, Safe
  <2>. QED  BY <2>5, <2>6
<1>. QED  BY <1>1, TableMoves

\* A step that only takes leases away reports nothing of anybody's.
LEMMA FewerUntold ==
  ASSUME NEW t, DisjointIn(t), NEW r, r.leases \subseteq t.leases, NEW c
  PROVE  Untold(t, r, c)
BY DEF Untold, DisjointIn

\* A grant leaves the leases there were, and adds new ones of its cluster.
LEMMA GrantedLeases ==
  ASSUME NEW t \in Table, NEW c \in Cluster, NEW spans, WorkVector(spans),
         NEW m \in Granted(t, c, spans).leases
  PROVE  \/ m \in t.leases
         \/ /\ m.id[3] > t.seq /\ m.cluster = c
            /\ m.committed_end = m.start /\ m.progress_end = m.start
<1> DEFINE n == Len(spans)
           N(i) == [id |-> <<t.epoch, spans[i][1], t.seq + i>>,
                    cluster |-> c, epoch |-> t.epoch,
                    start |-> spans[i][1], end |-> spans[i][2],
                    committed_end |-> spans[i][1], progress_end |-> spans[i][1],
                    overdue |-> FALSE]
<1>1. Granted(t, c, spans).leases = t.leases \cup {N(i) : i \in 1 .. n}
  BY DEF Granted, Table
<1>2. n \in Nat /\ t.seq \in Nat
  BY DEF WorkVector, Table
<1>3. \A i \in 1 .. n : /\ N(i).id[3] > t.seq /\ N(i).cluster = c
                        /\ N(i).committed_end = N(i).start /\ N(i).progress_end = N(i).start
  BY <1>2
<1>. HIDE DEF N, n
<1>. QED  BY <1>1, <1>3

\* After an acquire a lease is a new one of the cluster that asked, or one
\* there was, reported as far as it was.
LEMMA ServedFacts ==
  ASSUME Inv(table), NEW c \in Cluster, Served(c)
  PROVE  \A m \in table'.leases :
           \/ /\ m.id[3] > table.seq /\ m.cluster = c
              /\ m.committed_end = m.start /\ m.progress_end = m.start
           \/ \E l \in table.leases : l.id = m.id /\ l.progress_end = m.progress_end
<1> DEFINE t == AcquireBase(c)
<1>1. t \in Table /\ Inv(t) /\ t.leases \subseteq table.leases /\ t.seq = table.seq
  BY AcquireBaseInv, AcquireBaseFewer, InvCoverage
<1>2. CASE AcquireFree(c)
  <2>1. PICK spans :
          /\ WorkVector(spans)
          /\ InvBut([t EXCEPT !.free = @ \ Covered(spans)], Covered(spans))
          /\ table' = Granted([t EXCEPT !.free = @ \ Covered(spans)], c, spans)
    BY <1>2, AcquireFreeFacts
  <2>. HIDE DEF t
  <2> DEFINE taken == [t EXCEPT !.free = @ \ Covered(spans)]
  <2>2. taken.leases = t.leases /\ taken.seq = t.seq
    BY <1>1 DEF Table
  <2>. HIDE DEF taken
  <2>3. taken \in Table /\ table' = Granted(taken, c, spans)
    BY <2>1 DEF InvBut, taken
  <2>. QED  BY <1>1, <2>1, <2>2, <2>3, GrantedLeases
<1>3. CASE AcquireStolen(c)
  <2>0. PICK n \in Nat \ {0} :
          \E victims \in [1 .. n -> t.leases], cuts \in [1 .. n -> Nat \ {0}] :
             /\ WorkVector(StolenSpans(victims, cuts))
             /\ InvBut(Robbed(t, victims, cuts), Covered(StolenSpans(victims, cuts)))
             /\ table' = Granted(Robbed(t, victims, cuts), c, StolenSpans(victims, cuts))
    BY <1>3, AcquireStolenFacts
  <2>1. PICK victims \in [1 .. n -> t.leases], cuts \in [1 .. n -> Nat \ {0}] :
             /\ WorkVector(StolenSpans(victims, cuts))
             /\ InvBut(Robbed(t, victims, cuts), Covered(StolenSpans(victims, cuts)))
             /\ table' = Granted(Robbed(t, victims, cuts), c, StolenSpans(victims, cuts))
    BY <2>0
  <2>. HIDE DEF t
  <2> DEFINE robbed == Robbed(t, victims, cuts)
  <2>2. /\ robbed.seq = t.seq
        /\ robbed.leases = (t.leases \ {victims[i] : i \in 1 .. n})
                           \cup {Cut(victims[i], cuts[i]) : i \in 1 .. n}
    BY <1>1 DEF Robbed, Table
  <2>. HIDE DEF robbed
  <2>3. robbed \in Table /\ table' = Granted(robbed, c, StolenSpans(victims, cuts))
    BY <2>1 DEF InvBut, robbed
  <2>4. ASSUME NEW m \in robbed.leases
        PROVE  \E l \in t.leases : l.id = m.id /\ l.progress_end = m.progress_end
    <3>1. CASE m \in t.leases
      BY <3>1
    <3>2. CASE \E i \in 1 .. n : m = Cut(victims[i], cuts[i])
      <4>1. PICK i \in 1 .. n : m = Cut(victims[i], cuts[i])
        BY <3>2
      <4>2. victims[i] \in t.leases /\ victims[i] \in Lease
        BY <1>1 DEF Table
      <4>. QED  BY <4>1, <4>2 DEF Cut, Lease
    <3>. QED  BY <2>2, <3>1, <3>2
  <2>5. ASSUME NEW m \in table'.leases
        PROVE  \/ m \in robbed.leases
               \/ /\ m.id[3] > table.seq /\ m.cluster = c
                  /\ m.committed_end = m.start /\ m.progress_end = m.start
    BY <1>1, <2>1, <2>2, <2>3, GrantedLeases
  <2>. QED  BY <1>1, <2>4, <2>5
<1>4. CASE AcquireNothing(c)
  <2>1. table' = t
    BY <1>4 DEF AcquireNothing
  <2>. QED  BY <1>1, <2>1
<1>. QED  BY <1>2, <1>3, <1>4, ServedIsAcquire

\* An acquire that is served reports nothing of anybody's lease.
LEMMA ServedUntold ==
  ASSUME Inv(table), NEW c \in Cluster, Served(c), NEW d
  PROVE  Untold(table, table', d)
<1>1. /\ table \in Table /\ DisjointIn(table) /\ Issued(table)
      /\ table.seq \in Nat /\ \A l \in table.leases : l.id[3] \in Nat
  BY InvCoverage DEF Table, Lease
<1>. QED  BY <1>1, ServedFacts DEF Untold, DisjointIn, Issued

\* A heartbeat moves no end, and moves the progress of its cluster's leases
\* only, up to what it says.
LEMMA BeatFacts ==
  ASSUME Inv(table), NEW c \in Cluster, NEW progress, Heartbeat(c, progress),
         \A i \in DOMAIN progress : progress[i] \in Nat
  PROVE  \A m \in table'.leases : \E l \in table.leases :
           /\ l.id = m.id /\ l.cluster = m.cluster
           /\ \/ m.progress_end = l.progress_end
              \/ /\ l.cluster = c /\ l.id \in DOMAIN progress
                 /\ m.progress_end <= progress[l.id]
<1> DEFINE r == Registered(Reaped(table), c, NoIncarnation)
           Told(l) == l.cluster = c /\ l.epoch = r.epoch /\ l.id \in DOMAIN progress
           Renew(l) == [l EXCEPT !.progress_end = Reported(l, progress[l.id]), !.overdue = FALSE]
<1>1. table \in Table /\ r \in Table /\ r.leases \subseteq table.leases
  <2>1. table \in Table /\ Reaped(table) \in Table /\ r \in Table
    BY ReapedInv, RegisteredInv, InvCoverage
  <2>2. Reaped(table).leases \subseteq table.leases
    BY <2>1 DEF Reaped, Reclaimed, Table
  <2>3. r.leases = Reaped(table).leases
    BY <2>1 DEF Registered, Table
  <2>. QED  BY <2>1, <2>2, <2>3
<1>2. table' = Renewed(r, c, progress)
  BY DEF Heartbeat
<1>. HIDE DEF r
<1>3. table'.leases = {l \in r.leases : ~Told(l)} \cup {Renew(l) : l \in {m \in r.leases : Told(m)}}
  BY <1>1, <1>2 DEF Renewed, Table
<1>4. ASSUME NEW l \in r.leases, Told(l)
      PROVE  /\ Renew(l).id = l.id /\ Renew(l).cluster = l.cluster
             /\ \/ Renew(l).progress_end = l.progress_end
                \/ Renew(l).progress_end <= progress[l.id]
  <2>1. l \in Lease /\ l.progress_end \in Nat /\ l.end \in Nat
    BY <1>1 DEF Table, Lease
  <2>2. Renew(l).progress_end = Reported(l, progress[l.id]) /\ Renew(l).id = l.id
          /\ Renew(l).cluster = l.cluster
    BY <2>1 DEF Lease
  <2>3. progress[l.id] \in Nat
    BY <1>4
  <2>4. Reported(l, progress[l.id]) = l.progress_end \/ Reported(l, progress[l.id]) <= progress[l.id]
    BY <2>1, <2>3 DEF Reported, Larger, Smaller
  <2>. QED  BY <2>2, <2>4
<1>. HIDE DEF Renew
<1>5. ASSUME NEW m \in table'.leases
      PROVE  \E l \in r.leases :
               /\ l.id = m.id /\ l.cluster = m.cluster
               /\ \/ m.progress_end = l.progress_end
                  \/ /\ l.cluster = c /\ l.id \in DOMAIN progress
                     /\ m.progress_end <= progress[l.id]
  <2>1. CASE m \in r.leases
    BY <2>1
  <2>2. CASE m \in {Renew(l) : l \in {x \in r.leases : Told(x)}}
    <3>1. PICK l \in r.leases : Told(l) /\ m = Renew(l)
      BY <2>2
    <3>. QED  BY <1>4, <3>1
  <2>. QED  BY <1>3, <2>1, <2>2
<1>. QED  BY <1>1, <1>5

\* A commit touches no other lease, and leaves its own committed through the
\* watermark and reported no further than that, if at all.
LEMMA CommitFacts ==
  ASSUME NEW t \in Table, NEW l \in t.leases, NEW w \in Nat,
         NEW m \in Committed(t, l, w).leases
  PROVE  \/ m \in t.leases /\ m # l
         \/ /\ m.id = l.id /\ m.cluster = l.cluster /\ w <= m.committed_end
            /\ m.progress_end = l.progress_end \/ m.progress_end <= w
<1> DEFINE through == Settled(l, w)
           progress == IF through - l.committed_end > 0 THEN Larger(l.progress_end, through)
                       ELSE l.progress_end
           kept == [l EXCEPT !.committed_end = through, !.progress_end = progress]
<1>1. Committed(t, l, w).leases = (t.leases \ {l}) \cup (IF through >= l.end THEN {} ELSE {kept})
  BY DEF Committed, Table
<1>2. /\ l \in Lease /\ l.committed_end \in Nat /\ l.end \in Nat
      /\ l.progress_end \in Nat
  BY DEF Table, Lease
<1>3. kept.id = l.id /\ kept.cluster = l.cluster /\ kept.committed_end = through
        /\ kept.progress_end = progress
  BY <1>2 DEF Lease
<1>4. through < l.end => w <= through
  BY <1>2 DEF Settled, Larger, Smaller
<1>5. progress = l.progress_end \/ progress <= w
  BY <1>2 DEF Settled, Larger, Smaller
<1>6. through \in Int
  BY <1>2 DEF Settled, Larger, Smaller
<1>. HIDE DEF kept, through, progress
<1>. QED  BY <1>1, <1>2, <1>3, <1>4, <1>5, <1>6

-----------------------------------------------------------------------------
(* From a job to the session                                               *)

\* A job that forgets some of its spans, and otherwise stays, is as safe as it was.
LEMMA ForgettingSome ==
  ASSUME NEW c, NEW t, NEW j, NEW k, JobInv(j, c, t),
         k.spans \subseteq j.spans, k.acquire.spans \subseteq j.acquire.spans,
         Fetched(k) \subseteq Fetched(j), k.targets \subseteq j.targets,
         k.beat = j.beat \/ k.beat = NoBeat,
         k.commit = j.commit \/ k.commit.at = "idle"
  PROVE  JobInv(k, c, t)
<1>1. Parted(k) /\ Mine(k) \subseteq Mine(j)
  BY FewerParted DEF JobInv
<1>. QED  BY <1>1, Forgetting

\* Taking a phase leaves the views alone.
LEMMA TakesPhaseKeeps ==
  ASSUME NEW j \in JobState, NEW spans
  PROVE  LET k == TakesPhase(j, spans)
         IN  /\ k.spans = j.spans /\ k.acquire = j.acquire /\ k.fetch = j.fetch
             /\ k.targets = j.targets /\ k.beat = j.beat /\ k.commit = j.commit
             /\ k.prefetch = j.prefetch
BY DEF TakesPhase, JobState

\* A job steps and the table does not.
LEMMA LocalStep ==
  ASSUME SessionInv, NEW c \in Job, NEW k \in JobState, job' = [job EXCEPT ![c] = k],
         table' = table, disk' \in [Cluster -> SUBSET Place], JobInv(k, c, table)
  PROVE  SessionInv'
<1>1. JobTypeOK'
  BY DEF SessionInv, JobTypeOK
<1>2. \A d \in Job : JobInv(job'[d], d, table')
  BY DEF SessionInv, JobTypeOK
<1>3. Inv(table')
  BY DEF SessionInv
<1>. QED  BY <1>1, <1>2, <1>3 DEF SessionInv

\* A step keeps the table's invariant, and its leases are new or continue old ones.
LEMMA TableGoesOn ==
  ASSUME SessionInv, [SessionNext]_sessionVars
  PROVE  /\ Inv(table) /\ Inv(table') /\ table \in Table /\ table' \in Table
         /\ DisjointIn(table) /\ Continues(table, table')
<1>1. [Next]_table
  BY TableStep DEF SessionInv
<1>2. Inv(table) /\ Inv(table') /\ table \in Table /\ table' \in Table /\ DisjointIn(table)
  BY <1>1, StepInv, InvCoverage DEF SessionInv
<1>3. CASE Next
  BY <1>2, <1>3, StepContinues
<1>4. CASE table' = table
  BY <1>2, <1>4, FewerContinue
<1>. QED  BY <1>1, <1>2, <1>3, <1>4

\* The table steps, a job may, and nothing is reported of anybody else.
LEMMA SharedStep ==
  ASSUME SessionInv, SessionNext, NEW c \in Job, NEW k \in JobState,
         job' = [job EXCEPT ![c] = k], disk' \in [Cluster -> SUBSET Place],
         JobInv(k, c, table'), \A d \in Job \ {c} : Untold(table, table', d)
  PROVE  SessionInv'
<1>1. JobTypeOK'
  BY DEF SessionInv, JobTypeOK
<1>2. Inv(table')
  BY TableGoesOn
<1>3. ASSUME NEW d \in Job \ {c}
      PROVE  JobInv(job'[d], d, table')
  <2>1. job[d] \in JobState /\ job'[d] = job[d] /\ JobInv(job[d], d, table)
    BY DEF SessionInv, JobTypeOK
  <2>. QED  BY <2>1, TableGoesOn, QuietMove
<1>4. job'[c] = k
  BY DEF SessionInv, JobTypeOK
<1>. QED  BY <1>1, <1>2, <1>3, <1>4 DEF SessionInv

\* The table steps, no job does, and nothing is reported of a job's leases.
LEMMA QuietStep ==
  ASSUME SessionInv, SessionNext, job' = job, disk' \in [Cluster -> SUBSET Place],
         \A d \in Job : Untold(table, table', d)
  PROVE  SessionInv'
<1>1. JobTypeOK'
  BY DEF SessionInv, JobTypeOK
<1>2. Inv(table')
  BY TableGoesOn
<1>3. ASSUME NEW d \in Job
      PROVE  JobInv(job'[d], d, table')
  <2>1. job[d] \in JobState /\ job'[d] = job[d] /\ JobInv(job[d], d, table)
    BY DEF SessionInv, JobTypeOK
  <2>. QED  BY <2>1, TableGoesOn, QuietMove
<1>. QED  BY <1>1, <1>2, <1>3 DEF SessionInv

-----------------------------------------------------------------------------
(* The steps of main and of the prefetch thread                            *)

\* Main takes the span prefetched for it.
LEMMA TakePrefetchedStep ==
  ASSUME SessionInv, NEW c \in Job, TakePrefetched(c)
  PROVE  SessionInv'
<1> DEFINE j == job[c]
           took == TakesPhase(j, j.prefetch.spans)
           k == [took EXCEPT !.prefetch = NoGrant]
<1>1. j \in JobState /\ JobInv(j, c, table)
  BY DEF SessionInv, JobTypeOK
<1>2. job' = [job EXCEPT ![c] = k] /\ table' = table /\ disk' \in [Cluster -> SUBSET Place]
  BY DEF TakePrefetched, SessionInv, JobTypeOK
<1>3. took \in JobState
  BY <1>1, TakesPhaseType DEF JobState, Grant
<1>4. /\ took.spans = j.spans /\ took.acquire = j.acquire /\ took.fetch = j.fetch
      /\ took.targets = j.targets /\ took.beat = j.beat /\ took.commit = j.commit
  BY <1>1, TakesPhaseKeeps
<1>. HIDE DEF took, j
<1>5. k \in JobState
  BY <1>3, NothingTypes DEF JobState
<1>6. JobInv(k, c, table)
  <2>1. /\ k.spans = j.spans /\ k.acquire = j.acquire /\ k.fetch = j.fetch
        /\ k.targets = j.targets /\ k.beat = j.beat /\ k.commit = j.commit
    BY <1>3, <1>4 DEF JobState
  <2>. HIDE DEF k
  <2>. QED  BY <1>1, <2>1, ForgettingSome DEF Fetched
<1>. QED  BY <1>2, <1>5, <1>6, LocalStep

\* Main or the prefetch thread asks the coordinator for blocks.
LEMMA AskStep ==
  ASSUME SessionInv, NEW c \in Job, Ask(c)
  PROVE  SessionInv'
<1> DEFINE j == job[c]
           k == [j EXCEPT !.main = "acquire",
                          !.prefetch = IF j.main = "next" THEN NoGrant ELSE j.prefetch,
                          !.acquire = [NoCall EXCEPT !.at = "sent"]]
<1>1. j \in JobState /\ JobInv(j, c, table)
  BY DEF SessionInv, JobTypeOK
<1>2. job' = [job EXCEPT ![c] = k] /\ table' = table /\ disk' \in [Cluster -> SUBSET Place]
  BY DEF Ask, SessionInv, JobTypeOK
<1>. HIDE DEF j
<1>3. k \in JobState
  BY <1>1, NothingTypes DEF JobState, MainStage
<1>4. JobInv(k, c, table)
  <2>1. /\ k.spans = j.spans /\ k.acquire.spans = {} /\ k.fetch = j.fetch
        /\ k.targets = j.targets /\ k.beat = j.beat /\ k.commit = j.commit
    BY <1>1 DEF JobState, NoCall
  <2>. HIDE DEF k
  <2>. QED  BY <1>1, <2>1, ForgettingSome DEF Fetched
<1>. QED  BY <1>2, <1>3, <1>4, LocalStep

\* What main was answered is now in the session.
LEMMA GotAcquire ==
  ASSUME NEW c, NEW t, NEW j \in JobState, JobInv(j, c, t)
  PROVE  LET got == [j EXCEPT !.spans = @ \cup j.acquire.spans, !.acquire = NoCall]
         IN  got \in JobState /\ JobInv(got, c, t)
<1> DEFINE got == [j EXCEPT !.spans = @ \cup j.acquire.spans, !.acquire = NoCall]
<1>1. got \in JobState
  BY NothingTypes DEF JobState, Call
<1>2. /\ got.spans = j.spans \cup j.acquire.spans /\ got.acquire.spans = {}
      /\ got.fetch = j.fetch /\ got.targets = j.targets /\ got.beat = j.beat
      /\ got.commit = j.commit
  BY DEF JobState, NoCall
<1>. HIDE DEF got
<1>3. Fetched(got) = Fetched(j) /\ Mine(got) = Mine(j)
  BY <1>2 DEF Fetched, Mine
<1>4. Parted(got)
  BY <1>2, <1>3 DEF Parted, JobInv
<1>5. JobInv(got, c, t)
  BY <1>2, <1>3, <1>4, Forgetting
<1>. QED  BY <1>1, <1>5 DEF got

\* Main is answered: a grant, the end of the epoch, or to wait.
LEMMA AcquireAnsweredStep ==
  ASSUME SessionInv, NEW c \in Job, AcquireAnswered(c)
  PROVE  SessionInv'
<1> DEFINE j == job[c]
           got == [j EXCEPT !.spans = @ \cup j.acquire.spans, !.acquire = NoCall]
           k == CASE j.acquire.status = "granted" -> TakesPhase(got, j.acquire.spans)
                  [] j.acquire.status = "epoch_complete" ->
                       [got EXCEPT !.exhausted = TRUE, !.main = "release"]
                  [] j.prefetch.status = "granted" ->
                       [TakesPhase(got, j.prefetch.spans) EXCEPT !.prefetch = NoGrant]
                  [] OTHER -> [got EXCEPT !.main = "asleep", !.prefetch = NoGrant]
           Keeps(x) == /\ x \in JobState
                       /\ x.spans = got.spans /\ x.acquire = got.acquire /\ x.fetch = got.fetch
                       /\ x.targets = got.targets /\ x.beat = got.beat /\ x.commit = got.commit
<1>1. j \in JobState /\ JobInv(j, c, table)
  BY DEF SessionInv, JobTypeOK
<1>2. job' = [job EXCEPT ![c] = k] /\ table' = table /\ disk' \in [Cluster -> SUBSET Place]
  BY DEF AcquireAnswered, SessionInv, JobTypeOK
<1>3. got \in JobState /\ JobInv(got, c, table)
  BY <1>1, GotAcquire
<1>4. j.acquire.spans \in SUBSET Held /\ j.prefetch.spans \in SUBSET Held
  BY <1>1 DEF JobState, Call, Grant
<1>. HIDE DEF got
<1>5. Keeps(TakesPhase(got, j.acquire.spans)) /\ Keeps(TakesPhase(got, j.prefetch.spans))
  BY <1>3, <1>4, TakesPhaseType, TakesPhaseKeeps
<1>6. Keeps([got EXCEPT !.exhausted = TRUE, !.main = "release"])
  BY <1>3 DEF JobState, MainStage
<1>7. Keeps([got EXCEPT !.main = "asleep", !.prefetch = NoGrant])
  BY <1>3, NothingTypes DEF JobState, MainStage
<1>8. Keeps([TakesPhase(got, j.prefetch.spans) EXCEPT !.prefetch = NoGrant])
  <2> DEFINE took == TakesPhase(got, j.prefetch.spans)
  <2>1. Keeps(took)
    BY <1>5
  <2>. HIDE DEF took
  <2>2. Keeps([took EXCEPT !.prefetch = NoGrant])
    BY <2>1, NothingTypes DEF JobState
  <2>. QED  BY <2>2 DEF took
<1>9. Keeps(k)
  <2>. HIDE DEF Keeps, j
  <2>. QED  BY <1>5, <1>6, <1>7, <1>8
<1>. HIDE DEF k, j
<1>10. JobInv(k, c, table)
  BY <1>3, <1>9, ForgettingSome DEF Fetched
<1>. QED  BY <1>2, <1>9, <1>10, LocalStep

\* The prefetch thread is answered.
LEMMA FetchAnsweredStep ==
  ASSUME SessionInv, NEW c \in Job, FetchAnswered(c)
  PROVE  SessionInv'
<1> DEFINE j == job[c]
           call == [j.fetch EXCEPT !.at = "storing"]
           k == [j EXCEPT !.spans = j.spans \cup j.fetch.spans, !.fetch = call]
<1>1. j \in JobState /\ JobInv(j, c, table) /\ j.fetch.at = "answered"
  BY DEF SessionInv, JobTypeOK, FetchAnswered
<1>2. job' = [job EXCEPT ![c] = k] /\ table' = table /\ disk' \in [Cluster -> SUBSET Place]
  BY DEF FetchAnswered, SessionInv, JobTypeOK
<1>. HIDE DEF j
<1>3. call \in Call /\ call.at = "storing"
  BY <1>1 DEF JobState, Call, CallStage
<1>. HIDE DEF call
<1>4. k \in JobState
  BY <1>1, <1>3 DEF JobState, Call
<1>5. JobInv(k, c, table)
  <2>1. /\ k.spans = j.spans \cup j.fetch.spans /\ k.acquire = j.acquire /\ k.fetch = call
        /\ k.targets = j.targets /\ k.beat = j.beat /\ k.commit = j.commit
    BY <1>1 DEF JobState
  <2>. HIDE DEF k
  <2>2. Fetched(k) = {} /\ Fetched(j) = j.fetch.spans
    BY <1>1, <1>3, <2>1 DEF Fetched
  <2>3. Mine(k) = Mine(j)
    BY <2>1, <2>2 DEF Mine
  <2>4. Parted(k)
    BY <1>1, <2>1, <2>2, <2>3 DEF Parted, JobInv
  <2>. QED  BY <1>1, <2>1, <2>3, <2>4, Forgetting
<1>. QED  BY <1>2, <1>4, <1>5, LocalStep

\* The prefetch thread leaves its span for main.
LEMMA FetchStoredStep ==
  ASSUME SessionInv, NEW c \in Job, FetchStored(c)
  PROVE  SessionInv'
<1> DEFINE j == job[c]
           stored == [status |-> j.fetch.status, spans |-> j.fetch.spans]
           k == [j EXCEPT !.fetch = NoCall, !.prefetch = stored]
<1>1. j \in JobState /\ JobInv(j, c, table)
  BY DEF SessionInv, JobTypeOK
<1>2. job' = [job EXCEPT ![c] = k] /\ table' = table /\ disk' \in [Cluster -> SUBSET Place]
  BY DEF FetchStored, SessionInv, JobTypeOK
<1>. HIDE DEF j
<1>3. stored \in Grant
  BY <1>1 DEF JobState, Call, Grant
<1>. HIDE DEF stored
<1>4. k \in JobState
  BY <1>1, <1>3, NothingTypes DEF JobState
<1>5. JobInv(k, c, table)
  <2>1. /\ k.spans = j.spans /\ k.acquire = j.acquire /\ k.fetch.spans = {}
        /\ k.targets = j.targets /\ k.beat = j.beat /\ k.commit = j.commit
    BY <1>1 DEF JobState, NoCall
  <2>. HIDE DEF k
  <2>. QED  BY <1>1, <2>1, ForgettingSome DEF Fetched
<1>. QED  BY <1>2, <1>4, <1>5, LocalStep

\* All retries of a prefetch failed, and the thread ends.
LEMMA FetchFailedStep ==
  ASSUME SessionInv, NEW c \in Job, FetchFailed(c)
  PROVE  SessionInv'
<1> DEFINE j == job[c]
           k == [j EXCEPT !.fetch = NoCall, !.prefetch = NoGrant]
<1>1. j \in JobState /\ JobInv(j, c, table)
  BY DEF SessionInv, JobTypeOK
<1>2. job' = [job EXCEPT ![c] = k] /\ table' = table /\ disk' \in [Cluster -> SUBSET Place]
  BY DEF FetchFailed, SessionInv, JobTypeOK
<1>. HIDE DEF j
<1>3. k \in JobState
  BY <1>1, NothingTypes DEF JobState
<1>4. JobInv(k, c, table)
  <2>1. /\ k.spans = j.spans /\ k.acquire = j.acquire /\ k.fetch.spans = {}
        /\ k.targets = j.targets /\ k.beat = j.beat /\ k.commit = j.commit
    BY <1>1 DEF JobState, NoCall
  <2>. HIDE DEF k
  <2>. QED  BY <1>1, <2>1, ForgettingSome DEF Fetched
<1>. QED  BY <1>2, <1>3, <1>4, LocalStep

\* A phase that is noted moves consumed forward, within the span.
LEMMA NotePhaseStep ==
  ASSUME SessionInv, NEW c \in Job, NotePhase(c)
  PROVE  SessionInv'
<1> DEFINE j == job[c]
           Last(s) == CHOOSE p \in j.phase : p.id = s.id
           Noted(s) == IF \E p \in j.phase : p.id = s.id
                       THEN [s EXCEPT !.consumed = Larger(@, Smaller(Last(s).end, s.end))]
                       ELSE s
           idle == j.prefetch = NoGrant /\ j.fetch = NoCall
           call == IF idle THEN [NoCall EXCEPT !.at = "sent"] ELSE j.fetch
           S == {Noted(s) : s \in j.spans}
           u == [j EXCEPT !.spans = S]
           k == [j EXCEPT !.main = "train", !.phase = {}, !.spans = S, !.fetch = call]
<1>1. j \in JobState /\ JobInv(j, c, table) /\ table \in Table
  BY InvCoverage DEF SessionInv, JobTypeOK
<1>2. job' = [job EXCEPT ![c] = k] /\ table' = table /\ disk' \in [Cluster -> SUBSET Place]
  BY DEF NotePhase, SessionInv, JobTypeOK
<1>. HIDE DEF j
<1>3. ASSUME NEW s \in j.spans
      PROVE  /\ Noted(s) \in Held /\ Noted(s).id = s.id
             /\ Noted(s).end = s.end /\ Noted(s).committed = s.committed
             /\ s.consumed <= Noted(s).consumed /\ s.consumed \in Nat /\ Noted(s).consumed \in Nat
  <2>1. s \in Held /\ s.end \in Nat /\ s.consumed \in Nat /\ s.end <= NumBlocks
          /\ s.consumed <= NumBlocks
    BY <1>1 DEF JobState, Held, Span
  <2>2. CASE \E p \in j.phase : p.id = s.id
    <3>1. Last(s) \in j.phase
      BY <2>2
    <3>2. Last(s).end \in Nat
      BY <1>1, <3>1 DEF JobState, Held, Span
    <3>. HIDE DEF Last
    <3> DEFINE n == Larger(s.consumed, Smaller(Last(s).end, s.end))
    <3>3. n \in Nat /\ s.consumed <= n /\ n <= NumBlocks
      BY <2>1, <3>2, PoolAssumption DEF Larger, Smaller
    <3>4. Noted(s) = [s EXCEPT !.consumed = n]
      BY <2>2
    <3>. HIDE DEF n, Noted
    <3>5. Noted(s) \in Held
      BY <2>1, <3>3, <3>4 DEF Held, Span
    <3>. QED  BY <2>1, <3>3, <3>4, <3>5 DEF Held, Span
  <2>3. CASE ~\E p \in j.phase : p.id = s.id
    BY <2>1, <2>3
  <2>. QED  BY <2>2, <2>3
<1>. HIDE DEF Noted
<1>4. u \in JobState /\ u.spans = S /\ S \in SUBSET Held
  BY <1>1, <1>3 DEF JobState
<1>5. JobInv(u, c, table)
  <2>1. /\ u.acquire = j.acquire /\ u.fetch = j.fetch /\ u.targets = j.targets
        /\ u.beat = j.beat /\ u.commit = j.commit
    BY <1>1 DEF JobState
  <2>2. OneView(u.spans)
    BY <1>1, <1>3, <1>4 DEF OneView, JobInv, Parted, Mine
  <2>3. ASSUME NEW x \in u.spans
        PROVE  \E s \in j.spans :
                 /\ x.id = s.id /\ s.consumed <= x.consumed
                 /\ s.consumed \in Nat /\ x.consumed \in Nat
                 /\ \A l \in table.leases : l.id = x.id => Safe(x, l)
    <3>1. PICK s \in j.spans : x = Noted(s)
      BY <1>4
    <3>2. \A l \in table.leases : l.id = s.id => Safe(s, l) /\ l.progress_end \in Nat
      BY <1>1 DEF JobInv, Views, Mine, Table, Lease
    <3>. QED  BY <1>3, <3>1, <3>2 DEF Safe
  <2>. HIDE DEF u
  <2>. QED  BY <1>1, <2>1, <2>2, <2>3, Updating
<1>. HIDE DEF S
<1>6. call \in Call /\ (call = j.fetch \/ call.spans = {})
  BY <1>1, NothingTypes DEF JobState, NoCall
<1>. HIDE DEF call
<1>7. k \in JobState
  BY <1>1, <1>4, <1>6 DEF JobState, MainStage
<1>8. JobInv(k, c, table)
  <2>1. /\ k.spans = u.spans /\ k.acquire = u.acquire /\ u.fetch = j.fetch /\ k.fetch = call
        /\ k.targets = u.targets /\ k.beat = u.beat /\ k.commit = u.commit
    BY <1>1 DEF JobState
  <2>. HIDE DEF k, u
  <2>. QED  BY <1>5, <1>6, <2>1, ForgettingSome DEF Fetched
<1>. QED  BY <1>2, <1>7, <1>8, LocalStep

\* A step of training consumes nothing yet.
LEMMA TrainStepStep ==
  ASSUME SessionInv, NEW c \in Job, TrainStep(c)
  PROVE  SessionInv'
<1> DEFINE j == job[c]
<1>1. j \in JobState /\ JobInv(j, c, table)
  BY DEF SessionInv, JobTypeOK
<1>2. PICK p \in j.todo :
        job' = [job EXCEPT ![c].todo = @ \ {p}, ![c].fresh = @ \cup {p}, ![c].steps = @ + 1]
  BY DEF TrainStep
<1> DEFINE k == [j EXCEPT !.todo = j.todo \ {p}, !.fresh = j.fresh \cup {p}, !.steps = j.steps + 1]
<1>3. job' = [job EXCEPT ![c] = k] /\ table' = table /\ disk' \in [Cluster -> SUBSET Place]
  BY <1>2 DEF TrainStep, SessionInv, JobTypeOK
<1>4. j.steps < InnerSteps /\ j.steps \in 0 .. InnerSteps /\ InnerSteps \in Nat
  BY <1>1, SessionAssumption DEF TrainStep, JobState
<1>. HIDE DEF j
<1>5. k \in JobState
  <2>1. j.steps + 1 \in 0 .. InnerSteps /\ p \in Place
    BY <1>1, <1>2, <1>4 DEF JobState
  <2>. QED  BY <1>1, <2>1 DEF JobState
<1>6. JobInv(k, c, table)
  <2>1. /\ k.spans = j.spans /\ k.acquire = j.acquire /\ k.fetch = j.fetch
        /\ k.targets = j.targets /\ k.beat = j.beat /\ k.commit = j.commit
    BY <1>1 DEF JobState
  <2>. HIDE DEF k
  <2>. QED  BY <1>1, <2>1, ForgettingSome DEF Fetched
<1>. QED  BY <1>3, <1>5, <1>6, LocalStep

\* What is to be committed is a copy of the session's spans.
LEMMA Targeting ==
  ASSUME NEW c, NEW t, NEW j \in JobState, JobInv(j, c, t), NEW k,
         k.spans = j.spans, k.acquire = j.acquire, k.fetch = j.fetch,
         k.targets \subseteq j.spans, k.beat = j.beat, k.commit = j.commit
  PROVE  JobInv(k, c, t)
<1>1. Mine(k) = Mine(j) /\ Fetched(k) = Fetched(j)
  BY DEF Mine, Fetched
<1>2. \A i : Mentions(k, i) => Mentions(j, i)
  BY <1>1 DEF Mentions, Mine
<1>3. Entitled(k, c, t)
  BY <1>2 DEF JobInv, Entitled
<1>4. Parted(k) /\ Views(k, t) /\ Reports(k, t)
  BY <1>1 DEF JobInv, Parted, Views, Reports
<1>5. \A g \in k.targets, s \in Mine(k) : g.id = s.id => g.consumed <= s.consumed
  <2>1. ASSUME NEW g \in k.targets, NEW s \in Mine(k), g.id = s.id
        PROVE  g.consumed <= s.consumed
    <3>1. g = s
      BY <1>1, <2>1 DEF JobInv, Parted, OneView, Mine
    <3>2. g.consumed \in Nat
      BY DEF JobState, Held, Span
    <3>. QED  BY <3>1, <3>2
  <2>. QED  BY <2>1
<1>6. Commits(k, t)
  BY <1>1, <1>5 DEF JobInv, Commits
<1>. QED  BY <1>3, <1>4, <1>6 DEF JobInv

\* The samples are used up: under `consumption' the spans become targets of commits.
LEMMA EndOfPhaseStep ==
  ASSUME SessionInv, NEW c \in Job, EndOfPhase(c)
  PROVE  SessionInv'
<1> DEFINE j == job[c]
           chosen == IF Consumption THEN Uncommitted(j) ELSE {}
           k == [j EXCEPT !.main = IF Consumption THEN "commit" ELSE "next", !.targets = chosen]
<1>1. j \in JobState /\ JobInv(j, c, table)
  BY DEF SessionInv, JobTypeOK
<1>2. job' = [job EXCEPT ![c] = k] /\ table' = table /\ disk' \in [Cluster -> SUBSET Place]
  BY DEF EndOfPhase, SessionInv, JobTypeOK
<1>. HIDE DEF j
<1>3. chosen \subseteq j.spans
  BY DEF Uncommitted
<1>. HIDE DEF chosen
<1>4. k \in JobState
  BY <1>1, <1>3 DEF JobState, MainStage
<1>5. JobInv(k, c, table)
  <2>1. /\ k.spans = j.spans /\ k.acquire = j.acquire /\ k.fetch = j.fetch
        /\ k.targets = chosen /\ k.beat = j.beat /\ k.commit = j.commit
    BY <1>1 DEF JobState
  <2>. HIDE DEF k
  <2>. QED  BY <1>1, <1>3, <2>1, Targeting
<1>. QED  BY <1>2, <1>4, <1>5, LocalStep

\* The checkpoint is saved; the spans become targets, or are to be released.
LEMMA SaveThenCommitStep ==
  ASSUME SessionInv, NEW c \in Job, SaveThenCommit(c)
  PROVE  SessionInv'
<1> DEFINE j == job[c]
           saved == [j EXCEPT !.main = "commit", !.fresh = {}, !.targets = Uncommitted(j)]
           diverged == [j EXCEPT !.main = "release", !.fresh = {}]
<1>1. j \in JobState /\ JobInv(j, c, table)
  BY DEF SessionInv, JobTypeOK
<1>2. /\ job' = [job EXCEPT ![c] = saved] \/ job' = [job EXCEPT ![c] = diverged]
      /\ table' = table
  BY DEF SaveThenCommit
<1>3. disk' \in [Cluster -> SUBSET Place]
  <2>1. c \in Cluster /\ j.fresh \in SUBSET Place /\ disk \in [Cluster -> SUBSET Place]
    BY <1>1, SessionAssumption DEF SessionInv, JobTypeOK, JobState
  <2>2. disk' = [disk EXCEPT ![c] = disk[c] \cup j.fresh]
    BY DEF SaveThenCommit
  <2>. QED  BY <2>1, <2>2
<1>. HIDE DEF j
<1>4. Uncommitted(j) \subseteq j.spans
  BY DEF Uncommitted
<1>5. saved \in JobState /\ diverged \in JobState
  BY <1>1, <1>4 DEF JobState, MainStage
<1>6. JobInv(saved, c, table)
  <2>1. /\ saved.spans = j.spans /\ saved.acquire = j.acquire /\ saved.fetch = j.fetch
        /\ saved.targets = Uncommitted(j) /\ saved.beat = j.beat /\ saved.commit = j.commit
    BY <1>1 DEF JobState
  <2>. HIDE DEF saved
  <2>. QED  BY <1>1, <1>4, <2>1, Targeting
<1>7. JobInv(diverged, c, table)
  <2>1. /\ diverged.spans = j.spans /\ diverged.acquire = j.acquire /\ diverged.fetch = j.fetch
        /\ diverged.targets = j.targets /\ diverged.beat = j.beat /\ diverged.commit = j.commit
    BY <1>1 DEF JobState
  <2>. HIDE DEF diverged
  <2>. QED  BY <1>1, <2>1, ForgettingSome DEF Fetched
<1>. HIDE DEF saved, diverged
<1>. QED  BY <1>2, <1>3, <1>5, <1>6, <1>7, LocalStep

\* No target is left to commit.
LEMMA CommitsDoneStep ==
  ASSUME SessionInv, NEW c \in Job, CommitsDone(c)
  PROVE  SessionInv'
<1> DEFINE j == job[c]
           k == [j EXCEPT !.main = IF j.exhausted THEN "done"
                                   ELSE IF j.steps = InnerSteps THEN "train" ELSE "next",
                          !.steps = IF j.steps = InnerSteps THEN 0 ELSE j.steps]
<1>1. j \in JobState /\ JobInv(j, c, table)
  BY DEF SessionInv, JobTypeOK
<1>2. job' = [job EXCEPT ![c] = k] /\ table' = table /\ disk' \in [Cluster -> SUBSET Place]
  BY DEF CommitsDone, SessionInv, JobTypeOK
<1>. HIDE DEF j
<1>3. k \in JobState
  <2>1. 0 \in 0 .. InnerSteps
    BY SessionAssumption
  <2>. QED  BY <1>1, <2>1 DEF JobState, MainStage
<1>4. JobInv(k, c, table)
  <2>1. /\ k.spans = j.spans /\ k.acquire = j.acquire /\ k.fetch = j.fetch
        /\ k.targets = j.targets /\ k.beat = j.beat /\ k.commit = j.commit
    BY <1>1 DEF JobState
  <2>. HIDE DEF k
  <2>. QED  BY <1>1, <2>1, ForgettingSome DEF Fetched
<1>. QED  BY <1>2, <1>3, <1>4, LocalStep

-----------------------------------------------------------------------------
(* Commits and releases, on the session's side                             *)

\* A commit is sent of no more than the session has consumed by now.
LEMMA SendCommitStep ==
  ASSUME SessionInv, NEW c \in Job, SendCommit(c)
  PROVE  SessionInv'
<1> DEFINE j == job[c]
           Now(s) == {m \in Named(j.spans, s.id) : m.valid /\ Smaller(s.consumed, m.end) > m.committed}
           Through(s) == Smaller(s.consumed, (CHOOSE m \in Now(s) : TRUE).end)
           CallOf(s) == IF Now(s) = {} THEN NoCommit
                       ELSE [NoCommit EXCEPT !.at = "sent", !.id = s.id, !.through = Through(s)]
<1>1. j \in JobState /\ JobInv(j, c, table)
  BY DEF SessionInv, JobTypeOK
<1>2. PICK s \in j.targets :
        job' = [job EXCEPT ![c].targets = @ \ {s}, ![c].commit = CallOf(s)]
  BY DEF SendCommit
<1> DEFINE m == CHOOSE x \in Now(s) : TRUE
           call == CallOf(s)
           k == [j EXCEPT !.targets = j.targets \ {s}, !.commit = call]
<1>3. job' = [job EXCEPT ![c] = k] /\ table' = table /\ disk' \in [Cluster -> SUBSET Place]
  BY <1>2 DEF SendCommit, SessionInv, JobTypeOK
<1>. HIDE DEF j
<1>4. s \in Held /\ s.consumed \in Nat /\ s.id \in LeaseId
  BY <1>1, <1>2 DEF JobState, Held, Span, LeaseId
<1>5. ASSUME Now(s) # {}
      PROVE  /\ m \in j.spans /\ m.id = s.id
             /\ Through(s) \in Watermarks /\ Through(s) <= s.consumed
             /\ s.consumed <= m.consumed /\ m.consumed \in Nat
  <2>1. m \in Now(s)
    BY <1>5
  <2>2. m \in j.spans /\ m.id = s.id
    BY <2>1 DEF Named
  <2>3. m \in Held /\ m.end \in Nat /\ m.end <= NumBlocks /\ m.consumed \in Nat
    BY <1>1, <2>2 DEF JobState, Held, Span
  <2>4. Through(s) = Smaller(s.consumed, m.end)
    OBVIOUS
  <2>. HIDE DEF Through, m
  <2>5. Through(s) \in Watermarks /\ Through(s) <= s.consumed
    BY <1>4, <2>3, <2>4, PoolAssumption DEF Smaller, Watermarks
  <2>6. s.consumed <= m.consumed
    BY <1>1, <1>2, <2>2 DEF JobInv, Commits, Mine
  <2>. QED  BY <2>2, <2>3, <2>5, <2>6
<1>6. /\ call \in CommitCall
      /\ \/ call.at = "idle"
         \/ /\ call.at = "sent" /\ call.id = s.id /\ call.through = Through(s) /\ Now(s) # {}
  <2>1. CASE Now(s) = {}
    BY <2>1, NothingTypes DEF NoCommit
  <2>2. CASE Now(s) # {}
    <3>1. call = [NoCommit EXCEPT !.at = "sent", !.id = s.id, !.through = Through(s)]
      BY <2>2
    <3>2. Through(s) \in Watermarks
      BY <1>5, <2>2
    <3>. HIDE DEF Through, Now, call
    <3>. QED  BY <1>4, <2>2, <3>1, <3>2 DEF NoCommit, CommitCall
  <2>. QED  BY <2>1, <2>2
<1>. HIDE DEF Through, Now, call, m
<1>7. k \in JobState
  BY <1>1, <1>6 DEF JobState
<1>8. JobInv(k, c, table)
  <2>1. /\ k.spans = j.spans /\ k.acquire = j.acquire /\ k.fetch = j.fetch
        /\ k.targets = j.targets \ {s} /\ k.beat = j.beat /\ k.commit = call
    BY <1>1 DEF JobState
  <2>. HIDE DEF k
  <2>2. Mine(k) = Mine(j) /\ Fetched(k) = Fetched(j)
    BY <2>1 DEF Mine, Fetched
  <2>3. \A i : Mentions(k, i) => Mentions(j, i)
    BY <1>2, <1>6, <2>1, <2>2 DEF Mentions
  <2>4. Entitled(k, c, table)
    BY <1>1, <2>3 DEF JobInv, Entitled
  <2>5. Parted(k) /\ Views(k, table) /\ Reports(k, table)
    BY <1>1, <2>1, <2>2 DEF JobInv, Parted, Views, Reports
  <2>6. ASSUME call.at # "idle", NEW u \in Mine(k), u.id = call.id
        PROVE  call.through <= u.consumed
    <3>1. u = m
      BY <1>1, <1>5, <1>6, <2>2, <2>6 DEF JobInv, Parted, OneView, Mine
    <3>. QED  BY <1>4, <1>5, <1>6, <2>6, <3>1, PoolAssumption DEF Watermarks
  <2>7. Commits(k, table)
    BY <1>1, <1>6, <2>1, <2>2, <2>6 DEF JobInv, Commits
  <2>. QED  BY <2>4, <2>5, <2>7 DEF JobInv
<1>. QED  BY <1>3, <1>7, <1>8, LocalStep

\* An answer to a commit: the session claims what the coordinator has settled.
LEMMA CommitAnsweredStep ==
  ASSUME SessionInv, NEW c \in Job, CommitAnswered(c)
  PROVE  SessionInv'
<1> DEFINE j == job[c]
           m == j.commit
           Settle(s) == IF s.id # m.id THEN s
                        ELSE IF m.gone THEN [s EXCEPT !.valid = FALSE]
                        ELSE [s EXCEPT !.committed = m.through]
           kept == {s \in j.spans : ~(m.closed /\ s.id = m.id)}
           S == {Settle(s) : s \in kept}
           u == [j EXCEPT !.spans = S]
           k == [j EXCEPT !.spans = S, !.commit = NoCommit]
<1>1. j \in JobState /\ JobInv(j, c, table) /\ table \in Table /\ m.at = "answered"
  BY InvCoverage DEF SessionInv, JobTypeOK, CommitAnswered
<1>2. job' = [job EXCEPT ![c] = k] /\ table' = table /\ disk' \in [Cluster -> SUBSET Place]
  BY DEF CommitAnswered, SessionInv, JobTypeOK
<1>. HIDE DEF j
<1>3. ASSUME NEW s \in j.spans
      PROVE  /\ Settle(s) \in Held /\ Settle(s).id = s.id
             /\ Settle(s).end = s.end /\ Settle(s).consumed = s.consumed /\ s.consumed \in Nat
             /\ \/ Settle(s).committed = s.committed
                \/ s.id = m.id /\ ~m.gone /\ Settle(s).committed = m.through
  <2>1. s \in Held /\ s.consumed \in Nat /\ m.through \in Nat
    BY <1>1, PoolAssumption DEF JobState, Held, Span, CommitCall, Watermarks
  <2>. HIDE DEF m
  <2>2. CASE s.id # m.id
    BY <2>1, <2>2
  <2>3. CASE s.id = m.id /\ m.gone
    <3>1. Settle(s) = [s EXCEPT !.valid = FALSE]
      BY <2>3
    <3>. HIDE DEF Settle
    <3>. QED  BY <2>1, <3>1 DEF Held, Span
  <2>4. CASE s.id = m.id /\ ~m.gone
    <3>1. Settle(s) = [s EXCEPT !.committed = m.through]
      BY <2>4
    <3>. HIDE DEF Settle
    <3>. QED  BY <2>1, <2>4, <3>1 DEF Held, Span
  <2>. QED  BY <2>2, <2>3, <2>4
<1>. HIDE DEF Settle
<1>4. u \in JobState /\ u.spans = S /\ S \in SUBSET Held
  BY <1>1, <1>3 DEF JobState
<1>5. JobInv(u, c, table)
  <2>1. /\ u.acquire = j.acquire /\ u.fetch = j.fetch /\ u.targets = j.targets
        /\ u.beat = j.beat /\ u.commit = j.commit
    BY <1>1 DEF JobState
  <2>2. OneView(u.spans)
    BY <1>1, <1>3, <1>4 DEF OneView, JobInv, Parted, Mine
  <2>3. ASSUME NEW x \in u.spans
        PROVE  \E s \in j.spans :
                 /\ x.id = s.id /\ s.consumed <= x.consumed
                 /\ s.consumed \in Nat /\ x.consumed \in Nat
                 /\ \A l \in table.leases : l.id = x.id => Safe(x, l)
    <3>1. PICK s \in j.spans : x = Settle(s)
      BY <1>4
    <3>2. \A l \in table.leases : l.id = s.id => Safe(s, l)
      BY <1>1 DEF JobInv, Views, Mine
    <3>3. ~m.gone => \A l \in table.leases : l.id = m.id => m.through <= l.committed_end
      BY <1>1 DEF JobInv, Commits
    <3>. QED  BY <1>3, <3>1, <3>2, <3>3 DEF Safe
  <2>. HIDE DEF u
  <2>. QED  BY <1>1, <2>1, <2>2, <2>3, Updating
<1>. HIDE DEF S
<1>6. k \in JobState
  BY <1>1, <1>4, NothingTypes DEF JobState
<1>7. JobInv(k, c, table)
  <2>1. /\ k.spans = u.spans /\ k.acquire = u.acquire /\ k.fetch = u.fetch
        /\ k.targets = u.targets /\ k.beat = u.beat /\ k.commit.at = "idle"
    BY <1>1 DEF JobState, NoCommit
  <2>. HIDE DEF k, u
  <2>. QED  BY <1>5, <2>1, ForgettingSome DEF Fetched
<1>. QED  BY <1>2, <1>6, <1>7, LocalStep

\* A commit whose answer was lost is sent once more.
LEMMA CommitRetriedStep ==
  ASSUME SessionInv, NEW c \in Job, CommitRetried(c)
  PROVE  SessionInv'
<1> DEFINE j == job[c]
           call == [j.commit EXCEPT !.at = "sent", !.closed = FALSE]
           k == [j EXCEPT !.commit = call]
<1>1. j \in JobState /\ JobInv(j, c, table) /\ j.commit.at = "answered"
  BY DEF SessionInv, JobTypeOK, CommitRetried
<1>2. job' = [job EXCEPT ![c] = k] /\ table' = table /\ disk' \in [Cluster -> SUBSET Place]
  BY DEF CommitRetried, SessionInv, JobTypeOK
<1>. HIDE DEF j
<1>3. /\ call \in CommitCall /\ call.at = "sent" /\ call.id = j.commit.id
      /\ call.through = j.commit.through
  BY <1>1 DEF JobState, CommitCall
<1>. HIDE DEF call
<1>4. k \in JobState
  BY <1>1, <1>3 DEF JobState
<1>5. JobInv(k, c, table)
  <2>1. /\ k.spans = j.spans /\ k.acquire = j.acquire /\ k.fetch = j.fetch
        /\ k.targets = j.targets /\ k.beat = j.beat /\ k.commit = call
    BY <1>1 DEF JobState
  <2>. HIDE DEF k
  <2>2. Mine(k) = Mine(j) /\ Fetched(k) = Fetched(j)
    BY <2>1 DEF Mine, Fetched
  <2>3. \A i : Mentions(k, i) => Mentions(j, i)
    BY <1>1, <1>3, <2>1, <2>2 DEF Mentions
  <2>4. Entitled(k, c, table)
    BY <1>1, <2>3 DEF JobInv, Entitled
  <2>5. Parted(k) /\ Views(k, table) /\ Reports(k, table)
    BY <1>1, <2>1, <2>2 DEF JobInv, Parted, Views, Reports
  <2>6. Commits(k, table)
    BY <1>1, <1>3, <2>1, <2>2 DEF JobInv, Commits
  <2>. QED  BY <2>4, <2>5, <2>6 DEF JobInv
<1>. QED  BY <1>2, <1>4, <1>5, LocalStep

\* A commit is given up, and the other targets with it.
LEMMA CommitFailedStep ==
  ASSUME SessionInv, NEW c \in Job, CommitFailed(c)
  PROVE  SessionInv'
<1> DEFINE j == job[c]
           k == [j EXCEPT !.targets = {}, !.commit = NoCommit]
<1>1. j \in JobState /\ JobInv(j, c, table)
  BY DEF SessionInv, JobTypeOK
<1>2. job' = [job EXCEPT ![c] = k] /\ table' = table /\ disk' \in [Cluster -> SUBSET Place]
  BY DEF CommitFailed, SessionInv, JobTypeOK
<1>. HIDE DEF j
<1>3. k \in JobState
  BY <1>1, NothingTypes DEF JobState
<1>4. JobInv(k, c, table)
  <2>1. /\ k.spans = j.spans /\ k.acquire = j.acquire /\ k.fetch = j.fetch
        /\ k.targets = {} /\ k.beat = j.beat /\ k.commit.at = "idle"
    BY <1>1 DEF JobState, NoCommit
  <2>. HIDE DEF k
  <2>. QED  BY <1>1, <2>1, ForgettingSome DEF Fetched
<1>. QED  BY <1>2, <1>3, <1>4, LocalStep

\* After a release the session holds what it held, or nothing.
LEMMA AfterReleaseInv ==
  ASSUME NEW c, NEW t, NEW j \in JobState, JobInv(j, c, t)
  PROVE  AfterRelease(j) \in JobState /\ JobInv(AfterRelease(j), c, t)
<1> DEFINE k == AfterRelease(j)
<1>1. k = [j EXCEPT !.main = IF j.exhausted /\ j.steps = 0 THEN "done" ELSE "train",
                    !.steps = IF j.steps = InnerSteps THEN 0 ELSE j.steps]
  BY DEF AfterRelease
<1>. HIDE DEF k
<1>2. 0 \in 0 .. InnerSteps
  BY SessionAssumption
<1>3. k \in JobState
  BY <1>1, <1>2 DEF JobState, MainStage
<1>4. /\ k.spans = j.spans /\ k.acquire = j.acquire /\ k.fetch = j.fetch
      /\ k.targets = j.targets /\ k.beat = j.beat /\ k.commit = j.commit
  BY <1>1 DEF JobState
<1>5. JobInv(k, c, t)
  BY <1>4, ForgettingSome DEF Fetched
<1>. QED  BY <1>3, <1>5 DEF k

\* The release is answered, and the session forgets or keeps what it held.
LEMMA ReleaseAnsweredStep ==
  ASSUME SessionInv, NEW c \in Job, ReleaseAnswered(c)
  PROVE  SessionInv'
<1> DEFINE j == job[c]
           emptied == [j EXCEPT !.spans = {}, !.prefetch = NoGrant]
<1>1. j \in JobState /\ JobInv(j, c, table)
  BY DEF SessionInv, JobTypeOK
<1>2. /\ \/ job' = [job EXCEPT ![c] = AfterRelease(emptied)]
         \/ job' = [job EXCEPT ![c] = AfterRelease(j)]
      /\ table' = table /\ disk' \in [Cluster -> SUBSET Place]
  BY DEF ReleaseAnswered, SessionInv, JobTypeOK
<1>. HIDE DEF j
<1>3. emptied \in JobState
  BY <1>1, NothingTypes DEF JobState
<1>4. JobInv(emptied, c, table)
  <2>1. /\ emptied.spans = {} /\ emptied.acquire = j.acquire /\ emptied.fetch = j.fetch
        /\ emptied.targets = j.targets /\ emptied.beat = j.beat /\ emptied.commit = j.commit
    BY <1>1 DEF JobState
  <2>. HIDE DEF emptied
  <2>. QED  BY <1>1, <2>1, ForgettingSome DEF Fetched
<1>. HIDE DEF emptied
<1>. QED  BY <1>1, <1>2, <1>3, <1>4, AfterReleaseInv, LocalStep

-----------------------------------------------------------------------------
(* The heartbeat, on the session's side                                    *)

\* A report is built from what the session has consumed.
LEMMA SendBeatStep ==
  ASSUME SessionInv, NEW c \in Job, SendBeat(c)
  PROVE  SessionInv'
<1> DEFINE j == job[c]
           valid == {s \in j.spans : s.valid}
           Of(i) == CHOOSE s \in valid : s.id = i
           progress == [i \in {s.id : s \in valid} |-> ReportedProgress(Of(i))]
           beat == [NoBeat EXCEPT !.at = "sent", !.progress = progress]
           k == [j EXCEPT !.beat = beat]
<1>1. j \in JobState /\ JobInv(j, c, table)
  BY DEF SessionInv, JobTypeOK
<1>2. job' = [job EXCEPT ![c] = k] /\ table' = table /\ disk' \in [Cluster -> SUBSET Place]
  BY DEF SendBeat, SessionInv, JobTypeOK
<1>. HIDE DEF j
<1>3. ASSUME NEW i \in {s.id : s \in valid}
      PROVE  /\ Of(i) \in j.spans /\ Of(i).id = i /\ progress[i] = Of(i).consumed
             /\ i \in LeaseId /\ Of(i).consumed \in Watermarks
  <2>1. Of(i) \in valid /\ Of(i).id = i
    BY <1>3
  <2>2. progress[i] = Of(i).consumed
    BY <1>3 DEF ReportedProgress
  <2>. HIDE DEF Of, progress
  <2>3. Of(i) \in Held
    BY <1>1, <2>1 DEF JobState
  <2>4. Of(i).consumed \in Watermarks /\ i \in LeaseId
    BY <2>1, <2>3, PoolAssumption DEF Held, Span, Watermarks, LeaseId
  <2>. QED  BY <2>1, <2>2, <2>4
<1>4. DOMAIN progress = {s.id : s \in valid}
  OBVIOUS
<1>5. progress \in Report
  <2>1. progress \in [{s.id : s \in valid} -> Watermarks] /\ {s.id : s \in valid} \in SUBSET LeaseId
    BY <1>3
  <2>. QED  BY <2>1 DEF Report
<1>. HIDE DEF progress, Of
<1>6. beat \in Beat /\ beat.progress = progress /\ DOMAIN beat.view = {}
  <2>1. NoBeat \in Beat /\ DOMAIN NoBeat.view = {}
    BY NothingTypes DEF NoBeat
  <2>. QED  BY <1>5, <2>1 DEF Beat
<1>. HIDE DEF beat
<1>7. k \in JobState
  BY <1>1, <1>6 DEF JobState
<1>8. JobInv(k, c, table)
  <2>1. /\ k.spans = j.spans /\ k.acquire = j.acquire /\ k.fetch = j.fetch
        /\ k.targets = j.targets /\ k.beat = beat /\ k.commit = j.commit
    BY <1>1 DEF JobState
  <2>. HIDE DEF k
  <2>2. Mine(k) = Mine(j) /\ Fetched(k) = Fetched(j) /\ valid \subseteq Mine(j)
    BY <2>1 DEF Mine, Fetched
  <2>3. \A i : Mentions(k, i) => Mentions(j, i)
    BY <1>4, <1>6, <2>1, <2>2 DEF Mentions
  <2>4. Entitled(k, c, table)
    BY <1>1, <2>3 DEF JobInv, Entitled
  <2>5. Parted(k) /\ Views(k, table) /\ Commits(k, table)
    BY <1>1, <2>1, <2>2 DEF JobInv, Parted, Views, Commits
  <2>6. ASSUME NEW s \in Mine(k), s.id \in DOMAIN progress
        PROVE  progress[s.id] <= s.consumed
    <3>1. Of(s.id) \in j.spans /\ Of(s.id).id = s.id /\ progress[s.id] = Of(s.id).consumed
            /\ Of(s.id).consumed \in Watermarks
      BY <1>3, <1>4, <2>6
    <3>2. Of(s.id) = s
      BY <1>1, <2>2, <2>6, <3>1 DEF JobInv, Parted, OneView, Mine
    <3>. QED  BY <3>1, <3>2, PoolAssumption DEF Watermarks
  <2>7. Reports(k, table)
    BY <1>6, <2>1, <2>6 DEF Reports
  <2>. QED  BY <2>4, <2>5, <2>7 DEF JobInv
<1>. QED  BY <1>2, <1>7, <1>8, LocalStep

\* An answer cuts a span to what the coordinator left of it, at most.
LEMMA ApplyBeatStep ==
  ASSUME SessionInv, NEW c \in Job, ApplyBeat(c)
  PROVE  SessionInv'
<1> DEFINE j == job[c]
           view == j.beat.view
           New(s) == IF s.id \in DOMAIN view THEN Applied(s, view[s.id]) ELSE s
           S == {New(s) : s \in j.spans}
           u == [j EXCEPT !.spans = S]
           k == [j EXCEPT !.beat = NoBeat, !.spans = S]
<1>1. j \in JobState /\ JobInv(j, c, table) /\ table \in Table
  BY InvCoverage DEF SessionInv, JobTypeOK
<1>2. job' = [job EXCEPT ![c] = k] /\ table' = table /\ disk' \in [Cluster -> SUBSET Place]
  BY DEF ApplyBeat, SessionInv, JobTypeOK
<1>. HIDE DEF j
<1>3. ASSUME NEW s \in j.spans
      PROVE  /\ New(s) \in Held /\ New(s).id = s.id /\ New(s).committed = s.committed
             /\ New(s).consumed = s.consumed /\ s.consumed \in Nat /\ New(s).end \in Nat
             /\ \/ New(s).end = s.end
                \/ s.id \in DOMAIN view /\ view[s.id] \in Nat /\ view[s.id] <= New(s).end
  <2>1. s \in Held /\ s.consumed \in Nat /\ s.end \in Nat /\ s.end <= NumBlocks
          /\ s.consumed <= NumBlocks
    BY <1>1 DEF JobState, Held, Span
  <2>2. CASE s.id \notin DOMAIN view
    BY <2>1, <2>2
  <2>3. CASE s.id \in DOMAIN view
    <3> DEFINE n == view[s.id]
    <3>1. n \in Nat /\ n <= NumBlocks
      BY <1>1, <2>3, PoolAssumption DEF JobState, Beat, Report, Watermarks
    <3>2. New(s) = Applied(s, n)
      BY <2>3
    <3>. HIDE DEF n, New
    <3>3. CASE n = 0
      <4>1. New(s) = [s EXCEPT !.valid = FALSE]
        BY <3>2, <3>3 DEF Applied
      <4>. QED  BY <2>1, <4>1 DEF Held, Span
    <3>4. CASE n # 0 /\ n < s.end
      <4> DEFINE e == Larger(n, s.consumed)
      <4>1. New(s) = [s EXCEPT !.end = e]
        BY <3>2, <3>4 DEF Applied
      <4>2. e \in Nat /\ n <= e /\ e <= NumBlocks
        BY <2>1, <3>1, PoolAssumption DEF Larger
      <4>. HIDE DEF e
      <4>3. New(s) \in Held /\ New(s).id = s.id /\ New(s).committed = s.committed
              /\ New(s).consumed = s.consumed /\ New(s).end = e
        BY <2>1, <4>1, <4>2 DEF Held, Span
      <4>. QED  BY <2>1, <2>3, <3>1, <4>2, <4>3 DEF n
    <3>5. CASE n # 0 /\ ~(n < s.end)
      BY <2>1, <3>2, <3>5 DEF Applied
    <3>. QED  BY <3>3, <3>4, <3>5
  <2>. QED  BY <2>2, <2>3
<1>. HIDE DEF New
<1>4. u \in JobState /\ u.spans = S /\ S \in SUBSET Held
  BY <1>1, <1>3 DEF JobState
<1>5. JobInv(u, c, table)
  <2>1. /\ u.acquire = j.acquire /\ u.fetch = j.fetch /\ u.targets = j.targets
        /\ u.beat = j.beat /\ u.commit = j.commit
    BY <1>1 DEF JobState
  <2>2. OneView(u.spans)
    BY <1>1, <1>3, <1>4 DEF OneView, JobInv, Parted, Mine
  <2>3. ASSUME NEW x \in u.spans
        PROVE  \E s \in j.spans :
                 /\ x.id = s.id /\ s.consumed <= x.consumed
                 /\ s.consumed \in Nat /\ x.consumed \in Nat
                 /\ \A l \in table.leases : l.id = x.id => Safe(x, l)
    <3>1. PICK s \in j.spans : x = New(s)
      BY <1>4
    <3>2. \A l \in table.leases : l.id = s.id => Safe(s, l) /\ l.end \in Nat
      BY <1>1 DEF JobInv, Views, Mine, Table, Lease
    <3>3. s.id \in DOMAIN view => \A l \in table.leases : l.id = s.id => l.end <= view[s.id]
      BY <1>1 DEF JobInv, Reports
    <3>. QED  BY <1>3, <3>1, <3>2, <3>3 DEF Safe
  <2>. HIDE DEF u
  <2>. QED  BY <1>1, <2>1, <2>2, <2>3, Updating
<1>. HIDE DEF S
<1>6. k \in JobState
  BY <1>1, <1>4, NothingTypes DEF JobState
<1>7. JobInv(k, c, table)
  <2>1. /\ k.spans = u.spans /\ k.acquire = u.acquire /\ k.fetch = u.fetch
        /\ k.targets = u.targets /\ k.beat = NoBeat /\ k.commit = u.commit
    BY <1>1 DEF JobState
  <2>. HIDE DEF k, u
  <2>. QED  BY <1>5, <2>1, ForgettingSome DEF Fetched
<1>. QED  BY <1>2, <1>6, <1>7, LocalStep

-----------------------------------------------------------------------------
(* What the coordinator serves                                             *)

\* The spans of an answer are of new leases of the cluster, and as the table
\* has them.
LEMMA AnswerFacts ==
  ASSUME SessionInv, SessionNext, NEW c \in Job, Served(c)
  PROVE  LET new == AnswerOf(table, table').spans
         IN  /\ OneView(new)
             /\ \A s \in new :
                  /\ s \in Held /\ s.id \in LeaseId
                  /\ table.seq < s.id[3] /\ s.id[3] <= table'.seq
                  /\ \A l \in table'.leases : l.id = s.id => l.cluster = c /\ Safe(s, l)
<1> DEFINE fresh == {l \in table'.leases : l.id[3] > table.seq}
           new == AnswerOf(table, table').spans
<1>1. /\ Inv(table) /\ table' \in Table /\ Ordered(table') /\ DisjointIn(table')
      /\ Issued(table') /\ Issued(table) /\ table \in Table
      /\ table.seq \in Nat /\ table'.seq \in Nat
  BY TableGoesOn, InvCoverage DEF Table
<1>2. new = {NewSpan(l) : l \in fresh}
  BY DEF AnswerOf
<1>. HIDE DEF new
<1>3. ASSUME NEW l \in fresh
      PROVE  /\ NewSpan(l) \in Held /\ NewSpan(l).id = l.id /\ l.id \in LeaseId
             /\ table.seq < l.id[3] /\ l.id[3] <= table'.seq
             /\ l.cluster = c /\ Safe(NewSpan(l), l)
  <2>1. l \in table'.leases /\ l \in Lease
    BY <1>1 DEF Table
  <2>2. /\ l.cluster = c /\ l.committed_end = l.start /\ l.progress_end = l.start
    <3>1. ASSUME NEW m \in table.leases, m.id = l.id
          PROVE  FALSE
      <4>1. m.id[3] <= table.seq /\ l.id[3] > table.seq /\ l.id[3] \in Nat
        BY <1>1, <2>1 DEF Issued, Lease
      <4>. QED  BY <1>1, <3>1, <4>1
    <3>2. c \in Cluster
      BY SessionAssumption
    <3>. QED  BY <1>1, <2>1, <3>1, <3>2, ServedFacts
  <2>3. NewSpan(l) \in Held
    BY <1>1, <2>1, NewSpanType
  <2>4. Safe(NewSpan(l), l)
    BY <2>1, <2>2 DEF NewSpan, Safe, Lease
  <2>5. table.seq < l.id[3] /\ l.id[3] <= table'.seq
    BY <1>1, <2>1 DEF Issued, Lease
  <2>. QED  BY <2>1, <2>2, <2>3, <2>4, <2>5 DEF NewSpan, Lease, LeaseId
<1>4. OneView(new)
  BY <1>1, <1>2, <1>3 DEF OneView, DisjointIn
<1>5. ASSUME NEW s \in new
      PROVE  /\ s \in Held /\ s.id \in LeaseId
             /\ table.seq < s.id[3] /\ s.id[3] <= table'.seq
             /\ \A l \in table'.leases : l.id = s.id => l.cluster = c /\ Safe(s, l)
  <2>1. PICK l \in fresh : s = NewSpan(l)
    BY <1>2
  <2>2. \A m \in table'.leases : m.id = l.id => m = l
    BY <1>1 DEF DisjointIn
  <2>. QED  BY <1>3, <2>1, <2>2
<1>. QED  BY <1>4, <1>5 DEF new

\* A job that is on its way to get the answer is as safe as it was.
LEMMA AnswerArrives ==
  ASSUME SessionInv, SessionNext, NEW c \in Job, Served(c), NEW j \in JobState, NEW k \in JobState,
         JobInv(j, c, table), k.spans = j.spans,
         \/ k.acquire = AnswerOf(table, table') /\ k.fetch = j.fetch
         \/ k.acquire = j.acquire /\ k.fetch = AnswerOf(table, table'),
         k.targets = j.targets, k.beat = j.beat, k.commit = j.commit
  PROVE  JobInv(k, c, table')
<1> DEFINE new == AnswerOf(table, table').spans
<1>1. /\ OneView(new)
      /\ \A s \in new :
           /\ s \in Held /\ s.id \in LeaseId
           /\ table.seq < s.id[3] /\ s.id[3] <= table'.seq
           /\ \A l \in table'.leases : l.id = s.id => l.cluster = c /\ Safe(s, l)
  BY AnswerFacts
<1>2. Inv(table) /\ table \in Table /\ table' \in Table /\ table.seq \in Nat /\ c \in Cluster
  BY TableGoesOn, SessionAssumption DEF Table
<1>3. JobInv(j, c, table')
  BY <1>2, TableGoesOn, ServedUntold, QuietMove
<1>4. AnswerOf(table, table').at = "answered"
  BY DEF AnswerOf
<1>. HIDE DEF new
<1>5. \/ k.acquire.spans = new /\ Fetched(k) = Fetched(j)
      \/ k.acquire.spans = j.acquire.spans /\ Fetched(k) = new
  BY <1>4 DEF Fetched, new
<1>6. ASSUME NEW s \in new, Mentions(j, s.id)
      PROVE  FALSE
  <2>1. s.id \in LeaseId /\ table.seq < s.id[3] /\ s.id[3] \in Nat
    BY <1>1 DEF LeaseId
  <2>2. s.id[3] <= table.seq
    BY <1>6, <2>1 DEF JobInv, Entitled
  <2>. QED  BY <1>2, <2>1, <2>2
<1>7. \A s \in new, u \in Mine(j) : s.id # u.id
  BY <1>6 DEF Mentions
<1>8. Mine(k) \subseteq Mine(j) \cup new
  BY <1>5 DEF Mine
<1>9. Parted(k)
  <2>1. OneView(Mine(k))
    BY <1>1, <1>3, <1>7, <1>8 DEF OneView, Parted, JobInv
  <2>2. new \cap Mine(j) = {}
    BY <1>7
  <2>. QED  BY <1>3, <1>5, <2>1, <2>2 DEF Parted, JobInv, Mine
<1>10. Entitled(k, c, table')
  <2>1. ASSUME NEW i, Mentions(k, i)
        PROVE  Mentions(j, i) \/ \E s \in new : s.id = i
    BY <1>8, <2>1 DEF Mentions
  <2>. QED  BY <1>1, <1>3, <2>1 DEF JobInv, Entitled
<1>11. Views(k, table')
  BY <1>1, <1>3, <1>8 DEF JobInv, Views
<1>12. Reports(k, table')
  <2>1. \A s \in new : s.id \notin DOMAIN j.beat.progress
    BY <1>6 DEF Mentions
  <2>. QED  BY <1>3, <1>8, <2>1 DEF JobInv, Reports
<1>13. Commits(k, table')
  <2>1. \A s \in new, g \in j.targets : g.id # s.id
    BY <1>6 DEF Mentions
  <2>2. \A s \in new : j.commit.at # "idle" => s.id # j.commit.id
    BY <1>6 DEF Mentions
  <2>. QED  BY <1>3, <1>8, <2>1, <2>2 DEF JobInv, Commits
<1>. QED  BY <1>9, <1>10, <1>11, <1>12, <1>13 DEF JobInv

\* The coordinator serves an acquire of a job.
LEMMA ServeAcquireStep ==
  ASSUME SessionInv, SessionNext, NEW c \in Job, ServeAcquire(c) \/ ServeFetch(c)
  PROVE  SessionInv'
<1> DEFINE j == job[c]
           answer == AnswerOf(table, table')
           a == [j EXCEPT !.acquire = answer]
           f == [j EXCEPT !.fetch = answer]
<1>1. j \in JobState /\ JobInv(j, c, table) /\ c \in Cluster /\ Inv(table)
  BY SessionAssumption DEF SessionInv, JobTypeOK
<1>2. /\ job' = [job EXCEPT ![c] = a] \/ job' = [job EXCEPT ![c] = f]
      /\ Served(c) /\ disk' \in [Cluster -> SUBSET Place]
  BY DEF ServeAcquire, ServeFetch, SessionInv, JobTypeOK
<1>3. answer \in Call
  BY TableGoesOn, InvCoverage, AnswerType
<1>. HIDE DEF j
<1>4. a \in JobState /\ f \in JobState
  <2>. HIDE DEF answer
  <2>. QED  BY <1>1, <1>3 DEF JobState
<1>5. JobInv(a, c, table')
  <2>1. /\ a.spans = j.spans /\ a.acquire = answer /\ a.fetch = j.fetch
        /\ a.targets = j.targets /\ a.beat = j.beat /\ a.commit = j.commit
    <3>. HIDE DEF answer
    <3>. QED  BY <1>1 DEF JobState
  <2>. HIDE DEF a
  <2>. QED  BY <1>1, <1>2, <1>4, <2>1, AnswerArrives
<1>6. JobInv(f, c, table')
  <2>1. /\ f.spans = j.spans /\ f.acquire = j.acquire /\ f.fetch = answer
        /\ f.targets = j.targets /\ f.beat = j.beat /\ f.commit = j.commit
    <3>. HIDE DEF answer
    <3>. QED  BY <1>1 DEF JobState
  <2>. HIDE DEF f
  <2>. QED  BY <1>1, <1>2, <1>4, <2>1, AnswerArrives
<1>7. \A d \in Job \ {c} : Untold(table, table', d)
  BY <1>1, <1>2, ServedUntold
<1>. HIDE DEF a, f
<1>. QED  BY <1>2, <1>4, <1>5, <1>6, <1>7, SharedStep

\* A commit is settled through what was asked, as far as the lease goes.
LEMMA ServeCommitStep ==
  ASSUME SessionInv, SessionNext, NEW c \in Job, ServeCommit(c)
  PROVE  SessionInv'
<1> DEFINE j == job[c]
           m == j.commit
           lease == {l \in table.leases : l.id = m.id}
<1>1. /\ j \in JobState /\ JobInv(j, c, table) /\ m.at = "sent" /\ m \in CommitCall
      /\ m.through \in Nat /\ disk' \in [Cluster -> SUBSET Place]
  BY PoolAssumption DEF SessionInv, JobTypeOK, ServeCommit, JobState, CommitCall, Watermarks
<1>2. /\ Inv(table) /\ table \in Table /\ table' \in Table /\ DisjointIn(table)
      /\ Continues(table, table')
  BY TableGoesOn
<1>3. CASE lease = {}
  <2> DEFINE call == [m EXCEPT !.at = "answered", !.gone = TRUE]
             k == [j EXCEPT !.commit = call]
  <2>0. /\ job' = [job EXCEPT ![c].commit.at = "answered", ![c].commit.gone = TRUE]
        /\ table' = table
    BY <1>3 DEF ServeCommit
  <2>1. job' = [job EXCEPT ![c] = k] /\ table' = table
    BY <1>1, <2>0 DEF SessionInv, JobTypeOK, JobState, CommitCall
  <2>. HIDE DEF j
  <2>2. /\ call \in CommitCall /\ call.at = "answered" /\ call.id = m.id
        /\ call.through = m.through /\ call.gone
    BY <1>1 DEF CommitCall
  <2>. HIDE DEF call
  <2>3. k \in JobState
    BY <1>1, <2>2 DEF JobState
  <2>4. /\ k.spans = j.spans /\ k.acquire = j.acquire /\ k.fetch = j.fetch
        /\ k.targets = j.targets /\ k.beat = j.beat /\ k.commit = call
    BY <1>1 DEF JobState
  <2>. HIDE DEF k
  <2>5. Mine(k) = Mine(j) /\ Fetched(k) = Fetched(j)
    BY <2>4 DEF Mine, Fetched
  <2>6. \A i : Mentions(k, i) => Mentions(j, i)
    BY <1>1, <2>2, <2>4, <2>5 DEF Mentions
  <2>7. Entitled(k, c, table)
    BY <1>1, <2>6 DEF JobInv, Entitled
  <2>8. Parted(k) /\ Views(k, table) /\ Reports(k, table)
    BY <1>1, <2>4, <2>5 DEF JobInv, Parted, Views, Reports
  <2>9. Commits(k, table)
    BY <1>1, <2>2, <2>4, <2>5 DEF JobInv, Commits
  <2>10. JobInv(k, c, table)
    BY <2>7, <2>8, <2>9 DEF JobInv
  <2>. QED  BY <1>1, <2>1, <2>3, <2>10, LocalStep
<1>4. CASE lease # {}
  <2> DEFINE l == CHOOSE x \in lease : TRUE
             closed == Settled(l, m.through) >= l.end
             call == [m EXCEPT !.at = "answered", !.closed = closed]
             k == [j EXCEPT !.commit = call]
  <2>1. l \in table.leases /\ l.id = m.id
    BY <1>4
  <2>0. /\ job' = [job EXCEPT ![c].commit.at = "answered", ![c].commit.closed = closed]
        /\ table' = Committed(table, l, m.through)
    BY <1>4 DEF ServeCommit, Commit
  <2>. HIDE DEF l, closed
  <2>2. job' = [job EXCEPT ![c] = k] /\ table' = Committed(table, l, m.through)
    BY <1>1, <2>0 DEF SessionInv, JobTypeOK, JobState, CommitCall
  <2>. HIDE DEF j
  <2>3. closed \in BOOLEAN
    BY DEF closed
  <2>4. /\ call \in CommitCall /\ call.at = "answered" /\ call.id = m.id
        /\ call.through = m.through
    BY <1>1, <2>3 DEF CommitCall
  <2>. HIDE DEF call
  <2>5. k \in JobState
    BY <1>1, <2>4 DEF JobState
  <2>6. /\ k.spans = j.spans /\ k.acquire = j.acquire /\ k.fetch = j.fetch
        /\ k.targets = j.targets /\ k.beat = j.beat /\ k.commit = call
    BY <1>1 DEF JobState
  <2>. HIDE DEF k
  <2>7. l.cluster = c
    BY <1>1, <2>1 DEF JobInv, Entitled, Mentions, CommitCall, LeaseId
  <2>8. ASSUME NEW x \in table'.leases
        PROVE  \/ x \in table.leases /\ x.id # m.id
               \/ /\ x.id = m.id /\ x.cluster = c /\ m.through <= x.committed_end
                  /\ x.progress_end = l.progress_end \/ x.progress_end <= m.through
    BY <1>1, <1>2, <2>1, <2>2, <2>7, CommitFacts DEF DisjointIn
  <2>9. ASSUME NEW s \in Mine(j), NEW x \in table'.leases, s.id = x.id
        PROVE  x.progress_end <= s.consumed
    <3>1. CASE x \in table.leases /\ x.id # m.id
      BY <1>1, <2>9, <3>1 DEF JobInv, Views, Safe
    <3>2. CASE x.id = m.id /\ x.progress_end = l.progress_end
      BY <1>1, <2>1, <2>9, <3>2 DEF JobInv, Views, Safe
    <3>3. CASE x.id = m.id /\ x.progress_end <= m.through
      <4>1. m.through <= s.consumed
        BY <1>1, <2>9, <3>3 DEF JobInv, Commits
      <4>2. x.progress_end \in Nat /\ s.consumed \in Nat
        BY <1>1, <1>2 DEF Table, Lease, Mine, Fetched, JobState, Call, Held, Span
      <4>. QED  BY <1>1, <3>3, <4>1, <4>2
    <3>. QED  BY <2>8, <3>1, <3>2, <3>3
  <2>10. JobInv(j, c, table')
    BY <1>1, <1>2, <2>9, TableMoves
  <2>11. Mine(k) = Mine(j) /\ Fetched(k) = Fetched(j)
    BY <2>6 DEF Mine, Fetched
  <2>12. \A i : Mentions(k, i) => Mentions(j, i)
    BY <1>1, <2>4, <2>6, <2>11 DEF Mentions
  <2>13. Entitled(k, c, table')
    BY <2>10, <2>12 DEF JobInv, Entitled
  <2>14. Parted(k) /\ Views(k, table') /\ Reports(k, table')
    BY <2>6, <2>10, <2>11 DEF JobInv, Parted, Views, Reports
  <2>15. Commits(k, table')
    BY <1>1, <2>4, <2>6, <2>8, <2>10, <2>11 DEF JobInv, Commits
  <2>16. JobInv(k, c, table')
    BY <2>13, <2>14, <2>15 DEF JobInv
  <2>17. ASSUME NEW d \in Job \ {c}
         PROVE  Untold(table, table', d)
    BY <1>2, <2>1, <2>7, <2>8 DEF Untold, DisjointIn
  <2>. QED  BY <1>1, <2>2, <2>5, <2>16, <2>17, SharedStep
<1>. QED  BY <1>3, <1>4

\* A heartbeat reports of the cluster's leases, and no more than was consumed.
LEMMA ServeBeatStep ==
  ASSUME SessionInv, SessionNext, NEW c \in Job, ServeBeat(c)
  PROVE  SessionInv'
<1> DEFINE j == job[c]
           progress == j.beat.progress
           Live(id) == {l \in table'.leases : l.id = id}
           View(id) == IF Live(id) = {} THEN 0 ELSE (CHOOSE l \in Live(id) : TRUE).end
           view == [id \in DOMAIN progress |-> View(id)]
           beat == [j.beat EXCEPT !.at = "answered", !.view = view]
           k == [j EXCEPT !.beat = beat]
<1>1. /\ j \in JobState /\ JobInv(j, c, table) /\ c \in Cluster
      /\ disk' \in [Cluster -> SUBSET Place] /\ Heartbeat(c, progress)
  BY SessionAssumption DEF SessionInv, JobTypeOK, ServeBeat
<1>2. /\ Inv(table) /\ table \in Table /\ table' \in Table /\ DisjointIn(table)
      /\ Continues(table, table') /\ DisjointIn(table') /\ Ordered(table')
  BY TableGoesOn, InvCoverage
<1>3. job' = [job EXCEPT ![c] = k]
  BY DEF ServeBeat, SessionInv, JobTypeOK
<1>. HIDE DEF j
<1>4. \A i \in DOMAIN progress : progress[i] \in Nat /\ i \in LeaseId
  BY <1>1, PoolAssumption DEF JobState, Beat, Report, Watermarks
<1>5. \A x \in table'.leases : \E l \in table.leases :
        /\ l.id = x.id /\ l.cluster = x.cluster
        /\ \/ x.progress_end = l.progress_end
           \/ /\ l.cluster = c /\ l.id \in DOMAIN progress /\ x.progress_end <= progress[l.id]
  BY <1>1, <1>2, <1>4, BeatFacts
<1>6. ASSUME NEW s \in Mine(j), NEW x \in table'.leases, s.id = x.id
      PROVE  x.progress_end <= s.consumed
  <2>1. PICK l \in table.leases :
          /\ l.id = x.id /\ l.cluster = x.cluster
          /\ \/ x.progress_end = l.progress_end
             \/ /\ l.cluster = c /\ l.id \in DOMAIN progress /\ x.progress_end <= progress[l.id]
    BY <1>5
  <2>2. CASE x.progress_end = l.progress_end
    BY <1>1, <1>6, <2>1, <2>2 DEF JobInv, Views, Safe
  <2>3. CASE l.id \in DOMAIN progress /\ x.progress_end <= progress[l.id]
    <3>1. progress[l.id] <= s.consumed
      BY <1>1, <1>6, <2>1, <2>3 DEF JobInv, Reports
    <3>2. x.progress_end \in Nat /\ s.consumed \in Nat /\ progress[l.id] \in Nat
      BY <1>1, <1>2, <1>4, <2>3 DEF Table, Lease, Mine, Fetched, JobState, Call, Held, Span
    <3>. QED  BY <2>3, <3>1, <3>2
  <2>. QED  BY <2>1, <2>2, <2>3
<1>7. JobInv(j, c, table')
  BY <1>1, <1>2, <1>6, TableMoves
<1>8. ASSUME NEW id, NEW x \in table'.leases, x.id = id
      PROVE  View(id) = x.end
  <2>1. Live(id) # {}
    BY <1>8
  <2>2. (CHOOSE l \in Live(id) : TRUE) \in Live(id)
    BY <2>1
  <2>3. (CHOOSE l \in Live(id) : TRUE) = x
    BY <1>2, <1>8, <2>2 DEF DisjointIn
  <2>. QED  BY <2>1, <2>3
<1>9. \A id : View(id) \in Watermarks
  <2>1. ASSUME NEW id
        PROVE  View(id) \in Watermarks
    <3>1. CASE Live(id) = {}
      BY <3>1, PoolAssumption DEF Watermarks
    <3>2. CASE Live(id) # {}
      <4>1. PICK x \in table'.leases : x.id = id
        BY <3>2
      <4>2. x.end \in Nat /\ x.end <= NumBlocks
        BY <1>2 DEF Table, Lease, Ordered
      <4>3. View(id) = x.end
        BY <1>8, <4>1
      <4>. HIDE DEF View
      <4>. QED  BY <4>2, <4>3, PoolAssumption DEF Watermarks
    <3>. QED  BY <3>1, <3>2
  <2>. QED  BY <2>1
<1>. HIDE DEF View
<1>10. DOMAIN view = DOMAIN progress /\ view \in Report
  <2>1. DOMAIN progress \in SUBSET LeaseId /\ view \in [DOMAIN progress -> Watermarks]
    BY <1>4, <1>9
  <2>. QED  BY <2>1 DEF Report
<1>11. \A x \in table'.leases : x.id \in DOMAIN view => x.end <= view[x.id]
  <2>1. ASSUME NEW x \in table'.leases, x.id \in DOMAIN view
        PROVE  x.end <= view[x.id]
    <3>1. view[x.id] = x.end /\ x.end \in Nat
      BY <1>2, <1>8, <2>1 DEF Table, Lease
    <3>. QED  BY <3>1
  <2>. QED  BY <2>1
<1>. HIDE DEF view
<1>12. beat \in Beat /\ beat.progress = progress /\ beat.view = view
  BY <1>1, <1>10 DEF JobState, Beat
<1>. HIDE DEF beat
<1>13. k \in JobState
  BY <1>1, <1>12 DEF JobState
<1>14. JobInv(k, c, table')
  <2>1. /\ k.spans = j.spans /\ k.acquire = j.acquire /\ k.fetch = j.fetch
        /\ k.targets = j.targets /\ k.beat = beat /\ k.commit = j.commit
    BY <1>1 DEF JobState
  <2>. HIDE DEF k
  <2>2. Mine(k) = Mine(j) /\ Fetched(k) = Fetched(j)
    BY <2>1 DEF Mine, Fetched
  <2>3. \A i : Mentions(k, i) => Mentions(j, i)
    BY <1>10, <1>12, <2>1, <2>2 DEF Mentions
  <2>4. Entitled(k, c, table')
    BY <1>7, <2>3 DEF JobInv, Entitled
  <2>5. Parted(k) /\ Views(k, table') /\ Commits(k, table')
    BY <1>7, <2>1, <2>2 DEF JobInv, Parted, Views, Commits
  <2>6. Reports(k, table')
    BY <1>7, <1>11, <1>12, <2>1, <2>2 DEF JobInv, Reports
  <2>. QED  BY <2>4, <2>5, <2>6 DEF JobInv
<1>15. ASSUME NEW d \in Job \ {c}
       PROVE  Untold(table, table', d)
  BY <1>2, <1>5 DEF Untold, DisjointIn
<1>. HIDE DEF k
<1>. QED  BY <1>1, <1>3, <1>13, <1>14, <1>15, SharedStep

\* A release is answered later; a refused one changes nothing.
LEMMA ServeReleaseStep ==
  ASSUME SessionInv, SessionNext, NEW c \in Job, ServeRelease(c)
  PROVE  SessionInv'
<1> DEFINE j == job[c]
           k == [j EXCEPT !.main = "released"]
<1>1. /\ j \in JobState /\ JobInv(j, c, table) /\ disk' \in [Cluster -> SUBSET Place]
      /\ job' = [job EXCEPT ![c] = k]
  BY DEF SessionInv, JobTypeOK, ServeRelease
<1>2. /\ table \in Table /\ table' \in Table /\ DisjointIn(table) /\ Continues(table, table')
  BY TableGoesOn
<1>3. table'.leases \subseteq table.leases
  BY <1>2 DEF ServeRelease, Reclaimed, Table
<1>4. \A d : Untold(table, table', d)
  BY <1>2, <1>3, FewerUntold
<1>5. JobInv(j, c, table')
  BY <1>1, <1>2, <1>4, QuietMove
<1>. HIDE DEF j
<1>6. k \in JobState
  BY <1>1 DEF JobState, MainStage
<1>7. JobInv(k, c, table')
  <2>1. /\ k.spans = j.spans /\ k.acquire = j.acquire /\ k.fetch = j.fetch
        /\ k.targets = j.targets /\ k.beat = j.beat /\ k.commit = j.commit
    BY <1>1 DEF JobState
  <2>. HIDE DEF k
  <2>. QED  BY <1>5, <2>1, ForgettingSome DEF Fetched
<1>. HIDE DEF k
<1>. QED  BY <1>1, <1>4, <1>6, <1>7, SharedStep

-----------------------------------------------------------------------------
(* Processes, peers and time                                               *)

\* A process that starts, or is gone, knows nothing.
LEMMA NewJobInv ==
  ASSUME NEW c, NEW t, NEW life \in Nat, NEW since \in Nat
  PROVE  JobInv(NewJob(life, since), c, t) /\ JobInv(Dead(life), c, t)
<1>1. ASSUME NEW j, j.spans = {}, j.acquire = NoCall, j.fetch = NoCall, j.targets = {},
             j.beat = NoBeat, j.commit = NoCommit
      PROVE  JobInv(j, c, t)
  <2>1. Mine(j) = {} /\ Fetched(j) = {}
    BY <1>1 DEF Mine, Fetched, NoCall
  <2>2. /\ DOMAIN j.beat.progress = {} /\ DOMAIN j.beat.view = {} /\ j.commit.at = "idle"
    BY <1>1 DEF NoBeat, NoCommit
  <2>3. Parted(j)
    BY <1>1, <2>1 DEF Parted, OneView, NoCall
  <2>4. Entitled(j, c, t)
    BY <1>1, <2>1, <2>2 DEF Entitled, Mentions
  <2>5. Views(j, t) /\ Reports(j, t) /\ Commits(j, t)
    BY <1>1, <2>1, <2>2 DEF Views, Reports, Commits
  <2>. QED  BY <2>3, <2>4, <2>5 DEF JobInv
<1>2. JobInv(NewJob(life, since), c, t)
  <2> DEFINE j == NewJob(life, since)
  <2>1. /\ j.spans = {} /\ j.acquire = NoCall /\ j.fetch = NoCall /\ j.targets = {}
        /\ j.beat = NoBeat /\ j.commit = NoCommit
    BY DEF NewJob
  <2>. HIDE DEF j
  <2>2. JobInv(j, c, t)
    BY <1>1, <2>1
  <2>. QED  BY <2>2 DEF j
<1>3. JobInv(Dead(life), c, t)
  <2> DEFINE j == Dead(life)
  <2>1. /\ j.spans = {} /\ j.acquire = NoCall /\ j.fetch = NoCall /\ j.targets = {}
        /\ j.beat = NoBeat /\ j.commit = NoCommit
    BY DEF Dead, NewJob
  <2>. HIDE DEF j
  <2>2. JobInv(j, c, t)
    BY <1>1, <2>1
  <2>. QED  BY <2>2 DEF j
<1>. QED  BY <1>2, <1>3

\* A process of a cluster starts, under its name and with a new session.
LEMMA StartStep ==
  ASSUME SessionInv, SessionNext, NEW c \in Job, Start(c)
  PROVE  SessionInv'
<1> DEFINE life == job[c].life + 1
           k == NewJob(life, table.seq)
<1>1. /\ job[c] \in JobState /\ disk' \in [Cluster -> SUBSET Place]
      /\ job' = [job EXCEPT ![c] = k] /\ life <= MaxLives
      /\ table' = Registered(table, c, life)
  BY DEF SessionInv, JobTypeOK, Start, Register
<1>2. table \in Table /\ table.seq \in Nat /\ DisjointIn(table)
  BY TableGoesOn DEF Table
<1>3. life \in 0 .. MaxLives /\ life \in Nat
  BY <1>1, SessionAssumption DEF JobState
<1>4. table'.leases = table.leases
  BY <1>1, <1>2 DEF Registered, Table
<1>5. \A d : Untold(table, table', d)
  BY <1>2, <1>4, FewerUntold
<1>. HIDE DEF life
<1>6. k \in JobState /\ JobInv(k, c, table')
  BY <1>2, <1>3, NewJobType, NewJobInv
<1>. HIDE DEF k
<1>. QED  BY <1>1, <1>5, <1>6, SharedStep

\* A process is gone, and its threads and calls with it.
LEMMA DeathStep ==
  ASSUME SessionInv, SessionNext, NEW c \in Job, Crash(c) \/ Terminate(c)
  PROVE  SessionInv'
<1> DEFINE k == Dead(job[c].life)
<1>1. /\ job[c] \in JobState /\ disk' \in [Cluster -> SUBSET Place]
      /\ job' = [job EXCEPT ![c] = k]
  BY DEF SessionInv, JobTypeOK, Crash, Terminate
<1>2. table \in Table /\ DisjointIn(table)
  BY TableGoesOn
<1>3. table'.leases \subseteq table.leases
  <2>1. CASE Crash(c)
    BY <2>1 DEF Crash
  <2>2. CASE Terminate(c)
    <3>1. table' = Reclaimed(table, Holding(table, c), TRUE)
      BY <2>2 DEF Terminate, ReleaseAll
    <3>. QED  BY <1>2, <3>1 DEF Reclaimed, Table
  <2>. QED  BY <2>1, <2>2
<1>4. \A d : Untold(table, table', d)
  BY <1>2, <1>3, FewerUntold
<1>5. k \in JobState /\ JobInv(k, c, table')
  <2>1. job[c].life \in 0 .. MaxLives /\ job[c].life \in Nat
    BY <1>1, SessionAssumption DEF JobState
  <2>. QED  BY <2>1, NewJobType, NewJobInv
<1>. HIDE DEF k
<1>. QED  BY <1>1, <1>4, <1>5, SharedStep

\* Peers only speak of their own leases.
LEMMA PeerStep ==
  ASSUME SessionInv, SessionNext, NEW c \in Cluster \ Job, Peer(c)
  PROVE  SessionInv'
<1>1. /\ Inv(table) /\ table \in Table /\ table' \in Table /\ DisjointIn(table)
      /\ job' = job /\ disk \in [Cluster -> SUBSET Place] /\ Ordered(table)
  BY TableGoesOn, InvCoverage DEF Peer, SessionInv, JobTypeOK
<1>2. CASE Served(c) /\ UNCHANGED disk
  BY <1>1, <1>2, ServedUntold, QuietStep
<1>3. CASE /\ Heartbeat(c, [id \in {l.id : l \in Holding(table, c)} |-> NumBlocks])
           /\ UNCHANGED disk
  <2> DEFINE progress == [id \in {l.id : l \in Holding(table, c)} |-> NumBlocks]
  <2>1. \A i \in DOMAIN progress : progress[i] \in Nat
    BY PoolAssumption
  <2>0. Heartbeat(c, progress)
    BY <1>3
  <2>. HIDE DEF progress
  <2>2. \A m \in table'.leases : \E l \in table.leases :
          /\ l.id = m.id /\ l.cluster = m.cluster
          /\ m.progress_end = l.progress_end \/ l.cluster = c
    BY <1>1, <2>0, <2>1, BeatFacts
  <2>3. \A d \in Job : Untold(table, table', d)
    BY <1>1, <2>2 DEF Untold, DisjointIn
  <2>. QED  BY <1>1, <1>3, <2>3, QuietStep
<1>4. CASE \E l \in Holding(table, c) :
             Commit(l, l.end) /\ disk' = [disk EXCEPT ![c] = @ \cup Places({l})]
  <2>1. PICK l \in Holding(table, c) :
          Commit(l, l.end) /\ disk' = [disk EXCEPT ![c] = @ \cup Places({l})]
    BY <1>4
  <2>2. /\ l \in table.leases /\ l.cluster = c /\ l \in Lease /\ l.end \in Nat
        /\ table' = Committed(table, l, l.end)
    BY <1>1, <2>1 DEF Holding, Table, Lease, Commit
  <2>3. \A m \in table'.leases : m \in table.leases \/ m.id = l.id
    BY <1>1, <2>2, CommitFacts
  <2>4. \A d \in Job : Untold(table, table', d)
    BY <1>1, <2>2, <2>3 DEF Untold, DisjointIn
  <2>5. Places({l}) \in SUBSET Place
    <3>1. ASSUME NEW b \in l.start .. l.end - 1
          PROVE  <<l.id[1], b>> \in Place
      <4>1. l.id[1] \in Nat /\ l.start \in Nat /\ l.end <= NumBlocks
        BY <1>1, <2>2 DEF Lease, Ordered
      <4>2. b \in Blocks
        BY <2>2, <4>1, PoolAssumption DEF Blocks
      <4>. QED  BY <4>1, <4>2 DEF Place
    <3>. QED  BY <3>1 DEF Places
  <2>6. disk' \in [Cluster -> SUBSET Place]
    BY <1>1, <2>1, <2>5
  <2>. QED  BY <1>1, <2>4, <2>6, QuietStep
<1>. QED  BY <1>2, <1>3, <1>4 DEF Peer

\* Deadlines, silence and the tick report nothing.
LEMMA TimeStep ==
  ASSUME SessionInv, SessionNext,
         \/ \E l \in table.leases : Lapse(l)
         \/ \E c \in Job : Silence(c)
         \/ Tick
  PROVE  SessionInv'
<1>1. /\ Inv(table) /\ table \in Table /\ DisjointIn(table)
      /\ job' = job /\ disk' \in [Cluster -> SUBSET Place]
  BY TableGoesOn DEF Lapse, Silence, Tick, SessionInv, JobTypeOK
<1>2. CASE \E l \in table.leases : Lapse(l)
  <2>1. PICK l \in table.leases : Lapse(l)
    BY <1>2
  <2> DEFINE late == [l EXCEPT !.overdue = TRUE]
  <2>2. table'.leases = (table.leases \ {l}) \cup {late}
    BY <1>1, <2>1 DEF Lapse, LeaseOverdue, Table
  <2>3. late.id = l.id /\ late.progress_end = l.progress_end
    BY <1>1 DEF Table, Lease
  <2>. HIDE DEF late
  <2>4. \A d \in Job : Untold(table, table', d)
    BY <1>1, <2>2, <2>3 DEF Untold, DisjointIn
  <2>. QED  BY <1>1, <2>4, QuietStep
<1>3. CASE \E c \in Job : Silence(c)
  <2>1. table'.leases = table.leases
    BY <1>1, <1>3 DEF Silence, FallSilent, Table
  <2>. QED  BY <1>1, <2>1, FewerUntold, QuietStep
<1>4. CASE Tick
  <2>1. table'.leases \subseteq table.leases
    BY <1>1, <1>4 DEF Tick, Reap, Reaped, Reclaimed, Table
  <2>. QED  BY <1>1, <2>1, FewerUntold, QuietStep
<1>. QED  BY <1>2, <1>3, <1>4

-----------------------------------------------------------------------------
(* The theorems                                                            *)

\* No process runs in the initial state, and the table is empty.
LEMMA InitialSession == SessionInit => SessionInv
<1> SUFFICES ASSUME SessionInit PROVE SessionInv
  OBVIOUS
<1>1. Inv(table)
  BY NewTableInv DEF SessionInit, Init
<1>2. 0 \in 0 .. MaxLives
  BY SessionAssumption
<1>3. Dead(0) \in JobState /\ \A c : JobInv(Dead(0), c, table)
  BY <1>2, NewJobType, NewJobInv
<1>4. job = [c \in Job |-> Dead(0)] /\ disk = [c \in Cluster |-> {}]
  BY DEF SessionInit
<1>. QED  BY <1>1, <1>3, <1>4 DEF SessionInv, JobTypeOK

\* Every step of the session's specification keeps the invariant.
LEMMA SessionStep ==
  ASSUME SessionInv, [SessionNext]_sessionVars
  PROVE  SessionInv'
<1>1. CASE UNCHANGED sessionVars
  BY <1>1 DEF sessionVars, SessionInv, JobTypeOK
<1>2. CASE SessionNext
  <2>1. ASSUME NEW c \in Job, Main(c)
        PROVE  SessionInv'
    BY <1>2, <2>1, TakePrefetchedStep, AskStep, ServeAcquireStep, AcquireAnsweredStep,
       NotePhaseStep, TrainStepStep, EndOfPhaseStep, SaveThenCommitStep, SendCommitStep,
       ServeCommitStep, CommitAnsweredStep, CommitsDoneStep, ServeReleaseStep, ReleaseAnsweredStep
    DEF Main
  <2>2. ASSUME NEW c \in Job, Fetcher(c) \/ Beater(c)
        PROVE  SessionInv'
    BY <1>2, <2>2, ServeAcquireStep, FetchAnsweredStep, FetchStoredStep, SendBeatStep,
       ServeBeatStep, ApplyBeatStep
    DEF Fetcher, Beater
  <2>3. ASSUME NEW c \in Job, \/ FetchFailed(c) \/ CommitRetried(c) \/ CommitFailed(c)
                              \/ Start(c) \/ Crash(c) \/ Terminate(c)
        PROVE  SessionInv'
    BY <1>2, <2>3, FetchFailedStep, CommitRetriedStep, CommitFailedStep, StartStep, DeathStep
  <2>. QED  BY <1>2, <2>1, <2>2, <2>3, PeerStep, TimeStep DEF SessionNext
<1>. QED  BY <1>1, <1>2

\* What the three threads of any number of jobs, with lost replies, outages,
\* crashes and restarts, do to the coordinator's table is what LeaseTable
\* allows any client, so every theorem about LeaseTable holds here.
THEOREM SessionsAreClients == SessionSpec => Spec
<1>1. SessionInv /\ [SessionNext]_sessionVars => SessionInv'
  BY SessionStep
<1>2. SessionInv /\ [SessionNext]_sessionVars => [Next]_table
  BY TableStep DEF SessionInv
<1>3. SessionInit => Init
  BY DEF SessionInit
<1>. QED  BY InitialSession, <1>1, <1>2, <1>3, PTL DEF SessionSpec, Spec

\* However answers, heartbeats, commits and steals overtake each other, the
\* session knows at least the blocks its cluster still holds, takes nothing for
\* committed that the coordinator has not committed, and has consumed all that
\* its heartbeats said it had (client.py: heartbeat_once, _apply, commit).
THEOREM ViewStaysSafe == SessionSpec => []ViewIsSafe
<1>1. SessionInv /\ [SessionNext]_sessionVars => SessionInv'
  BY SessionStep
<1>2. SessionInv => ViewIsSafe
  BY DEF SessionInv, JobInv, Views, Safe, Mine, ViewIsSafe
<1>. QED  BY InitialSession, <1>1, <1>2, PTL DEF SessionSpec

\* Memory and disk of a job have the types that client.py gives them.
THEOREM SessionTypeCorrect == SessionSpec => []SessionTypeOK
<1>1. SessionInv /\ [SessionNext]_sessionVars => SessionInv'
  BY SessionStep
<1>2. SessionInv => SessionTypeOK
  <2> SUFFICES ASSUME SessionInv, NEW c \in Job
               PROVE  LET j == job[c] IN
                      /\ j.main \in MainStage /\ j.spans \subseteq Span
                      /\ j.acquire.at \in CallStage /\ j.acquire.status \in CallStatus
                      /\ j.fetch.at \in CallStage /\ j.prefetch.status \in CallStatus
                      /\ j.steps \in 0 .. InnerSteps /\ j.life \in 0 .. MaxLives
                      /\ j.todo \cup j.fresh \cup disk[c] \subseteq Nat \X Blocks
    BY DEF SessionTypeOK
  <2>1. job[c] \in JobState /\ disk[c] \in SUBSET Place
    BY SessionAssumption DEF SessionInv, JobTypeOK
  <2>. QED  BY <2>1 DEF JobState, Call, Grant, Held, Place
<1>. QED  BY InitialSession, <1>1, <1>2, PTL DEF SessionSpec

-----------------------------------------------------------------------------
(* What a step changes of a job, field by field                            *)

\* The fields of a job.
Fields == {"alive", "life", "since", "spans", "main", "todo", "phase", "fresh", "steps",
           "exhausted", "acquire", "fetch", "prefetch", "beat", "targets", "commit"}

\* From j to k nothing but the fields in F changed.
Besides(F, j, k) == \A f \in Fields \ F : k[f] = j[f]

\* A step of job c, of the fields in F only.
Turn(c, F) ==
    /\ Besides(F, job[c], job'[c])
    /\ \A d \in Job \ {c} : job'[d] = job[d]

\* Neither the table nor a checkpoint changes.
Still == table' = table /\ disk' = disk

\* The spans main takes a phase of, out of the spans S of the session and an answer G.
PhaseOf(S, G) == {s \in S : \E g \in G : g.id = s.id} \cup {g \in G : Named(S, g.id) = {}}

\* Main takes a phase: its stage, the spans and their positions.
LEMMA TakesPhaseFields ==
  ASSUME NEW j \in JobState, NEW G
  PROVE  LET k == TakesPhase(j, G)
         IN  /\ Besides({"main", "phase", "todo"}, j, k)
             /\ k.main = "note" /\ k.phase = PhaseOf(j.spans, G) /\ k.todo = Places(k.phase)
BY DEF TakesPhase, PhaseOf, JobState, Besides, Fields

\* A prefetched grant becomes the phase.
LEMMA TakePrefetchedFields ==
  ASSUME SessionInv, NEW c \in Job, TakePrefetched(c)
  PROVE  /\ Still /\ Turn(c, {"main", "phase", "todo", "prefetch"})
         /\ job[c].main = "next" /\ job[c].prefetch.status = "granted"
         /\ job'[c].main = "note" /\ job'[c].prefetch = NoGrant
         /\ job'[c].phase = PhaseOf(job[c].spans, job[c].prefetch.spans)
         /\ job'[c].todo = Places(job'[c].phase)
<1> DEFINE j == job[c]
           took == TakesPhase(j, j.prefetch.spans)
<1>1. job \in [Job -> JobState] /\ j \in JobState
  BY DEF SessionInv, JobTypeOK
<1>2. job' = [job EXCEPT ![c] = [took EXCEPT !.prefetch = NoGrant]]
  BY DEF TakePrefetched
<1>3. took \in JobState
  BY <1>1, TakesPhaseType DEF JobState, Grant
<1>4. /\ Besides({"main", "phase", "todo"}, j, took)
      /\ took.main = "note" /\ took.phase = PhaseOf(j.spans, j.prefetch.spans)
      /\ took.todo = Places(took.phase)
  BY <1>1, TakesPhaseFields
<1>. HIDE DEF took
<1>5. job'[c] = [took EXCEPT !.prefetch = NoGrant] /\ \A d \in Job \ {c} : job'[d] = job[d]
  BY <1>1, <1>2
<1>. HIDE DEF j
<1>6. Besides({"main", "phase", "todo", "prefetch"}, j, job'[c])
  BY <1>1, <1>3, <1>4, <1>5 DEF Besides, Fields, JobState
<1>7. /\ job'[c].main = "note" /\ job'[c].prefetch = NoGrant
      /\ job'[c].phase = took.phase /\ job'[c].todo = took.todo
  BY <1>3, <1>4, <1>5 DEF JobState
<1>. QED  BY <1>4, <1>5, <1>6, <1>7 DEF j, TakePrefetched, Turn, Still

\* Main asks, and drops what a prefetch without a grant had stored.
LEMMA AskFields ==
  ASSUME SessionInv, NEW c \in Job, Ask(c)
  PROVE  /\ Still /\ Turn(c, {"main", "prefetch", "acquire"})
         /\ job[c].main \in {"next", "asleep"} /\ job'[c].main = "acquire"
         /\ job'[c].prefetch \in {job[c].prefetch, NoGrant}
         /\ job'[c].acquire = [NoCall EXCEPT !.at = "sent"]
<1> DEFINE j == job[c]
           sent == [NoCall EXCEPT !.at = "sent"]
           kept == IF j.main = "next" THEN NoGrant ELSE j.prefetch
<1>1. job \in [Job -> JobState] /\ j \in JobState
  BY DEF SessionInv, JobTypeOK
<1>2. job'[c] = [j EXCEPT !.main = "acquire", !.prefetch = kept, !.acquire = sent]
      /\ \A d \in Job \ {c} : job'[d] = job[d]
  BY <1>1 DEF Ask
<1>3. kept \in {j.prefetch, NoGrant}
  OBVIOUS
<1>. HIDE DEF j, kept, sent
<1>4. Besides({"main", "prefetch", "acquire"}, j, job'[c])
  BY <1>1, <1>2 DEF Besides, Fields, JobState
<1>5. job'[c].main = "acquire" /\ job'[c].prefetch = kept /\ job'[c].acquire = sent
  BY <1>1, <1>2 DEF JobState
<1>. QED  BY <1>2, <1>3, <1>4, <1>5 DEF j, sent, Ask, Turn, Still

\* The answer to main's acquire: a phase of it, the end of the data, a
\* prefetched phase, or sleep.
LEMMA AcquireAnsweredFields ==
  ASSUME SessionInv, NEW c \in Job, AcquireAnswered(c)
  PROVE  LET j == job[c]
             k == job'[c]
             Phase(G) == /\ k.main = "note" /\ k.phase = PhaseOf(k.spans, G)
                         /\ k.todo = Places(k.phase) /\ k.exhausted = j.exhausted
             Idle == k.phase = j.phase /\ k.todo = j.todo
         IN  /\ Still
             /\ Turn(c, {"spans", "acquire", "main", "phase", "todo", "exhausted", "prefetch"})
             /\ j.acquire.at = "answered" /\ k.acquire = NoCall
             /\ k.spans = j.spans \cup j.acquire.spans
             /\ k.prefetch \in {j.prefetch, NoGrant}
             /\ \/ j.acquire.status = "granted" /\ Phase(j.acquire.spans)
                \/ j.prefetch.status = "granted" /\ Phase(j.prefetch.spans)
                \/ /\ j.acquire.status = "epoch_complete" /\ Idle
                   /\ k.exhausted = TRUE /\ k.main = "release"
                \/ Idle /\ k.exhausted = j.exhausted /\ k.main = "asleep"
<1> DEFINE j == job[c]
           got == [j EXCEPT !.spans = @ \cup j.acquire.spans, !.acquire = NoCall]
           k1 == TakesPhase(got, j.acquire.spans)
           k2 == [got EXCEPT !.exhausted = TRUE, !.main = "release"]
           took == TakesPhase(got, j.prefetch.spans)
           k3 == [took EXCEPT !.prefetch = NoGrant]
           k4 == [got EXCEPT !.main = "asleep", !.prefetch = NoGrant]
           F == {"spans", "acquire", "main", "phase", "todo", "exhausted", "prefetch"}
           Phase(k, G) == /\ k.main = "note" /\ k.phase = PhaseOf(k.spans, G)
                          /\ k.todo = Places(k.phase) /\ k.exhausted = j.exhausted
           Idle(k) == k.phase = j.phase /\ k.todo = j.todo
           Got(k) == /\ Besides(F, j, k) /\ k.acquire = NoCall
                     /\ k.spans = j.spans \cup j.acquire.spans
                     /\ k.prefetch \in {j.prefetch, NoGrant}
<1>1. job \in [Job -> JobState] /\ j \in JobState
  BY DEF SessionInv, JobTypeOK
<1>2. \/ j.acquire.status = "granted" /\ job' = [job EXCEPT ![c] = k1]
      \/ j.acquire.status = "epoch_complete" /\ job' = [job EXCEPT ![c] = k2]
      \/ j.prefetch.status = "granted" /\ job' = [job EXCEPT ![c] = k3]
      \/ job' = [job EXCEPT ![c] = k4]
  <2> DEFINE k == CASE j.acquire.status = "granted" -> k1
                    [] j.acquire.status = "epoch_complete" -> k2
                    [] j.prefetch.status = "granted" -> k3
                    [] OTHER -> k4
  <2>1. job' = [job EXCEPT ![c] = k]
    BY DEF AcquireAnswered
  <2>. HIDE DEF k1, k2, k3, k4
  <2>2. \/ j.acquire.status = "granted" /\ k = k1
        \/ j.acquire.status = "epoch_complete" /\ k = k2
        \/ j.prefetch.status = "granted" /\ k = k3
        \/ k = k4
    OBVIOUS
  <2>. HIDE DEF k, j
  <2>. QED  BY <2>1, <2>2
<1>3. got \in JobState
  BY <1>1, GotAcquire DEF SessionInv
<1>4. /\ Besides({"spans", "acquire"}, j, got) /\ got.acquire = NoCall
      /\ got.spans = j.spans \cup j.acquire.spans
  <2>. HIDE DEF j
  <2>. QED  BY <1>1 DEF Besides, Fields, JobState
<1>5. j.acquire.spans \in SUBSET Held /\ j.prefetch.spans \in SUBSET Held
  BY <1>1 DEF JobState, Call, Grant
<1>. HIDE DEF got
<1>6. Got(k1) /\ Phase(k1, j.acquire.spans)
  <2>. HIDE DEF j
  <2>1. /\ Besides({"main", "phase", "todo"}, got, k1) /\ k1.main = "note"
        /\ k1.phase = PhaseOf(got.spans, j.acquire.spans) /\ k1.todo = Places(k1.phase)
    BY <1>3, TakesPhaseFields
  <2>. HIDE DEF k1
  <2>. QED  BY <1>4, <2>1 DEF Besides, Fields
<1>7. Got(k3) /\ Phase(k3, j.prefetch.spans)
  <2>. HIDE DEF j
  <2>1. /\ Besides({"main", "phase", "todo"}, got, took) /\ took.main = "note"
        /\ took.phase = PhaseOf(got.spans, j.prefetch.spans) /\ took.todo = Places(took.phase)
    BY <1>3, TakesPhaseFields
  <2>2. took \in JobState
    BY <1>3, <1>5, TakesPhaseType
  <2>. HIDE DEF took
  <2>3. Besides({"prefetch"}, took, k3) /\ k3.prefetch = NoGrant
    BY <2>2 DEF Besides, Fields, JobState
  <2>. HIDE DEF k3
  <2>. QED  BY <1>4, <2>1, <2>3 DEF Besides, Fields
<1>8. Got(k2) /\ Idle(k2) /\ k2.exhausted = TRUE /\ k2.main = "release"
  <2>. HIDE DEF j
  <2>1. Besides({"exhausted", "main"}, got, k2) /\ k2.exhausted = TRUE /\ k2.main = "release"
    BY <1>3 DEF Besides, Fields, JobState
  <2>. HIDE DEF k2
  <2>. QED  BY <1>4, <2>1 DEF Besides, Fields
<1>9. Got(k4) /\ Idle(k4) /\ k4.exhausted = j.exhausted /\ k4.main = "asleep"
  <2>. HIDE DEF j
  <2>1. Besides({"prefetch", "main"}, got, k4) /\ k4.prefetch = NoGrant /\ k4.main = "asleep"
    BY <1>3 DEF Besides, Fields, JobState
  <2>. HIDE DEF k4
  <2>. QED  BY <1>4, <2>1 DEF Besides, Fields
<1>. HIDE DEF k1, k2, k3, k4
<1>10. /\ \A d \in Job \ {c} : job'[d] = job[d]
       /\ \/ j.acquire.status = "granted" /\ job'[c] = k1
          \/ j.acquire.status = "epoch_complete" /\ job'[c] = k2
          \/ j.prefetch.status = "granted" /\ job'[c] = k3
          \/ job'[c] = k4
  BY <1>1, <1>2
<1>. QED  BY <1>6, <1>7, <1>8, <1>9, <1>10 DEF AcquireAnswered, Turn, Still

\* The prefetched spans enter the session.
LEMMA FetchAnsweredFields ==
  ASSUME SessionInv, NEW c \in Job, FetchAnswered(c)
  PROVE  /\ Still /\ Turn(c, {"spans", "fetch"})
         /\ job[c].fetch.at = "answered"
         /\ job'[c].spans = job[c].spans \cup job[c].fetch.spans
         /\ job'[c].fetch = [job[c].fetch EXCEPT !.at = "storing"]
<1> DEFINE j == job[c]
           call == [j.fetch EXCEPT !.at = "storing"]
<1>1. job \in [Job -> JobState] /\ j \in JobState
  BY DEF SessionInv, JobTypeOK
<1>2. job' = [job EXCEPT ![c] = [j EXCEPT !.spans = j.spans \cup j.fetch.spans, !.fetch = call]]
  BY <1>1 DEF FetchAnswered, JobState
<1>3. /\ job'[c] = [j EXCEPT !.spans = j.spans \cup j.fetch.spans, !.fetch = call]
      /\ \A d \in Job \ {c} : job'[d] = job[d]
  BY <1>1, <1>2
<1>. HIDE DEF j, call
<1>4. Besides({"spans", "fetch"}, j, job'[c])
  BY <1>1, <1>3 DEF Besides, Fields, JobState
<1>5. job'[c].spans = j.spans \cup j.fetch.spans /\ job'[c].fetch = call
  BY <1>1, <1>3 DEF JobState
<1>. QED  BY <1>3, <1>4, <1>5 DEF j, call, FetchAnswered, Turn, Still

\* The prefetched answer is put where main finds it.
LEMMA FetchStoredFields ==
  ASSUME SessionInv, NEW c \in Job, FetchStored(c) \/ FetchFailed(c)
  PROVE  /\ Still /\ Turn(c, {"fetch", "prefetch"})
         /\ job'[c].fetch = NoCall
         /\ \/ /\ job[c].fetch.at = "storing"
               /\ job'[c].prefetch.status = job[c].fetch.status
               /\ job'[c].prefetch.spans = job[c].fetch.spans
            \/ Outages /\ job'[c].prefetch = NoGrant
<1> DEFINE j == job[c]
           stored == [status |-> j.fetch.status, spans |-> j.fetch.spans]
           left == IF FetchStored(c) THEN stored ELSE NoGrant
<1>1. job \in [Job -> JobState] /\ j \in JobState
  BY DEF SessionInv, JobTypeOK
<1>2. stored.status = j.fetch.status /\ stored.spans = j.fetch.spans
  OBVIOUS
<1>3. \/ FetchStored(c) /\ left = stored
      \/ FetchFailed(c) /\ left = NoGrant
  OBVIOUS
<1>4. job' = [job EXCEPT ![c] = [j EXCEPT !.fetch = NoCall, !.prefetch = left]]
  BY <1>1, <1>3 DEF FetchStored, FetchFailed
<1>. HIDE DEF j, stored, left
<1>5. /\ job'[c] = [j EXCEPT !.fetch = NoCall, !.prefetch = left]
      /\ \A d \in Job \ {c} : job'[d] = job[d]
  BY <1>1, <1>4
<1>6. Besides({"fetch", "prefetch"}, j, job'[c]) /\ job'[c].fetch = NoCall /\ job'[c].prefetch = left
  BY <1>1, <1>5 DEF Besides, Fields, JobState
<1>. QED  BY <1>2, <1>3, <1>5, <1>6 DEF j, FetchStored, FetchFailed, Turn, Still

\* The spans of the phase are noted, and the next ones asked for.
LEMMA NotePhaseFields ==
  ASSUME SessionInv, NEW c \in Job, NotePhase(c)
  PROVE  LET j == job[c]
             k == job'[c]
         IN  /\ Still /\ Turn(c, {"main", "phase", "spans", "fetch"})
             /\ j.main = "note" /\ k.main = "train" /\ k.phase = {}
             /\ \/ k.fetch = j.fetch
                \/ j.fetch = NoCall /\ k.fetch = [NoCall EXCEPT !.at = "sent"]
             /\ \A s \in j.spans : \E x \in k.spans : x.id = s.id
             /\ \A x \in k.spans : \E s \in j.spans :
                  /\ x.id = s.id /\ x.start = s.start /\ x.end = s.end
                  /\ \/ x.consumed = s.consumed
                     \/ x.consumed <= s.end /\ \E p \in j.phase : p.id = s.id /\ x.consumed <= p.end
<1> DEFINE j == job[c]
           Last(s) == CHOOSE p \in j.phase : p.id = s.id
           Noted(s) == IF \E p \in j.phase : p.id = s.id
                       THEN [s EXCEPT !.consumed = Larger(@, Smaller(Last(s).end, s.end))]
                       ELSE s
           idle == j.prefetch = NoGrant /\ j.fetch = NoCall
           call == IF idle THEN [NoCall EXCEPT !.at = "sent"] ELSE j.fetch
           S == {Noted(s) : s \in j.spans}
<1>1. job \in [Job -> JobState] /\ j \in JobState
  BY DEF SessionInv, JobTypeOK
<1>2. job' = [job EXCEPT ![c] = [j EXCEPT !.main = "train", !.phase = {}, !.spans = S, !.fetch = call]]
  BY <1>1 DEF NotePhase
<1>3. call = j.fetch \/ (j.fetch = NoCall /\ call = [NoCall EXCEPT !.at = "sent"])
  OBVIOUS
<1>. HIDE DEF j
<1>4. ASSUME NEW s \in j.spans
      PROVE  /\ Noted(s).id = s.id /\ Noted(s).start = s.start /\ Noted(s).end = s.end
             /\ \/ Noted(s).consumed = s.consumed
                \/ /\ Noted(s).consumed <= s.end
                   /\ \E p \in j.phase : p.id = s.id /\ Noted(s).consumed <= p.end
  <2>1. s \in Span /\ s.end \in Nat /\ s.consumed \in Nat
    BY <1>1 DEF JobState, Held, Span
  <2>2. CASE \E p \in j.phase : p.id = s.id
    <3>1. Last(s) \in j.phase /\ Last(s).id = s.id
      BY <2>2
    <3>2. Last(s).end \in Nat
      BY <1>1, <3>1 DEF JobState, Held, Span
    <3>. HIDE DEF Last
    <3> DEFINE n == Larger(s.consumed, Smaller(Last(s).end, s.end))
    <3>3. n = s.consumed \/ (n <= Last(s).end /\ n <= s.end)
      BY <2>1, <3>2 DEF Larger, Smaller
    <3>4. Noted(s) = [s EXCEPT !.consumed = n]
      BY <2>2
    <3>. HIDE DEF n, Noted
    <3>5. Noted(s).id = s.id /\ Noted(s).start = s.start /\ Noted(s).end = s.end /\ Noted(s).consumed = n
      BY <2>1, <3>4 DEF Span
    <3>. QED  BY <3>1, <3>3, <3>5
  <2>3. CASE ~\E p \in j.phase : p.id = s.id
    BY <2>3
  <2>. QED  BY <2>2, <2>3
<1>. HIDE DEF Noted, call
<1>5. /\ \A s \in j.spans : \E x \in S : x.id = s.id
      /\ \A x \in S : \E s \in j.spans :
           /\ x.id = s.id /\ x.start = s.start /\ x.end = s.end
           /\ \/ x.consumed = s.consumed
              \/ x.consumed <= s.end /\ \E p \in j.phase : p.id = s.id /\ x.consumed <= p.end
  BY <1>4
<1>. HIDE DEF S
<1>6. /\ job'[c] = [j EXCEPT !.main = "train", !.phase = {}, !.spans = S, !.fetch = call]
      /\ \A d \in Job \ {c} : job'[d] = job[d]
  BY <1>1, <1>2
<1>7. /\ Besides({"main", "phase", "spans", "fetch"}, j, job'[c])
      /\ job'[c].main = "train" /\ job'[c].phase = {} /\ job'[c].spans = S /\ job'[c].fetch = call
  BY <1>1, <1>6 DEF Besides, Fields, JobState
<1>. QED  BY <1>3, <1>5, <1>6, <1>7 DEF j, NotePhase, Turn, Still

\* A step moves one position from what is to do to what was trained.
LEMMA TrainStepFields ==
  ASSUME SessionInv, NEW c \in Job, TrainStep(c)
  PROVE  /\ Still /\ Turn(c, {"todo", "fresh", "steps"})
         /\ job[c].main = "train" /\ job[c].steps < InnerSteps
         /\ job'[c].steps = job[c].steps + 1
         /\ \E p \in job[c].todo : /\ job'[c].todo = job[c].todo \ {p}
                                   /\ job'[c].fresh = job[c].fresh \cup {p}
<1> DEFINE j == job[c]
<1>1. job \in [Job -> JobState] /\ j \in JobState
  BY DEF SessionInv, JobTypeOK
<1>2. PICK p \in j.todo :
        job' = [job EXCEPT ![c].todo = @ \ {p}, ![c].fresh = @ \cup {p}, ![c].steps = @ + 1]
  BY DEF TrainStep
<1>3. /\ job'[c] = [j EXCEPT !.todo = @ \ {p}, !.fresh = @ \cup {p}, !.steps = @ + 1]
      /\ \A d \in Job \ {c} : job'[d] = job[d]
  BY <1>1, <1>2
<1>. HIDE DEF j
<1>4. /\ Besides({"todo", "fresh", "steps"}, j, job'[c])
      /\ job'[c].todo = j.todo \ {p} /\ job'[c].fresh = j.fresh \cup {p}
      /\ job'[c].steps = j.steps + 1
  BY <1>1, <1>3 DEF Besides, Fields, JobState
<1>. QED  BY <1>3, <1>4 DEF j, TrainStep, Turn, Still

\* The samples of the phase are used up.
LEMMA EndOfPhaseFields ==
  ASSUME SessionInv, NEW c \in Job, EndOfPhase(c)
  PROVE  /\ Still /\ Turn(c, {"main", "targets"})
         /\ job[c].main = "train" /\ job[c].steps < InnerSteps /\ job[c].todo = {}
         /\ \/ Consumption /\ job'[c].main = "commit"
            \/ job'[c].main = "next" /\ job'[c].targets = {}
<1> DEFINE j == job[c]
           m == IF Consumption THEN "commit" ELSE "next"
           g == IF Consumption THEN Uncommitted(j) ELSE {}
<1>1. job \in [Job -> JobState] /\ j \in JobState
  BY DEF SessionInv, JobTypeOK
<1>2. /\ job'[c] = [j EXCEPT !.main = m, !.targets = g]
      /\ \A d \in Job \ {c} : job'[d] = job[d]
  BY <1>1 DEF EndOfPhase
<1>3. (Consumption /\ m = "commit") \/ (m = "next" /\ g = {})
  OBVIOUS
<1>. HIDE DEF j, m, g
<1>4. Besides({"main", "targets"}, j, job'[c]) /\ job'[c].main = m /\ job'[c].targets = g
  BY <1>1, <1>2 DEF Besides, Fields, JobState
<1>. QED  BY <1>2, <1>3, <1>4 DEF j, EndOfPhase, Turn, Still

\* The checkpoint takes what was trained, and the spans are committed or
\* handed back.
LEMMA SaveThenCommitFields ==
  ASSUME SessionInv, NEW c \in Job, SaveThenCommit(c)
  PROVE  /\ table' = table /\ disk' = [disk EXCEPT ![c] = @ \cup job[c].fresh]
         /\ Turn(c, {"main", "fresh", "targets"})
         /\ job[c].main = "train" /\ job'[c].fresh = {}
         /\ job[c].steps = InnerSteps \/ (job[c].exhausted /\ job[c].steps > 0)
         /\ \/ job'[c].main = "commit" /\ job'[c].targets = Uncommitted(job[c])
            \/ /\ job'[c].main = "release" /\ job'[c].targets = job[c].targets
               /\ table.seq <= MaxDivergeSeq
<1> DEFINE j == job[c]
           k1 == [j EXCEPT !.main = "commit", !.fresh = {}, !.targets = Uncommitted(j)]
           k2 == [j EXCEPT !.main = "release", !.fresh = {}]
<1>1. job \in [Job -> JobState] /\ j \in JobState
  BY DEF SessionInv, JobTypeOK
<1>2. \/ job' = [job EXCEPT ![c] = k1]
      \/ table.seq <= MaxDivergeSeq /\ job' = [job EXCEPT ![c] = k2]
  BY <1>1 DEF SaveThenCommit
<1>3. Besides({"main", "fresh", "targets"}, j, k1) /\ k1.main = "commit" /\ k1.fresh = {}
        /\ k1.targets = Uncommitted(j)
  <2>. HIDE DEF j
  <2>. QED  BY <1>1 DEF Besides, Fields, JobState
<1>4. Besides({"main", "fresh", "targets"}, j, k2) /\ k2.main = "release" /\ k2.fresh = {}
        /\ k2.targets = j.targets
  <2>. HIDE DEF j
  <2>. QED  BY <1>1 DEF Besides, Fields, JobState
<1>. HIDE DEF k1, k2
<1>5. /\ job'[c] = k1 \/ (table.seq <= MaxDivergeSeq /\ job'[c] = k2)
      /\ \A d \in Job \ {c} : job'[d] = job[d]
  BY <1>1, <1>2
<1>. QED  BY <1>3, <1>4, <1>5 DEF SaveThenCommit, Turn

\* A commit names a target, and goes no further than the span consumed.
LEMMA SendCommitFields ==
  ASSUME SessionInv, NEW c \in Job, SendCommit(c)
  PROVE  /\ Still /\ Turn(c, {"targets", "commit"}) /\ job[c].main = "commit"
         /\ ~job'[c].commit.closed
         /\ \E g \in job[c].targets :
              /\ job'[c].targets = job[c].targets \ {g}
              /\ \/ job'[c].commit.at = "idle"
                 \/ /\ job'[c].commit.at = "sent" /\ job'[c].commit.id = g.id
                    /\ job'[c].commit.through <= g.consumed
<1> DEFINE j == job[c]
           Now(s) == {m \in Named(j.spans, s.id) : m.valid /\ Smaller(s.consumed, m.end) > m.committed}
           Through(s) == Smaller(s.consumed, (CHOOSE m \in Now(s) : TRUE).end)
           CallOf(s) == IF Now(s) = {} THEN NoCommit
                       ELSE [NoCommit EXCEPT !.at = "sent", !.id = s.id, !.through = Through(s)]
<1>1. job \in [Job -> JobState] /\ j \in JobState
  BY DEF SessionInv, JobTypeOK
<1>2. PICK g \in j.targets : job' = [job EXCEPT ![c].targets = @ \ {g}, ![c].commit = CallOf(g)]
  BY DEF SendCommit
<1> DEFINE call == CallOf(g)
<1>3. /\ job'[c] = [j EXCEPT !.targets = j.targets \ {g}, !.commit = call]
      /\ \A d \in Job \ {c} : job'[d] = job[d]
  BY <1>1, <1>2
<1>4. /\ ~call.closed
      /\ \/ call.at = "idle"
         \/ call.at = "sent" /\ call.id = g.id /\ call.through <= g.consumed
  <2>1. CASE Now(g) = {}
    BY <2>1 DEF NoCommit
  <2>2. CASE Now(g) # {}
    <3> DEFINE m == CHOOSE x \in Now(g) : TRUE
    <3>1. m \in j.spans
      BY <2>2 DEF Named
    <3>2. m.end \in Nat /\ g.consumed \in Nat
      BY <1>1, <1>2, <3>1 DEF JobState, Held, Span
    <3>3. Through(g) = Smaller(g.consumed, m.end)
      OBVIOUS
    <3>4. call = [NoCommit EXCEPT !.at = "sent", !.id = g.id, !.through = Through(g)]
      BY <2>2
    <3>. HIDE DEF m, Through, call
    <3>5. Through(g) <= g.consumed
      BY <3>2, <3>3 DEF Smaller
    <3>6. ~call.closed /\ call.at = "sent" /\ call.id = g.id /\ call.through = Through(g)
      BY <3>4 DEF NoCommit
    <3>. QED  BY <3>5, <3>6
  <2>. QED  BY <2>1, <2>2
<1>. HIDE DEF call, j
<1>5. /\ Besides({"targets", "commit"}, j, job'[c])
      /\ job'[c].targets = j.targets \ {g} /\ job'[c].commit = call
  BY <1>1, <1>3 DEF Besides, Fields, JobState
<1>. QED  BY <1>2, <1>3, <1>4, <1>5 DEF j, SendCommit, Turn, Still

\* The answer to a commit settles, invalidates or closes the span.
LEMMA CommitAnsweredFields ==
  ASSUME SessionInv, NEW c \in Job, CommitAnswered(c)
  PROVE  LET j == job[c]
             k == job'[c]
         IN  /\ Still /\ Turn(c, {"spans", "commit"})
             /\ j.commit.at = "answered" /\ k.commit = NoCommit
             /\ \A s \in j.spans : \/ \E x \in k.spans : x.id = s.id
                                   \/ j.commit.closed /\ s.id = j.commit.id
             /\ \A x \in k.spans : \E s \in j.spans :
                  x.id = s.id /\ x.start = s.start /\ x.end = s.end /\ x.consumed = s.consumed
<1> DEFINE j == job[c]
           m == j.commit
           Settle(s) == IF s.id # m.id THEN s
                        ELSE IF m.gone THEN [s EXCEPT !.valid = FALSE]
                        ELSE [s EXCEPT !.committed = m.through]
           kept == {s \in j.spans : ~(m.closed /\ s.id = m.id)}
           S == {Settle(s) : s \in kept}
<1>1. job \in [Job -> JobState] /\ j \in JobState
  BY DEF SessionInv, JobTypeOK
<1>2. /\ job'[c] = [j EXCEPT !.spans = S, !.commit = NoCommit]
      /\ \A d \in Job \ {c} : job'[d] = job[d]
  BY <1>1 DEF CommitAnswered
<1>. HIDE DEF j, m
<1>3. ASSUME NEW s \in j.spans
      PROVE  /\ Settle(s).id = s.id /\ Settle(s).start = s.start /\ Settle(s).end = s.end
             /\ Settle(s).consumed = s.consumed
  <2>1. s \in Span
    BY <1>1 DEF JobState, Held
  <2>. QED  BY <2>1 DEF Span
<1>. HIDE DEF Settle
<1>4. /\ \A s \in j.spans : (\E x \in S : x.id = s.id) \/ (m.closed /\ s.id = m.id)
      /\ \A x \in S : \E s \in j.spans :
           x.id = s.id /\ x.start = s.start /\ x.end = s.end /\ x.consumed = s.consumed
  BY <1>3
<1>. HIDE DEF S
<1>5. Besides({"spans", "commit"}, j, job'[c]) /\ job'[c].spans = S /\ job'[c].commit = NoCommit
  BY <1>1, <1>2 DEF Besides, Fields, JobState
<1>. QED  BY <1>2, <1>4, <1>5 DEF j, m, CommitAnswered, Turn, Still

\* A commit is sent again.
LEMMA CommitRetriedFields ==
  ASSUME SessionInv, NEW c \in Job, CommitRetried(c)
  PROVE  /\ Still /\ Turn(c, {"commit"})
         /\ job[c].commit.at = "answered" /\ job'[c].commit.at = "sent"
         /\ job'[c].commit.id = job[c].commit.id /\ job'[c].commit.through = job[c].commit.through
<1> DEFINE j == job[c]
           call == [j.commit EXCEPT !.at = "sent", !.closed = FALSE]
<1>1. job \in [Job -> JobState] /\ j \in JobState
  BY DEF SessionInv, JobTypeOK
<1>2. job' = [job EXCEPT ![c] = [j EXCEPT !.commit = call]]
  BY <1>1 DEF CommitRetried
<1>3. job'[c] = [j EXCEPT !.commit = call] /\ \A d \in Job \ {c} : job'[d] = job[d]
  BY <1>1, <1>2
<1>. HIDE DEF j
<1>4. call.at = "sent" /\ call.id = j.commit.id /\ call.through = j.commit.through
  BY <1>1 DEF JobState, CommitCall
<1>. HIDE DEF call
<1>5. Besides({"commit"}, j, job'[c]) /\ job'[c].commit = call
  BY <1>1, <1>3 DEF Besides, Fields, JobState
<1>. QED  BY <1>3, <1>4, <1>5 DEF j, CommitRetried, Turn, Still

\* A commit is given up.
LEMMA CommitFailedFields ==
  ASSUME SessionInv, NEW c \in Job, CommitFailed(c)
  PROVE  /\ Still /\ Turn(c, {"targets", "commit"})
         /\ job'[c].targets = {} /\ job'[c].commit = NoCommit
<1> DEFINE j == job[c]
<1>1. job \in [Job -> JobState] /\ j \in JobState
  BY DEF SessionInv, JobTypeOK
<1>2. /\ job'[c] = [j EXCEPT !.targets = {}, !.commit = NoCommit]
      /\ \A d \in Job \ {c} : job'[d] = job[d]
  BY <1>1 DEF CommitFailed
<1>. HIDE DEF j
<1>3. /\ Besides({"targets", "commit"}, j, job'[c])
      /\ job'[c].targets = {} /\ job'[c].commit = NoCommit
  BY <1>1, <1>2 DEF Besides, Fields, JobState
<1>. QED  BY <1>2, <1>3 DEF j, CommitFailed, Turn, Still

\* After the last target main goes on.
LEMMA CommitsDoneFields ==
  ASSUME SessionInv, NEW c \in Job, CommitsDone(c)
  PROVE  LET j == job[c]
             k == job'[c]
         IN  /\ Still /\ Turn(c, {"main", "steps"})
             /\ j.main = "commit" /\ j.commit = NoCommit
             /\ k.steps \in {j.steps, 0}
             /\ \/ k.main = "done"
                \/ k.main = "train" /\ k.steps = 0
                \/ k.main = "next" /\ j.steps # InnerSteps /\ k.steps = j.steps
<1> DEFINE j == job[c]
           m == IF j.exhausted THEN "done" ELSE IF j.steps = InnerSteps THEN "train" ELSE "next"
           n == IF j.steps = InnerSteps THEN 0 ELSE j.steps
<1>1. job \in [Job -> JobState] /\ j \in JobState
  BY DEF SessionInv, JobTypeOK
<1>2. /\ job'[c] = [j EXCEPT !.main = m, !.steps = n]
      /\ \A d \in Job \ {c} : job'[d] = job[d]
  BY <1>1 DEF CommitsDone
<1>3. /\ n \in {j.steps, 0}
      /\ \/ m = "done"
         \/ m = "train" /\ n = 0
         \/ m = "next" /\ j.steps # InnerSteps /\ n = j.steps
  OBVIOUS
<1>. HIDE DEF j, m, n
<1>4. Besides({"main", "steps"}, j, job'[c]) /\ job'[c].main = m /\ job'[c].steps = n
  BY <1>1, <1>2 DEF Besides, Fields, JobState
<1>. QED  BY <1>2, <1>3, <1>4 DEF j, CommitsDone, Turn, Still

\* What main does after a release.
LEMMA AfterReleaseFields ==
  ASSUME NEW j \in JobState
  PROVE  LET k == AfterRelease(j)
         IN  /\ Besides({"main", "steps"}, j, k) /\ k.steps \in {j.steps, 0}
             /\ \/ k.main = "done"
                \/ k.main = "train" /\ ~(j.exhausted /\ j.steps = 0)
<1> DEFINE m == IF j.exhausted /\ j.steps = 0 THEN "done" ELSE "train"
           n == IF j.steps = InnerSteps THEN 0 ELSE j.steps
           k == AfterRelease(j)
<1>1. k = [j EXCEPT !.main = m, !.steps = n]
  BY DEF AfterRelease
<1>2. n \in {j.steps, 0} /\ (m = "done" \/ (m = "train" /\ ~(j.exhausted /\ j.steps = 0)))
  OBVIOUS
<1>. HIDE DEF m, n, k
<1>3. Besides({"main", "steps"}, j, k) /\ k.main = m /\ k.steps = n
  BY <1>1 DEF Besides, Fields, JobState
<1>. QED  BY <1>2, <1>3 DEF k

\* A release empties the session, or failed and changes none of it.
LEMMA ReleaseAnsweredFields ==
  ASSUME SessionInv, NEW c \in Job, ReleaseAnswered(c)
  PROVE  LET j == job[c]
             k == job'[c]
         IN  /\ Still /\ Turn(c, {"main", "steps", "spans", "prefetch"})
             /\ j.main \in {"release", "released"} /\ k.steps \in {j.steps, 0}
             /\ k.spans \in {j.spans, {}} /\ k.prefetch \in {j.prefetch, NoGrant}
             /\ \/ k.main = "done"
                \/ k.main = "train" /\ ~(j.exhausted /\ j.steps = 0)
<1> DEFINE j == job[c]
           emptied == [j EXCEPT !.spans = {}, !.prefetch = NoGrant]
           k1 == AfterRelease(emptied)
           k2 == AfterRelease(j)
           Fit(k) == /\ Besides({"main", "steps", "spans", "prefetch"}, j, k)
                     /\ k.steps \in {j.steps, 0}
                     /\ k.spans \in {j.spans, {}} /\ k.prefetch \in {j.prefetch, NoGrant}
                     /\ \/ k.main = "done"
                        \/ k.main = "train" /\ ~(j.exhausted /\ j.steps = 0)
<1>1. job \in [Job -> JobState] /\ j \in JobState
  BY DEF SessionInv, JobTypeOK
<1>2. /\ job' = [job EXCEPT ![c] = k1] \/ job' = [job EXCEPT ![c] = k2]
      /\ j.main \in {"release", "released"} /\ Still
  BY DEF ReleaseAnswered, Still
<1>. HIDE DEF j
<1>3. emptied \in JobState /\ Besides({"spans", "prefetch"}, j, emptied)
      /\ emptied.spans = {} /\ emptied.prefetch = NoGrant
  BY <1>1, NothingTypes DEF Besides, Fields, JobState
<1>. HIDE DEF emptied
<1>4. /\ Besides({"main", "steps"}, emptied, k1) /\ k1.steps \in {emptied.steps, 0}
      /\ \/ k1.main = "done"
         \/ k1.main = "train" /\ ~(emptied.exhausted /\ emptied.steps = 0)
  BY <1>3, AfterReleaseFields
<1>5. /\ Besides({"main", "steps"}, j, k2) /\ k2.steps \in {j.steps, 0}
      /\ k2.main = "done" \/ (k2.main = "train" /\ ~(j.exhausted /\ j.steps = 0))
  BY <1>1, AfterReleaseFields
<1>. HIDE DEF k1, k2
<1>6. Fit(k1)
  BY <1>3, <1>4 DEF Besides, Fields
<1>7. Fit(k2)
  BY <1>5 DEF Besides, Fields
<1>8. job'[c] \in {k1, k2} /\ \A d \in Job \ {c} : job'[d] = job[d]
  BY <1>1, <1>2
<1>9. Fit(job'[c])
  BY <1>6, <1>7, <1>8
<1>. QED  BY <1>2, <1>8, <1>9 DEF j, Turn

\* A heartbeat is sent.
LEMMA SendBeatFields ==
  ASSUME SessionInv, NEW c \in Job, SendBeat(c)
  PROVE  Still /\ Turn(c, {"beat"})
<1> DEFINE j == job[c]
<1>1. job \in [Job -> JobState] /\ j \in JobState
  BY DEF SessionInv, JobTypeOK
<1>2. PICK b : job' = [job EXCEPT ![c].beat = b]
  <2> DEFINE valid == {s \in job[c].spans : s.valid}
             b == [NoBeat EXCEPT !.at = "sent",
                     !.progress = [id \in {s.id : s \in valid} |->
                                     ReportedProgress(CHOOSE s \in valid : s.id = id)]]
  <2>1. job' = [job EXCEPT ![c].beat = b]
    BY DEF SendBeat
  <2>. HIDE DEF b
  <2>. QED  BY <2>1
<1>3. job'[c] = [j EXCEPT !.beat = b] /\ \A d \in Job \ {c} : job'[d] = job[d]
  BY <1>1, <1>2
<1>. HIDE DEF j
<1>4. Besides({"beat"}, j, job'[c])
  BY <1>1, <1>3 DEF Besides, Fields, JobState
<1>. QED  BY <1>3, <1>4 DEF j, SendBeat, Turn, Still

\* The heartbeat's answer moves ends and validity of spans.
LEMMA ApplyBeatFields ==
  ASSUME SessionInv, NEW c \in Job, ApplyBeat(c)
  PROVE  LET j == job[c]
             k == job'[c]
         IN  /\ Still /\ Turn(c, {"spans", "beat"})
             /\ \A s \in j.spans : \E x \in k.spans : x.id = s.id
             /\ \A x \in k.spans : \E s \in j.spans :
                  /\ x.id = s.id /\ x.start = s.start /\ x.consumed = s.consumed
                  /\ x.end <= s.end \/ x.end <= s.consumed
<1> DEFINE j == job[c]
           view == j.beat.view
           New(s) == IF s.id \in DOMAIN view THEN Applied(s, view[s.id]) ELSE s
           S == {New(s) : s \in j.spans}
<1>1. job \in [Job -> JobState] /\ j \in JobState
  BY DEF SessionInv, JobTypeOK
<1>2. job' = [job EXCEPT ![c] = [j EXCEPT !.beat = NoBeat, !.spans = S]]
  BY <1>1 DEF ApplyBeat
<1>3. /\ job'[c] = [j EXCEPT !.beat = NoBeat, !.spans = S]
      /\ \A d \in Job \ {c} : job'[d] = job[d]
  BY <1>1, <1>2
<1>. HIDE DEF j
<1>4. ASSUME NEW s \in j.spans
      PROVE  /\ New(s).id = s.id /\ New(s).start = s.start /\ New(s).consumed = s.consumed
             /\ New(s).end <= s.end \/ New(s).end <= s.consumed
  <2>1. s \in Span /\ s.end \in Nat /\ s.consumed \in Nat
    BY <1>1 DEF JobState, Held, Span
  <2>2. CASE s.id \notin DOMAIN view
    BY <2>1, <2>2
  <2>3. CASE s.id \in DOMAIN view
    <3> DEFINE n == view[s.id]
    <3>1. n \in Nat
      BY <1>1, <2>3, PoolAssumption DEF JobState, Beat, Report, Watermarks
    <3>2. New(s) = Applied(s, n)
      BY <2>3
    <3>. HIDE DEF n, New
    <3>3. CASE n = 0
      <4>1. New(s) = [s EXCEPT !.valid = FALSE]
        BY <3>2, <3>3 DEF Applied
      <4>. QED  BY <2>1, <4>1 DEF Span
    <3>4. CASE n # 0 /\ n < s.end
      <4> DEFINE e == Larger(n, s.consumed)
      <4>1. New(s) = [s EXCEPT !.end = e]
        BY <3>2, <3>4 DEF Applied
      <4>2. e <= s.end \/ e <= s.consumed
        BY <2>1, <3>1, <3>4 DEF Larger
      <4>. HIDE DEF e
      <4>. QED  BY <2>1, <4>1, <4>2 DEF Span
    <3>5. CASE n # 0 /\ ~(n < s.end)
      BY <2>1, <3>2, <3>5 DEF Applied
    <3>. QED  BY <3>3, <3>4, <3>5
  <2>. QED  BY <2>2, <2>3
<1>. HIDE DEF New
<1>5. /\ \A s \in j.spans : \E x \in S : x.id = s.id
      /\ \A x \in S : \E s \in j.spans :
           /\ x.id = s.id /\ x.start = s.start /\ x.consumed = s.consumed
           /\ x.end <= s.end \/ x.end <= s.consumed
  BY <1>4
<1>. HIDE DEF S
<1>6. Besides({"spans", "beat"}, j, job'[c]) /\ job'[c].spans = S
  BY <1>1, <1>3 DEF Besides, Fields, JobState
<1>. QED  BY <1>3, <1>5, <1>6 DEF j, ApplyBeat, Turn, Still

\* An acquire is served to the thread that asked.
LEMMA ServeAcquireFields ==
  ASSUME SessionInv, NEW c \in Job, ServeAcquire(c) \/ ServeFetch(c)
  PROVE  /\ Served(c) /\ disk' = disk
         /\ \/ /\ Turn(c, {"acquire"}) /\ job[c].acquire.at = "sent"
               /\ job'[c].acquire = AnswerOf(table, table')
            \/ /\ Turn(c, {"fetch"}) /\ job[c].fetch.at = "sent"
               /\ job'[c].fetch = AnswerOf(table, table')
<1> DEFINE j == job[c]
           a == AnswerOf(table, table')
<1>1. job \in [Job -> JobState] /\ j \in JobState
  BY DEF SessionInv, JobTypeOK
<1>2. /\ \/ ServeAcquire(c) /\ job'[c] = [j EXCEPT !.acquire = a]
         \/ ServeFetch(c) /\ job'[c] = [j EXCEPT !.fetch = a]
      /\ \A d \in Job \ {c} : job'[d] = job[d]
  BY <1>1 DEF ServeAcquire, ServeFetch
<1>. HIDE DEF j, a
<1>3. \/ ServeAcquire(c) /\ Besides({"acquire"}, j, job'[c]) /\ job'[c].acquire = a
      \/ ServeFetch(c) /\ Besides({"fetch"}, j, job'[c]) /\ job'[c].fetch = a
  BY <1>1, <1>2 DEF Besides, Fields, JobState
<1>. QED  BY <1>2, <1>3 DEF j, a, ServeAcquire, ServeFetch, Turn

\* A commit is served: unknown, or settled on its lease.
LEMMA ServeCommitFields ==
  ASSUME SessionInv, NEW c \in Job, ServeCommit(c)
  PROVE  LET m == job[c].commit
             n == job'[c].commit
         IN  /\ disk' = disk /\ Turn(c, {"commit"})
             /\ m.at = "sent" /\ n.at = "answered" /\ n.id = m.id /\ n.through = m.through
             /\ \/ table' = table /\ \A l \in table.leases : l.id # m.id
                \/ \E l \in table.leases :
                     /\ l.id = m.id /\ table' = Committed(table, l, m.through)
                     /\ n.closed => Settled(l, m.through) >= l.end
<1> DEFINE j == job[c]
           m == j.commit
           lease == {l \in table.leases : l.id = m.id}
           l == CHOOSE x \in lease : TRUE
           gone == [m EXCEPT !.at = "answered", !.gone = TRUE]
           closed == Settled(l, m.through) >= l.end
           done == [m EXCEPT !.at = "answered", !.closed = closed]
           call == IF lease = {} THEN gone ELSE done
<1>1. job \in [Job -> JobState] /\ j \in JobState /\ m \in CommitCall
  BY DEF SessionInv, JobTypeOK, JobState
<1>2. job' = [job EXCEPT ![c] = [j EXCEPT !.commit = call]]
  <2>1. CASE lease = {}
    <3>1. job' = [job EXCEPT ![c].commit.at = "answered", ![c].commit.gone = TRUE]
      BY <2>1 DEF ServeCommit
    <3>2. job' = [job EXCEPT ![c] = [j EXCEPT !.commit = gone]]
      BY <1>1, <3>1 DEF JobState
    <3>. QED  BY <2>1, <3>2
  <2>2. CASE lease # {}
    <3>1. job' = [job EXCEPT ![c].commit.at = "answered",
                             ![c].commit.closed = closed]
      BY <2>2 DEF ServeCommit
    <3>. HIDE DEF closed, lease
    <3>2. job' = [job EXCEPT ![c] = [j EXCEPT !.commit = done]]
      BY <1>1, <3>1 DEF JobState
    <3>. QED  BY <2>2, <3>2
  <2>. QED  BY <2>1, <2>2
<1>3. job'[c] = [j EXCEPT !.commit = call] /\ \A d \in Job \ {c} : job'[d] = job[d]
  BY <1>1, <1>2
<1>4. /\ m.at = "sent" /\ disk' = disk
      /\ lease = {} => table' = table
      /\ lease # {} => table' = Committed(table, l, m.through)
  BY DEF ServeCommit, Commit
<1>5. lease # {} => l \in table.leases /\ l.id = m.id
  OBVIOUS
<1>. HIDE DEF j, m, l
<1>6. /\ call.at = "answered" /\ call.id = m.id /\ call.through = m.through
      /\ lease # {} => (call.closed => Settled(l, m.through) >= l.end)
  BY <1>1 DEF CommitCall
<1>. HIDE DEF call
<1>7. Besides({"commit"}, j, job'[c]) /\ job'[c].commit = call
  BY <1>1, <1>3 DEF Besides, Fields, JobState
<1>8. CASE lease = {}
  BY <1>3, <1>4, <1>6, <1>7, <1>8 DEF j, m, Turn
<1>9. CASE lease # {}
  <2>. HIDE DEF lease
  <2>. QED  BY <1>3, <1>4, <1>5, <1>6, <1>7, <1>9 DEF j, m, Turn
<1>. QED  BY <1>8, <1>9

\* A release is served.
LEMMA ServeReleaseFields ==
  ASSUME SessionInv, NEW c \in Job, ServeRelease(c)
  PROVE  /\ disk' = disk /\ Turn(c, {"main"})
         /\ job[c].main = "release" /\ job'[c].main = "released"
         /\ table' = table \/ table' = Reclaimed(table, Holding(table, c), job[c].exhausted)
<1> DEFINE j == job[c]
<1>1. job \in [Job -> JobState] /\ j \in JobState
  BY DEF SessionInv, JobTypeOK
<1>2. job'[c] = [j EXCEPT !.main = "released"] /\ \A d \in Job \ {c} : job'[d] = job[d]
  BY <1>1 DEF ServeRelease
<1>3. table' = table \/ table' = Reclaimed(table, Holding(table, c), j.exhausted)
  BY DEF ServeRelease
<1>. HIDE DEF j
<1>4. Besides({"main"}, j, job'[c]) /\ job'[c].main = "released"
  BY <1>1, <1>2 DEF Besides, Fields, JobState
<1>. QED  BY <1>2, <1>3, <1>4 DEF j, ServeRelease, Turn

\* A heartbeat is served.
LEMMA ServeBeatFields ==
  ASSUME SessionInv, NEW c \in Job, ServeBeat(c)
  PROVE  disk' = disk /\ Turn(c, {"beat"}) /\ Heartbeat(c, job[c].beat.progress)
<1> DEFINE j == job[c]
<1>1. job \in [Job -> JobState] /\ j \in JobState
  BY DEF SessionInv, JobTypeOK
<1>2. PICK v : job' = [job EXCEPT ![c].beat.at = "answered", ![c].beat.view = v]
  BY DEF ServeBeat
<1>3. /\ job'[c] = [j EXCEPT !.beat.at = "answered", !.beat.view = v]
      /\ \A d \in Job \ {c} : job'[d] = job[d]
  BY <1>1, <1>2
<1>. HIDE DEF j
<1>4. Besides({"beat"}, j, job'[c])
  BY <1>1, <1>3 DEF Besides, Fields, JobState
<1>. QED  BY <1>3, <1>4 DEF j, ServeBeat, Turn

-----------------------------------------------------------------------------
(* The end of the data                                                     *)

\* The epoch is over, and there is no other: nothing will be granted or
\* committed any more.
Over(t) == t.leases = {} /\ t.free = {} /\ ~CanAdvance(t)

\* Over is told from the leases, the pool and the epoch alone.
LEMMA SameOver ==
  ASSUME NEW t, Over(t), NEW r, r.leases = t.leases, r.free = t.free, r.epoch = t.epoch
  PROVE  Over(r)
BY DEF Over, CanAdvance

\* An acquire finds nothing to reap, and no epoch to go on to.
LEMMA OverBase ==
  ASSUME Inv(table), Over(table), NEW c \in Cluster
  PROVE  Over(AcquireBase(c)) /\ Reaped(table) = table
<1> DEFINE t == Registered(table, c, NoIncarnation)
<1>1. table \in Table
  BY InvCoverage
<1>2. Reaped(table) = table
  <2>1. {l \in table.leases : l.overdue} = {}
    BY DEF Over
  <2>. QED  BY <1>1, <2>1, ReclaimNothing DEF Reaped
<1>3. t.leases = table.leases /\ t.free = table.free /\ t.epoch = table.epoch
  BY <1>1 DEF Registered, Table
<1>4. AcquireBase(c) = IF EpochComplete(t) /\ t.leases = {} THEN Advanced(t) ELSE t
  BY <1>2 DEF AcquireBase
<1>. HIDE DEF t
<1>5. Over(t)
  BY <1>3, SameOver
<1>6. Advanced(t) = t
  BY <1>5 DEF Over, Advanced
<1>. QED  BY <1>2, <1>4, <1>5, <1>6

\* A table that is over stays over, whatever its clients send.
LEMMA OverStays ==
  ASSUME Inv(table), Over(table), [Next]_table
  PROVE  Over(table')
<1>1. table \in Table /\ table.leases = {} /\ table.free = {}
  BY InvCoverage DEF Over
<1>2. ASSUME NEW c \in Cluster, AcquireFree(c)
      PROVE  FALSE
  <2>1. PICK spans : WorkVector(spans) /\ Covered(spans) \subseteq AcquireBase(c).free
    BY <1>2, AcquireFreeFacts
  <2>2. 1 \in DOMAIN spans /\ spans[1][1] \in spans[1][1] .. spans[1][2] - 1
    BY <2>1 DEF WorkVector
  <2>3. spans[1][1] \in Covered(spans)
    BY <2>2 DEF Covered
  <2>4. AcquireBase(c).free = {}
    BY OverBase DEF Over
  <2>. QED  BY <2>1, <2>3, <2>4
<1>3. ASSUME NEW c \in Cluster, AcquireStolen(c)
      PROVE  FALSE
  <2> DEFINE t == AcquireBase(c)
  <2>1. t.leases = {}
    BY OverBase DEF Over
  <2>2. \E n \in Nat \ {0} : \E victims \in [1 .. n -> t.leases] : TRUE
    BY <1>3, AcquireStolenFacts
  <2>. HIDE DEF t
  <2>3. PICK n \in Nat \ {0} : \E victims \in [1 .. n -> t.leases] : TRUE
    BY <2>2
  <2>4. 1 \in 1 .. n
    OBVIOUS
  <2>. QED  BY <2>1, <2>3, <2>4
<1>4. ASSUME NEW c \in Cluster, AcquireNothing(c)
      PROVE  Over(table')
  BY <1>4, OverBase DEF AcquireNothing
<1>5. ASSUME NEW c \in Cluster, NEW progress, Heartbeat(c, progress)
      PROVE  Over(table')
  <2> DEFINE r == Registered(table, c, NoIncarnation)
  <2>1. table' = Renewed(r, c, progress)
    BY <1>5, OverBase DEF Heartbeat
  <2>2. r.leases = {} /\ r.free = table.free /\ r.epoch = table.epoch /\ r \in Table
    BY <1>1, RegisteredInv, InvCoverage DEF Registered, Table
  <2>. HIDE DEF r
  <2>3. table'.leases = {} /\ table'.free = r.free /\ table'.epoch = r.epoch
    BY <2>1, <2>2 DEF Renewed, Table
  <2>. QED  BY <1>1, <2>2, <2>3, SameOver
<1>6. ASSUME NEW c \in Cluster, NEW inc, Register(c, inc)
      PROVE  Over(table')
  <2>1. table'.leases = table.leases /\ table'.free = table.free /\ table'.epoch = table.epoch
    BY <1>1, <1>6 DEF Register, Registered, Table
  <2>. QED  BY <2>1, SameOver
<1>7. ASSUME NEW c \in Cluster, FallSilent(c)
      PROVE  Over(table')
  <2>1. table'.leases = table.leases /\ table'.free = table.free /\ table'.epoch = table.epoch
    BY <1>1, <1>7 DEF FallSilent, Table
  <2>. QED  BY <2>1, SameOver
<1>8. /\ \A c, inc, count : ~ReleaseAll(c, inc, count)
      /\ ~Reap /\ ~AdvanceEpoch
  BY <1>1 DEF ReleaseAll, Holding, Reap, AdvanceEpoch, Over
<1>. QED  BY <1>1, <1>2, <1>3, <1>4, <1>5, <1>6, <1>7, <1>8 DEF Next

\* When nothing is left to give and nothing is outstanding, the epoch is complete.
LEMMA NothingLeft ==
  ASSUME NEW t, Inv(t), t.leases = {}, t.free = {}
  PROVE  EpochComplete(t)
<1>1. /\ t \in Table /\ CoverageIn(t) /\ CountersIn(t)
  BY InvCoverage
<1>2. \A b \in Blocks : t.state[b] \in {COMMITTED, QUARANTINED}
  BY <1>1 DEF CoverageIn, Table, BlockState
<1>3. Blocks = InState(t, COMMITTED) \cup InState(t, QUARANTINED)
  BY <1>2 DEF InState
<1>4. InState(t, COMMITTED) \cap InState(t, QUARANTINED) = {}
  BY DEF InState, COMMITTED, QUARANTINED
<1>5. Cardinality(InState(t, COMMITTED)) + Cardinality(InState(t, QUARANTINED)) = NumBlocks
  BY <1>3, <1>4, InStateFinite, DisjointCardinality, BlocksFinite
<1>. QED  BY <1>1, <1>5, PoolAssumption DEF CountersIn, EpochComplete

\* A grant leaves a lease.
LEMMA GrantsSomething ==
  ASSUME NEW t \in Table, NEW c \in Cluster, NEW spans, WorkVector(spans)
  PROVE  Granted(t, c, spans).leases # {}
<1> DEFINE n == Len(spans)
           N(i) == [id |-> <<t.epoch, spans[i][1], t.seq + i>>,
                    cluster |-> c, epoch |-> t.epoch,
                    start |-> spans[i][1], end |-> spans[i][2],
                    committed_end |-> spans[i][1], progress_end |-> spans[i][1],
                    overdue |-> FALSE]
<1>1. Granted(t, c, spans).leases = t.leases \cup {N(i) : i \in 1 .. n}
  BY DEF Granted, Table
<1>2. 1 \in 1 .. n
  BY DEF WorkVector
<1>. HIDE DEF N, n
<1>. QED  BY <1>1, <1>2

\* An acquire that leaves no lease found nothing to give, and the end of the data.
LEMMA ServedNothing ==
  ASSUME Inv(table), NEW c \in Cluster, Served(c), table'.leases = {}
  PROVE  Over(table')
<1> DEFINE t == AcquireBase(c)
           u == Registered(Reaped(table), c, NoIncarnation)
<1>1. Inv(t) /\ Inv(u) /\ t \in Table /\ u \in Table
  BY AcquireBaseInv, ReapedInv, RegisteredInv, InvCoverage
<1>2. ~AcquireFree(c)
  <2> SUFFICES ASSUME AcquireFree(c) PROVE FALSE
    OBVIOUS
  <2>1. PICK spans :
          /\ WorkVector(spans)
          /\ InvBut([t EXCEPT !.free = @ \ Covered(spans)], Covered(spans))
          /\ table' = Granted([t EXCEPT !.free = @ \ Covered(spans)], c, spans)
    BY AcquireFreeFacts
  <2>. HIDE DEF t
  <2> DEFINE taken == [t EXCEPT !.free = @ \ Covered(spans)]
  <2>2. taken \in Table /\ table' = Granted(taken, c, spans)
    BY <2>1 DEF InvBut
  <2>. HIDE DEF taken
  <2>. QED  BY <2>1, <2>2, GrantsSomething
<1>3. ~AcquireStolen(c)
  <2> SUFFICES ASSUME AcquireStolen(c) PROVE FALSE
    OBVIOUS
  <2>0. PICK n \in Nat \ {0} :
          \E victims \in [1 .. n -> t.leases], cuts \in [1 .. n -> Nat \ {0}] :
             /\ WorkVector(StolenSpans(victims, cuts))
             /\ InvBut(Robbed(t, victims, cuts), Covered(StolenSpans(victims, cuts)))
             /\ table' = Granted(Robbed(t, victims, cuts), c, StolenSpans(victims, cuts))
    BY AcquireStolenFacts
  <2>1. PICK victims \in [1 .. n -> t.leases], cuts \in [1 .. n -> Nat \ {0}] :
             /\ WorkVector(StolenSpans(victims, cuts))
             /\ InvBut(Robbed(t, victims, cuts), Covered(StolenSpans(victims, cuts)))
             /\ table' = Granted(Robbed(t, victims, cuts), c, StolenSpans(victims, cuts))
    BY <2>0
  <2>. HIDE DEF t
  <2> DEFINE robbed == Robbed(t, victims, cuts)
             spans == StolenSpans(victims, cuts)
  <2>2. robbed \in Table /\ WorkVector(spans) /\ table' = Granted(robbed, c, spans)
    BY <2>1 DEF InvBut
  <2>. HIDE DEF robbed, spans
  <2>. QED  BY <2>2, GrantsSomething
<1>4. AcquireNothing(c)
  BY <1>2, <1>3, ServedIsAcquire
<1>5. table' = t /\ t.free = {} /\ t.leases = {}
  BY <1>4 DEF AcquireNothing
<1>6. t = IF EpochComplete(u) /\ u.leases = {} THEN Advanced(u) ELSE u
  BY DEF AcquireBase
<1>. HIDE DEF t, u
<1>7. CASE EpochComplete(u) /\ u.leases = {}
  <2>1. t = Advanced(u)
    BY <1>6, <1>7
  <2>2. ~CanAdvance(u)
    <3> SUFFICES ASSUME CanAdvance(u) PROVE FALSE
      OBVIOUS
    <3>1. t.free = Blocks
      BY <1>1, <2>1 DEF Advanced, ResetEpoch, Table
    <3>2. 0 \in Blocks
      BY PoolAssumption DEF Blocks
    <3>. QED  BY <1>5, <3>1, <3>2
  <2>3. t = u
    BY <2>1, <2>2 DEF Advanced
  <2>. QED  BY <1>5, <2>2, <2>3 DEF Over
<1>8. CASE ~(EpochComplete(u) /\ u.leases = {})
  <2>1. t = u
    BY <1>6, <1>8
  <2>. QED  BY <1>1, <1>5, <1>8, <2>1, NothingLeft
<1>. QED  BY <1>7, <1>8

\* What the answer to an acquire tells: that all is over, or that there was a grant.
LEMMA AnswerTells ==
  ASSUME SessionInv, [SessionNext]_sessionVars, NEW c \in Cluster, Served(c)
  PROVE  LET a == AnswerOf(table, table')
         IN  /\ a.at = "answered"
             /\ a.status = "epoch_complete" => Over(table')
             /\ a.status = "granted" => table'.seq > 0
             /\ \A m \in table'.leases : m.id[3] > table.seq => \E s \in a.spans : s.id = m.id
<1> DEFINE new == {l \in table'.leases : l.id[3] > table.seq}
           a == AnswerOf(table, table')
<1>1. /\ Inv(table) /\ Inv(table') /\ table \in Table /\ table' \in Table /\ Issued(table')
  BY TableGoesOn, InvCoverage
<1>2. /\ a.at = "answered" /\ a.spans = {NewSpan(l) : l \in new}
      /\ a.status = IF new # {} THEN "granted"
                    ELSE IF table'.leases # {} THEN "drain" ELSE "epoch_complete"
  BY DEF AnswerOf
<1>. HIDE DEF a
<1>3. a.status = "epoch_complete" => table'.leases = {}
  BY <1>2
<1>4. a.status = "granted" => new # {}
  BY <1>2
<1>5. a.status = "granted" => table'.seq > 0
  <2> SUFFICES ASSUME new # {} PROVE table'.seq > 0
    BY <1>4
  <2>1. PICK l \in table'.leases : l.id[3] > table.seq
    OBVIOUS
  <2>2. l.id[3] <= table'.seq /\ l.id[3] \in Nat /\ table'.seq \in Nat /\ table.seq \in Nat
    BY <1>1 DEF Issued, Table, Lease
  <2>. QED  BY <2>1, <2>2
<1>6. ASSUME NEW m \in table'.leases, m.id[3] > table.seq
      PROVE  \E s \in a.spans : s.id = m.id
  <2>1. m \in new /\ NewSpan(m).id = m.id
    BY <1>6 DEF NewSpan
  <2>. QED  BY <1>2, <2>1
<1>. QED  BY <1>1, <1>2, <1>3, <1>5, <1>6, ServedNothing DEF a

-----------------------------------------------------------------------------
(* No grant is lost                                                        *)

\* What the running process was granted is in its session or on its way there.
Listed(j, c, t) ==
    j.alive => \A l \in t.leases : l.cluster = c /\ l.id[3] > j.since =>
        \E s \in Mine(j) : s.id = l.id

\* A job that was never granted anything.
Unfed(j) ==
    /\ j.steps = 0 /\ j.main \notin {"note", "train", "commit"}
    /\ "granted" \notin {j.acquire.status, j.fetch.status, j.prefetch.status}

\* A job believes the data to be at its end only if it is.
EndsKnown(j, t) == j.exhausted \/ j.acquire.status = "epoch_complete" => Over(t)

\* Main waits for its own acquire, hands back only at the end of the data, and
\* forgets a span only when the lease is gone.
Turns(j, t) ==
    /\ j.acquire.at # "answered" => j.acquire.spans = {}
    /\ j.acquire.at # "idle" => j.main = "acquire"
    /\ j.main \in {"release", "released"} => j.exhausted
    /\ j.commit.at = "answered" /\ j.commit.closed => \A l \in t.leases : l.id # j.commit.id
    /\ t.seq = 0 => Unfed(j)

\* The three together.
HoldsAll(j, c, t) == Listed(j, c, t) /\ Turns(j, t) /\ EndsKnown(j, t)

\* No lease of cluster c is new.
Unserved(t, r, c) == \A m \in r.leases : m.cluster = c => m.id[3] <= t.seq

\* The table goes on, and gives the cluster nothing.
LEMMA HoldsOn ==
  ASSUME NEW t \in Table, NEW r \in Table, Continues(t, r), NEW c, NEW j \in JobState,
         JobInv(j, c, t), Unserved(t, r, c), Over(t) => Over(r), HoldsAll(j, c, t)
  PROVE  HoldsAll(j, c, r)
<1>1. t.seq \in Nat /\ r.seq \in Nat /\ t.seq <= r.seq
  BY DEF Table, Continues
<1>2. ASSUME NEW m \in r.leases, m.id[3] <= t.seq
      PROVE  \E l \in t.leases : l.id = m.id /\ l.cluster = m.cluster
  <2>1. m.id[3] \in Nat
    BY DEF Table, Lease
  <2>. QED  BY <1>1, <1>2, <2>1 DEF Continues, Successor
<1>3. Listed(j, c, r)
  BY <1>2 DEF HoldsAll, Listed, Unserved
<1>4. ASSUME j.commit.at = "answered", j.commit.closed, NEW m \in r.leases
      PROVE  m.id # j.commit.id
  <2>1. j.commit.id \in LeaseId
    BY DEF JobState, CommitCall
  <2>2. j.commit.id[3] <= t.seq
    BY <1>4, <2>1 DEF JobInv, Entitled, Mentions
  <2>. QED  BY <1>2, <1>4, <2>2 DEF HoldsAll, Turns
<1>5. r.seq = 0 => t.seq = 0
  BY <1>1
<1>6. Turns(j, r)
  BY <1>4, <1>5 DEF HoldsAll, Turns
<1>. QED  BY <1>3, <1>6 DEF HoldsAll, EndsKnown

\* A step whose leases are old ones gives nothing to anybody.
LEMMA OldLeases ==
  ASSUME NEW t, Issued(t), NEW r, \A m \in r.leases : \E l \in t.leases : l.id = m.id
  PROVE  \A c : Unserved(t, r, c)
BY DEF Issued, Unserved

\* An acquire gives to the cluster that asked.
LEMMA ServedOthers ==
  ASSUME Inv(table), NEW c \in Cluster, Served(c), NEW d, d # c
  PROVE  Unserved(table, table', d)
<1>1. Issued(table)
  BY InvCoverage
<1>. QED  BY <1>1, ServedFacts DEF Unserved, Issued

\* Every table step but an acquire of the cluster's own leaves it with old leases.
LEMMA NotServed ==
  ASSUME SessionInv, SessionNext, NEW c \in Job,
         ~ServeAcquire(c), ~ServeFetch(c)
  PROVE  Unserved(table, table', c)
<1>1. /\ Inv(table) /\ table \in Table /\ Issued(table) /\ Job \subseteq Cluster
      /\ job \in [Job -> JobState]
  BY TableGoesOn, InvCoverage, SessionAssumption DEF SessionInv, JobTypeOK
<1>2. ASSUME table' = table
      PROVE  Unserved(table, table', c)
  BY <1>1, <1>2 DEF Unserved, Issued
<1>3. ASSUME table'.leases \subseteq table.leases
      PROVE  Unserved(table, table', c)
  BY <1>1, <1>3 DEF Unserved, Issued
<1>4. ASSUME NEW d \in Cluster, NEW progress, Heartbeat(d, progress),
             \A i \in DOMAIN progress : progress[i] \in Nat
      PROVE  Unserved(table, table', c)
  BY <1>1, <1>4, BeatFacts, OldLeases
<1>5. ASSUME NEW l \in table.leases, NEW w \in Nat, table' = Committed(table, l, w)
      PROVE  Unserved(table, table', c)
  <2>1. \A m \in table'.leases : m \in table.leases \/ m.id = l.id
    BY <1>1, <1>5, CommitFacts
  <2>. QED  BY <1>1, <2>1, OldLeases
<1>6. ASSUME NEW gone, NEW count, table' = Reclaimed(table, gone, count)
      PROVE  Unserved(table, table', c)
  <2>1. table'.leases \subseteq table.leases
    BY <1>1, <1>6 DEF Reclaimed, Table
  <2>. QED  BY <1>3, <2>1
<1>7. ASSUME NEW d \in Job, ServeAcquire(d) \/ ServeFetch(d)
      PROVE  Unserved(table, table', c)
  BY <1>1, <1>7, ServedOthers DEF ServeAcquire, ServeFetch
<1>8. ASSUME NEW d \in Job, ServeCommit(d)
      PROVE  Unserved(table, table', c)
  <2>1. job[d].commit.through \in Nat
    BY <1>1, PoolAssumption DEF JobState, CommitCall, Watermarks
  <2>. QED  BY <1>2, <1>5, <1>8, <2>1, ServeCommitFields
<1>9. ASSUME NEW d \in Job, ServeRelease(d)
      PROVE  Unserved(table, table', c)
  BY <1>2, <1>6, <1>9, ServeReleaseFields
<1>10. ASSUME NEW d \in Job, ServeBeat(d)
       PROVE  Unserved(table, table', c)
  <2>1. \A i \in DOMAIN job[d].beat.progress : job[d].beat.progress[i] \in Nat
    BY <1>1, PoolAssumption DEF JobState, Beat, Report, Watermarks
  <2>. QED  BY <1>1, <1>4, <1>10, <2>1, ServeBeatFields
<1>11. ASSUME NEW d \in Job, Start(d)
       PROVE  Unserved(table, table', c)
  <2>1. table'.leases = table.leases
    BY <1>1, <1>11 DEF Start, Register, Registered, Table
  <2>. QED  BY <1>3, <2>1
<1>12. ASSUME NEW d \in Job, Terminate(d)
       PROVE  Unserved(table, table', c)
  BY <1>6, <1>12 DEF Terminate, ReleaseAll
<1>13. ASSUME NEW d \in Job, Silence(d)
       PROVE  Unserved(table, table', c)
  <2>1. table'.leases = table.leases
    BY <1>1, <1>13 DEF Silence, FallSilent, Table
  <2>. QED  BY <1>3, <2>1
<1>14. ASSUME NEW d \in Cluster \ Job, Peer(d)
       PROVE  Unserved(table, table', c)
  <2>1. CASE Served(d)
    BY <1>1, <2>1, ServedOthers
  <2>2. CASE Heartbeat(d, [id \in {l.id : l \in Holding(table, d)} |-> NumBlocks])
    <3> DEFINE progress == [id \in {l.id : l \in Holding(table, d)} |-> NumBlocks]
    <3>1. \A i \in DOMAIN progress : progress[i] \in Nat
      BY PoolAssumption
    <3>2. Heartbeat(d, progress)
      BY <2>2
    <3>. HIDE DEF progress
    <3>. QED  BY <1>4, <3>1, <3>2
  <2>3. CASE \E l \in Holding(table, d) : Commit(l, l.end)
    <3>1. PICK l \in Holding(table, d) : Commit(l, l.end)
      BY <2>3
    <3>2. l \in table.leases /\ l.end \in Nat /\ table' = Committed(table, l, l.end)
      BY <1>1, <3>1 DEF Holding, Commit, Table, Lease
    <3>. QED  BY <1>5, <3>2
  <2>. QED  BY <1>14, <2>1, <2>2, <2>3 DEF Peer
<1>15. ASSUME NEW l \in table.leases, Lapse(l)
       PROVE  Unserved(table, table', c)
  <2>1. table'.leases = (table.leases \ {l}) \cup {[l EXCEPT !.overdue = TRUE]}
    BY <1>1, <1>15 DEF Lapse, LeaseOverdue, Table
  <2>2. [l EXCEPT !.overdue = TRUE].id = l.id
    BY <1>1 DEF Table, Lease
  <2>3. \A m \in table'.leases : \E x \in table.leases : x.id = m.id
    BY <2>1, <2>2
  <2>. QED  BY <1>1, <2>3, OldLeases
<1>16. ASSUME Tick
       PROVE  Unserved(table, table', c)
  BY <1>6, <1>16 DEF Tick, Reap, Reaped
<1>17. ASSUME NEW d \in Job, Crash(d) \/ FetchFailed(d) \/ CommitRetried(d) \/ CommitFailed(d)
                             \/ FetchAnswered(d) \/ FetchStored(d) \/ SendBeat(d) \/ ApplyBeat(d)
       PROVE  Unserved(table, table', c)
  BY <1>2, <1>17 DEF Crash, FetchFailed, CommitRetried, CommitFailed, FetchAnswered,
                     FetchStored, SendBeat, ApplyBeat
<1>18. ASSUME NEW d \in Job, Main(d), ~ServeAcquire(d), ~ServeCommit(d), ~ServeRelease(d)
       PROVE  Unserved(table, table', c)
  <2>1. table' = table
    BY <1>18 DEF Main, TakePrefetched, Ask, AcquireAnswered, NotePhase, TrainStep, EndOfPhase,
                 SaveThenCommit, SendCommit, CommitAnswered, CommitsDone, ReleaseAnswered
  <2>. QED  BY <1>2, <2>1
<1>19. ASSUME NEW d \in Job, Main(d) \/ Fetcher(d) \/ Beater(d)
       PROVE  Unserved(table, table', c)
  BY <1>7, <1>8, <1>9, <1>10, <1>17, <1>18, <1>19 DEF Fetcher, Beater
<1>20. ASSUME NEW d \in Job, \/ FetchFailed(d) \/ CommitRetried(d) \/ CommitFailed(d)
                             \/ Start(d) \/ Crash(d) \/ Terminate(d) \/ Silence(d)
       PROVE  Unserved(table, table', c)
  BY <1>11, <1>12, <1>13, <1>17, <1>20
<1>. QED  BY <1>14, <1>15, <1>16, <1>19, <1>20 DEF SessionNext

\* A job lists what it listed, if it forgets only what the coordinator did.
LEMMA StillListed ==
  ASSUME NEW c, NEW t, NEW j, NEW k, Listed(j, c, t), k.alive = j.alive, k.since = j.since,
         \A s \in Mine(j) : \/ \E x \in Mine(k) : x.id = s.id
                            \/ \A l \in t.leases : l.id # s.id
  PROVE  Listed(k, c, t)
BY DEF Listed

\* Main moves between stages, and knows the same spans.
LEMMA MainHolds ==
  ASSUME NEW c, NEW t, NEW j, NEW k, HoldsAll(j, c, t),
         \A f \in {"alive", "since", "spans", "acquire", "exhausted", "commit"} : k[f] = j[f],
         Fetched(k) = Fetched(j), j.acquire.at = "idle",
         k.main \in {"release", "released"} => j.exhausted,
         t.seq # 0 \/ Unfed(k)
  PROVE  HoldsAll(k, c, t)
<1>1. /\ k.alive = j.alive /\ k.since = j.since /\ k.spans = j.spans /\ k.acquire = j.acquire
      /\ k.exhausted = j.exhausted /\ k.commit = j.commit
  OBVIOUS
<1>2. Mine(k) = Mine(j)
  BY <1>1 DEF Mine
<1>3. Listed(k, c, t)
  BY <1>1, <1>2, StillListed DEF HoldsAll
<1>. QED  BY <1>1, <1>3 DEF HoldsAll, Turns, EndsKnown

\* The steps of main between its calls: a new phase of the prefetched spans,
\* its note, its training and its end.
LEMMA StageHolds ==
  ASSUME SessionInv, NEW c \in Job, MaxDivergeSeq = 0, HoldsAll(job[c], c, table),
         \/ TakePrefetched(c) \/ TrainStep(c) \/ EndOfPhase(c)
         \/ SaveThenCommit(c) \/ CommitsDone(c)
  PROVE  HoldsAll(job'[c], c, table)
<1> DEFINE j == job[c]
           k == job'[c]
<1>1. j \in JobState /\ table.seq \in Nat /\ Turns(j, table)
  BY InvCoverage DEF SessionInv, JobTypeOK, Table, HoldsAll
<1>2. j.acquire.at = "idle" \/ j.main = "acquire"
  BY <1>1 DEF Turns
<1>3. table.seq = 0 => Unfed(j)
  BY <1>1 DEF Turns
<1>4. CASE TakePrefetched(c)
  <2>1. /\ Turn(c, {"main", "phase", "todo", "prefetch"}) /\ j.main = "next"
        /\ j.prefetch.status = "granted" /\ k.main = "note"
    BY <1>4, TakePrefetchedFields
  <2>2. table.seq # 0
    BY <1>3, <2>1 DEF Unfed
  <2>. HIDE DEF j, k
  <2>3. Fetched(k) = Fetched(j)
    BY <2>1 DEF Turn, Besides, Fields, Fetched, j, k
  <2>4. \A f \in {"alive", "since", "spans", "acquire", "exhausted", "commit"} : k[f] = j[f]
    BY <2>1 DEF Turn, Besides, Fields, j, k
  <2>5. HoldsAll(k, c, table)
    BY <1>2, <2>1, <2>2, <2>3, <2>4, MainHolds DEF j
  <2>. QED  BY <2>5 DEF k
<1>5. CASE TrainStep(c)
  <2>1. Turn(c, {"todo", "fresh", "steps"}) /\ j.main = "train"
    BY <1>5, TrainStepFields
  <2>2. table.seq # 0
    BY <1>3, <2>1 DEF Unfed
  <2>. HIDE DEF j, k
  <2>3. Fetched(k) = Fetched(j) /\ k.main = j.main
    BY <2>1 DEF Turn, Besides, Fields, Fetched, j, k
  <2>4. \A f \in {"alive", "since", "spans", "acquire", "exhausted", "commit"} : k[f] = j[f]
    BY <2>1 DEF Turn, Besides, Fields, j, k
  <2>5. HoldsAll(k, c, table)
    BY <1>2, <2>1, <2>2, <2>3, <2>4, MainHolds DEF j
  <2>. QED  BY <2>5 DEF k
<1>6. CASE EndOfPhase(c)
  <2>1. /\ Turn(c, {"main", "targets"}) /\ j.main = "train"
        /\ k.main \in {"commit", "next"}
    BY <1>6, EndOfPhaseFields
  <2>2. table.seq # 0
    BY <1>3, <2>1 DEF Unfed
  <2>. HIDE DEF j, k
  <2>3. Fetched(k) = Fetched(j)
    BY <2>1 DEF Turn, Besides, Fields, Fetched, j, k
  <2>4. \A f \in {"alive", "since", "spans", "acquire", "exhausted", "commit"} : k[f] = j[f]
    BY <2>1 DEF Turn, Besides, Fields, j, k
  <2>5. HoldsAll(k, c, table)
    BY <1>2, <2>1, <2>2, <2>3, <2>4, MainHolds DEF j
  <2>. QED  BY <2>5 DEF k
<1>7. CASE SaveThenCommit(c)
  <2>0. j.main = "train"
    BY <1>7, SaveThenCommitFields
  <2>2. table.seq # 0
    BY <1>3, <2>0 DEF Unfed
  <2>1. Turn(c, {"main", "fresh", "targets"}) /\ k.main = "commit"
    BY <1>1, <1>7, <2>2, SaveThenCommitFields
  <2>. HIDE DEF j, k
  <2>3. Fetched(k) = Fetched(j)
    BY <2>1 DEF Turn, Besides, Fields, Fetched, j, k
  <2>4. \A f \in {"alive", "since", "spans", "acquire", "exhausted", "commit"} : k[f] = j[f]
    BY <2>1 DEF Turn, Besides, Fields, j, k
  <2>5. HoldsAll(k, c, table)
    BY <1>2, <2>0, <2>1, <2>2, <2>3, <2>4, MainHolds DEF j
  <2>. QED  BY <2>5 DEF k
<1>8. CASE CommitsDone(c)
  <2>1. /\ Turn(c, {"main", "steps"}) /\ j.main = "commit" /\ k.main \in {"done", "train", "next"}
    BY <1>8, CommitsDoneFields
  <2>2. table.seq # 0
    BY <1>3, <2>1 DEF Unfed
  <2>. HIDE DEF j, k
  <2>3. Fetched(k) = Fetched(j)
    BY <2>1 DEF Turn, Besides, Fields, Fetched, j, k
  <2>4. \A f \in {"alive", "since", "spans", "acquire", "exhausted", "commit"} : k[f] = j[f]
    BY <2>1 DEF Turn, Besides, Fields, j, k
  <2>5. HoldsAll(k, c, table)
    BY <1>2, <2>1, <2>2, <2>3, <2>4, MainHolds DEF j
  <2>. QED  BY <2>5 DEF k
<1>. QED  BY <1>4, <1>5, <1>6, <1>7, <1>8

\* Asking forgets nothing: no answer was waiting.
LEMMA AskHolds ==
  ASSUME SessionInv, NEW c \in Job, HoldsAll(job[c], c, table), Ask(c)
  PROVE  HoldsAll(job'[c], c, table)
<1> DEFINE j == job[c]
           k == job'[c]
<1>1. /\ Turn(c, {"main", "prefetch", "acquire"})
      /\ j.main \in {"next", "asleep"} /\ k.main = "acquire"
      /\ k.prefetch \in {j.prefetch, NoGrant} /\ k.acquire = [NoCall EXCEPT !.at = "sent"]
  BY AskFields
<1>2. k.acquire.at = "sent" /\ k.acquire.status = "none" /\ k.acquire.spans = {}
  BY <1>1 DEF NoCall
<1>3. NoGrant.status = "none"
  BY DEF NoGrant
<1>. HIDE DEF j, k
<1>4. /\ k.alive = j.alive /\ k.since = j.since /\ k.spans = j.spans /\ k.fetch = j.fetch
      /\ k.exhausted = j.exhausted /\ k.commit = j.commit /\ k.steps = j.steps
  BY <1>1 DEF Turn, Besides, Fields, j, k
<1>5. Listed(j, c, table) /\ Turns(j, table) /\ EndsKnown(j, table)
  BY DEF HoldsAll, j
<1>6. j.acquire.spans = {}
  BY <1>1, <1>5 DEF Turns
<1>7. Mine(k) = Mine(j)
  BY <1>2, <1>4, <1>6 DEF Mine, Fetched
<1>8. Listed(k, c, table)
  BY <1>4, <1>5, <1>7, StillListed
<1>9. Turns(k, table)
  BY <1>1, <1>2, <1>3, <1>4, <1>5 DEF Turns, Unfed
<1>10. EndsKnown(k, table)
  BY <1>2, <1>4, <1>5 DEF EndsKnown
<1>11. HoldsAll(k, c, table)
  BY <1>8, <1>9, <1>10 DEF HoldsAll
<1>. QED  BY <1>11 DEF k

\* The answer is put into the session, whatever main does next.
LEMMA AcquireAnsweredHolds ==
  ASSUME SessionInv, NEW c \in Job, HoldsAll(job[c], c, table), AcquireAnswered(c)
  PROVE  HoldsAll(job'[c], c, table)
<1> DEFINE j == job[c]
           k == job'[c]
<1>1. /\ Turn(c, {"spans", "acquire", "main", "phase", "todo", "exhausted", "prefetch"})
      /\ j.acquire.at = "answered" /\ k.acquire = NoCall
      /\ k.spans = j.spans \cup j.acquire.spans /\ k.prefetch \in {j.prefetch, NoGrant}
      /\ \/ /\ "granted" \in {j.acquire.status, j.prefetch.status}
            /\ k.main = "note" /\ k.exhausted = j.exhausted
         \/ j.acquire.status = "epoch_complete" /\ k.main = "release" /\ k.exhausted = TRUE
         \/ k.exhausted = j.exhausted /\ k.main = "asleep"
  BY AcquireAnsweredFields
<1>2. /\ NoCall.at = "idle" /\ NoCall.status = "none" /\ NoCall.spans = {}
      /\ NoGrant.status = "none"
  BY DEF NoCall, NoGrant
<1>. HIDE DEF j, k
<1>4. /\ k.alive = j.alive /\ k.since = j.since /\ k.fetch = j.fetch
      /\ k.commit = j.commit /\ k.steps = j.steps
  BY <1>1 DEF Turn, Besides, Fields, j, k
<1>5. Listed(j, c, table) /\ Turns(j, table) /\ EndsKnown(j, table)
  BY DEF HoldsAll, j
<1>6. Mine(k) = Mine(j)
  BY <1>1, <1>2, <1>4 DEF Mine, Fetched
<1>7. Listed(k, c, table)
  BY <1>4, <1>5, <1>6, StillListed
<1>8. Turns(k, table)
  <2>1. table.seq = 0 => Unfed(k)
    BY <1>1, <1>2, <1>4, <1>5 DEF Turns, Unfed
  <2>2. k.main \in {"release", "released"} => k.exhausted
    BY <1>1
  <2>. QED  BY <1>1, <1>2, <1>4, <1>5, <2>1, <2>2 DEF Turns
<1>9. EndsKnown(k, table)
  BY <1>1, <1>2, <1>5 DEF EndsKnown
<1>10. HoldsAll(k, c, table)
  BY <1>7, <1>8, <1>9 DEF HoldsAll
<1>. QED  BY <1>10 DEF k

\* The prefetch thread puts its answer into the session before it stores it.
LEMMA FetchHolds ==
  ASSUME SessionInv, NEW c \in Job, ~Outages, HoldsAll(job[c], c, table),
         FetchAnswered(c) \/ FetchStored(c) \/ FetchFailed(c)
  PROVE  HoldsAll(job'[c], c, table)
<1> DEFINE j == job[c]
           k == job'[c]
<1>1. j \in JobState
  BY DEF SessionInv, JobTypeOK
<1>2. /\ NoCall.at = "idle" /\ NoCall.status = "none" /\ NoCall.spans = {}
      /\ NoGrant.status = "none"
  BY DEF NoCall, NoGrant
<1>3. /\ Turn(c, {"spans", "fetch", "prefetch"})
      /\ Mine(k) = Mine(j)
      /\ {k.fetch.status, k.prefetch.status} \subseteq
           {"none", j.fetch.status, j.prefetch.status}
  <2>1. CASE FetchAnswered(c)
    <3>1. /\ Turn(c, {"spans", "fetch"}) /\ j.fetch.at = "answered"
          /\ k.spans = j.spans \cup j.fetch.spans
          /\ k.fetch = [j.fetch EXCEPT !.at = "storing"]
      BY <2>1, FetchAnsweredFields
    <3>. HIDE DEF j, k
    <3>2. k.fetch.at = "storing" /\ k.fetch.status = j.fetch.status
      BY <1>1, <3>1 DEF JobState, Call
    <3>3. k.acquire = j.acquire /\ k.prefetch = j.prefetch
      BY <3>1 DEF Turn, Besides, Fields, j, k
    <3>4. Mine(k) = Mine(j)
      BY <3>1, <3>2, <3>3 DEF Mine, Fetched
    <3>5. Turn(c, {"spans", "fetch", "prefetch"})
      BY <3>1 DEF Turn, Besides
    <3>. QED  BY <3>2, <3>3, <3>4, <3>5 DEF j, k
  <2>2. CASE FetchStored(c) \/ FetchFailed(c)
    <3>1. /\ Turn(c, {"fetch", "prefetch"}) /\ k.fetch = NoCall
          /\ j.fetch.at = "storing" /\ k.prefetch.status = j.fetch.status
      BY <2>2, FetchStoredFields
    <3>. HIDE DEF j, k
    <3>2. k.acquire = j.acquire /\ k.spans = j.spans
      BY <3>1 DEF Turn, Besides, Fields, j, k
    <3>3. Mine(k) = Mine(j)
      BY <1>2, <3>1, <3>2 DEF Mine, Fetched
    <3>4. Turn(c, {"spans", "fetch", "prefetch"})
      BY <3>1 DEF Turn, Besides
    <3>. QED  BY <1>2, <3>1, <3>3, <3>4 DEF j, k
  <2>. QED  BY <2>1, <2>2
<1>. HIDE DEF j, k
<1>4. /\ k.alive = j.alive /\ k.since = j.since /\ k.acquire = j.acquire /\ k.main = j.main
      /\ k.exhausted = j.exhausted /\ k.commit = j.commit /\ k.steps = j.steps
  BY <1>3 DEF Turn, Besides, Fields, j, k
<1>5. Listed(j, c, table) /\ Turns(j, table) /\ EndsKnown(j, table)
  BY DEF HoldsAll, j
<1>6. Listed(k, c, table)
  BY <1>3, <1>4, <1>5, StillListed
<1>7. Unfed(j) => Unfed(k)
  BY <1>3, <1>4 DEF Unfed
<1>8. Turns(k, table)
  BY <1>4, <1>5, <1>7 DEF Turns
<1>9. HoldsAll(k, c, table)
  BY <1>4, <1>5, <1>6, <1>8 DEF HoldsAll, EndsKnown
<1>. QED  BY <1>9 DEF k

\* The session's spans are brought up to date; none is dropped but one whose
\* lease is closed.
LEMMA SpansHold ==
  ASSUME NEW c, NEW t, NEW j, NEW k, HoldsAll(j, c, t),
         \A f \in {"alive", "since", "main", "acquire", "exhausted", "steps", "prefetch"} :
            k[f] = j[f],
         k.fetch.status \in {"none", j.fetch.status}, Fetched(k) = Fetched(j),
         \A s \in j.spans : \/ \E x \in k.spans : x.id = s.id
                            \/ \A l \in t.leases : l.id # s.id,
         k.commit.at = "answered" /\ k.commit.closed =>
            \A l \in t.leases : l.id # k.commit.id
  PROVE  HoldsAll(k, c, t)
<1>1. /\ k.alive = j.alive /\ k.since = j.since /\ k.main = j.main /\ k.acquire = j.acquire
      /\ k.exhausted = j.exhausted /\ k.steps = j.steps /\ k.prefetch = j.prefetch
  OBVIOUS
<1>2. \A s \in Mine(j) : \/ \E x \in Mine(k) : x.id = s.id
                         \/ \A l \in t.leases : l.id # s.id
  BY <1>1 DEF Mine
<1>3. Listed(k, c, t)
  BY <1>1, <1>2, StillListed DEF HoldsAll
<1>4. Unfed(j) => Unfed(k)
  BY <1>1 DEF Unfed
<1>5. Turns(k, t)
  BY <1>1, <1>4 DEF HoldsAll, Turns
<1>. QED  BY <1>1, <1>3, <1>5 DEF HoldsAll, EndsKnown

\* A phase is noted, and the next one asked for.
LEMMA NotePhaseHolds ==
  ASSUME SessionInv, NEW c \in Job, HoldsAll(job[c], c, table), NotePhase(c)
  PROVE  HoldsAll(job'[c], c, table)
<1> DEFINE j == job[c]
           k == job'[c]
<1>1. /\ Turn(c, {"main", "phase", "spans", "fetch"})
      /\ j.main = "note" /\ k.main = "train"
      /\ \/ k.fetch = j.fetch
         \/ j.fetch = NoCall /\ k.fetch = [NoCall EXCEPT !.at = "sent"]
      /\ \A s \in j.spans : \E x \in k.spans : x.id = s.id
  BY NotePhaseFields
<1>. HIDE DEF j, k
<1>2. Fetched(k) = Fetched(j)
  BY <1>1 DEF Fetched, NoCall
<1>3. /\ k.alive = j.alive /\ k.since = j.since /\ k.acquire = j.acquire
      /\ k.exhausted = j.exhausted /\ k.commit = j.commit
  BY <1>1 DEF Turn, Besides, Fields, j, k
<1>4. Listed(j, c, table) /\ Turns(j, table) /\ EndsKnown(j, table)
  BY DEF HoldsAll, j
<1>5. \A s \in Mine(j) : \E x \in Mine(k) : x.id = s.id
  BY <1>1, <1>2, <1>3 DEF Mine
<1>6. Listed(k, c, table)
  BY <1>3, <1>4, <1>5, StillListed
<1>7. Turns(k, table)
  BY <1>1, <1>3, <1>4 DEF Turns, Unfed
<1>8. HoldsAll(k, c, table)
  BY <1>3, <1>4, <1>6, <1>7 DEF HoldsAll, EndsKnown
<1>. QED  BY <1>8 DEF k

\* A commit is sent, answered, retried and given up, and heartbeats are sent and applied.
LEMMA CallsHold ==
  ASSUME SessionInv, NEW c \in Job, HoldsAll(job[c], c, table),
         \/ SendCommit(c) \/ CommitAnswered(c) \/ CommitRetried(c) \/ CommitFailed(c)
         \/ SendBeat(c) \/ ApplyBeat(c)
  PROVE  HoldsAll(job'[c], c, table)
<1> DEFINE j == job[c]
           k == job'[c]
           F == {"alive", "since", "main", "acquire", "exhausted", "steps", "prefetch"}
<1>1. j.commit.at = "answered" /\ j.commit.closed => \A l \in table.leases : l.id # j.commit.id
  BY DEF HoldsAll, Turns
<1>2. CASE SendCommit(c)
  <2>1. /\ Turn(c, {"targets", "commit"}) /\ ~k.commit.closed
    BY <1>2, SendCommitFields
  <2>. HIDE DEF j, k
  <2>2. Fetched(k) = Fetched(j) /\ k.spans = j.spans /\ k.fetch = j.fetch
    BY <2>1 DEF Turn, Besides, Fields, Fetched, j, k
  <2>3. \A f \in F : k[f] = j[f]
    BY <2>1 DEF Turn, Besides, Fields, j, k
  <2>4. HoldsAll(k, c, table)
    BY <2>1, <2>2, <2>3, SpansHold DEF j
  <2>. QED  BY <2>4 DEF k
<1>3. CASE CommitAnswered(c)
  <2>1. /\ Turn(c, {"spans", "commit"}) /\ j.commit.at = "answered" /\ k.commit = NoCommit
        /\ \A s \in j.spans : \/ \E x \in k.spans : x.id = s.id
                              \/ j.commit.closed /\ s.id = j.commit.id
    BY <1>3, CommitAnsweredFields
  <2>. HIDE DEF j, k
  <2>2. Fetched(k) = Fetched(j) /\ k.fetch = j.fetch
    BY <2>1 DEF Turn, Besides, Fields, Fetched, j, k
  <2>3. \A f \in F : k[f] = j[f]
    BY <2>1 DEF Turn, Besides, Fields, j, k
  <2>4. k.commit.at = "idle"
    BY <2>1 DEF NoCommit
  <2>5. HoldsAll(k, c, table)
    BY <1>1, <2>1, <2>2, <2>3, <2>4, SpansHold DEF j
  <2>. QED  BY <2>5 DEF k
<1>4. CASE CommitRetried(c)
  <2>1. Turn(c, {"commit"}) /\ k.commit.at = "sent"
    BY <1>4, CommitRetriedFields
  <2>. HIDE DEF j, k
  <2>2. Fetched(k) = Fetched(j) /\ k.spans = j.spans /\ k.fetch = j.fetch
    BY <2>1 DEF Turn, Besides, Fields, Fetched, j, k
  <2>3. \A f \in F : k[f] = j[f]
    BY <2>1 DEF Turn, Besides, Fields, j, k
  <2>4. HoldsAll(k, c, table)
    BY <2>1, <2>2, <2>3, SpansHold DEF j
  <2>. QED  BY <2>4 DEF k
<1>5. CASE SendBeat(c) \/ ApplyBeat(c)
  <2>1. /\ Turn(c, {"spans", "beat"})
        /\ k.spans = j.spans \/ \A s \in j.spans : \E x \in k.spans : x.id = s.id
    <3>1. CASE SendBeat(c)
      <4>1. Turn(c, {"beat"})
        BY <3>1, SendBeatFields
      <4>2. k.spans = j.spans /\ Turn(c, {"spans", "beat"})
        BY <4>1 DEF Turn, Besides, Fields
      <4>. QED  BY <4>2
    <3>2. CASE ApplyBeat(c)
      BY <3>2, ApplyBeatFields
    <3>. QED  BY <1>5, <3>1, <3>2
  <2>. HIDE DEF j, k
  <2>2. Fetched(k) = Fetched(j) /\ k.commit = j.commit /\ k.fetch = j.fetch
    BY <2>1 DEF Turn, Besides, Fields, Fetched, j, k
  <2>3. \A f \in F : k[f] = j[f]
    BY <2>1 DEF Turn, Besides, Fields, j, k
  <2>4. HoldsAll(k, c, table)
    BY <1>1, <2>1, <2>2, <2>3, SpansHold DEF j
  <2>. QED  BY <2>4 DEF k
<1>6. CASE CommitFailed(c)
  <2>1. Turn(c, {"targets", "commit"}) /\ k.commit.at = "idle"
    BY <1>6, CommitFailedFields DEF NoCommit
  <2>. HIDE DEF j, k
  <2>2. Fetched(k) = Fetched(j) /\ k.spans = j.spans /\ k.fetch = j.fetch
    BY <2>1 DEF Turn, Besides, Fields, Fetched, j, k
  <2>3. \A f \in F : k[f] = j[f]
    BY <2>1 DEF Turn, Besides, Fields, j, k
  <2>4. HoldsAll(k, c, table)
    BY <2>1, <2>2, <2>3, SpansHold DEF j
  <2>. QED  BY <2>4 DEF k
<1>. QED  BY <1>2, <1>3, <1>4, <1>5, <1>6

\* Everything is forgotten at the end of the data only, when no lease is left.
LEMMA ReleaseAnsweredHolds ==
  ASSUME SessionInv, NEW c \in Job, HoldsAll(job[c], c, table), ReleaseAnswered(c)
  PROVE  HoldsAll(job'[c], c, table)
<1> DEFINE j == job[c]
           k == job'[c]
<1>1. /\ Turn(c, {"main", "steps", "spans", "prefetch"})
      /\ j.main \in {"release", "released"} /\ k.steps \in {j.steps, 0}
      /\ k.prefetch \in {j.prefetch, NoGrant}
      /\ \/ k.main = "done"
         \/ k.main = "train" /\ ~(j.exhausted /\ j.steps = 0)
  BY ReleaseAnsweredFields
<1>2. NoGrant.status = "none"
  BY DEF NoGrant
<1>. HIDE DEF j, k
<1>3. /\ k.acquire = j.acquire /\ k.fetch = j.fetch
      /\ k.exhausted = j.exhausted /\ k.commit = j.commit
  BY <1>1 DEF Turn, Besides, Fields, j, k
<1>4. Listed(j, c, table) /\ Turns(j, table) /\ EndsKnown(j, table)
  BY DEF HoldsAll, j
<1>5. j.exhausted /\ table.leases = {}
  BY <1>1, <1>4 DEF Turns, EndsKnown, Over
<1>6. Listed(k, c, table)
  BY <1>5 DEF Listed
<1>7. Turns(k, table)
  BY <1>1, <1>2, <1>3, <1>4, <1>5 DEF Turns, Unfed
<1>8. HoldsAll(k, c, table)
  BY <1>3, <1>4, <1>6, <1>7 DEF HoldsAll, EndsKnown
<1>. QED  BY <1>8 DEF k

\* A job that does not step is given nothing.
LEMMA ElsewhereHolds ==
  ASSUME SessionInv, SessionNext, NEW d \in Job, job'[d] = job[d], HoldsAll(job[d], d, table)
  PROVE  HoldsAll(job'[d], d, table')
<1>1. ~ServeAcquire(d) /\ ~ServeFetch(d)
  <2> SUFFICES ASSUME ServeAcquire(d) \/ ServeFetch(d) PROVE FALSE
    OBVIOUS
  <2>1. \/ job[d].acquire.at = "sent" /\ job'[d].acquire = AnswerOf(table, table')
        \/ job[d].fetch.at = "sent" /\ job'[d].fetch = AnswerOf(table, table')
    BY ServeAcquireFields
  <2>2. AnswerOf(table, table').at = "answered"
    BY DEF AnswerOf
  <2>. QED  BY <2>1, <2>2
<1>2. Unserved(table, table', d)
  BY <1>1, NotServed
<1>3. Over(table) => Over(table')
  BY OverStays, TableStep DEF SessionInv
<1>4. job[d] \in JobState /\ JobInv(job[d], d, table)
  BY DEF SessionInv, JobTypeOK
<1>. QED  BY <1>2, <1>3, <1>4, TableGoesOn, HoldsOn

\* The table goes on under a job whose own call is served, if it is not an acquire.
LEMMA TableHolds ==
  ASSUME SessionInv, SessionNext, NEW c \in Job, HoldsAll(job[c], c, table),
         ServeCommit(c) \/ ServeRelease(c) \/ ServeBeat(c)
  PROVE  HoldsAll(job[c], c, table')
<1>1. /\ job'[c].acquire = job[c].acquire /\ job'[c].fetch = job[c].fetch
  BY ServeCommitFields, ServeReleaseFields, ServeBeatFields DEF Turn, Besides, Fields
<1>2. ~ServeAcquire(c) /\ ~ServeFetch(c)
  <2> SUFFICES ASSUME ServeAcquire(c) \/ ServeFetch(c) PROVE FALSE
    OBVIOUS
  <2>1. \/ job[c].acquire.at = "sent" /\ job'[c].acquire = AnswerOf(table, table')
        \/ job[c].fetch.at = "sent" /\ job'[c].fetch = AnswerOf(table, table')
    BY ServeAcquireFields
  <2>2. AnswerOf(table, table').at = "answered"
    BY DEF AnswerOf
  <2>. QED  BY <1>1, <2>1, <2>2
<1>3. Unserved(table, table', c)
  BY <1>2, NotServed
<1>4. Over(table) => Over(table')
  BY OverStays, TableStep DEF SessionInv
<1>5. job[c] \in JobState /\ JobInv(job[c], c, table)
  BY DEF SessionInv, JobTypeOK
<1>. QED  BY <1>3, <1>4, <1>5, TableGoesOn, HoldsOn

\* The answer to an acquire names all that was granted.
LEMMA ServeAcquireHolds ==
  ASSUME SessionInv, SessionNext, NEW c \in Job, HoldsAll(job[c], c, table),
         ServeAcquire(c) \/ ServeFetch(c)
  PROVE  HoldsAll(job'[c], c, table')
<1> DEFINE j == job[c]
           k == job'[c]
           a == AnswerOf(table, table')
<1>1. /\ Served(c)
      /\ \/ Turn(c, {"acquire"}) /\ j.acquire.at = "sent" /\ k.acquire = a
         \/ Turn(c, {"fetch"}) /\ j.fetch.at = "sent" /\ k.fetch = a
  BY ServeAcquireFields
<1>2. c \in Cluster
  BY SessionAssumption
<1>3. /\ a.at = "answered"
      /\ a.status = "epoch_complete" => Over(table')
      /\ a.status = "granted" => table'.seq > 0
      /\ \A m \in table'.leases : m.id[3] > table.seq => \E s \in a.spans : s.id = m.id
  BY <1>1, <1>2, AnswerTells
<1>4. /\ table \in Table /\ table' \in Table /\ Continues(table, table')
      /\ j \in JobState /\ JobInv(j, c, table)
  BY TableGoesOn DEF SessionInv, JobTypeOK
<1>5. Over(table) => Over(table')
  BY OverStays, TableStep DEF SessionInv
<1>6. table.seq \in Nat /\ table'.seq \in Nat /\ table.seq <= table'.seq
  BY <1>4 DEF Table, Continues
<1>7. Listed(j, c, table) /\ Turns(j, table) /\ EndsKnown(j, table)
  BY DEF HoldsAll
<1>. HIDE DEF j, k, a
<1>8. /\ k.alive = j.alive /\ k.since = j.since /\ k.spans = j.spans /\ k.main = j.main
      /\ k.exhausted = j.exhausted /\ k.commit = j.commit /\ k.steps = j.steps
      /\ k.prefetch = j.prefetch
      /\ \/ k.fetch = j.fetch /\ j.acquire.at = "sent" /\ k.acquire = a
         \/ k.acquire = j.acquire /\ j.fetch.at = "sent" /\ k.fetch = a
  BY <1>1 DEF Turn, Besides, Fields, j, k
<1>9. Mine(k) = Mine(j) \cup a.spans
  <2>1. CASE k.fetch = j.fetch /\ j.acquire.at = "sent" /\ k.acquire = a
    <3>1. j.acquire.spans = {}
      BY <1>7, <2>1 DEF Turns
    <3>. QED  BY <1>8, <2>1, <3>1 DEF Mine, Fetched
  <2>2. CASE k.acquire = j.acquire /\ j.fetch.at = "sent" /\ k.fetch = a
    BY <1>3, <1>8, <2>2 DEF Mine, Fetched
  <2>. QED  BY <1>8, <2>1, <2>2
<1>10. ASSUME NEW m \in table'.leases, ~(m.id[3] > table.seq)
       PROVE  \E l \in table.leases : l.id = m.id /\ l.cluster = m.cluster
  BY <1>4, <1>10 DEF Continues, Successor
<1>11. Listed(k, c, table')
  <2> SUFFICES ASSUME j.alive, NEW m \in table'.leases, m.cluster = c, m.id[3] > j.since
               PROVE  \E s \in Mine(k) : s.id = m.id
    BY <1>8 DEF Listed
  <2>1. CASE m.id[3] > table.seq
    BY <1>3, <1>9, <2>1
  <2>2. CASE ~(m.id[3] > table.seq)
    <3>1. PICK l \in table.leases : l.id = m.id /\ l.cluster = m.cluster
      BY <1>10, <2>2
    <3>2. \E s \in Mine(j) : s.id = l.id
      BY <1>7, <3>1 DEF Listed
    <3>. QED  BY <1>9, <3>1, <3>2
  <2>. QED  BY <2>1, <2>2
<1>12. ASSUME j.commit.at = "answered", j.commit.closed, NEW m \in table'.leases
       PROVE  m.id # j.commit.id
  <2> SUFFICES ASSUME m.id = j.commit.id PROVE FALSE
    OBVIOUS
  <2>1. j.commit.id \in LeaseId /\ j.commit.id[3] \in Nat
    BY <1>4 DEF JobState, CommitCall, LeaseId
  <2>2. j.commit.id[3] <= table.seq
    BY <1>4, <1>12, <2>1 DEF JobInv, Entitled, Mentions
  <2>3. ~(m.id[3] > table.seq)
    BY <1>6, <2>1, <2>2
  <2>. QED  BY <1>7, <1>10, <1>12, <2>3 DEF Turns
<1>13. Turns(k, table')
  <2>1. k.acquire.at # "answered" => k.acquire.spans = {}
    BY <1>3, <1>7, <1>8 DEF Turns
  <2>2. k.acquire.at # "idle" => k.main = "acquire"
    BY <1>7, <1>8 DEF Turns
  <2>3. table'.seq = 0 => Unfed(k)
    <3>1. table'.seq = 0 => table.seq = 0 /\ a.status # "granted"
      BY <1>3, <1>6
    <3>. QED  BY <1>7, <1>8, <3>1 DEF Turns, Unfed
  <2>. QED  BY <1>7, <1>8, <1>12, <2>1, <2>2, <2>3 DEF Turns
<1>14. EndsKnown(k, table')
  BY <1>3, <1>5, <1>7, <1>8 DEF EndsKnown
<1>15. HoldsAll(k, c, table')
  BY <1>11, <1>13, <1>14 DEF HoldsAll
<1>. QED  BY <1>15 DEF k

\* A commit is served: what it closes is gone. A heartbeat or a release is served.
LEMMA ServeHolds ==
  ASSUME SessionInv, SessionNext, NEW c \in Job, HoldsAll(job[c], c, table),
         ServeCommit(c) \/ ServeRelease(c) \/ ServeBeat(c)
  PROVE  HoldsAll(job'[c], c, table')
<1> DEFINE j == job[c]
           k == job'[c]
           F == {"alive", "since", "main", "acquire", "exhausted", "steps", "prefetch"}
<1>1. /\ table \in Table /\ table' \in Table /\ DisjointIn(table) /\ j \in JobState
      /\ Ordered(table)
  BY TableGoesOn, InvCoverage DEF SessionInv, JobTypeOK
<1>2. HoldsAll(j, c, table')
  BY TableHolds
<1>3. Turns(j, table')
  BY <1>2 DEF HoldsAll
<1>4. CASE ServeCommit(c)
  <2>1. /\ Turn(c, {"commit"}) /\ k.commit.id = j.commit.id
        /\ \/ table' = table /\ \A l \in table.leases : l.id # j.commit.id
           \/ \E l \in table.leases :
                /\ l.id = j.commit.id /\ table' = Committed(table, l, j.commit.through)
                /\ k.commit.closed => Settled(l, j.commit.through) >= l.end
    BY <1>4, ServeCommitFields
  <2>. HIDE DEF j, k
  <2>2. k.commit.closed => \A m \in table'.leases : m.id # k.commit.id
    <3>1. CASE table' = table /\ \A l \in table.leases : l.id # j.commit.id
      BY <2>1, <3>1
    <3>2. ASSUME k.commit.closed,
                 NEW l \in table.leases, l.id = j.commit.id,
                 table' = Committed(table, l, j.commit.through),
                 Settled(l, j.commit.through) >= l.end
          PROVE  \A m \in table'.leases : m.id # k.commit.id
      <4>1. table'.leases = table.leases \ {l}
        BY <1>1, <3>2 DEF Committed, Table
      <4>. QED  BY <1>1, <2>1, <3>2, <4>1 DEF DisjointIn
    <3>. QED  BY <2>1, <3>1, <3>2
  <2>3. Fetched(k) = Fetched(j) /\ k.spans = j.spans /\ k.fetch = j.fetch
    BY <2>1 DEF Turn, Besides, Fields, Fetched, j, k
  <2>4. \A f \in F : k[f] = j[f]
    BY <2>1 DEF Turn, Besides, Fields, j, k
  <2>5. HoldsAll(k, c, table')
    BY <1>2, <2>2, <2>3, <2>4, SpansHold
  <2>. QED  BY <2>5 DEF k
<1>5. CASE ServeBeat(c)
  <2>1. Turn(c, {"beat"})
    BY <1>5, ServeBeatFields
  <2>. HIDE DEF j, k
  <2>2. Fetched(k) = Fetched(j) /\ k.spans = j.spans /\ k.fetch = j.fetch /\ k.commit = j.commit
    BY <2>1 DEF Turn, Besides, Fields, Fetched, j, k
  <2>3. \A f \in F : k[f] = j[f]
    BY <2>1 DEF Turn, Besides, Fields, j, k
  <2>4. HoldsAll(k, c, table')
    BY <1>2, <1>3, <2>2, <2>3, SpansHold DEF Turns
  <2>. QED  BY <2>4 DEF k
<1>6. CASE ServeRelease(c)
  <2>1. Turn(c, {"main"}) /\ j.main = "release" /\ k.main = "released"
    BY <1>6, ServeReleaseFields
  <2>. HIDE DEF j, k
  <2>2. j.acquire.at = "idle" /\ j.exhausted
    BY <1>3, <2>1 DEF Turns
  <2>3. /\ Fetched(k) = Fetched(j) /\ k.steps = j.steps /\ k.acquire = j.acquire
        /\ k.fetch = j.fetch /\ k.prefetch = j.prefetch
    BY <2>1 DEF Turn, Besides, Fields, Fetched, j, k
  <2>4. table'.seq # 0 \/ Unfed(k)
    BY <1>3, <2>1, <2>3 DEF Turns, Unfed
  <2>5. \A f \in {"alive", "since", "spans", "acquire", "exhausted", "commit"} : k[f] = j[f]
    BY <2>1 DEF Turn, Besides, Fields, j, k
  <2>6. HoldsAll(k, c, table')
    BY <1>2, <2>2, <2>3, <2>4, <2>5, MainHolds
  <2>. QED  BY <2>6 DEF k
<1>. QED  BY <1>4, <1>5, <1>6

\* A process that starts was granted nothing yet, and a dead one holds nothing.
LEMMA LifeHolds ==
  ASSUME SessionInv, NEW c \in Job, Start(c) \/ Crash(c) \/ Terminate(c)
  PROVE  HoldsAll(job'[c], c, table')
<1> DEFINE k == job'[c]
           life == job[c].life
<1>1. table \in Table /\ Issued(table) /\ job \in [Job -> JobState]
  BY InvCoverage DEF SessionInv, JobTypeOK
<1>2. /\ NoCall.at = "idle" /\ NoCall.status = "none" /\ NoCall.spans = {}
      /\ NoGrant.status = "none" /\ NoCommit.at = "idle"
  BY DEF NoCall, NoGrant, NoCommit
<1>3. /\ ~k.alive \/ (k.since = table.seq /\ table'.leases = table.leases)
      /\ k.acquire = NoCall /\ k.fetch = NoCall /\ k.prefetch = NoGrant /\ k.commit = NoCommit
      /\ k.exhausted = FALSE /\ k.steps = 0 /\ k.main \in {"next", "done"}
  <2>1. CASE Start(c)
    <3>1. k = NewJob(life + 1, table.seq) /\ table'.leases = table.leases
      BY <1>1, <2>1 DEF Start, Register, Registered, Table
    <3>. QED  BY <3>1 DEF NewJob
  <2>2. CASE Crash(c) \/ Terminate(c)
    <3>1. k = Dead(life)
      BY <1>1, <2>2 DEF Crash, Terminate
    <3>. QED  BY <3>1 DEF Dead, NewJob
  <2>. QED  BY <2>1, <2>2
<1>. HIDE DEF k
<1>4. \A l \in table.leases : ~(l.id[3] > table.seq)
  BY <1>1 DEF Issued, Table, Lease
<1>5. Listed(k, c, table')
  BY <1>3, <1>4 DEF Listed
<1>6. HoldsAll(k, c, table')
  BY <1>2, <1>3, <1>5 DEF HoldsAll, Turns, EndsKnown, Unfed
<1>. QED  BY <1>6 DEF k

\* Of every job.
HoldInv == \A c \in Job : HoldsAll(job[c], c, table)

\* A step of a job: its own record, and the others'.
LEMMA JobHolds ==
  ASSUME SessionInv, SessionNext, HoldInv, ~Outages, MaxDivergeSeq = 0, NEW c \in Job,
         \/ Main(c) \/ Fetcher(c) \/ Beater(c)
         \/ FetchFailed(c) \/ CommitRetried(c) \/ CommitFailed(c)
         \/ Start(c) \/ Crash(c) \/ Terminate(c)
  PROVE  HoldInv'
<1>1. HoldsAll(job[c], c, table) /\ job \in [Job -> JobState]
  BY DEF HoldInv, SessionInv, JobTypeOK
<1> DEFINE Good == HoldsAll(job'[c], c, table') /\ \A d \in Job \ {c} : job'[d] = job[d]
<1>2. ASSUME \/ TakePrefetched(c) \/ TrainStep(c) \/ EndOfPhase(c)
             \/ SaveThenCommit(c) \/ CommitsDone(c)
      PROVE  Good
  <2>1. table' = table
    BY <1>2 DEF TakePrefetched, TrainStep, EndOfPhase, SaveThenCommit, CommitsDone
  <2>2. HoldsAll(job'[c], c, table)
    BY <1>1, <1>2, StageHolds
  <2>3. \A d \in Job \ {c} : job'[d] = job[d]
    BY <1>2, TakePrefetchedFields, TrainStepFields, EndOfPhaseFields, SaveThenCommitFields,
       CommitsDoneFields DEF Turn
  <2>. QED  BY <2>1, <2>2, <2>3
<1>3. ASSUME Ask(c) \/ AcquireAnswered(c) \/ NotePhase(c) \/ ReleaseAnswered(c)
      PROVE  Good
  <2>1. table' = table
    BY <1>3 DEF Ask, AcquireAnswered, NotePhase, ReleaseAnswered
  <2>2. HoldsAll(job'[c], c, table)
    BY <1>1, <1>3, AskHolds, AcquireAnsweredHolds, NotePhaseHolds, ReleaseAnsweredHolds
  <2>3. \A d \in Job \ {c} : job'[d] = job[d]
    BY <1>3, AskFields, AcquireAnsweredFields, NotePhaseFields, ReleaseAnsweredFields DEF Turn
  <2>. QED  BY <2>1, <2>2, <2>3
<1>4. ASSUME FetchAnswered(c) \/ FetchStored(c) \/ FetchFailed(c)
      PROVE  Good
  <2>1. table' = table
    BY <1>4 DEF FetchAnswered, FetchStored, FetchFailed
  <2>2. HoldsAll(job'[c], c, table)
    BY <1>1, <1>4, FetchHolds
  <2>3. \A d \in Job \ {c} : job'[d] = job[d]
    BY <1>4, FetchAnsweredFields, FetchStoredFields DEF Turn
  <2>. QED  BY <2>1, <2>2, <2>3
<1>5. ASSUME \/ SendCommit(c) \/ CommitAnswered(c) \/ CommitRetried(c)
             \/ CommitFailed(c) \/ SendBeat(c) \/ ApplyBeat(c)
      PROVE  Good
  <2>1. table' = table
    BY <1>5 DEF SendCommit, CommitAnswered, CommitRetried, CommitFailed, SendBeat, ApplyBeat
  <2>2. HoldsAll(job'[c], c, table)
    BY <1>1, <1>5, CallsHold
  <2>3. \A d \in Job \ {c} : job'[d] = job[d]
    BY <1>5, SendCommitFields, CommitAnsweredFields, CommitRetriedFields,
       CommitFailedFields, SendBeatFields, ApplyBeatFields DEF Turn
  <2>. QED  BY <2>1, <2>2, <2>3
<1>6. ASSUME ServeAcquire(c) \/ ServeFetch(c)
      PROVE  Good
  <2>1. HoldsAll(job'[c], c, table')
    BY <1>1, <1>6, ServeAcquireHolds
  <2>. QED  BY <1>6, <2>1, ServeAcquireFields DEF Turn
<1>7. ASSUME ServeCommit(c) \/ ServeRelease(c) \/ ServeBeat(c)
      PROVE  Good
  <2>1. HoldsAll(job'[c], c, table')
    BY <1>1, <1>7, ServeHolds
  <2>. QED  BY <1>7, <2>1, ServeCommitFields, ServeReleaseFields, ServeBeatFields DEF Turn
<1>8. ASSUME Start(c) \/ Crash(c) \/ Terminate(c)
      PROVE  Good
  <2>1. HoldsAll(job'[c], c, table')
    BY <1>8, LifeHolds
  <2>2. \A d \in Job \ {c} : job'[d] = job[d]
    BY <1>1, <1>8 DEF Start, Crash, Terminate
  <2>. QED  BY <2>1, <2>2
<1>. HIDE DEF Good
<1>9. Good
  BY <1>2, <1>3, <1>4, <1>5, <1>6, <1>7, <1>8 DEF Main, Fetcher, Beater
<1>10. \A d \in Job \ {c} : HoldsAll(job'[d], d, table')
  BY <1>9, ElsewhereHolds DEF HoldInv, Good
<1>. QED  BY <1>9, <1>10 DEF HoldInv, Good

\* Without outages and diverging phases, every grant to a running process is in
\* its session or on its way there, whatever its three threads, lost replies,
\* crashes and other clusters do: no answer is dropped, no span is forgotten
\* before the coordinator has closed its lease, and a job hands back at the end
\* of the data only (client.py: acquire, _prefetch_loop, commit, release_all).
THEOREM GrantsStayHeld ==
  ~Outages /\ MaxDivergeSeq = 0 => (SessionSpec => []GrantsAreHeld)
<1> SUFFICES ASSUME ~Outages, MaxDivergeSeq = 0
             PROVE  SessionSpec => []GrantsAreHeld
  OBVIOUS
<1>1. SessionInit => HoldInv
  <2> SUFFICES ASSUME SessionInit, NEW c \in Job PROVE HoldsAll(job[c], c, table)
    BY DEF HoldInv
  <2>1. job[c] = Dead(0)
    BY DEF SessionInit
  <2> DEFINE k == Dead(0)
  <2>2. /\ ~k.alive /\ k.acquire = NoCall /\ k.fetch = NoCall /\ k.prefetch = NoGrant
        /\ k.commit = NoCommit /\ k.exhausted = FALSE /\ k.steps = 0 /\ k.main = "done"
    BY DEF Dead, NewJob
  <2>. HIDE DEF k
  <2>3. HoldsAll(k, c, table)
    BY <2>2 DEF HoldsAll, Listed, Turns, EndsKnown, Unfed, NoCall, NoGrant, NoCommit
  <2>. QED  BY <2>1, <2>3 DEF k
<1>2. SessionInv /\ [SessionNext]_sessionVars => SessionInv'
  BY SessionStep
<1>3. SessionInv /\ HoldInv /\ [SessionNext]_sessionVars => HoldInv'
  <2> SUFFICES ASSUME SessionInv, HoldInv, [SessionNext]_sessionVars PROVE HoldInv'
    OBVIOUS
  <2>1. CASE UNCHANGED sessionVars
    BY <2>1 DEF HoldInv, sessionVars
  <2>2. ASSUME SessionNext, job' = job
        PROVE  HoldInv'
    BY <2>2, ElsewhereHolds DEF HoldInv
  <2>3. ASSUME SessionNext,
               \/ \E c \in Job : Silence(c)
               \/ \E c \in Cluster \ Job : Peer(c)
               \/ \E l \in table.leases : Lapse(l)
               \/ Tick
        PROVE  HoldInv'
    BY <2>2, <2>3 DEF Silence, Peer, Lapse, Tick
  <2>4. ASSUME SessionNext
        PROVE  HoldInv'
    BY <2>3, <2>4, JobHolds DEF SessionNext
  <2>. QED  BY <2>1, <2>4
<1>4. HoldInv => GrantsAreHeld
  <2> SUFFICES ASSUME HoldInv, NEW c \in Job, NEW l \in Holding(table, c),
                      job[c].alive /\ l.id[3] > job[c].since
               PROVE  \E s \in job[c].spans \cup Pending(job[c]) : s.id = l.id
    BY DEF GrantsAreHeld
  <2>1. l \in table.leases /\ l.cluster = c
    BY DEF Holding
  <2>2. \E s \in Mine(job[c]) : s.id = l.id
    BY <2>1 DEF HoldInv, HoldsAll, Listed
  <2>3. Mine(job[c]) \subseteq job[c].spans \cup Pending(job[c])
    BY DEF Mine, Fetched, Pending
  <2>. QED  BY <2>2, <2>3
<1>. QED  BY InitialSession, <1>1, <1>2, <1>3, <1>4, PTL DEF SessionSpec

-----------------------------------------------------------------------------
(* Leases of one block                                                     *)

\* Sums over nothing and over one.
LEMMA SmallSums ==
  ASSUME NEW f, f[1] \in Int
  PROVE  SumTo(f, 0) = 0 /\ SumTo(f, 1) = f[1]
<1> DEFINE none == {}
           one == {1}
<1>1. 1 .. 0 = none /\ 1 .. 1 = one
  OBVIOUS
<1>2. IsFiniteSet(one)
  BY FS_Singleton
<1>3. Pick(one) \in one
  BY Zenon DEF Pick
<1>4. none \in SUBSET one /\ one \in SUBSET one
  OBVIOUS
<1>5. Pick(one) = 1 /\ one \ {Pick(one)} = none /\ one # none
  BY <1>3
<1>6. none = {}
  OBVIOUS
<1>. HIDE DEF none, one
<1>7. SumFunctionOnSet(f, none) = 0
  BY <1>2, <1>4, <1>6, SumStep
<1>8. SumFunctionOnSet(f, one) = f[Pick(one)] + SumFunctionOnSet(f, one \ {Pick(one)})
  BY <1>2, <1>4, <1>5, <1>6, SumStep
<1>9. SumFunctionOnSet(f, one) = f[1] + 0
  BY <1>5, <1>7, <1>8
<1>10. SumFunctionOnSet(f, one) = f[1]
  BY <1>9
<1>11. SumTo(f, 0) = SumFunctionOnSet(f, none) /\ SumTo(f, 1) = SumFunctionOnSet(f, one)
  BY <1>1, Zenon DEF SumTo
<1>. QED  BY <1>7, <1>10, <1>11

\* Taking one position from the pool takes one span of one block.
LEMMA TakesOne ==
  ASSUME NEW free \in SUBSET Blocks, NEW cursor \in Nat,
         NEW spans \in TakeNear(free, cursor, 1)
  PROVE  DOMAIN spans = {1} /\ Len(spans) = 1 /\ spans[1][2] = spans[1][1] + 1
<1> DEFINE k == Cardinality(Runs(free))
           F(runs) == [j \in 1 .. k |-> runs[j][2] - TakeFrom(runs, j, cursor)]
<1>1. k \in Nat
  <2>1. IsFiniteSet(0 .. NumBlocks)
    BY PoolAssumption, FS_Interval
  <2>2. IsFiniteSet((0 .. NumBlocks) \X (0 .. NumBlocks))
    BY <2>1, FS_Product
  <2>. QED  BY <2>2, FS_Subset, FS_CardinalityType DEF Runs
<1>2. PICK runs \in [1 .. k -> Runs(free)], n \in 1 .. k, last \in 1 .. NumBlocks :
        /\ last = Smaller(runs[n][2], TakeFrom(runs, n, cursor) + 1 - SumTo(F(runs), n - 1))
        /\ \A i \in 1 .. n - 1 : SumTo(F(runs), i) < 1
        /\ spans = SpanSeq(runs, n, last, cursor)
  BY DEF TakeNear
<1> DEFINE f == F(runs)
           r == runs[1]
<1>3. 1 \in 1 .. k /\ n \in Nat \ {0}
  BY <1>1
<1>4. r \in Runs(free)
  BY <1>2, <1>3
<1>5. f[1] = r[2] - TakeFrom(runs, 1, cursor)
  BY <1>3
<1>. HIDE DEF f, k
<1>6. r[1] \in Nat /\ r[2] \in Nat /\ r[1] < r[2]
  <2>. HIDE DEF r
  <2>. QED  BY <1>4, PoolAssumption DEF Runs
<1>7. /\ TakeFrom(runs, 1, cursor) \in Nat /\ TakeFrom(runs, 1, cursor) < r[2]
  BY <1>6 DEF TakeFrom
<1>8. f[1] \in Nat /\ f[1] >= 1
  BY <1>5, <1>6, <1>7
<1>9. SumTo(f, 0) = 0 /\ SumTo(f, 1) = f[1]
  BY <1>8, SmallSums
<1>10. n = 1
  <2> SUFFICES ASSUME n # 1 PROVE FALSE
    OBVIOUS
  <2>1. 1 \in 1 .. n - 1
    BY <1>3
  <2>2. SumTo(f, 1) < 1
    BY <1>2, <2>1 DEF f
  <2>. QED  BY <1>8, <1>9, <2>2
<1>11. last = Smaller(r[2], TakeFrom(runs, 1, cursor) + 1 - SumTo(f, 0))
  BY <1>2, <1>10 DEF f
<1>12. last = TakeFrom(runs, 1, cursor) + 1
  BY <1>6, <1>7, <1>9, <1>11 DEF Smaller
<1>13. spans = [i \in {1} |-> <<TakeFrom(runs, i, cursor), IF i = 1 THEN last ELSE runs[i][2]>>]
  <2>1. 1 .. 1 = {1}
    OBVIOUS
  <2>. QED  BY <1>2, <1>10, <2>1 DEF SpanSeq
<1>14. spans[1] = <<TakeFrom(runs, 1, cursor), last>>
  BY <1>13
<1>15. Len(spans) = 1
  <2>1. spans = SpanSeq(runs, 1, last, cursor)
    BY <1>2, <1>10
  <2>. QED  BY <2>1 DEF SpanSeq
<1>. QED  BY <1>12, <1>13, <1>14, <1>15

\* With grants of one block, whatever is asked for comes to one.
LEMMA WantsOne ==
  ASSUME NEW t, NEW c, MinBlocks = 1, MaxBlocks = 1, NEW want \in Wanted(t, c)
  PROVE  want = 1
<1>1. PICK requested \in 1 .. MaxRequest : want \in GrantSizes(t, c, requested)
  BY DEF Wanted
<1>2. requested \in Nat \ {0}
  BY TableAssumption
<1> DEFINE asked == Larger(MinBlocks, requested)
           first == IF t.clusters[c].blocks_committed = 0
                    THEN Larger(MinBlocks, asked \div 2) ELSE asked
           most == Smaller(first, MaxBlocks)
           pool == Cardinality(t.free)
<1>3. asked \in Nat \ {0}
  BY <1>2 DEF Larger
<1>4. first \in Nat \ {0}
  BY <1>3 DEF Larger
<1>. HIDE DEF asked
<1>5. most = 1
  BY <1>4 DEF Smaller
<1>6. want \in {Larger(MinBlocks, Smaller(most, Larger(share, MinBlocks))) : share \in 0 .. pool}
        \/ want = most
  BY <1>1 DEF GrantSizes, asked
<1>. HIDE DEF most
<1>7. CASE want \in {Larger(MinBlocks, Smaller(most, Larger(share, MinBlocks))) : share \in 0 .. pool}
  <2>1. PICK share \in 0 .. pool : want = Larger(MinBlocks, Smaller(most, Larger(share, MinBlocks)))
    BY <1>7
  <2>. QED  BY <1>5, <2>1 DEF Larger, Smaller
<1>. QED  BY <1>5, <1>6, <1>7

\* Leases of one block, whose ids name their epoch and position.
Singles(t) ==
    \A l \in t.leases : l.id[1] = l.epoch /\ l.id[2] = l.start /\ l.end <= l.start + 1

\* What is committed in r was committed before, in the same epoch.
NoCommits(t, r) ==
    \A b \in Blocks : r.state[b] = COMMITTED => t.state[b] = COMMITTED /\ r.epoch = t.epoch

\* A table of such leases that takes no commit.
Keeps(t, r) == Singles(r) /\ NoCommits(t, r)

\* No commit, and then none.
LEMMA KeepsTransitive ==
  ASSUME NEW t, NEW s, NEW r, NoCommits(t, s), NoCommits(s, r)
  PROVE  NoCommits(t, r)
BY DEF NoCommits

\* Leases are taken away, states stay or are reset.
LEMMA SameKeeps ==
  ASSUME NEW t, Singles(t), NEW r, r.leases \subseteq t.leases, r.state = t.state, r.epoch = t.epoch
  PROVE  Keeps(t, r)
BY DEF Keeps, Singles, NoCommits

\* Reclaiming commits nothing.
LEMMA ReclaimedKeeps ==
  ASSUME NEW t \in Table, Singles(t), NEW gone, NEW count
  PROVE  Keeps(t, Reclaimed(t, gone, count))
<1> DEFINE tail == UNION {Outstanding(l) : l \in gone}
           tried == [b \in Blocks |-> IF count /\ b \in tail
                                      THEN t.attempts[b] + 1 ELSE t.attempts[b]]
           bad == {b \in tail : count /\ Exhausted(tried[b])}
           r == Reclaimed(t, gone, count)
<1>1. /\ r.state = Fill(Fill(t.state, tail \ bad, UNASSIGNED), bad, QUARANTINED)
      /\ r.leases = t.leases \ gone /\ r.epoch = t.epoch
  <2>1. r = [t EXCEPT !.leases = t.leases \ gone,
                      !.attempts = tried,
                      !.state = Fill(Fill(t.state, tail \ bad, UNASSIGNED), bad, QUARANTINED),
                      !.free = t.free \cup (tail \ bad),
                      !.quarantined = t.quarantined + Cardinality(bad)]
    BY DEF Reclaimed
  <2>. HIDE DEF r, tail, tried, bad
  <2>. QED  BY <2>1 DEF Table
<1>. HIDE DEF r, tail, bad
<1>2. \A b \in Blocks : r.state[b] = COMMITTED => t.state[b] = COMMITTED
  BY <1>1 DEF Fill, COMMITTED, UNASSIGNED, QUARANTINED
<1>3. Keeps(t, r)
  BY <1>1, <1>2 DEF Keeps, Singles, NoCommits
<1>. QED  BY <1>3 DEF r

\* A new epoch starts with nothing committed.
LEMMA AdvancedKeeps ==
  ASSUME NEW t \in Table, Singles(t)
  PROVE  Keeps(t, Advanced(t))
<1>1. CASE CanAdvance(t)
  <2> DEFINE r == Advanced(t)
  <2>1. r.leases = {} /\ r.state = [b \in Blocks |-> UNASSIGNED]
    BY <1>1 DEF Advanced, ResetEpoch, Table
  <2>. HIDE DEF r
  <2>2. Keeps(t, r)
    BY <2>1 DEF Keeps, Singles, NoCommits, UNASSIGNED, COMMITTED
  <2>. QED  BY <2>2 DEF r
<1>2. CASE ~CanAdvance(t)
  BY <1>2, SameKeeps DEF Advanced
<1>. QED  BY <1>1, <1>2

\* Registering touches no lease and no state.
LEMMA RegisteredKeeps ==
  ASSUME NEW t \in Table, Singles(t), NEW c, NEW inc
  PROVE  Keeps(t, Registered(t, c, inc))
<1> DEFINE r == Registered(t, c, inc)
<1>1. r.leases = t.leases /\ r.state = t.state /\ r.epoch = t.epoch
  BY DEF Registered, Table
<1>. HIDE DEF r
<1>2. Keeps(t, r)
  BY <1>1, SameKeeps
<1>. QED  BY <1>2 DEF r

\* The table that an acquire or a heartbeat works on.
LEMMA RefreshedKeeps ==
  ASSUME Inv(table), Singles(table), NEW c \in Cluster
  PROVE  Keeps(table, Registered(Reaped(table), c, NoIncarnation))
<1> DEFINE t == Reaped(table)
           u == Registered(t, c, NoIncarnation)
<1>1. table \in Table /\ t \in Table
  BY ReapedInv, InvCoverage
<1>2. Keeps(table, t)
  BY <1>1, ReclaimedKeeps DEF Reaped
<1>. HIDE DEF t
<1>3. Keeps(t, u)
  BY <1>1, <1>2, RegisteredKeeps DEF Keeps
<1>. HIDE DEF u
<1>4. Keeps(table, u)
  BY <1>2, <1>3, KeepsTransitive DEF Keeps
<1>. QED  BY <1>4 DEF u, t

\* So does what an acquire does before it grants.
LEMMA AcquireBaseKeeps ==
  ASSUME Inv(table), Singles(table), NEW c \in Cluster
  PROVE  Keeps(table, AcquireBase(c))
<1> DEFINE u == Registered(Reaped(table), c, NoIncarnation)
           r == AcquireBase(c)
<1>1. u \in Table /\ Keeps(table, u)
  BY ReapedInv, RegisteredInv, InvCoverage, RefreshedKeeps
<1>2. r = IF EpochComplete(u) /\ u.leases = {} THEN Advanced(u) ELSE u
  BY DEF AcquireBase
<1>. HIDE DEF u, r
<1>3. Keeps(u, Advanced(u))
  BY <1>1, AdvancedKeeps DEF Keeps
<1> DEFINE v == Advanced(u)
<1>. HIDE DEF v
<1>4. Keeps(table, v)
  BY <1>1, <1>3, KeepsTransitive DEF Keeps, v
<1>5. Keeps(table, r)
  BY <1>1, <1>2, <1>4 DEF v
<1>. QED  BY <1>5 DEF r

\* A heartbeat and a deadline change neither the place nor the length of a lease.
LEMMA HeartbeatKeeps ==
  ASSUME Inv(table), Singles(table), NEW c \in Cluster, NEW progress, Heartbeat(c, progress)
  PROVE  Keeps(table, table')
<1> DEFINE r == Registered(Reaped(table), c, NoIncarnation)
           Told(l) == l.cluster = c /\ l.epoch = r.epoch /\ l.id \in DOMAIN progress
           Renew(l) == [l EXCEPT !.progress_end = Reported(l, progress[l.id]), !.overdue = FALSE]
<1>1. r \in Table /\ Keeps(table, r)
  BY ReapedInv, RegisteredInv, InvCoverage, RefreshedKeeps
<1>2. table' = Renewed(r, c, progress)
  BY DEF Heartbeat
<1>. HIDE DEF r
<1>3. /\ table'.leases = {l \in r.leases : ~Told(l)}
                         \cup {Renew(l) : l \in {m \in r.leases : Told(m)}}
      /\ table'.state = r.state /\ table'.epoch = r.epoch
  BY <1>1, <1>2 DEF Renewed, Table
<1>4. ASSUME NEW l \in r.leases
      PROVE  /\ Renew(l).id = l.id /\ Renew(l).epoch = l.epoch
             /\ Renew(l).start = l.start /\ Renew(l).end = l.end
  <2>1. l \in Lease
    BY <1>1 DEF Table
  <2>. QED  BY <2>1 DEF Lease
<1>. HIDE DEF Renew, Told
<1>5. Singles(table')
  <2> SUFFICES ASSUME NEW m \in table'.leases
               PROVE  m.id[1] = m.epoch /\ m.id[2] = m.start /\ m.end <= m.start + 1
    BY DEF Singles
  <2>1. PICK l \in r.leases : m = l \/ m = Renew(l)
    BY <1>3
  <2>. QED  BY <1>1, <1>4, <2>1 DEF Keeps, Singles
<1>6. NoCommits(table, table')
  BY <1>1, <1>3 DEF Keeps, NoCommits
<1>. QED  BY <1>5, <1>6 DEF Keeps

\* A deadline changes neither the place nor the length of a lease.
LEMMA OverdueKeeps ==
  ASSUME Inv(table), Singles(table), NEW l \in table.leases, LeaseOverdue(l)
  PROVE  Keeps(table, table')
<1> DEFINE late == [l EXCEPT !.overdue = TRUE]
<1>1. table \in Table /\ l \in Lease
  BY InvCoverage DEF Table
<1>2. /\ table'.leases = (table.leases \ {l}) \cup {late}
      /\ table'.state = table.state /\ table'.epoch = table.epoch
  BY <1>1 DEF LeaseOverdue, Table
<1>3. /\ late.id = l.id /\ late.epoch = l.epoch /\ late.start = l.start /\ late.end = l.end
  BY <1>1 DEF Lease
<1>. HIDE DEF late
<1>. QED  BY <1>2, <1>3 DEF Keeps, Singles, NoCommits

\* A commit settles blocks of its lease, below its watermark.
LEMMA CommitKeeps ==
  ASSUME NEW t \in Table, Singles(t), NEW l \in t.leases, NEW w \in Nat
  PROVE  LET r == Committed(t, l, w)
         IN  /\ Singles(r) /\ r.epoch = t.epoch
             /\ \A b \in Blocks : r.state[b] = COMMITTED =>
                  \/ t.state[b] = COMMITTED
                  \/ l.committed_end <= b /\ b < w /\ b < l.end
<1> DEFINE r == Committed(t, l, w)
           through == Settled(l, w)
           progress == IF through - l.committed_end > 0 THEN Larger(l.progress_end, through)
                       ELSE l.progress_end
           kept == [l EXCEPT !.committed_end = through, !.progress_end = progress]
<1>1. /\ r.leases = (t.leases \ {l}) \cup (IF through >= l.end THEN {} ELSE {kept})
      /\ r.state = Fill(t.state, l.committed_end .. through - 1, COMMITTED)
      /\ r.epoch = t.epoch
  BY DEF Committed, Table
<1>2. l \in Lease /\ l.committed_end \in Nat /\ l.end \in Nat
  BY DEF Table, Lease
<1>3. kept.id = l.id /\ kept.epoch = l.epoch /\ kept.start = l.start /\ kept.end = l.end
  BY <1>2 DEF Lease
<1>4. through \in Int /\ through <= l.end /\ (through <= w \/ through <= l.committed_end)
  BY <1>2 DEF Settled, Larger, Smaller
<1>. HIDE DEF r, kept, through, progress
<1>5. Singles(r)
  BY <1>1, <1>3 DEF Singles
<1>6. ASSUME NEW b \in Blocks, r.state[b] = COMMITTED, t.state[b] # COMMITTED
      PROVE  l.committed_end <= b /\ b < w /\ b < l.end
  <2>1. b \in l.committed_end .. through - 1
    BY <1>1, <1>6 DEF Fill
  <2>2. b \in Int
    BY DEF Blocks
  <2>. QED  BY <1>2, <1>4, <2>1, <2>2
<1>7. /\ Singles(r) /\ r.epoch = t.epoch
      /\ \A b \in Blocks : r.state[b] = COMMITTED =>
           \/ t.state[b] = COMMITTED
           \/ l.committed_end <= b /\ b < w /\ b < l.end
  BY <1>1, <1>5, <1>6
<1>. QED  BY <1>7 DEF r

\* An acquire grants one lease of one block at most, and there is nothing to steal.
LEMMA ServedKeeps ==
  ASSUME Inv(table), Singles(table), MinBlocks = 1, MaxBlocks = 1, NEW c \in Cluster, Served(c)
  PROVE  /\ Keeps(table, table')
         /\ \A l, m \in table'.leases : l.id[3] > table.seq /\ m.id[3] > table.seq => l = m
<1> DEFINE t == AcquireBase(c)
<1>1. /\ t \in Table /\ Inv(t) /\ t.leases \subseteq table.leases /\ t.seq = table.seq
      /\ Keeps(table, t) /\ Issued(table) /\ table.seq \in Nat
  BY AcquireBaseInv, AcquireBaseFewer, AcquireBaseKeeps, InvCoverage DEF Table
<1>2. \A l \in t.leases : ~(l.id[3] > table.seq)
  <2> SUFFICES ASSUME NEW l \in t.leases PROVE ~(l.id[3] > table.seq)
    OBVIOUS
  <2>1. l.id[3] \in Nat /\ l.id[3] <= table.seq
    BY <1>1 DEF Issued, Table, Lease
  <2>. QED  BY <1>1, <2>1
<1>3. CASE AcquireFree(c)
  <2>1. PICK want \in Wanted(t, c) :
          \E spans \in TakeNear(t.free, t.clusters[c].cursor, want) :
            table' = Granted([t EXCEPT !.free = @ \ Covered(spans)], c, spans)
    BY <1>3 DEF AcquireFree
  <2>2. PICK spans \in TakeNear(t.free, t.clusters[c].cursor, want) :
          table' = Granted([t EXCEPT !.free = @ \ Covered(spans)], c, spans)
    BY <2>1
  <2>. HIDE DEF t
  <2>3. want = 1
    BY <2>1, WantsOne
  <2>4. t.free \in SUBSET Blocks /\ t.clusters[c].cursor \in Nat
    BY <1>1 DEF Table, ClusterRecord
  <2> DEFINE free == t.free
             cursor == t.clusters[c].cursor
  <2>5. free \in SUBSET Blocks /\ cursor \in Nat /\ spans \in TakeNear(free, cursor, 1)
    BY <2>2, <2>3, <2>4
  <2>. HIDE DEF free, cursor
  <2>6. Len(spans) = 1 /\ spans[1][2] = spans[1][1] + 1
    BY <2>5, TakesOne
  <2> DEFINE N(i) == [id |-> <<t.epoch, spans[i][1], t.seq + i>>,
                      cluster |-> c, epoch |-> t.epoch,
                      start |-> spans[i][1], end |-> spans[i][2],
                      committed_end |-> spans[i][1], progress_end |-> spans[i][1],
                      overdue |-> FALSE]
             taken == [t EXCEPT !.free = @ \ Covered(spans)]
  <2>7. /\ taken.leases = t.leases /\ taken.state = t.state /\ taken.epoch = t.epoch
        /\ taken.seq = t.seq /\ table' = Granted(taken, c, spans)
        /\ DOMAIN taken = DOMAIN t
    BY <1>1, <2>2 DEF Table
  <2>8. /\ "leases" \in DOMAIN taken /\ "state" \in DOMAIN taken /\ "epoch" \in DOMAIN taken
    BY <1>1, <2>7 DEF Table
  <2>. HIDE DEF taken
  <2>9. /\ table'.leases = t.leases \cup {N(i) : i \in 1 .. Len(spans)}
        /\ table'.state = Fill(t.state, Covered(spans), LEASED)
        /\ table'.epoch = t.epoch
    BY <2>7, <2>8 DEF Granted
  <2> DEFINE new == N(1)
  <2>10. table'.leases = t.leases \cup {new}
    BY <2>6, <2>9
  <2>11. /\ new.id[1] = new.epoch /\ new.id[2] = new.start /\ new.end = new.start + 1
    BY <2>6
  <2>. HIDE DEF N, new
  <2>12. new.end <= new.start + 1
    <3>1. WorkVector(spans)
      BY <2>5, TakeNearVector, <2>3 DEF free, cursor
    <3>2. 1 \in DOMAIN spans /\ spans[1][1] \in Nat
      BY <3>1, <2>6, PoolAssumption DEF WorkVector, Blocks
    <3>. QED  BY <3>2, <2>11 DEF new, N
  <2>13. Singles(table')
    BY <1>1, <2>10, <2>11, <2>12 DEF Keeps, Singles
  <2>14. NoCommits(t, table')
    BY <2>9 DEF NoCommits, Fill, LEASED, COMMITTED
  <2>15. NoCommits(table, table')
    BY <1>1, <2>14, KeepsTransitive DEF Keeps
  <2>. QED  BY <1>2, <2>10, <2>13, <2>15 DEF Keeps
<1>4. ~AcquireStolen(c)
  <2> SUFFICES ASSUME AcquireStolen(c) PROVE FALSE
    OBVIOUS
  <2>1. PICK n \in Nat \ {0} :
          \E victims \in [1 .. n -> t.leases], cuts \in [1 .. n -> Nat \ {0}] :
             \A i \in 1 .. n : Floor(victims[i]) < victims[i].end - cuts[i]
    BY AcquireStolenFacts
  <2>2. PICK victims \in [1 .. n -> t.leases], cuts \in [1 .. n -> Nat \ {0}] :
             \A i \in 1 .. n : Floor(victims[i]) < victims[i].end - cuts[i]
    BY <2>1
  <2>. HIDE DEF t
  <2> DEFINE v == victims[1]
             n1 == cuts[1]
  <2>3. v \in t.leases /\ n1 \in Nat \ {0} /\ Floor(v) < v.end - n1
    BY <2>2
  <2>. HIDE DEF v, n1
  <2>4. v \in Lease /\ v.start <= v.committed_end /\ v.end <= v.start + 1
    BY <1>1, <2>3, InvCoverage DEF Ordered, Table, Keeps, Singles
  <2>5. Floor(v) >= v.start
    BY <2>4 DEF Floor, Larger, Lease
  <2>6. v.start \in Nat /\ v.end \in Nat /\ Floor(v) \in Nat
    BY <2>4 DEF Floor, Larger, Lease
  <2>. QED  BY <2>3, <2>4, <2>5, <2>6
<1>5. CASE AcquireNothing(c)
  <2>1. table' = t
    BY <1>5 DEF AcquireNothing
  <2>. HIDE DEF t
  <2>. QED  BY <1>1, <1>2, <2>1
<1>. QED  BY <1>3, <1>4, <1>5, ServedIsAcquire

\* The positions of lease i that lie below w.
Upto(i, w) == {<<i[1], b>> : b \in i[2] .. w - 1}

\* One span at most, of one block that its id names.
Single(S) ==
    /\ \A s, u \in S : s = u
    /\ \A s \in S : s.start = s.id[2] /\ s.end <= s.start + 1

\* What a job consumed is in its checkpoint D, trained for the next one, or in
\* the phase; what it is about to commit is in D.
Backed(j, D) ==
    /\ \A s \in Mine(j) :
         /\ s.start = s.id[2] /\ s.end <= s.start + 1 /\ s.consumed <= s.start + 1
         /\ Upto(s.id, s.consumed) \subseteq D \cup j.fresh \cup j.todo
    /\ \A g \in j.targets : Upto(g.id, g.consumed) \subseteq D
    /\ j.commit.at # "idle" => Upto(j.commit.id, j.commit.through) \subseteq D

\* A phase is one position, trained before the round is full: a round ends with
\* nothing left to do.
Rounded(j) ==
    /\ Single(j.acquire.spans) /\ Single(j.fetch.spans) /\ Single(j.prefetch.spans)
    /\ j.acquire.at # "idle" => j.main = "acquire"
    /\ j.main = "note" => Places(j.phase) \subseteq j.todo /\ \A p \in j.phase : p.start = p.id[2]
    /\ \A x, y \in j.todo : x = y
    /\ j.todo # {} => j.main \in {"note", "train"}
    /\ j.main \in {"next", "acquire", "asleep", "note"} \/ j.todo # {} => j.steps < InnerSteps

\* Nothing is a single span.
LEMMA NoneSingle == Single({})
BY DEF Single

\* No position lies below the start of a lease.
LEMMA UptoStart ==
  ASSUME NEW i \in LeaseId, NEW w \in Nat, w <= i[2]
  PROVE  Upto(i, w) = {}
<1>1. i[2] \in Nat
  BY DEF LeaseId
<1>2. i[2] .. w - 1 = {}
  BY <1>1
<1>. QED  BY <1>2 DEF Upto

\* The lower the watermark, the fewer positions.
LEMMA UptoFewer ==
  ASSUME NEW i \in LeaseId, NEW w \in Nat, NEW v \in Nat, v <= w
  PROVE  Upto(i, v) \subseteq Upto(i, w)
<1>1. i[2] \in Nat
  BY DEF LeaseId
<1>2. i[2] .. v - 1 \subseteq i[2] .. w - 1
  BY <1>1
<1>. QED  BY <1>2 DEF Upto

\* The phase of an answer of one span has one span.
LEMMA PhaseSingle ==
  ASSUME NEW S, NEW G, OneView(S), Single(G),
         \A s \in S : s.start = s.id[2] /\ s.end <= s.start + 1
  PROVE  Single(PhaseOf(S, G))
<1> DEFINE P == PhaseOf(S, G)
<1>1. \A p \in P : \/ p \in S /\ \E g \in G : g.id = p.id
                   \/ p \in G /\ \A s \in S : s.id # p.id
  BY DEF PhaseOf, Named
<1>. HIDE DEF P
<1>2. ASSUME NEW p \in P, NEW q \in P
      PROVE  p = q
  BY <1>1, <1>2 DEF OneView, Single
<1>3. \A p \in P : p.start = p.id[2] /\ p.end <= p.start + 1
  BY <1>1 DEF Single
<1>4. Single(P)
  BY <1>2, <1>3 DEF Single
<1>. QED  BY <1>4 DEF P

\* A single span has one position.
LEMMA PlaceSingle ==
  ASSUME NEW P \in SUBSET Held, Single(P)
  PROVE  \A x, y \in Places(P) : x = y
<1> SUFFICES ASSUME NEW x \in Places(P), NEW y \in Places(P) PROVE x = y
  OBVIOUS
<1>1. PICK s \in P : x \in {<<s.id[1], b>> : b \in s.start .. s.end - 1}
  BY DEF Places
<1>2. PICK u \in P : y \in {<<u.id[1], b>> : b \in u.start .. u.end - 1}
  BY DEF Places
<1>3. s = u /\ s.end <= s.start + 1 /\ s.start \in Nat /\ s.end \in Nat
  BY DEF Single, Held, Span
<1>4. PICK b \in s.start .. s.end - 1 : x = <<s.id[1], b>>
  BY <1>1
<1>5. PICK d \in s.start .. s.end - 1 : y = <<s.id[1], d>>
  BY <1>2, <1>3
<1>6. b = s.start /\ d = s.start
  BY <1>3
<1>. QED  BY <1>4, <1>5, <1>6

\* The spans of a job keep their places, its work is not lost, and it commits
\* no more than before.
LEMMA BackedOn ==
  ASSUME NEW j \in JobState, NEW k \in JobState, NEW D, NEW E, Backed(j, D), D \subseteq E,
         \A x \in Mine(k) : x \in Mine(j) \/ \E s \in Mine(j) :
            /\ x.id = s.id /\ x.start = s.start /\ x.consumed = s.consumed
            /\ x.end <= s.end \/ x.end <= s.consumed,
         j.fresh \cup j.todo \subseteq E \cup k.fresh \cup k.todo,
         \A g \in k.targets : \/ g \in j.targets
                              \/ Upto(g.id, g.consumed) \subseteq E,
         k.commit.at # "idle" =>
            \/ j.commit.at # "idle" /\ k.commit.id = j.commit.id
                                    /\ k.commit.through = j.commit.through
            \/ Upto(k.commit.id, k.commit.through) \subseteq E
  PROVE  Backed(k, E)
<1>1. ASSUME NEW x \in Mine(k)
      PROVE  /\ x.start = x.id[2] /\ x.end <= x.start + 1 /\ x.consumed <= x.start + 1
             /\ Upto(x.id, x.consumed) \subseteq E \cup k.fresh \cup k.todo
  <2>1. PICK s \in Mine(j) :
            /\ x.id = s.id /\ x.start = s.start /\ x.consumed = s.consumed
            /\ x.end = s.end \/ x.end <= s.end \/ x.end <= s.consumed
    OBVIOUS
  <2>2. s \in Held /\ x \in Held
    BY DEF Mine, Fetched, JobState, Call
  <2>3. s.start \in Nat /\ s.end \in Nat /\ s.consumed \in Nat /\ x.end \in Nat
    BY <2>2 DEF Held, Span
  <2>4. /\ s.start = s.id[2] /\ s.end <= s.start + 1 /\ s.consumed <= s.start + 1
        /\ Upto(s.id, s.consumed) \subseteq D \cup j.fresh \cup j.todo
    BY DEF Backed
  <2>. QED  BY <2>1, <2>3, <2>4
<1>2. \A g \in k.targets : Upto(g.id, g.consumed) \subseteq E
  BY DEF Backed
<1>3. k.commit.at # "idle" => Upto(k.commit.id, k.commit.through) \subseteq E
  BY DEF Backed
<1>. QED  BY <1>1, <1>2, <1>3 DEF Backed

\* Both of a job.
Sound(j, D) == Backed(j, D) /\ Rounded(j)

\* A phase begins when nothing of the last one is left to do.
LEMMA TakePrefetchedSound ==
  ASSUME SessionInv, NEW c \in Job, job'[c] \in JobState, Sound(job[c], disk[c]),
         TakePrefetched(c)
  PROVE  Sound(job'[c], disk[c])
<1> DEFINE j == job[c]
           k == job'[c]
           D == disk[c]
<1>1. /\ j \in JobState /\ k \in JobState /\ OneView(Mine(j)) /\ Backed(j, D) /\ Rounded(j)
  BY DEF SessionInv, JobTypeOK, JobInv, Parted, Sound
<1>2. /\ Turn(c, {"main", "phase", "todo", "prefetch"}) /\ j.main = "next"
      /\ k.main = "note" /\ k.prefetch = NoGrant
      /\ k.phase = PhaseOf(j.spans, j.prefetch.spans) /\ k.todo = Places(k.phase)
  BY TakePrefetchedFields
<1>. HIDE DEF j, k, D
<1>3. /\ k.spans = j.spans /\ k.acquire = j.acquire /\ k.fetch = j.fetch /\ k.fresh = j.fresh
      /\ k.targets = j.targets /\ k.commit = j.commit /\ k.steps = j.steps
  BY <1>2 DEF Turn, Besides, Fields, j, k
<1>4. Mine(k) = Mine(j) /\ j.spans \subseteq Mine(j)
  BY <1>3 DEF Mine, Fetched
<1>5. j.todo = {} /\ j.steps < InnerSteps /\ j.acquire.at = "idle" /\ Single(j.prefetch.spans)
  BY <1>1, <1>2 DEF Rounded
<1>6. OneView(j.spans) /\ \A s \in j.spans : s.start = s.id[2] /\ s.end <= s.start + 1
  BY <1>1, <1>4 DEF OneView, Backed
<1>7. Single(k.phase) /\ k.phase \in SUBSET Held
  BY <1>1, <1>2, <1>5, <1>6, PhaseSingle DEF JobState
<1>8. \A x, y \in k.todo : x = y
  BY <1>2, <1>7, PlaceSingle
<1>9. Backed(k, D)
  BY <1>1, <1>3, <1>4, <1>5, BackedOn
<1>10. Single(k.prefetch.spans)
  BY <1>2, NoneSingle DEF NoGrant
<1>11. Rounded(k)
  BY <1>1, <1>2, <1>3, <1>5, <1>7, <1>8, <1>10 DEF Rounded, Single
<1>. QED  BY <1>9, <1>11 DEF Sound, k, D

\* So it is with the answer to an acquire, unless it says that the data is over.
LEMMA AcquireAnsweredSound ==
  ASSUME SessionInv, NEW c \in Job, job'[c] \in JobState, Sound(job[c], disk[c]),
         AcquireAnswered(c), job[c].acquire.status # "epoch_complete"
  PROVE  Sound(job'[c], disk[c])
<1> DEFINE j == job[c]
           k == job'[c]
           D == disk[c]
           Phase(G) == k.main = "note" /\ k.phase = PhaseOf(k.spans, G) /\ k.todo = Places(k.phase)
<1>1. /\ j \in JobState /\ k \in JobState /\ OneView(Mine(j)) /\ Backed(j, D) /\ Rounded(j)
  BY DEF SessionInv, JobTypeOK, JobInv, Parted, Sound
<1>2. /\ Turn(c, {"spans", "acquire", "main", "phase", "todo", "exhausted", "prefetch"})
      /\ j.acquire.at = "answered" /\ k.acquire = NoCall
      /\ k.spans = j.spans \cup j.acquire.spans
      /\ k.prefetch \in {j.prefetch, NoGrant}
      /\ \/ Phase(j.acquire.spans) \/ Phase(j.prefetch.spans)
         \/ k.phase = j.phase /\ k.todo = j.todo /\ k.main = "asleep"
  BY AcquireAnsweredFields
<1>. HIDE DEF j, k, D
<1>3. /\ k.fetch = j.fetch /\ k.fresh = j.fresh
      /\ k.targets = j.targets /\ k.commit = j.commit /\ k.steps = j.steps
  BY <1>2 DEF Turn, Besides, Fields, j, k
<1>4. Mine(k) = Mine(j) /\ k.spans \subseteq Mine(j)
  BY <1>2, <1>3 DEF Mine, Fetched, NoCall
<1>5. /\ j.todo = {} /\ j.steps < InnerSteps
      /\ Single(j.prefetch.spans) /\ Single(j.acquire.spans) /\ Single(j.fetch.spans)
  BY <1>1, <1>2 DEF Rounded
<1>6. OneView(k.spans) /\ \A s \in k.spans : s.start = s.id[2] /\ s.end <= s.start + 1
  BY <1>1, <1>4 DEF OneView, Backed
<1>7. ASSUME NEW G, Single(G), Phase(G)
      PROVE  /\ Single(k.phase) /\ k.todo = Places(k.phase) /\ k.main = "note"
             /\ \A x, y \in k.todo : x = y
  <2>1. k.phase = PhaseOf(k.spans, G) /\ k.todo = Places(k.phase) /\ k.main = "note"
    BY <1>7
  <2>2. Single(k.phase) /\ k.phase \in SUBSET Held
    BY <1>1, <1>6, <1>7, <2>1, PhaseSingle DEF JobState
  <2>. QED  BY <2>1, <2>2, PlaceSingle
<1>. HIDE DEF Phase
<1>8. \/ /\ Single(k.phase) /\ k.todo = Places(k.phase) /\ k.main = "note"
         /\ \A x, y \in k.todo : x = y
      \/ k.todo = {} /\ k.main = "asleep"
  BY <1>2, <1>5, <1>7
<1>9. Backed(k, D)
  BY <1>1, <1>3, <1>4, <1>5, BackedOn
<1>10. Single(k.prefetch.spans) /\ Single(k.acquire.spans)
  BY <1>2, <1>5, NoneSingle DEF NoGrant, NoCall
<1>11. k.acquire.at = "idle"
  BY <1>2 DEF NoCall
<1>12. Rounded(k)
  BY <1>3, <1>5, <1>8, <1>10, <1>11 DEF Rounded, Single
<1>. QED  BY <1>9, <1>12 DEF Sound, k, D

\* Asking, and what the prefetch thread does with its answer.
LEMMA AskSound ==
  ASSUME SessionInv, NEW c \in Job, job'[c] \in JobState, Sound(job[c], disk[c]),
         Ask(c) \/ FetchAnswered(c) \/ FetchStored(c) \/ FetchFailed(c)
  PROVE  Sound(job'[c], disk[c])
<1> DEFINE j == job[c]
           k == job'[c]
           D == disk[c]
<1>1. /\ j \in JobState /\ k \in JobState /\ Backed(j, D) /\ Rounded(j)
  BY DEF SessionInv, JobTypeOK, Sound
<1>2. CASE Ask(c)
  <2>1. /\ Turn(c, {"main", "prefetch", "acquire"})
        /\ j.main \in {"next", "asleep"} /\ k.main = "acquire"
        /\ k.prefetch \in {j.prefetch, NoGrant}
        /\ k.acquire = [NoCall EXCEPT !.at = "sent"]
    BY <1>2, AskFields
  <2>. HIDE DEF j, k, D
  <2>2. /\ k.spans = j.spans /\ k.fetch = j.fetch /\ k.fresh = j.fresh /\ k.phase = j.phase
        /\ k.targets = j.targets /\ k.commit = j.commit /\ k.steps = j.steps /\ k.todo = j.todo
    BY <2>1 DEF Turn, Besides, Fields, j, k
  <2>3. k.acquire.spans = {}
    BY <2>1 DEF NoCall
  <2>4. Mine(k) \subseteq Mine(j)
    BY <2>2, <2>3 DEF Mine, Fetched
  <2>5. Backed(k, D)
    BY <1>1, <2>2, <2>4, BackedOn
  <2>6. Single(k.prefetch.spans) /\ Single(k.acquire.spans)
    <3>1. Single(j.prefetch.spans)
      BY <1>1 DEF Rounded
    <3>2. k.prefetch.spans = j.prefetch.spans \/ k.prefetch.spans = {}
      BY <2>1 DEF NoGrant
    <3>. QED  BY <2>3, <3>1, <3>2, NoneSingle
  <2>7. j.todo = {} /\ j.steps < InnerSteps
    BY <1>1, <2>1 DEF Rounded
  <2>8. Rounded(k)
    BY <1>1, <2>1, <2>2, <2>6, <2>7 DEF Rounded
  <2>. QED  BY <2>5, <2>8 DEF Sound, k, D
<1>3. CASE FetchAnswered(c)
  <2>1. /\ Turn(c, {"spans", "fetch"}) /\ j.fetch.at = "answered"
        /\ k.spans = j.spans \cup j.fetch.spans
        /\ k.fetch = [j.fetch EXCEPT !.at = "storing"]
    BY <1>3, FetchAnsweredFields
  <2>. HIDE DEF j, k, D
  <2>2. /\ k.acquire = j.acquire /\ k.fresh = j.fresh /\ k.phase = j.phase /\ k.main = j.main
        /\ k.targets = j.targets /\ k.commit = j.commit /\ k.steps = j.steps /\ k.todo = j.todo
        /\ k.prefetch = j.prefetch
    BY <2>1 DEF Turn, Besides, Fields, j, k
  <2>3. k.fetch.at = "storing" /\ k.fetch.spans = j.fetch.spans
    BY <1>1, <2>1 DEF JobState, Call
  <2>4. Mine(k) \subseteq Mine(j)
    BY <2>1, <2>2, <2>3 DEF Mine, Fetched
  <2>5. Backed(k, D)
    BY <1>1, <2>2, <2>4, BackedOn
  <2>6. Rounded(k)
    BY <1>1, <2>2, <2>3 DEF Rounded
  <2>. QED  BY <2>5, <2>6 DEF Sound, k, D
<1>4. CASE FetchStored(c) \/ FetchFailed(c)
  <2>1. /\ Turn(c, {"fetch", "prefetch"}) /\ k.fetch = NoCall
        /\ k.prefetch.spans = j.fetch.spans \/ k.prefetch = NoGrant
    BY <1>4, FetchStoredFields
  <2>. HIDE DEF j, k, D
  <2>2. /\ k.acquire = j.acquire /\ k.fresh = j.fresh /\ k.phase = j.phase /\ k.main = j.main
        /\ k.targets = j.targets /\ k.commit = j.commit /\ k.steps = j.steps /\ k.todo = j.todo
        /\ k.spans = j.spans
    BY <2>1 DEF Turn, Besides, Fields, j, k
  <2>3. k.fetch.spans = {} /\ k.fetch.at = "idle"
    BY <2>1 DEF NoCall
  <2>4. Mine(k) \subseteq Mine(j)
    BY <2>2, <2>3 DEF Mine, Fetched
  <2>5. Backed(k, D)
    BY <1>1, <2>2, <2>4, BackedOn
  <2>6. Single(k.fetch.spans) /\ Single(k.prefetch.spans)
    BY <1>1, <2>1, <2>3, NoneSingle DEF NoGrant, Rounded
  <2>7. Rounded(k)
    BY <1>1, <2>2, <2>6 DEF Rounded
  <2>. QED  BY <2>5, <2>7 DEF Sound, k, D
<1>. QED  BY <1>2, <1>3, <1>4

\* A session notes the phase as consumed when it begins: that much is to do.
LEMMA NotePhaseSound ==
  ASSUME SessionInv, NEW c \in Job, job'[c] \in JobState, Sound(job[c], disk[c]),
         NotePhase(c)
  PROVE  Sound(job'[c], disk[c])
<1> DEFINE j == job[c]
           k == job'[c]
           D == disk[c]
<1>1. /\ j \in JobState /\ k \in JobState /\ Backed(j, D) /\ Rounded(j)
  BY DEF SessionInv, JobTypeOK, Sound
<1>2. /\ Turn(c, {"main", "phase", "spans", "fetch"})
      /\ j.main = "note" /\ k.main = "train" /\ k.phase = {}
      /\ \/ k.fetch = j.fetch
         \/ j.fetch = NoCall /\ k.fetch = [NoCall EXCEPT !.at = "sent"]
      /\ \A x \in k.spans : \E s \in j.spans :
           /\ x.id = s.id /\ x.start = s.start /\ x.end = s.end
           /\ \/ x.consumed = s.consumed
              \/ x.consumed <= s.end /\ \E p \in j.phase : p.id = s.id /\ x.consumed <= p.end
  BY NotePhaseFields
<1>. HIDE DEF j, k, D
<1>3. /\ k.acquire = j.acquire /\ k.fresh = j.fresh /\ k.todo = j.todo
      /\ k.targets = j.targets /\ k.commit = j.commit /\ k.steps = j.steps
      /\ k.prefetch = j.prefetch
  BY <1>2 DEF Turn, Besides, Fields, j, k
<1>4. /\ Places(j.phase) \subseteq j.todo /\ \A p \in j.phase : p.start = p.id[2]
      /\ j.acquire.at = "idle"
  BY <1>1, <1>2 DEF Rounded
<1>5. k.fetch.spans = j.fetch.spans /\ Fetched(k) = Fetched(j)
  BY <1>2 DEF Fetched, NoCall
<1>6. ASSUME NEW x \in Mine(k)
      PROVE  /\ x.start = x.id[2] /\ x.end <= x.start + 1 /\ x.consumed <= x.start + 1
             /\ Upto(x.id, x.consumed) \subseteq D \cup k.fresh \cup k.todo
  <2>1. CASE x \in Mine(j)
    BY <1>1, <1>3, <2>1 DEF Backed
  <2>2. CASE x \in k.spans
    <3>1. PICK s \in j.spans :
            /\ x.id = s.id /\ x.start = s.start /\ x.end = s.end
            /\ \/ x.consumed = s.consumed
               \/ x.consumed <= s.end /\ \E p \in j.phase : p.id = s.id /\ x.consumed <= p.end
      BY <1>2, <2>2
    <3>2. /\ s \in Held /\ x \in Held /\ s.id \in LeaseId /\ x.end \in Nat /\ x.start \in Nat
          /\ x.consumed \in Nat /\ s.consumed \in Nat
      BY <1>1, <2>2 DEF JobState, Held, Span, LeaseId
    <3>3. /\ s.start = s.id[2] /\ s.end <= s.start + 1 /\ s.consumed <= s.start + 1
          /\ Upto(s.id, s.consumed) \subseteq D \cup j.fresh \cup j.todo
      BY <1>1 DEF Backed, Mine
    <3>4. CASE x.consumed = s.consumed
      BY <1>3, <3>1, <3>3, <3>4
    <3>5. CASE x.consumed <= s.end /\ \E p \in j.phase : p.id = s.id /\ x.consumed <= p.end
      <4>1. PICK p \in j.phase : p.id = s.id /\ x.consumed <= p.end
        BY <3>5
      <4>2. p \in Held /\ p.start \in Nat /\ p.end \in Nat
        BY <1>1 DEF JobState, Held, Span
      <4>3. x.id[2] .. x.consumed - 1 \subseteq p.start .. p.end - 1
        BY <1>4, <3>1, <3>2, <4>1, <4>2
      <4>4. Upto(x.id, x.consumed) \subseteq Places(j.phase)
        BY <3>1, <4>1, <4>3 DEF Upto, Places
      <4>5. x.consumed <= x.start + 1
        BY <3>1, <3>2, <3>3, <3>5
      <4>. QED  BY <1>3, <1>4, <3>1, <3>3, <4>4, <4>5
    <3>. QED  BY <3>1, <3>4, <3>5
  <2>3. x \in k.spans \/ x \in Mine(j)
    BY <1>3, <1>5, <1>6 DEF Mine
  <2>. QED  BY <2>1, <2>2, <2>3
<1>7. Backed(k, D)
  BY <1>1, <1>3, <1>6 DEF Backed
<1>8. Rounded(k)
  BY <1>1, <1>2, <1>3, <1>4, <1>5 DEF Rounded
<1>. QED  BY <1>7, <1>8 DEF Sound, k, D

\* Training, the end of a phase and the end of a round.
LEMMA TrainSound ==
  ASSUME SessionInv, NEW c \in Job, job'[c] \in JobState, Sound(job[c], disk[c]),
         ~Consumption, TrainStep(c) \/ EndOfPhase(c) \/ CommitsDone(c)
  PROVE  Sound(job'[c], disk[c])
<1> DEFINE j == job[c]
           k == job'[c]
           D == disk[c]
<1>1. /\ j \in JobState /\ k \in JobState /\ Backed(j, D) /\ Rounded(j)
      /\ j.steps \in 0 .. InnerSteps /\ InnerSteps \in Nat \ {0}
  BY SessionAssumption DEF SessionInv, JobTypeOK, Sound, JobState
<1>2. CASE TrainStep(c)
  <2>1. /\ Turn(c, {"todo", "fresh", "steps"}) /\ j.main = "train"
        /\ \E p \in j.todo : k.todo = j.todo \ {p} /\ k.fresh = j.fresh \cup {p}
    BY <1>2, TrainStepFields
  <2>. HIDE DEF j, k, D
  <2>2. /\ k.acquire = j.acquire /\ k.phase = j.phase /\ k.main = j.main
        /\ k.targets = j.targets /\ k.commit = j.commit
        /\ k.prefetch = j.prefetch /\ k.fetch = j.fetch /\ k.spans = j.spans
    BY <2>1 DEF Turn, Besides, Fields, j, k
  <2>3. Mine(k) = Mine(j)
    BY <2>2 DEF Mine, Fetched
  <2>4. j.fresh \cup j.todo \subseteq k.fresh \cup k.todo
    BY <2>1
  <2>5. Backed(k, D)
    BY <1>1, <2>2, <2>3, <2>4, BackedOn
  <2>6. k.todo = {}
    BY <1>1, <2>1 DEF Rounded
  <2>7. Rounded(k)
    BY <1>1, <2>1, <2>2, <2>6 DEF Rounded
  <2>. QED  BY <2>5, <2>7 DEF Sound, k, D
<1>3. CASE EndOfPhase(c)
  <2>1. /\ Turn(c, {"main", "targets"}) /\ j.main = "train" /\ j.steps < InnerSteps
        /\ j.todo = {} /\ k.main = "next" /\ k.targets = {}
    BY <1>3, EndOfPhaseFields
  <2>. HIDE DEF j, k, D
  <2>2. /\ k.acquire = j.acquire /\ k.phase = j.phase /\ k.commit = j.commit
        /\ k.todo = j.todo /\ k.fresh = j.fresh /\ k.steps = j.steps
        /\ k.prefetch = j.prefetch /\ k.fetch = j.fetch /\ k.spans = j.spans
    BY <2>1 DEF Turn, Besides, Fields, j, k
  <2>3. Mine(k) = Mine(j)
    BY <2>2 DEF Mine, Fetched
  <2>4. Backed(k, D)
    BY <1>1, <2>1, <2>2, <2>3, BackedOn
  <2>5. Rounded(k)
    BY <1>1, <2>1, <2>2 DEF Rounded
  <2>. QED  BY <2>4, <2>5 DEF Sound, k, D
<1>4. CASE CommitsDone(c)
  <2>1. /\ Turn(c, {"main", "steps"}) /\ j.main = "commit"
        /\ \/ k.main \in {"done", "train"}
           \/ k.main = "next" /\ j.steps # InnerSteps /\ k.steps = j.steps
    BY <1>4, CommitsDoneFields
  <2>. HIDE DEF j, k, D
  <2>2. /\ k.acquire = j.acquire /\ k.phase = j.phase /\ k.commit = j.commit
        /\ k.todo = j.todo /\ k.fresh = j.fresh /\ k.targets = j.targets
        /\ k.prefetch = j.prefetch /\ k.fetch = j.fetch /\ k.spans = j.spans
    BY <2>1 DEF Turn, Besides, Fields, j, k
  <2>3. Mine(k) = Mine(j)
    BY <2>2 DEF Mine, Fetched
  <2>4. Backed(k, D)
    BY <1>1, <2>2, <2>3, BackedOn
  <2>5. j.todo = {} /\ j.acquire.at = "idle"
    BY <1>1, <2>1 DEF Rounded
  <2>6. k.main = "next" => k.steps < InnerSteps
    BY <1>1, <2>1
  <2>7. Rounded(k)
    BY <1>1, <2>1, <2>2, <2>5, <2>6 DEF Rounded
  <2>. QED  BY <2>4, <2>7 DEF Sound, k, D
<1>. QED  BY <1>2, <1>3, <1>4

\* A full round leaves nothing to do: what was consumed is in the checkpoint
\* that was just written.
LEMMA SaveSound ==
  ASSUME SessionInv, NEW c \in Job, job'[c] \in JobState, Sound(job[c], disk[c]),
         SaveThenCommit(c), ~job[c].exhausted
  PROVE  Sound(job'[c], disk'[c])
<1> DEFINE j == job[c]
           k == job'[c]
           D == disk[c]
           E == disk'[c]
<1>1. /\ j \in JobState /\ k \in JobState /\ Backed(j, D) /\ Rounded(j)
      /\ InnerSteps \in Nat \ {0} /\ c \in Cluster /\ disk \in [Cluster -> SUBSET Place]
  BY SessionAssumption DEF SessionInv, JobTypeOK, Sound
<1>2. /\ Turn(c, {"main", "fresh", "targets"}) /\ j.main = "train" /\ k.fresh = {}
      /\ j.steps = InnerSteps /\ E = D \cup j.fresh
      /\ \/ k.main = "commit" /\ k.targets = Uncommitted(j)
         \/ k.main = "release" /\ k.targets = j.targets
  BY <1>1, SaveThenCommitFields
<1>. HIDE DEF j, k, D, E
<1>3. /\ k.acquire = j.acquire /\ k.phase = j.phase /\ k.commit = j.commit
      /\ k.todo = j.todo /\ k.steps = j.steps
      /\ k.prefetch = j.prefetch /\ k.fetch = j.fetch /\ k.spans = j.spans
  BY <1>2 DEF Turn, Besides, Fields, j, k
<1>4. j.todo = {} /\ j.acquire.at = "idle"
  <2>1. ~(j.steps < InnerSteps)
    BY <1>1, <1>2
  <2>. QED  BY <1>1, <1>2, <2>1 DEF Rounded
<1>5. Mine(k) = Mine(j)
  BY <1>3 DEF Mine, Fetched
<1>6. \A s \in Uncommitted(j) : Upto(s.id, s.consumed) \subseteq E
  BY <1>1, <1>2, <1>4 DEF Backed, Uncommitted, Mine
<1>7. Backed(k, E)
  BY <1>1, <1>2, <1>3, <1>4, <1>5, <1>6, BackedOn
<1>8. Rounded(k)
  BY <1>1, <1>2, <1>3, <1>4 DEF Rounded
<1>. QED  BY <1>7, <1>8 DEF Sound, k, E

\* Calls of main and of the heartbeat thread, sent and answered, move no
\* position: a commit goes no further than its target.
LEMMA CallsSound ==
  ASSUME SessionInv, NEW c \in Job, job'[c] \in JobState, Sound(job[c], disk[c]),
         \/ SendCommit(c) \/ CommitAnswered(c) \/ CommitRetried(c) \/ CommitFailed(c)
         \/ SendBeat(c) \/ ApplyBeat(c) \/ ReleaseAnswered(c)
  PROVE  Sound(job'[c], disk[c])
<1> DEFINE j == job[c]
           k == job'[c]
           D == disk[c]
<1>1. /\ j \in JobState /\ k \in JobState /\ Backed(j, D) /\ Rounded(j)
  BY DEF SessionInv, JobTypeOK, Sound
<1>2. CASE SendCommit(c)
  <2>1. /\ Turn(c, {"targets", "commit"})
        /\ \E g \in j.targets :
              /\ k.targets = j.targets \ {g}
              /\ \/ k.commit.at = "idle"
                 \/ k.commit.id = g.id /\ k.commit.through <= g.consumed
    BY <1>2, SendCommitFields
  <2>. HIDE DEF j, k, D
  <2>2. /\ k.acquire = j.acquire /\ k.phase = j.phase /\ k.main = j.main
        /\ k.todo = j.todo /\ k.fresh = j.fresh /\ k.steps = j.steps
        /\ k.prefetch = j.prefetch /\ k.fetch = j.fetch /\ k.spans = j.spans
    BY <2>1 DEF Turn, Besides, Fields, j, k
  <2>3. Mine(k) = Mine(j)
    BY <2>2 DEF Mine, Fetched
  <2>4. k.commit.at # "idle" => Upto(k.commit.id, k.commit.through) \subseteq D
    <3>1. PICK g \in j.targets :
            \/ k.commit.at = "idle"
            \/ k.commit.id = g.id /\ k.commit.through <= g.consumed
      BY <2>1
    <3>2. /\ g \in Held /\ g.id \in LeaseId /\ g.consumed \in Nat /\ k.commit.through \in Nat
      BY <1>1, PoolAssumption DEF JobState, Held, Span, LeaseId, CommitCall, Watermarks
    <3>3. Upto(g.id, g.consumed) \subseteq D
      BY <1>1 DEF Backed
    <3>. QED  BY <3>1, <3>2, <3>3, UptoFewer
  <2>5. Backed(k, D)
    BY <1>1, <2>1, <2>2, <2>3, <2>4, BackedOn
  <2>6. Rounded(k)
    BY <1>1, <2>2 DEF Rounded
  <2>. QED  BY <2>5, <2>6 DEF Sound, k, D
<1>3. CASE CommitAnswered(c)
  <2>1. /\ Turn(c, {"spans", "commit"}) /\ k.commit = NoCommit
        /\ \A x \in k.spans : \E s \in j.spans :
             x.id = s.id /\ x.start = s.start /\ x.end = s.end /\ x.consumed = s.consumed
    BY <1>3, CommitAnsweredFields
  <2>. HIDE DEF j, k, D
  <2>2. /\ k.acquire = j.acquire /\ k.phase = j.phase /\ k.main = j.main
        /\ k.todo = j.todo /\ k.fresh = j.fresh /\ k.steps = j.steps
        /\ k.prefetch = j.prefetch /\ k.fetch = j.fetch /\ k.targets = j.targets
    BY <2>1 DEF Turn, Besides, Fields, j, k
  <2>3. \A s \in j.spans : s.end <= s.end
    BY <1>1 DEF JobState, Held, Span
  <2>4. \A x \in Mine(k) : x \in Mine(j) \/ \E s \in Mine(j) :
            /\ x.id = s.id /\ x.start = s.start /\ x.consumed = s.consumed
            /\ x.end <= s.end \/ x.end <= s.consumed
    BY <2>1, <2>2, <2>3 DEF Mine, Fetched
  <2>5. k.commit.at = "idle"
    BY <2>1 DEF NoCommit
  <2>6. Backed(k, D)
    BY <1>1, <2>2, <2>4, <2>5, BackedOn
  <2>7. Rounded(k)
    BY <1>1, <2>2 DEF Rounded
  <2>. QED  BY <2>6, <2>7 DEF Sound, k, D
<1>4. CASE CommitRetried(c)
  <2>1. /\ Turn(c, {"commit"}) /\ j.commit.at = "answered"
        /\ k.commit.id = j.commit.id /\ k.commit.through = j.commit.through
    BY <1>4, CommitRetriedFields
  <2>. HIDE DEF j, k, D
  <2>2. /\ k.acquire = j.acquire /\ k.phase = j.phase /\ k.main = j.main
        /\ k.todo = j.todo /\ k.fresh = j.fresh /\ k.steps = j.steps /\ k.spans = j.spans
        /\ k.prefetch = j.prefetch /\ k.fetch = j.fetch /\ k.targets = j.targets
    BY <2>1 DEF Turn, Besides, Fields, j, k
  <2>3. Mine(k) = Mine(j)
    BY <2>2 DEF Mine, Fetched
  <2>4. Backed(k, D)
    BY <1>1, <2>1, <2>2, <2>3, BackedOn
  <2>5. Rounded(k)
    BY <1>1, <2>2 DEF Rounded
  <2>. QED  BY <2>4, <2>5 DEF Sound, k, D
<1>5. CASE SendBeat(c) \/ ApplyBeat(c)
  <2>1. /\ Turn(c, {"spans", "beat"})
        /\ \/ k.spans = j.spans
           \/ \A x \in k.spans : \E s \in j.spans :
                /\ x.id = s.id /\ x.start = s.start /\ x.consumed = s.consumed
                /\ x.end <= s.end \/ x.end <= s.consumed
    <3>1. CASE SendBeat(c)
      <4>1. Turn(c, {"beat"})
        BY <3>1, SendBeatFields
      <4>2. k.spans = j.spans /\ Turn(c, {"spans", "beat"})
        BY <4>1 DEF Turn, Besides, Fields
      <4>. QED  BY <4>2
    <3>2. CASE ApplyBeat(c)
      BY <3>2, ApplyBeatFields
    <3>. QED  BY <1>5, <3>1, <3>2
  <2>. HIDE DEF j, k, D
  <2>2. /\ k.acquire = j.acquire /\ k.phase = j.phase /\ k.main = j.main
        /\ k.todo = j.todo /\ k.fresh = j.fresh /\ k.steps = j.steps /\ k.commit = j.commit
        /\ k.prefetch = j.prefetch /\ k.fetch = j.fetch /\ k.targets = j.targets
    BY <2>1 DEF Turn, Besides, Fields, j, k
  <2>3. \A x \in Mine(k) : x \in Mine(j) \/ \E s \in Mine(j) :
            /\ x.id = s.id /\ x.start = s.start /\ x.consumed = s.consumed
            /\ x.end <= s.end \/ x.end <= s.consumed
    BY <2>1, <2>2 DEF Mine, Fetched
  <2>4. Backed(k, D)
    BY <1>1, <2>2, <2>3, BackedOn
  <2>5. Rounded(k)
    BY <1>1, <2>2 DEF Rounded
  <2>. QED  BY <2>4, <2>5 DEF Sound, k, D
<1>6. CASE ReleaseAnswered(c)
  <2>1. /\ Turn(c, {"main", "steps", "spans", "prefetch"})
        /\ j.main \in {"release", "released"}
        /\ k.spans \in {j.spans, {}} /\ k.prefetch \in {j.prefetch, NoGrant}
        /\ k.main \in {"done", "train"}
    BY <1>6, ReleaseAnsweredFields
  <2>. HIDE DEF j, k, D
  <2>2. /\ k.acquire = j.acquire /\ k.phase = j.phase /\ k.commit = j.commit
        /\ k.todo = j.todo /\ k.fresh = j.fresh /\ k.fetch = j.fetch /\ k.targets = j.targets
    BY <2>1 DEF Turn, Besides, Fields, j, k
  <2>3. Mine(k) \subseteq Mine(j)
    BY <2>1, <2>2 DEF Mine, Fetched
  <2>4. Backed(k, D)
    BY <1>1, <2>2, <2>3, BackedOn
  <2>5. j.todo = {} /\ j.acquire.at = "idle" /\ Single(j.prefetch.spans)
    BY <1>1, <2>1 DEF Rounded
  <2>6. Single(k.prefetch.spans)
    <3>1. k.prefetch.spans = j.prefetch.spans \/ k.prefetch.spans = {}
      BY <2>1 DEF NoGrant
    <3>. QED  BY <2>5, <3>1, NoneSingle
  <2>7. Rounded(k)
    BY <1>1, <2>1, <2>2, <2>5, <2>6 DEF Rounded
  <2>. QED  BY <2>4, <2>7 DEF Sound, k, D
<1>7. CASE CommitFailed(c)
  <2>1. Turn(c, {"targets", "commit"}) /\ k.targets = {} /\ k.commit.at = "idle"
    BY <1>7, CommitFailedFields DEF NoCommit
  <2>. HIDE DEF j, k, D
  <2>2. /\ k.acquire = j.acquire /\ k.phase = j.phase /\ k.main = j.main
        /\ k.todo = j.todo /\ k.fresh = j.fresh /\ k.steps = j.steps
        /\ k.prefetch = j.prefetch /\ k.fetch = j.fetch /\ k.spans = j.spans
    BY <2>1 DEF Turn, Besides, Fields, j, k
  <2>3. Mine(k) = Mine(j)
    BY <2>2 DEF Mine, Fetched
  <2>4. Backed(k, D)
    BY <1>1, <2>1, <2>2, <2>3, BackedOn
  <2>5. Rounded(k)
    BY <1>1, <2>2 DEF Rounded
  <2>. QED  BY <2>4, <2>5 DEF Sound, k, D
<1>. QED  BY <1>2, <1>3, <1>4, <1>5, <1>6, <1>7

\* What an acquire is answered is one span of one block, not consumed yet.
LEMMA ServeAcquireSound ==
  ASSUME SessionInv, Inv(table'), NEW c \in Job, job'[c] \in JobState, Sound(job[c], disk[c]),
         Singles(table), MinBlocks = 1, MaxBlocks = 1, ServeAcquire(c) \/ ServeFetch(c)
  PROVE  Sound(job'[c], disk[c])
<1> DEFINE j == job[c]
           k == job'[c]
           D == disk[c]
           a == AnswerOf(table, table')
           new == {l \in table'.leases : l.id[3] > table.seq}
<1>1. /\ j \in JobState /\ k \in JobState /\ Backed(j, D) /\ Rounded(j) /\ c \in Cluster
      /\ table' \in Table /\ Inv(table)
  BY SessionAssumption, InvCoverage DEF SessionInv, JobTypeOK, Sound
<1>2. /\ Served(c)
      /\ \/ Turn(c, {"acquire"}) /\ j.acquire.at = "sent" /\ k.acquire = a
         \/ Turn(c, {"fetch"}) /\ j.fetch.at = "sent" /\ k.fetch = a
  BY ServeAcquireFields
<1>3. Singles(table') /\ \A l, m \in new : l = m
  BY <1>1, <1>2, ServedKeeps DEF Keeps
<1>4. a.spans = {NewSpan(l) : l \in new}
  BY DEF AnswerOf
<1>. HIDE DEF j, k, D, a
<1>5. \A l \in new : /\ l.id \in LeaseId /\ l.start = l.id[2] /\ l.end <= l.start + 1
                     /\ l.start \in Nat /\ l \in Lease
  BY <1>1, <1>3 DEF Singles, Table, Lease, LeaseId
<1>. HIDE DEF new
<1>6. ASSUME NEW x \in a.spans
      PROVE  /\ x.start = x.id[2] /\ x.end <= x.start + 1 /\ x.consumed <= x.start + 1
             /\ Upto(x.id, x.consumed) = {}
  <2>1. PICK l \in new : x = NewSpan(l)
    BY <1>4
  <2>2. x.id = l.id /\ x.start = l.start /\ x.end = l.end /\ x.consumed = l.start
    BY <2>1 DEF NewSpan
  <2>3. Upto(l.id, l.start) = {}
    BY <1>5, UptoStart
  <2>. QED  BY <1>5, <2>2, <2>3
<1>7. Single(a.spans)
  <2>1. \A s, u \in a.spans : s = u
    BY <1>3, <1>4
  <2>. QED  BY <1>6, <2>1 DEF Single
<1>8. /\ k.spans = j.spans /\ k.main = j.main /\ k.todo = j.todo /\ k.phase = j.phase
      /\ k.fresh = j.fresh /\ k.steps = j.steps /\ k.prefetch = j.prefetch
      /\ k.targets = j.targets /\ k.commit = j.commit
      /\ \/ k.fetch = j.fetch /\ j.acquire.at = "sent" /\ k.acquire = a
         \/ k.acquire = j.acquire /\ k.fetch = a
  BY <1>2 DEF Turn, Besides, Fields, j, k
<1>9. \A x \in Mine(k) : x \in Mine(j) \/ x \in a.spans
  BY <1>8 DEF Mine, Fetched
<1>10. Backed(k, D)
  BY <1>1, <1>6, <1>8, <1>9 DEF Backed
<1>11. Rounded(k)
  BY <1>1, <1>7, <1>8 DEF Rounded
<1>. QED  BY <1>10, <1>11 DEF Sound, k, D

\* Nothing but the fields in F, so nothing but those in G.
LEMMA TurnWider ==
  ASSUME NEW c, NEW F, NEW G, F \subseteq G, Turn(c, F)
  PROVE  Turn(c, G)
BY DEF Turn, Besides

\* The other calls served change nothing of what a job consumed.
LEMMA ServeSound ==
  ASSUME SessionInv, NEW c \in Job, job'[c] \in JobState, Sound(job[c], disk[c]),
         ServeCommit(c) \/ ServeRelease(c) \/ ServeBeat(c)
  PROVE  Sound(job'[c], disk[c])
<1> DEFINE j == job[c]
           k == job'[c]
           D == disk[c]
<1>1. /\ j \in JobState /\ k \in JobState /\ Backed(j, D) /\ Rounded(j)
  BY DEF SessionInv, JobTypeOK, Sound
<1>2. /\ Turn(c, {"commit", "main", "beat"})
      /\ \/ k.commit = j.commit
         \/ j.commit.at = "sent" /\ k.commit.id = j.commit.id /\ k.commit.through = j.commit.through
      /\ k.main = j.main \/ (j.main = "release" /\ k.main = "released")
  <2>1. CASE ServeCommit(c)
    <3>1. /\ Turn(c, {"commit"}) /\ j.commit.at = "sent"
          /\ k.commit.id = j.commit.id /\ k.commit.through = j.commit.through
      BY <2>1, ServeCommitFields
    <3>. HIDE DEF j, k
    <3>2. k.main = j.main
      BY <3>1 DEF Turn, Besides, Fields, j, k
    <3>3. Turn(c, {"commit", "main", "beat"})
      BY <3>1, TurnWider
    <3>. QED  BY <3>1, <3>2, <3>3
  <2>2. CASE ServeRelease(c)
    <3>1. Turn(c, {"main"}) /\ j.main = "release" /\ k.main = "released"
      BY <2>2, ServeReleaseFields
    <3>. HIDE DEF j, k
    <3>2. k.commit = j.commit
      BY <3>1 DEF Turn, Besides, Fields, j, k
    <3>3. Turn(c, {"commit", "main", "beat"})
      BY <3>1, TurnWider
    <3>. QED  BY <3>1, <3>2, <3>3
  <2>3. CASE ServeBeat(c)
    <3>1. Turn(c, {"beat"})
      BY <2>3, ServeBeatFields
    <3>. HIDE DEF j, k
    <3>2. k.commit = j.commit /\ k.main = j.main
      BY <3>1 DEF Turn, Besides, Fields, j, k
    <3>3. Turn(c, {"commit", "main", "beat"})
      BY <3>1, TurnWider
    <3>. QED  BY <3>1, <3>2, <3>3
  <2>. QED  BY <2>1, <2>2, <2>3
<1>. HIDE DEF j, k, D
<1>3. /\ k.acquire = j.acquire /\ k.phase = j.phase /\ k.spans = j.spans
      /\ k.todo = j.todo /\ k.fresh = j.fresh /\ k.steps = j.steps
      /\ k.prefetch = j.prefetch /\ k.fetch = j.fetch /\ k.targets = j.targets
  BY <1>2 DEF Turn, Besides, Fields, j, k
<1>4. Mine(k) = Mine(j)
  BY <1>3 DEF Mine, Fetched
<1>5. Backed(k, D)
  BY <1>1, <1>2, <1>3, <1>4, BackedOn
<1>6. Rounded(k)
  BY <1>1, <1>2, <1>3 DEF Rounded
<1>. QED  BY <1>5, <1>6 DEF Sound, k, D

\* A process that starts or ends holds nothing.
LEMMA LifeSound ==
  ASSUME SessionInv, NEW c \in Job, NEW D, Start(c) \/ Crash(c) \/ Terminate(c)
  PROVE  Sound(job'[c], D)
<1> DEFINE k == job'[c]
           life == job[c].life
<1>1. job \in [Job -> JobState] /\ InnerSteps \in Nat \ {0}
  BY SessionAssumption DEF SessionInv, JobTypeOK
<1>2. /\ NoCall.at = "idle" /\ NoCall.spans = {} /\ NoGrant.spans = {} /\ NoCommit.at = "idle"
  BY DEF NoCall, NoGrant, NoCommit
<1>3. /\ k.acquire = NoCall /\ k.fetch = NoCall /\ k.prefetch = NoGrant /\ k.commit = NoCommit
      /\ k.spans = {} /\ k.todo = {} /\ k.targets = {}
      /\ k.steps = 0 /\ k.main \in {"next", "done"}
  <2>1. CASE Start(c)
    <3>1. k = NewJob(life + 1, table.seq)
      BY <1>1, <2>1 DEF Start
    <3>. QED  BY <3>1 DEF NewJob
  <2>2. CASE Crash(c) \/ Terminate(c)
    <3>1. k = Dead(life)
      BY <1>1, <2>2 DEF Crash, Terminate
    <3>. QED  BY <3>1 DEF Dead, NewJob
  <2>. QED  BY <2>1, <2>2
<1>. HIDE DEF k
<1>4. Mine(k) = {}
  BY <1>2, <1>3 DEF Mine, Fetched
<1>5. Backed(k, D)
  BY <1>2, <1>3, <1>4 DEF Backed
<1>6. Rounded(k)
  BY <1>1, <1>2, <1>3, NoneSingle DEF Rounded
<1>. QED  BY <1>5, <1>6 DEF Sound, k

-----------------------------------------------------------------------------
(* What is committed is in a checkpoint                                    *)

\* A step of one job is no step of another.
LEMMA JobAlone ==
  ASSUME SessionInv, NEW c \in Job, NEW d \in Job \ {c},
         \/ Main(c) \/ Fetcher(c) \/ Beater(c)
         \/ FetchFailed(c) \/ CommitRetried(c) \/ CommitFailed(c)
         \/ Start(c) \/ Crash(c) \/ Terminate(c)
  PROVE  job'[d] = job[d]
<1>1. job \in [Job -> JobState]
  BY DEF SessionInv, JobTypeOK
<1>2. ASSUME \/ TakePrefetched(c) \/ TrainStep(c) \/ EndOfPhase(c)
             \/ SaveThenCommit(c) \/ CommitsDone(c)
      PROVE  job'[d] = job[d]
  BY <1>2, TakePrefetchedFields, TrainStepFields, EndOfPhaseFields, SaveThenCommitFields,
     CommitsDoneFields DEF Turn
<1>3. ASSUME Ask(c) \/ AcquireAnswered(c) \/ NotePhase(c) \/ ReleaseAnswered(c)
      PROVE  job'[d] = job[d]
  BY <1>3, AskFields, AcquireAnsweredFields, NotePhaseFields, ReleaseAnsweredFields DEF Turn
<1>4. ASSUME FetchAnswered(c) \/ FetchStored(c) \/ FetchFailed(c)
      PROVE  job'[d] = job[d]
  BY <1>4, FetchAnsweredFields, FetchStoredFields DEF Turn
<1>5. ASSUME \/ SendCommit(c) \/ CommitAnswered(c) \/ CommitRetried(c)
             \/ CommitFailed(c) \/ SendBeat(c) \/ ApplyBeat(c)
      PROVE  job'[d] = job[d]
  BY <1>5, SendCommitFields, CommitAnsweredFields, CommitRetriedFields,
     CommitFailedFields, SendBeatFields, ApplyBeatFields DEF Turn
<1>6. ASSUME \/ ServeAcquire(c) \/ ServeFetch(c) \/ ServeCommit(c)
             \/ ServeRelease(c) \/ ServeBeat(c)
      PROVE  job'[d] = job[d]
  BY <1>6, ServeAcquireFields, ServeCommitFields, ServeReleaseFields, ServeBeatFields DEF Turn
<1>7. ASSUME Start(c) \/ Crash(c) \/ Terminate(c)
      PROVE  job'[d] = job[d]
  BY <1>1, <1>7 DEF Start, Crash, Terminate
<1>. QED  BY <1>2, <1>3, <1>4, <1>5, <1>6, <1>7 DEF Main, Fetcher, Beater

\* Only an answer says that the data is at its end, and only when it is.
LEMMA EndsStayKnown ==
  ASSUME SessionInv, SessionNext, NEW c \in Job, EndsKnown(job[c], table)
  PROVE  EndsKnown(job'[c], table')
<1> DEFINE j == job[c]
           k == job'[c]
<1>1. Over(table) => Over(table')
  BY OverStays, TableStep DEF SessionInv
<1>2. job \in [Job -> JobState] /\ c \in Cluster
  BY SessionAssumption DEF SessionInv, JobTypeOK
<1>3. ASSUME k.exhausted = j.exhausted, k.acquire = j.acquire
      PROVE  EndsKnown(k, table')
  BY <1>1, <1>3 DEF EndsKnown
<1>4. ASSUME NEW F, Turn(c, F), {"exhausted", "acquire"} \cap F = {}
      PROVE  EndsKnown(k, table')
  <2>1. k.exhausted = j.exhausted /\ k.acquire = j.acquire
    BY <1>4 DEF Turn, Besides, Fields
  <2>. QED  BY <1>3, <2>1
<1>5. ASSUME job'[c] = job[c]
      PROVE  EndsKnown(k, table')
  BY <1>3, <1>5
<1>6. ASSUME \/ TakePrefetched(c) \/ TrainStep(c) \/ EndOfPhase(c)
             \/ SaveThenCommit(c) \/ CommitsDone(c)
      PROVE  EndsKnown(k, table')
  BY <1>4, <1>6, TakePrefetchedFields, TrainStepFields, EndOfPhaseFields,
     SaveThenCommitFields, CommitsDoneFields
<1>7. ASSUME NotePhase(c) \/ ReleaseAnswered(c) \/ FetchAnswered(c) \/ FetchStored(c) \/ FetchFailed(c)
      PROVE  EndsKnown(k, table')
  BY <1>4, <1>7, NotePhaseFields, ReleaseAnsweredFields, FetchAnsweredFields, FetchStoredFields
<1>8. ASSUME \/ SendCommit(c) \/ CommitAnswered(c) \/ CommitRetried(c)
             \/ CommitFailed(c) \/ SendBeat(c) \/ ApplyBeat(c)
      PROVE  EndsKnown(k, table')
  BY <1>4, <1>8, SendCommitFields, CommitAnsweredFields, CommitRetriedFields,
     CommitFailedFields, SendBeatFields, ApplyBeatFields
<1>9. ASSUME ServeCommit(c) \/ ServeRelease(c) \/ ServeBeat(c)
      PROVE  EndsKnown(k, table')
  BY <1>4, <1>9, ServeCommitFields, ServeReleaseFields, ServeBeatFields
<1>10. ASSUME Ask(c)
       PROVE  EndsKnown(k, table')
  <2>1. Turn(c, {"main", "prefetch", "acquire"}) /\ k.acquire = [NoCall EXCEPT !.at = "sent"]
    BY <1>10, AskFields
  <2>. HIDE DEF j, k
  <2>2. k.exhausted = j.exhausted
    BY <2>1 DEF Turn, Besides, Fields, j, k
  <2>3. k.acquire.status = "none"
    BY <2>1 DEF NoCall
  <2>. QED  BY <1>1, <2>2, <2>3 DEF EndsKnown, j
<1>11. ASSUME AcquireAnswered(c)
       PROVE  EndsKnown(k, table')
  <2>1. /\ k.acquire = NoCall
        /\ k.exhausted = j.exhausted \/ j.acquire.status = "epoch_complete"
    BY <1>11, AcquireAnsweredFields
  <2>2. k.acquire.status = "none"
    BY <2>1 DEF NoCall
  <2>. QED  BY <1>1, <2>1, <2>2 DEF EndsKnown
<1>12. ASSUME ServeAcquire(c) \/ ServeFetch(c)
       PROVE  EndsKnown(k, table')
  <2> DEFINE a == AnswerOf(table, table')
  <2>1. /\ Served(c)
        /\ \/ Turn(c, {"acquire"}) /\ k.acquire = a
           \/ Turn(c, {"fetch"})
    BY <1>12, ServeAcquireFields
  <2>2. a.status = "epoch_complete" => Over(table')
    BY <1>2, <2>1, AnswerTells
  <2>. HIDE DEF j, k, a
  <2>3. k.exhausted = j.exhausted /\ (k.acquire = a \/ k.acquire = j.acquire)
    BY <2>1 DEF Turn, Besides, Fields, j, k
  <2>. QED  BY <1>1, <2>2, <2>3 DEF EndsKnown, j
<1>13. ASSUME Start(c) \/ Crash(c) \/ Terminate(c)
       PROVE  EndsKnown(k, table')
  <2>1. k.exhausted = FALSE /\ k.acquire.status = "none"
    <3>1. CASE Start(c)
      <4>1. k = NewJob(j.life + 1, table.seq)
        BY <1>2, <3>1 DEF Start
      <4>. QED  BY <4>1 DEF NewJob, NoCall
    <3>2. CASE Crash(c) \/ Terminate(c)
      <4>1. k = Dead(j.life)
        BY <1>2, <3>2 DEF Crash, Terminate
      <4>. QED  BY <4>1 DEF Dead, NewJob, NoCall
    <3>. QED  BY <1>13, <3>1, <3>2
  <2>. QED  BY <2>1 DEF EndsKnown
<1>14. ASSUME NEW d \in Job, d # c,
              \/ Main(d) \/ Fetcher(d) \/ Beater(d)
              \/ FetchFailed(d) \/ CommitRetried(d) \/ CommitFailed(d)
              \/ Start(d) \/ Crash(d) \/ Terminate(d)
       PROVE  job'[c] = job[c]
  BY <1>14, JobAlone
<1>. HIDE DEF j, k
<1>15. ASSUME \/ Main(c) \/ Fetcher(c) \/ Beater(c)
              \/ FetchFailed(c) \/ CommitRetried(c) \/ CommitFailed(c)
              \/ Start(c) \/ Crash(c) \/ Terminate(c)
       PROVE  EndsKnown(k, table')
  BY <1>6, <1>7, <1>8, <1>9, <1>10, <1>11, <1>12, <1>13, <1>15 DEF Main, Fetcher, Beater
<1>16. CASE job' = job
  BY <1>5, <1>16 DEF k
<1>17. CASE job' # job
  <2>1. PICK d \in Job : \/ Main(d) \/ Fetcher(d) \/ Beater(d)
                         \/ FetchFailed(d) \/ CommitRetried(d) \/ CommitFailed(d)
                         \/ Start(d) \/ Crash(d) \/ Terminate(d)
    BY <1>17 DEF SessionNext, Silence, Peer, Lapse, Tick
  <2>. QED  BY <1>5, <1>14, <1>15, <2>1 DEF k
<1>. QED  BY <1>16, <1>17

\* The lease l is committed below w: by a job that sent so, or by a peer that
\* checkpointed it.
Settles(l, w) ==
    /\ table' = Committed(table, l, w)
    /\ \/ \E c \in Job : /\ disk' = disk /\ job[c].commit.at = "sent"
                         /\ job[c].commit.id = l.id /\ job[c].commit.through = w
       \/ \E c \in Cluster : w = l.end /\ disk' = [disk EXCEPT ![c] = @ \cup Places({l})]

\* Every other step of the coordinator commits nothing.
LEMMA TableKeeps ==
  ASSUME SessionInv, SessionNext, Singles(table), MinBlocks = 1, MaxBlocks = 1
  PROVE  Keeps(table, table') \/ \E l \in table.leases, w \in Nat : Settles(l, w)
<1> DEFINE Kept == Keeps(table, table')
<1>1. /\ Inv(table) /\ table \in Table /\ Job \subseteq Cluster /\ job \in [Job -> JobState]
  BY InvCoverage, SessionAssumption DEF SessionInv, JobTypeOK
<1>2. ASSUME table' = table
      PROVE  Kept
  BY <1>2, SameKeeps
<1>3. ASSUME NEW gone, NEW count, table' = Reclaimed(table, gone, count)
      PROVE  Kept
  BY <1>1, <1>3, ReclaimedKeeps
<1>4. ASSUME NEW d \in Cluster, NEW progress, Heartbeat(d, progress)
      PROVE  Kept
  BY <1>1, <1>4, HeartbeatKeeps
<1>5. ASSUME NEW d \in Cluster, Served(d)
      PROVE  Kept
  BY <1>1, <1>5, ServedKeeps
<1>6. ASSUME NEW d \in Job, ServeCommit(d)
      PROVE  Kept \/ \E l \in table.leases, w \in Nat : Settles(l, w)
  <2> DEFINE m == job[d].commit
  <2>1. m.through \in Nat
    BY <1>1, PoolAssumption DEF JobState, CommitCall, Watermarks
  <2>2. /\ disk' = disk /\ m.at = "sent"
        /\ \/ table' = table
           \/ \E l \in table.leases : l.id = m.id /\ table' = Committed(table, l, m.through)
    BY <1>6, ServeCommitFields
  <2>. QED  BY <1>2, <2>1, <2>2 DEF Settles
<1>7. ASSUME NEW d \in Job, ServeRelease(d)
      PROVE  Kept
  BY <1>2, <1>3, <1>7, ServeReleaseFields
<1>8. ASSUME NEW d \in Job, Start(d)
      PROVE  Kept
  BY <1>1, <1>8, RegisteredKeeps DEF Start, Register
<1>9. ASSUME NEW d \in Job, Silence(d)
      PROVE  Kept
  <2>1. table'.leases = table.leases /\ table'.state = table.state /\ table'.epoch = table.epoch
    BY <1>1, <1>9 DEF Silence, FallSilent, Table
  <2>. QED  BY <2>1, SameKeeps
<1>10. ASSUME NEW d \in Cluster \ Job, Peer(d)
       PROVE  Kept \/ \E l \in table.leases, w \in Nat : Settles(l, w)
  <2>1. CASE \E progress : Heartbeat(d, progress)
    BY <1>4, <2>1
  <2>2. CASE \E l \in Holding(table, d) :
               Commit(l, l.end) /\ disk' = [disk EXCEPT ![d] = @ \cup Places({l})]
    <3>1. PICK l \in Holding(table, d) :
               Commit(l, l.end) /\ disk' = [disk EXCEPT ![d] = @ \cup Places({l})]
      BY <2>2
    <3>2. l \in table.leases /\ l.end \in Nat
      BY <1>1 DEF Holding, Table, Lease
    <3>3. Settles(l, l.end)
      BY <3>1 DEF Settles, Commit
    <3>. QED  BY <3>2, <3>3
  <2>. QED  BY <1>5, <1>10, <2>1, <2>2 DEF Peer
<1>11. ASSUME NEW l \in table.leases, Lapse(l)
       PROVE  Kept
  BY <1>1, <1>11, OverdueKeeps DEF Lapse
<1>12. ASSUME Tick
       PROVE  Kept
  BY <1>3, <1>12 DEF Tick, Reap, Reaped
<1>13. ASSUME NEW d \in Job, Terminate(d)
       PROVE  Kept
  BY <1>3, <1>13 DEF Terminate, ReleaseAll
<1>14. ASSUME NEW d \in Job, \/ Crash(d) \/ FetchFailed(d) \/ CommitRetried(d) \/ CommitFailed(d)
                             \/ FetchAnswered(d) \/ FetchStored(d) \/ SendBeat(d) \/ ApplyBeat(d)
       PROVE  Kept
  BY <1>2, <1>14 DEF Crash, FetchFailed, CommitRetried, CommitFailed, FetchAnswered,
                     FetchStored, SendBeat, ApplyBeat
<1>15. ASSUME NEW d \in Job, \/ TakePrefetched(d) \/ Ask(d) \/ AcquireAnswered(d) \/ NotePhase(d)
                             \/ TrainStep(d) \/ EndOfPhase(d) \/ SaveThenCommit(d) \/ SendCommit(d)
                             \/ CommitAnswered(d) \/ CommitsDone(d) \/ ReleaseAnswered(d)
       PROVE  Kept
  BY <1>2, <1>15 DEF TakePrefetched, Ask, AcquireAnswered, NotePhase, TrainStep, EndOfPhase,
                     SaveThenCommit, SendCommit, CommitAnswered, CommitsDone, ReleaseAnswered
<1>16. ASSUME NEW d \in Job, ServeBeat(d)
       PROVE  Kept
  BY <1>1, <1>4, <1>16, ServeBeatFields
<1>17. ASSUME NEW d \in Job, ServeAcquire(d) \/ ServeFetch(d)
       PROVE  Kept
  BY <1>1, <1>5, <1>17 DEF ServeAcquire, ServeFetch
<1>. HIDE DEF Kept
<1>18. ASSUME NEW d \in Job, Main(d) \/ Fetcher(d) \/ Beater(d)
       PROVE  Kept \/ \E l \in table.leases, w \in Nat : Settles(l, w)
  BY <1>6, <1>7, <1>14, <1>15, <1>16, <1>17, <1>18 DEF Main, Fetcher, Beater
<1>19. ASSUME NEW d \in Job, \/ FetchFailed(d) \/ CommitRetried(d) \/ CommitFailed(d)
                             \/ Start(d) \/ Crash(d) \/ Terminate(d) \/ Silence(d)
       PROVE  Kept
  BY <1>8, <1>9, <1>13, <1>14, <1>19
<1>20. Kept \/ \E l \in table.leases, w \in Nat : Settles(l, w)
  BY <1>10, <1>11, <1>12, <1>18, <1>19 DEF SessionNext
<1>. QED  BY <1>20 DEF Kept

\* No checkpoint forgets what it was trained on.
LEMMA DisksGrow ==
  ASSUME SessionInv, SessionNext, NEW c \in Cluster
  PROVE  disk[c] \subseteq disk'[c]
<1>1. disk \in [Cluster -> SUBSET Place] /\ Job \subseteq Cluster
  BY SessionAssumption DEF SessionInv, JobTypeOK
<1>2. ASSUME disk' = disk
      PROVE  disk[c] \subseteq disk'[c]
  BY <1>2
<1>3. ASSUME NEW d \in Cluster, NEW more, disk' = [disk EXCEPT ![d] = @ \cup more]
      PROVE  disk[c] \subseteq disk'[c]
  BY <1>1, <1>3
<1>4. ASSUME NEW d \in Job, SaveThenCommit(d)
      PROVE  disk[c] \subseteq disk'[c]
  BY <1>1, <1>3, <1>4, SaveThenCommitFields
<1>5. ASSUME NEW d \in Job, Main(d), ~SaveThenCommit(d)
      PROVE  disk' = disk
  BY <1>5 DEF Main, TakePrefetched, Ask, ServeAcquire, AcquireAnswered, NotePhase, TrainStep,
              EndOfPhase, SendCommit, ServeCommit, CommitAnswered, CommitsDone, ServeRelease,
              ReleaseAnswered
<1>6. ASSUME NEW d \in Job, \/ Fetcher(d) \/ Beater(d) \/ FetchFailed(d) \/ CommitRetried(d)
                            \/ CommitFailed(d) \/ Start(d) \/ Crash(d) \/ Terminate(d) \/ Silence(d)
      PROVE  disk' = disk
  BY <1>6 DEF Fetcher, Beater, ServeFetch, FetchAnswered, FetchStored, SendBeat, ServeBeat,
              ApplyBeat, FetchFailed, CommitRetried, CommitFailed, Start, Crash, Terminate, Silence
<1>7. ASSUME NEW d \in Cluster \ Job, Peer(d)
      PROVE  disk[c] \subseteq disk'[c]
  <2>1. disk' = disk \/ \E l : disk' = [disk EXCEPT ![d] = @ \cup Places({l})]
    BY <1>7 DEF Peer
  <2>. QED  BY <1>2, <1>3, <2>1
<1>8. ASSUME (\E l \in table.leases : Lapse(l)) \/ Tick
      PROVE  disk' = disk
  BY <1>8 DEF Lapse, Tick
<1>. QED  BY <1>2, <1>4, <1>5, <1>6, <1>7, <1>8 DEF SessionNext

\* Of a session with grants of one block: leases, commits and jobs.
DurableInv ==
    /\ Singles(table) /\ CommitsAreDurable
    /\ \A c \in Job : EndsKnown(job[c], table)
    /\ ~Over(table) => \A c \in Job : Sound(job[c], disk[c])

\* What a step commits is in a checkpoint.
LEMMA CommitsStayBacked ==
  ASSUME SessionInv, SessionNext, DurableInv, MinBlocks = 1, MaxBlocks = 1
  PROVE  Singles(table') /\ CommitsAreDurable'
<1>1. /\ table \in Table /\ Ordered(table) /\ disk \in [Cluster -> SUBSET Place]
      /\ Singles(table) /\ CommitsAreDurable /\ Job \subseteq Cluster
  BY InvCoverage, SessionAssumption DEF SessionInv, JobTypeOK, DurableInv
<1>2. \A c \in Cluster : disk[c] \subseteq disk'[c]
  BY DisksGrow
<1>3. CASE Keeps(table, table')
  <2> SUFFICES ASSUME NEW b \in Blocks, table'.state[b] = COMMITTED
               PROVE  \E c \in Cluster : <<table'.epoch, b>> \in disk'[c]
    BY <1>3 DEF Keeps, CommitsAreDurable
  <2>1. table.state[b] = COMMITTED /\ table'.epoch = table.epoch
    BY <1>3 DEF Keeps, NoCommits
  <2>2. PICK c \in Cluster : <<table.epoch, b>> \in disk[c]
    BY <1>1, <2>1 DEF CommitsAreDurable
  <2>. QED  BY <1>2, <2>1, <2>2
<1>4. ASSUME NEW l \in table.leases, NEW w \in Nat, Settles(l, w)
      PROVE  Singles(table') /\ CommitsAreDurable'
  <2>1. table' = Committed(table, l, w)
    BY <1>4 DEF Settles
  <2>2. /\ Singles(table') /\ table'.epoch = table.epoch
        /\ \A b \in Blocks : table'.state[b] = COMMITTED =>
             \/ table.state[b] = COMMITTED
             \/ l.committed_end <= b /\ b < w /\ b < l.end
    BY <1>1, <2>1, CommitKeeps
  <2>3. /\ l \in Lease /\ l.start \in Nat /\ l.committed_end \in Nat /\ l.end \in Nat
        /\ l.start <= l.committed_end /\ l.epoch = table.epoch
        /\ l.id[1] = l.epoch /\ l.id[2] = l.start
    BY <1>1 DEF Table, Lease, Ordered, Singles
  <2> SUFFICES ASSUME NEW b \in Blocks, table'.state[b] = COMMITTED
               PROVE  \E c \in Cluster : <<table.epoch, b>> \in disk'[c]
    BY <2>2 DEF CommitsAreDurable
  <2>4. CASE table.state[b] = COMMITTED
    <3>1. PICK c \in Cluster : <<table.epoch, b>> \in disk[c]
      BY <1>1, <2>4 DEF CommitsAreDurable
    <3>. QED  BY <1>2, <3>1
  <2>5. CASE l.committed_end <= b /\ b < w /\ b < l.end
    <3>1. b \in Nat /\ l.start <= b
      BY <2>3, <2>5, PoolAssumption DEF Blocks
    <3>2. CASE \E c \in Job : /\ disk' = disk /\ job[c].commit.at = "sent"
                              /\ job[c].commit.id = l.id /\ job[c].commit.through = w
      <4>1. PICK c \in Job : /\ disk' = disk /\ job[c].commit.at = "sent"
                             /\ job[c].commit.id = l.id /\ job[c].commit.through = w
        BY <3>2
      <4>2. ~Over(table)
        BY DEF Over
      <4>3. Backed(job[c], disk[c])
        BY <4>2 DEF DurableInv, Sound
      <4>4. Upto(l.id, w) \subseteq disk[c]
        BY <4>1, <4>3 DEF Backed
      <4>5. <<l.id[1], b>> \in Upto(l.id, w)
        BY <2>3, <2>5, <3>1 DEF Upto
      <4>. QED  BY <1>1, <2>3, <4>1, <4>4, <4>5
    <3>3. CASE \E c \in Cluster : disk' = [disk EXCEPT ![c] = @ \cup Places({l})]
      <4>1. PICK c \in Cluster : disk' = [disk EXCEPT ![c] = @ \cup Places({l})]
        BY <3>3
      <4>2. Places({l}) \subseteq disk'[c]
        BY <1>1, <4>1
      <4>3. <<l.id[1], b>> \in Places({l})
        BY <2>3, <2>5, <3>1 DEF Places
      <4>. QED  BY <2>3, <4>2, <4>3
    <3>. QED  BY <1>4, <3>2, <3>3 DEF Settles
  <2>. QED  BY <2>2, <2>4, <2>5
<1>. QED  BY <1>1, <1>3, <1>4, TableKeeps DEF Keeps

\* While the data lasts, every job's step keeps its own record straight.
LEMMA JobSound ==
  ASSUME SessionInv, SessionNext, SessionInv', DurableInv, ~Over(table), ~Consumption,
         MinBlocks = 1, MaxBlocks = 1, NEW c \in Job,
         \/ Main(c) \/ Fetcher(c) \/ Beater(c)
         \/ FetchFailed(c) \/ CommitRetried(c) \/ CommitFailed(c)
         \/ Start(c) \/ Crash(c) \/ Terminate(c)
  PROVE  Sound(job'[c], disk'[c])
<1>1. /\ Sound(job[c], disk[c]) /\ job'[c] \in JobState /\ Inv(table') /\ Singles(table)
      /\ c \in Cluster /\ disk \in [Cluster -> SUBSET Place]
      /\ ~job[c].exhausted /\ job[c].acquire.status # "epoch_complete"
  BY SessionAssumption DEF SessionInv, JobTypeOK, DurableInv, EndsKnown
<1> DEFINE Good == Sound(job'[c], disk'[c])
<1>2. ASSUME disk' = disk, Sound(job'[c], disk[c])
      PROVE  Good
  BY <1>2
<1>3. ASSUME TakePrefetched(c)
      PROVE  Good
  BY <1>1, <1>2, <1>3, TakePrefetchedSound DEF TakePrefetched
<1>4. ASSUME AcquireAnswered(c)
      PROVE  Good
  BY <1>1, <1>2, <1>4, AcquireAnsweredSound DEF AcquireAnswered
<1>5. ASSUME Ask(c) \/ FetchAnswered(c) \/ FetchStored(c) \/ FetchFailed(c)
      PROVE  Good
  BY <1>1, <1>2, <1>5, AskSound DEF Ask, FetchAnswered, FetchStored, FetchFailed
<1>6. ASSUME NotePhase(c)
      PROVE  Good
  BY <1>1, <1>2, <1>6, NotePhaseSound DEF NotePhase
<1>7. ASSUME TrainStep(c) \/ EndOfPhase(c) \/ CommitsDone(c)
      PROVE  Good
  BY <1>1, <1>2, <1>7, TrainSound DEF TrainStep, EndOfPhase, CommitsDone
<1>8. ASSUME SaveThenCommit(c)
      PROVE  Good
  BY <1>1, <1>8, SaveSound
<1>9. ASSUME \/ SendCommit(c) \/ CommitAnswered(c) \/ CommitRetried(c) \/ CommitFailed(c)
             \/ SendBeat(c) \/ ApplyBeat(c) \/ ReleaseAnswered(c)
      PROVE  Good
  BY <1>1, <1>2, <1>9, CallsSound DEF SendCommit, CommitAnswered, CommitRetried,
                                      CommitFailed, SendBeat, ApplyBeat, ReleaseAnswered
<1>10. ASSUME ServeAcquire(c) \/ ServeFetch(c)
       PROVE  Good
  BY <1>1, <1>2, <1>10, ServeAcquireSound, ServeAcquireFields
<1>11. ASSUME ServeCommit(c) \/ ServeRelease(c) \/ ServeBeat(c)
       PROVE  Good
  BY <1>1, <1>2, <1>11, ServeSound DEF ServeCommit, ServeRelease, ServeBeat
<1>12. ASSUME Start(c) \/ Crash(c) \/ Terminate(c)
       PROVE  Good
  BY <1>12, LifeSound
<1>. HIDE DEF Good
<1>13. Good
  BY <1>3, <1>4, <1>5, <1>6, <1>7, <1>8, <1>9, <1>10, <1>11, <1>12 DEF Main, Fetcher, Beater
<1>. QED  BY <1>13 DEF Good

\* A step of others adds to checkpoints only.
LEMMA OthersSound ==
  ASSUME SessionInv, SessionNext, NEW d \in Job, job'[d] = job[d], Sound(job[d], disk[d])
  PROVE  Sound(job'[d], disk'[d])
<1> DEFINE j == job[d]
           D == disk[d]
           E == disk'[d]
<1>1. j \in JobState /\ D \subseteq E /\ Backed(j, D) /\ Rounded(j)
  BY DisksGrow, SessionAssumption DEF SessionInv, JobTypeOK, Sound
<1>. HIDE DEF j, D, E
<1>2. Backed(j, E)
  BY <1>1 DEF Backed
<1>. QED  BY <1>1, <1>2 DEF Sound, j, E

\* Under the `checkpoint' policy, with grants of one block, a position is
\* committed only when some cluster's checkpoint was trained on it: across
\* crashes, restarts, outages, lost replies, releases of diverged phases,
\* prefetches and heartbeats of any number of jobs and peers (trainer.py:
\* checkpoint first, then commit; client.py: note_consumed, commit_all).
THEOREM CommitsStayDurable ==
  ~Consumption /\ MinBlocks = 1 /\ MaxBlocks = 1 => (SessionSpec => []CommitsAreDurable)
<1> SUFFICES ASSUME ~Consumption, MinBlocks = 1, MaxBlocks = 1
             PROVE  SessionSpec => []CommitsAreDurable
  OBVIOUS
<1>1. SessionInit => DurableInv
  <2> SUFFICES ASSUME SessionInit PROVE DurableInv
    OBVIOUS
  <2>1. /\ table.leases = {} /\ table.state = [b \in Blocks |-> UNASSIGNED]
        /\ \A c \in Job : job[c] = Dead(0)
    BY DEF SessionInit, Init, NewTable
  <2> DEFINE k == Dead(0)
  <2>2. /\ k.acquire = NoCall /\ k.fetch = NoCall /\ k.prefetch = NoGrant /\ k.commit = NoCommit
        /\ k.exhausted = FALSE /\ k.main = "done"
        /\ k.spans = {} /\ k.todo = {} /\ k.targets = {}
    BY DEF Dead, NewJob
  <2>. HIDE DEF k
  <2>3. /\ NoCall.at = "idle" /\ NoCall.spans = {} /\ NoCall.status = "none"
        /\ NoGrant.spans = {} /\ NoCommit.at = "idle"
    BY DEF NoCall, NoGrant, NoCommit
  <2>4. Mine(k) = {}
    BY <2>2, <2>3 DEF Mine, Fetched
  <2>5. \A D : Backed(k, D)
    BY <2>2, <2>3, <2>4 DEF Backed
  <2>6. Rounded(k)
    BY <2>2, <2>3, NoneSingle DEF Rounded
  <2>7. EndsKnown(k, table)
    BY <2>2, <2>3 DEF EndsKnown
  <2>8. Singles(table)
    BY <2>1 DEF Singles
  <2>9. CommitsAreDurable
    BY <2>1 DEF CommitsAreDurable, UNASSIGNED, COMMITTED
  <2>. QED  BY <2>1, <2>5, <2>6, <2>7, <2>8, <2>9 DEF DurableInv, Sound, k
<1>2. SessionInv /\ [SessionNext]_sessionVars => SessionInv'
  BY SessionStep
<1>3. SessionInv /\ SessionInv' /\ DurableInv /\ [SessionNext]_sessionVars => DurableInv'
  <2> SUFFICES ASSUME SessionInv, SessionInv', DurableInv, [SessionNext]_sessionVars
               PROVE  DurableInv'
    OBVIOUS
  <2>1. CASE UNCHANGED sessionVars
    BY <2>1 DEF DurableInv, CommitsAreDurable, sessionVars
  <2>2. CASE SessionNext
    <3>1. Singles(table') /\ CommitsAreDurable'
      BY <2>2, CommitsStayBacked
    <3>2. \A c \in Job : EndsKnown(job'[c], table')
      BY <2>2, EndsStayKnown DEF DurableInv
    <3>3. ASSUME ~Over(table'), NEW c \in Job
          PROVE  Sound(job'[c], disk'[c])
      <4>1. ~Over(table)
        BY <3>3, OverStays, TableStep DEF SessionInv
      <4>2. Sound(job[c], disk[c])
        BY <4>1 DEF DurableInv
      <4>3. CASE job' = job
        BY <2>2, <4>2, <4>3, OthersSound
      <4>4. CASE job' # job
        <5>1. PICK d \in Job : \/ Main(d) \/ Fetcher(d) \/ Beater(d)
                               \/ FetchFailed(d) \/ CommitRetried(d) \/ CommitFailed(d)
                               \/ Start(d) \/ Crash(d) \/ Terminate(d)
          BY <2>2, <4>4 DEF SessionNext, Silence, Peer, Lapse, Tick
        <5>2. CASE c = d
          BY <2>2, <4>1, <5>1, <5>2, JobSound
        <5>3. CASE c # d
          BY <2>2, <4>2, <5>1, <5>3, JobAlone, OthersSound
        <5>. QED  BY <5>2, <5>3
      <4>. QED  BY <4>3, <4>4
    <3>. QED  BY <3>1, <3>2, <3>3 DEF DurableInv
  <2>. QED  BY <2>1, <2>2
<1>4. DurableInv => CommitsAreDurable
  BY DEF DurableInv
<1>. QED  BY InitialSession, <1>1, <1>2, <1>3, <1>4, PTL DEF SessionSpec

=============================================================================
