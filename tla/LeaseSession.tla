---------------------------- MODULE LeaseSession ----------------------------
(***************************************************************************)
(* A training job's side of DARL: the lease session (darl/client.py) with  *)
(* its three threads, the data source and dataset that hand leased         *)
(* positions to the trainer (darl/torch_data.py, titan/darl_dataloader.py) *)
(* and the inner phase that checkpoints and then commits (titan/trainer.py)*)
(* composed with the coordinator's table (LeaseTable).                     *)
(*                                                                         *)
(* A job's threads run concurrently and talk to the coordinator by calls   *)
(* that are sent, served and answered in separate steps:                   *)
(*   main      trains, asks for spans, saves, commits, releases;           *)
(*   prefetch  asks for the next spans while main trains;                  *)
(*   heartbeat reports progress and applies the coordinator's view.        *)
(*                                                                         *)
(* One block stands for the samples of one optimiser step, InnerSteps for  *)
(* H.  Samples left over when a span is dealt to the ranks are not         *)
(* modelled.  A checkpoint is written at every phase end (interval = 1, or *)
(* one that divides H).                                                    *)
(***************************************************************************)
EXTENDS LeaseTable

CONSTANTS
    Job,            \* the clusters that are modelled in full; the others are peers
    PhaseBlocks,    \* blocks_per_phase: what every acquire asks for
    InnerSteps,     \* H, in blocks
    Consumption,    \* commit_policy = 'consumption' instead of 'checkpoint'
    Outages,        \* the leases of a live job may lapse, and its acquires fail
    LostReplies,    \* the reply to a commit may be lost, and the call retried
    GiveUps,        \* all retries of a commit may fail
    Heartbeats,     \* FALSE keeps only what heartbeats are for: no lease lapses
    MaxLives,       \* bound: how often a job is started
    MaxCrashes,     \* bound: how many jobs die
    MaxPeerSeq,     \* bound: a peer is granted leases up to this sequence number
    MaxDivergeSeq   \* bound: up to this sequence number a phase may end with a
                    \* non-finite loss

ASSUME SessionAssumption ==
    /\ PhaseBlocks \in 1 .. MaxRequest /\ InnerSteps \in Nat \ {0}
    /\ Job \subseteq Cluster
    /\ {Consumption, Outages, LostReplies, GiveUps, Heartbeats} \subseteq BOOLEAN
    /\ MaxLives \in Nat /\ MaxCrashes \in Nat /\ MaxPeerSeq \in Nat /\ MaxDivergeSeq \in Nat
    /\ Incarnation = 1 .. MaxLives

VARIABLES
    job,    \* cluster -> what its process holds in memory
    disk    \* cluster -> the positions its last checkpoint was trained on

sessionVars == <<table, job, disk>>

-----------------------------------------------------------------------------
(* Data                                                                    *)

\* A lease as the client sees it: `end' and `valid' follow the heartbeat's
\* replies, `consumed' and `committed' are the session's own watermarks.
Span == [id : Nat \X Nat \X Nat, start : Nat, end : Nat,
         consumed : Nat, committed : Nat, valid : BOOLEAN]

NewSpan(l) == [id |-> l.id, start |-> l.start, end |-> l.end,
               consumed |-> l.start, committed |-> l.start, valid |-> TRUE]

\* An acquire call of a thread, and its answer.
CallStage  == {"idle", "sent", "answered", "storing"}
CallStatus == {"none", "granted", "drain", "epoch_complete"}
NoCall == [at |-> "idle", status |-> "none", spans |-> {}]

NoBeat   == [at |-> "idle", progress |-> <<>>, view |-> <<>>]
NoCommit == [at |-> "idle", id |-> <<0, 0, 0>>, through |-> 0,
             gone |-> FALSE, closed |-> FALSE]

\* What the prefetch thread stored: nothing, or an acquisition's status and spans.
NoGrant == [status |-> "none", spans |-> {}]

MainStage == {"next", "acquire", "asleep", "note", "train", "save", "commit",
              "release", "released", "done"}

\* `since' is the last sequence number drawn before the process started.
NewJob(life, since) ==
    [alive |-> TRUE, life |-> life, since |-> since, spans |-> {}, main |-> "next",
     todo |-> {}, phase |-> {}, fresh |-> {}, steps |-> 0, exhausted |-> FALSE,
     acquire |-> NoCall, fetch |-> NoCall, prefetch |-> NoGrant,
     beat |-> NoBeat, targets |-> {}, commit |-> NoCommit]

Dead(life) == [NewJob(life, 0) EXCEPT !.alive = FALSE, !.main = "done"]

Named(spans, id) == {s \in spans : s.id = id}

\* Positions of spans, as <<epoch, position>>: an id starts with its epoch.
Places(spans) == UNION {{<<s.id[1], b>> : b \in s.start .. s.end - 1} : s \in spans}

-----------------------------------------------------------------------------
(* Acquiring                                                               *)

\* The tables an acquire of PhaseBlocks blocks may leave.
AcquireOutcomes(c) ==
    LET t == AcquireBase(c)
        wants == GrantSizes(t, c, PhaseBlocks)
        free == UNION {TakeNear(t.free, t.clusters[c].cursor, want) : want \in wants}
        plans == IF AllowStealing THEN UNION {StealPlans(t, c, want) : want \in wants} ELSE {}
    IN  IF t.free # {}
        THEN {Granted([t EXCEPT !.free = @ \ Covered(s)], c, s) : s \in free}
        ELSE IF plans # {}
        THEN {Granted(Robbed(t, p[1], p[2]), c, StolenSpans(p[1], p[2])) : p \in plans}
        ELSE {t}

\* The answer: the leases with a sequence number this call drew.  A retry with
\* the same request id is given the same answer, so that a lost answer is a
\* late one.
AnswerOf(before, after) ==
    LET new == {l \in after.leases : l.id[3] > before.seq}
    IN  [at |-> "answered",
         status |-> IF new # {} THEN "granted"
                    ELSE IF after.leases # {} THEN "drain" ELSE "epoch_complete",
         spans |-> {NewSpan(l) : l \in new}]

Served(c) ==
    \E after \in AcquireOutcomes(c) :
        /\ after.seq <= MaxSeq
        /\ table' = after

ServeAcquire(c) ==
    /\ job[c].acquire.at = "sent"
    /\ Served(c)
    /\ job' = [job EXCEPT ![c].acquire = AnswerOf(table, table')]
    /\ UNCHANGED disk

ServeFetch(c) ==
    /\ job[c].fetch.at = "sent"
    /\ Served(c)
    /\ job' = [job EXCEPT ![c].fetch = AnswerOf(table, table')]
    /\ UNCHANGED disk

\* The phase takes all positions of the spans in hand, as the session knows
\* them now; whether they are still valid is not asked.
TakesPhase(j, spans) ==
    LET known == {s \in j.spans : \E g \in spans : g.id = s.id}
        lost == {g \in spans : Named(j.spans, g.id) = {}}
    IN  [j EXCEPT !.main = "note", !.phase = known \cup lost,
                  !.todo = Places(known \cup lost)]

\* next_phase: a stored prefetch first, an acquire of its own otherwise.  A
\* prefetch still in flight is waited for at most one RPC timeout.
TakePrefetched(c) ==
    /\ job[c].main = "next"
    /\ job[c].prefetch.status = "granted"
    /\ job' = [job EXCEPT ![c] = [TakesPhase(@, @.prefetch.spans) EXCEPT !.prefetch = NoGrant]]
    /\ UNCHANGED <<table, disk>>

Ask(c) ==
    /\ \/ job[c].main = "next" /\ job[c].prefetch.status # "granted"
       \/ job[c].main = "asleep"
    /\ job' = [job EXCEPT ![c].main = "acquire",
                          ![c].prefetch = IF job[c].main = "next" THEN NoGrant ELSE @,
                          ![c].acquire = [NoCall EXCEPT !.at = "sent"]]
    /\ UNCHANGED <<table, disk>>

AcquireAnswered_(c) ==
    LET j == job[c]
        got == [j EXCEPT !.spans = @ \cup j.acquire.spans, !.acquire = NoCall]
    IN  /\ j.acquire.at = "answered"
        /\ job' = [job EXCEPT ![c] =
               CASE j.acquire.status = "granted" -> TakesPhase(got, j.acquire.spans)
                 [] j.acquire.status = "epoch_complete" ->
                      [got EXCEPT !.exhausted = TRUE, !.main = "release"]
                 [] OTHER -> [got EXCEPT !.main = "asleep"]]
        /\ UNCHANGED <<table, disk>>

\* The answer reaches main.  After `drain' it adopts a stored prefetch or
\* sleeps and asks again; after `epoch_complete' the dataset ends, and hands
\* back what it still holds.
AcquireAnswered(c) ==
    LET j == job[c]
        got == [j EXCEPT !.spans = @ \cup j.acquire.spans, !.acquire = NoCall]
    IN  /\ j.acquire.at = "answered"
        /\ job' = [job EXCEPT ![c] =
               CASE j.acquire.status = "granted" -> TakesPhase(got, j.acquire.spans)
                 [] j.acquire.status = "epoch_complete" ->
                      [got EXCEPT !.exhausted = TRUE, !.main = "release"]
                 [] j.prefetch.status = "granted" ->
                      [TakesPhase(got, j.prefetch.spans) EXCEPT !.prefetch = NoGrant]
                 [] OTHER -> [got EXCEPT !.main = "asleep", !.prefetch = NoGrant]]
        /\ UNCHANGED <<table, disk>>

FetchAnswered_(c) ==
    /\ job[c].fetch.at = "answered"
    /\ job' = [job EXCEPT ![c].fetch.at = "storing"]
    /\ UNCHANGED <<table, disk>>

\* The prefetch thread puts the spans into the session, and stores its result
\* in a second critical section.
FetchAnswered(c) ==
    /\ job[c].fetch.at = "answered"
    /\ job' = [job EXCEPT ![c].spans = @ \cup job[c].fetch.spans, ![c].fetch.at = "storing"]
    /\ UNCHANGED <<table, disk>>

FetchStored(c) ==
    /\ job[c].fetch.at = "storing"
    /\ job' = [job EXCEPT ![c].fetch = NoCall,
                          ![c].prefetch = [status |-> job[c].fetch.status,
                                           spans |-> job[c].fetch.spans]]
    /\ UNCHANGED <<table, disk>>

\* All retries of a prefetch failed, before or after it was served.
FetchFailed(c) ==
    /\ job[c].fetch.at \in {"sent", "answered"}
    /\ Outages
    /\ job' = [job EXCEPT ![c].fetch = NoCall, ![c].prefetch = NoGrant]
    /\ UNCHANGED <<table, disk>>

-----------------------------------------------------------------------------
(* Training                                                                *)

\* The spans of the phase count as consumed to their end, as far as the session
\* still knows them, and the next ones are asked for in the background.
NotePhase(c) ==
    LET j == job[c]
        Noted(s) == IF \E p \in j.phase : p.id = s.id
                    THEN LET p == CHOOSE p \in j.phase : p.id = s.id
                         IN  [s EXCEPT !.consumed = Larger(@, Smaller(p.end, s.end))]
                    ELSE s
        idle == j.prefetch = NoGrant /\ j.fetch = NoCall
    IN  /\ j.main = "note"
        /\ job' = [job EXCEPT ![c].main = "train", ![c].phase = {},
                              ![c].spans = {Noted(s) : s \in @},
                              ![c].fetch = IF idle THEN [NoCall EXCEPT !.at = "sent"] ELSE @]
        /\ UNCHANGED <<table, disk>>

\* One optimiser step, on the next samples of the shuffled phase.
TrainStep(c) ==
    LET j == job[c]
    IN  /\ j.main = "train" /\ j.steps < InnerSteps
        /\ \E p \in j.todo :
             job' = [job EXCEPT ![c].todo = @ \ {p}, ![c].fresh = @ \cup {p}, ![c].steps = @ + 1]
        /\ UNCHANGED <<table, disk>>

Uncommitted(j) == {s \in j.spans : s.valid /\ s.consumed > s.committed}

\* The samples are used up before the step that needs more of them: the
\* dataset ends the phase, commits it under `consumption', and asks for more.
EndOfPhase(c) ==
    LET j == job[c]
    IN  /\ j.main = "train" /\ j.steps < InnerSteps /\ j.todo = {}
        /\ job' = [job EXCEPT ![c].main = IF Consumption THEN "commit" ELSE "next",
                              ![c].targets = IF Consumption THEN Uncommitted(j) ELSE {}]
        /\ UNCHANGED <<table, disk>>

\* H steps are done, or there is no more data after at least one: the
\* checkpoint is written, and only then are the spans committed.  A phase whose
\* loss is not finite is released instead.
SaveThenCommit_(c) ==
    LET j == job[c]
    IN  /\ j.main = "train" /\ j.steps = InnerSteps
        /\ job' = [job EXCEPT ![c].main = "commit", ![c].targets = Uncommitted(j)]
        /\ UNCHANGED <<table, disk>>

SaveThenCommit(c) ==
    LET j == job[c]
    IN  /\ j.main = "train"
        /\ j.steps = InnerSteps \/ (j.exhausted /\ j.steps > 0)
        /\ disk' = [disk EXCEPT ![c] = @ \cup j.fresh]
        /\ \/ job' = [job EXCEPT ![c].main = "commit", ![c].fresh = {},
                                 ![c].targets = Uncommitted(j)]
           \/ /\ table.seq <= MaxDivergeSeq
              /\ job' = [job EXCEPT ![c].main = "release", ![c].fresh = {}]
        /\ UNCHANGED table

\* After the last target: the next round, or the rest of this one.
CommitsDone(c) ==
    LET j == job[c]
    IN  /\ j.main = "commit" /\ j.targets = {} /\ j.commit = NoCommit
        /\ job' = [job EXCEPT ![c].main = IF j.exhausted THEN "done"
                                          ELSE IF j.steps = InnerSteps THEN "train" ELSE "next",
                              ![c].steps = IF @ = InnerSteps THEN 0 ELSE @]
        /\ UNCHANGED <<table, disk>>

-----------------------------------------------------------------------------
(* Committing                                                              *)

\* commit_all: one call per target; a span revoked or committed since is
\* skipped, one that shrank is committed to its end.
SendCommit(c) ==
    LET j == job[c]
    IN  /\ j.main = "commit" /\ j.commit = NoCommit
        /\ \E s \in j.targets :
             LET now == {m \in Named(j.spans, s.id) :
                            m.valid /\ Smaller(s.consumed, m.end) > m.committed}
                 Through == Smaller(s.consumed, (CHOOSE m \in now : TRUE).end)
             IN  job' = [job EXCEPT ![c].targets = @ \ {s},
                                    ![c].commit = IF now = {} THEN NoCommit
                                       ELSE [NoCommit EXCEPT !.at = "sent", !.id = s.id,
                                                             !.through = Through]]
        /\ UNCHANGED <<table, disk>>

\* The coordinator settles the commit, or knows the lease no more (LeaseGone).
ServeCommit(c) ==
    LET m == job[c].commit
        lease == {l \in table.leases : l.id = m.id}
    IN  /\ m.at = "sent"
        /\ IF lease = {}
           THEN /\ job' = [job EXCEPT ![c].commit.at = "answered", ![c].commit.gone = TRUE]
                /\ UNCHANGED table
           ELSE LET l == CHOOSE l \in lease : TRUE
                IN  /\ Commit(l, m.through)
                    /\ job' = [job EXCEPT ![c].commit.at = "answered",
                                          ![c].commit.closed = Settled(l, m.through) >= l.end]
        /\ UNCHANGED disk

CommitAnswered(c) ==
    LET m == job[c].commit
        Settle(s) == IF s.id # m.id THEN s
                     ELSE IF m.gone THEN [s EXCEPT !.valid = FALSE]
                     ELSE [s EXCEPT !.committed = m.through]
        kept == {s \in job[c].spans : ~(m.closed /\ s.id = m.id)}
    IN  /\ m.at = "answered"
        /\ job' = [job EXCEPT ![c].spans = {Settle(s) : s \in kept}, ![c].commit = NoCommit]
        /\ UNCHANGED <<table, disk>>

\* The reply is lost: the same call is made again.
CommitRetried(c) ==
    /\ LostReplies
    /\ job[c].commit.at = "answered" /\ ~job[c].commit.gone
    /\ job' = [job EXCEPT ![c].commit.at = "sent", ![c].commit.closed = FALSE]
    /\ UNCHANGED <<table, disk>>

\* All retries of a commit failed, before or after it was served: commit_all
\* ends there, and the trainer goes on without it.  (Under `consumption' it is
\* the dataset that commits, and the exception ends the job.)
CommitFailed(c) ==
    /\ GiveUps /\ ~Consumption
    /\ job[c].commit.at \in {"sent", "answered"}
    /\ job' = [job EXCEPT ![c].targets = {}, ![c].commit = NoCommit]
    /\ UNCHANGED <<table, disk>>

\* release_all, of a dataset that ended (the attempts count) or a phase that
\* diverged (they do not).  The call covers everything the cluster holds at the
\* coordinator; nothing is sent when the session holds nothing.
ServeRelease(c) ==
    LET j == job[c]
    IN  /\ j.main = "release" /\ j.spans # {}
        /\ table' = IF MayReleaseAll(table, c, j.life)
                    THEN Reclaimed(table, Holding(table, c), j.exhausted) ELSE table
        /\ job' = [job EXCEPT ![c].main = "released"]
        /\ UNCHANGED disk

\* The session forgets its spans and a stored prefetch; a release that failed
\* leaves both as they were.
AfterRelease(j) ==
    [j EXCEPT !.main = IF j.exhausted /\ j.steps = 0 THEN "done" ELSE "train",
              !.steps = IF @ = InnerSteps THEN 0 ELSE @]

ReleaseAnswered(c) ==
    LET j == job[c]
        emptied == [j EXCEPT !.spans = {}, !.prefetch = NoGrant]
    IN  /\ \/ j.main = "released" /\ job' = [job EXCEPT ![c] = AfterRelease(emptied)]
           \/ /\ j.main = "release" /\ j.spans = {}
              /\ job' = [job EXCEPT ![c] = AfterRelease(emptied)]
           \/ /\ Outages /\ j.main \in {"release", "released"} /\ j.spans # {}
              /\ job' = [job EXCEPT ![c] = AfterRelease(j)]
        /\ UNCHANGED <<table, disk>>

-----------------------------------------------------------------------------
(* The heartbeat thread                                                    *)

ReportedProgress_(s) == s.end
ReportedProgress(s) == s.consumed

SendBeat(c) ==
    LET valid == {s \in job[c].spans : s.valid}
    IN  /\ Heartbeats /\ job[c].beat = NoBeat /\ valid # {}
        /\ job' = [job EXCEPT ![c].beat = [NoBeat EXCEPT !.at = "sent",
               !.progress = [id \in {s.id : s \in valid} |->
                               ReportedProgress(CHOOSE s \in valid : s.id = id)]]]
        /\ UNCHANGED <<table, disk>>

\* The answer gives, for every lease asked about, the end it has now; 0 for one
\* the coordinator reclaimed.
ServeBeat(c) ==
    LET progress == job[c].beat.progress
        View(id) == LET live == {l \in table'.leases : l.id = id}
                    IN  IF live = {} THEN 0 ELSE (CHOOSE l \in live : TRUE).end
    IN  /\ job[c].beat.at = "sent"
        /\ Heartbeat(c, progress)
        /\ job' = [job EXCEPT ![c].beat.at = "answered",
                              ![c].beat.view = [id \in DOMAIN progress |-> View(id)]]
        /\ UNCHANGED disk

Applied(s, end) ==
    IF end = 0 THEN [s EXCEPT !.valid = FALSE]
    ELSE IF end < s.end THEN [s EXCEPT !.end = Larger(end, s.consumed)] ELSE s

ApplyBeat(c) ==
    LET view == job[c].beat.view
    IN  /\ job[c].beat.at = "answered"
        /\ job' = [job EXCEPT ![c].beat = NoBeat,
               ![c].spans = {IF s.id \in DOMAIN view THEN Applied(s, view[s.id]) ELSE s : s \in @}]
        /\ UNCHANGED <<table, disk>>

-----------------------------------------------------------------------------
(* Processes and time                                                      *)

\* A job starts from its checkpoint, once the coordinator accepts the new
\* process under its cluster id (ClusterBusy until then).
Start(c) ==
    LET life == job[c].life + 1
    IN  /\ ~job[c].alive /\ life <= MaxLives
        /\ Register(c, life)
        /\ job' = [job EXCEPT ![c] = NewJob(life, table.seq)]
        /\ UNCHANGED disk

Deaths == SumFunction([c \in Job |-> IF job[c].alive THEN job[c].life - 1 ELSE job[c].life])

Crash(c) ==
    /\ job[c].alive /\ Deaths < MaxCrashes
    /\ job' = [job EXCEPT ![c] = Dead(job[c].life)]
    /\ UNCHANGED <<table, disk>>

\* SIGTERM: close() releases everything with a single attempt, then the
\* process dies.
Terminate(c) ==
    /\ job[c].alive /\ Deaths < MaxCrashes
    /\ job[c].spans # {}
    /\ ReleaseAll(c, job[c].life, TRUE)
    /\ job' = [job EXCEPT ![c] = Dead(job[c].life)]
    /\ UNCHANGED disk

\* Heartbeats renew the leases a live session believes in, and an answer takes
\* less than a TTL; only an outage makes one of these leases lapse, or makes a
\* live cluster look silent.
Pending(j) == j.acquire.spans \cup j.fetch.spans

Renews(c, l) == c \in Job /\ \E s \in job[c].spans \cup Pending(job[c]) : s.id = l.id /\ s.valid

Lapse(l) ==
    /\ Outages \/ ~Renews(l.cluster, l)
    /\ LeaseOverdue(l)
    /\ UNCHANGED <<job, disk>>

Silence(c) ==
    /\ Outages \/ ~job[c].alive
    /\ FallSilent(c)
    /\ UNCHANGED <<job, disk>>

\* A cluster that is not modelled in full: a client of the coordinator that
\* commits what it has trained.
Peer(c) ==
    /\ \/ table.seq < MaxPeerSeq /\ Served(c) /\ UNCHANGED disk
       \/ Heartbeats /\ Heartbeat(c, [id \in {l.id : l \in Holding(table, c)} |-> NumBlocks])
                     /\ UNCHANGED disk
       \/ \E l \in Holding(table, c) :
            /\ Commit(l, l.end)
            /\ disk' = [disk EXCEPT ![c] = @ \cup Places({l})]
    /\ UNCHANGED job

\* The coordinator's background tick.
Tick == Reap /\ UNCHANGED <<job, disk>>

SessionInit ==
    /\ Init
    /\ job = [c \in Job |-> Dead(0)]
    /\ disk = [c \in Cluster |-> {}]

\* The three threads of a job; the coordinator answers their calls.
Main(c) ==
    \/ TakePrefetched(c) \/ Ask(c) \/ ServeAcquire(c) \/ AcquireAnswered(c)
    \/ NotePhase(c) \/ TrainStep(c) \/ EndOfPhase(c)
    \/ SaveThenCommit(c) \/ SendCommit(c) \/ ServeCommit(c) \/ CommitAnswered(c) \/ CommitsDone(c)
    \/ ServeRelease(c) \/ ReleaseAnswered(c)

Fetcher(c) == ServeFetch(c) \/ FetchAnswered(c) \/ FetchStored(c)

Beater(c) == SendBeat(c) \/ ServeBeat(c) \/ ApplyBeat(c)

SessionNext ==
    \/ \E c \in Job :
         \/ Main(c) \/ Fetcher(c) \/ Beater(c)
         \/ FetchFailed(c) \/ CommitRetried(c) \/ CommitFailed(c)
         \/ Start(c) \/ Crash(c) \/ Terminate(c) \/ Silence(c)
    \/ \E c \in Cluster \ Job : Peer(c)
    \/ \E l \in table.leases : Lapse(l)
    \/ Tick

SessionSpec == SessionInit /\ [][SessionNext]_sessionVars

\* Every thread of a live job runs, a dead job is requeued, and time passes for
\* leases nobody renews.
SessionFairness ==
    /\ \A c \in Job :
         /\ WF_sessionVars(Main(c)) /\ WF_sessionVars(Fetcher(c)) /\ WF_sessionVars(Beater(c))
         /\ WF_sessionVars(Start(c)) /\ WF_sessionVars(Silence(c))
    /\ WF_sessionVars(\E l \in table.leases : Lapse(l))
    /\ WF_sessionVars(Tick)

FairSessionSpec == SessionSpec /\ SessionFairness

-----------------------------------------------------------------------------
(* Properties                                                              *)

\* What a job holds in memory and on disk has the types client.py gives it.
SessionTypeOK ==
    \A c \in Job :
        LET j == job[c] IN
        /\ j.main \in MainStage /\ j.spans \subseteq Span
        /\ j.acquire.at \in CallStage /\ j.acquire.status \in CallStatus
        /\ j.fetch.at \in CallStage /\ j.prefetch.status \in CallStatus
        /\ j.steps \in 0 .. InnerSteps /\ j.life \in 0 .. MaxLives
        /\ j.todo \cup j.fresh \cup disk[c] \subseteq Nat \X Blocks

\* A span the session believes in is, if the coordinator still has its lease,
\* never ahead of it: it reaches at least as far as the lease, claims no commit
\* the coordinator has not made, and has consumed all the progress that was
\* reported of it, so that a thief is never given what was reported consumed.
ViewIsSafe ==
    \A c \in Job : \A s \in job[c].spans : \A l \in table.leases :
        s.valid /\ s.id = l.id =>
            /\ l.end <= s.end
            /\ s.committed <= l.committed_end
            /\ l.progress_end <= s.consumed

\* `checkpoint' policy: a position is committed only once it is in somebody's
\* checkpoint, whatever crashes (trainer.py: checkpoint first, then commit).
CommitsAreDurable ==
    \A b \in Blocks : table.state[b] = COMMITTED =>
        \E c \in Cluster : <<table.epoch, b>> \in disk[c]

\* Every lease granted to the running process is in its session, or on its way
\* there: no grant is held by nobody while its job lives.
GrantsAreHeld ==
    \A c \in Job : \A l \in Holding(table, c) :
        job[c].alive /\ l.id[3] > job[c].since =>
            \E s \in job[c].spans \cup Pending(job[c]) : s.id = l.id

\* With every job running or requeued, the epoch ends: nobody waits for ever
\* on a pool drained by a job that is gone, by a prefetch, or by itself.
EpochEnds == <>EpochComplete(table)

=============================================================================
