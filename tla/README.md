# Verification of ProjectWorldWide

ProjectWorldWide trains one language model on several supercomputers. A
central machine without GPUs runs DARL, a coordinator that leases blocks of
the training data to clusters, a federated round server, which collects what
the clusters learned and publishes the next global model, and a store for the
files that are too large for a message. This directory holds TLA+ models of that
program, TLC configurations that check them on small instances, and proofs,
checked by TLAPS, for every size.

Paths are relative to `src/src/pww/`. `PROJECT.json` gives the lines behind
every definition, the hazards the properties are about, and for every property a
plausible mistake in the code that breaks it.

## 1. Inventory

| component | state | operations | behaviours that are hard | correct when |
|---|---|---|---|---|
| lease table, `darl/table.py` | state and attempts of every block position, free pool, leases with two watermarks, cluster records, counters, epoch | register, acquire, heartbeat, commit, release, reap, advance_epoch, restore, replay_lease | steals that cut leases others are training on; stale watermarks; expiry; takeover of an id; quarantine | every position has one holder, commits are final, the epoch ends when all are settled |
| coordinator, `darl/server.py` | the table under one lock, `snapshot.json`, `journal.jsonl`, grant cache | one RPC per table operation, tick, save_snapshot, load | crash between two writes, lost and torn lines, double replay, retried acquires | what was acknowledged survives |
| lease session, `darl/client.py` | spans held, progress, prefetched grant, three threads | acquire, prefetch, heartbeat, commit, release, close | a reply applied after the table moved on; prefetch racing a release; waiting for a drain | its view is never ahead of the table; no grant is lost; the epoch ends |
| data source, `darl/torch_data.py`, `titan/darl_dataloader.py` | phase, consumed and uncommitted spans | next_phase, end_phase, commit, release_unused, SIGTERM | what is consumed and what is durable differ | what is committed is in a checkpoint |
| trainer, `titan/trainer.py` | model, step, checkpoint | one phase of H steps, save, commit or release | save and commit are two steps | as above |
| round endpoint, `central/httpround.py`, `http_round_client.py` | members, open phase, answers, who was told to stop | join, poll, result, run_rounds, lingering; the client's loop | late and repeated reports; deadlines; silent members | only this round's answers are merged; every phase ends |
| strategy, blob transport, `central/strategy.py`, `globalstate.py`, `blobstore.py` | three files, blobs by round and cluster | seed, merge, publish, prune; fetch, train, upload | crash between renames; stale deltas; pruning during downloads; two jobs with one id | a delta is merged once, into the model it was measured on |
| strategy, inline transport | model, controller and two checkpoint tiers | aggregate, gauge, checkpoint, resume | poisoned merges, pruning by name, order of clamps | a restart recovers the last merge |
| ranks of a job, `titan/flower_client.py`, `titan/train.py` | rank 0 serves the rounds, the workers mirror it | command broadcast, collectives, stop | sequences built in two places; exceptions on rank 0 only | all are in the same collective |
| DiLoCo, `diloco.py`, `train_cifar.py`, `checkpoint.py` | theta, momentum, inner counter, checkpoints | inner and outer step, finish, save, resume | kills between the parts of a checkpoint | one theta, nothing lost but the running phase |
| planner, `plan/timeline.py`, `plan/search.py` | a simulation; evaluated plans | simulate, solve, report on robustness | boundaries, fast paths, ties | the shortcuts compute what they replace |
| campaign log, `plan/state.py`, `submit.py`, `monitor.py` | an append-only event file | submit, poll, fold | order of events of several hosts | not modelled |
| the rest: block space, simulator, planner input and reports, corpus tools, queue scanner, Flower variants of the scripts | none, or I/O | | | not modelled |

How they interact. A cluster's session asks the coordinator for leases over
HTTP and reports progress by heartbeat; the coordinator applies each request to
the table under its lock, writes a journal line and replies. A trainer runs H
steps on the leased blocks, checkpoints and commits the leases. Rank 0 takes its
round from the round server, tells the other ranks by broadcast, fetches the
global model from the blob store (or finds it in the message), and
reports a delta that it has uploaded (or the weights). The strategy merges what
it is given and publishes the result. Leases and rounds meet only in the trainer.

## 2. Modules

| module | models |
|---|---|
| `FreePool` | what the free pool computes, as set operations |
| `IntervalSet` | the interval lists that compute it |
| `LeaseTable` | the lease table: one record, one action per operation |
| `BlockLedger` | what a lease table promises; `LeaseTable` implements it |
| `Coordinator` | extends `LeaseTable`: RPCs, journal, snapshot, crash, replay |
| `LeaseSession` | extends `LeaseTable`: jobs with three threads, the data source, the inner phase |
| `RoundServer`, `Rounds` | the round endpoint and driver; the clients and the network |
| `GlobalModel` | the outer loop over blobs: server, store, jobs |
| `InlineOuter` | the outer loop in messages: checkpoints and the controller of H |
| `RankControl` | the ranks of one job |
| `DiLoCo` | DiLoCo inside one allocation, with its checkpoints |
| `Timeline`, `Search` | the planner's simulator; its search, on top |
| `LeaseTableProofs`, `CoordinatorProofs` | theorems about the lease table and its abstract ledger; about the journal, the snapshot and restarts |
| `LeaseSessionProofs`, `RoundsProofs`, `GlobalModelProofs`, `InlineOuterProofs`, `RankControlProofs`, `DiLoCoProofs` | theorems about those modules |
| `MC...` | instances for TLC |

**FreePool, IntervalSet.** The table uses the pool through `add`, `take_near`,
`remove` and `total`. `FreePool` defines the pool as a set and `take_near` as the
sequences of spans it can return. `IntervalSet` has the pair of lists and the
loops (one is a recursive operator, so no proof reaches the module); its run shows that they
compute what `FreePool` says. One oddity of the loop is kept in both: it
compares the intervals it has visited with those left, and an interval taken
whole leaves the list, so one call visits about half of a fragmented pool.
Nothing is lost, the client asks again.

**LeaseTable.** The variable `table` is the Python object as a record. Each method
is an operator from a table to the table it leaves, and each RPC an action
that composes the operators the way the method calls its helpers: `acquire` reaps,
registers, starts the next epoch if the old one is complete, then grants from
the pool, steals, or answers drain or complete. Arguments are whatever a
client may send: any watermark, any subset of leases in a heartbeat, any
incarnation. Abstracted: the clock, to the flags `overdue` and `silent`, which
may be set at any time; throughput estimates, to every share and order of
victims they may lead to.

**BlockLedger.** Per position one holder: `Free`, `Done`, `Bad` or a cluster. One
step reassigns or settles some positions, or starts the next epoch. The mapping
`HolderOf` finds the lease a position is outstanding in.

**Coordinator.** Each `Serve` action is one RPC: the table action and the line it
logs, or none. Commits are synced before the reply, other lines are not.
`SaveSnapshot` and `Truncate` are two steps. `Crash` loses any unsynced suffix
and may leave the first lost line torn; a process that appends after a torn
line glues its line to it. `Load` and the `Replay` actions rebuild the table line
by line, and a crash may interrupt them. History that no guard reads: `acked` and `held`, what
clients were told; `covered`, how many lines of the journal the snapshot holds, and
`outrun`, that a crash once took some of those.

**LeaseSession.** A job has a main thread (`Ask`, `TrainStep`, `EndOfPhase`,
`SaveThenCommit`, `SendCommit`, `ServeRelease`, ...), a prefetch thread and a
heartbeat thread. A call is sent, served by the table and answered in separate
steps, so the other threads and other clusters act between any two; what was
read before the call is carried in it, as in the code. An answered acquire
stays available to the retry, which is what the coordinator's grant cache is for. A
commit's reply may be lost and the call sent again, or all its retries fail, and the trainer
goes on without it (`CommitFailed`). A process may crash or get
SIGTERM and is requeued under a new incarnation. Clusters that are not in `Job`
are peers: they register, are granted leases, steal, report and commit.
Abstracted: one block is the data of one optimiser step; samples left over when
a span is dealt to the ranks are not carried; a checkpoint is written at every
phase end; leases of a live session lapse, and its acquires fail for good, only in an outage
(`Outages`), and its commits only with `GiveUps`.

**RoundServer, Rounds.** `server` is `RoundState`, `live` what
`HttpClientManager.live()` returns, `driver` the thread in `run_rounds`. Each
critical section is one step, so the end of the wait, the copy of the answers and
the closing of the phase are three. A poll is held open: its touch of the
membership comes when it arrives, its answer later. A report may be heard, arrive
with its reply lost, be delayed while a second copy is sent, or be lost; a client
whose retries are used up reports an error, then ends; processes die and are
started again. Abstracted: clocks, configurations and metrics; of the strategy
only whether there is a global model.

**GlobalModel.** A model is a number; `lineage` (a history variable) has for each
the model it was made from and the deltas that went in. The server's steps are
the places a kill can fall: the phase is closed, the new global renamed, the
momentum renamed, the metadata saved, the blob published, the old ones pruned. A
job takes a task, fetches (opening the blob and reading it are two steps, and the
read may end short), applies, trains, uploads and reports; jobs may claim
one cluster id, and reports may arrive in any later phase. A restarted server
counts its phases from one. Weights, tokens and dtypes are left out.

**InlineOuter.** Of a model only whether it is finite is kept, with its round and
step. The two tiers of checkpoints, their pruning by name, the search for the
newest finite one, and the controller (the rate schedule, the Jensen gauge, the
multiplier and the clamps, in thousandths) are as in the code.

**RankControl.** A rank runs a script: the collectives still before it and, on
rank 0, the calls between them that can raise. Rank 0's scripts are written from
`_fit_blob`, `_fit_inline`, `evaluate` and `get_parameters`; the workers' from
`run_worker_loop` reading the command tuple. A collective happens when all are at
it. After an exception rank 0 broadcasts STOP, as `finally` in `main` does.

**DiLoCo.** A set of parameters is the set of inner steps that went into it, and
momentum the set of steps it accumulated. The outer optimiser moves theta by the average
and by each rank's own momentum, so two thetas made of the same steps need not be the same:
`pulls` keeps the momenta a theta was moved by, and at what count. Replicas and slots give the inner and
outer process groups; `sharded`, `split` and `every` are `--sharded-checkpoint`, a model
split over the slots (FSDP), and `--save-every`. Saving is as many steps as the code has writes (the
consolidated file and its barrier; or the shards, the metadata file, and each rank's
outer state); a kill may fall between any two, and the next job resumes. `torn` keeps
what resumes found of saves that were cut short: no `meta.json`, outer states at different
places of a phase ("states"), or outer states that differ in what they accumulated or count ("momenta").

**Timeline, Search.** One action of `Timeline` is one turn of `simulate`'s loop
(idle, forfeited, fast or slow round). `Search` admits shapes, makes options,
simulates every selection (`Turn`), and then runs the greedy with its exchange
pass, the envelope, alpha*, sensitivity rows and ledger on what was evaluated. Times are
integers and the tolerance `_EPS` is 0; rates are fractions.

**Slips.** A definition whose name ends in `_` is a plausible mistake in the
definition after it. Nothing uses it; `PROJECT.json` pairs every checked
property with one that breaks it.

## 3. Runs

| run | question | bounds |
|---|---|---|
| `lease_table` | do `verify()`'s invariants, the action properties and the refinement hold for any clients? | 2 clusters, 2 incarnations, 3 positions, 3 grants, 2 epochs, 2 attempts |
| `free_pool` | do the interval loops compute the set operations? | all pools of 8 positions, 2 spans |
| `replay` | does every restored table pass `verify()`? | 2 clusters, 2 positions in leases of 2, 3 lines, 2 grants, 2 epochs |
| `durable` | do acknowledged commits and held leases survive? | 1 cluster, 2 positions, 4 lines, 3 grants |
| `rounds` | which answers are aggregated, is a task given once, does every phase end, and the run? | 2 clusters, 2 rounds, 2 starts, 1 delayed report |
| `diloco` | do kills and resumes keep one theta, and meet in every collective? | 2 replicas of 2 ranks, H = 2, 3 epochs of 3 steps, saving every epoch or every other, DDP and FSDP, consolidated and sharded, 2 kills |
| `session` | is a session's view ever ahead of the table's? | 1 job and a peer, 2 positions, 3 grants (2 of them to the peer), outages, lost replies, failed commits, one diverged phase |
| `session_live` | is nothing committed before it is durable, no grant lost, and does the epoch end? | 1 job and a peer, 2 positions in leases of 1, 8 grants, 1 crash, lost replies; a phase is a round, none diverges, no commit fails for good |
| `global_model` | does every delta meet its model, once; do files and blobs agree? | 2 jobs, 2 ids, `keep_rounds` 1, 3 models, 4 phases, 1 kill |
| `inline_outer` | does a restart find the last merge; does the controller answer a fracture? | 5 rounds, 3 readings, 1 crash, 1 overflow, failed writes, both tiers keep 1 |
| `planner` | do the planner's shortcuts compute what they replace? | 2 sites of 5 shapes each (2 admitted), horizon 20, 27 problems |
| `rank_control` | do the ranks stay together? | 3 ranks, 3 commands, H up to 3, every flag, every failing call |

What the bounds leave in.

*Leases.* Three positions and two clusters are enough for a lease to be partly
committed, partly reported and cut by a steal, with a third position that is free,
quarantined or held; three grants for a victim, a thief, and a grant of what
was reclaimed; two attempts for a position that fails under two clusters; two
incarnations for a takeover and the refusal of the old process. A steal that
takes several spans from several leases needs more positions than TLC reaches
there; it is covered by the proofs, which hold for any number of spans. `MaxSeq`, `MaxLines`,
`MaxRequest` and `MaxEpochs` only cut the runs short (`MaxEpochs` is a
parameter of the program as well).

*Sessions.* Two positions in one lease are what it takes for a peer to steal the
tail while the job's heartbeat or commit is under way. `session` lets leases
lapse while their holder lives, and lets replies overlap with all that follows;
`session_live` has crashes and requeues instead. Heartbeats are off there: what
they do for liveness, keeping a live job's leases, is assumed instead (a live session's
lease does not lapse), and what they may do wrong is `session`'s question.
Its phases are of one step, which is a round, and none diverges, because otherwise its two
safety properties fail, and no commit fails for good, because then the epoch may not end (section 6).
The commit policy is 'checkpoint'.

*Rounds.* Two rounds are needed for a late answer, two starts for two clusters
or for one that starts again. `MCRounds` starts either with the first of two
rounds and one process used, or with the last round alone and both to use,
which keeps liveness checkable. A report that is delayed once and sent again
is in two places at a time.

*Global model.* Three models are a seed and two merges, so the first model is
still in some job's hands when the second merge happens. `KilledAt` names the
steps before which a kill is considered: all but four, for which the properties do
not hold, see below. `MaxPhases` counts phases of both servers. A phase more
only repeats one that added nothing.

*Inline.* Five rounds with one file kept in each tier make both tiers lose files
that a restart would have wanted. `MCGaps` has a reading in each band of the
controller.

*DiLoCo.* H = 2 and three steps per epoch put an epoch's end in the middle of a
phase and, two epochs on, at its end.

*Planner.* `MCShapes` has a shape for each reason not to be admitted. The corpora of
4, 8, 16 and 30 blocks run out before the partner comes, while it is there, or not at all;
9 attempts let the horizon bind and 4 do not; H is constant or alternates.

Symmetry is used only where clusters, incarnations or jobs are interchangeable
and nothing is a liveness property. `replay`'s view forgets the history variables,
which its property does not mention; `durable`'s forgets attempts, on which
nothing depends when there is no limit; `session`'s forgets those, the checkpoint and
what was trained since the last one, which are only written there, which of the positions still to
train are left, for the next step takes any of them, and what an answered heartbeat asked,
for only its answer is applied.

`durable` is run without steals, expiry, further epochs and torn lines, and
starts from a snapshot. This is not for size: with any of them the properties do
not hold of the code (section 6).

Deadlock is checked for the table, the coordinator and the pool. Everything else
really ends (a run is over, the commands are sent, a plan is found), and what
must not stop is said by `EveryPhaseEnds`, `RunEnds`, `EpochEnds`, `NobodyWaitsAlone`,
`NobodyIsStranded` and `WorkersLeave`.

### Fairness

* `rounds`. The driver is a thread that runs: weak fairness of its steps, except of
  `TimeOut`, so that `still_live` has to end the wait. `WaitForClients` is
  strongly fair: membership is sampled every two seconds and lasts 120 seconds after
  a cluster was heard of, so a condition that holds again and again is seen to
  hold. A client that lives polls, works, and has its report heard or runs
  out of retries. A cluster whose process is gone falls silent. Nothing is
  assumed of deaths, restarts, losses, heartbeats, or membership that lapses
  while a client lives. `RunEnds` has its own premise: enough members, again and again.
* `session_live`. Every thread of a live job takes its steps; a dead job is requeued
  by its chain; a dead cluster falls silent, a lease nobody renews lapses, and the
  maintenance tick runs. Nothing is assumed of the peer, of crashes or of lost replies.
* `rank_control`. Ranks run, and a call of rank 0 returns or raises. Nothing is
  assumed of the central node.

The other specifications state no fairness; their temporal properties are safety.

### Exceptions the properties state

Some premises are there because the code does otherwise in that case.

* `FastIsStepping` speaks of rounds that every live lane fits. When a lane must
  forfeit a round, the fast path charges rounds to the survivors until one of
  them changes, while the loop would ask the forfeiting lane again each round, and
  with a shorter round it may fit.
* `CreditedAreAlive` excepts rounds that a lane joins late: the join, and its stall,
  lengthen the round after departures were settled, so a credited lane may be
  gone before the round closes.
* `RecommendationStands` leaves out alpha = 0, where a tie may be broken
  otherwise, so that the sensitivity row says "changed" where alpha* says never; and
  the objective "tokens", for which alpha* and the alpha rows
  still use the federated utility though the solve does not.
* `MergesMeetTheirBase` starts with the second merge of a run: a seed that
  arrives late, after its sender's phase was closed and another was asked,
  overwrites the init blob, and the first deltas were measured on the other.
* `NobodyIsStranded` and `WorkersLeave` except the eight calls in `Unmirrored`;
  the DiLoCo properties except the saves named in `torn`, each of them only those that
  matter to it: `OneTheta` speaks of the steps in theta unless "states", and of the momenta
  that moved it unless "states" or "momenta"; section 6.
* `FractureBites` excepts a multiplier above one at the cap; section 6.

## 4. What the checks show

The table is sound under every client behaviour, and the interval pool computes
what the table is specified with; the proofs extend the first to every size. A
restored table is always consistent, which is less than complete: under the
conditions above it is complete too, and exact: a second replay adds nothing, unless it is of a journal
that lost lines the snapshot has. Sessions do not get ahead of the table
although their heartbeats, commits and releases overlap, because a heartbeat's reply can only
cut or invalidate; a prefetched grant is always found again; and an epoch ends
in spite of crashes, as long as dead jobs are requeued. In the rounds, what reaches a
merge is right for a reason that is not in `submit` (kinds are not compared)
but in the order of the phases. With blobs, what keeps a stale delta out is that every merge advances the counter
that reports are compared with, and what keeps a model in place for a slow download is
`keep_rounds`. The ranks stay on one schedule because every change of
H and step travels in the tuple that starts the phase.

## 5. Proofs

The theorems hold for every value of the constants that the assumptions beside their
declarations allow. Those say that counts and lengths are positive, that clusters, jobs and
ranks are finite in number, and that names like `None` differ from what they stand beside.
`PROJECT.json` pairs each theorem with the property of a run that it generalises.

**Lease table.** `LeaseTableProofs` proves `TableStaysVerified` (the property `Verified` of the run), and its parts and
neighbours `TypeCorrect`, `WatermarksStayOrdered`, `LeasesStayDisjoint`,
`CoverageHolds`, `CountersStayExact`, `QuarantineStaysExact`; and `CommittedStays`,
that no step reopens a committed position within its epoch.

None of the state properties is inductive by itself: disjointness after a grant
needs that the granted positions were free, and so that free positions are in no
lease (coverage); coverage after a commit needs that no other lease had those
positions (disjointness) and that the watermark was clamped into the lease
(watermarks); the counters need coverage, to know that the positions that were
just counted had not been counted before; and all need that ids of new leases
are new. `Invariance` therefore proves the conjunction `Inv`. Coverage is stated
with a set of positions in hand because `acquire` takes them from the pool
before it creates their leases. There is one lemma per operator, each of
which takes a table that satisfies the invariant to one that does, and each
action is the composition of its lemmas.

**Ledger.** The same module proves the action properties and the refinement.
`StealsSpareProgress`: watermarks of a lease that stays alive only grow, and no
steal cuts below what the victim reported. `EpochsSkipNothing`: an acquire begins an epoch only
when nothing was left of the old one. `LedgerImplemented`: under the mapping `HolderOf` the
initial table is an initial ledger, and every step of every RPC is a step of
`BlockLedger` or leaves all holders as they are; the lemmas go operator by operator
through what each does to the holder of one position, and compose. `NothingCreditedTwice`
is `ZeroDuplication`: what clusters are credited with adds up to the positions
committed. It is a sum over a function of clusters; that the sum grows by what one
cluster's entry grows by is proved from a smallest set of clusters for
which it would not, so that no induction theorem of the library is used.

**Coordinator.** `CoordinatorProofs` proves `RestartsVerify` (`ReplayVerifies` of the run), for any
journal, any suffix of it that a crash loses, any torn line, and any snapshot already holding
some of what is replayed. The invariant `Recoverable` says that the table,
live or half replayed, and the snapshot each satisfy the table's `Inv`, that lines are
well-formed or torn, and that the synced part is a prefix. The work is in the
replay: `restore` and `replay_lease` are called with arguments that no RPC would
pass, since a lease of the line may overlap leases of the table, and what
keeps them apart is that `replay_lease` takes only positions that are still free.

What a restart brings back is proved by `AckedCommitsSurvive`, `RestartsSettleNothing` and
`RestartsFindLeases` (`CommitsSurvive`, `NoPhantomCommit` and `LeasesSurvive` of the run `durable`), for
any number of clusters, positions, leases, lines, snapshots and crashes. Their condition `Faithful` is
that the journal tells the whole story: a first snapshot, no expiry, steals, torn lines, incarnations,
quarantine or second epoch. Each part of it is there because without it the code loses
something (section 6), and `durable` meets all of them.

* What a table and a journal lead to (`Rebuilt`) is defined without recursion: every set of
  moments (a table and the lines still to do) that contains the start and no step of a replay leaves contains
  the end too. A proof about a replay then shows such a set: what is true of the start and kept by
  one line (`RebuiltKeeps`, `RebuiltAppend`, `ReplayTwice`). One line has one outcome (`OneOutcome`),
  since the first run of free positions is unique, so the end is unique (`RebuiltOnce`).
* A copy rebuilt from files is not the table it stands for: a lease that is cut to
  its uncommitted positions forgets where it started. `Alike` leaves out the start and the reported progress, and
  one lemma per RPC shows that the line it logged, replayed over any such copy, leads to a copy of the table after the RPC
  (`Retells`). For an acquire the copies are climbed lease by lease (`GrantReplayed`).
* A crash may take any unsynced suffix. The invariant `Retained` is therefore about every prefix of the
  journal from `durable` on: replayed over the snapshot it leads to a table that has all
  acknowledged commits (`Keeps`). A new snapshot has them already, and no line takes a commit back.
* That more is not committed, and that the leases are the same, is the question of a double replay, and
  needs to know how the lines and the table they are replayed on hang together. `Story(t, j, s)` says so for a
  table `t`, lines `j` still to do, and the table `s` they are about: whatever a line hands out is in `s` what remains of a lease,
  or wholly committed, or given back by a later line, and before that line nothing that overlaps it
  is handed out again; and what is committed on it is committed in `s`. A line keeps this
  (`StoryStep`), and at the end `t` is a copy of `s` (`StoryEnds`). With `t = s` it says that the lines
  have been carried out (`Told`), so replaying them changes nothing: `ReplayTwice` is
  the claim of `server.py:116-119`, with its conditions. The invariant `Exact` keeps `Told` for the
  table and for every copy a crash may leave, as long as no crash took lines that the snapshot held
  (`~outrun`); section 6 shows what happens otherwise.

**Sessions.** `LeaseSessionProofs` proves four things, for any number of jobs and
peers. `SessionsAreClients`: every step of a session's threads, of a call that is served
or repeated, of a crash or a new life is a step of `LeaseTable` or leaves the
table as it is. All theorems of the two paragraphs on the table thus hold under live
sessions. `ViewStaysSafe` is `ViewIsSafe`. The session's view is copied: into
the answers on their way to main and to the prefetch thread, the heartbeat that was
built from it, the targets of `commit_all` and the commit in flight; other threads and
thieves act between the copying and the use. The invariant `SessionInv` says of each
copy how far it may be behind (`Views`, `Reports`, `Commits`), that a lease is in one of
the session, main's answer and the prefetch thread's answer, and once (`Parted`), and
that every id a job mentions was handed out, and to its cluster (`Entitled`), so that a late message
cannot be about a lease of somebody else. The proof shows that `ViewIsSafe` holds of revoked spans as
well. The lemmas about the table say what an operation may report of whose leases
(`Untold`); each step of a thread then needs only its own.

The other two theorems have hypotheses on the constants, because without them they are false:
section 6 gives the counterexamples. `GrantsStayHeld` is `GrantsAreHeld` without outages and
diverging phases (`~Outages`, `MaxDivergeSeq = 0`); lost and late replies, repeated calls,
crashes, new lives and peers stay. Its invariant says of each job (`HoldsAll`) that every
lease of its life is on one of its three ways (`Listed`); which of the three threads may hold what, that main
waits for its own acquire, hands back only at the end of the data and drops a span only when its lease is
closed (`Turns`); and that what a job takes for the end of the data is one (`EndsKnown`).
For that a table that is at its end stays there (`Over`, `OverStays`).
`CommitsStayDurable` is `CommitsAreDurable` under the `checkpoint` policy for grants of one block
(`MinBlocks = MaxBlocks = 1`), with outages, divergence and all the rest, and rounds of any number of steps. Grants
of one block are what makes a round end where a phase does, the condition that the code
does not check. The invariant `DurableInv` says that all leases are of one block, so that
there is never a tail to steal (`Singles`); that what a span, a target of `commit_all` or a commit on its way says is consumed
is in a checkpoint, or is still to be trained in this round (`Backed`); and that nothing is left to
train when a round ends (`Rounded`). The last two are kept as long as the table is not at its
end; after that no lease is open that a commit could touch.

**Rounds.** `RoundsProofs` proves, for any number of clusters, rounds, processes and
delayed reports, `RoundTypeCorrect` and `OnlyFitReachesAggregateFit`. Since nothing
compares kinds, this has to come from the order of the phases: the inductive
invariant says that the lock's state and the driver agree on the open phase,
that no task, report in flight or stored answer belongs to a phase that has not
been opened yet, and that stored answers are of the state's round. `TasksOnlyAdvance` adds
where each client's last task is (`InOrder`): a client polls only when it has answered its
task, has been told that its answer is late, or is a new process; while the phase of that task is open,
an answered task is not handed out again, because the report that answered it is in the server's
results, and a client that is not expected gets none. So a task that is handed out is of a
later phase than the last one, whatever is delayed or started again in between.

**Global model.** `GlobalModelProofs` proves all five properties of the run, and
`ColdStartsAreSeeded`, for any number of jobs, ids, models and phases. The
invariant has parts for the types, for how far metadata and weights may be apart
(`Counted`), for who may say there is a seed (`Seeds`), for what the files say of each
other between merges (`Agree`), for which models are linked (`NotBefore`, `Available`), and
for the rounds of whatever is under way (`Earlier`). `MergesStayOnTheirBase` needs
`Measured` on top: what says that it is of the server's round (a blob, a download, a staged
model, a delta) is of the model the server has in that round. Only the round is compared,
so this must hold of every late message and of every server that was started again.
`FilesStayInStep`, and the three after it, assume that no kill comes before the steps
named in section 6 (`FilesWritten`, `ModelLinked`): there the properties do not hold.

**Inline outer loop.** `InlineOuterProofs` proves `OuterTypeCorrect`, `LastMergeIsRecovered` and
`RollbackIsReached` (`RecoversLastMerge` and `RollbackReaches` of the run), for any lengths of the two tiers, any number of rounds, crashes, failed
writes and overflows, and any readings. What a restart finds depends on which files pruning left,
and pruning goes by names; so the invariant `OuterInv` ties names to contents (`Named`), rounds to attempts (`Counted`, `Seeded`), and
poison to the rounds since it came in (`Straight`), and says which rounds must still be on
disk: the last merge, or the one before while the last is being written (`Latest`), and the last
`KeepPersistent` multiples of the interval (`Kept`). That pruning spares those is a counting argument
(`FewMultiples`): among k consecutive multiples no more than k - 1 are later than the first.
`Straight` holds until the server goes back once, `Latest` and `Kept` until in addition a write fails; the two
properties say no more. `FractureBites` is not proved: in thousandths it is a
matter of rounding, and false for some values of the constants.

**Ranks.** `RankControlProofs` proves, for any set of workers, any lengths and any number of
commands, `RanksTypeCorrect`, `OneScheduleHolds` and `NobodyStaysStranded`. `OneSchedule` is not
inductive: rank 0 adopts a command's H and step before it broadcasts it. The
invariant (`InStep`) distinguishes scripts in which the broadcast is still to come, in
which the workers differ from rank 0 by exactly what the tuple carries and nobody
trains, from those in which it is not, in which all agree. For `NobodyIsStranded` the second
invariant (`Lined`, theorem `RanksStayInLine`) says that the collectives of rank 0's script and those of
each worker's are one sequence: the two sides write them in different code, and this
is the comparison of the two for every flag and every command.

**DiLoCo.** `DiLoCoProofs` proves all five properties of the run, for any number of replicas and
slots, any lengths of phase and epoch, any saving interval, split models or whole, both layouts of checkpoints and
any number of kills: `SharedModelIsOne`, `CheckpointsHoldTheta`, `MomentumIsOfTheta`, `WorkIsFolded`, `CollectivesAreMet`.
The ranks are never all at one place, so the invariant compares them by two numbers: the inner steps
a rank has taken (`Done`) and those its theta accounts for (`Folded`). Two ranks either have the
same theta and account for the same steps, or one waits for an outer step that the
other's slot has made, and then the second theta is exactly the first with the
running phase of every replica (`Aligned`, `Behind`). While no resume has found outer states of different
saves (`Matched`), two such ranks also agree on their momenta, their pulls and how many of their steps
went uncounted (`Alike`), or the second differs from the first by exactly the
pull of that outer step (`Pulled`): they pull alike though not at the same time. That no collective hangs follows from it: a rank that
waits for its outer group is ahead of some member, and that member's replica is still at a batch. On disk, the checkpoint is what
the ranks that go on to write hold (`JustSaved`), and an outer state that counts all steps of a checkpoint belongs to
it (`Filed`), so the total that `load_outer_state` compares is enough to tell a foreign momentum. What a resume
can lose is bounded by a count: a theta that is saved lacks what was lost
before and, of each replica, the last InnerSteps - 1 steps at most (`Few`, `MissingBound`).
The parts that assume `torn` to be empty, or without "states", except the resumes of section 6; types, the structure of an epoch
and the bound on what is lost hold after those too.

Only checked by TLC: of the session `CommitsAreDurable` and `GrantsAreHeld`
beyond the hypotheses of their theorems; of the inline outer loop `FractureBites`; everything about `IntervalSet`,
`Timeline` and `Search`; and all liveness and whatever is said with ENABLED,
which are out of the prover's reach. So is what a recursive definition computes
for every input, hence the interval loop and the folds of the planner.

Every module states its type invariant; those of the table, the coordinator, the session, the rounds, the global model, the inline outer loop, the
ranks and DiLoCo are proved. No configuration lists `OuterTypeOK` or `SessionTypeOK`,
because what they could catch the other properties of their runs do.

## 6. Where the code and its comments part

Met while modelling. Each can be reproduced by the change of constants given, or
is read off the code.

Coordinator. With `MCCoordinatorDurable.cfg`:
* `AllowStealing = TRUE` and two clusters break `CommitsSurvive`. The line of an acquire
  holds the new leases and not what was cut from the victim (`darl/server.py:297`);
  after a restart the victim's lease is replayed whole, the thief's lease and its
  acknowledged commit are skipped. `server.py:23-24` says every mutation is
  appended before the reply.
* `Incarnation = {i1, i2}` breaks `LeasesSurvive`. A release of everything that the
  table refused for its incarnation is journalled all the same and carried
  out by the replay, which `server.py:223-225` calls "already authorised".
* `Expires = TRUE` breaks `CommitsSurvive`: reaps at the start of
  acquire, heartbeat and status leave no line.
* `MaxEpochs = 2` breaks it: an epoch that an acquire starts leaves no
  line either. An explicit advance is relative, so that replayed on a snapshot
  that has it, it skips an epoch (`server.py:116-119` says double replay is harmless).
* `TornWrites = TRUE` breaks it: the line that is glued to a torn one ends every
  later replay.
* `SnapshotFirst = FALSE` breaks it: without a snapshot `load` ignores the journal.
* A double replay is not always harmless (`server.py:116-119`; `table.py:795-798` calls it "a no-op instead of a
  double-count"): it is when the snapshot holds lines that a crash then takes from the journal, for only
  commits are synced. `NoPhantomCommit` and `LeasesSurvive` except that with `~outrun`. Without it
  `MaxLines = 5`, `MaxSeq = 2` break the first: a lease of [0,2) is granted, released, and [0,1) granted;
  a snapshot is taken; a crash before the truncation loses the last two lines, and the replay keeps of the
  first lease [1,2), the part that is free; position 1 is committed and all is released; a second
  snapshot, a second crash before the truncation, and now the replay hands the first lease out again as [0,1), so that the
  commit line, whose watermark is 2, settles position 0, which nobody trained on. Two clusters,
  `MaxLines = 7` and `MaxSeq = 3` break the second: with a release of everything at the head of such a journal the
  second replay drops a lease that is held, and the first lease, back again, has taken its position.
* The line of a release does not say that it was not to be counted, so a replay
  blames the positions of a diverged cluster (`table.py:856-857`). The snapshot is not
  fsynced before the journal is truncated.

Rounds. A fit phase closes on its deadline, the cluster still training is
asked to evaluate, and its fit report is taken for the evaluation of the same
round, with loss 0.0 (`httpround.py:137`; 138-140 say a late result is dropped).

Global model. With `MCGlobalModel.cfg`, a kill before `"replaced"` or `"rolled"` (set
`KilledAt` to it) breaks `FilesAgree`: `global.pww` is the new model under the old
round, and the round is merged into it again, against `globalstate.py:24-27`. A kill
before `"seeded"` or `"saved"` breaks `ServedIsCurrent`: the
model is saved and its blob is not published, and nothing publishes it at the
next start, so no cluster can fetch it. `--fresh-model` moves the three files aside and
leaves the old blobs, whose names recur. A short response to a download is not an
error to `read(amt)`, so the truncated file is renamed (against `delta.py:176`),
found again by name, and fails every fit of that round (`ReadShort`, `FitFails`); with one cluster that lasts until the job is started again. A full store answers 507, which is retried although
the comment names it among the answers that are not (`delta.py:112-114`).

Inline. A multiplier above one at the cap hides a cut that leaves it above one,
for the last clamp is at the cap too (`strategy.py:404-407`: the guard that must
always bite). A rollback leaves the poisoned files, whose higher names make
pruning delete the new checkpoints. `_last_local_eval` stays from an earlier round
when a fit phase has no results.

Ranks. Eight calls of rank 0 (`Unmirrored`) raise while the workers are in a collective
that rank 0 will not come to; only the process groups' timeout, which is not
modelled, ends that. Among them is `set_parameters`: rank 0 alone decodes the message, after
the command is out, and alone raises on a missing tensor (`flower_client.py:207-212`,
`params.py:113-126`, `params.py:366-377`), with its workers in `scatter_full_state`.

DiLoCo. A kill between the outer states of the ranks of a sharded
checkpoint resumes them with files of different saves. If those stand at different places of a phase, their collectives pair
up wrongly ("states"). If they stand at the same place nothing hangs, but the momenta differ,
and the next outer step moves each rank's theta by its own: theta differs between replicas for good,
against `diloco.py:468` ("momenta"; ranks whose file counts other steps than the checkpoint warn of it,
and of nothing else). With FSDP and consolidated checkpoints every rank resumes with rank 0's
slice of the momentum (`train_cifar.py:84-94`, `train_cifar.py:307-309`; the comment there has every rank hold a full copy,
which is so under DDP), so that combination is not modelled. A kill inside `dcp.save` leaves a directory that `--resume auto` picks
for its age and no job can load; one before `meta.json` resumes as epoch 0 with
later weights. A foreign momentum is only warned of.

Leases. A retried commit of a lease that its first copy closed is answered 409, where
`table.py:697-698` says a no-op; the session then counts blocks as lost that are
committed. A span may straddle two rounds although the configuration's comments say a phase
is a round: the first grants of an epoch are halved (`table.py:969`), so a round of H steps can
end inside a phase. A session notes all of a span as consumed when it hands it out, and the
commit after the round's weights are durable then covers samples that no step has used yet
(against `trainer.py:265-267` and `client.py:700-702`; with `MCSessionLive.cfg`, `NumBlocks = 5` and
`MaxBlocks`, `MaxRequest`, `PhaseBlocks`, `InnerSteps = 2` break `CommitsAreDurable`). A release after a
diverged phase may forget a grant: a prefetch that the coordinator serves after the release
and that comes back before `spans.clear()` is cleared with the spans that were released; its lease
idles until its TTL (`MaxDivergeSeq = 1` breaks `GrantsAreHeld`; `client.py:738-739` says that
what the prefetcher won was released with the rest). When all retries of a commit fail the trainer
goes on (`trainer.py:602-610`), asks for more, and in the tail of an epoch is told to drain: what is outstanding
is its own lease, whose commit failed, and only a prefetch is looked for (`client.py:569-581`). It asks again for ever while its
heartbeats renew that lease, the wait that must never be (`client.py:532-538`; `GiveUps = TRUE` in
`MCSessionLive.cfg` breaks `EpochEnds`).

Planner. Besides the exceptions of section 3: the departure fixpoint drops all
lanes that do not fit at once, where dropping the slowest could keep another;
`schedule.py:278` reads a name that is not bound when `--out` is not given.

Central server. The metric aggregator's `global_step` starts at zero after a
restart while the strategy's resumes, and counts all results where that counts merged
ones (`central/server.py:351-354` calls it the same increment).

## 7. Not modelled

* Tensor arithmetic, weighted means, quantised wire formats, file formats,
  optimisers: numerical.
* Of the coordinator: authorisation, status pages. Of the session: several epochs in
  one process, a coordinator that restarts under it, policy 'consumption' (the
  constant `Consumption` is there, no run sets it), the dataloader's leftover samples,
  the non-federated path that commits from a checkpoint hook.
* Of DiLoCo: FSDP with consolidated checkpoints (section 6). A sharded save that writes again into the directory of a step
  that was saved before, after a resume without its `meta.json`, is taken as a new
  directory, which cannot be loaded until it is complete (`checkpoint.py:62-63`).
* Of the ranks: losses of a process or a device, which any rank may suffer anywhere, and
  the timeouts of the process groups.
* Of the strategy: pure-average evaluation rounds, unbounded tiers (`keep` = 0).
  Of the blob store: free-space checks and the temporary file of a PUT.
* Of the rounds: tokens, malformed requests, and Flower's gRPC transport.
* Of the planner: calibration and its quality labels, QSR schedules, the greedy-only mode
  for instances too large to enumerate, the remaining sensitivity passes,
  cross-checks, reports. The campaign log and the submission commands: I/O against
  Slurm; their hazard is listed in `PROJECT.json`.
* `darl/space.py`: a seeded shuffle of block numbers, a permutation because the library's
  is. `darl/simulate.py`: a capacity study. The queue scanner, corpus tools, dashboards and
  the plain Flower scripts.

## 8. What could follow

1. A live session over a coordinator that restarts: `LeaseSession` on top of
   `Coordinator`, in place of the table.
2. Proofs: `CommitsAreDurable` for phases of several blocks that are a whole round, and
   `GrantsAreHeld` with outages.
3. The campaign log with its hosts.
