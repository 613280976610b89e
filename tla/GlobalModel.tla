----------------------------- MODULE GlobalModel -----------------------------
(***************************************************************************)
(* The outer loop over the blob transport: central/globalstate.py keeps    *)
(* the global model, its momentum and its metadata in three files that are *)
(* renamed one after the other; central/strategy.py asks clusters to train,*)
(* merges their deltas, publishes the new model in the blob store and      *)
(* prunes it; titan/flower_client.py fetches, trains and uploads.          *)
(*                                                                         *)
(* A model's weights are a number, its birth order; `lineage` remembers of *)
(* each which model it was made from and the deltas that went into it.     *)
(* The endpoint that carries tasks and reports is RoundServer's: here a    *)
(* phase is a number, which a restarted server counts from one again, and  *)
(* a phase may be closed on a cluster at any time.                         *)
(***************************************************************************)
EXTENDS Naturals, Sequences, FiniteSets

CONSTANTS Job,          \* processes that train
          Cluster,      \* the ids they report as: two may have the same one
          KeepRounds,   \* --keep-rounds
          KilledAt,     \* the server steps before which a kill is considered
          MaxModels,    \* bound: models ever written
          MaxPhases,    \* bound: phases of all the servers
          MaxKills      \* bound: kills, of the server and of the jobs together

ASSUME ModelAssumption ==
  /\ IsFiniteSet(Job)
  /\ {KeepRounds, MaxModels, MaxPhases, MaxKills} \subseteq Nat

VARIABLES disk,         \* GlobalState.dir: global.pww, momentum.pww, meta.json
          blobs,        \* the blob store: the globals by round, the init blob, and
                        \* the deltas by round and cluster (a set of at most one)
          server,       \* the central process
          job,          \* the training processes
          lineage,      \* ghost: how each model came to be
          phases, kills \* counts, for the bounds

vars == <<disk, blobs, server, job, lineage, phases, kills>>

None == 0
Model == 1 .. MaxModels
Round == 0 .. MaxModels

(* A delta file holds the difference from one model; the reference is what *)
(* it was measured against, whatever round its header claims.              *)
Delta == [of : Model, by : Job]

Config  == [round : Round, init : BOOLEAN]
Report  == [job : Job, base : Round, seeded : BOOLEAN, blob : BOOLEAN]
NoTask  == [phase |-> 0, config |-> [round |-> 0, init |-> FALSE]]
Task    == [phase : 0 .. MaxPhases, config : Config]

Step == {"idle", "open", "closed", "seeding", "seeded", "ready", "replaced",
         "rolled", "saved", "published", "down"}
JobStep == {"idle", "fetching", "reading", "staged", "training", "uploading",
            "reporting", "dead"}
------------------------------------------------------------------------------
(* The server. *)

(* GlobalState.initialised: the file is there and the keys are known.      *)
initialised == disk.weights # None /\ server.keyed

(* A start that does not look whether metadata were saved. *)
Load_ == [at |-> "idle", round |-> disk.meta.round, keyed |-> FALSE, phase |-> 0,
          asked |-> {}, reports |-> {}]

(* A kill forgets memory; a start reads meta.json and nothing else.        *)
Load == [at      |-> "idle",
         round   |-> disk.meta.round,
         keyed   |-> disk.meta.saved,
         phase   |-> 0,
         asked   |-> {},
         reports |-> {}]

Kill ==
  /\ server.at \in KilledAt
  /\ kills < MaxKills
  /\ kills' = kills + 1
  /\ server' = [server EXCEPT !.at = "down"]
  /\ UNCHANGED <<disk, blobs, job, lineage, phases>>

Restart ==
  /\ server.at = "down"
  /\ server' = Load
  /\ UNCHANGED <<disk, blobs, job, lineage, phases, kills>>

(* configure_fit: every client there is is told the round of the model, or *)
(* on a cold start one client is told to provide it.                       *)
Live == {j \in Job : job[j].at # "dead"}

configure_fit(asked) ==
  /\ server.at = "idle"
  /\ phases < MaxPhases
  /\ Live # {}
  /\ asked \in IF initialised THEN {Live} ELSE {{j} : j \in Live}
  /\ phases' = phases + 1
  /\ server' = [server EXCEPT !.at = "open", !.phase = @ + 1, !.asked = asked,
                              !.reports = {}]
  /\ UNCHANGED <<disk, blobs, job, lineage, kills>>

RoundConfig == [round |-> server.round, init |-> ~initialised]

(* All have answered, or the deadline passed; without an answer the round  *)
(* is over and the model stays.                                            *)
ClosePhase ==
  /\ server.at = "open"
  /\ server' = [server EXCEPT !.at = IF server.reports = {} THEN "idle" ELSE "closed"]
  /\ UNCHANGED <<disk, blobs, job, lineage, phases, kills>>

(* _seed_from_results finds the init blob a reporter says it uploaded      *)
(* (nothing ever removes it); the new global is renamed into place before  *)
(* the metadata say so.                                                    *)
CanSeed == /\ \E p \in server.reports : p.seeded
           /\ blobs.init # None

SkipSeed ==
  /\ server.at = "closed" /\ initialised
  /\ server' = [server EXCEPT !.at = "ready"]
  /\ UNCHANGED <<disk, blobs, job, lineage, phases, kills>>

initialise_from_file ==
  /\ server.at = "closed" /\ ~initialised /\ CanSeed
  /\ disk' = [disk EXCEPT !.weights = blobs.init]
  /\ server' = [server EXCEPT !.at = "seeding"]
  /\ UNCHANGED <<blobs, job, lineage, phases, kills>>

SaveSeed ==
  /\ server.at = "seeding"
  /\ disk' = [disk EXCEPT !.momentum = None, !.meta = [round |-> 0, saved |-> TRUE]]
  /\ server' = [server EXCEPT !.at = "seeded", !.round = 0, !.keyed = TRUE]
  /\ UNCHANGED <<blobs, job, lineage, phases, kills>>

(* _publish_global links the global file under the name of its round,      *)
(* unless that name exists.                                                *)
Published == IF blobs.global[server.round] # None THEN blobs
             ELSE [blobs EXCEPT !.global[server.round] = disk.weights]

PublishSeed ==
  /\ server.at = "seeded"
  /\ blobs' = Published
  /\ server' = [server EXCEPT !.at = "ready"]
  /\ UNCHANGED <<disk, job, lineage, phases, kills>>

(* _aggregate_blob: a report counts when it names a delta, its file is     *)
(* there, and no other report has its cluster id.                          *)
DeltasOf(p) == blobs.delta[p.base][job[p.job].cluster]

Uploaded == {p \in server.reports : p.blob /\ DeltasOf(p) # {}}

Contributions ==
  {p \in Uploaded : \A q \in Uploaded : job[q.job].cluster = job[p.job].cluster => q = p}

(* GlobalState.merge leaves out what was measured on another round.        *)
Fresh == {p \in Contributions : p.base = server.round}

NothingToMerge ==
  /\ server.at = "ready" /\ Fresh = {}
  /\ server' = [server EXCEPT !.at = "idle"]
  /\ UNCHANGED <<disk, blobs, job, lineage, phases, kills>>

(* The new model is written beside the old one and renamed over it.        *)
merge ==
  /\ server.at = "ready" /\ Fresh # {}
  /\ Len(lineage) < MaxModels
  /\ lineage' = Append(lineage, [round  |-> lineage[disk.weights].round + 1,
                                 from   |-> disk.weights,
                                 deltas |-> UNION {DeltasOf(p) : p \in Fresh},
                                 shares |-> Cardinality(Fresh)])
  /\ disk' = [disk EXCEPT !.weights = Len(lineage')]
  /\ server' = [server EXCEPT !.at = "replaced"]
  /\ UNCHANGED <<blobs, job, phases, kills>>

(* The momentum file is written and never renamed. *)
RollMomentum_ ==
  /\ server.at = "replaced"
  /\ server' = [server EXCEPT !.at = "rolled"]
  /\ UNCHANGED <<disk, blobs, job, lineage, phases, kills>>

RollMomentum ==
  /\ server.at = "replaced"
  /\ disk' = [disk EXCEPT !.momentum = disk.weights]
  /\ server' = [server EXCEPT !.at = "rolled"]
  /\ UNCHANGED <<blobs, job, lineage, phases, kills>>

(* The merge is not counted: the model changes under the same round. *)
SaveMeta_ ==
  /\ server.at = "rolled"
  /\ server' = [server EXCEPT !.at = "saved"]
  /\ UNCHANGED <<disk, blobs, job, lineage, phases, kills>>

SaveMeta ==
  /\ server.at = "rolled"
  /\ disk' = [disk EXCEPT !.meta.round = server.round + 1]
  /\ server' = [server EXCEPT !.at = "saved", !.round = @ + 1]
  /\ UNCHANGED <<blobs, job, lineage, phases, kills>>

(* The blob of the new round is published only after the next merge. *)
PublishMerged_ ==
  /\ server.at = "saved"
  /\ server' = [server EXCEPT !.at = "published"]
  /\ UNCHANGED <<disk, blobs, job, lineage, phases, kills>>

PublishMerged ==
  /\ server.at = "saved"
  /\ blobs' = Published
  /\ server' = [server EXCEPT !.at = "published"]
  /\ UNCHANGED <<disk, job, lineage, phases, kills>>

(* One global fewer than --keep-rounds asks for. *)
Kept_(r) == r <= server.round /\ server.round < r + KeepRounds

(* _prune keeps the last globals and the init blob, and nothing else.      *)
Kept(r) == r <= server.round /\ server.round <= r + KeepRounds

_prune ==
  /\ server.at = "published"
  /\ blobs' = [global |-> [r \in Round |-> IF Kept(r) THEN blobs.global[r] ELSE None],
               init   |-> blobs.init,
               delta  |-> [r \in Round |-> [c \in Cluster |-> {}]]]
  /\ server' = [server EXCEPT !.at = "idle"]
  /\ UNCHANGED <<disk, job, lineage, phases, kills>>
------------------------------------------------------------------------------
(* A training process.                                                     *)

(* It takes the open phase it was asked for and has not answered; one told *)
(* to seed writes its own weights as the model all others start from.      *)
TakeTask(j) ==
  /\ job[j].at = "idle"
  /\ server.at = "open" /\ j \in server.asked
  /\ j \notin {p.job : p \in server.reports}
  /\ job' = [job EXCEPT ![j].at = "fetching",
                        ![j].task = [phase |-> server.phase, config |-> RoundConfig],
                        ![j].reference = None]
  /\ UNCHANGED <<disk, blobs, server, lineage, phases, kills>>

(* BlobClient.put: a store that took it and could not say so is sent it    *)
(* again.                                                                  *)
Put(j, next) ==
  \/ job' = [job EXCEPT ![j].at = next]
  \/ UNCHANGED job

(* stream_write_full, then the upload of the init blob.                    *)
WriteInit(j) ==
  /\ job[j].at = "fetching" /\ job[j].task.config.init /\ job[j].reference = None
  /\ Len(lineage) < MaxModels
  /\ lineage' = Append(lineage, [round |-> 0, from |-> None, deltas |-> {}, shares |-> 0])
  /\ job' = [job EXCEPT ![j].reference = Len(lineage')]
  /\ UNCHANGED <<disk, blobs, server, phases, kills>>

PutInit(j) ==
  /\ job[j].at = "fetching" /\ job[j].task.config.init /\ job[j].reference # None
  /\ blobs' = [blobs EXCEPT !.init = job[j].reference]
  /\ Put(j, "training")
  /\ UNCHANGED <<disk, server, lineage, phases, kills>>

(* _fetch_global reuses the file it staged under that name before, whole   *)
(* or not.                                                                 *)
Staged(j) == job[j].cached.round = job[j].task.config.round /\ job[j].cached.model # None

Wants(j) == job[j].at = "fetching" /\ ~job[j].task.config.init

Reuse(j) ==
  /\ Wants(j) /\ Staged(j)
  /\ job' = [job EXCEPT ![j].at = "staged", ![j].reference = job[j].cached.model]
  /\ UNCHANGED <<disk, blobs, server, lineage, phases, kills>>

(* do_GET opens the file: what is read is that file, though the name be    *)
(* pruned meanwhile.                                                       *)
OpenBlob(j) ==
  /\ Wants(j) /\ ~Staged(j)
  /\ blobs.global[job[j].task.config.round] # None
  /\ job' = [job EXCEPT ![j].at = "reading",
                        ![j].reference = blobs.global[job[j].task.config.round]]
  /\ UNCHANGED <<disk, blobs, server, lineage, phases, kills>>

(* BlobClient.get renames what it read when the body ends.                 *)
Renamed(j, whole) ==
  /\ job[j].at = "reading"
  /\ job' = [job EXCEPT ![j].at = "staged",
                        ![j].cached = [round |-> job[j].task.config.round,
                                       model |-> job[j].reference, whole |-> whole]]
  /\ UNCHANGED <<disk, blobs, server, lineage, phases>>

ReadAll(j) == Renamed(j, TRUE) /\ UNCHANGED kills

(* The store is killed, or the name goes between do_GET's size and open:   *)
(* a body that ends early is taken for all of it.                          *)
ReadShort(j) ==
  /\ kills < MaxKills /\ kills' = kills + 1
  /\ Renamed(j, FALSE)

(* A reset connection: _attempt starts over.                               *)
ReadAgain(j) ==
  /\ job[j].at = "reading"
  /\ job' = [job EXCEPT ![j].at = "fetching", ![j].reference = None]
  /\ UNCHANGED <<disk, blobs, server, lineage, phases, kills>>

(* TensorFile finds out a file that was cut short, when it is applied.     *)
CutShort(j) == job[j].at = "staged" /\ ~job[j].cached.whole

(* stream_apply_global.                                                    *)
Apply(j) ==
  /\ job[j].at = "staged" /\ ~CutShort(j)
  /\ job' = [job EXCEPT ![j].at = "training"]
  /\ UNCHANGED <<disk, blobs, server, lineage, phases, kills>>

(* No such blob, a file cut short, or a store that no attempt has reached: *)
(* the fit fails, and the phase has one answer less.                       *)
FitFails(j) ==
  /\ job[j].at \in {"fetching", "uploading"} \/ CutShort(j)
  /\ job' = [job EXCEPT ![j].at = "idle", ![j].task = NoTask, ![j].reference = None,
                        ![j].delta = FALSE]
  /\ UNCHANGED <<disk, blobs, server, lineage, phases, kills>>

(* run_inner_phase; without a step there is nothing to upload.             *)
Train(j) ==
  /\ job[j].at = "training"
  /\ \E next \in {"uploading", "reporting"} :
       job' = [job EXCEPT ![j].at = next, ![j].delta = (next = "uploading")]
  /\ UNCHANGED <<disk, blobs, server, lineage, phases, kills>>

(* The upload is staged and renamed: a reader sees all of it or none; what *)
(* is refused (507) or cut short leaves nothing.                           *)
PutDelta(j) ==
  /\ job[j].at = "uploading"
  /\ blobs' = [blobs EXCEPT !.delta[job[j].task.config.round][job[j].cluster]
                 = {[of |-> job[j].reference, by |-> j]}]
  /\ Put(j, "reporting")
  /\ UNCHANGED <<disk, server, lineage, phases, kills>>

(* The endpoint takes the report when its phase is the open one's number.  *)
PostReport(j) ==
  /\ job[j].at = "reporting"
  /\ server.at # "down"
  /\ LET p == [job    |-> j,
               base   |-> job[j].task.config.round,
               seeded |-> job[j].task.config.init,
               blob   |-> job[j].delta]
     IN  server' = IF server.at = "open" /\ job[j].task.phase = server.phase
                                         /\ j \in server.asked
                   THEN [server EXCEPT !.reports = {q \in @ : q.job # j} \cup {p}]
                   ELSE server
  /\ job' = [job EXCEPT ![j].at = "idle", ![j].task = NoTask, ![j].reference = None,
                        ![j].delta = FALSE]
  /\ UNCHANGED <<disk, blobs, lineage, phases, kills>>

(* Killed at walltime and requeued: the staged files are found again only  *)
(* by name, and the name is forgotten.                                     *)
Idle(c) == [cluster |-> c, at |-> "idle", task |-> NoTask, reference |-> None, delta |-> FALSE,
               cached |-> [round |-> 0, model |-> None, whole |-> TRUE]]

CrashJob(j) ==
  /\ job[j].at # "dead" /\ kills < MaxKills
  /\ kills' = kills + 1
  /\ job' = [job EXCEPT ![j] = [Idle(job[j].cluster) EXCEPT !.at = "dead"]]
  /\ UNCHANGED <<disk, blobs, server, lineage, phases>>

Requeue(j) ==
  /\ job[j].at = "dead"
  /\ job' = [job EXCEPT ![j].at = "idle"]
  /\ UNCHANGED <<disk, blobs, server, lineage, phases, kills>>
------------------------------------------------------------------------------
Init ==
  /\ disk = [weights |-> None, momentum |-> None, meta |-> [round |-> 0, saved |-> FALSE]]
  /\ blobs = [global |-> [r \in Round |-> None], init |-> None,
              delta  |-> [r \in Round |-> [c \in Cluster |-> {}]]]
  /\ server = Load
  /\ \E claim \in [Job -> Cluster] : job = [j \in Job |-> Idle(claim[j])]
  /\ lineage = <<>>
  /\ phases = 0
  /\ kills = 0

Serve ==
  \/ \E asked \in SUBSET Job : configure_fit(asked)
  \/ ClosePhase \/ SkipSeed \/ initialise_from_file \/ SaveSeed
  \/ PublishSeed \/ NothingToMerge \/ merge \/ RollMomentum \/ SaveMeta
  \/ PublishMerged \/ _prune

Fit(j) ==
  \/ TakeTask(j) \/ WriteInit(j) \/ PutInit(j)
  \/ Reuse(j) \/ OpenBlob(j) \/ ReadAll(j) \/ ReadShort(j) \/ ReadAgain(j)
  \/ Apply(j) \/ FitFails(j) \/ Train(j) \/ PutDelta(j) \/ PostReport(j)

Next ==
  \/ Serve \/ Kill \/ Restart
  \/ \E j \in Job : Fit(j) \/ CrashJob(j) \/ Requeue(j)

Spec == Init /\ [][Next]_vars
------------------------------------------------------------------------------
(* Every record has its type.                                              *)
ModelTypeOK ==
  /\ disk \in [weights : Model \cup {None}, momentum : Model \cup {None},
               meta : [round : Round, saved : BOOLEAN]]
  /\ blobs \in [global : [Round -> Model \cup {None}], init : Model \cup {None},
                delta : [Round -> [Cluster -> SUBSET Delta]]]
  /\ server.at \in Step /\ server.round \in Round /\ server.keyed \in BOOLEAN
  /\ server.phase \in 0 .. MaxPhases
  /\ server.asked \in SUBSET Job /\ server.reports \in SUBSET Report
  /\ \A j \in Job : /\ job[j].cluster \in Cluster /\ job[j].at \in JobStep
                    /\ job[j].task \in Task
                    /\ job[j].reference \in Model \cup {None}
                    /\ job[j].delta \in BOOLEAN
                    /\ job[j].cached \in [round : Round, model : Model \cup {None}, whole : BOOLEAN]
  /\ Len(lineage) <= MaxModels

(* "A delta is only meaningful against the global weights it was derived    *)
(* from" (globalstate.py): whatever was merged into a model was measured   *)
(* on that model, though reports outlive phases and servers and only the   *)
(* round they claim is compared; and it was counted once, though two       *)
(* processes may report as one cluster and write one file.  Not so for the *)
(* first merge of a run that a late seed overtook (README).                *)
MergesMeetTheirBase ==
  \A v \in DOMAIN lineage :
    /\ Cardinality(lineage[v].deltas) = lineage[v].shares
    /\ lineage[v].round > 1 => \A d \in lineage[v].deltas : d.of = lineage[v].from

(* Between rounds the three files agree: the metadata count the merges     *)
(* that are in the weights, and the momentum is that of the last one.      *)
FilesAgree ==
  server.at \in {"idle", "open", "closed", "ready"} /\ initialised =>
    /\ server.round = disk.meta.round
    /\ lineage[disk.weights].round = server.round
    /\ disk.momentum = IF server.round = 0 THEN None ELSE disk.weights

(* A cluster told to train is told to fetch a blob that is there and is    *)
(* the current model.                                                      *)
ServedIsCurrent ==
  server.at = "open" /\ initialised => blobs.global[server.round] = disk.weights

(* "a cluster that was mid-download when the round advanced can still      *)
(* finish it" (strategy._prune), and finds the model of the round it was   *)
(* told.                                                                   *)
DownloadsFinish ==
  \A j \in Job :
    LET r == job[j].task.config.round IN
    job[j].at = "fetching" /\ ~job[j].task.config.init
      /\ server.at # "down" /\ server.round <= r + KeepRounds
      => blobs.global[r] # None /\ lineage[blobs.global[r]].round = r

(* The model a run is in the middle of is never exchanged for another:     *)
(* only a merge into it replaces it.                                       *)
ModelIsKept ==
  [][disk.meta.saved =>
       \/ disk'.weights = disk.weights
       \/ lineage'[disk'.weights].from = disk.weights]_vars
==============================================================================
