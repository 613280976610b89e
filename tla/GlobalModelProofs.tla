------------------------- MODULE GlobalModelProofs -------------------------
(***************************************************************************)
(* Theorems about GlobalModel: what the three files of the global state,   *)
(* the blobs and the training processes owe each other, whatever order the *)
(* processes take their steps in.                                          *)
(*                                                                         *)
(* The files are renamed one after the other.  A server killed between the *)
(* rename of the model and that of the metadata comes back with a model    *)
(* that its round does not count, and one killed before it links the model *)
(* never links it: the theorems that need it say so in a hypothesis on     *)
(* KilledAt, the moments at which a kill is considered.                    *)
(***************************************************************************)
EXTENDS GlobalModel, SequenceTheorems, FiniteSetTheorems, TLAPS

\* No kill between the renames of one merge.
FilesWritten == KilledAt \cap {"replaced", "rolled"} = {}

\* Nor before the new model is linked in the blob store.
ModelLinked == KilledAt \cap {"seeded", "saved"} = {}

-----------------------------------------------------------------------------
(* The inductive invariant                                                 *)

Born  == 0 .. Len(lineage)      \* the models there are, and None

Entry == [round : Nat, from : Nat, deltas : SUBSET Delta, shares : Nat]

Server == [at : Step, round : Round, keyed : BOOLEAN, phase : 0 .. MaxPhases,
           asked : SUBSET Job, reports : SUBSET Report]

Process == [cluster : Cluster, at : JobStep, task : Task, reference : Born, delta : BOOLEAN,
            cached : [round : Round, model : Born, whole : BOOLEAN]]

Typed ==
    /\ lineage \in Seq(Entry) /\ Len(lineage) <= MaxModels
    /\ disk \in [weights : Born, momentum : Born, meta : [round : Round, saved : BOOLEAN]]
    /\ blobs \in [global : [Round -> Born], init : Born,
                  delta : [Round -> [Cluster -> SUBSET Delta]]]
    /\ server \in Server
    /\ job \in [Job -> Process]
    /\ phases \in 0 .. MaxPhases /\ server.phase <= phases

RoundOf(v) == lineage[v].round

\* The metadata never run ahead of the weights; until they are saved, the
\* model on disk is a seed and the server is at round 0.
Counted ==
    /\ server.round = disk.meta.round /\ server.keyed = disk.meta.saved
    /\ disk.meta.saved => disk.weights # None
    /\ ~disk.meta.saved =>
         /\ server.round = 0
         /\ server.at \in {"idle", "open", "closed", "seeding", "down"}
    /\ server.at = "seeding" =>
         ~disk.meta.saved /\ disk.weights # None /\ RoundOf(disk.weights) = 0
    /\ disk.weights # None => server.round <= RoundOf(disk.weights)
    /\ server.at \in {"replaced", "rolled"} => server.round < RoundOf(disk.weights)
    /\ \A v \in DOMAIN lineage : RoundOf(v) < v

\* A seed is a model of round 0, and whoever says it uploaded one did.
Seeds ==
    /\ blobs.init # None => RoundOf(blobs.init) = 0
    /\ \A j \in Job :
         LET p == job[j] IN
         /\ p.at = "fetching" /\ p.task.config.init /\ p.reference # None => RoundOf(p.reference) = 0
         /\ p.at \in {"training", "uploading", "reporting"} /\ p.task.config.init => blobs.init # None
         /\ p.at \in {"reading", "staged"} => ~p.task.config.init
         /\ p.at \in {"reading", "staged", "training", "uploading"} => p.reference # None
         /\ p.at \notin {"idle", "dead"} /\ ~p.task.config.init => disk.meta.saved
    /\ \A p \in server.reports :
         /\ p.seeded => blobs.init # None
         /\ ~p.seeded => disk.meta.saved
    /\ server.at = "closed" => server.reports # {}

\* Between merges the weights are of the round that the metadata count.
Agree ==
    /\ disk.meta.saved /\ server.at \notin {"replaced", "rolled"} =>
         /\ RoundOf(disk.weights) = server.round
         /\ disk.momentum = IF server.round = 0 THEN None ELSE disk.weights
    /\ server.at \in {"replaced", "rolled"} => RoundOf(disk.weights) = server.round + 1
    /\ server.at = "rolled" => disk.momentum = disk.weights

\* Rounds that the blob store has seen.
Linked(r) == r < server.round \/ (r = server.round /\ server.at \notin {"seeded", "saved"})

\* No model is linked before its round.
NotBefore ==
    /\ ~disk.meta.saved \/ server.at = "seeded" => \A r \in Round : blobs.global[r] = None
    /\ \A r \in Round :
         r > server.round \/ (r = server.round /\ server.at = "saved") => blobs.global[r] = None

\* The models of the last rounds are linked.
Available ==
    /\ disk.meta.saved /\ server.at \in {"idle", "open", "closed", "ready", "published", "down"} =>
         blobs.global[server.round] = disk.weights
    /\ disk.meta.saved =>
         \A r \in Round : Linked(r) /\ server.round <= r + KeepRounds =>
             blobs.global[r] # None /\ RoundOf(blobs.global[r]) = r
    /\ \A j \in Job :
         job[j].at \in {"fetching", "reading"} /\ ~job[j].task.config.init =>
             disk.meta.saved /\ Linked(job[j].task.config.round)

\* The model of the server's round.
Current == IF server.at \in {"replaced", "rolled"} THEN lineage[disk.weights].from ELSE disk.weights

\* Nothing is of a later round than the server's; seeds are of round 0; and a
\* delta is its cluster's only one.
Earlier ==
    /\ \A j \in Job :
         /\ job[j].task.config.round <= server.round
         /\ job[j].task.config.init => job[j].task.config.round = 0
         /\ job[j].cached.round <= server.round
    /\ \A r \in Round, c \in Cluster :
         /\ r > server.round => blobs.delta[r][c] = {}
         /\ \A d, e \in blobs.delta[r][c] : job[d.by].cluster = c /\ d = e

\* Whatever says that it is of the server's round is: the blob, what a process
\* has read or staged, and the deltas.
Measured ==
    server.round >= 1 =>
        /\ blobs.global[server.round] \in {None, Current}
        /\ \A j \in Job :
             /\ job[j].at \in {"reading", "staged", "training", "uploading"}
                  /\ job[j].task.config.round = server.round => job[j].reference = Current
             /\ job[j].cached.round = server.round => job[j].cached.model \in {None, Current}
        /\ \A c \in Cluster : \A d \in blobs.delta[server.round][c] : d.of = Current

-----------------------------------------------------------------------------
(* Types                                                                   *)

LEMMA Bounds ==
  ASSUME Typed
  PROVE  /\ Len(lineage) \in Nat /\ MaxModels \in Nat /\ MaxPhases \in Nat /\ KeepRounds \in Nat
         /\ Born \subseteq Model \cup {None} /\ None \in Born
         /\ DOMAIN lineage = Born \ {None}
  <1>1. /\ MaxModels \in Nat /\ MaxPhases \in Nat /\ KeepRounds \in Nat
        /\ Len(lineage) \in Nat /\ DOMAIN lineage = 1 .. Len(lineage) /\ Len(lineage) <= MaxModels
    BY ModelAssumption, LenProperties DEF Typed
  <1> QED BY <1>1 DEF Born, Model, None

\* A model that is made is the next number, and the others stay what they were.
LEMMA Made ==
  ASSUME Typed, NEW e \in Entry, Len(lineage) < MaxModels, lineage' = Append(lineage, e)
  PROVE  /\ lineage' \in Seq(Entry) /\ Len(lineage') = Len(lineage) + 1 /\ Len(lineage') <= MaxModels
         /\ Born' = Born \cup {Len(lineage')} /\ Len(lineage') \notin Born
         /\ DOMAIN lineage' = DOMAIN lineage \cup {Len(lineage')}
         /\ \A v \in DOMAIN lineage : lineage'[v] = lineage[v]
         /\ lineage'[Len(lineage')] = e
  <1>1. /\ lineage \in Seq(Entry) /\ Len(lineage) \in Nat /\ MaxModels \in Nat
        /\ DOMAIN lineage = 1 .. Len(lineage)
    BY Bounds, LenProperties DEF Typed
  <1>2. /\ Append(lineage, e) \in Seq(Entry)
        /\ Len(Append(lineage, e)) = Len(lineage) + 1
        /\ DOMAIN Append(lineage, e) = 1 .. Len(lineage) + 1
        /\ \A v \in 1 .. Len(lineage) : Append(lineage, e)[v] = lineage[v]
        /\ Append(lineage, e)[Len(lineage) + 1] = e
    BY <1>1, AppendProperties, LenProperties
  <1> QED BY <1>1, <1>2 DEF Born

\* What the steps of a process do to it.
Takes(q, p) ==
    /\ q.at = "idle" /\ server.at = "open"
    /\ p.at = "fetching" /\ p.task.config = RoundConfig /\ p.reference = None /\ p.cached = q.cached
    /\ UNCHANGED <<disk, blobs, server, lineage>>

Makes(q, p) ==
    /\ q.at = "fetching" /\ q.task.config.init
    /\ Len(lineage) < MaxModels
    /\ lineage' = Append(lineage, [round |-> 0, from |-> None, deltas |-> {}, shares |-> 0])
    /\ p.at = "fetching" /\ p.task = q.task /\ p.reference = Len(lineage') /\ p.cached = q.cached
    /\ UNCHANGED <<disk, blobs, server>>

Offers(q, p) ==
    /\ q.at = "fetching" /\ q.task.config.init /\ q.reference # None
    /\ blobs' = [blobs EXCEPT !.init = q.reference]
    /\ p.at \in {"fetching", "training"}
    /\ p.task = q.task /\ p.reference = q.reference /\ p.cached = q.cached
    /\ UNCHANGED <<disk, server, lineage>>

Gets(q, p) ==
    /\ q.at = "fetching" /\ ~q.task.config.init
    /\ p.at \in {"reading", "staged"} /\ p.task = q.task /\ p.cached = q.cached
    /\ p.reference # None
    /\ \/ p.reference = blobs.global[q.task.config.round]
       \/ q.cached.round = q.task.config.round /\ p.reference = q.cached.model
    /\ UNCHANGED <<disk, blobs, server, lineage>>

Reads(q, p) ==
    /\ q.at = "reading" /\ p.task = q.task
    /\ \/ /\ p.at = "staged" /\ p.reference = q.reference
          /\ p.cached.round = q.task.config.round /\ p.cached.model = q.reference
       \/ p.at = "fetching" /\ p.reference = None /\ p.cached = q.cached
    /\ UNCHANGED <<disk, blobs, server, lineage>>

Works(q, p) ==
    /\ \/ q.at = "staged" /\ p.at = "training"
       \/ q.at = "training" /\ p.at \in {"uploading", "reporting"}
    /\ p.task = q.task /\ p.reference = q.reference /\ p.cached = q.cached
    /\ UNCHANGED <<disk, blobs, server, lineage>>

Uploads(j, q, p) ==
    /\ q.at = "uploading" /\ q.reference # None /\ p.at \in {"uploading", "reporting"}
    /\ blobs' = [blobs EXCEPT !.delta[q.task.config.round][q.cluster] =
                   {[of |-> q.reference, by |-> j]}]
    /\ p.task = q.task /\ p.reference = q.reference /\ p.cached = q.cached
    /\ UNCHANGED <<disk, server, lineage>>

ReportOf(j, q) ==
    [job |-> j, base |-> q.task.config.round, seeded |-> q.task.config.init, blob |-> q.delta]

Stops(j, q, p) ==
    /\ p.at \in {"idle", "dead"} /\ p.task \in {q.task, NoTask}
    /\ p.cached = q.cached \/ p.cached = [round |-> 0, model |-> None, whole |-> TRUE]
    /\ \/ server' = server
       \/ /\ q.at = "reporting"
          /\ server' = [server EXCEPT !.reports = {r \in @ : r.job # j} \cup {ReportOf(j, q)}]
    /\ UNCHANGED <<disk, blobs, lineage>>

Moves(j, q, p) ==
    \/ Takes(q, p) \/ Makes(q, p) \/ Offers(q, p) \/ Gets(q, p) \/ Reads(q, p)
    \/ Works(q, p) \/ Uploads(j, q, p) \/ Stops(j, q, p)

JobActs(j) == Fit(j) \/ CrashJob(j) \/ Requeue(j)

\* Every step of a process is one of them, and leaves a process.
LEMMA ProcessMoves ==
  ASSUME Typed, Counted, Seeds, NEW j \in Job, JobActs(j)
  PROVE  \E p \in Process' :
           job' = [job EXCEPT ![j] = p] /\ p.cluster = job[j].cluster /\ Moves(j, job[j], p)
  <1> DEFINE q == job[j]
  <1>0. /\ q \in Process /\ job \in [Job -> Process] /\ None \in Born /\ NoTask \in Task
        /\ q.at \in JobStep /\ q.task \in Task /\ q.task.config \in Config /\ q.delta \in BOOLEAN
        /\ q.task.config.round \in Round /\ q.task.config.init \in BOOLEAN
    BY Bounds DEF Typed, Process, Task, Config, NoTask, Round
  <1>1. CASE TakeTask(j)
    <2> DEFINE t == [phase |-> server.phase, config |-> RoundConfig]
               p == [q EXCEPT !.at = "fetching", !.task = t, !.reference = None]
    <2>1. t \in Task
      BY Bounds DEF Typed, Task, Config, RoundConfig, Server, initialised
    <2>2. t.config = RoundConfig
      OBVIOUS
    <2>3. job' = [job EXCEPT ![j] = p] /\ q.at = "idle" /\ server.at = "open"
          /\ UNCHANGED <<disk, blobs, server, lineage>>
      BY <1>0, <1>1 DEF TakeTask
    <2> HIDE DEF t, q
    <2>4. p \in Process /\ p.at = "fetching" /\ p.task = t /\ p.reference = None
          /\ p.cached = q.cached /\ p.cluster = q.cluster
      BY <1>0, <2>1 DEF Process, JobStep
    <2>5. Process' = Process
      BY <2>3 DEF Process, Born
    <2> QED BY <2>2, <2>3, <2>4, <2>5 DEF Moves, Takes, q
  <1>2. CASE WriteInit(j)
    <2> DEFINE e == [round |-> 0, from |-> None, deltas |-> {}, shares |-> 0]
               p == [q EXCEPT !.reference = Len(lineage')]
    <2>1. e \in Entry
      BY DEF Entry, None
    <2>2. /\ lineage' = Append(lineage, e) /\ Len(lineage) < MaxModels
          /\ job' = [job EXCEPT ![j] = p] /\ q.at = "fetching" /\ q.task.config.init
          /\ UNCHANGED <<disk, blobs, server>>
      BY <1>0, <1>2 DEF WriteInit
    <2>3. Born \subseteq Born' /\ Len(lineage') \in Born'
      BY <2>1, <2>2, Made
    <2> HIDE DEF e, q
    <2>4. /\ p \in Process' /\ p.at = q.at /\ p.task = q.task /\ p.reference = Len(lineage')
          /\ p.cached = q.cached /\ p.cluster = q.cluster
      BY <1>0, <2>3 DEF Process
    <2> QED BY <2>2, <2>4 DEF Moves, Makes, q, e
  <1>3. CASE PutInit(j)
    <2> DEFINE p == [q EXCEPT !.at = "training"]
    <2>1. /\ q.at = "fetching" /\ q.task.config.init /\ q.reference # None
          /\ blobs' = [blobs EXCEPT !.init = q.reference]
          /\ job' = [job EXCEPT ![j] = p] \/ job' = job
          /\ UNCHANGED <<disk, server, lineage>>
      BY <1>0, <1>3 DEF PutInit, Put
    <2> HIDE DEF q
    <2>2. /\ p \in Process /\ p.at = "training" /\ p.task = q.task /\ p.reference = q.reference
          /\ p.cached = q.cached /\ p.cluster = q.cluster
      BY <1>0 DEF Process, JobStep
    <2>3. Process' = Process
      BY <2>1 DEF Process, Born
    <2> HIDE DEF p
    <2>4. Offers(q, p) /\ Offers(q, q)
      BY <2>1, <2>2 DEF Offers
    <2>5. job = [job EXCEPT ![j] = q]
      BY <1>0 DEF q
    <2> QED BY <1>0, <2>1, <2>2, <2>3, <2>4, <2>5 DEF Moves, q
  <1>4. CASE Reuse(j)
    <2> DEFINE p == [q EXCEPT !.at = "staged", !.reference = q.cached.model]
    <2>1. /\ q.at = "fetching" /\ ~q.task.config.init
          /\ q.cached.round = q.task.config.round /\ q.cached.model # None
          /\ job' = [job EXCEPT ![j] = p] /\ UNCHANGED <<disk, blobs, server, lineage>>
      BY <1>0, <1>4 DEF Reuse, Wants, Staged
    <2> HIDE DEF q
    <2>2. /\ p \in Process /\ p.at = "staged" /\ p.task = q.task /\ p.reference = q.cached.model
          /\ p.cached = q.cached /\ p.cluster = q.cluster
      BY <1>0 DEF Process, JobStep
    <2>3. Process' = Process
      BY <2>1 DEF Process, Born
    <2> QED BY <2>1, <2>2, <2>3 DEF Moves, Gets, q
  <1>5. CASE OpenBlob(j)
    <2> DEFINE m == blobs.global[q.task.config.round]
               p == [q EXCEPT !.at = "reading", !.reference = m]
    <2>1. /\ q.at = "fetching" /\ ~q.task.config.init /\ m # None
          /\ job' = [job EXCEPT ![j] = p] /\ UNCHANGED <<disk, blobs, server, lineage>>
      BY <1>0, <1>5 DEF OpenBlob, Wants
    <2>2. m \in Born
      BY <1>0 DEF Typed
    <2> HIDE DEF q, m
    <2>3. /\ p \in Process /\ p.at = "reading" /\ p.task = q.task /\ p.reference = m
          /\ p.cached = q.cached /\ p.cluster = q.cluster
      BY <1>0, <2>2 DEF Process, JobStep
    <2>4. Process' = Process
      BY <2>1 DEF Process, Born
    <2> QED BY <2>1, <2>3, <2>4 DEF Moves, Gets, q, m
  <1>6. CASE \E whole \in BOOLEAN : Renamed(j, whole)
    <2>0. PICK whole \in BOOLEAN : Renamed(j, whole)
      BY <1>6
    <2> DEFINE n == [round |-> q.task.config.round, model |-> q.reference, whole |-> whole]
               p == [q EXCEPT !.at = "staged", !.cached = n]
    <2>1. /\ q.at = "reading"
          /\ job' = [job EXCEPT ![j] = p] /\ UNCHANGED <<disk, blobs, server, lineage>>
      BY <1>0, <2>0 DEF Renamed
    <2>2. n \in [round : Round, model : Born, whole : BOOLEAN]
          /\ n.round = q.task.config.round /\ n.model = q.reference
      BY <1>0 DEF Process
    <2> HIDE DEF q, n
    <2>3. /\ p \in Process /\ p.at = "staged" /\ p.task = q.task /\ p.reference = q.reference
          /\ p.cached = n /\ p.cluster = q.cluster
      BY <1>0, <2>2 DEF Process, JobStep
    <2>4. Process' = Process
      BY <2>1 DEF Process, Born
    <2> QED BY <2>1, <2>2, <2>3, <2>4 DEF Moves, Reads, q
  <1>7. CASE ReadAgain(j)
    <2> DEFINE p == [q EXCEPT !.at = "fetching", !.reference = None]
    <2>1. /\ q.at = "reading"
          /\ job' = [job EXCEPT ![j] = p] /\ UNCHANGED <<disk, blobs, server, lineage>>
      BY <1>0, <1>7 DEF ReadAgain
    <2> HIDE DEF q
    <2>2. /\ p \in Process /\ p.at = "fetching" /\ p.task = q.task /\ p.reference = None
          /\ p.cached = q.cached /\ p.cluster = q.cluster
      BY <1>0 DEF Process, JobStep
    <2>3. Process' = Process
      BY <2>1 DEF Process, Born
    <2> QED BY <2>1, <2>2, <2>3 DEF Moves, Reads, q
  <1>8. CASE Apply(j)
    <2> DEFINE p == [q EXCEPT !.at = "training"]
    <2>1. /\ q.at = "staged"
          /\ job' = [job EXCEPT ![j] = p] /\ UNCHANGED <<disk, blobs, server, lineage>>
      BY <1>0, <1>8 DEF Apply
    <2> HIDE DEF q
    <2>2. /\ p \in Process /\ p.at = "training" /\ p.task = q.task /\ p.reference = q.reference
          /\ p.cached = q.cached /\ p.cluster = q.cluster
      BY <1>0 DEF Process, JobStep
    <2>3. Process' = Process
      BY <2>1 DEF Process, Born
    <2> QED BY <2>1, <2>2, <2>3 DEF Moves, Works, q
  <1>9. CASE Train(j)
    <2>0. PICK next \in {"uploading", "reporting"} :
            job' = [job EXCEPT ![j].at = next, ![j].delta = (next = "uploading")]
      BY <1>9 DEF Train
    <2> DEFINE p == [q EXCEPT !.at = next, !.delta = (next = "uploading")]
    <2>1. /\ q.at = "training"
          /\ job' = [job EXCEPT ![j] = p] /\ UNCHANGED <<disk, blobs, server, lineage>>
      BY <1>0, <1>9, <2>0 DEF Train
    <2> HIDE DEF q
    <2>2. /\ p \in Process /\ p.at = next /\ p.task = q.task /\ p.reference = q.reference
          /\ p.cached = q.cached /\ p.cluster = q.cluster
      BY <1>0 DEF Process, JobStep
    <2>3. Process' = Process
      BY <2>1 DEF Process, Born
    <2> QED BY <2>1, <2>2, <2>3 DEF Moves, Works, q
  <1>10. CASE PutDelta(j)
    <2> DEFINE p == [q EXCEPT !.at = "reporting"]
    <2>1. /\ q.at = "uploading"
          /\ blobs' = [blobs EXCEPT !.delta[q.task.config.round][q.cluster] =
                         {[of |-> q.reference, by |-> j]}]
          /\ job' = [job EXCEPT ![j] = p] \/ job' = job
          /\ q.reference # None /\ UNCHANGED <<disk, server, lineage>>
      BY <1>0, <1>10 DEF PutDelta, Put, Seeds
    <2> HIDE DEF q
    <2>2. /\ p \in Process /\ p.at = "reporting" /\ p.task = q.task /\ p.reference = q.reference
          /\ p.cached = q.cached /\ p.cluster = q.cluster
      BY <1>0 DEF Process, JobStep
    <2>3. Process' = Process
      BY <2>1 DEF Process, Born
    <2> HIDE DEF p
    <2>4. Uploads(j, q, p) /\ Uploads(j, q, q)
      BY <2>1, <2>2 DEF Uploads
    <2>5. job = [job EXCEPT ![j] = q]
      BY <1>0 DEF q
    <2> QED BY <1>0, <2>1, <2>2, <2>3, <2>4, <2>5 DEF Moves, q
  <1>11. CASE PostReport(j) \/ FitFails(j)
    <2> DEFINE p == [q EXCEPT !.at = "idle", !.task = NoTask, !.reference = None, !.delta = FALSE]
    <2>1. /\ job' = [job EXCEPT ![j] = p] /\ UNCHANGED <<disk, blobs, lineage>>
          /\ \/ server' = server
             \/ /\ q.at = "reporting"
                /\ server' = [server EXCEPT !.reports = {r \in @ : r.job # j} \cup {ReportOf(j, q)}]
      BY <1>0, <1>11 DEF PostReport, FitFails, ReportOf
    <2> HIDE DEF q
    <2>2. /\ p \in Process /\ p.at = "idle" /\ p.task = NoTask
          /\ p.cached = q.cached /\ p.cluster = q.cluster
      BY <1>0 DEF Process, JobStep
    <2>3. Process' = Process
      BY <2>1 DEF Process, Born
    <2> HIDE DEF p
    <2> QED BY <2>1, <2>2, <2>3 DEF Moves, Stops, q
  <1>12. CASE CrashJob(j)
    <2> DEFINE i == Idle(q.cluster)
               p == [i EXCEPT !.at = "dead"]
    <2>1. job' = [job EXCEPT ![j] = p] /\ UNCHANGED <<disk, blobs, server, lineage>>
      BY <1>0, <1>12 DEF CrashJob
    <2>2. q.cluster \in Cluster
      BY <1>0 DEF Process
    <2> DEFINE n == [round |-> 0, model |-> None, whole |-> TRUE]
    <2>5. n \in [round : Round, model : Born, whole : BOOLEAN]
      BY <1>0, Bounds DEF Round
    <2>6. /\ i \in Process /\ i.task = NoTask /\ i.cluster = q.cluster /\ i.cached = n
      <3>1. i = [cluster |-> q.cluster, at |-> "idle", task |-> NoTask, reference |-> None,
                 delta |-> FALSE, cached |-> n]
        BY DEF Idle
      <3> HIDE DEF q, n, i
      <3> QED BY <1>0, <2>2, <2>5, <3>1 DEF Process, JobStep
    <2> HIDE DEF q, n, i
    <2>3. /\ p \in Process /\ p.at = "dead" /\ p.task = NoTask /\ p.cluster = q.cluster
          /\ p.cached = n
      BY <2>6 DEF Process, JobStep
    <2>4. Process' = Process
      BY <2>1 DEF Process, Born
    <2> QED BY <2>1, <2>3, <2>4 DEF Moves, Stops, q, n, i
  <1>13. CASE Requeue(j)
    <2> DEFINE p == [q EXCEPT !.at = "idle"]
    <2>1. job' = [job EXCEPT ![j] = p] /\ UNCHANGED <<disk, blobs, server, lineage>>
      BY <1>0, <1>13 DEF Requeue
    <2> HIDE DEF q
    <2>2. /\ p \in Process /\ p.at = "idle" /\ p.task = q.task
          /\ p.cached = q.cached /\ p.cluster = q.cluster
      BY <1>0 DEF Process, JobStep
    <2>3. Process' = Process
      BY <2>1 DEF Process, Born
    <2> HIDE DEF p
    <2> QED BY <2>1, <2>2, <2>3 DEF Moves, Stops, q
  <1> QED BY <1>1, <1>2, <1>3, <1>4, <1>5, <1>6, <1>7, <1>8, <1>9, <1>10, <1>11, <1>12, <1>13
          DEF JobActs, Fit, ReadAll, ReadShort

\* Every fresh report is of a process of its own.
LEMMA FreshFinite ==
  ASSUME Typed
  PROVE  IsFiniteSet(Fresh) /\ Cardinality(Fresh) \in Nat
  <1> DEFINE f == [p \in Fresh |-> p.job]
  <1>1. \A p, q \in Fresh : job[p.job].cluster = job[q.job].cluster => p = q
    BY DEF Fresh, Contributions
  <1>2. \A p \in Fresh : p.job \in Job
    BY DEF Fresh, Contributions, Uploaded, Typed, Server, Report
  <1>3. f \in Injection(Fresh, Job)
    BY <1>1, <1>2 DEF Injection, IsInjective
  <1> HIDE DEF f
  <1>4. IsFiniteSet(Fresh)
    BY <1>3, FS_Injection, ModelAssumption
  <1> QED BY <1>4, FS_CardinalityType

\* What a merge writes down.
MergeEntry ==
    [round  |-> RoundOf(disk.weights) + 1, from |-> disk.weights,
     deltas |-> UNION {DeltasOf(p) : p \in Fresh}, shares |-> Cardinality(Fresh)]

LEMMA MergeFacts ==
  ASSUME Typed, Counted, merge
  PROVE  /\ MergeEntry \in Entry /\ lineage' = Append(lineage, MergeEntry)
         /\ Len(lineage) < MaxModels /\ server.at = "ready" /\ disk.meta.saved
         /\ disk.weights \in DOMAIN lineage /\ Born \subseteq Born'
         /\ disk'.weights = Len(lineage') /\ disk'.momentum = disk.momentum
         /\ disk'.meta = disk.meta
         /\ disk' \in [weights : Born', momentum : Born', meta : [round : Round, saved : BOOLEAN]]
         /\ server' \in Server /\ server'.at = "replaced" /\ server'.round = server.round
         /\ server'.keyed = server.keyed /\ server'.reports = server.reports
         /\ server'.phase = server.phase
         /\ UNCHANGED <<blobs, job, phases>>
  <1>1. /\ server.at = "ready" /\ disk.meta.saved /\ disk.weights # None /\ disk.weights \in Born
        /\ Len(lineage) < MaxModels
    BY DEF merge, Counted, Typed
  <1>2. disk.weights \in DOMAIN lineage /\ disk.weights \in Nat
    BY <1>1, Bounds DEF Born
  <1>3. lineage[disk.weights] \in Entry
    BY <1>2, LenProperties DEF Typed
  <1>4. \A p \in Fresh : DeltasOf(p) \subseteq Delta
    <2>1. ASSUME NEW p \in Fresh
          PROVE  DeltasOf(p) \subseteq Delta
      <3>1. p \in Report
        BY DEF Fresh, Contributions, Uploaded, Typed, Server
      <3>2. p.base \in Round /\ job[p.job].cluster \in Cluster
        BY <3>1 DEF Report, Typed, Process
      <3> QED BY <3>2 DEF DeltasOf, Typed
    <2> QED BY <2>1
  <1>5. MergeEntry \in Entry
    <2>1. UNION {DeltasOf(p) : p \in Fresh} \in SUBSET Delta
      BY <1>4
    <2>2. RoundOf(disk.weights) + 1 \in Nat
      BY <1>3 DEF RoundOf, Entry
    <2> QED BY <1>2, <2>1, <2>2, FreshFinite DEF MergeEntry, Entry
  <1>6. lineage' = Append(lineage, MergeEntry)
    BY DEF merge, MergeEntry, RoundOf
  <1>7. Born' = Born \cup {Len(lineage')}
    BY <1>1, <1>5, <1>6, Made
  <1> QED BY <1>1, <1>2, <1>5, <1>6, <1>7 DEF merge, Typed, Server, Step

\* A step of a process changes nothing of the server but the reports, nothing
\* on its disk, and no model that is there.
LEMMA Frame ==
  ASSUME Typed, NEW j \in Job, NEW p, Moves(j, job[j], p)
  PROVE  /\ disk' = disk
         /\ server'.at = server.at /\ server'.round = server.round /\ server'.keyed = server.keyed
         /\ server'.phase = server.phase /\ server'.asked = server.asked
         /\ server' \in Server
         /\ lineage' \in Seq(Entry) /\ Len(lineage') <= MaxModels /\ Born \subseteq Born'
         /\ \A v \in DOMAIN lineage : v \in DOMAIN lineage' /\ lineage'[v] = lineage[v]
         /\ \A v \in DOMAIN lineage' :
              v \in DOMAIN lineage
              \/ lineage'[v] = [round |-> 0, from |-> None, deltas |-> {}, shares |-> 0]
  <1> DEFINE e == [round |-> 0, from |-> None, deltas |-> {}, shares |-> 0]
  <1>1. e \in Entry
    BY DEF Entry, None
  <1>2. disk' = disk
    BY DEF Moves, Takes, Makes, Offers, Gets, Reads, Works, Uploads, Stops
  <1>3. server' \in Server /\ UNCHANGED <<server.at, server.round, server.keyed,
                                          server.phase, server.asked>>
    <2>1. CASE server' = server
      BY <2>1 DEF Typed
    <2>2. CASE server' # server
      <3> DEFINE r == ReportOf(j, job[j])
      <3>1. r \in Report
        BY DEF Report, ReportOf, Typed, Process, Task, Config
      <3> HIDE DEF r
      <3>2. server' = [server EXCEPT !.reports = {k \in @ : k.job # j} \cup {r}]
        BY <2>2 DEF Moves, Takes, Makes, Offers, Gets, Reads, Works, Uploads, Stops, r
      <3> QED BY <3>1, <3>2 DEF Typed, Server
    <2> QED BY <2>1, <2>2
  <1>4. lineage' = lineage \/ (lineage' = Append(lineage, e) /\ Len(lineage) < MaxModels)
    BY DEF Moves, Takes, Makes, Offers, Gets, Reads, Works, Uploads, Stops
  <1> HIDE DEF e
  <1>5. CASE lineage' = lineage
    BY <1>2, <1>3, <1>5 DEF Typed, Born
  <1>6. CASE lineage' = Append(lineage, e) /\ Len(lineage) < MaxModels
    BY <1>1, <1>2, <1>3, <1>6, Made DEF e
  <1> QED BY <1>4, <1>5, <1>6

\* Every record keeps its type.
LEMMA TypedStep ==
  ASSUME Typed, Counted, Seeds, [Next]_vars
  PROVE  Typed'
  <1>0. /\ MaxModels \in Nat /\ MaxPhases \in Nat /\ Len(lineage) \in Nat
        /\ Born \subseteq Model \cup {None} /\ None \in Born
    BY Bounds
  <1>1. ASSUME NEW asked \in SUBSET Job, configure_fit(asked)
        PROVE  Typed'
    <2>1. server.phase + 1 \in 0 .. MaxPhases /\ server.phase + 1 <= phases + 1
          /\ phases + 1 \in 0 .. MaxPhases
      BY <1>0, <1>1 DEF configure_fit, Typed, Server
    <2>2. server' \in Server /\ server'.phase = server.phase + 1 /\ phases' = phases + 1
      BY <1>1, <2>1 DEF configure_fit, Typed, Server, Step
    <2> QED BY <1>1, <2>1, <2>2 DEF configure_fit, Typed, Born, Process
  <1>2. CASE ClosePhase \/ SkipSeed \/ NothingToMerge \/ Kill
    BY <1>2 DEF ClosePhase, SkipSeed, NothingToMerge, Kill, Typed, Born, Server, Step, Process
  <1>3. CASE initialise_from_file
    BY <1>3 DEF initialise_from_file, Typed, Born, Server, Step, Process
  <1>4. CASE SaveSeed
    <2>1. 0 \in Round /\ TRUE \in BOOLEAN
      BY <1>0 DEF Round
    <2>2. server' \in Server
      BY <1>4, <2>1 DEF SaveSeed, Typed, Server, Step
    <2>3. disk' \in [weights : Born, momentum : Born, meta : [round : Round, saved : BOOLEAN]]
      BY <1>0, <1>4, <2>1 DEF SaveSeed, Typed
    <2> QED BY <1>4, <2>2, <2>3 DEF SaveSeed, Typed, Born, Server, Process
  <1>5. CASE PublishSeed \/ PublishMerged
    <2>1. blobs' = Published /\ Published \in [global : [Round -> Born], init : Born,
                  delta : [Round -> [Cluster -> SUBSET Delta]]]
      BY <1>5 DEF PublishSeed, PublishMerged, Published, Typed
    <2>2. server' \in Server /\ server'.phase = server.phase
      BY <1>5 DEF PublishSeed, PublishMerged, Typed, Server, Step
    <2>3. UNCHANGED <<disk, job, lineage, phases>>
      BY <1>5 DEF PublishSeed, PublishMerged
    <2> QED BY <2>1, <2>2, <2>3 DEF Typed, Born, Process
  <1>6. CASE merge
    <2>1. lineage' \in Seq(Entry) /\ Len(lineage') <= MaxModels /\ Born \subseteq Born'
      BY <1>6, MergeFacts, Made
    <2>2. Process \subseteq Process'
      BY <2>1 DEF Process
    <2> QED BY <1>6, <2>1, <2>2, MergeFacts DEF Typed
  <1>7. CASE RollMomentum
    BY <1>7 DEF RollMomentum, Typed, Born, Server, Step, Process
  <1>8. CASE SaveMeta
    <2>1. server.round + 1 \in Round
      <3>1. /\ server.at = "rolled" /\ disk.meta.saved /\ disk.weights # None
            /\ disk.weights \in Born /\ server.round \in Nat
        BY <1>8 DEF SaveMeta, Typed, Counted, Server, Round
      <3>2. disk.weights \in DOMAIN lineage /\ disk.weights \in Nat /\ disk.weights <= MaxModels
        BY <1>0, <3>1, Bounds DEF Typed, Born
      <3>3. RoundOf(disk.weights) < disk.weights /\ server.round < RoundOf(disk.weights)
        BY <3>1, <3>2 DEF Counted
      <3>4. RoundOf(disk.weights) \in Nat
        <4>1. lineage[disk.weights] \in Entry
          BY <3>2, LenProperties DEF Typed
        <4> QED BY <4>1 DEF Entry, RoundOf
      <3> QED BY <1>0, <3>1, <3>2, <3>3, <3>4 DEF Round
    <2>2. server' \in Server
      BY <1>8, <2>1 DEF SaveMeta, Typed, Server, Step
    <2>3. disk' \in [weights : Born, momentum : Born, meta : [round : Round, saved : BOOLEAN]]
      BY <1>8, <2>1 DEF SaveMeta, Typed
    <2> QED BY <1>8, <2>2, <2>3 DEF SaveMeta, Typed, Born, Server, Process
  <1>9. CASE _prune
    <2> DEFINE g == [r \in Round |-> IF Kept(r) THEN blobs.global[r] ELSE None]
               d == [r \in Round |-> [c \in Cluster |-> {}]]
    <2>1. g \in [Round -> Born] /\ d \in [Round -> [Cluster -> SUBSET Delta]] /\ blobs.init \in Born
      BY <1>0 DEF Typed
    <2>2. blobs' = [global |-> g, init |-> blobs.init, delta |-> d]
      BY <1>9 DEF _prune
    <2> HIDE DEF g, d
    <2>3. blobs' \in [global : [Round -> Born], init : Born,
                      delta : [Round -> [Cluster -> SUBSET Delta]]]
      BY <2>1, <2>2
    <2> QED BY <1>9, <2>3 DEF _prune, Typed, Born, Server, Step, Process
  <1>10. CASE Restart
    BY <1>0, <1>10 DEF Restart, Load, Typed, Born, Server, Step, Process
  <1>11. ASSUME NEW j \in Job, JobActs(j)
         PROVE  Typed'
    <2>1. PICK p \in Process' : job' = [job EXCEPT ![j] = p] /\ Moves(j, job[j], p)
      BY <1>11, ProcessMoves
    <2>2. /\ disk' = disk /\ server'.phase = server.phase /\ server' \in Server
          /\ lineage' \in Seq(Entry) /\ Len(lineage') <= MaxModels /\ Born \subseteq Born'
      BY <2>1, Frame
    <2>3. Process \subseteq Process'
      BY <2>2 DEF Process
    <2>4. job' \in [Job -> Process']
      BY <2>1, <2>3 DEF Typed
    <2>5. blobs' \in [global : [Round -> Born'], init : Born',
                      delta : [Round -> [Cluster -> SUBSET Delta]]]
      <3>1. blobs \in [global : [Round -> Born'], init : Born',
                       delta : [Round -> [Cluster -> SUBSET Delta]]]
        BY <2>2 DEF Typed
      <3>2. CASE blobs' = blobs
        BY <3>1, <3>2
      <3>3. CASE Offers(job[j], p)
        BY <2>2, <3>1, <3>3 DEF Offers, Typed, Process
      <3>4. CASE Uploads(j, job[j], p)
        <4> DEFINE r == job[j].task.config.round
                   c == job[j].cluster
                   n == {[of |-> job[j].reference, by |-> j]}
        <4>1. r \in Round /\ c \in Cluster /\ job[j].reference \in Born
          BY DEF Typed, Process, Task, Config
        <4>2. job[j].reference # None
          BY <3>4 DEF Uploads
        <4>3. n \in SUBSET Delta
          BY <1>0, <4>1, <4>2 DEF Delta
        <4>4. blobs' = [blobs EXCEPT !.delta = [blobs.delta EXCEPT ![r] = [blobs.delta[r] EXCEPT ![c] = n]]]
          BY <3>4 DEF Uploads
        <4> HIDE DEF r, c, n
        <4>5. [blobs.delta EXCEPT ![r] = [blobs.delta[r] EXCEPT ![c] = n]]
                \in [Round -> [Cluster -> SUBSET Delta]]
          BY <4>1, <4>3 DEF Typed
        <4> QED BY <3>1, <4>4, <4>5
      <3> QED BY <2>1, <3>2, <3>3, <3>4 DEF Moves, Takes, Makes, Gets, Reads, Works, Stops
    <2>6. phases' = phases
      BY <1>11 DEF JobActs, Fit, TakeTask, WriteInit, PutInit, Reuse, OpenBlob, ReadAll,
           ReadShort, Renamed, ReadAgain, Apply, FitFails, Train, PutDelta, PostReport,
           CrashJob, Requeue
    <2> QED BY <2>2, <2>4, <2>5, <2>6 DEF Typed
  <1>12. CASE UNCHANGED vars
    BY <1>12 DEF vars, Typed, Born, Server, Process
  <1> QED BY <1>1, <1>2, <1>3, <1>4, <1>5, <1>6, <1>7, <1>8, <1>9, <1>10, <1>11, <1>12
          DEF Next, Serve, JobActs

-----------------------------------------------------------------------------
(* The rounds                                                              *)

LEMMA RoundsAreNumbers ==
  ASSUME Typed
  PROVE  /\ \A v \in DOMAIN lineage : RoundOf(v) \in Nat /\ lineage[v].from \in Nat
         /\ server.round \in Nat /\ disk.meta.round \in Nat
         /\ disk.weights # None => disk.weights \in DOMAIN lineage
  <1>1. \A v \in DOMAIN lineage : lineage[v] \in Entry
    BY LenProperties DEF Typed
  <1>2. disk.weights \in Born /\ server.round \in Round /\ disk.meta.round \in Round
    BY DEF Typed, Server
  <1> QED BY <1>1, <1>2, Bounds DEF Entry, RoundOf, Round

\* The metadata never run ahead of the weights.
LEMMA CountedStep ==
  ASSUME Typed, Counted, Seeds, [Next]_vars
  PROVE  Counted'
  <1>0. /\ \A v \in DOMAIN lineage : RoundOf(v) \in Nat
        /\ server.round \in Nat /\ disk.meta.round \in Nat /\ MaxModels \in Nat
        /\ disk.weights # None => disk.weights \in DOMAIN lineage
        /\ blobs.init # None => blobs.init \in DOMAIN lineage
    BY RoundsAreNumbers, Bounds DEF Typed
  <1>1. ASSUME NEW asked \in SUBSET Job, configure_fit(asked)
        PROVE  Counted'
    BY <1>1 DEF configure_fit, Typed, Counted, Server, RoundOf
  <1>2. CASE ClosePhase \/ SkipSeed \/ NothingToMerge \/ Kill
    BY <1>2 DEF ClosePhase, SkipSeed, NothingToMerge, Kill, Typed, Counted, Server, RoundOf, initialised
  <1>3. CASE initialise_from_file
    BY <1>0, <1>3 DEF initialise_from_file, CanSeed, initialised, Typed, Counted, Seeds, Server, RoundOf
  <1>4. CASE SaveSeed
    BY <1>0, <1>4 DEF SaveSeed, Typed, Counted, Server, RoundOf
  <1>5. CASE PublishSeed \/ PublishMerged \/ _prune
    BY <1>5 DEF PublishSeed, PublishMerged, _prune, Typed, Counted, Server, RoundOf
  <1>6. CASE merge
    <2>1. MergeEntry \in Entry /\ lineage' = Append(lineage, MergeEntry) /\ Len(lineage) < MaxModels
          /\ disk.weights \in DOMAIN lineage /\ disk.meta.saved
      BY <1>6, MergeFacts
    <2>2. /\ \A v \in DOMAIN lineage : lineage'[v].round = RoundOf(v)
          /\ lineage'[Len(lineage')] = MergeEntry
          /\ DOMAIN lineage' = DOMAIN lineage \cup {Len(lineage')}
          /\ Len(lineage') = Len(lineage) + 1 /\ Len(lineage) \in Nat
          /\ \A v \in DOMAIN lineage : v \in Nat /\ v <= Len(lineage)
      BY <2>1, Made, Bounds DEF RoundOf, Born
    <2>3. /\ lineage'[Len(lineage')].round = RoundOf(disk.weights) + 1
          /\ RoundOf(disk.weights) < disk.weights
      BY <2>1, <2>2 DEF RoundOf, MergeEntry, Counted
    <2>4. lineage'[Len(lineage')].round < Len(lineage')
      BY <1>0, <2>1, <2>2, <2>3
    <2>5. \A v \in DOMAIN lineage' : lineage'[v].round < v
      BY <2>2, <2>4 DEF Counted, RoundOf
    <2>6. /\ disk'.weights = Len(lineage') /\ disk'.meta = disk.meta /\ server'.at = "replaced"
          /\ server'.round = server.round /\ server'.keyed = server.keyed
      BY <1>6, MergeFacts
    <2>7. server.round < lineage'[disk'.weights].round
      BY <1>0, <2>1, <2>3, <2>6 DEF Counted, None
    <2>8. server.round <= lineage'[disk'.weights].round
      BY <1>0, <2>1, <2>3, <2>6, <2>7
    <2>9. /\ server.round = disk.meta.round /\ server.keyed = disk.meta.saved
          /\ disk'.weights # None
      BY <1>0, <2>2, <2>6 DEF Counted, None
    <2> QED BY <2>1, <2>5, <2>6, <2>7, <2>8, <2>9 DEF Counted, RoundOf
  <1>7. CASE RollMomentum
    BY <1>7 DEF RollMomentum, Typed, Counted, Server, RoundOf
  <1>8. CASE SaveMeta
    BY <1>0, <1>8 DEF SaveMeta, Typed, Counted, Server, RoundOf
  <1>9. CASE Restart
    BY <1>9 DEF Restart, Load, Typed, Counted, Server, RoundOf
  <1>10. ASSUME NEW j \in Job, JobActs(j)
         PROVE  Counted'
    <2>1. PICK p \in Process' : job' = [job EXCEPT ![j] = p] /\ Moves(j, job[j], p)
      BY <1>10, ProcessMoves
    <2>2. /\ disk' = disk
          /\ server'.at = server.at /\ server'.round = server.round /\ server'.keyed = server.keyed
          /\ \A v \in DOMAIN lineage : v \in DOMAIN lineage' /\ lineage'[v] = lineage[v]
          /\ \A v \in DOMAIN lineage' :
               v \in DOMAIN lineage
               \/ lineage'[v] = [round |-> 0, from |-> None, deltas |-> {}, shares |-> 0]
          /\ lineage' \in Seq(Entry)
      BY <2>1, Frame
    <2>3. \A v \in DOMAIN lineage : lineage'[v].round = RoundOf(v)
      BY <2>2 DEF RoundOf
    <2>4. \A v \in DOMAIN lineage' : v \in DOMAIN lineage \/ (lineage'[v].round = 0 /\ v \in Nat \ {0})
      BY <2>2, LenProperties DEF RoundOf
    <2>5. \A v \in DOMAIN lineage' : lineage'[v].round < v
      BY <2>3, <2>4 DEF Counted, RoundOf
    <2> QED BY <1>0, <2>2, <2>3, <2>5 DEF Counted, RoundOf
  <1>11. CASE UNCHANGED vars
    BY <1>11 DEF vars, Counted, RoundOf
  <1> QED BY <1>1, <1>2, <1>3, <1>4, <1>5, <1>6, <1>7, <1>8, <1>9, <1>10, <1>11
          DEF Next, Serve, JobActs

-----------------------------------------------------------------------------
(* The seed                                                                *)

\* Whoever says it uploaded a seed did, and a process that was not asked for
\* one was asked by a server that has a model.
LEMMA SeedsStep ==
  ASSUME Typed, Counted, Seeds, [Next]_vars
  PROVE  Seeds'
  <1>0. /\ blobs.init # None => blobs.init \in DOMAIN lineage
        /\ \A j \in Job : job[j].reference # None => job[j].reference \in DOMAIN lineage
    BY Bounds DEF Typed, Process
  <1>1. ASSUME NEW asked \in SUBSET Job, configure_fit(asked)
        PROVE  Seeds'
    BY <1>1 DEF configure_fit, Typed, Seeds, Server, RoundOf
  <1>2. CASE ClosePhase
    BY <1>2 DEF ClosePhase, Typed, Seeds, Server, RoundOf
  <1>3. CASE SkipSeed \/ NothingToMerge \/ Kill
    BY <1>3 DEF SkipSeed, NothingToMerge, Kill, Typed, Seeds, Server, RoundOf
  <1>4. CASE initialise_from_file
    BY <1>4 DEF initialise_from_file, Typed, Seeds, Server, RoundOf
  <1>5. CASE SaveSeed \/ RollMomentum \/ SaveMeta
    <2>1. /\ server'.at # "closed" /\ server'.reports = server.reports
          /\ disk.meta.saved => disk'.meta.saved
          /\ UNCHANGED <<blobs, job, lineage>>
      <3>1. /\ server'.at # "closed" /\ server'.reports = server.reports
            /\ UNCHANGED <<blobs, job, lineage>>
        BY <1>5 DEF SaveSeed, RollMomentum, SaveMeta, Typed, Server
      <3>2. disk.meta \in [round : Round, saved : BOOLEAN]
        BY DEF Typed
      <3>3. disk'.meta.saved \in {disk.meta.saved, TRUE}
        <4>1. CASE SaveSeed
          BY <4>1 DEF SaveSeed, Typed
        <4>2. CASE RollMomentum
          BY <4>2 DEF RollMomentum, Typed
        <4>3. CASE SaveMeta
          <5>1. disk'.meta = [disk.meta EXCEPT !.round = server.round + 1]
            BY <4>3 DEF SaveMeta, Typed
          <5> QED BY <3>2, <5>1
        <4> QED BY <1>5, <4>1, <4>2, <4>3
      <3> QED BY <3>1, <3>3
    <2> QED BY <2>1 DEF Seeds, RoundOf
  <1>6. CASE PublishSeed \/ PublishMerged \/ _prune
    <2>1. /\ blobs'.init = blobs.init /\ server'.reports = server.reports /\ server'.at # "closed"
          /\ UNCHANGED <<disk, job, lineage>>
      BY <1>6 DEF PublishSeed, PublishMerged, _prune, Published, Typed, Server
    <2> QED BY <2>1 DEF Seeds, RoundOf
  <1>7. CASE merge
    <2>1. MergeEntry \in Entry /\ lineage' = Append(lineage, MergeEntry) /\ Len(lineage) < MaxModels
          /\ disk'.meta = disk.meta /\ server'.at # "closed" /\ server'.reports = server.reports
          /\ UNCHANGED <<blobs, job>>
      BY <1>7, MergeFacts
    <2>2. \A v \in DOMAIN lineage : lineage'[v] = lineage[v]
      BY <2>1, Made
    <2> QED BY <1>0, <2>1, <2>2 DEF Seeds, RoundOf
  <1>8. CASE Restart
    BY <1>8 DEF Restart, Load, Typed, Seeds, Server, RoundOf
  <1>9. ASSUME NEW j \in Job, JobActs(j)
        PROVE  Seeds'
    <2> DEFINE q == job[j]
    <2>1. PICK p \in Process' : job' = [job EXCEPT ![j] = p] /\ Moves(j, job[j], p)
      BY <1>9, ProcessMoves
    <2>2. /\ disk' = disk /\ server'.at = server.at
          /\ \A v \in DOMAIN lineage : lineage'[v] = lineage[v]
      BY <2>1, Frame
    <2>3. job' = [k \in Job |-> IF k = j THEN p ELSE job[k]]
      BY <2>1 DEF Typed
    <2>4. /\ \A k \in Job \ {j} : job'[k] = job[k]
          /\ job'[j] = p
      BY <2>3
    <2>5. (blobs.init # None => blobs'.init # None)
          /\ (blobs'.init = blobs.init \/ Offers(q, p))
      BY <2>1 DEF Moves, Takes, Makes, Offers, Gets, Reads, Works, Uploads, Stops, Typed
    <2>6. blobs'.init # None => lineage'[blobs'.init].round = 0
      <3>1. CASE Offers(q, p)
        BY <1>0, <2>2, <3>1 DEF Offers, Seeds, RoundOf, Typed
      <3> QED BY <1>0, <2>2, <2>5, <3>1 DEF Seeds, RoundOf
    <2>7. ASSUME NEW k \in Job \ {j}
          PROVE  LET s == job[k] IN
                 /\ s.at = "fetching" /\ s.task.config.init /\ s.reference # None
                      => lineage'[s.reference].round = 0
                 /\ s.at \in {"training", "uploading", "reporting"} /\ s.task.config.init
                      => blobs'.init # None
                 /\ s.at \in {"reading", "staged"} => ~s.task.config.init
                 /\ s.at \in {"reading", "staged", "training", "uploading"} => s.reference # None
                 /\ s.at \notin {"idle", "dead"} /\ ~s.task.config.init => disk.meta.saved
      BY <1>0, <2>2, <2>5 DEF Seeds, RoundOf
    <2>8. /\ p.at = "fetching" /\ p.task.config.init /\ p.reference # None
               => lineage'[p.reference].round = 0
          /\ p.at \in {"training", "uploading", "reporting"} /\ p.task.config.init
               => blobs'.init # None
          /\ p.at \in {"reading", "staged"} => ~p.task.config.init
          /\ p.at \in {"reading", "staged", "training", "uploading"} => p.reference # None
          /\ p.at \notin {"idle", "dead"} /\ ~p.task.config.init => disk.meta.saved
      <3>1. CASE Takes(q, p)
        <4>1. p.at = "fetching" /\ p.reference = None /\ p.task.config.init = RoundConfig.init
          BY <3>1 DEF Takes
        <4>2. RoundConfig.init = ~initialised
          BY DEF RoundConfig
        <4>3. ~p.task.config.init => initialised
          BY <4>1, <4>2
        <4> QED BY <4>1, <4>3 DEF initialised, Counted
      <3>2. CASE Makes(q, p)
        <4>1. lineage'[Len(lineage')].round = 0
          <5> DEFINE e == [round |-> 0, from |-> None, deltas |-> {}, shares |-> 0]
          <5>1. e \in Entry /\ e.round = 0
            BY DEF Entry, None
          <5>2. lineage' = Append(lineage, e) /\ Len(lineage) < MaxModels
            BY <3>2 DEF Makes
          <5> HIDE DEF e
          <5> QED BY <5>1, <5>2, Made
        <4> QED BY <3>2, <4>1 DEF Makes, Seeds
      <3>3. CASE Offers(q, p)
        BY <1>0, <2>2, <3>3 DEF Offers, Seeds, RoundOf, Typed
      <3>4. CASE Gets(q, p)
        BY <3>4 DEF Gets, Seeds
      <3>5. CASE Reads(q, p)
        BY <3>5 DEF Reads, Seeds
      <3>6. CASE Works(q, p)
        BY <2>5, <3>6 DEF Works, Seeds
      <3>7. CASE Uploads(j, q, p)
        BY <2>5, <3>7 DEF Uploads, Seeds
      <3>8. CASE Stops(j, q, p)
        BY <3>8 DEF Stops
      <3> QED BY <2>1, <3>1, <3>2, <3>3, <3>4, <3>5, <3>6, <3>7, <3>8 DEF Moves
    <2>9. \A r \in server'.reports : /\ r.seeded => blobs'.init # None
                                     /\ ~r.seeded => disk.meta.saved
      <3>1. CASE server' = server
        BY <2>5, <3>1 DEF Seeds
      <3>2. CASE server' # server
        <4>1. /\ q.at = "reporting"
              /\ server' = [server EXCEPT !.reports = {r \in @ : r.job # j} \cup {ReportOf(j, q)}]
          BY <2>1, <3>2 DEF Moves, Takes, Makes, Offers, Gets, Reads, Works, Uploads, Stops
        <4>2. server'.reports \subseteq server.reports \cup {ReportOf(j, q)}
          BY <4>1 DEF Typed, Server
        <4>3. /\ ReportOf(j, q).seeded => blobs.init # None
              /\ ~ReportOf(j, q).seeded => disk.meta.saved
          BY <4>1 DEF ReportOf, Seeds
        <4> QED BY <2>5, <4>2, <4>3 DEF Seeds
      <3> QED BY <3>1, <3>2
    <2>10. server'.at = "closed" => server'.reports # {}
      <3>1. server'.reports = server.reports \/ ReportOf(j, q) \in server'.reports
        BY <2>1 DEF Moves, Takes, Makes, Offers, Gets, Reads, Works, Uploads, Stops, Typed, Server
      <3> QED BY <2>2, <3>1 DEF Seeds
    <2> HIDE DEF q
    <2> QED BY <2>2, <2>4, <2>6, <2>7, <2>8, <2>9, <2>10 DEF Seeds, RoundOf
  <1>10. CASE UNCHANGED vars
    BY <1>10 DEF vars, Seeds, RoundOf
  <1> QED BY <1>1, <1>2, <1>3, <1>4, <1>5, <1>6, <1>7, <1>8, <1>9, <1>10
          DEF Next, Serve, JobActs

\* Typed, Counted and Seeds hold whatever moment the server is killed at.
Basis == Typed /\ Counted /\ Seeds

LEMMA BasisStarts == Init => Basis
  <1> SUFFICES ASSUME Init
               PROVE  Basis
    OBVIOUS
  <1>1. /\ MaxModels \in Nat /\ MaxPhases \in Nat /\ lineage = <<>> /\ Len(lineage) = 0
        /\ DOMAIN lineage = {} /\ lineage \in Seq(Entry)
    BY ModelAssumption DEF Init
  <1>2. Born = {None} /\ 0 \in Round
    BY <1>1 DEF Born, None, Round
  <1>3. /\ disk = [weights |-> None, momentum |-> None, meta |-> [round |-> 0, saved |-> FALSE]]
        /\ server = Load /\ phases = 0
    BY DEF Init
  <1>4. /\ server = [at |-> "idle", round |-> 0, keyed |-> FALSE, phase |-> 0,
                     asked |-> {}, reports |-> {}]
    BY <1>3 DEF Load
  <1>5. disk \in [weights : Born, momentum : Born, meta : [round : Round, saved : BOOLEAN]]
        /\ server \in Server
    BY <1>1, <1>2, <1>3, <1>4 DEF Server, Step
  <1>6. blobs \in [global : [Round -> Born], init : Born,
                   delta : [Round -> [Cluster -> SUBSET Delta]]] /\ blobs.init = None
    <2> DEFINE g == [r \in Round |-> None]
               d == [r \in Round |-> [c \in Cluster |-> {}]]
    <2>1. g \in [Round -> Born] /\ d \in [Round -> [Cluster -> SUBSET Delta]]
      BY <1>2
    <2>2. blobs = [global |-> g, init |-> None, delta |-> d]
      BY DEF Init
    <2> HIDE DEF g, d
    <2> QED BY <1>2, <2>1, <2>2
  <1>7. /\ job \in [Job -> Process]
        /\ \A j \in Job : job[j].at = "idle" /\ job[j].task = NoTask
    <2>1. PICK claim \in [Job -> Cluster] : job = [j \in Job |-> Idle(claim[j])]
      BY DEF Init
    <2>2. ASSUME NEW c \in Cluster
          PROVE  Idle(c) \in Process /\ Idle(c).at = "idle" /\ Idle(c).task = NoTask
      <3> DEFINE n == [round |-> 0, model |-> None, whole |-> TRUE]
      <3>1. n \in [round : Round, model : Born, whole : BOOLEAN]
        BY <1>2
      <3>2. NoTask \in Task
        BY <1>1, <1>2 DEF NoTask, Task, Config
      <3>3. Idle(c) = [cluster |-> c, at |-> "idle", task |-> NoTask, reference |-> None,
                       delta |-> FALSE, cached |-> n]
        BY DEF Idle
      <3> HIDE DEF n
      <3> QED BY <1>2, <3>1, <3>2, <3>3 DEF Process, JobStep
    <2> QED BY <2>1, <2>2
  <1>8. Typed
    BY <1>1, <1>3, <1>4, <1>5, <1>6, <1>7 DEF Typed
  <1>9. Counted
    <2>1. /\ disk.weights = None /\ disk.meta.round = 0 /\ disk.meta.saved = FALSE
          /\ server.at = "idle" /\ server.round = 0 /\ server.keyed = FALSE
      BY <1>3, <1>4
    <2> QED BY <1>1, <2>1 DEF Counted
  <1>10. Seeds
    BY <1>4, <1>6, <1>7 DEF Seeds
  <1> QED BY <1>8, <1>9, <1>10 DEF Basis

LEMMA BasisStep == Basis /\ [Next]_vars => Basis'
  BY TypedStep, CountedStep, SeedsStep DEF Basis

\* So they do in every state.
THEOREM BasisHolds == Spec => []Basis
  BY BasisStarts, BasisStep, PTL DEF Spec

\* Every record keeps its type, whenever the server is killed: no round counts
\* past the models that were made, and no number names a model that is not there.
THEOREM TypeCorrect == Spec => []ModelTypeOK
  <1>1. Typed => ModelTypeOK
    <2> SUFFICES ASSUME Typed
                 PROVE  ModelTypeOK
      OBVIOUS
    <2>1. Born \subseteq Model \cup {None}
      BY Bounds
    <2>2. /\ disk \in [weights : Model \cup {None}, momentum : Model \cup {None},
                       meta : [round : Round, saved : BOOLEAN]]
          /\ blobs \in [global : [Round -> Model \cup {None}], init : Model \cup {None},
                        delta : [Round -> [Cluster -> SUBSET Delta]]]
      BY <2>1 DEF Typed
    <2>3. ASSUME NEW j \in Job
          PROVE  /\ job[j].cluster \in Cluster /\ job[j].at \in JobStep
                 /\ job[j].task \in Task
                 /\ job[j].reference \in Model \cup {None}
                 /\ job[j].delta \in BOOLEAN
                 /\ job[j].cached \in [round : Round, model : Model \cup {None}, whole : BOOLEAN]
      <3>1. job[j] \in Process
        BY DEF Typed
      <3> QED BY <2>1, <3>1 DEF Process
    <2> QED BY <2>2, <2>3 DEF Typed, ModelTypeOK, Server
  <1> QED BY <1>1, BasisHolds, PTL DEF Basis

\* A cold start is never closed without a seed: whichever process reported
\* had uploaded one, so a round that has no model finds one to begin with.
SeedIsThere == server.at = "closed" /\ ~initialised => CanSeed

\* The server always seeds from the first cold start that is answered: the
\* branch of _seed_from_results that finds no blob is never taken.
THEOREM ColdStartsAreSeeded == Spec => []SeedIsThere
  <1>1. Basis => SeedIsThere
    <2> SUFFICES ASSUME Basis, server.at = "closed", ~initialised
                 PROVE  CanSeed
      BY DEF SeedIsThere
    <2>1. ~disk.meta.saved
      BY DEF Basis, Counted, initialised
    <2>2. \A p \in server.reports : p.seeded /\ blobs.init # None
      BY <2>1 DEF Basis, Seeds
    <2> QED BY <2>2 DEF Basis, Seeds, CanSeed
  <1> QED BY <1>1, BasisHolds, PTL

\* The model that a run is in the middle of is never exchanged for another,
\* whenever the server is killed and whatever late seeds and reports it is
\* sent: only a merge into it replaces it.
THEOREM RunsKeepTheirModel == Spec => ModelIsKept
  <1>1. ASSUME Basis, Next, disk.meta.saved
        PROVE  disk'.weights = disk.weights \/ lineage'[disk'.weights].from = disk.weights
    <2>1. CASE merge
      <3>1. /\ MergeEntry \in Entry /\ lineage' = Append(lineage, MergeEntry)
            /\ Len(lineage) < MaxModels /\ disk'.weights = Len(lineage')
        BY <1>1, <2>1, MergeFacts DEF Basis
      <3>2. lineage'[Len(lineage')] = MergeEntry
        BY <1>1, <3>1, Made DEF Basis
      <3> QED BY <3>1, <3>2 DEF MergeEntry
    <2>2. ASSUME NEW j \in Job, JobActs(j)
          PROVE  disk' = disk
      <3>1. PICK p \in Process' : Moves(j, job[j], p)
        BY <1>1, <2>2, ProcessMoves DEF Basis
      <3> QED BY <1>1, <3>1, Frame DEF Basis
    <2>3. ~initialise_from_file
      BY <1>1 DEF initialise_from_file, initialised, Basis, Counted
    <2>4. ~SaveSeed
      BY <1>1 DEF SaveSeed, Basis, Counted
    <2>5. CASE \/ \E asked \in SUBSET Job : configure_fit(asked)
               \/ ClosePhase \/ SkipSeed \/ PublishSeed \/ NothingToMerge \/ RollMomentum
               \/ SaveMeta \/ PublishMerged \/ _prune \/ Kill \/ Restart
      BY <1>1, <2>5 DEF configure_fit, ClosePhase, SkipSeed, PublishSeed, NothingToMerge,
         RollMomentum, SaveMeta, PublishMerged, _prune, Kill, Restart, Basis, Typed
    <2> QED BY <1>1, <2>1, <2>2, <2>3, <2>4, <2>5 DEF Next, Serve, JobActs
  <1>2. Basis /\ [Next]_vars =>
          [disk.meta.saved =>
             \/ disk'.weights = disk.weights
             \/ lineage'[disk'.weights].from = disk.weights]_vars
    BY <1>1 DEF vars
  <1> QED BY <1>2, BasisHolds, PTL DEF Spec, ModelIsKept

-----------------------------------------------------------------------------
(* The three files                                                         *)

\* What a merge leaves in memory and on disk.
LEMMA MergeMakes ==
  ASSUME Basis, merge
  PROVE  /\ \A v \in DOMAIN lineage : lineage'[v] = lineage[v]
         /\ lineage'[disk'.weights] = MergeEntry
         /\ DOMAIN lineage' = DOMAIN lineage \cup {disk'.weights}
         /\ MergeEntry.round = RoundOf(disk.weights) + 1 /\ MergeEntry.from = disk.weights
  <1>1. /\ MergeEntry \in Entry /\ lineage' = Append(lineage, MergeEntry)
        /\ Len(lineage) < MaxModels /\ disk'.weights = Len(lineage')
    BY MergeFacts DEF Basis
  <1>2. MergeEntry.round = RoundOf(disk.weights) + 1 /\ MergeEntry.from = disk.weights
    BY DEF MergeEntry
  <1> QED BY <1>1, <1>2, Made DEF Basis

\* A step of a process, as far as the server is concerned.
LEMMA ProcessFrame ==
  ASSUME Basis, NEW j \in Job, JobActs(j)
  PROVE  /\ disk' = disk
         /\ server'.at = server.at /\ server'.round = server.round /\ server'.keyed = server.keyed
         /\ \A v \in DOMAIN lineage : v \in DOMAIN lineage' /\ lineage'[v] = lineage[v]
         /\ \A v \in DOMAIN lineage' :
              v \in DOMAIN lineage
              \/ lineage'[v] = [round |-> 0, from |-> None, deltas |-> {}, shares |-> 0]
         /\ blobs'.global = blobs.global
  <1>1. PICK p \in Process' : Moves(j, job[j], p)
    BY ProcessMoves DEF Basis
  <1>2. blobs'.global = blobs.global
    BY <1>1 DEF Moves, Takes, Makes, Offers, Gets, Reads, Works, Uploads, Stops, Basis, Typed
  <1> QED BY <1>1, <1>2, Frame DEF Basis

\* The files agree between merges, unless the server may be killed in one.
LEMMA AgreeStep ==
  ASSUME FilesWritten, Basis, Agree, [Next]_vars
  PROVE  Agree'
  <1>0. /\ Typed /\ Counted /\ server.round \in Nat
        /\ disk.weights # None => disk.weights \in DOMAIN lineage
    BY RoundsAreNumbers DEF Basis
  <1>1. ASSUME NEW asked \in SUBSET Job, configure_fit(asked)
        PROVE  Agree'
    BY <1>0, <1>1 DEF configure_fit, Typed, Agree, Server, RoundOf
  <1>2. CASE ClosePhase \/ SkipSeed \/ NothingToMerge
    BY <1>0, <1>2 DEF ClosePhase, SkipSeed, NothingToMerge, Typed, Agree, Server, RoundOf
  <1>3. CASE Kill
    <2>1. server.at \notin {"replaced", "rolled"} /\ server'.at = "down"
          /\ UNCHANGED <<disk, lineage, server.round>>
      BY <1>0, <1>3 DEF Kill, FilesWritten, Typed, Server
    <2> QED BY <2>1 DEF Agree, RoundOf
  <1>4. CASE initialise_from_file
    <2>1. ~disk.meta.saved
      BY <1>0, <1>4 DEF initialise_from_file, initialised, Counted
    <2>2. disk'.meta = disk.meta /\ server'.at = "seeding"
      BY <1>0, <1>4 DEF initialise_from_file, Typed, Server
    <2> QED BY <2>1, <2>2 DEF Agree
  <1>5. CASE SaveSeed
    <2>1. /\ disk'.weights = disk.weights /\ RoundOf(disk.weights) = 0
          /\ disk'.momentum = None /\ server'.round = 0 /\ server'.at = "seeded"
          /\ lineage' = lineage
      BY <1>0, <1>5 DEF SaveSeed, Typed, Counted, Server
    <2> QED BY <2>1 DEF Agree, RoundOf
  <1>6. CASE PublishSeed \/ PublishMerged \/ _prune
    BY <1>0, <1>6 DEF PublishSeed, PublishMerged, _prune, Typed, Agree, Server, RoundOf
  <1>7. CASE merge
    <2>1. /\ lineage'[disk'.weights].round = RoundOf(disk.weights) + 1
          /\ server.at = "ready" /\ disk.meta.saved
          /\ server'.at = "replaced" /\ server'.round = server.round
      BY <1>0, <1>7, MergeMakes, MergeFacts
    <2> QED BY <2>1 DEF Agree, RoundOf
  <1>8. CASE RollMomentum
    <2>1. /\ disk'.weights = disk.weights /\ disk'.momentum = disk.weights
          /\ server.at = "replaced" /\ server'.at = "rolled" /\ server'.round = server.round
          /\ lineage' = lineage
      BY <1>0, <1>8 DEF RollMomentum, Typed, Server
    <2> QED BY <2>1 DEF Agree, RoundOf
  <1>9. CASE SaveMeta
    <2>1. /\ disk'.weights = disk.weights /\ disk'.momentum = disk.momentum
          /\ server.at = "rolled" /\ server'.at = "saved" /\ server'.round = server.round + 1
          /\ lineage' = lineage
      BY <1>0, <1>9 DEF SaveMeta, Typed, Server
    <2>2. server.round + 1 # 0
      BY <1>0
    <2> QED BY <2>1, <2>2 DEF Agree, RoundOf
  <1>10. CASE Restart
    <2>1. /\ server.at = "down" /\ server'.at = "idle" /\ server'.round = server.round
          /\ UNCHANGED <<disk, lineage>>
      BY <1>0, <1>10 DEF Restart, Load, Counted
    <2> QED BY <2>1 DEF Agree, RoundOf
  <1>11. ASSUME NEW j \in Job, JobActs(j)
         PROVE  Agree'
    <2>1. /\ disk' = disk /\ server'.at = server.at /\ server'.round = server.round
          /\ \A v \in DOMAIN lineage : lineage'[v] = lineage[v]
      BY <1>11, ProcessFrame
    <2>2. server.at \in {"replaced", "rolled"} => disk.meta.saved
      BY <1>0 DEF Counted
    <2>3. disk.meta.saved => disk.weights \in DOMAIN lineage
      BY <1>0 DEF Counted
    <2> QED BY <2>1, <2>2, <2>3 DEF Agree, RoundOf
  <1>12. CASE UNCHANGED vars
    BY <1>12 DEF vars, Agree, RoundOf
  <1> QED BY <1>1, <1>2, <1>3, <1>4, <1>5, <1>6, <1>7, <1>8, <1>9, <1>10, <1>11, <1>12
          DEF Next, Serve, JobActs

LEMMA AgreeStarts == Init => Agree
  BY DEF Init, Load, Agree

\* Between rounds the metadata count the merges that are in the weights, and
\* the momentum is that of the last one, however often the server comes back.
THEOREM FilesStayInStep ==
  ASSUME FilesWritten
  PROVE  Spec => []FilesAgree
  <1>1. Basis /\ Agree => FilesAgree
    BY DEF Basis, Counted, Agree, FilesAgree, initialised, RoundOf
  <1>2. Basis /\ Agree /\ [Next]_vars => Agree'
    BY AgreeStep
  <1> QED BY <1>1, <1>2, AgreeStarts, BasisHolds, PTL DEF Spec

-----------------------------------------------------------------------------
(* The blob store                                                          *)

\* No model is linked under a round that has not come.
LEMMA NotBeforeStep ==
  ASSUME Basis, NotBefore, [Next]_vars
  PROVE  NotBefore'
  <1>0. /\ Typed /\ Counted /\ server.round \in Nat /\ Round \subseteq Nat
    BY RoundsAreNumbers DEF Basis, Round
  <1>1. CASE \/ \E asked \in SUBSET Job : configure_fit(asked)
             \/ ClosePhase \/ SkipSeed \/ NothingToMerge
    BY <1>0, <1>1 DEF configure_fit, ClosePhase, SkipSeed, NothingToMerge, Typed, NotBefore, Server
  <1>2. CASE Kill
    BY <1>0, <1>2 DEF Kill, Typed, NotBefore, Server
  <1>3. CASE initialise_from_file
    BY <1>0, <1>3 DEF initialise_from_file, Typed, NotBefore, Server
  <1>4. CASE SaveSeed
    <2>1. /\ server.at = "seeding" /\ ~disk.meta.saved /\ UNCHANGED blobs
      BY <1>0, <1>4 DEF SaveSeed, Counted
    <2> QED BY <2>1 DEF NotBefore
  <1>5. CASE PublishSeed \/ PublishMerged
    <2>1. /\ \A r \in Round : r # server.round => blobs'.global[r] = blobs.global[r]
          /\ server'.round = server.round /\ server'.at \notin {"seeded", "saved"}
          /\ disk' = disk /\ disk.meta.saved
      BY <1>0, <1>5 DEF PublishSeed, PublishMerged, Published, Typed, Counted, Server
    <2> QED BY <1>0, <2>1 DEF NotBefore
  <1>6. CASE _prune
    <2>1. /\ \A r \in Round : blobs.global[r] = None => blobs'.global[r] = None
          /\ server'.round = server.round /\ server'.at = "idle"
          /\ disk' = disk /\ disk.meta.saved
      BY <1>0, <1>6 DEF _prune, Counted, Typed, Server
    <2> QED BY <1>0, <2>1 DEF NotBefore
  <1>7. CASE merge
    <2>1. /\ disk'.meta = disk.meta /\ disk.meta.saved /\ UNCHANGED blobs
          /\ server'.round = server.round /\ server'.at = "replaced"
      BY <1>0, <1>7, MergeFacts DEF Basis
    <2> QED BY <2>1 DEF NotBefore
  <1>8. CASE RollMomentum
    <2>1. /\ disk'.meta = disk.meta /\ disk.meta.saved /\ UNCHANGED blobs
          /\ server'.round = server.round /\ server'.at = "rolled"
      BY <1>0, <1>8 DEF RollMomentum, Typed, Counted, Server
    <2> QED BY <2>1 DEF NotBefore
  <1>9. CASE SaveMeta
    <2>1. /\ server'.round = server.round + 1 /\ server'.at = "saved" /\ UNCHANGED blobs
          /\ disk'.meta.saved = disk.meta.saved /\ disk.meta.saved
      <3>1. disk'.meta = [disk.meta EXCEPT !.round = server.round + 1]
        BY <1>0, <1>9 DEF SaveMeta, Typed
      <3>2. disk'.meta.saved = disk.meta.saved
        BY <1>0, <3>1 DEF Typed
      <3> QED BY <1>0, <1>9, <3>2 DEF SaveMeta, Typed, Counted, Server
    <2> QED BY <1>0, <2>1 DEF NotBefore
  <1>10. CASE Restart
    <2>1. /\ server.at = "down" /\ server'.at = "idle" /\ server'.round = server.round
          /\ UNCHANGED <<disk, blobs>>
      BY <1>0, <1>10 DEF Restart, Load, Counted
    <2> QED BY <2>1 DEF NotBefore
  <1>11. ASSUME NEW j \in Job, JobActs(j)
         PROVE  NotBefore'
    BY <1>11, ProcessFrame DEF NotBefore
  <1>12. CASE UNCHANGED vars
    BY <1>12 DEF vars, NotBefore
  <1> QED BY <1>1, <1>2, <1>3, <1>4, <1>5, <1>6, <1>7, <1>8, <1>9, <1>10, <1>11, <1>12
          DEF Next, Serve, JobActs

LEMMA NotBeforeStarts == Init => NotBefore
  BY DEF Init, NotBefore

\* What a link puts into the store.
LEMMA LinkFacts ==
  ASSUME Basis, NotBefore, PublishSeed \/ PublishMerged
  PROVE  /\ blobs'.global[server.round] = disk.weights
         /\ \A r \in Round : r # server.round => blobs'.global[r] = blobs.global[r]
         /\ server.at \in {"seeded", "saved"} /\ server'.at \in {"ready", "published"}
         /\ server'.round = server.round /\ disk.meta.saved
         /\ blobs'.delta = blobs.delta
         /\ UNCHANGED <<disk, job, lineage>>
  <1>1. server.round \in Round /\ blobs.global \in [Round -> Born] /\ Typed
    BY DEF Basis, Typed, Server
  <1>2. server.at \in {"seeded", "saved"} => disk.meta.saved
    BY DEF Basis, Counted
  <1>3. /\ server.at \in {"seeded", "saved"} /\ server'.at \in {"ready", "published"}
        /\ server'.round = server.round /\ blobs' = Published
        /\ UNCHANGED <<disk, job, lineage>>
    BY <1>1 DEF PublishSeed, PublishMerged, Typed, Server
  <1>4. blobs.global[server.round] = None
    BY <1>1, <1>3 DEF NotBefore
  <1>5. blobs' = [blobs EXCEPT !.global[server.round] = disk.weights]
    BY <1>3, <1>4 DEF Published
  <1> QED BY <1>1, <1>2, <1>3, <1>5 DEF Typed

\* What pruning leaves in it.
LEMMA PruneFacts ==
  ASSUME Basis, _prune
  PROVE  /\ \A r \in Round : blobs'.global[r] = IF Kept(r) THEN blobs.global[r] ELSE None
         /\ \A r \in Round, c \in Cluster : blobs'.delta[r][c] = {}
         /\ server.at = "published" /\ server'.at = "idle" /\ server'.round = server.round
         /\ disk.meta.saved /\ blobs'.init = blobs.init
         /\ UNCHANGED <<disk, job, lineage>>
  BY DEF _prune, Basis, Typed, Counted, Server

\* A merge is counted.
LEMMA SaveFacts ==
  ASSUME Basis, SaveMeta
  PROVE  /\ server.at = "rolled" /\ server'.at = "saved"
         /\ server'.round = server.round + 1 /\ server.round \in Nat /\ server.round + 1 \in Round
         /\ disk'.meta.saved = disk.meta.saved /\ disk.meta.saved
         /\ disk'.weights = disk.weights
         /\ UNCHANGED <<blobs, job, lineage>>
  <1>1. disk'.meta = [disk.meta EXCEPT !.round = server.round + 1]
    BY DEF SaveMeta, Basis, Typed
  <1>2. disk'.meta.saved = disk.meta.saved
    BY <1>1 DEF Basis, Typed
  <1>3. Typed'
    BY TypedStep DEF Basis, Next, Serve
  <1>4. server' = [server EXCEPT !.at = "saved", !.round = server.round + 1]
    BY DEF SaveMeta
  <1>5. server'.at = "saved" /\ server'.round = server.round + 1
    BY <1>4 DEF Basis, Typed, Server
  <1>6. server.round + 1 \in Round
    BY <1>3, <1>5 DEF Typed, Server
  <1> QED BY <1>2, <1>5, <1>6, RoundsAreNumbers DEF SaveMeta, Basis, Counted, Typed

\* The models of the last rounds are linked, and a process fetches one of a
\* round that the store has seen, unless the server may be killed before it
\* links one.
LEMMA AvailableStep ==
  ASSUME FilesWritten, ModelLinked, Basis, Agree, NotBefore, Available, [Next]_vars
  PROVE  Available'
  <1>0. /\ Typed /\ Counted /\ server.round \in Nat /\ Round \subseteq Nat /\ KeepRounds \in Nat
        /\ \A j \in Job : job[j].task.config.round \in Nat
        /\ disk.meta.saved => disk.weights \in DOMAIN lineage
        /\ \A r \in Round : blobs.global[r] # None => blobs.global[r] \in DOMAIN lineage
    <2>1. \A j \in Job : job[j].task.config.round \in Round
      BY DEF Basis, Typed, Process, Task, Config
    <2>2. \A r \in Round : blobs.global[r] \in Born
      BY DEF Basis, Typed
    <2> QED BY <2>1, <2>2, Bounds, RoundsAreNumbers DEF Basis, Counted, Round
  <1>1. CASE \/ \E asked \in SUBSET Job : configure_fit(asked)
             \/ ClosePhase \/ SkipSeed \/ NothingToMerge \/ Kill
    <2>1. /\ UNCHANGED <<disk, blobs, job, lineage, server.round>>
          /\ disk.meta.saved => server.at \notin {"replaced", "rolled", "saved", "seeded", "seeding"}
          /\ server'.at \notin {"replaced", "rolled", "saved", "seeded", "seeding"}
      BY <1>0, <1>1 DEF configure_fit, ClosePhase, SkipSeed, NothingToMerge, Kill, Typed, Server,
         FilesWritten, ModelLinked, Counted
    <2>2. disk.meta.saved => server.at \in {"idle", "open", "closed", "ready", "published", "down"}
      BY <2>1, <1>0 DEF Typed, Server, Step
    <2>3. disk.meta.saved => \A r : Linked(r)' <=> Linked(r)
      BY <2>1 DEF Linked
    <2> QED BY <2>1, <2>2, <2>3 DEF Available, RoundOf
  <1>2. CASE initialise_from_file \/ SaveSeed
    <2>1. ~disk.meta.saved /\ UNCHANGED <<blobs, job, lineage>>
      BY <1>0, <1>2 DEF initialise_from_file, SaveSeed, initialised, Counted
    <2>2. \A j \in Job : ~(job[j].at \in {"fetching", "reading"} /\ ~job[j].task.config.init)
      BY <2>1 DEF Available
    <2>3. CASE initialise_from_file
      <3>1. disk'.meta = disk.meta
        BY <1>0, <2>3 DEF initialise_from_file, Typed
      <3> QED BY <2>1, <2>2, <3>1 DEF Available
    <2>4. CASE SaveSeed
      <3>1. server'.at = "seeded" /\ server'.round = 0
        BY <1>0, <2>4 DEF SaveSeed, Typed, Server
      <3>2. \A r \in Round : ~Linked(r)'
        BY <1>0, <3>1 DEF Linked
      <3> QED BY <2>1, <2>2, <3>1, <3>2 DEF Available
    <2> QED BY <1>2, <2>3, <2>4
  <1>3. CASE PublishSeed \/ PublishMerged
    <2>1. /\ blobs'.global[server.round] = disk.weights
          /\ \A r \in Round : r # server.round => blobs'.global[r] = blobs.global[r]
          /\ server.at \in {"seeded", "saved"} /\ server'.at \in {"ready", "published"}
          /\ server'.round = server.round /\ disk.meta.saved /\ UNCHANGED <<disk, job, lineage>>
      BY <1>3, LinkFacts
    <2>2. RoundOf(disk.weights) = server.round /\ disk.weights # None
      BY <1>0, <2>1 DEF Agree, Counted
    <2>3. \A r : Linked(r) => Linked(r)'
      BY <2>1 DEF Linked
    <2>4. \A r \in Round : Linked(r)' => Linked(r) \/ r = server.round
      BY <2>1 DEF Linked
    <2>5. ASSUME NEW r \in Round, Linked(r)', server'.round <= r + KeepRounds
          PROVE  blobs'.global[r] # None /\ lineage'[blobs'.global[r]].round = r
      <3>1. CASE r = server.round
        BY <2>1, <2>2, <3>1 DEF RoundOf
      <3>2. CASE r # server.round
        BY <2>1, <2>4, <2>5, <3>2 DEF Available, RoundOf
      <3> QED BY <3>1, <3>2
    <2> QED BY <2>1, <2>3, <2>5 DEF Available, RoundOf
  <1>4. CASE _prune
    <2>1. /\ \A r \in Round : blobs'.global[r] = IF Kept(r) THEN blobs.global[r] ELSE None
          /\ server.at = "published" /\ server'.at = "idle" /\ server'.round = server.round
          /\ UNCHANGED <<disk, job, lineage>>
      BY <1>4, PruneFacts
    <2>2. \A r : Linked(r)' <=> Linked(r)
      BY <2>1 DEF Linked
    <2>3. \A r \in Round : Linked(r) /\ server.round <= r + KeepRounds => Kept(r)
      BY <1>0, <2>1 DEF Linked, Kept
    <2>4. Kept(server.round) /\ server.round \in Round
      BY <1>0 DEF Kept, Typed, Server
    <2> QED BY <2>1, <2>2, <2>3, <2>4 DEF Available, RoundOf
  <1>5. CASE merge
    <2>1. /\ disk'.meta = disk.meta /\ server'.at = "replaced" /\ server.at = "ready"
          /\ server'.round = server.round /\ UNCHANGED <<blobs, job>>
          /\ \A v \in DOMAIN lineage : lineage'[v] = lineage[v]
      BY <1>5, <1>0, MergeFacts, MergeMakes
    <2>2. \A r : Linked(r)' <=> Linked(r)
      BY <2>1 DEF Linked
    <2> QED BY <1>0, <2>1, <2>2 DEF Available, RoundOf
  <1>6. CASE RollMomentum
    <2>1. /\ disk'.meta = disk.meta /\ server'.at = "rolled" /\ server.at = "replaced"
          /\ server'.round = server.round /\ UNCHANGED <<blobs, job, lineage>>
      BY <1>6, <1>0 DEF RollMomentum, Typed, Server
    <2>2. \A r : Linked(r)' <=> Linked(r)
      BY <2>1 DEF Linked
    <2> QED BY <2>1, <2>2 DEF Available, RoundOf
  <1>7. CASE SaveMeta
    <2>1. /\ disk'.meta.saved = disk.meta.saved /\ server'.at = "saved" /\ server.at = "rolled"
          /\ server'.round = server.round + 1 /\ UNCHANGED <<blobs, job, lineage>>
      BY <1>7, SaveFacts
    <2>2. \A r \in Nat : Linked(r)' <=> Linked(r)
      BY <1>0, <2>1 DEF Linked
    <2>3. \A r \in Round : server'.round <= r + KeepRounds => server.round <= r + KeepRounds
      BY <1>0, <2>1
    <2> QED BY <1>0, <2>1, <2>2, <2>3 DEF Available, RoundOf
  <1>8. CASE Restart
    <2>1. /\ server.at = "down" /\ server'.at = "idle" /\ server'.round = server.round
          /\ UNCHANGED <<disk, blobs, job, lineage>>
      BY <1>0, <1>8 DEF Restart, Load, Counted
    <2>2. \A r : Linked(r)' <=> Linked(r)
      BY <2>1 DEF Linked
    <2> QED BY <2>1, <2>2 DEF Available, RoundOf
  <1>9. ASSUME NEW j \in Job, JobActs(j)
        PROVE  Available'
    <2> DEFINE q == job[j]
    <2>1. PICK p \in Process' : job' = [job EXCEPT ![j] = p] /\ Moves(j, job[j], p)
      BY <1>9, ProcessMoves DEF Basis
    <2>2. /\ disk' = disk /\ server'.at = server.at /\ server'.round = server.round
          /\ blobs'.global = blobs.global
          /\ \A v \in DOMAIN lineage : lineage'[v] = lineage[v]
      BY <1>9, ProcessFrame
    <2>3. \A k \in Job \ {j} : job'[k] = job[k]
      BY <1>0, <2>1 DEF Typed
    <2>4. job'[j] = p
      BY <1>0, <2>1 DEF Typed
    <2>5. \A r : Linked(r)' <=> Linked(r)
      BY <2>2 DEF Linked
    <2>6. p.at \in {"fetching", "reading"} /\ ~p.task.config.init =>
             disk.meta.saved /\ Linked(p.task.config.round)
      <3>1. CASE Takes(q, p)
        <4>1. p.task.config.round = server.round /\ server.at = "open"
              /\ p.task.config.init = ~initialised
          BY <3>1 DEF Takes, RoundConfig
        <4>2. initialised => disk.meta.saved
          BY <1>0 DEF initialised, Counted
        <4> QED BY <4>1, <4>2 DEF Linked
      <3>2. CASE Stops(j, q, p)
        BY <3>2 DEF Stops
      <3>3. CASE Makes(q, p) \/ Offers(q, p) \/ Gets(q, p) \/ Reads(q, p) \/ Works(q, p)
                 \/ Uploads(j, q, p)
        <4>1. p.at \in {"fetching", "reading"} =>
                 q.at \in {"fetching", "reading"} /\ p.task = q.task
          BY <3>3 DEF Makes, Offers, Gets, Reads, Works, Uploads
        <4> QED BY <4>1 DEF Available
      <3> QED BY <2>1, <3>1, <3>2, <3>3 DEF Moves
    <2>7. /\ disk'.meta.saved /\ server'.at \in {"idle", "open", "closed", "ready", "published", "down"} =>
               blobs'.global[server'.round] = disk'.weights
          /\ disk'.meta.saved =>
               \A r \in Round : Linked(r)' /\ server'.round <= r + KeepRounds =>
                   blobs'.global[r] # None /\ lineage'[blobs'.global[r]].round = r
      BY <1>0, <2>2, <2>5 DEF Available, RoundOf
    <2>8. \A k \in Job :
            job'[k].at \in {"fetching", "reading"} /\ ~job'[k].task.config.init =>
              disk'.meta.saved /\ Linked(job'[k].task.config.round)
      BY <2>2, <2>3, <2>4, <2>6 DEF Available
    <2>9. \A k \in Job :
            job'[k].at \in {"fetching", "reading"} /\ ~job'[k].task.config.init =>
              disk'.meta.saved /\ Linked(job[k].task.config.round)'
      BY <2>2, <2>8 DEF Linked
    <2> QED BY <2>7, <2>9 DEF Available, RoundOf
  <1>10. CASE UNCHANGED vars
    BY <1>10 DEF vars, Available, RoundOf, Linked
  <1> QED BY <1>1, <1>2, <1>3, <1>4, <1>5, <1>6, <1>7, <1>8, <1>9, <1>10
          DEF Next, Serve, JobActs

LEMMA AvailableStarts == Init => Available
  <1> SUFFICES ASSUME Init
               PROVE  Available
    OBVIOUS
  <1>1. ~disk.meta.saved
    BY DEF Init
  <1>2. \A j \in Job : job[j].at = "idle"
    BY DEF Init, Idle
  <1> QED BY <1>1, <1>2 DEF Available

\* A cluster is told to train on the current model and finds it in the store,
\* however often the server is killed between two rounds.
THEOREM CurrentModelIsServed ==
  ASSUME FilesWritten, ModelLinked
  PROVE  Spec => []ServedIsCurrent
  <1>1. Basis /\ Available => ServedIsCurrent
    BY DEF Basis, Counted, Available, ServedIsCurrent, initialised
  <1>2. Basis /\ Agree /\ [Next]_vars => Agree'
    BY AgreeStep
  <1>3. Basis /\ Agree /\ NotBefore /\ Available /\ [Next]_vars => Available'
    BY AvailableStep
  <1> QED BY <1>1, <1>2, <1>3, AgreeStarts, NotBeforeStarts, NotBeforeStep, AvailableStarts,
             BasisHolds, PTL DEF Spec

\* Whoever was told to fetch a model finds it, and finds that one, for as long
\* as the server's round is no more than --keep-rounds ahead.
THEOREM DownloadsCanFinish ==
  ASSUME FilesWritten, ModelLinked
  PROVE  Spec => []DownloadsFinish
  <1>1. Basis /\ Available => DownloadsFinish
    <2> SUFFICES ASSUME Basis, Available, NEW j \in Job, job[j].at = "fetching",
                        ~job[j].task.config.init,
                        server.round <= job[j].task.config.round + KeepRounds
                 PROVE  LET r == job[j].task.config.round IN
                        blobs.global[r] # None /\ lineage[blobs.global[r]].round = r
      BY DEF DownloadsFinish
    <2>1. job[j].task.config.round \in Round
      BY DEF Basis, Typed, Process, Task, Config
    <2> QED BY <2>1 DEF Available, RoundOf
  <1>2. Basis /\ Agree /\ [Next]_vars => Agree'
    BY AgreeStep
  <1>3. Basis /\ Agree /\ NotBefore /\ Available /\ [Next]_vars => Available'
    BY AvailableStep
  <1> QED BY <1>1, <1>2, <1>3, AgreeStarts, NotBeforeStarts, NotBeforeStep, AvailableStarts,
             BasisHolds, PTL DEF Spec

-----------------------------------------------------------------------------
(* What a merge merges                                                     *)

LEMMA EarlierStarts == Init => Earlier
  <1> SUFFICES ASSUME Init
               PROVE  Earlier
    OBVIOUS
  <1>1. server.round = 0
    BY DEF Init, Load
  <1>2. ASSUME NEW j \in Job
        PROVE  job[j].task = NoTask /\ job[j].cached.round = 0
    BY DEF Init, Idle
  <1>3. NoTask.config.round = 0 /\ NoTask.config.init = FALSE
    BY DEF NoTask
  <1>4. \A r \in Round, c \in Cluster : blobs.delta[r][c] = {}
    BY DEF Init
  <1> QED BY <1>1, <1>2, <1>3, <1>4 DEF Earlier

\* Nothing is of a later round than the server's, and a cluster's delta is its
\* own and its only one of the round.
LEMMA EarlierStep ==
  ASSUME Basis, Earlier, [Next]_vars
  PROVE  Earlier'
  <1>0. /\ Typed /\ Counted /\ server.round \in Nat /\ Round \subseteq Nat
        /\ \A j \in Job : job[j].task.config.round \in Nat /\ job[j].cached.round \in Nat
    <2>1. \A j \in Job : job[j].task.config.round \in Round /\ job[j].cached.round \in Round
      BY DEF Basis, Typed, Process, Task, Config
    <2> QED BY <2>1, RoundsAreNumbers DEF Basis, Round
  <1>1. CASE \/ \E asked \in SUBSET Job : configure_fit(asked)
             \/ ClosePhase \/ SkipSeed \/ NothingToMerge \/ Kill \/ RollMomentum
    <2>1. UNCHANGED <<blobs, job, server.round>>
      BY <1>0, <1>1 DEF configure_fit, ClosePhase, SkipSeed, NothingToMerge, Kill, RollMomentum,
         Typed, Server
    <2> QED BY <2>1 DEF Earlier
  <1>2. CASE initialise_from_file \/ SaveSeed
    <2>1. server.round = 0 /\ server'.round = 0 /\ UNCHANGED <<blobs, job>>
      BY <1>0, <1>2 DEF initialise_from_file, SaveSeed, initialised, Counted, Typed, Server
    <2> QED BY <2>1 DEF Earlier
  <1>3. CASE PublishSeed \/ PublishMerged
    <2>1. server'.round = server.round /\ blobs'.delta = blobs.delta /\ job' = job
      BY <1>0, <1>3 DEF PublishSeed, PublishMerged, Published, Typed, Server
    <2> QED BY <2>1 DEF Earlier
  <1>4. CASE _prune
    <2>1. /\ server'.round = server.round /\ job' = job
          /\ \A r \in Round, c \in Cluster : blobs'.delta[r][c] = {}
      BY <1>4, PruneFacts
    <2> QED BY <2>1 DEF Earlier
  <1>5. CASE merge
    <2>1. server'.round = server.round /\ UNCHANGED <<blobs, job>>
      BY <1>0, <1>5, MergeFacts
    <2> QED BY <2>1 DEF Earlier
  <1>6. CASE SaveMeta
    <2>1. server'.round = server.round + 1 /\ UNCHANGED <<blobs, job>>
      BY <1>6, SaveFacts
    <2> QED BY <1>0, <2>1 DEF Earlier
  <1>7. CASE Restart
    <2>1. server'.round = server.round /\ UNCHANGED <<blobs, job>>
      BY <1>0, <1>7 DEF Restart, Load, Counted
    <2> QED BY <2>1 DEF Earlier
  <1>8. ASSUME NEW j \in Job, JobActs(j)
        PROVE  Earlier'
    <2> DEFINE q == job[j]
    <2>1. PICK p \in Process' : /\ job' = [job EXCEPT ![j] = p] /\ p.cluster = job[j].cluster
                                /\ Moves(j, job[j], p)
      BY <1>8, ProcessMoves DEF Basis
    <2>2. server'.round = server.round
      BY <1>8, ProcessFrame
    <2>3. /\ \A k \in Job \ {j} : job'[k] = job[k]
          /\ job'[j] = p
      BY <1>0, <2>1 DEF Typed
    <2>4. /\ p.task.config.round <= server.round
          /\ p.task.config.init => p.task.config.round = 0
          /\ p.cached.round <= server.round
      <3>0. NoTask.config.round = 0 /\ NoTask.config.init = FALSE
        BY DEF NoTask
      <3>1. CASE Takes(q, p)
        <4>1. p.task.config.round = server.round /\ p.task.config.init = ~initialised
              /\ p.cached = q.cached
          BY <3>1 DEF Takes, RoundConfig
        <4>2. ~initialised => server.round = 0
          BY <1>0 DEF initialised, Counted
        <4>3. p.task.config.init => ~initialised
          BY <4>1
        <4> QED BY <1>0, <4>1, <4>2, <4>3 DEF Earlier
      <3>2. CASE Stops(j, q, p)
        BY <1>0, <3>0, <3>2 DEF Stops, Earlier
      <3>3. CASE Reads(q, p)
        BY <3>3 DEF Reads, Earlier
      <3>4. CASE Makes(q, p) \/ Offers(q, p) \/ Gets(q, p) \/ Works(q, p) \/ Uploads(j, q, p)
        BY <3>4 DEF Makes, Offers, Gets, Works, Uploads, Earlier
      <3> QED BY <2>1, <3>1, <3>2, <3>3, <3>4 DEF Moves
    <2>5. \A k \in Job : job'[k].cluster = job[k].cluster
      BY <2>1, <2>3
    <2>6. ASSUME NEW r \in Round, NEW c \in Cluster
          PROVE  /\ r > server.round => blobs'.delta[r][c] = {}
                 /\ \A d, e \in blobs'.delta[r][c] : job[d.by].cluster = c /\ d = e
      <3>1. CASE blobs'.delta = blobs.delta
        BY <3>1 DEF Earlier
      <3>2. CASE Uploads(j, q, p)
        <4> DEFINE n == {[of |-> q.reference, by |-> j]}
        <4>1. blobs'.delta[r][c] = IF r = q.task.config.round /\ c = q.cluster
                                   THEN n ELSE blobs.delta[r][c]
          BY <1>0, <3>2 DEF Uploads, Typed
        <4>2. CASE r = q.task.config.round /\ c = q.cluster
          <5>1. q.task.config.round <= server.round /\ q.task.config.round \in Nat
            BY <1>0 DEF Earlier
          <5> QED BY <1>0, <4>1, <4>2, <5>1
        <4>3. CASE ~(r = q.task.config.round /\ c = q.cluster)
          BY <4>1, <4>3 DEF Earlier
        <4> QED BY <4>2, <4>3
      <3> QED BY <1>0, <2>1, <3>1, <3>2 DEF Moves, Takes, Makes, Offers, Gets, Reads, Works, Stops, Typed
    <2>7. \A r \in Round, c \in Cluster : \A d \in blobs'.delta[r][c] : d.by \in Job
      <3>1. Typed'
        BY <1>8, TypedStep DEF Basis, Next, JobActs
      <3> QED BY <3>1 DEF Typed, Delta
    <2> QED BY <2>2, <2>3, <2>4, <2>5, <2>6, <2>7 DEF Earlier
  <1>9. CASE UNCHANGED vars
    BY <1>9 DEF vars, Earlier
  <1> QED BY <1>1, <1>2, <1>3, <1>4, <1>5, <1>6, <1>7, <1>8, <1>9
          DEF Next, Serve, JobActs

\* What a step leaves of the server's model: merges, the counting of one, and
\* restarts included.
LEMMA MeasuredStarts == Init => Measured
  BY DEF Init, Load, Measured

LEMMA MeasuredStep ==
  ASSUME FilesWritten, Basis, NotBefore, Earlier, Measured, [Next]_vars
  PROVE  Measured'
  <1>0. /\ Typed /\ Counted /\ server.round \in Nat /\ server.round \in Round /\ Round \subseteq Nat
        /\ \A j \in Job : job[j].task.config.round \in Nat /\ job[j].cached.round \in Nat
        /\ disk.meta.saved => disk.weights \in DOMAIN lineage
    <2>1. \A j \in Job : job[j].task.config.round \in Round /\ job[j].cached.round \in Round
      BY DEF Basis, Typed, Process, Task, Config
    <2> QED BY <2>1, RoundsAreNumbers DEF Basis, Round, Counted, Typed, Server
  <1>1. CASE \/ \E asked \in SUBSET Job : configure_fit(asked)
             \/ ClosePhase \/ SkipSeed \/ NothingToMerge \/ Kill
    <2>1. /\ UNCHANGED <<disk, blobs, job, lineage, server.round>>
          /\ server.at \notin {"replaced", "rolled"} /\ server'.at \notin {"replaced", "rolled"}
      BY <1>0, <1>1 DEF configure_fit, ClosePhase, SkipSeed, NothingToMerge, Kill, Typed, Server,
         FilesWritten
    <2>2. Current' = Current
      BY <2>1 DEF Current
    <2> QED BY <2>1, <2>2 DEF Measured
  <1>2. CASE initialise_from_file \/ SaveSeed
    <2>1. server'.round = 0
      BY <1>0, <1>2 DEF initialise_from_file, SaveSeed, initialised, Counted, Typed, Server
    <2> QED BY <2>1 DEF Measured
  <1>3. CASE PublishSeed \/ PublishMerged
    <2>1. /\ blobs'.global[server.round] = disk.weights
          /\ server.at \in {"seeded", "saved"} /\ server'.at \in {"ready", "published"}
          /\ server'.round = server.round /\ blobs'.delta = blobs.delta
          /\ UNCHANGED <<disk, job, lineage>>
      BY <1>3, LinkFacts
    <2>2. Current' = Current /\ Current = disk.weights
      BY <2>1 DEF Current
    <2> QED BY <2>1, <2>2 DEF Measured
  <1>4. CASE _prune
    <2>1. /\ \A r \in Round : blobs'.global[r] = IF Kept(r) THEN blobs.global[r] ELSE None
          /\ \A r \in Round, c \in Cluster : blobs'.delta[r][c] = {}
          /\ server.at = "published" /\ server'.at = "idle" /\ server'.round = server.round
          /\ UNCHANGED <<disk, job, lineage>>
      BY <1>4, PruneFacts
    <2>2. Current' = Current
      BY <2>1 DEF Current
    <2>3. blobs'.global[server.round] \in {blobs.global[server.round], None}
      BY <1>0, <2>1
    <2> QED BY <1>0, <2>1, <2>2, <2>3 DEF Measured
  <1>5. CASE merge
    <2>1. /\ server.at = "ready" /\ server'.at = "replaced" /\ server'.round = server.round
          /\ lineage'[disk'.weights].from = disk.weights /\ UNCHANGED <<blobs, job>>
      BY <1>0, <1>5, MergeFacts, MergeMakes
    <2>2. Current' = Current
      BY <2>1 DEF Current
    <2> QED BY <2>1, <2>2 DEF Measured
  <1>6. CASE RollMomentum
    <2>1. /\ server.at = "replaced" /\ server'.at = "rolled" /\ server'.round = server.round
          /\ disk'.weights = disk.weights /\ UNCHANGED <<blobs, job, lineage>>
      BY <1>0, <1>6 DEF RollMomentum, Typed, Server
    <2>2. Current' = Current
      BY <2>1 DEF Current
    <2> QED BY <2>1, <2>2 DEF Measured
  <1>7. CASE SaveMeta
    <2>1. /\ server'.round = server.round + 1 /\ server.round + 1 \in Round
          /\ UNCHANGED <<blobs, job>>
      BY <1>7, SaveFacts
    <2> DEFINE n == server.round + 1
    <2>2. blobs.global[n] = None /\ \A c \in Cluster : blobs.delta[n][c] = {}
      BY <1>0, <2>1 DEF NotBefore, Earlier
    <2>3. \A j \in Job : job[j].task.config.round # n /\ job[j].cached.round # n
      BY <1>0 DEF Earlier
    <2> QED BY <2>1, <2>2, <2>3 DEF Measured
  <1>8. CASE Restart
    <2>1. /\ server.at = "down" /\ server'.at = "idle" /\ server'.round = server.round
          /\ UNCHANGED <<disk, blobs, job, lineage>>
      BY <1>0, <1>8 DEF Restart, Load, Counted
    <2>2. Current' = Current
      BY <2>1 DEF Current
    <2> QED BY <2>1, <2>2 DEF Measured
  <1>9. ASSUME NEW j \in Job, JobActs(j), server.round >= 1
        PROVE  Measured'
    <2> DEFINE q == job[j]
    <2>1. PICK p \in Process' : job' = [job EXCEPT ![j] = p] /\ Moves(j, job[j], p)
      BY <1>9, ProcessMoves DEF Basis
    <2>2. /\ disk' = disk /\ server'.at = server.at /\ server'.round = server.round
          /\ blobs'.global = blobs.global
          /\ \A v \in DOMAIN lineage : lineage'[v] = lineage[v]
      BY <1>9, ProcessFrame
    <2>3. /\ \A k \in Job \ {j} : job'[k] = job[k]
          /\ job'[j] = p
      BY <1>0, <2>1 DEF Typed
    <2>4. Current' = Current
      <3>1. server.at \in {"replaced", "rolled"} => disk.meta.saved
        BY <1>0 DEF Counted
      <3> QED BY <1>0, <2>2, <3>1 DEF Current
    <2>5. /\ p.at \in {"reading", "staged", "training", "uploading"}
               /\ p.task.config.round = server.round => p.reference = Current
          /\ p.cached.round = server.round => p.cached.model \in {None, Current}
      <3>1. CASE Takes(q, p)
        BY <1>9, <3>1 DEF Takes, Measured
      <3>2. CASE Makes(q, p)
        BY <1>9, <3>2 DEF Makes, Measured
      <3>3. CASE Offers(q, p)
        <4>1. q.task.config.round = 0 /\ p.task = q.task /\ p.cached = q.cached
          BY <3>3 DEF Offers, Earlier
        <4> QED BY <1>9, <4>1 DEF Measured
      <3>4. CASE Gets(q, p)
        BY <1>9, <3>4 DEF Gets, Measured
      <3>5. CASE Reads(q, p)
        BY <1>9, <3>5 DEF Reads, Measured
      <3>6. CASE Works(q, p) \/ Uploads(j, q, p)
        BY <1>9, <3>6 DEF Works, Uploads, Measured
      <3>7. CASE Stops(j, q, p)
        BY <1>9, <3>7 DEF Stops, Measured
      <3> QED BY <2>1, <3>1, <3>2, <3>3, <3>4, <3>5, <3>6, <3>7 DEF Moves
    <2>6. ASSUME NEW c \in Cluster, NEW d \in blobs'.delta[server.round][c]
          PROVE  d.of = Current
      <3>1. CASE blobs'.delta = blobs.delta
        BY <1>9, <2>6, <3>1 DEF Measured
      <3>2. CASE Uploads(j, q, p)
        <4> DEFINE n == {[of |-> q.reference, by |-> j]}
        <4>1. blobs'.delta[server.round][c] =
                IF server.round = q.task.config.round /\ c = q.cluster
                THEN n ELSE blobs.delta[server.round][c]
          BY <1>0, <3>2 DEF Uploads, Typed
        <4>2. q.at = "uploading"
          BY <3>2 DEF Uploads
        <4>3. CASE server.round = q.task.config.round /\ c = q.cluster
          <5>1. q.reference = Current
            BY <1>9, <4>2, <4>3 DEF Measured
          <5>2. d.of = q.reference
            BY <2>6, <4>1, <4>3
          <5> QED BY <5>1, <5>2
        <4>4. CASE ~(server.round = q.task.config.round /\ c = q.cluster)
          BY <1>9, <2>6, <4>1, <4>4 DEF Measured
        <4> QED BY <4>3, <4>4
      <3> QED BY <1>0, <2>1, <3>1, <3>2 DEF Moves, Takes, Makes, Offers, Gets, Reads, Works, Stops, Typed
    <2>7. blobs'.global[server.round] \in {None, Current}
      BY <1>9, <2>2 DEF Measured
    <2> QED BY <2>2, <2>3, <2>4, <2>5, <2>6, <2>7 DEF Measured
  <1>10. ASSUME NEW j \in Job, JobActs(j), ~(server.round >= 1)
         PROVE  Measured'
    BY <1>10, ProcessFrame DEF Measured
  <1>11. CASE UNCHANGED vars
    <2>1. Current' = Current
      BY <1>11 DEF vars, Current
    <2> QED BY <1>11, <2>1 DEF vars, Measured
  <1> QED BY <1>1, <1>2, <1>3, <1>4, <1>5, <1>6, <1>7, <1>8, <1>9, <1>10, <1>11
          DEF Next, Serve, JobActs

\* As many deltas are merged as reports are counted, and each was measured on
\* the server's model.
LEMMA FreshDeltas ==
  ASSUME Basis, Earlier, Measured
  PROVE  /\ Cardinality(UNION {DeltasOf(p) : p \in Fresh}) = Cardinality(Fresh)
         /\ server.round >= 1 => \A d \in UNION {DeltasOf(p) : p \in Fresh} : d.of = Current
  <1> DEFINE D == UNION {DeltasOf(p) : p \in Fresh}
             f == [p \in Fresh |-> CHOOSE d \in DeltasOf(p) : TRUE]
  <1>1. ASSUME NEW p \in Fresh
        PROVE  /\ p.job \in Job /\ job[p.job].cluster \in Cluster /\ p.base = server.round
               /\ server.round \in Round
               /\ DeltasOf(p) = blobs.delta[server.round][job[p.job].cluster]
               /\ DeltasOf(p) # {}
    <2>1. p \in Report /\ p.base = server.round /\ DeltasOf(p) # {}
      BY DEF Fresh, Contributions, Uploaded, Basis, Typed, Server
    <2>2. p.job \in Job /\ p.base \in Round
      BY <2>1 DEF Report
    <2> QED BY <2>1, <2>2 DEF DeltasOf, Basis, Typed, Process
  <1>2. \A p \in Fresh : f[p] \in DeltasOf(p)
    BY <1>1
  <1>3. \A p \in Fresh : \A d, e \in DeltasOf(p) : d = e /\ job[d.by].cluster = job[p.job].cluster
    BY <1>1 DEF Earlier
  <1>4. \A p, q \in Fresh : job[p.job].cluster = job[q.job].cluster => p = q
    BY DEF Fresh, Contributions
  <1> HIDE DEF f
  <1>5. f \in [Fresh -> D]
    <2>1. f = [p \in Fresh |-> f[p]]
      BY DEF f
    <2>2. \A p \in Fresh : f[p] \in D
      BY <1>2
    <2> QED BY <2>1, <2>2
  <1>6. \A p, q \in Fresh : f[p] = f[q] => p = q
    BY <1>2, <1>3, <1>4
  <1>7. \A d \in D : \E p \in Fresh : f[p] = d
    BY <1>2, <1>3
  <1>8. f \in Bijection(Fresh, D)
    <2> HIDE DEF D
    <2>1. f \in Injection(Fresh, D)
      BY <1>5, <1>6 DEF Injection, IsInjective
    <2>2. f \in Surjection(Fresh, D)
      BY <1>5, <1>7 DEF Surjection
    <2> QED BY <2>1, <2>2 DEF Bijection
  <1>9. Cardinality(D) = Cardinality(Fresh)
    <2> HIDE DEF D
    <2>1. ExistsBijection(Fresh, D)
      BY <1>8 DEF ExistsBijection
    <2> QED BY <2>1, FreshFinite, FS_Bijection DEF Basis
  <1>10. server.round >= 1 => \A d \in D : d.of = Current
    BY <1>1 DEF Measured
  <1> QED BY <1>9, <1>10

MergedOf(e) ==
    /\ Cardinality(e.deltas) = e.shares
    /\ e.round > 1 => \A d \in e.deltas : d.of = e.from

LEMMA MergedStep ==
  ASSUME Basis, Agree, Earlier, Measured, \A v \in DOMAIN lineage : MergedOf(lineage[v]),
         [Next]_vars
  PROVE  \A v \in DOMAIN lineage' : MergedOf(lineage'[v])
  <1>1. CASE merge
    <2>1. /\ \A v \in DOMAIN lineage : lineage'[v] = lineage[v]
          /\ lineage'[disk'.weights] = MergeEntry
          /\ DOMAIN lineage' = DOMAIN lineage \cup {disk'.weights}
          /\ MergeEntry.round = RoundOf(disk.weights) + 1 /\ MergeEntry.from = disk.weights
      BY <1>1, MergeMakes
    <2>2. server.at = "ready" /\ disk.meta.saved
      BY <1>1, MergeFacts DEF Basis
    <2>3. Current = disk.weights /\ RoundOf(disk.weights) = server.round
      BY <2>2 DEF Current, Agree
    <2>4. server.round \in Nat
      BY RoundsAreNumbers DEF Basis
    <2>5. MergeEntry.deltas = UNION {DeltasOf(p) : p \in Fresh} /\ MergeEntry.shares = Cardinality(Fresh)
      BY DEF MergeEntry
    <2>6. MergedOf(MergeEntry)
      <3>1. Cardinality(MergeEntry.deltas) = MergeEntry.shares
        BY <2>5, FreshDeltas
      <3>2. MergeEntry.round > 1 => server.round >= 1
        BY <2>1, <2>3, <2>4
      <3>3. server.round >= 1 => \A d \in MergeEntry.deltas : d.of = MergeEntry.from
        BY <2>1, <2>3, <2>5, FreshDeltas
      <3> QED BY <3>1, <3>2, <3>3 DEF MergedOf
    <2> QED BY <2>1, <2>6
  <1>2. ASSUME NEW j \in Job, JobActs(j)
        PROVE  \A v \in DOMAIN lineage' : MergedOf(lineage'[v])
    <2> DEFINE e == [round |-> 0, from |-> None, deltas |-> {}, shares |-> 0]
    <2>1. /\ \A v \in DOMAIN lineage : lineage'[v] = lineage[v]
          /\ \A v \in DOMAIN lineage' : v \in DOMAIN lineage \/ lineage'[v] = e
      BY <1>2, ProcessFrame
    <2>2. MergedOf(e)
      BY FS_EmptySet DEF MergedOf
    <2> HIDE DEF e
    <2> QED BY <2>1, <2>2
  <1>3. CASE ~merge /\ \A j \in Job : ~JobActs(j)
    <2>1. lineage' = lineage
      BY <1>3 DEF Next, Serve, JobActs, vars, configure_fit, ClosePhase, SkipSeed,
         initialise_from_file, SaveSeed, PublishSeed, NothingToMerge, RollMomentum, SaveMeta,
         PublishMerged, _prune, Kill, Restart
    <2> QED BY <2>1
  <1> QED BY <1>1, <1>2, <1>3

\* Whatever is merged into a model was measured on that model, and is counted
\* once: however late a report or a delta comes, whichever server counted its
\* phase, and whoever else reports under the same cluster id.
THEOREM MergesStayOnTheirBase ==
  ASSUME FilesWritten
  PROVE  Spec => []MergesMeetTheirBase
  <1> DEFINE Merged == \A v \in DOMAIN lineage : MergedOf(lineage[v])
  <1>1. Merged => MergesMeetTheirBase
    BY DEF MergesMeetTheirBase, MergedOf
  <1>2. Init => Merged
    BY DEF Init
  <1>3. Basis /\ Agree /\ Earlier /\ Measured /\ Merged /\ [Next]_vars => Merged'
    BY MergedStep
  <1>4. Basis /\ Agree /\ [Next]_vars => Agree'
    BY AgreeStep
  <1>5. Basis /\ NotBefore /\ Earlier /\ Measured /\ [Next]_vars => Measured'
    BY MeasuredStep
  <1> HIDE DEF Merged
  <1> QED BY <1>1, <1>2, <1>3, <1>4, <1>5, AgreeStarts, NotBeforeStarts, NotBeforeStep,
             EarlierStarts, EarlierStep, MeasuredStarts, BasisHolds, PTL DEF Spec

=============================================================================
