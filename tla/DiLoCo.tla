------------------------------- MODULE DiLoCo -------------------------------
(***************************************************************************)
(* DiLoCo inside one allocation (src/src/pww/diloco.py), driven by the     *)
(* CIFAR trainer (train_cifar.py) and kept by checkpoint.py.  Replicas     *)
(* train apart for InnerSteps steps and then average how far they went; a  *)
(* checkpoint holds the shared model, and the outer optimizer's state lies *)
(* in files beside it.  The scheduler may kill the job between any two     *)
(* steps, and the next job of the chain resumes (--resume auto).           *)
(*                                                                         *)
(* A set of parameters is the set of inner steps <<replica, n>> that went  *)
(* into it, <<replica, 0>> its initialisation; momentum is the set of the  *)
(* steps whose deltas it accumulated.  Steps do not make a theta alone:    *)
(* each outer step also moves it by the momentum it finds, so theta comes  *)
(* with its pulls, the momenta that moved it and when.  A shard stands for *)
(* its model.  Buffers travel as the parameters do; the inner optimizer,   *)
(* the learning rates and the metrics are left out.                        *)
(***************************************************************************)
EXTENDS Integers, FiniteSets

CONSTANTS
    Replicas,       \* k, --diloco-replicas
    Slots,          \* ranks_per_replica
    InnerSteps,     \* H, --diloco-inner-steps
    StepsPerEpoch,  \* the same on every rank: the sampler has drop_last=True
    Epochs,
    Intervals,      \* the values of --save-every to consider
    MaxKills        \* bound: how often the job is killed

ASSUME DiLoCoAssumption ==
    /\ {Replicas, Slots, InnerSteps, StepsPerEpoch, Epochs} \subseteq Nat \ {0}
    /\ Intervals \subseteq Nat \ {0} /\ MaxKills \in Nat

VARIABLES
    sharded,   \* --sharded-checkpoint
    split,     \* --parallel fsdp: a rank holds the shard of its slot
    every,     \* --save-every
    rank,      \* what each process holds
    disk,      \* the newest checkpoint, and the outer states
    kills,     \* ghost: kills so far
    lost,      \* ghost: inner steps a resume could not get back
    torn       \* ghost: what resumes found of saves that were cut short

flags == <<sharded, split, every>>

vars == <<flags, rank, disk, kills, lost, torn>>

-----------------------------------------------------------------------------
(* The layout.                                                             *)

Rank == 0 .. Replicas * Slots - 1

ReplicaOf(r) == r \div Slots
SlotOf(r)    == r % Slots

InnerGroup(r) == {q \in Rank : ReplicaOf(q) = ReplicaOf(r)}
OuterGroup(r) == {q \in Rank : SlotOf(q) = SlotOf(r)}

Trained == (0 .. Replicas - 1) \X (0 .. Epochs * StepsPerEpoch)

Place == {"batch", "outer", "flush", "reduce", "eval", "save", "shards", "meta",
          "barrier", "state", "cleanup", "exited", "down"}

NoCheckpoint == [model |-> {}, pulls |-> {}, epoch |-> -1, whole |-> TRUE]
NoOuterState == [momentum |-> {}, outer |-> 0, total |-> 0, counter |-> -1]

-----------------------------------------------------------------------------
(* Starting, and starting again.                                           *)

(* DDP equalises within a replica only. *)
Seed(r) == {<<ReplicaOf(r), 0>>}

(* sync_from_model without the broadcast. *)
Equalised_(r, model) == model[r]

(* sync_from_model: everyone takes global rank 0's parameters, or under    *)
(* a split model those of the rank of replica 0 that has the same slot.    *)
Equalised(r, model) == model[IF split THEN SlotOf(r) ELSE 0]

(* Everyone looks for a file of its own, whoever wrote one. *)
StateFile_(r) == r

(* _outer_state_path.                                                      *)
StateFile(r) == IF sharded THEN r ELSE 0

Process(theta, pulls, epoch, state, told) ==
    [at |-> IF epoch < Epochs THEN "batch" ELSE "cleanup", epoch |-> epoch, step |-> 0,
     model |-> theta, theta |-> theta, pulls |-> pulls, stash |-> {},
     momentum |-> state.momentum, outer |-> state.outer, total |-> state.total,
     counter |-> state.counter, told |-> told]

Cold == [NoOuterState EXCEPT !.counter = 0]

Fresh == [r \in Rank |-> Process(Equalised(r, [q \in Rank |-> Seed(q)]), {}, 0, Cold, FALSE)]

LoadedTheta(r) == Equalised(r, [q \in Rank |-> disk.saved.model])

(* Whatever outer state is there belongs. *)
Restored_(r) ==
    LET state == disk.outer[StateFile(r)]
    IN  Process(LoadedTheta(r), disk.saved.pulls, disk.saved.epoch,
                IF state = NoOuterState THEN Cold ELSE state, FALSE)

(* The outer state is restored when it is there; one that counts other     *)
(* inner steps than the checkpoint is warned about, and used.              *)
Restored(r) ==
    LET state == disk.outer[StateFile(r)]
    IN  IF state = NoOuterState
        THEN Process(LoadedTheta(r), disk.saved.pulls, disk.saved.epoch, Cold, TRUE)
        ELSE Process(LoadedTheta(r), disk.saved.pulls, disk.saved.epoch, state,
                     state.total # disk.saved.epoch * StepsPerEpoch)

StepsUntil(epoch) == (0 .. Replicas - 1) \X (1 .. epoch * StepsPerEpoch)

(* What is wrong with what the ranks resumed from: no meta.json, outer     *)
(* states at different places of a phase, or of different saves.           *)
Tears ==
    {x \in {"meta"} : disk.saved.epoch = 0}
        \cup {x \in {"states"} : sharded /\ \E q, r \in Rank :
                  rank'[q].counter # rank'[r].counter}
        \cup {x \in {"momenta"} : sharded /\ \E q, r \in Rank :
                  \/ rank'[q].momentum # rank'[r].momentum
                  \/ rank'[q].total # rank'[r].total}

Resume ==
    /\ \A r \in Rank : rank[r].at = "down"
    /\ disk.saved.whole
    /\ IF disk.saved = NoCheckpoint
       THEN rank' = Fresh /\ lost' = {} /\ UNCHANGED torn
       ELSE /\ rank' = [r \in Rank |-> Restored(r)]
            /\ lost' = StepsUntil(disk.saved.epoch) \ disk.saved.model
            /\ torn' = torn \cup Tears
    /\ UNCHANGED <<flags, disk, kills>>

Kill ==
    /\ \A r \in Rank : rank[r].at # "down"
    /\ \E r \in Rank : rank[r].at # "exited"
    /\ kills < MaxKills
    /\ kills' = kills + 1
    /\ rank' = [r \in Rank |-> [rank[r] EXCEPT !.at = "down"]]
    /\ UNCHANGED <<flags, disk, lost, torn>>

-----------------------------------------------------------------------------
(* An epoch of training.                                                   *)

AllAt(group, places) == \A r \in group : rank[r].at \in places

Move(group, Moved(_)) ==
    rank' = [r \in Rank |-> IF r \in group THEN Moved(rank[r]) ELSE rank[r]]

Quiet == UNCHANGED <<flags, disk, kills, lost, torn>>

IsLast(p) == p.epoch + 1 = Epochs

NextBatch(p) == [p EXCEPT !.at = IF p.step < StepsPerEpoch THEN "batch" ELSE "reduce"]

(* global_model evaluates whatever the replica holds. *)
InGlobalModel_(p) == [p EXCEPT !.at = "eval", !.stash = p.model]

(* global_model puts theta in the model's place, and keeps what was there. *)
InGlobalModel(p) == [p EXCEPT !.at = "eval", !.stash = p.model, !.model = p.theta]

(* Its `finally' puts it back; the next epoch begins, or the run ends.     *)
LeaveGlobalModel(p) ==
    [p EXCEPT !.at = IF IsLast(p) THEN "cleanup" ELSE "batch",
              !.epoch = @ + 1, !.step = 0, !.model = p.stash, !.stash = {}]

(* inner_step: every H-th completed step is a boundary.                    *)
Counted(p) ==
    LET q == [p EXCEPT !.counter = @ + 1, !.total = @ + 1]
    IN  IF q.counter < InnerSteps THEN NextBatch(q) ELSE [q EXCEPT !.at = "outer"]

(* The gradient all-reduce holds the ranks of a replica together.          *)
InnerStep(replica) ==
    LET group == {r \in Rank : ReplicaOf(r) = replica}
        Batch(p) == [p EXCEPT !.step = @ + 1, !.model = @ \cup
                        {<<replica, p.epoch * StepsPerEpoch + p.step + 1>>}]
    IN  /\ AllAt(group, {"batch"})
        /\ Move(group, LAMBDA p : Counted(Batch(p)))
        /\ Quiet

(* outer_step: the deltas are averaged over the rank's slot in every       *)
(* replica; theta moves by them and by the rank's own momentum, and        *)
(* replaces the parameters.                                                *)
OuterStep(slot) ==
    LET group == OuterGroup(slot)
        travelled == UNION {rank[r].model \ rank[r].theta : r \in group}
        Stepped(p) ==
            LET theta == p.theta \cup travelled
            IN  [p EXCEPT !.theta = theta, !.model = theta,
                          !.pulls = @ \cup {<<p.total, p.momentum>>},
                          !.momentum = @ \cup travelled, !.counter = 0, !.outer = @ + 1]
    IN  /\ AllAt(group, {"outer", "flush"})
        /\ Move(group, LAMBDA p : IF p.at = "outer" THEN NextBatch(Stepped(p))
                                  ELSE InGlobalModel(Stepped(p)))
        /\ Quiet

(* The tail of an inner phase is never folded in. *)
Finish_(p) == InGlobalModel(p)

(* finish, after the last epoch only.                                      *)
Finish(p) ==
    IF IsLast(p) /\ p.counter # 0 THEN [p EXCEPT !.at = "flush"] ELSE InGlobalModel(p)

EndOfEpoch ==
    /\ AllAt(Rank, {"reduce"})
    /\ Move(Rank, Finish)
    /\ Quiet

Saves(p) == (p.epoch + 1) % every = 0 \/ IsLast(p)

(* Rank 0 alone writes a consolidated checkpoint.                          *)
Evaluate ==
    /\ AllAt(Rank, {"eval"})
    /\ rank' = [r \in Rank |->
         LET p == rank[r] IN
         IF ~Saves(p) THEN LeaveGlobalModel(p)
         ELSE [p EXCEPT !.at = IF sharded \/ r = 0 THEN "save" ELSE "barrier"]]
    /\ Quiet

-----------------------------------------------------------------------------
(* Checkpoints.                                                            *)

(* Written beside and renamed; then all meet.                              *)
SaveConsolidated ==
    /\ ~sharded /\ rank[0].at = "save"
    /\ disk' = [disk EXCEPT !.saved = [model |-> rank[0].model, pulls |-> rank[0].pulls,
                                       epoch |-> rank[0].epoch + 1, whole |-> TRUE]]
    /\ Move({0}, LAMBDA p : [p EXCEPT !.at = "barrier"])
    /\ UNCHANGED <<flags, kills, lost, torn>>

Barrier ==
    /\ AllAt(Rank, {"barrier"})
    /\ rank' = [r \in Rank |-> IF r = 0 THEN [rank[r] EXCEPT !.at = "state"]
                               ELSE LeaveGlobalModel(rank[r])]
    /\ Quiet

(* Every rank writes its shards into the directory; it cannot be loaded    *)
(* before all have, and says no epoch before rank 0 wrote meta.json.       *)
SaveShards ==
    /\ sharded /\ AllAt(Rank, {"save"})
    /\ disk' = [disk EXCEPT !.saved.whole = FALSE]
    /\ Move(Rank, LAMBDA p : [p EXCEPT !.at = "shards"])
    /\ UNCHANGED <<flags, kills, lost, torn>>

ShardsSaved ==
    /\ AllAt(Rank, {"shards"})
    /\ \E r \in Rank :
         disk' = [disk EXCEPT !.saved = [model |-> rank[r].model, pulls |-> rank[r].pulls,
                                         epoch |-> 0, whole |-> TRUE]]
    /\ rank' = [r \in Rank |-> [rank[r] EXCEPT !.at = IF r = 0 THEN "meta" ELSE "state"]]
    /\ UNCHANGED <<flags, kills, lost, torn>>

SaveMeta ==
    /\ rank[0].at = "meta"
    /\ disk' = [disk EXCEPT !.saved.epoch = rank[0].epoch + 1]
    /\ Move({0}, LAMBDA p : [p EXCEPT !.at = "state"])
    /\ UNCHANGED <<flags, kills, lost, torn>>

(* _save_outer_state: rank 0's, or every rank's own.                       *)
SaveOuterState(r) ==
    LET p == rank[r] IN
    /\ p.at = "state"
    /\ disk' = [disk EXCEPT !.outer[StateFile(r)] =
                    [momentum |-> p.momentum, outer |-> p.outer, total |-> p.total,
                     counter |-> p.counter]]
    /\ Move({r}, LeaveGlobalModel)
    /\ UNCHANGED <<flags, kills, lost, torn>>

(* D.cleanup.                                                              *)
Cleanup ==
    /\ AllAt(Rank, {"cleanup"})
    /\ Move(Rank, LAMBDA p : [p EXCEPT !.at = "exited"])
    /\ Quiet

-----------------------------------------------------------------------------
(* Not with a split model in consolidated checkpoints (README).            *)
Init ==
    /\ sharded \in BOOLEAN /\ split \in BOOLEAN /\ every \in Intervals
    /\ split => sharded
    /\ disk = [saved |-> NoCheckpoint, outer |-> [r \in Rank |-> NoOuterState]]
    /\ rank = Fresh
    /\ kills = 0 /\ lost = {} /\ torn = {}

Next ==
    \/ Resume \/ Kill
    \/ \E replica \in 0 .. Replicas - 1 : InnerStep(replica)
    \/ \E slot \in 0 .. Slots - 1 : OuterStep(slot)
    \/ EndOfEpoch \/ Evaluate
    \/ SaveConsolidated \/ Barrier \/ SaveShards \/ ShardsSaved \/ SaveMeta
    \/ \E r \in Rank : SaveOuterState(r)
    \/ Cleanup

Spec == Init /\ [][Next]_vars

-----------------------------------------------------------------------------
(* Every record has its type.                                              *)
DiLoCoTypeOK ==
    /\ sharded \in BOOLEAN /\ split \in BOOLEAN /\ every \in Intervals
    /\ kills \in 0 .. MaxKills /\ torn \subseteq {"meta", "states", "momenta"}
    /\ lost \subseteq Trained
    /\ \A r \in Rank :
        /\ rank[r].at \in Place /\ rank[r].epoch \in 0 .. Epochs
        /\ rank[r].step \in 0 .. StepsPerEpoch /\ rank[r].counter \in 0 .. InnerSteps
        /\ rank[r].model \cup rank[r].theta \cup rank[r].stash \subseteq Trained
    /\ disk.saved.model \subseteq Trained

Running == \A r \in Rank : rank[r].at # "down"

(* "theta(t) is identical on every rank" (diloco.global_model): two ranks  *)
(* that have come equally far hold one shared model, though each computed  *)
(* it for itself, from its own initialisation and momentum, or its own     *)
(* files: it is made of the same steps, and moved by the same momenta      *)
(* unless a resume found the outer states of different saves.              *)
OneTheta ==
    \A q, r \in Rank :
        /\ Running /\ "states" \notin torn
        /\ <<rank[q].epoch, rank[q].step, rank[q].at>> = <<rank[r].epoch, rank[r].step, rank[r].at>>
        => /\ rank[q].theta = rank[r].theta
           /\ "momenta" \in torn \/ rank[q].pulls = rank[r].pulls

(* A checkpoint "describes the model that was trained": every step in it   *)
(* was folded in from all the replicas, and none is one replica's drift.   *)
CheckpointIsTheta ==
    "states" \notin torn => \A v \in disk.saved.model, p \in 0 .. Replicas - 1 :
                  v[2] > 0 => <<p, v[2]>> \in disk.saved.model

(* "momentum does not belong to these weights" is said whenever it is so:  *)
(* a run that was not warned has in its momentum what is in theta.  Not so *)
(* once a sharded checkpoint was resumed without its meta.json, or with    *)
(* the ranks at different places of a phase.                               *)
MomentumBelongs ==
    \A r \in Rank :
        Running /\ torn \subseteq {"momenta"} /\ ~rank[r].told =>
            rank[r].momentum = rank[r].theta \ {<<0, 0>>}

(* A run that ends has folded in every step of every replica but those     *)
(* that resumes lost, and each resume loses less than a phase of each.     *)
AllWorkIsFolded ==
    /\ AllAt(Rank, {"exited"}) /\ "states" \notin torn =>
         \A r \in Rank : rank[r].model = {<<0, 0>>} \cup (StepsUntil(Epochs) \ lost)
    /\ Cardinality(lost) <= kills * Replicas * (InnerSteps - 1)

(* "It must be reached by every rank the same number of times": nobody     *)
(* waits in a collective that the others have passed, unless the outer     *)
(* states of a killed save put the ranks at different places of a phase.   *)
NobodyWaitsAlone ==
    \/ "states" \in torn \/ ~Running \/ AllAt(Rank, {"exited"})
    \/ \E r \in Rank : rank[r].at \in {"meta", "state"}
    \/ ~sharded /\ rank[0].at = "save"
    \/ \E r \in Rank : AllAt(InnerGroup(r), {"batch"}) \/ AllAt(OuterGroup(r), {"outer", "flush"})
    \/ \E place \in {"reduce", "eval", "barrier", "shards", "cleanup"} : AllAt(Rank, {place})
    \/ sharded /\ AllAt(Rank, {"save"})

=============================================================================
