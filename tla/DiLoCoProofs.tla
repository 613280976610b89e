---------------------------- MODULE DiLoCoProofs ----------------------------
(***************************************************************************)
(* What DiLoCo promises of the shared model, of its checkpoints, of the    *)
(* momentum, of the work that is folded in and of its collectives, proved  *)
(* for any layout of ranks, any lengths, any saving interval and any       *)
(* number of kills.                                                        *)
(*                                                                         *)
(* The invariant Inv rests on two numbers per rank: the inner steps it has *)
(* taken (Done) and those its theta accounts for (Folded).  Ranks that     *)
(* account for the same steps have the same theta; two that do not are one *)
(* that waits for an outer step and one that is past it, whose theta is    *)
(* what the other's will be (Aligned).  That holds unless a resume found   *)
(* outer states at different places of a phase; the rest holds after such  *)
(* a resume too.  What theta is made of says where it is only together     *)
(* with the momenta that moved it: ranks that agree were moved by the same *)
(* ones, and one past an outer step by what the other will find (Pulled),  *)
(* unless a resume found the momenta of different saves.                   *)
(***************************************************************************)
EXTENDS DiLoCo, FiniteSetTheorems, TLAPS

Replica == 0 .. Replicas - 1
Slot    == 0 .. Slots - 1

(* The inner steps a rank has taken, and those its theta accounts for.     *)
Done(p)   == p.epoch * StepsPerEpoch + p.step
Folded(p) == Done(p) - p.counter

InModel == {"eval", "save", "shards", "meta", "barrier", "state"}
Ended   == InModel \cup {"flush"}

(* The epochs it has seen the end of.                                      *)
Passed(p) == IF p.at \in Ended THEN p.epoch + 1 ELSE p.epoch

(* The steps of the phase it is in, and what they left in its model, which *)
(* global_model puts aside.                                                *)
Phase(p) == {n \in 1 .. Done(p) : n > Folded(p)}
Drift(r) == ({ReplicaOf(r)} \X Phase(rank[r])) \ lost
Kept(p)  == IF p.at \in InModel THEN p.stash ELSE p.model

Start == <<0, 0>>

Steps == Replica \X (1 .. Epochs * StepsPerEpoch)

Even(set) == \A v \in set, i \in Replica : v[2] > 0 => <<i, v[2]>> \in set

Belongs(momentum, theta) == momentum = theta \ {Start}

-----------------------------------------------------------------------------
(* The invariant.                                                          *)

Pulls == SUBSET (Nat \X SUBSET Trained)

ProcessT ==
    [at : Place, epoch : 0 .. Epochs, step : 0 .. StepsPerEpoch, model : SUBSET Trained,
     theta : SUBSET Trained, stash : SUBSET Trained, momentum : SUBSET Trained,
     pulls : Pulls, outer : Nat, total : Nat, counter : 0 .. InnerSteps, told : BOOLEAN]

SavedT == [model : SUBSET Trained, pulls : Pulls, epoch : -1 .. Epochs, whole : BOOLEAN]
OuterT == [momentum : SUBSET Trained, outer : Nat, total : Nat, counter : 0 .. InnerSteps - 1]

Typed ==
    /\ sharded \in BOOLEAN /\ split \in BOOLEAN /\ every \in Intervals
    /\ kills \in 0 .. MaxKills /\ torn \subseteq {"meta", "states", "momenta"}
    /\ lost \subseteq Steps
    /\ rank \in [Rank -> ProcessT]
    /\ disk \in [saved : SavedT, outer : [Rank -> OuterT \cup {NoOuterState}]]

(* A kill takes every rank.                                                *)
AllOrNone == Running \/ \A r \in Rank : rank[r].at = "down"

InTrainer(p) ==
    /\ p.at \in {"batch", "outer", "reduce"} \cup Ended
    /\ p.epoch < Epochs
    /\ p.at = "batch" => p.step < StepsPerEpoch
    /\ p.at = "outer" => p.step > 0
    /\ p.at = "outer" <=> p.counter = InnerSteps
    /\ p.at \notin {"batch", "outer"} => p.step = StepsPerEpoch
    /\ p.at = "flush" => p.counter > 0 /\ IsLast(p)
    /\ p.at \in InModel /\ IsLast(p) => p.counter = 0

AfterTraining(p) ==
    p.at \in {"cleanup", "exited"} /\ p.epoch = Epochs /\ p.step = 0 /\ p.counter < InnerSteps

Placed == \A r \in Rank : InTrainer(rank[r]) \/ AfterTraining(rank[r])

(* Ranks meet at the end of an epoch, and the ranks of a replica at each   *)
(* batch.                                                                  *)
Level ==
    \A q, r \in Rank :
        /\ Passed(rank[q]) = Passed(rank[r])
        /\ ReplicaOf(q) = ReplicaOf(r) => Done(rank[q]) = Done(rank[r])

(* Where the others are while a rank is somewhere in the end of an epoch.  *)
Company(q, r) ==
    /\ rank[r].at \in {"flush", "eval"} => rank[q].at \in {"flush", "eval"}
    /\ rank[r].at = "shards" => sharded /\ rank[q].at = "shards"
    /\ rank[r].at = "save" => IF sharded THEN rank[q].at = "save"
                              ELSE r = 0 /\ (q # 0 => rank[q].at = "barrier")
    /\ rank[r].at = "barrier" =>
           ~sharded /\ (rank[q].at = "barrier" \/ (q = 0 /\ rank[q].at = "save"))
    /\ rank[r].at = "meta" => sharded /\ r = 0
    /\ rank[r].at = "state" => sharded \/ r = 0
    /\ rank[r].at = "exited" => rank[q].at = "exited"

Together == \A q, r \in Rank : Company(q, r)

(* A theta has the start, none of the lost steps, and all others up to     *)
(* where the ranks of its outer group have folded theirs in; a model is a  *)
(* theta and the steps of the current phase.                               *)
ThetaOK(r) ==
    /\ Start \in rank[r].theta
    /\ rank[r].theta \subseteq {Start} \cup Steps
    /\ rank[r].theta \cap lost = {}
    /\ Kept(rank[r]) = rank[r].theta \cup Drift(r)
    /\ rank[r].at \in InModel => rank[r].model = rank[r].theta
    /\ \A v \in lost : v[2] <= Done(rank[r])
    /\ \A q \in OuterGroup(r) :
          /\ rank[q].theta = rank[r].theta
          /\ ({ReplicaOf(q)} \X (1 .. Folded(rank[q]))) \subseteq rank[r].theta \cup lost
    /\ AfterTraining(rank[r]) => rank[r].model = rank[r].theta

Thetas == \A r \in Rank : ThetaOK(r)

(* Ranks that agree have been moved by the same momenta, have the same     *)
(* momentum, and count the same inner steps of those they have taken: for  *)
(* as long as no resume found outer states of different saves.             *)
Matched == "momenta" \notin torn

Uncounted(p) == Done(p) - p.total

Alike(p, q) ==
    p.pulls = q.pulls /\ p.momentum = q.momentum /\ Uncounted(p) = Uncounted(q)

(* What the outer step that p waits for has done to q.                     *)
Pulled(p, q) ==
    /\ q.pulls = p.pulls \cup {<<p.total, p.momentum>>} /\ q.total = p.total
    /\ q.momentum = p.momentum \cup (((Replica \X Phase(p)) \ lost) \ p.theta)

(* A rank that waits for an outer step, and one that is past it.           *)
Behind(p, q) ==
    /\ \/ p.at = "outer" /\ q.at \in {"batch", "reduce"}
       \/ p.at = "flush" /\ q.at = "eval"
    /\ Done(p) = Done(q) /\ q.counter = 0
    /\ q.theta = p.theta \cup ((Replica \X Phase(p)) \ lost)
    /\ Matched => Pulled(p, q)

Same(p, q) ==
    /\ Folded(p) = Folded(q) /\ p.theta = q.theta
    /\ Matched => Alike(p, q)

Aligned ==
    \A q, r \in Rank :
        /\ Same(rank[q], rank[r]) \/ Behind(rank[q], rank[r]) \/ Behind(rank[r], rank[q])
        /\ SlotOf(q) = SlotOf(r) => Same(rank[q], rank[r])

(* Once the last phase is folded in, so is everything that was not lost.   *)
Finished(p) == (p.at \in InModel /\ IsLast(p)) \/ AfterTraining(p)

Complete ==
    \A r \in Rank : Finished(rank[r]) => Steps \subseteq rank[r].theta \cup lost

(* What was written is what the ranks hold.                                *)
Written(r) == rank[r].at \in {"meta", "state"} \/ (r = 0 /\ rank[r].at = "barrier")

JustSaved ==
    \A r \in Rank :
        Written(r) =>
            /\ disk.saved.model = rank[r].theta
            /\ disk.saved.epoch \in {0, Passed(rank[r])}

Sensible ==
    /\ disk.saved.epoch = -1 =>
           /\ disk.saved.model = {} /\ disk.saved.pulls = {}
           /\ \A f \in Rank : disk.outer[f] = NoOuterState
    /\ disk.saved.epoch # -1 => Start \in disk.saved.model
    /\ disk.saved.model \subseteq {Start} \cup Steps
    /\ \A r \in Rank : Written(r) => disk.saved.epoch # -1

(* Every step in a theta, in the checkpoint or lost is so in all replicas. *)
EvenHanded ==
    /\ Even(disk.saved.model) /\ Even(lost)
    /\ Running => \A r \in Rank : Even(rank[r].theta)

(* An outer state that counts all steps of the checkpoint belongs to it.   *)
(* No state counts more.                                                   *)
Filed(epoch, model) ==
    \A f \in Rank :
        /\ disk.outer[f].total <= epoch * StepsPerEpoch
        /\ disk.outer[f] # NoOuterState /\ disk.outer[f].total = epoch * StepsPerEpoch =>
               Belongs(disk.outer[f].momentum, model)

MomentumOK(r) ==
    /\ ~rank[r].told => rank[r].total = Done(rank[r])
    /\ rank[r].total <= Done(rank[r])
    /\ rank[r].total = Done(rank[r]) => Belongs(rank[r].momentum, rank[r].theta)
    /\ rank[r].at \in {"flush", "eval"} =>
         \A f \in Rank : disk.outer[f].total < Passed(rank[r]) * StepsPerEpoch
    /\ \A f \in Rank : disk.outer[f].total <= Passed(rank[r]) * StepsPerEpoch
    /\ rank[r].at \in InModel => Filed(Passed(rank[r]), rank[r].theta)

Momenta ==
    /\ disk.saved.epoch > 0 => Filed(disk.saved.epoch, disk.saved.model)
    /\ Running => \A r \in Rank : MomentumOK(r)

(* What a resume from here would lose.                                     *)
Missing(epoch) == StepsUntil(epoch) \ disk.saved.model

PerKill == Replicas * (InnerSteps - 1)
Allowed == (IF Running THEN kills + 1 ELSE kills) * PerKill

Few ==
    /\ Cardinality(lost) <= kills * PerKill
    /\ disk.saved.epoch # -1 => Cardinality(Missing(disk.saved.epoch)) <= Allowed
    /\ rank[0].at = "meta" => Cardinality(Missing(Passed(rank[0]))) <= Allowed

Structure == Placed /\ Level /\ Together

Whole  == "states" \notin torn
Intact == torn \subseteq {"momenta"}

Inv ==
    /\ Typed /\ AllOrNone /\ Sensible /\ Few
    /\ Running => Structure /\ Thetas
    /\ Whole => EvenHanded /\ (Running => Aligned /\ Complete /\ JustSaved)
    /\ Intact => Momenta

-----------------------------------------------------------------------------
(* Arithmetic and the layout.                                              *)

(* The bounds are positive.                                                *)
LEMMA Bounds ==
    /\ Replicas \in Nat /\ Replicas > 0 /\ Slots \in Nat /\ Slots > 0
    /\ InnerSteps \in Nat /\ InnerSteps > 0 /\ StepsPerEpoch \in Nat /\ StepsPerEpoch > 0
    /\ Epochs \in Nat /\ Epochs > 0 /\ MaxKills \in Nat
BY DiLoCoAssumption, SMT

(* Division with remainder.                                                *)
LEMMA DivMod ==
    \A n \in Nat, d \in Nat \ {0} :
        n \div d \in Nat /\ n % d \in 0 .. d - 1 /\ n = (n \div d) * d + (n % d)
BY SMT

(* Quotient and remainder are unique.                                      *)
LEMMA DivModUnique ==
    ASSUME NEW a \in Nat, NEW b \in Nat, NEW d \in Nat \ {0},
           NEW x \in 0 .. d - 1, NEW y \in 0 .. d - 1, a * d + x = b * d + y
    PROVE  a = b /\ x = y
<1>1. CASE a < b
    <2>1. (a + 1) * d <= b * d BY <1>1, SMT
    <2>2. (a + 1) * d = a * d + d BY SMT
    <2> QED BY <2>1, <2>2, SMT
<1>2. CASE b < a
    <2>1. (b + 1) * d <= a * d BY <1>2, SMT
    <2>2. (b + 1) * d = b * d + d BY SMT
    <2> QED BY <2>1, <2>2, SMT
<1> QED BY <1>1, <1>2, SMT

(* Every rank has a slot in a replica, and every slot of a replica has a   *)
(* rank.                                                                   *)
LEMMA Layout ==
    /\ \A r \in Rank : ReplicaOf(r) \in Replica /\ SlotOf(r) \in Slot
    /\ \A i \in Replica, s \in Slot : \E r \in Rank : ReplicaOf(r) = i /\ SlotOf(r) = s
<1> USE Bounds
<1>1. ASSUME NEW r \in Rank
      PROVE  ReplicaOf(r) \in Replica /\ SlotOf(r) \in Slot
    <2>1. r \in Nat /\ r < Replicas * Slots BY SMT DEF Rank
    <2> DEFINE d == r \div Slots
    <2>2. d \in Nat /\ r % Slots \in 0 .. Slots - 1 /\ r = d * Slots + (r % Slots)
      <3>1. r \in Nat /\ Slots \in Nat \ {0} BY <2>1, SMT
      <3> QED BY <3>1, DivMod, Zenon
    <2> HIDE DEF d
    <2>3. ASSUME d >= Replicas PROVE FALSE
        <3>1. d * Slots >= Replicas * Slots BY <2>2, <2>3, SMT
        <3> QED BY <3>1, <2>1, <2>2, SMT
    <2>4. d \in Replica BY <2>2, <2>3, SMT DEF Replica
    <2> QED BY <2>4, <2>2 DEF d, ReplicaOf, SlotOf, Slot
<1>2. ASSUME NEW i \in Replica, NEW s \in Slot
      PROVE  \E r \in Rank : ReplicaOf(r) = i /\ SlotOf(r) = s
    <2> DEFINE r == i * Slots + s
    <2>1. i \in Nat /\ i + 1 <= Replicas /\ s \in 0 .. Slots - 1 BY SMT DEF Replica, Slot
    <2>2. (i + 1) * Slots <= Replicas * Slots BY <2>1, SMT
    <2>3. (i + 1) * Slots = i * Slots + Slots BY <2>1, SMT
    <2>4. i * Slots \in Nat BY <2>1, SMT
    <2>5. r \in Nat /\ r < Replicas * Slots BY <2>1, <2>2, <2>3, <2>4, SMT
    <2>6. r \div Slots \in Nat /\ r % Slots \in 0 .. Slots - 1
            /\ r = (r \div Slots) * Slots + (r % Slots)
      <3>1. r \in Nat /\ Slots \in Nat \ {0} BY <2>5, SMT
      <3> QED BY <3>1, DivMod, Zenon
    <2>7. r \div Slots = i /\ r % Slots = s
        <3> HIDE DEF r
        <3> DEFINE a == r \div Slots
                   x == r % Slots
        <3>1. a \in Nat /\ x \in 0 .. Slots - 1 /\ i * Slots + s = a * Slots + x
            BY <2>6 DEF r
        <3> HIDE DEF a, x
        <3>2. i = a /\ s = x BY <3>1, <2>1, DivModUnique, SMT
        <3> QED BY <3>2 DEF a, x
    <2>8. r \in Rank BY <2>5, SMT DEF Rank
    <2> QED BY <2>7, <2>8 DEF ReplicaOf, SlotOf
<1> QED BY <1>1, <1>2

(* Rank 0 is in replica 0, and there is a rank.                            *)
LEMMA RankZero == 0 \in Rank /\ ReplicaOf(0) = 0
<1> USE Bounds
<1>1. Replicas * Slots > 0 BY SMT
<1>2. 0 \in Rank BY <1>1, SMT DEF Rank
<1>3. 0 \div Slots = 0
    <2> DEFINE a == 0 \div Slots
               x == 0 % Slots
    <2>1. a \in Nat /\ x \in 0 .. Slots - 1 /\ 0 * Slots + 0 = a * Slots + x
        BY DivMod, SMT
    <2> HIDE DEF a, x
    <2>2. a = 0 BY <2>1, DivModUnique, SMT
    <2> QED BY <2>2 DEF a
<1> QED BY <1>2, <1>3 DEF ReplicaOf

(* A slot is a rank of replica 0.                                          *)
LEMMA FirstReplica ==
    ASSUME NEW r \in Rank
    PROVE  SlotOf(r) \in Rank /\ ReplicaOf(SlotOf(r)) = 0
<1> USE Bounds
<1> DEFINE s == SlotOf(r)
<1>1. s \in 0 .. Slots - 1 BY Layout DEF Slot
<1> HIDE DEF s
<1>2. 1 * Slots <= Replicas * Slots BY SMT
<1>3. s \in Rank BY <1>1, <1>2, SMT DEF Rank
<1> DEFINE a == s \div Slots
           x == s % Slots
<1>4. a \in Nat /\ x \in 0 .. Slots - 1 /\ 0 * Slots + s = a * Slots + x
    BY <1>1, DivMod, SMT
<1> HIDE DEF a, x
<1>5. a = 0 BY <1>4, <1>1, DivModUnique, SMT
<1> QED BY <1>3, <1>5 DEF a, s, ReplicaOf

(* The outer group of a rank has one rank of every replica.                *)
LEMMA GroupCovers ==
    ASSUME NEW r \in Rank
    PROVE  /\ r \in OuterGroup(r) /\ r \in InnerGroup(r)
           /\ \A i \in Replica : \E q \in OuterGroup(r) : ReplicaOf(q) = i
           /\ \A q \in OuterGroup(r) : q \in Rank /\ SlotOf(q) = SlotOf(r)
           /\ \A q \in InnerGroup(r) : q \in Rank /\ ReplicaOf(q) = ReplicaOf(r)
BY Layout DEF OuterGroup, InnerGroup

(* Epochs and steps multiply as they should.                               *)
LEMMA Times ==
    /\ \A e \in Nat : e * StepsPerEpoch \in Nat /\ (e + 1) * StepsPerEpoch = e * StepsPerEpoch + StepsPerEpoch
    /\ \A e, f \in Nat : e <= f => e * StepsPerEpoch <= f * StepsPerEpoch
    /\ \A e \in Nat : e > 0 => e * StepsPerEpoch > 0
    /\ 0 * StepsPerEpoch = 0
BY Bounds, SMT

(* The fields of a process.                                                *)
LEMMA Fields ==
    ASSUME NEW p \in ProcessT
    PROVE  /\ p.at \in Place /\ p.epoch \in 0 .. Epochs /\ p.step \in 0 .. StepsPerEpoch
           /\ p.model \in SUBSET Trained /\ p.theta \in SUBSET Trained
           /\ p.stash \in SUBSET Trained /\ p.momentum \in SUBSET Trained
           /\ p.pulls \in Pulls /\ p.outer \in Nat /\ p.total \in Nat /\ p.counter \in 0 .. InnerSteps
           /\ p.told \in BOOLEAN
BY DEF ProcessT

(* How far a rank is, from where it is.                                    *)
LEMMA Distance ==
    ASSUME NEW p \in ProcessT
    PROVE  /\ Done(p) \in Nat /\ Folded(p) \in Int /\ Passed(p) \in Nat
           /\ Folded(p) = Done(p) - p.counter
           /\ Done(p) = p.epoch * StepsPerEpoch + p.step
           /\ p.epoch \in Nat /\ p.step \in Nat /\ p.counter \in Nat
           /\ InTrainer(p) =>
                /\ Done(p) <= Epochs * StepsPerEpoch
                /\ p.counter <= InnerSteps
                /\ p.at # "outer" => p.counter < InnerSteps
                /\ Passed(p) * StepsPerEpoch <= Done(p)
                /\ p.at \in Ended => Done(p) = Passed(p) * StepsPerEpoch
                /\ p.at = "reduce" => Done(p) = (Passed(p) + 1) * StepsPerEpoch
                /\ p.at = "flush" => Done(p) = Epochs * StepsPerEpoch
           /\ AfterTraining(p) =>
                /\ Done(p) = Epochs * StepsPerEpoch /\ Passed(p) = Epochs
                /\ Passed(p) * StepsPerEpoch = Done(p)
<1> USE Bounds
<1> DEFINE e == p.epoch
           s == p.step
           c == p.counter
<1>1. e \in Nat /\ s \in Nat /\ c \in Nat /\ e <= Epochs /\ s <= StepsPerEpoch /\ c <= InnerSteps
    BY Fields, SMT
<1>2. Done(p) = e * StepsPerEpoch + s /\ Folded(p) = Done(p) - c
    BY DEF Done, Folded
<1>3. e * StepsPerEpoch \in Nat /\ (e + 1) * StepsPerEpoch = e * StepsPerEpoch + StepsPerEpoch
    BY <1>1, Times
<1>4. Done(p) \in Nat /\ Folded(p) \in Int BY <1>1, <1>2, <1>3, SMT
<1>5. (p.at \in Ended => Passed(p) = e + 1) /\ (p.at \notin Ended => Passed(p) = e)
    BY DEF Passed
<1>6. Passed(p) \in Nat BY <1>1, <1>5, SMT
<1>7. ASSUME InTrainer(p)
      PROVE  /\ Done(p) <= Epochs * StepsPerEpoch
             /\ p.counter <= InnerSteps
             /\ p.at # "outer" => p.counter < InnerSteps
             /\ Passed(p) * StepsPerEpoch <= Done(p)
             /\ p.at \in Ended => Done(p) = Passed(p) * StepsPerEpoch
             /\ p.at = "reduce" => Done(p) = (Passed(p) + 1) * StepsPerEpoch
             /\ p.at = "flush" => Done(p) = Epochs * StepsPerEpoch
    <2>1. e + 1 <= Epochs /\ (p.at \in Ended => s = StepsPerEpoch)
            /\ (p.at = "reduce" => s = StepsPerEpoch) /\ (p.at = "flush" => e + 1 = Epochs)
            /\ (p.at # "outer" => c # InnerSteps)
        BY <1>1, <1>7, SMT DEF InTrainer, Ended, InModel, IsLast
    <2>2. (e + 1) * StepsPerEpoch <= Epochs * StepsPerEpoch BY <1>1, <2>1, Times, SMT
    <2>3. "reduce" \notin Ended /\ "flush" \in Ended BY DEF Ended, InModel
    <2> HIDE DEF e, s, c
    <2> QED BY <1>1, <1>2, <1>3, <1>5, <2>1, <2>2, <2>3, SMT DEF c
<1>8. ASSUME AfterTraining(p)
      PROVE  Done(p) = Epochs * StepsPerEpoch /\ Passed(p) = Epochs
             /\ Passed(p) * StepsPerEpoch = Done(p)
    <2>1. p.at \notin Ended /\ e = Epochs /\ s = 0
        BY <1>8, SMT DEF AfterTraining, Ended, InModel
    <2> QED BY <2>1, <1>2, <1>3, <1>5, SMT
<1> QED BY <1>1, <1>2, <1>4, <1>6, <1>7, <1>8

(* Steps of training, and the set of all that may be in a model.           *)
LEMMA Sets ==
    /\ Steps \subseteq Trained /\ Start \in Trained /\ Start \notin Steps
    /\ StepsUntil(Epochs) = Steps
    /\ Trained = Replica \X (0 .. Epochs * StepsPerEpoch)
    /\ Epochs * StepsPerEpoch \in Nat
<1> USE Bounds
<1>1. Epochs * StepsPerEpoch \in Nat BY Times
<1>2. 0 \in Replica BY SMT DEF Replica
<1>3. StepsUntil(Epochs) = Steps /\ Trained = Replica \X (0 .. Epochs * StepsPerEpoch)
    BY DEF StepsUntil, Steps, Trained, Replica
<1> QED BY <1>1, <1>2, <1>3, SMT DEF Steps, Start

-----------------------------------------------------------------------------
(* What the actions do.                                                    *)

InnerMoved(i, p) ==
    [p EXCEPT !.at = IF p.counter + 1 < InnerSteps
                     THEN IF p.step + 1 < StepsPerEpoch THEN "batch" ELSE "reduce"
                     ELSE "outer",
              !.step = p.step + 1, !.counter = p.counter + 1, !.total = p.total + 1,
              !.model = p.model \cup {<<i, Done(p) + 1>>}]

Stepped(p, travelled) ==
    [p EXCEPT !.theta = p.theta \cup travelled, !.model = p.theta \cup travelled,
              !.pulls = p.pulls \cup {<<p.total, p.momentum>>},
              !.momentum = p.momentum \cup travelled, !.counter = 0, !.outer = p.outer + 1]
OuterMoved(p, travelled) ==
    IF p.at = "outer" THEN NextBatch(Stepped(p, travelled))
    ELSE InGlobalModel(Stepped(p, travelled))

(* A group that is somewhere is not down, and then nobody is.              *)
LEMMA SomewhereRunning ==
    ASSUME AllOrNone, NEW r \in Rank, rank[r].at # "down"
    PROVE  Running
BY DEF AllOrNone, Running

(* A batch, rank by rank.                                                  *)
LEMMA InnerEffect ==
    ASSUME Typed, AllOrNone, NEW i \in Replica, InnerStep(i)
    PROVE  /\ Running /\ Quiet
           /\ \A r \in Rank : ReplicaOf(r) = i => rank[r].at = "batch"
           /\ rank' = [r \in Rank |-> IF ReplicaOf(r) = i THEN InnerMoved(i, rank[r])
                                      ELSE rank[r]]
<1>1. /\ Quiet /\ \A r \in Rank : ReplicaOf(r) = i => rank[r].at = "batch"
    BY DEF InnerStep, AllAt
<1>2. \E r \in Rank : ReplicaOf(r) = i
    <2>1. 0 \in Slot BY Bounds, SMT DEF Slot
    <2> QED BY <2>1, Layout
<1>3. Running BY <1>1, <1>2, SomewhereRunning
<1> DEFINE Batch(p) == [p EXCEPT !.step = @ + 1, !.model = @ \cup
                            {<<i, p.epoch * StepsPerEpoch + p.step + 1>>}]
<1>4. rank' = [r \in Rank |-> IF r \in {q \in Rank : ReplicaOf(q) = i}
                              THEN Counted(Batch(rank[r])) ELSE rank[r]]
    BY DEF InnerStep, Move
<1>5. ASSUME NEW r \in Rank
      PROVE  Counted(Batch(rank[r])) = InnerMoved(i, rank[r])
    <2>1. rank[r] \in ProcessT BY DEF Typed
    <2>2. PICK p \in ProcessT : p = rank[r] BY <2>1
    <2>3. Counted(Batch(p)) = InnerMoved(i, p)
        BY <2>2 DEF Counted, InnerMoved, NextBatch, ProcessT, Done
    <2> QED BY <2>2, <2>3
<1>6. rank' = [r \in Rank |-> IF ReplicaOf(r) = i THEN InnerMoved(i, rank[r]) ELSE rank[r]]
    <2> HIDE DEF Batch
    <2> QED BY <1>4, <1>5
<1> QED BY <1>1, <1>3, <1>6

Travelled(slot) == UNION {rank[r].model \ rank[r].theta : r \in {q \in Rank : SlotOf(q) = slot}}

(* An outer step, rank by rank.                                            *)
LEMMA OuterEffect ==
    ASSUME Typed, AllOrNone, NEW slot \in Slot, OuterStep(slot)
    PROVE  /\ Running /\ Quiet
           /\ \A r \in Rank : SlotOf(r) = slot => rank[r].at \in {"outer", "flush"}
           /\ rank' = [r \in Rank |-> IF SlotOf(r) = slot
                                      THEN OuterMoved(rank[r], Travelled(slot)) ELSE rank[r]]
<1> DEFINE group == {q \in Rank : SlotOf(q) = slot}
           travelled == Travelled(slot)
<1>1. slot \in Nat /\ slot % Slots = slot
    <2> USE Bounds
    <2>1. slot \in Nat /\ slot \in 0 .. Slots - 1 BY SMT DEF Slot
    <2> DEFINE a == slot \div Slots
               x == slot % Slots
    <2>2. a \in Nat /\ x \in 0 .. Slots - 1 /\ slot = a * Slots + x
      <3>1. Slots \in Nat \ {0} BY SMT
      <3> QED BY <2>1, <3>1, DivMod, Zenon
    <2> HIDE DEF a, x
    <2>3. 0 * Slots + slot = a * Slots + x BY <2>1, <2>2, SMT
    <2>4. x = slot BY <2>1, <2>2, <2>3, DivModUnique, SMT
    <2> QED BY <2>1, <2>4 DEF x
<1>2. OuterGroup(slot) = group BY <1>1 DEF OuterGroup, SlotOf
<1>3. travelled = UNION {rank[r].model \ rank[r].theta : r \in OuterGroup(slot)}
    BY <1>2 DEF Travelled
<1>4. Quiet /\ \A r \in group : rank[r].at \in {"outer", "flush"}
    BY <1>2 DEF OuterStep, AllAt
<1>5. Running
    <2>1. 0 \in Replica BY Bounds, SMT DEF Replica
    <2>2. PICK r \in group : TRUE BY <2>1, Layout
    <2> QED BY <2>2, <1>4, SomewhereRunning
<1> HIDE DEF travelled
<1>6. rank' = [r \in Rank |-> IF r \in group THEN OuterMoved(rank[r], travelled) ELSE rank[r]]
    BY <1>2, <1>3 DEF OuterStep, Move, OuterMoved, Stepped
<1> QED BY <1>4, <1>5, <1>6 DEF travelled

(* What writes, waits and evaluates: all actions but the training, Resume  *)
(* and Kill.                                                               *)
Clerical ==
    \/ EndOfEpoch \/ Evaluate
    \/ SaveConsolidated \/ Barrier \/ SaveShards \/ ShardsSaved \/ SaveMeta
    \/ \E r \in Rank : SaveOuterState(r)
    \/ Cleanup

Moves(r, from, to) == rank[r].at = from /\ rank'[r] = [rank[r] EXCEPT !.at = to]
Enters(r) == rank[r].at = "reduce" /\ rank'[r] = Finish(rank[r])
Leaves(r, from) == rank[r].at = from /\ rank'[r] = LeaveGlobalModel(rank[r])
Stays(r) == rank'[r] = rank[r]

(* What each of them does to the ranks.                                    *)
LEMMA EndOfEpochEffect ==
    ASSUME EndOfEpoch
    PROVE  /\ Quiet /\ rank' = [r \in Rank |-> rank'[r]]
           /\ \A r \in Rank : Enters(r)
BY DEF EndOfEpoch, AllAt, Move, Enters

(* After the evaluation each leaves global_model, or goes on to save.      *)
LEMMA EvaluateEffect ==
    ASSUME Evaluate
    PROVE  /\ Quiet /\ rank' = [r \in Rank |-> rank'[r]]
           /\ \A r \in Rank :
                IF ~Saves(rank[r]) THEN Leaves(r, "eval")
                ELSE Moves(r, "eval", IF sharded \/ r = 0 THEN "save" ELSE "barrier")
BY DEF Evaluate, AllAt, Moves, Leaves

(* Rank 0 writes its model and meets the others at the barrier.            *)
LEMMA SaveConsolidatedEffect ==
    ASSUME SaveConsolidated
    PROVE  /\ UNCHANGED <<flags, kills, lost, torn>> /\ rank' = [r \in Rank |-> rank'[r]]
           /\ ~sharded /\ Moves(0, "save", "barrier") /\ \A r \in Rank \ {0} : Stays(r)
           /\ disk' = [disk EXCEPT !.saved = [model |-> rank[0].model, pulls |-> rank[0].pulls,
                                              epoch |-> rank[0].epoch + 1, whole |-> TRUE]]
BY RankZero DEF SaveConsolidated, Move, Moves, Stays

(* Past the barrier rank 0 saves the outer state and the others go on.     *)
LEMMA BarrierEffect ==
    ASSUME Barrier
    PROVE  /\ Quiet /\ rank' = [r \in Rank |-> rank'[r]]
           /\ Moves(0, "barrier", "state") /\ \A r \in Rank \ {0} : Leaves(r, "barrier")
BY RankZero DEF Barrier, AllAt, Moves, Leaves

(* The ranks begin to write shards, and the checkpoint is in pieces.       *)
LEMMA SaveShardsEffect ==
    ASSUME SaveShards
    PROVE  /\ UNCHANGED <<flags, kills, lost, torn>> /\ rank' = [r \in Rank |-> rank'[r]]
           /\ sharded /\ \A r \in Rank : Moves(r, "save", "shards")
           /\ disk' = [disk EXCEPT !.saved.whole = FALSE]
BY DEF SaveShards, AllAt, Move, Moves

(* With all shards written the checkpoint can be loaded; it says epoch 0.  *)
LEMMA ShardsSavedEffect ==
    ASSUME ShardsSaved
    PROVE  /\ UNCHANGED <<flags, kills, lost, torn>> /\ rank' = [r \in Rank |-> rank'[r]]
           /\ \A r \in Rank : Moves(r, "shards", IF r = 0 THEN "meta" ELSE "state")
           /\ \E r \in Rank :
                disk' = [disk EXCEPT !.saved = [model |-> rank[r].model, pulls |-> rank[r].pulls,
                                                epoch |-> 0, whole |-> TRUE]]
BY DEF ShardsSaved, AllAt, Moves

(* Rank 0 writes which epoch the shards are of.                            *)
LEMMA SaveMetaEffect ==
    ASSUME SaveMeta
    PROVE  /\ UNCHANGED <<flags, kills, lost, torn>> /\ rank' = [r \in Rank |-> rank'[r]]
           /\ Moves(0, "meta", "state") /\ \A r \in Rank \ {0} : Stays(r)
           /\ disk' = [disk EXCEPT !.saved.epoch = rank[0].epoch + 1]
BY RankZero DEF SaveMeta, Move, Moves, Stays

(* A rank writes its outer state into the file it uses and goes on.        *)
LEMMA SaveOuterStateEffect ==
    ASSUME NEW w \in Rank, SaveOuterState(w)
    PROVE  /\ UNCHANGED <<flags, kills, lost, torn>> /\ rank' = [r \in Rank |-> rank'[r]]
           /\ Leaves(w, "state") /\ \A r \in Rank \ {w} : Stays(r)
           /\ disk' = [disk EXCEPT !.outer[StateFile(w)] =
                          [momentum |-> rank[w].momentum, outer |-> rank[w].outer,
                           total |-> rank[w].total, counter |-> rank[w].counter]]
BY DEF SaveOuterState, Move, Leaves, Stays

(* At the end of the run all exit together.                                *)
LEMMA CleanupEffect ==
    ASSUME Cleanup
    PROVE  /\ Quiet /\ rank' = [r \in Rank |-> rank'[r]]
           /\ \A r \in Rank : Moves(r, "cleanup", "exited")
BY DEF Cleanup, AllAt, Move, Moves

(* The fields after a batch, an outer step and the ways into and out of    *)
(* the shared model.                                                       *)
LEMMA InnerFields ==
    ASSUME NEW p \in ProcessT, NEW i, <<i, Done(p) + 1>> \in Trained,
           p.step < StepsPerEpoch, p.counter < InnerSteps,
           NEW q, q = InnerMoved(i, p)
    PROVE  /\ q.at = IF p.counter + 1 < InnerSteps
                     THEN IF p.step + 1 < StepsPerEpoch THEN "batch" ELSE "reduce"
                     ELSE "outer"
           /\ q.epoch = p.epoch /\ q.step = p.step + 1 /\ q.counter = p.counter + 1
           /\ q.total = p.total + 1 /\ q.told = p.told
           /\ q.theta = p.theta /\ q.pulls = p.pulls /\ q.stash = p.stash /\ q.momentum = p.momentum
           /\ q.model = p.model \cup {<<i, Done(p) + 1>>}
           /\ q \in ProcessT
<1> DEFINE m == p.model \cup {<<i, Done(p) + 1>>}
           at == IF p.counter + 1 < InnerSteps
                 THEN IF p.step + 1 < StepsPerEpoch THEN "batch" ELSE "reduce"
                 ELSE "outer"
           c == p.counter + 1
           s == p.step + 1
           t == p.total + 1
<1>1. q = [p EXCEPT !.at = at, !.step = s, !.counter = c, !.total = t, !.model = m]
    BY DEF InnerMoved
<1>2. m \in SUBSET Trained /\ at \in Place /\ c \in 0 .. InnerSteps
        /\ s \in 0 .. StepsPerEpoch /\ t \in Nat
    <2>1. p.counter \in 0 .. InnerSteps /\ p.step \in 0 .. StepsPerEpoch /\ p.total \in Nat
            /\ p.model \in SUBSET Trained
        BY Fields
    <2>2. m \in SUBSET Trained BY <2>1
    <2>3. at \in Place BY DEF Place
    <2> QED BY <2>1, <2>2, <2>3, Bounds, SMT
<1> HIDE DEF m, at, c, s, t
<1>3. q.at = at /\ q.epoch = p.epoch /\ q.step = s /\ q.counter = c
        /\ q.total = t /\ q.told = p.told
        /\ q.theta = p.theta /\ q.pulls = p.pulls /\ q.stash = p.stash /\ q.momentum = p.momentum
        /\ q.model = m
    BY <1>1, SMT DEF ProcessT
<1>4. q \in ProcessT BY <1>1, <1>2, ZenonT(30) DEF ProcessT
<1> QED BY <1>3, <1>4 DEF m, at, c, s, t

(* The fields after an outer step.                                         *)
LEMMA OuterFields ==
    ASSUME NEW p \in ProcessT, NEW travelled \in SUBSET Trained, p.at \in {"outer", "flush"},
           NEW q, q = OuterMoved(p, travelled)
    PROVE  /\ q.at = IF p.at = "outer"
                     THEN IF p.step < StepsPerEpoch THEN "batch" ELSE "reduce"
                     ELSE "eval"
           /\ q.epoch = p.epoch /\ q.step = p.step /\ q.counter = 0
           /\ q.total = p.total /\ q.told = p.told
           /\ q.theta = p.theta \cup travelled /\ q.model = p.theta \cup travelled
           /\ p.at = "flush" => q.stash = p.theta \cup travelled
           /\ q.momentum = p.momentum \cup travelled
           /\ q.pulls = p.pulls \cup {<<p.total, p.momentum>>}
           /\ q \in ProcessT
<1> DEFINE theta == p.theta \cup travelled
           momentum == p.momentum \cup travelled
           pulls == p.pulls \cup {<<p.total, p.momentum>>}
           s == [p EXCEPT !.theta = theta, !.model = theta, !.pulls = pulls,
                          !.momentum = momentum, !.counter = 0, !.outer = p.outer + 1]
           at == IF p.step < StepsPerEpoch THEN "batch" ELSE "reduce"
<1>1. q = IF p.at = "outer" THEN NextBatch(s) ELSE InGlobalModel(s)
    BY DEF OuterMoved, Stepped
<1>2. theta \in SUBSET Trained /\ momentum \in SUBSET Trained /\ pulls \in Pulls
    <2>1. theta \in SUBSET Trained /\ momentum \in SUBSET Trained BY Fields
    <2>2. p.pulls \in Pulls /\ p.total \in Nat /\ p.momentum \in SUBSET Trained BY Fields
    <2> QED BY <2>1, <2>2 DEF Pulls
<1>3. at \in Place /\ "eval" \in Place BY DEF Place
<1> HIDE DEF theta, momentum, pulls
<1>4. /\ s.at = p.at /\ s.epoch = p.epoch /\ s.step = p.step /\ s.counter = 0
      /\ s.total = p.total /\ s.told = p.told
      /\ s.theta = theta /\ s.model = theta /\ s.momentum = momentum /\ s.pulls = pulls
    BY SMT DEF ProcessT
<1>5. s \in ProcessT
    <2>1. 0 \in 0 .. InnerSteps /\ p.outer + 1 \in Nat BY Fields, Bounds, SMT
    <2> QED BY <1>2, <2>1, ZenonT(30) DEF ProcessT
<1> HIDE DEF s
<1>6. CASE p.at = "outer"
    <2>1. q = [s EXCEPT !.at = at] BY <1>1, <1>4, <1>6 DEF NextBatch
    <2> HIDE DEF at
    <2>2. q.at = at /\ q.epoch = s.epoch /\ q.step = s.step /\ q.counter = s.counter
            /\ q.total = s.total /\ q.told = s.told
            /\ q.theta = s.theta /\ q.model = s.model /\ q.momentum = s.momentum
            /\ q.pulls = s.pulls
            /\ q \in ProcessT
        BY <1>3, <1>5, <2>1, SMT DEF ProcessT
    <2> QED BY <1>4, <1>6, <2>2 DEF at, theta, momentum, pulls
<1>7. CASE p.at = "flush"
    <2>1. q = [s EXCEPT !.at = "eval", !.stash = s.model, !.model = s.theta]
        BY <1>1, <1>7 DEF InGlobalModel
    <2>2. q.at = "eval" /\ q.epoch = s.epoch /\ q.step = s.step /\ q.counter = s.counter
            /\ q.total = s.total /\ q.told = s.told /\ q.stash = s.model
            /\ q.theta = s.theta /\ q.model = s.theta /\ q.momentum = s.momentum
            /\ q.pulls = s.pulls
        BY <1>5, <2>1, SMT DEF ProcessT
    <2>3. q \in ProcessT BY <1>2, <1>3, <1>4, <1>5, <2>1, ZenonT(30) DEF ProcessT
    <2> QED BY <1>4, <1>7, <2>2, <2>3 DEF theta, momentum, pulls
<1> QED BY <1>6, <1>7

(* Going to another place changes no other field.                          *)
LEMMA MoveFields ==
    ASSUME NEW p \in ProcessT, NEW a \in Place, NEW q, q = [p EXCEPT !.at = a]
    PROVE  /\ q.at = a /\ q.epoch = p.epoch /\ q.step = p.step /\ q.counter = p.counter
           /\ q.total = p.total /\ q.told = p.told
           /\ q.theta = p.theta /\ q.pulls = p.pulls /\ q.stash = p.stash /\ q.momentum = p.momentum
           /\ q.model = p.model
           /\ q \in ProcessT
<1>1. q.at = a /\ q.epoch = p.epoch /\ q.step = p.step /\ q.counter = p.counter
        /\ q.total = p.total /\ q.told = p.told
        /\ q.theta = p.theta /\ q.pulls = p.pulls /\ q.stash = p.stash /\ q.momentum = p.momentum
        /\ q.model = p.model
    BY SMT DEF ProcessT
<1>2. q \in ProcessT BY ZenonT(30) DEF ProcessT
<1> QED BY <1>1, <1>2

(* Leaving global_model puts the stash back and begins the next epoch.     *)
LEMMA LeaveFields ==
    ASSUME NEW p \in ProcessT, p.epoch < Epochs, NEW q, q = LeaveGlobalModel(p)
    PROVE  /\ q.at = IF IsLast(p) THEN "cleanup" ELSE "batch"
           /\ q.epoch = p.epoch + 1 /\ q.step = 0 /\ q.counter = p.counter
           /\ q.total = p.total /\ q.told = p.told
           /\ q.theta = p.theta /\ q.pulls = p.pulls /\ q.momentum = p.momentum
           /\ q.model = p.stash
           /\ q \in ProcessT
<1> DEFINE a == IF IsLast(p) THEN "cleanup" ELSE "batch"
           e == p.epoch + 1
           none == {}
<1>1. q = [p EXCEPT !.at = a, !.epoch = e, !.step = 0, !.model = p.stash, !.stash = none]
    BY DEF LeaveGlobalModel
<1>2. a \in Place /\ e \in 0 .. Epochs /\ 0 \in 0 .. StepsPerEpoch /\ none \in SUBSET Trained
    BY Fields, Bounds, SMT DEF Place
<1> HIDE DEF a, e, none
<1>3. /\ q.at = a /\ q.epoch = e /\ q.step = 0 /\ q.counter = p.counter
      /\ q.total = p.total /\ q.told = p.told
      /\ q.theta = p.theta /\ q.pulls = p.pulls /\ q.momentum = p.momentum
      /\ q.model = p.stash
    BY <1>1, SMT DEF ProcessT
<1>4. q \in ProcessT BY <1>1, <1>2, ZenonT(30) DEF ProcessT
<1> QED BY <1>3, <1>4 DEF a, e

(* Finish either flushes the tail of a phase or enters global_model.       *)
LEMMA FinishFields ==
    ASSUME NEW p \in ProcessT, NEW q, q = Finish(p)
    PROVE  /\ q.epoch = p.epoch /\ q.step = p.step /\ q.counter = p.counter
           /\ q.total = p.total /\ q.told = p.told
           /\ q.theta = p.theta /\ q.pulls = p.pulls /\ q.momentum = p.momentum
           /\ IF IsLast(p) /\ p.counter # 0
              THEN q.at = "flush" /\ q.model = p.model
              ELSE q.at = "eval" /\ q.stash = p.model /\ q.model = p.theta
           /\ q \in ProcessT
<1>1. CASE IsLast(p) /\ p.counter # 0
    <2>1. q = [p EXCEPT !.at = "flush"] BY <1>1 DEF Finish
    <2>2. "flush" \in Place BY DEF Place
    <2> QED BY <1>1, <2>1, <2>2, MoveFields
<1>2. CASE ~(IsLast(p) /\ p.counter # 0)
    <2>1. q = [p EXCEPT !.at = "eval", !.stash = p.model, !.model = p.theta]
        BY <1>2 DEF Finish, InGlobalModel
    <2>2. "eval" \in Place BY DEF Place
    <2>3. /\ q.epoch = p.epoch /\ q.step = p.step /\ q.counter = p.counter
          /\ q.total = p.total /\ q.told = p.told
          /\ q.theta = p.theta /\ q.pulls = p.pulls /\ q.momentum = p.momentum
          /\ q.at = "eval" /\ q.stash = p.model /\ q.model = p.theta
        BY <2>1, SMT DEF ProcessT
    <2>4. q \in ProcessT BY <2>1, <2>2, ZenonT(30) DEF ProcessT
    <2> QED BY <1>2, <2>3, <2>4
<1> QED BY <1>1, <1>2

(* Every rank enters global_model, or each leaves it, moves on in it or    *)
(* stays where it is.                                                      *)
MovesOn(r) ==
    \/ \E from \in InModel : Leaves(r, from)
    \/ \E from \in InModel, to \in InModel \ {"eval"} : Moves(r, from, to)
    \/ Moves(r, "cleanup", "exited")
    \/ Stays(r)

(* All ranks enter together, or every one moves on; lost, kills and torn   *)
(* stay.                                                                   *)
LEMMA ClericalEffect ==
    ASSUME Clerical
    PROVE  /\ UNCHANGED <<flags, kills, lost, torn>> /\ rank' = [r \in Rank |-> rank'[r]]
           /\ (\A r \in Rank : Enters(r)) \/ (\A r \in Rank : MovesOn(r))
<1>1. {"eval", "save", "barrier", "shards", "meta", "state"} \subseteq InModel BY DEF InModel
<1>2. CASE EndOfEpoch BY <1>2, EndOfEpochEffect DEF Quiet
<1>3. CASE Evaluate
    <2>1. /\ Quiet /\ rank' = [r \in Rank |-> rank'[r]]
          /\ \A r \in Rank :
                IF ~Saves(rank[r]) THEN Leaves(r, "eval")
                ELSE Moves(r, "eval", IF sharded \/ r = 0 THEN "save" ELSE "barrier")
        BY <1>3, EvaluateEffect
    <2>2. ASSUME NEW r \in Rank PROVE MovesOn(r)
        <3>1. CASE ~Saves(rank[r]) BY <2>1, <3>1, <1>1 DEF MovesOn
        <3>2. CASE Saves(rank[r])
            <4>1. CASE sharded \/ r = 0
                <5>1. Moves(r, "eval", "save") BY <2>1, <3>2, <4>1
                <5> QED BY <5>1, <1>1 DEF MovesOn
            <4>2. CASE ~(sharded \/ r = 0)
                <5>1. Moves(r, "eval", "barrier") BY <2>1, <3>2, <4>2
                <5> QED BY <5>1, <1>1 DEF MovesOn
            <4> QED BY <4>1, <4>2
        <3> QED BY <3>1, <3>2
    <2> QED BY <2>1, <2>2 DEF Quiet
<1>4. CASE SaveConsolidated
    BY <1>1, <1>4, SaveConsolidatedEffect DEF MovesOn
<1>5. CASE Barrier
    BY <1>1, <1>5, BarrierEffect DEF MovesOn, Quiet
<1>6. CASE SaveShards
    BY <1>1, <1>6, SaveShardsEffect DEF MovesOn
<1>7. CASE ShardsSaved
    <2>1. /\ UNCHANGED <<flags, kills, lost, torn>> /\ rank' = [r \in Rank |-> rank'[r]]
          /\ \A r \in Rank : Moves(r, "shards", IF r = 0 THEN "meta" ELSE "state")
        BY <1>7, ShardsSavedEffect
    <2>2. ASSUME NEW r \in Rank PROVE MovesOn(r)
        <3>1. CASE r = 0
            <4>1. Moves(r, "shards", "meta") BY <2>1, <3>1
            <4> QED BY <4>1, <1>1 DEF MovesOn
        <3>2. CASE r # 0
            <4>1. Moves(r, "shards", "state") BY <2>1, <3>2
            <4> QED BY <4>1, <1>1 DEF MovesOn
        <3> QED BY <3>1, <3>2
    <2> QED BY <2>1, <2>2
<1>8. CASE SaveMeta
    BY <1>1, <1>8, SaveMetaEffect DEF MovesOn
<1>9. ASSUME NEW w \in Rank, SaveOuterState(w)
      PROVE  /\ UNCHANGED <<flags, kills, lost, torn>> /\ rank' = [r \in Rank |-> rank'[r]]
             /\ \A r \in Rank : MovesOn(r)
    BY <1>1, <1>9, SaveOuterStateEffect DEF MovesOn
<1>10. CASE Cleanup
    BY <1>10, CleanupEffect DEF MovesOn, Quiet
<1> QED BY <1>2, <1>3, <1>4, <1>5, <1>6, <1>7, <1>8, <1>9, <1>10 DEF Clerical

(* A clerical step leaves what a rank has learned and counted as it is.    *)
Calm(r) ==
    /\ rank[r] \in ProcessT /\ rank'[r] \in ProcessT
    /\ rank'[r].theta = rank[r].theta /\ rank'[r].counter = rank[r].counter
    /\ rank'[r].momentum = rank[r].momentum /\ rank'[r].total = rank[r].total
    /\ rank'[r].pulls = rank[r].pulls
    /\ rank'[r].told = rank[r].told
    /\ Done(rank'[r]) = Done(rank[r]) /\ Folded(rank'[r]) = Folded(rank[r])
    /\ Kept(rank'[r]) = Kept(rank[r])

(* Theta, the counters and what is kept of the model survive each such     *)
(* move.                                                                   *)
LEMMA ClericalCalm ==
    ASSUME Typed, NEW r \in Rank, InTrainer(rank[r]) \/ AfterTraining(rank[r]),
           rank[r].at \in InModel => rank[r].model = rank[r].theta,
           Enters(r) \/ MovesOn(r)
    PROVE  /\ Calm(r)
           /\ InTrainer(rank'[r]) \/ AfterTraining(rank'[r])
           /\ Enters(r) => Passed(rank'[r]) = Passed(rank[r]) + 1
           /\ MovesOn(r) => Passed(rank'[r]) = Passed(rank[r])
           /\ rank'[r].at \in InModel => rank'[r].model = rank'[r].theta
           /\ AfterTraining(rank'[r]) =>
                \/ AfterTraining(rank[r]) /\ rank'[r].model = rank[r].model
                \/ rank[r].at \in InModel /\ rank[r].counter = 0
<1> USE Bounds
<1> DEFINE p == rank[r]
           q == rank'[r]
           Goal == /\ Calm(r)
                   /\ InTrainer(q) \/ AfterTraining(q)
                   /\ Enters(r) => Passed(q) = Passed(p) + 1
                   /\ MovesOn(r) => Passed(q) = Passed(p)
                   /\ q.at \in InModel => q.model = q.theta
                   /\ AfterTraining(q) =>
                        \/ AfterTraining(p) /\ q.model = p.model
                        \/ p.at \in InModel /\ p.counter = 0
<1>0. p \in ProcessT BY DEF Typed
<1>a. InModel = {"eval", "save", "shards", "meta", "barrier", "state"}
        /\ Ended = InModel \cup {"flush"} /\ InModel \subseteq Place
    BY DEF InModel, Ended, Place
<1>b. InTrainer(p) \/ AfterTraining(p) OBVIOUS
<1>c. p.at \in InModel => p.model = p.theta OBVIOUS
<1>1. CASE Enters(r)
    <2>1. p.at = "reduce" /\ q = Finish(p) BY <1>1 DEF Enters
    <2> HIDE DEF p, q
    <2>2. /\ q.epoch = p.epoch /\ q.step = p.step /\ q.counter = p.counter
          /\ q.total = p.total /\ q.told = p.told
          /\ q.theta = p.theta /\ q.pulls = p.pulls /\ q.momentum = p.momentum
          /\ IF IsLast(p) /\ p.counter # 0
             THEN q.at = "flush" /\ q.model = p.model
             ELSE q.at = "eval" /\ q.stash = p.model /\ q.model = p.theta
          /\ q \in ProcessT
        BY <1>0, <2>1, FinishFields
    <2>3. Done(q) = Done(p) /\ Folded(q) = Folded(p) BY <2>2 DEF Done, Folded
    <2>4. Kept(q) = Kept(p) BY <2>1, <2>2, <1>a DEF Kept
    <2>5. Passed(q) = Passed(p) + 1 BY <2>1, <2>2, <1>a DEF Passed
    <2>6. InTrainer(p)
        BY <1>b, <2>1 DEF AfterTraining
    <2>7. p.step = StepsPerEpoch /\ p.counter # InnerSteps /\ p.epoch < Epochs
        BY <2>1, <2>6 DEF InTrainer
    <2>8. InTrainer(q)
        <3>1. p.counter \in 0 .. InnerSteps BY <1>0, Fields
        <3>2. CASE IsLast(p) /\ p.counter # 0
            BY <2>2, <2>7, <1>a, <3>1, <3>2, SMT DEF InTrainer, IsLast
        <3>3. CASE ~(IsLast(p) /\ p.counter # 0)
            BY <2>2, <2>7, <1>a, <3>1, <3>3, SMT DEF InTrainer, IsLast
        <3> QED BY <3>2, <3>3
    <2>9. ~AfterTraining(q) BY <2>2 DEF AfterTraining
    <2>10. q.at \in InModel => q.model = q.theta BY <2>2, <1>a
    <2>11. Calm(r) BY <1>0, <2>2, <2>3, <2>4 DEF Calm, p, q
    <2>12. ~MovesOn(r)
        <3>1. q.at # p.at BY <2>1, <2>2
        <3> QED BY <2>1, <3>1, <1>a DEF MovesOn, Leaves, Moves, Stays, p, q
    <2> QED BY <2>5, <2>8, <2>9, <2>10, <2>11, <2>12 DEF p, q
<1>2. CASE \E from \in InModel : Leaves(r, from)
    <2>1. p.at \in InModel /\ q = LeaveGlobalModel(p) BY <1>2 DEF Leaves
    <2>e. ~Enters(r) BY <2>1, <1>a DEF Enters
    <2> HIDE DEF p, q
    <2>2. InTrainer(p) BY <1>b, <2>1, <1>a DEF AfterTraining
    <2>3. p.epoch < Epochs /\ p.step = StepsPerEpoch /\ p.counter # InnerSteps
            /\ (IsLast(p) => p.counter = 0)
        BY <2>1, <2>2, <1>a DEF InTrainer
    <2>4. /\ q.at = IF IsLast(p) THEN "cleanup" ELSE "batch"
          /\ q.epoch = p.epoch + 1 /\ q.step = 0 /\ q.counter = p.counter
          /\ q.total = p.total /\ q.told = p.told
          /\ q.theta = p.theta /\ q.pulls = p.pulls /\ q.momentum = p.momentum
          /\ q.model = p.stash
          /\ q \in ProcessT
        BY <1>0, <2>1, <2>3, LeaveFields
    <2>5. p.epoch \in Nat /\ p.counter \in 0 .. InnerSteps
        BY <1>0, Fields, SMT
    <2>6. Done(q) = Done(p) /\ Folded(q) = Folded(p)
        <3>1. Done(q) = (p.epoch + 1) * StepsPerEpoch + 0 BY <2>4 DEF Done
        <3>2. Done(p) = p.epoch * StepsPerEpoch + StepsPerEpoch BY <2>3 DEF Done
        <3>3. Done(q) = Done(p) BY <3>1, <3>2, <2>5, Times, SMT
        <3> QED BY <3>3, <2>4 DEF Folded
    <2>7. q.at \notin InModel /\ q.at \notin Ended BY <2>4, <1>a
    <2>8. Kept(q) = Kept(p) BY <2>1, <2>4, <2>7 DEF Kept
    <2>9. Passed(q) = Passed(p) BY <2>1, <2>4, <2>7, <1>a DEF Passed
    <2>10. CASE IsLast(p)
        <3>1. AfterTraining(q) BY <2>4, <2>3, <2>5, <2>10, SMT DEF AfterTraining, IsLast
        <3> QED BY <1>0, <2>1, <2>3, <2>4, <2>6, <2>7, <2>8, <2>9, <2>10, <2>e, <3>1 DEF Calm, p, q
    <2>11. CASE ~IsLast(p)
        <3>1. InTrainer(q)
            BY <2>4, <2>3, <2>5, <2>7, <2>11, <1>a, SMT DEF InTrainer, IsLast
        <3>2. ~AfterTraining(q) BY <2>4, <2>11 DEF AfterTraining
        <3> QED BY <1>0, <2>4, <2>6, <2>7, <2>8, <2>9, <2>e, <3>1, <3>2 DEF Calm, p, q
    <2> QED BY <2>10, <2>11
<1>3. CASE \E from \in InModel, to \in InModel \ {"eval"} : Moves(r, from, to)
    <2>1. PICK to \in InModel : p.at \in InModel /\ q = [p EXCEPT !.at = to]
        BY <1>3 DEF Moves
    <2>e. ~Enters(r) BY <2>1, <1>a DEF Enters
    <2> HIDE DEF p, q
    <2>2. InTrainer(p) BY <1>b, <2>1, <1>a DEF AfterTraining
    <2>3. to \in Place BY <1>a
    <2>4. /\ q.at = to /\ q.epoch = p.epoch /\ q.step = p.step /\ q.counter = p.counter
          /\ q.total = p.total /\ q.told = p.told
          /\ q.theta = p.theta /\ q.pulls = p.pulls /\ q.stash = p.stash /\ q.momentum = p.momentum
          /\ q.model = p.model
          /\ q \in ProcessT
        BY <1>0, <2>1, <2>3, MoveFields
    <2>5. Done(q) = Done(p) /\ Folded(q) = Folded(p) BY <2>4 DEF Done, Folded
    <2>6. Kept(q) = Kept(p) BY <2>1, <2>4 DEF Kept
    <2>7. Passed(q) = Passed(p) BY <2>1, <2>4, <1>a DEF Passed
    <2>8. InTrainer(q) BY <2>1, <2>2, <2>4, <1>a DEF InTrainer, IsLast
    <2>9. ~AfterTraining(q) BY <2>1, <2>4, <1>a DEF AfterTraining
    <2>10. q.model = q.theta BY <1>c, <2>1, <2>4
    <2>11. Calm(r) BY <1>0, <2>4, <2>5, <2>6 DEF Calm, p, q
    <2> QED BY <2>7, <2>8, <2>9, <2>10, <2>11, <2>e DEF p, q
<1>4. CASE Moves(r, "cleanup", "exited")
    <2>1. p.at = "cleanup" /\ q = [p EXCEPT !.at = "exited"] BY <1>4 DEF Moves
    <2>e. ~Enters(r) BY <2>1, <1>a DEF Enters
    <2> HIDE DEF p, q
    <2>2. AfterTraining(p) BY <1>b, <2>1, <1>a, SMT DEF InTrainer
    <2>3. "exited" \in Place BY DEF Place
    <2>4. /\ q.at = "exited" /\ q.epoch = p.epoch /\ q.step = p.step /\ q.counter = p.counter
          /\ q.total = p.total /\ q.told = p.told
          /\ q.theta = p.theta /\ q.pulls = p.pulls /\ q.stash = p.stash /\ q.momentum = p.momentum
          /\ q.model = p.model
          /\ q \in ProcessT
        BY <1>0, <2>1, <2>3, MoveFields
    <2>5. Done(q) = Done(p) /\ Folded(q) = Folded(p) BY <2>4 DEF Done, Folded
    <2>6. Kept(q) = Kept(p) BY <2>1, <2>4, <1>a DEF Kept
    <2>7. Passed(q) = Passed(p) BY <2>1, <2>4, <1>a DEF Passed
    <2>8. AfterTraining(q) BY <2>2, <2>4 DEF AfterTraining
    <2>9. q.at \notin InModel BY <2>4, <1>a
    <2>11. Calm(r) BY <1>0, <2>4, <2>5, <2>6 DEF Calm, p, q
    <2> QED BY <2>2, <2>4, <2>7, <2>8, <2>9, <2>11, <2>e DEF p, q
<1>5. CASE Stays(r) /\ ~Enters(r)
    <2>1. q = p BY <1>5 DEF Stays
    <2> HIDE DEF p, q
    <2>2. Calm(r) BY <2>1, <1>0 DEF Calm, p, q
    <2> QED BY <1>b, <1>c, <1>5, <2>1, <2>2 DEF p, q
<1> QED BY <1>1, <1>2, <1>3, <1>4, <1>5 DEF MovesOn

(* A process that starts, for the first time or again.                     *)
LEMMA ProcessFields ==
    ASSUME NEW theta \in SUBSET Trained, NEW pulls \in Pulls, NEW epoch \in 0 .. Epochs,
           NEW state \in OuterT, NEW told \in BOOLEAN,
           NEW q, q = Process(theta, pulls, epoch, state, told)
    PROVE  /\ q \in ProcessT
           /\ q.at = IF epoch < Epochs THEN "batch" ELSE "cleanup"
           /\ q.epoch = epoch /\ q.step = 0 /\ q.model = theta /\ q.theta = theta
           /\ q.momentum = state.momentum /\ q.total = state.total /\ q.pulls = pulls
           /\ q.counter = state.counter /\ q.told = told
           /\ InTrainer(q) \/ AfterTraining(q)
           /\ AfterTraining(q) => epoch = Epochs
           /\ Done(q) = epoch * StepsPerEpoch /\ Folded(q) = epoch * StepsPerEpoch - state.counter
           /\ Passed(q) = epoch /\ Kept(q) = theta
           /\ q.at \notin Ended
<1> USE Bounds
<1> DEFINE a == IF epoch < Epochs THEN "batch" ELSE "cleanup"
           none == {}
<1>1. q = [at |-> a, epoch |-> epoch, step |-> 0, model |-> theta, theta |-> theta,
           pulls |-> pulls, stash |-> none, momentum |-> state.momentum, outer |-> state.outer,
           total |-> state.total, counter |-> state.counter, told |-> told]
    BY DEF Process
<1>2. /\ state.momentum \in SUBSET Trained /\ state.outer \in Nat /\ state.total \in Nat
      /\ state.counter \in 0 .. InnerSteps - 1
    BY DEF OuterT
<1>3. a \in Place /\ 0 \in 0 .. StepsPerEpoch /\ none \in SUBSET Trained
        /\ state.counter \in 0 .. InnerSteps
    BY <1>2, SMT DEF Place
<1>4. InModel = {"eval", "save", "shards", "meta", "barrier", "state"}
        /\ Ended = InModel \cup {"flush"}
    BY DEF InModel, Ended
<1>5. a \notin Ended /\ a \notin InModel BY <1>4
<1> HIDE DEF none
<1>6. q \in ProcessT
    <2> DEFINE mo == state.momentum
               ou == state.outer
               to == state.total
               co == state.counter
    <2>1. /\ a \in Place /\ epoch \in 0 .. Epochs /\ 0 \in 0 .. StepsPerEpoch
          /\ theta \in SUBSET Trained /\ pulls \in Pulls
          /\ none \in SUBSET Trained /\ mo \in SUBSET Trained
          /\ ou \in Nat /\ to \in Nat /\ co \in 0 .. InnerSteps /\ told \in BOOLEAN
        BY <1>2, <1>3
    <2>2. q = [at |-> a, epoch |-> epoch, step |-> 0, model |-> theta, theta |-> theta,
               pulls |-> pulls, stash |-> none, momentum |-> mo, outer |-> ou,
               total |-> to, counter |-> co, told |-> told]
        BY <1>1
    <2> HIDE DEF a, mo, ou, to, co
    <2> QED BY <2>1, <2>2, SMT DEF ProcessT
<1>7. /\ q.at = a /\ q.epoch = epoch /\ q.step = 0 /\ q.model = theta /\ q.theta = theta
      /\ q.momentum = state.momentum /\ q.total = state.total /\ q.pulls = pulls
      /\ q.counter = state.counter /\ q.told = told
    BY <1>1
<1>8. epoch * StepsPerEpoch \in Nat BY Times, SMT
<1>9. Done(q) = epoch * StepsPerEpoch /\ Folded(q) = epoch * StepsPerEpoch - state.counter
    BY <1>7, <1>8, SMT DEF Done, Folded
<1>10. Passed(q) = epoch /\ Kept(q) = theta BY <1>5, <1>7 DEF Passed, Kept
<1>11. CASE epoch < Epochs
    <2>1. InTrainer(q)
        BY <1>2, <1>4, <1>7, <1>11, SMT DEF InTrainer
    <2>2. ~AfterTraining(q) BY <1>7, <1>11, SMT DEF AfterTraining
    <2> QED BY <1>5, <1>6, <1>7, <1>9, <1>10, <2>1, <2>2
<1>12. CASE ~(epoch < Epochs)
    <2>1. AfterTraining(q) /\ epoch = Epochs
        BY <1>2, <1>7, <1>12, SMT DEF AfterTraining
    <2> QED BY <1>5, <1>6, <1>7, <1>9, <1>10, <2>1
<1> QED BY <1>11, <1>12

(* The state of an outer optimizer that starts anew.                       *)
LEMMA ColdState ==
    /\ Cold \in OuterT /\ Cold.momentum = {} /\ Cold.total = 0 /\ Cold.counter = 0
    /\ Cold # NoOuterState
<1>1. Cold = [momentum |-> {}, outer |-> 0, total |-> 0, counter |-> 0]
    BY SMT DEF Cold, NoOuterState
<1> QED BY <1>1, Bounds, SMT DEF OuterT, NoOuterState

(* A first start: everyone takes the initialisation of replica 0.          *)
LEMMA FreshEffect ==
    ASSUME split \in BOOLEAN, NEW r \in Rank
    PROVE  Fresh[r] = Process({Start}, {}, 0, Cold, FALSE)
<1> DEFINE seeds == [q \in Rank |-> Seed(q)]
<1>1. Equalised(r, seeds) = {Start}
    <2>1. PICK q \in Rank : q = (IF split THEN SlotOf(r) ELSE 0) /\ ReplicaOf(q) = 0
        BY RankZero, FirstReplica
    <2>2. Equalised(r, seeds) = seeds[q] BY <2>1 DEF Equalised
    <2>3. seeds[q] = {<<0, 0>>} BY <2>1 DEF Seed
    <2> QED BY <2>2, <2>3 DEF Start
<1>2. Fresh[r] = Process(Equalised(r, seeds), {}, 0, Cold, FALSE) BY DEF Fresh
<1> HIDE DEF seeds
<1> QED BY <1>1, <1>2

(* A resume: everyone takes the checkpoint, and the outer state that is    *)
(* its own, or rank 0's, if there is one.                                  *)
LEMMA WarmEffect ==
    ASSUME Typed, NEW r \in Rank
    PROVE  /\ StateFile(r) \in Rank
           /\ LET state == disk.outer[StateFile(r)] IN
              Restored(r) = IF state = NoOuterState
                            THEN Process(disk.saved.model, disk.saved.pulls, disk.saved.epoch,
                                         Cold, TRUE)
                            ELSE Process(disk.saved.model, disk.saved.pulls, disk.saved.epoch, state,
                                         state.total # disk.saved.epoch * StepsPerEpoch)
<1>1. StateFile(r) \in Rank BY RankZero DEF StateFile
<1>2. LoadedTheta(r) = disk.saved.model
    <2> DEFINE loaded == [q \in Rank |-> disk.saved.model]
    <2>1. PICK q \in Rank : q = (IF split THEN SlotOf(r) ELSE 0)
        BY RankZero, FirstReplica
    <2>2. Equalised(r, loaded) = loaded[q] BY <2>1 DEF Equalised
    <2> QED BY <2>2 DEF LoadedTheta
<1> QED BY <1>1, <1>2 DEF Restored

-----------------------------------------------------------------------------
(* A batch keeps the invariant.                                            *)

(* A batch takes each rank of one replica a step further.                  *)
LEMMA InnerRank ==
    ASSUME Inv, NEW i \in Replica, InnerStep(i), NEW r \in Rank
    PROVE  /\ ReplicaOf(r) # i => rank'[r] = rank[r]
           /\ ReplicaOf(r) = i =>
                /\ rank[r].at = "batch" /\ InTrainer(rank[r])
                /\ InTrainer(rank'[r]) /\ ~AfterTraining(rank'[r])
                /\ rank'[r].at \in {"batch", "reduce", "outer"}
                /\ Done(rank'[r]) = Done(rank[r]) + 1
                /\ Done(rank[r]) < Epochs * StepsPerEpoch
                /\ rank'[r].counter = rank[r].counter + 1
                /\ rank'[r].theta = rank[r].theta
                /\ rank'[r].momentum = rank[r].momentum /\ rank'[r].pulls = rank[r].pulls
                /\ rank'[r].total = rank[r].total + 1 /\ rank'[r].told = rank[r].told
                /\ Kept(rank'[r]) = Kept(rank[r]) \cup {<<i, Done(rank[r]) + 1>>}
           /\ rank'[r] \in ProcessT
           /\ Folded(rank'[r]) = Folded(rank[r]) /\ Passed(rank'[r]) = Passed(rank[r])
           /\ rank'[r].at \in Ended => rank'[r] = rank[r]
<1> USE Bounds
<1> DEFINE p == rank[r]
           q == rank'[r]
<1>1. Typed /\ AllOrNone BY DEF Inv
<1>2. /\ Running
      /\ ReplicaOf(r) = i => p.at = "batch"
      /\ q = IF ReplicaOf(r) = i THEN InnerMoved(i, p) ELSE p
    BY <1>1, InnerEffect
<1>3. p \in ProcessT BY <1>1 DEF Typed
<1>4. CASE ReplicaOf(r) # i BY <1>2, <1>3, <1>4
<1>5. CASE ReplicaOf(r) = i
    <2>1. p.at = "batch" /\ q = InnerMoved(i, p) BY <1>2, <1>5
    <2>2. InTrainer(p)
        <3>1. InTrainer(p) \/ AfterTraining(p) BY <1>2 DEF Inv, Structure, Placed
        <3> QED BY <2>1, <3>1 DEF AfterTraining
    <2> HIDE DEF p, q
    <2>3. /\ Done(p) \in Nat /\ p.epoch \in Nat /\ p.step \in Nat /\ p.counter \in Nat
          /\ p.counter < InnerSteps /\ Folded(p) = Done(p) - p.counter
          /\ Done(p) = p.epoch * StepsPerEpoch + p.step
        BY <1>3, <2>1, <2>2, Distance
    <2>4. p.step < StepsPerEpoch /\ p.epoch < Epochs BY <2>1, <2>2 DEF InTrainer
    <2>5. Done(p) + 1 <= Epochs * StepsPerEpoch
        <3>1. /\ (p.epoch + 1) * StepsPerEpoch <= Epochs * StepsPerEpoch
              /\ (p.epoch + 1) * StepsPerEpoch = p.epoch * StepsPerEpoch + StepsPerEpoch
              /\ p.epoch * StepsPerEpoch \in Nat
            BY <2>3, <2>4, Times, SMT
        <3> QED BY <2>3, <2>4, <3>1, Sets, SMT
    <2>6. <<i, Done(p) + 1>> \in Trained BY <2>3, <2>5, Sets, SMT
    <2>7. /\ q.at = IF p.counter + 1 < InnerSteps
                    THEN IF p.step + 1 < StepsPerEpoch THEN "batch" ELSE "reduce"
                    ELSE "outer"
          /\ q.epoch = p.epoch /\ q.step = p.step + 1 /\ q.counter = p.counter + 1
          /\ q.total = p.total + 1 /\ q.told = p.told
          /\ q.theta = p.theta /\ q.pulls = p.pulls
          /\ q.stash = p.stash /\ q.momentum = p.momentum
          /\ q.model = p.model \cup {<<i, Done(p) + 1>>}
          /\ q \in ProcessT
        BY <1>3, <2>1, <2>3, <2>4, <2>6, InnerFields
    <2>8. Done(q) = Done(p) + 1 /\ Folded(q) = Folded(p)
        <3>1. Done(q) = p.epoch * StepsPerEpoch + (p.step + 1) BY <2>7 DEF Done
        <3>2. p.epoch * StepsPerEpoch \in Nat BY <2>3, Times
        <3>3. Done(q) = Done(p) + 1 BY <2>3, <3>1, <3>2, SMT
        <3>4. Folded(q) = Done(q) - q.counter BY DEF Folded
        <3> QED BY <2>3, <2>7, <3>3, <3>4, SMT
    <2>9. Ended = {"eval", "save", "shards", "meta", "barrier", "state", "flush"}
            /\ InModel \subseteq Ended
        BY DEF Ended, InModel
    <2>10. q.at \in {"batch", "reduce", "outer"} /\ q.at \notin Ended /\ p.at \notin Ended
        BY <2>1, <2>7, <2>9
    <2>11. Passed(q) = Passed(p) BY <2>7, <2>10 DEF Passed
    <2>12. Kept(q) = Kept(p) \cup {<<i, Done(p) + 1>>}
        BY <2>7, <2>9, <2>10 DEF Kept
    <2>13. InTrainer(q)
        <3> DEFINE at == q.at
                   step == q.step
                   counter == q.counter
        <3>1. /\ at \in {"batch", "reduce", "outer"}
              /\ at = "batch" => step < StepsPerEpoch
              /\ at = "outer" => step > 0
              /\ at = "outer" <=> counter = InnerSteps
              /\ at \notin {"batch", "outer"} => step = StepsPerEpoch
            BY <2>3, <2>4, <2>7, <1>3, Fields, SMT
        <3>2. q.epoch < Epochs BY <2>4, <2>7
        <3> QED BY <2>9, <3>1, <3>2 DEF InTrainer
    <2>14. ~AfterTraining(q) BY <2>10 DEF AfterTraining
    <2>15. Done(p) < Epochs * StepsPerEpoch BY <2>3, <2>5, Sets, SMT
    <2> QED BY <1>5, <2>1, <2>2, <2>7, <2>8, <2>10, <2>11, <2>12, <2>13, <2>14, <2>15 DEF p, q
<1> QED BY <1>4, <1>5

(* After a batch the ranks are typed, placed and still in step.            *)
LEMMA InnerStructure ==
    ASSUME Inv, NEW i \in Replica, InnerStep(i)
    PROVE  Typed' /\ AllOrNone' /\ Running' /\ Structure'
<1>1. Typed /\ AllOrNone /\ Running /\ Quiet
        /\ rank' = [r \in Rank |-> IF ReplicaOf(r) = i THEN InnerMoved(i, rank[r])
                                      ELSE rank[r]]
    BY InnerEffect DEF Inv
<1>2. Placed /\ Level /\ Together BY <1>1 DEF Inv, Structure
<1>3. Typed'
    <2>1. \A r \in Rank : rank'[r] \in ProcessT BY InnerRank
    <2>2. rank' \in [Rank -> ProcessT] BY <1>1, <2>1
    <2> QED BY <1>1, <2>2 DEF Typed, Quiet, flags
<1>4. Placed' BY <1>2, InnerRank DEF Placed
<1>5. Running'
    <2>1. \A r \in Rank : rank'[r].at # "down"
        BY <1>1, InnerRank DEF Running
    <2> QED BY <2>1 DEF Running
<1>6. Level'
    <2> SUFFICES ASSUME NEW q \in Rank, NEW r \in Rank
                 PROVE  /\ Passed(rank'[q]) = Passed(rank'[r])
                        /\ ReplicaOf(q) = ReplicaOf(r) => Done(rank'[q]) = Done(rank'[r])
        BY DEF Level
    <2>1. Passed(rank'[q]) = Passed(rank'[r]) BY <1>2, InnerRank DEF Level
    <2>2. ASSUME ReplicaOf(q) = ReplicaOf(r) PROVE Done(rank'[q]) = Done(rank'[r])
        <3>1. Done(rank[q]) = Done(rank[r]) BY <1>2, <2>2 DEF Level
        <3> QED BY <2>2, <3>1, InnerRank
    <2> QED BY <2>1, <2>2
<1>7. Together'
    <2> SUFFICES ASSUME NEW q \in Rank, NEW r \in Rank PROVE Company(q, r)'
        BY DEF Together
    <2>1. PICK w \in Rank : ReplicaOf(w) = i
        <3>1. 0 \in Slot BY Bounds, SMT DEF Slot
        <3> QED BY <3>1, Layout
    <2>2. rank[w].at = "batch" BY <2>1, InnerRank
    <2>3. Company(q, r) /\ Company(w, r) BY <1>2 DEF Together
    <2>4. CASE ReplicaOf(r) = i
        <3>1. rank'[r].at \in {"batch", "reduce", "outer"} BY <2>4, InnerRank
        <3> QED BY <3>1 DEF Company
    <2>5. CASE ReplicaOf(r) # i
        <3>1. rank'[r] = rank[r] BY <2>5, InnerRank
        <3>2. rank[r].at \notin {"flush", "eval", "shards", "barrier", "exited"}
            BY <2>2, <2>3, <2>1, RankZero, <2>5 DEF Company
        <3>3. rank[r].at = "save" => w = 0 /\ FALSE
            BY <2>2, <2>3 DEF Company
        <3> QED BY <1>1, <2>3, <3>1, <3>2, <3>3 DEF Company, Quiet, flags
    <2> QED BY <2>4, <2>5
<1> QED BY <1>1, <1>3, <1>4, <1>5, <1>6, <1>7 DEF Structure, AllOrNone, Quiet

(* Where one waits for an outer step and another is past it, a rank of the *)
(* other's replica waits too.                                              *)
LEMMA Waiting ==
    ASSUME Inv, Running, Whole, NEW q \in Rank, NEW r \in Rank, Behind(rank[q], rank[r])
    PROVE  /\ Folded(rank[q]) < Folded(rank[r])
           /\ \E s \in Rank : /\ ReplicaOf(s) = ReplicaOf(r) /\ SlotOf(s) = SlotOf(q)
                              /\ rank[s].at \in {"outer", "flush"}
<1> USE Bounds
<1>1. Typed /\ Placed /\ Aligned BY DEF Inv, Structure
<1>2. rank[q] \in ProcessT /\ rank[r] \in ProcessT BY <1>1 DEF Typed
<1>3. rank[q].at \in {"outer", "flush"} /\ Done(rank[q]) = Done(rank[r]) /\ rank[r].counter = 0
    BY DEF Behind
<1>4. rank[q].counter > 0
    <2>1. InTrainer(rank[q])
        <3>1. InTrainer(rank[q]) \/ AfterTraining(rank[q]) BY <1>1 DEF Placed
        <3> QED BY <1>3, <3>1 DEF AfterTraining
    <2> QED BY <1>3, <2>1, SMT DEF InTrainer
<1>5. Folded(rank[q]) < Folded(rank[r])
    <2>1. /\ Folded(rank[q]) = Done(rank[q]) - rank[q].counter
          /\ Folded(rank[r]) = Done(rank[r]) - rank[r].counter
          /\ Done(rank[q]) \in Nat /\ rank[q].counter \in Nat
        BY <1>2, Distance
    <2> QED BY <1>3, <1>4, <2>1, SMT
<1>6. PICK s \in Rank : ReplicaOf(s) = ReplicaOf(r) /\ SlotOf(s) = SlotOf(q)
    BY Layout
<1>7. Folded(rank[s]) = Folded(rank[q]) BY <1>1, <1>6 DEF Aligned, Same
<1>8. Folded(rank[s]) # Folded(rank[r])
    <2>1. Folded(rank[q]) \in Int /\ Folded(rank[r]) \in Int BY <1>2, Distance
    <2> QED BY <1>5, <1>7, <2>1, SMT
<1>9. Same(rank[s], rank[r]) \/ Behind(rank[s], rank[r]) \/ Behind(rank[r], rank[s])
    BY <1>1, <1>6 DEF Aligned
<1>10. ~Behind(rank[r], rank[s])
    <2>1. rank[r].at \in {"batch", "reduce", "eval"} BY DEF Behind
    <2> QED BY <2>1 DEF Behind
<1>11. rank[s].at \in {"outer", "flush"} BY <1>8, <1>9, <1>10 DEF Same, Behind
<1> QED BY <1>5, <1>6, <1>11

(* A batch adds its step to the models of the replica and to no theta.     *)
LEMMA InnerThetas ==
    ASSUME Inv, NEW i \in Replica, InnerStep(i)
    PROVE  Thetas'
<1>1. Typed /\ AllOrNone /\ Running /\ Quiet /\ Thetas /\ Placed
    BY InnerEffect DEF Inv, Structure
<1>2. lost' = lost BY <1>1 DEF Quiet
<1> SUFFICES ASSUME NEW r \in Rank PROVE ThetaOK(r)'
    BY DEF Thetas
<1>3. ThetaOK(r) BY <1>1 DEF Thetas
<1>4. \A q \in Rank : rank'[q].theta = rank[q].theta /\ Folded(rank'[q]) = Folded(rank[q])
    BY InnerRank
<1>5. rank[r] \in ProcessT BY <1>1 DEF Typed
<1>6. /\ Start \in rank'[r].theta
      /\ rank'[r].theta \subseteq {Start} \cup Steps
      /\ rank'[r].theta \cap lost' = {}
    BY <1>2, <1>3, <1>4 DEF ThetaOK
<1>7. \A q \in OuterGroup(r) :
          /\ rank'[q].theta = rank'[r].theta
          /\ ({ReplicaOf(q)} \X (1 .. Folded(rank'[q]))) \subseteq rank'[r].theta \cup lost'
    BY <1>2, <1>3, <1>4, GroupCovers DEF ThetaOK
<1>8. CASE ReplicaOf(r) # i
    <2>1. rank'[r] = rank[r] BY <1>8, InnerRank
    <2> QED BY <1>2, <1>3, <1>6, <1>7, <2>1 DEF ThetaOK, Drift
<1>9. CASE ReplicaOf(r) = i
    <2> DEFINE p == rank[r]
               q == rank'[r]
    <2>1. /\ InTrainer(p) /\ ~AfterTraining(q) /\ q.at \in {"batch", "reduce", "outer"}
          /\ Done(q) = Done(p) + 1 /\ Folded(q) = Folded(p) /\ q.theta = p.theta
          /\ Kept(q) = Kept(p) \cup {<<i, Done(p) + 1>>}
        BY <1>9, InnerRank
    <2>2. Kept(p) = p.theta \cup Drift(r) /\ \A v \in lost : v[2] <= Done(p)
        BY <1>3 DEF ThetaOK
    <2>3. Done(p) \in Nat /\ Folded(p) \in Int /\ Folded(p) <= Done(p)
        BY <1>5, Distance, SMT
    <2>4. <<i, Done(p) + 1>> \notin lost
        <3> SUFFICES ASSUME <<i, Done(p) + 1>> \in lost PROVE FALSE OBVIOUS
        <3>1. <<i, Done(p) + 1>>[2] <= Done(p) BY <2>2
        <3> QED BY <2>3, <3>1, SMT
    <2>5. Drift(r)' = ({i} \X Phase(q)) \ lost /\ Drift(r) = ({i} \X Phase(p)) \ lost
        BY <1>2, <1>9 DEF Drift
    <2> HIDE DEF p, q
    <2>6. Phase(q) = Phase(p) \cup {Done(p) + 1}
        BY <2>1, <2>3, SMT DEF Phase
    <2>7. ({i} \X Phase(q)) \ lost = (({i} \X Phase(p)) \ lost) \cup {<<i, Done(p) + 1>>}
        BY <2>4, <2>6
    <2>8. Kept(q) = q.theta \cup Drift(r)' BY <2>1, <2>2, <2>5, <2>7
    <2>9. q.at \notin InModel BY <2>1 DEF InModel
    <2>10. \A v \in lost : v[2] <= Done(q)
        <3> SUFFICES ASSUME NEW v \in lost PROVE v[2] <= Done(q) OBVIOUS
        <3>1. v[2] \in Nat BY <1>1, SMT DEF Typed, Steps
        <3> QED BY <2>1, <2>2, <2>3, <3>1, SMT
    <2> QED BY <1>2, <1>6, <1>7, <2>1, <2>8, <2>9, <2>10 DEF ThetaOK, p, q
<1> QED BY <1>8, <1>9

(* After a batch thetas still agree wherever they account for the same     *)
(* steps.                                                                  *)
LEMMA InnerAligned ==
    ASSUME Inv, NEW i \in Replica, InnerStep(i), Whole
    PROVE  Aligned' /\ Complete' /\ JustSaved' /\ EvenHanded'
<1>1. Typed /\ AllOrNone /\ Running /\ Quiet /\ Aligned /\ Complete /\ JustSaved /\ EvenHanded
    BY InnerEffect DEF Inv
<1>2. lost' = lost /\ disk' = disk /\ torn' = torn BY <1>1 DEF Quiet
<1>3. \A q \in Rank : rank'[q].theta = rank[q].theta /\ Folded(rank'[q]) = Folded(rank[q])
    BY InnerRank
<1>4. ASSUME NEW q \in Rank, NEW r \in Rank, Same(rank[q], rank[r])
      PROVE  Same(rank[q], rank[r])'
    <2>1. ASSUME NEW s \in Rank
          PROVE  /\ rank'[s].momentum = rank[s].momentum /\ rank'[s].pulls = rank[s].pulls
                 /\ Uncounted(rank'[s]) = Uncounted(rank[s])
        <3>1. CASE ReplicaOf(s) # i BY <3>1, InnerRank
        <3>2. CASE ReplicaOf(s) = i
            <4>1. rank[s] \in ProcessT BY <1>1 DEF Typed
            <4>2. Done(rank[s]) \in Nat /\ rank[s].total \in Nat BY <4>1, Distance, Fields
            <4>3. Done(rank'[s]) = Done(rank[s]) + 1 /\ rank'[s].total = rank[s].total + 1
                BY <3>2, InnerRank
            <4>4. Uncounted(rank'[s]) = Uncounted(rank[s]) BY <4>2, <4>3, SMT DEF Uncounted
            <4> QED BY <3>2, <4>4, InnerRank
        <3> QED BY <3>1, <3>2
    <2>2. Alike(rank[q], rank[r]) => Alike(rank[q], rank[r])' BY <2>1 DEF Alike
    <2> QED BY <1>2, <1>3, <1>4, <2>2 DEF Same, Matched
<1>5. ASSUME NEW q \in Rank, NEW r \in Rank, Behind(rank[q], rank[r])
      PROVE  Behind(rank[q], rank[r])'
    <2>1. ReplicaOf(q) # i BY <1>5, InnerRank DEF Behind
    <2>2. PICK s \in Rank : ReplicaOf(s) = ReplicaOf(r) /\ rank[s].at \in {"outer", "flush"}
        BY <1>1, <1>5, Waiting
    <2>3. ReplicaOf(r) # i BY <2>2, InnerRank
    <2>4. rank'[q] = rank[q] /\ rank'[r] = rank[r] BY <2>1, <2>3, InnerRank
    <2> QED BY <1>2, <1>5, <2>4 DEF Behind, Pulled, Matched
<1>6. Aligned' BY <1>1, <1>4, <1>5 DEF Aligned
<1>7. JustSaved'
    <2> SUFFICES ASSUME NEW r \in Rank, Written(r)'
                 PROVE  disk'.saved.model = rank'[r].theta
                        /\ disk'.saved.epoch \in {0, Passed(rank'[r])}
        BY DEF JustSaved
    <2>1. rank'[r] = rank[r] BY InnerRank DEF Written, Ended, InModel
    <2> QED BY <1>1, <1>2, <2>1 DEF JustSaved, Written
<1>8. EvenHanded'
    <2>1. \A r \in Rank : Even(rank'[r].theta) BY <1>1, <1>3 DEF EvenHanded
    <2> QED BY <1>1, <1>2, <2>1 DEF EvenHanded, Even
<1>9. Complete'
    <2> SUFFICES ASSUME NEW r \in Rank, Finished(rank'[r])
                 PROVE  Steps \subseteq rank'[r].theta \cup lost'
        BY DEF Complete
    <2>1. rank'[r] = rank[r]
        BY InnerRank DEF Finished, AfterTraining, InModel
    <2> QED BY <1>1, <1>2, <2>1 DEF Complete
<1> QED BY <1>6, <1>7, <1>8, <1>9

(* A batch counts in total as it does in Done.                             *)
LEMMA InnerMomenta ==
    ASSUME Inv, NEW i \in Replica, InnerStep(i), Intact
    PROVE  Momenta'
<1>1. Typed /\ AllOrNone /\ Running /\ Quiet /\ Momenta
    BY InnerEffect DEF Inv
<1>2. disk' = disk BY <1>1 DEF Quiet
<1>3. ASSUME NEW r \in Rank PROVE MomentumOK(r)'
    <2>1. MomentumOK(r) BY <1>1, <1>3 DEF Momenta
    <2>2. CASE ReplicaOf(r) # i
        <3>1. rank'[r] = rank[r] BY <2>2, InnerRank
        <3> QED BY <1>2, <2>1, <3>1 DEF MomentumOK, Filed
    <2>3. CASE ReplicaOf(r) = i
        <3> DEFINE p == rank[r]
                   q == rank'[r]
        <3>1. /\ q.at \in {"batch", "reduce", "outer"}
              /\ Done(q) = Done(p) + 1 /\ q.theta = p.theta /\ q.momentum = p.momentum
              /\ q.total = p.total + 1 /\ q.told = p.told /\ Passed(q) = Passed(p)
            BY <2>3, InnerRank
        <3>2. p \in ProcessT BY <1>1 DEF Typed
        <3>3. Done(p) \in Nat /\ p.total \in Nat BY <3>2, Distance, Fields
        <3>4. q.at \notin InModel /\ q.at \notin {"flush", "eval"} BY <3>1 DEF InModel
        <3>5. /\ ~p.told => p.total = Done(p)
              /\ p.total <= Done(p)
              /\ p.total = Done(p) => Belongs(p.momentum, p.theta)
              /\ \A f \in Rank : disk.outer[f].total <= Passed(p) * StepsPerEpoch
            BY <2>1 DEF MomentumOK
        <3> HIDE DEF p, q
        <3>6. /\ ~q.told => q.total = Done(q)
              /\ q.total <= Done(q)
            BY <3>1, <3>3, <3>5, SMT
        <3>7. q.total = Done(q) => p.total = Done(p) BY <3>1, <3>3, SMT
        <3>8. q.total = Done(q) => Belongs(q.momentum, q.theta) BY <3>1, <3>5, <3>7
        <3>9. \A f \in Rank : disk'.outer[f].total <= Passed(q) * StepsPerEpoch
            BY <1>2, <3>1, <3>5
        <3> QED BY <3>4, <3>6, <3>8, <3>9 DEF MomentumOK, p, q
    <2> QED BY <2>2, <2>3
<1> QED BY <1>1, <1>2, <1>3 DEF Momenta, Filed

(* A batch keeps the invariant.                                            *)
LEMMA InnerPreserves ==
    ASSUME Inv, NEW i \in Replica, InnerStep(i)
    PROVE  Inv'
<1>1. Running /\ Quiet BY InnerEffect DEF Inv
<1>2. Typed' /\ AllOrNone' /\ Running' /\ Structure' BY InnerStructure
<1>3. Sensible'
    <2>1. \A r \in Rank : Written(r)' => rank'[r] = rank[r] BY InnerRank DEF Written, Ended, InModel
    <2>2. \A r \in Rank : Written(r)' => Written(r) BY <2>1 DEF Written
    <2> QED BY <1>1, <2>2 DEF Inv, Sensible, Quiet
<1>4. Few'
    <2>1. Few BY DEF Inv
    <2>2. rank'[0].at = "meta" => rank'[0] = rank[0]
        <3>1. "meta" \in Ended BY DEF Ended, InModel
        <3> QED BY <3>1, RankZero, InnerRank
    <2>3. Allowed' = Allowed BY <1>1, <1>2 DEF Allowed, Quiet
    <2> QED BY <1>1, <2>1, <2>2, <2>3 DEF Few, Quiet, Missing
<1>5. Whole' => Whole BY <1>1 DEF Whole, Quiet
<1>6. Intact' => Intact BY <1>1 DEF Intact, Quiet
<1> QED BY <1>2, <1>3, <1>4, <1>5, <1>6, InnerThetas, InnerAligned, InnerMomenta DEF Inv

-----------------------------------------------------------------------------
(* An outer step keeps the invariant.                                      *)

(* What the replicas travelled consists of steps.                          *)
LEMMA TravelledTyped ==
    ASSUME Typed, NEW slot PROVE Travelled(slot) \in SUBSET Trained
<1>1. \A r \in Rank : rank[r].model \in SUBSET Trained
    <2> SUFFICES ASSUME NEW r \in Rank PROVE rank[r].model \in SUBSET Trained OBVIOUS
    <2>1. rank[r] \in ProcessT BY DEF Typed
    <2> QED BY <2>1, Fields
<1> QED BY <1>1 DEF Travelled

(* An outer step moves the ranks of one slot past their boundary.          *)
LEMMA OuterRank ==
    ASSUME Inv, NEW slot \in Slot, OuterStep(slot), NEW r \in Rank
    PROVE  /\ SlotOf(r) # slot => rank'[r] = rank[r]
           /\ SlotOf(r) = slot =>
                /\ rank[r].at \in {"outer", "flush"} /\ InTrainer(rank[r])
                /\ InTrainer(rank'[r]) /\ ~AfterTraining(rank'[r])
                /\ rank[r].at = "outer" => rank'[r].at \in {"batch", "reduce"}
                /\ rank[r].at = "flush" => rank'[r].at = "eval"
                /\ Folded(rank'[r]) = Done(rank[r]) /\ rank'[r].counter = 0
                /\ rank'[r].theta = rank[r].theta \cup Travelled(slot)
                /\ rank'[r].momentum = rank[r].momentum \cup Travelled(slot)
                /\ rank'[r].pulls = rank[r].pulls \cup {<<rank[r].total, rank[r].momentum>>}
                /\ rank'[r].total = rank[r].total /\ rank'[r].told = rank[r].told
                /\ Kept(rank'[r]) = rank'[r].theta
                /\ rank'[r].model = rank'[r].theta
           /\ rank'[r] \in ProcessT
           /\ Done(rank'[r]) = Done(rank[r]) /\ Passed(rank'[r]) = Passed(rank[r])
<1> USE Bounds
<1> DEFINE p == rank[r]
           q == rank'[r]
           travelled == Travelled(slot)
<1>1. Typed /\ AllOrNone BY DEF Inv
<1>2. /\ Running
      /\ SlotOf(r) = slot => p.at \in {"outer", "flush"}
      /\ q = IF SlotOf(r) = slot THEN OuterMoved(p, travelled) ELSE p
    BY <1>1, OuterEffect
<1>3. p \in ProcessT BY <1>1 DEF Typed
<1>4. CASE SlotOf(r) # slot BY <1>2, <1>3, <1>4
<1>5. CASE SlotOf(r) = slot
    <2>1. p.at \in {"outer", "flush"} /\ q = OuterMoved(p, travelled) BY <1>2, <1>5
    <2>2. InTrainer(p)
        <3>1. InTrainer(p) \/ AfterTraining(p) BY <1>2 DEF Inv, Structure, Placed
        <3> QED BY <2>1, <3>1 DEF AfterTraining
    <2>3. travelled \in SUBSET Trained BY <1>1, TravelledTyped
    <2> HIDE DEF p, q, travelled
    <2>4. /\ q.at = IF p.at = "outer"
                    THEN IF p.step < StepsPerEpoch THEN "batch" ELSE "reduce"
                    ELSE "eval"
          /\ q.epoch = p.epoch /\ q.step = p.step /\ q.counter = 0
          /\ q.total = p.total /\ q.told = p.told
          /\ q.theta = p.theta \cup travelled /\ q.model = p.theta \cup travelled
          /\ p.at = "flush" => q.stash = p.theta \cup travelled
          /\ q.momentum = p.momentum \cup travelled
          /\ q.pulls = p.pulls \cup {<<p.total, p.momentum>>}
          /\ q \in ProcessT
        BY <1>3, <2>1, <2>3, OuterFields
    <2>5. Ended = {"eval", "save", "shards", "meta", "barrier", "state", "flush"}
            /\ InModel = {"eval", "save", "shards", "meta", "barrier", "state"}
        BY DEF Ended, InModel
    <2>6. Done(p) \in Nat /\ p.step \in 0 .. StepsPerEpoch /\ p.epoch < Epochs
        BY <1>3, <2>2, Distance, Fields DEF InTrainer
    <2>7. Done(q) = Done(p) BY <2>4 DEF Done
    <2>8. Folded(q) = Done(p) BY <2>4, <2>6, <2>7, SMT DEF Folded
    <2>9. Passed(q) = Passed(p) BY <2>1, <2>4, <2>5 DEF Passed
    <2>10. Kept(q) = q.theta BY <2>1, <2>4, <2>5 DEF Kept
    <2>11. ~AfterTraining(q) BY <2>1, <2>4 DEF AfterTraining
    <2>12. InTrainer(q)
        <3>1. CASE p.at = "outer"
            <4>1. CASE p.step < StepsPerEpoch
                <5>1. q.at = "batch" BY <2>4, <3>1, <4>1
                <5> QED BY <2>4, <2>5, <2>6, <4>1, <5>1, SMT DEF InTrainer
            <4>2. CASE ~(p.step < StepsPerEpoch)
                <5>1. q.at = "reduce" BY <2>4, <3>1, <4>2
                <5>2. p.step = StepsPerEpoch BY <2>6, <4>2, SMT
                <5> QED BY <2>4, <2>5, <2>6, <5>1, <5>2, SMT DEF InTrainer
            <4> QED BY <4>1, <4>2
        <3>2. CASE p.at = "flush"
            <4>1. q.at = "eval" /\ p.step = StepsPerEpoch
                BY <2>2, <2>4, <3>2 DEF InTrainer
            <4> QED BY <2>4, <2>5, <2>6, <4>1, SMT DEF InTrainer
        <3> QED BY <2>1, <3>1, <3>2
    <2> QED BY <1>5, <2>1, <2>2, <2>4, <2>7, <2>8, <2>9, <2>10, <2>11, <2>12 DEF p, q, travelled
<1> QED BY <1>4, <1>5

(* What travels is what the ranks of the group learned in the phase.       *)
LEMMA OuterDrift ==
    ASSUME Inv, NEW slot \in Slot, OuterStep(slot), NEW r \in Rank, SlotOf(r) = slot
    PROVE  rank'[r].theta = rank[r].theta \cup UNION {Drift(q) : q \in OuterGroup(r)}
           /\ Travelled(slot) = (UNION {Drift(q) : q \in OuterGroup(r)}) \ rank[r].theta
<1>1. Running /\ Thetas BY OuterEffect DEF Inv
<1>2. OuterGroup(r) = {q \in Rank : SlotOf(q) = slot} BY DEF OuterGroup
<1>3. ASSUME NEW q \in OuterGroup(r)
      PROVE  /\ rank[q].theta = rank[r].theta
             /\ rank[q].model = rank[r].theta \cup Drift(q)
    <2>1. ThetaOK(q) /\ ThetaOK(r) BY <1>1, <1>2 DEF Thetas
    <2>2. rank[q].theta = rank[r].theta BY <2>1 DEF ThetaOK
    <2>3. rank[q].at \notin InModel BY <1>2, OuterRank DEF InModel
    <2>4. rank[q].model = rank[q].theta \cup Drift(q) BY <2>1, <2>3 DEF ThetaOK, Kept
    <2> QED BY <2>2, <2>4
<1>4. rank'[r].theta = rank[r].theta \cup Travelled(slot) BY OuterRank
<1>5. Travelled(slot) = UNION {rank[q].model \ rank[q].theta : q \in OuterGroup(r)}
    BY <1>2 DEF Travelled
<1>6. Travelled(slot) = (UNION {Drift(q) : q \in OuterGroup(r)}) \ rank[r].theta
    BY <1>3, <1>5
<1>7. ASSUME NEW q \in OuterGroup(r) PROVE Drift(q) \subseteq rank[r].theta \cup Travelled(slot)
    BY <1>3, <1>5
<1> QED BY <1>4, <1>6, <1>7

(* After an outer step the ranks are typed, placed and still in step.      *)
LEMMA OuterStructure ==
    ASSUME Inv, NEW slot \in Slot, OuterStep(slot)
    PROVE  Typed' /\ AllOrNone' /\ Running' /\ Structure'
<1>1. Typed /\ AllOrNone /\ Running /\ Quiet
        /\ rank' = [r \in Rank |-> IF SlotOf(r) = slot
                                   THEN OuterMoved(rank[r], Travelled(slot)) ELSE rank[r]]
    BY OuterEffect DEF Inv
<1>2. Placed /\ Level /\ Together BY <1>1 DEF Inv, Structure
<1>3. Typed'
    <2>1. \A r \in Rank : rank'[r] \in ProcessT BY OuterRank
    <2>2. rank' \in [Rank -> ProcessT] BY <1>1, <2>1
    <2> QED BY <1>1, <2>2 DEF Typed, Quiet, flags
<1>4. Placed' BY <1>2, OuterRank DEF Placed
<1>5. Running'
    <2>1. \A r \in Rank : rank'[r].at # "down"
        BY <1>1, OuterRank DEF Running
    <2> QED BY <2>1 DEF Running
<1>6. Level' BY <1>2, OuterRank DEF Level
<1>7. Together'
    <2> SUFFICES ASSUME NEW q \in Rank, NEW r \in Rank PROVE Company(q, r)'
        BY DEF Together
    <2>1. PICK w \in Rank : SlotOf(w) = slot
        <3>1. 0 \in Replica BY Bounds, SMT DEF Replica
        <3> QED BY <3>1, Layout
    <2>2. rank[w].at \in {"outer", "flush"} BY <2>1, OuterRank
    <2>3. Company(q, r) /\ Company(w, r) BY <1>2 DEF Together
    <2>4. rank[q].at \in {"flush", "eval"} => rank'[q].at \in {"flush", "eval"}
        BY OuterRank
    <2>5. CASE SlotOf(r) = slot
        <3>1. rank'[r].at \in {"batch", "reduce", "eval"}
                /\ (rank'[r].at = "eval" => rank[r].at = "flush")
            BY <2>5, OuterRank
        <3>2. rank'[r].at = "eval" => rank'[q].at \in {"flush", "eval"}
            BY <2>3, <2>4, <3>1 DEF Company
        <3> QED BY <3>1, <3>2 DEF Company
    <2>6. CASE SlotOf(r) # slot
        <3>1. rank'[r] = rank[r] BY <2>6, OuterRank
        <3>2. rank[r].at \notin {"shards", "barrier", "exited"}
            BY <2>2, <2>3 DEF Company
        <3>3. rank[r].at = "save" => FALSE
            BY <2>1, <2>2, <2>3, <2>6 DEF Company
        <3> QED BY <1>1, <2>3, <2>4, <3>1, <3>2, <3>3 DEF Company, Quiet, flags
    <2> QED BY <2>5, <2>6
<1> QED BY <1>1, <1>3, <1>4, <1>5, <1>6, <1>7 DEF Structure, AllOrNone, Quiet

(* After an outer step theta accounts for all that its group has done.     *)
LEMMA OuterThetas ==
    ASSUME Inv, NEW slot \in Slot, OuterStep(slot)
    PROVE  Thetas'
<1>1. Typed /\ AllOrNone /\ Running /\ Quiet /\ Thetas /\ Placed
    BY OuterEffect DEF Inv, Structure
<1>2. lost' = lost BY <1>1 DEF Quiet
<1> SUFFICES ASSUME NEW r \in Rank PROVE ThetaOK(r)'
    BY DEF Thetas
<1>3. ThetaOK(r) BY <1>1 DEF Thetas
<1>4. CASE SlotOf(r) # slot
    <2>1. \A q \in OuterGroup(r) : rank'[q] = rank[q] BY <1>4, OuterRank, GroupCovers
    <2>2. rank'[r] = rank[r] BY <1>4, OuterRank
    <2> QED BY <1>2, <1>3, <2>1, <2>2 DEF ThetaOK, Drift
<1>5. CASE SlotOf(r) = slot
    <2> DEFINE p == rank[r]
               q == rank'[r]
               drifts == UNION {Drift(s) : s \in OuterGroup(r)}
    <2>1. /\ ~AfterTraining(q) /\ Folded(q) = Done(p) /\ Done(q) = Done(p)
          /\ Kept(q) = q.theta /\ q.model = q.theta
          /\ q.theta = p.theta \cup Travelled(slot)
        BY <1>5, OuterRank
    <2>2. q.theta = p.theta \cup drifts BY <1>5, OuterDrift
    <2>3. ASSUME NEW s \in OuterGroup(r)
          PROVE  /\ s \in Rank /\ SlotOf(s) = slot /\ ReplicaOf(s) \in Replica
                 /\ rank[s] \in ProcessT /\ rank[s].theta = p.theta
                 /\ Done(rank[s]) \in Nat /\ Done(rank[s]) <= Epochs * StepsPerEpoch
                 /\ Folded(rank[s]) \in Int
        <3>1. s \in Rank /\ SlotOf(s) = slot BY <1>5, GroupCovers
        <3>2. rank[s] \in ProcessT BY <1>1, <3>1 DEF Typed
        <3>3. InTrainer(rank[s]) BY <3>1, OuterRank
        <3>4. rank[s].theta = p.theta BY <1>3 DEF ThetaOK
        <3> QED BY <3>1, <3>2, <3>3, <3>4, Distance, Layout
    <2>4. drifts \subseteq Steps /\ drifts \cap lost = {}
        <3> SUFFICES ASSUME NEW s \in OuterGroup(r)
                     PROVE  Drift(s) \subseteq Steps /\ Drift(s) \cap lost = {}
            OBVIOUS
        <3>1. Phase(rank[s]) \subseteq 1 .. Epochs * StepsPerEpoch
            BY <2>3, Sets, SMT DEF Phase
        <3> QED BY <2>3, <3>1 DEF Drift, Steps
    <2>5. /\ Start \in q.theta /\ q.theta \subseteq {Start} \cup Steps /\ q.theta \cap lost = {}
        BY <1>3, <2>2, <2>4 DEF ThetaOK
    <2>6. Drift(r)' = {}
        <3>1. Done(p) \in Nat BY <2>3, GroupCovers
        <3> HIDE DEF p, q
        <3>2. Phase(q) = {} BY <2>1, <3>1, SMT DEF Phase
        <3> QED BY <3>2 DEF Drift, q
    <2>7. ASSUME NEW s \in OuterGroup(r)
          PROVE  /\ rank'[s].theta = q.theta
                 /\ ({ReplicaOf(s)} \X (1 .. Folded(rank'[s]))) \subseteq q.theta \cup lost
        <3>1. /\ rank'[s].theta = rank[s].theta \cup Travelled(slot)
              /\ Folded(rank'[s]) = Done(rank[s])
            BY <2>3, OuterRank
        <3>2. rank'[s].theta = q.theta BY <2>1, <2>3, <3>1
        <3>3. ({ReplicaOf(s)} \X (1 .. Folded(rank[s]))) \subseteq p.theta \cup lost
            BY <1>3 DEF ThetaOK
        <3>4. Drift(s) \subseteq q.theta BY <2>2
        <3>5. ASSUME NEW n \in 1 .. Done(rank[s])
              PROVE  <<ReplicaOf(s), n>> \in q.theta \cup lost
            <4>1. CASE n <= Folded(rank[s])
                <5>1. n \in 1 .. Folded(rank[s]) BY <2>3, <4>1, SMT
                <5> QED BY <2>1, <3>3, <5>1
            <4>2. CASE ~(n <= Folded(rank[s]))
                <5>1. n \in Phase(rank[s]) BY <2>3, <4>2, SMT DEF Phase
                <5>2. <<ReplicaOf(s), n>> \in Drift(s) \cup lost BY <5>1 DEF Drift
                <5> QED BY <3>4, <5>2
            <4> QED BY <4>1, <4>2
        <3> HIDE DEF q
        <3>6. ({ReplicaOf(s)} \X (1 .. Done(rank[s]))) \subseteq q.theta \cup lost BY <3>5
        <3> QED BY <3>1, <3>2, <3>6
    <2>8. \A v \in lost : v[2] <= Done(q) BY <1>3, <2>1 DEF ThetaOK
    <2> QED BY <1>2, <2>1, <2>5, <2>6, <2>7, <2>8 DEF ThetaOK
<1> QED BY <1>4, <1>5

(* Ranks that agree and have come equally far count the same.              *)
LEMMA LevelCounts ==
    ASSUME NEW p \in ProcessT, NEW q \in ProcessT, Done(p) = Done(q)
    PROVE  Uncounted(p) = Uncounted(q) <=> p.total = q.total
<1>1. Done(p) \in Nat /\ p.total \in Nat /\ q.total \in Nat BY Distance, Fields
<1> QED BY <1>1, SMT DEF Uncounted

(* The ranks of a group that steps are at the same place of the same       *)
(* phase.                                                                  *)
LEMMA GroupAbreast ==
    ASSUME Inv, Whole, NEW slot \in Slot, OuterStep(slot), NEW q \in Rank, NEW r \in Rank,
           SlotOf(q) = slot, SlotOf(r) = slot
    PROVE  /\ rank[q].at = rank[r].at /\ Done(rank[q]) = Done(rank[r])
           /\ Folded(rank[q]) = Folded(rank[r]) /\ rank[q].theta = rank[r].theta
           /\ Matched => Alike(rank[q], rank[r]) /\ rank[q].total = rank[r].total
<1> USE Bounds
<1>1. Typed /\ Running /\ Together /\ Aligned BY OuterEffect DEF Inv, Structure
<1>2. Same(rank[q], rank[r]) BY <1>1 DEF Aligned
<1>3. /\ rank[q].at \in {"outer", "flush"} /\ rank[r].at \in {"outer", "flush"}
      /\ InTrainer(rank[q]) /\ InTrainer(rank[r])
    BY OuterRank
<1>4. Company(q, r) /\ Company(r, q) BY <1>1 DEF Together
<1>5. rank[q].at = rank[r].at BY <1>3, <1>4 DEF Company
<1>6. rank[q] \in ProcessT /\ rank[r] \in ProcessT BY <1>1 DEF Typed
<1>7. Done(rank[q]) = Done(rank[r])
    <2>1. CASE rank[r].at = "flush" BY <1>3, <1>5, <1>6, <2>1, Distance
    <2>2. CASE rank[r].at = "outer"
        <3>1. rank[q].counter = InnerSteps /\ rank[r].counter = InnerSteps
            BY <1>3, <1>5, <2>2 DEF InTrainer
        <3>2. /\ Folded(rank[q]) = Done(rank[q]) - rank[q].counter
              /\ Folded(rank[r]) = Done(rank[r]) - rank[r].counter
              /\ Done(rank[q]) \in Nat /\ Done(rank[r]) \in Nat
            BY <1>6, Distance
        <3>3. Folded(rank[q]) = Folded(rank[r]) BY <1>2 DEF Same
        <3>4. Done(rank[q]) - InnerSteps = Done(rank[r]) - InnerSteps BY <3>1, <3>2, <3>3
        <3> QED BY <3>2, <3>4, SMT
    <2> QED BY <1>3, <2>1, <2>2
<1>8. ASSUME Alike(rank[q], rank[r]) PROVE rank[q].total = rank[r].total
    BY <1>6, <1>7, <1>8, LevelCounts DEF Alike
<1> QED BY <1>2, <1>5, <1>7, <1>8 DEF Same

(* What an outer step adds to theta.                                       *)
LEMMA OuterTheta ==
    ASSUME Inv, Whole, NEW slot \in Slot, OuterStep(slot), NEW r \in Rank, SlotOf(r) = slot
    PROVE  /\ rank'[r].theta = rank[r].theta \cup ((Replica \X Phase(rank[r])) \ lost)
           /\ Travelled(slot) = ((Replica \X Phase(rank[r])) \ lost) \ rank[r].theta
<1> DEFINE drifts == UNION {Drift(s) : s \in OuterGroup(r)}
<1>1. /\ rank'[r].theta = rank[r].theta \cup drifts
      /\ Travelled(slot) = drifts \ rank[r].theta
    BY OuterDrift
<1>2. ASSUME NEW s \in OuterGroup(r)
      PROVE  Drift(s) = ({ReplicaOf(s)} \X Phase(rank[r])) \ lost /\ ReplicaOf(s) \in Replica
    <2>1. s \in Rank /\ SlotOf(s) = slot BY GroupCovers
    <2>2. Done(rank[s]) = Done(rank[r]) /\ Folded(rank[s]) = Folded(rank[r])
        BY <2>1, GroupAbreast
    <2>3. Phase(rank[s]) = Phase(rank[r]) BY <2>2 DEF Phase
    <2> QED BY <2>1, <2>3, Layout DEF Drift
<1>3. drifts = (Replica \X Phase(rank[r])) \ lost
    <2>1. ASSUME NEW x \in drifts PROVE x \in (Replica \X Phase(rank[r])) \ lost
        <3>1. PICK s \in OuterGroup(r) : x \in Drift(s) BY <2>1
        <3> QED BY <1>2, <3>1
    <2>2. ASSUME NEW i \in Replica, NEW n \in Phase(rank[r]), <<i, n>> \notin lost
          PROVE  <<i, n>> \in drifts
        <3>1. PICK s \in OuterGroup(r) : ReplicaOf(s) = i BY GroupCovers
        <3>2. <<i, n>> \in Drift(s) BY <1>2, <2>2, <3>1
        <3> QED BY <3>2
    <2> HIDE DEF drifts
    <2> QED BY <2>1, <2>2
<1> QED BY <1>1, <1>3

(* The step puts it past a rank that it was level with.                    *)
LEMMA OuterLeavesBehind ==
    ASSUME Inv, Whole, NEW slot \in Slot, OuterStep(slot), NEW q \in Rank, NEW r \in Rank,
           SlotOf(q) # slot, SlotOf(r) = slot, Same(rank[q], rank[r])
    PROVE  Behind(rank[q], rank[r])'
<1> USE Bounds
<1>1. Typed /\ Running /\ Quiet /\ Together /\ Aligned /\ Level /\ Placed
    BY OuterEffect DEF Inv, Structure
<1>2. PICK s \in Rank : ReplicaOf(s) = ReplicaOf(q) /\ SlotOf(s) = slot BY Layout
<1>3. /\ rank[s].at = rank[r].at /\ Done(rank[s]) = Done(rank[r])
      /\ Folded(rank[s]) = Folded(rank[r])
    BY <1>2, GroupAbreast
<1>4. Done(rank[q]) = Done(rank[s]) /\ Passed(rank[q]) = Passed(rank[s])
    BY <1>1, <1>2 DEF Level
<1>5. rank[q] \in ProcessT /\ rank[s] \in ProcessT BY <1>1 DEF Typed
<1>6. rank[q].counter = rank[s].counter
    <2>1. /\ Folded(rank[q]) = Done(rank[q]) - rank[q].counter
          /\ Folded(rank[s]) = Done(rank[s]) - rank[s].counter
          /\ Done(rank[q]) \in Nat /\ rank[q].counter \in Nat /\ rank[s].counter \in Nat
        BY <1>5, Distance
    <2>2. Folded(rank[q]) = Folded(rank[s]) BY <1>3 DEF Same
    <2> QED BY <1>4, <2>1, <2>2, SMT
<1>7. rank[s].at \in {"outer", "flush"} /\ InTrainer(rank[s]) BY <1>2, OuterRank
<1>8. InTrainer(rank[q]) \/ AfterTraining(rank[q]) BY <1>1 DEF Placed
<1>9. rank[q].at = rank[s].at
    <2>1. CASE rank[s].at = "outer"
        <3>1. rank[q].counter = InnerSteps BY <1>6, <1>7, <2>1 DEF InTrainer
        <3>2. InTrainer(rank[q])
            <4>1. InnerSteps \in Nat OBVIOUS
            <4> QED BY <1>8, <3>1, <4>1, SMT DEF AfterTraining
        <3> QED BY <2>1, <3>1, <3>2 DEF InTrainer
    <2>2. CASE rank[s].at = "flush"
        <3>1. rank[q].at \in {"flush", "eval"} BY <1>1, <2>2 DEF Together, Company
        <3>2. InTrainer(rank[q]) BY <1>8, <3>1 DEF AfterTraining
        <3>3. IsLast(rank[s]) /\ rank[s].counter > 0 BY <1>7, <2>2 DEF InTrainer
        <3>4. "flush" \in Ended /\ "eval" \in Ended /\ "eval" \in InModel BY DEF Ended, InModel
        <3>5. rank[q].epoch + 1 = rank[s].epoch + 1
            BY <1>4, <2>2, <3>1, <3>4 DEF Passed
        <3>6. IsLast(rank[q]) BY <3>3, <3>5 DEF IsLast
        <3>7. rank[q].counter # 0
            <4>1. rank[s].counter \in Nat BY <1>5, Distance
            <4> QED BY <1>6, <3>3, <4>1, SMT
        <3>8. rank[q].at # "eval" BY <3>2, <3>4, <3>6, <3>7 DEF InTrainer
        <3> QED BY <2>2, <3>1, <3>8
    <2> QED BY <1>7, <2>1, <2>2
<1>10. rank'[q] = rank[q] BY OuterRank
<1>11. /\ rank[r].at = "outer" => rank'[r].at \in {"batch", "reduce"}
       /\ rank[r].at = "flush" => rank'[r].at = "eval"
       /\ rank'[r].counter = 0 /\ Done(rank'[r]) = Done(rank[r])
    BY OuterRank
<1>12. rank'[r].theta = rank[q].theta \cup ((Replica \X Phase(rank[q])) \ lost)
    <2>1. Phase(rank[r]) = Phase(rank[q]) BY <1>3, <1>4 DEF Phase, Same
    <2>2. rank[r].theta = rank[q].theta BY DEF Same
    <2> QED BY <2>1, <2>2, OuterTheta
<1>13. lost' = lost /\ torn' = torn BY <1>1 DEF Quiet
<1>14. ASSUME Matched PROVE Pulled(rank[q], rank'[r])
    <2>1. Alike(rank[q], rank[r]) BY <1>14 DEF Same
    <2>2. rank[r] \in ProcessT /\ Done(rank[q]) = Done(rank[r]) BY <1>1, <1>3, <1>4 DEF Typed
    <2>3. rank[q].total = rank[r].total BY <1>5, <2>1, <2>2, LevelCounts DEF Alike
    <2>4. Phase(rank[r]) = Phase(rank[q]) BY <2>2 DEF Phase, Same
    <2>5. Travelled(slot) = ((Replica \X Phase(rank[q])) \ lost) \ rank[q].theta
        BY <2>4, OuterTheta DEF Same
    <2>6. /\ rank'[r].momentum = rank[r].momentum \cup Travelled(slot)
          /\ rank'[r].pulls = rank[r].pulls \cup {<<rank[r].total, rank[r].momentum>>}
          /\ rank'[r].total = rank[r].total
        BY OuterRank
    <2> QED BY <2>1, <2>3, <2>5, <2>6 DEF Alike, Pulled
<1>15. Matched' => Pulled(rank[q], rank[r])' BY <1>10, <1>13, <1>14 DEF Matched, Pulled
<1> QED BY <1>3, <1>4, <1>7, <1>9, <1>10, <1>11, <1>12, <1>13, <1>15 DEF Behind

(* The slots that have stepped are ahead of those that wait, by one phase. *)
LEMMA OuterAligned ==
    ASSUME Inv, Whole, NEW slot \in Slot, OuterStep(slot)
    PROVE  Aligned' /\ Complete' /\ JustSaved' /\ EvenHanded'
<1>1. Typed /\ Running /\ Quiet /\ Aligned /\ Complete /\ JustSaved /\ EvenHanded
    BY OuterEffect DEF Inv
<1>2. lost' = lost /\ disk' = disk /\ torn' = torn BY <1>1 DEF Quiet
<1>3. ASSUME NEW q \in Rank, NEW r \in Rank, SlotOf(q) = slot, SlotOf(r) = slot
      PROVE  Same(rank[q], rank[r])'
    <2>1. /\ Done(rank[q]) = Done(rank[r]) /\ rank[q].theta = rank[r].theta
          /\ Matched => Alike(rank[q], rank[r]) /\ rank[q].total = rank[r].total
        BY <1>3, GroupAbreast
    <2>2. ASSUME NEW s \in Rank, SlotOf(s) = slot
          PROVE  /\ Folded(rank'[s]) = Done(rank[s]) /\ Done(rank'[s]) = Done(rank[s])
                 /\ rank'[s].theta = rank[s].theta \cup Travelled(slot)
                 /\ rank'[s].momentum = rank[s].momentum \cup Travelled(slot)
                 /\ rank'[s].pulls = rank[s].pulls \cup {<<rank[s].total, rank[s].momentum>>}
                 /\ rank'[s].total = rank[s].total
        BY <2>2, OuterRank
    <2>3. Matched => Alike(rank'[q], rank'[r])
        BY <1>3, <2>1, <2>2 DEF Alike, Uncounted
    <2>4. Folded(rank'[q]) = Folded(rank'[r]) /\ rank'[q].theta = rank'[r].theta
        BY <1>3, <2>1, <2>2
    <2> QED BY <1>2, <2>3, <2>4 DEF Same, Matched, Alike
<1>4. ASSUME NEW q \in Rank, NEW r \in Rank, SlotOf(q) # slot, SlotOf(r) = slot
      PROVE  Same(rank[q], rank[r])' \/ Behind(rank[q], rank[r])'
    <2>1. Same(rank[q], rank[r]) \/ Behind(rank[q], rank[r]) \/ Behind(rank[r], rank[q])
        BY <1>1 DEF Aligned
    <2>2. CASE Same(rank[q], rank[r]) BY <1>4, <2>2, OuterLeavesBehind
    <2>3. ~Behind(rank[q], rank[r])
        <3>1. rank[r].at \in {"outer", "flush"} BY <1>4, OuterRank
        <3> QED BY <3>1 DEF Behind
    <2>4. CASE Behind(rank[r], rank[q])
        <3>1. /\ Done(rank[r]) = Done(rank[q]) /\ rank[q].counter = 0
              /\ rank[q].theta = rank[r].theta \cup ((Replica \X Phase(rank[r])) \ lost)
              /\ Matched => Pulled(rank[r], rank[q])
            BY <2>4 DEF Behind
        <3>2. rank'[r].theta = rank[q].theta BY <1>4, <3>1, OuterTheta
        <3>3. rank'[q] = rank[q] BY <1>4, OuterRank
        <3>4. Folded(rank'[r]) = Done(rank[r]) BY <1>4, OuterRank
        <3>5. Folded(rank[q]) = Done(rank[q])
            <4>1. rank[q] \in ProcessT BY <1>1 DEF Typed
            <4>2. Done(rank[q]) \in Nat /\ Folded(rank[q]) = Done(rank[q]) - rank[q].counter
                BY <4>1, Distance
            <4> QED BY <3>1, <4>2, SMT
        <3>6. ASSUME Matched PROVE Alike(rank'[q], rank'[r])
            <4>1. Travelled(slot) = ((Replica \X Phase(rank[r])) \ lost) \ rank[r].theta
                BY <1>4, OuterTheta
            <4>2. /\ rank'[r].momentum = rank[r].momentum \cup Travelled(slot)
                  /\ rank'[r].pulls = rank[r].pulls \cup {<<rank[r].total, rank[r].momentum>>}
                  /\ rank'[r].total = rank[r].total /\ Done(rank'[r]) = Done(rank[r])
                BY <1>4, OuterRank
            <4> QED BY <3>1, <3>3, <3>6, <4>1, <4>2 DEF Alike, Uncounted, Pulled
        <3>7. Matched' => Alike(rank[q], rank[r])' BY <1>2, <3>6 DEF Matched, Alike
        <3> QED BY <3>1, <3>2, <3>3, <3>4, <3>5, <3>7 DEF Same
    <2> QED BY <2>1, <2>2, <2>3, <2>4
<1>5. ASSUME NEW q \in Rank, NEW r \in Rank, SlotOf(q) # slot, SlotOf(r) # slot
      PROVE  rank'[q] = rank[q] /\ rank'[r] = rank[r]
    BY <1>5, OuterRank
<1>6. Aligned'
    <2> SUFFICES ASSUME NEW q \in Rank, NEW r \in Rank
                 PROVE  /\ \/ Same(rank[q], rank[r])' \/ Behind(rank[q], rank[r])'
                           \/ Behind(rank[r], rank[q])'
                        /\ SlotOf(q) = SlotOf(r) => Same(rank[q], rank[r])'
        BY DEF Aligned
    <2>1. CASE SlotOf(q) = slot /\ SlotOf(r) = slot BY <1>3, <2>1
    <2>2. CASE SlotOf(q) # slot /\ SlotOf(r) = slot BY <1>4, <2>2
    <2>3. CASE SlotOf(q) = slot /\ SlotOf(r) # slot
        <3>1. Same(rank[r], rank[q])' \/ Behind(rank[r], rank[q])' BY <1>4, <2>3
        <3> QED BY <2>3, <3>1 DEF Same, Alike
    <2>4. CASE SlotOf(q) # slot /\ SlotOf(r) # slot
        BY <1>1, <1>2, <1>5, <2>4 DEF Aligned, Behind, Same, Alike, Pulled, Matched
    <2> QED BY <2>1, <2>2, <2>3, <2>4
<1>7. JustSaved'
    <2> SUFFICES ASSUME NEW r \in Rank, Written(r)'
                 PROVE  disk'.saved.model = rank'[r].theta
                        /\ disk'.saved.epoch \in {0, Passed(rank'[r])}
        BY DEF JustSaved
    <2>1. rank'[r] = rank[r] BY OuterRank DEF Written
    <2> QED BY <1>1, <1>2, <2>1 DEF JustSaved, Written
<1>8. EvenHanded'
    <2>1. ASSUME NEW r \in Rank PROVE Even(rank'[r].theta)
        <3>1. Even(rank[r].theta) /\ Even(lost) BY <1>1 DEF EvenHanded
        <3>2. CASE SlotOf(r) # slot BY <3>1, <3>2, OuterRank
        <3>3. CASE SlotOf(r) = slot
            <4> DEFINE added == (Replica \X Phase(rank[r])) \ lost
            <4>1. rank'[r].theta = rank[r].theta \cup added BY <3>3, OuterTheta
            <4>2. Even(added)
                <5> SUFFICES ASSUME NEW v \in added, NEW i \in Replica, v[2] > 0
                             PROVE  <<i, v[2]>> \in added
                    BY DEF Even
                <5>1. v[1] \in Replica /\ v[2] \in Phase(rank[r]) /\ v = <<v[1], v[2]>>
                    OBVIOUS
                <5>2. <<i, v[2]>> \in lost => <<v[1], v[2]>> \in lost
                    BY <3>1, <5>1, SMT DEF Even
                <5> QED BY <5>1, <5>2
            <4> HIDE DEF added
            <4> QED BY <3>1, <4>1, <4>2 DEF Even
        <3> QED BY <3>2, <3>3
    <2> QED BY <1>1, <1>2, <2>1 DEF EvenHanded, Even
<1>9. Complete'
    <2> SUFFICES ASSUME NEW r \in Rank, Finished(rank'[r])
                 PROVE  Steps \subseteq rank'[r].theta \cup lost'
        BY DEF Complete
    <2>1. CASE SlotOf(r) # slot BY <1>1, <1>2, <2>1, OuterRank DEF Complete
    <2>2. CASE SlotOf(r) = slot
        <3>1. rank[r].at = "flush"
            BY <2>2, OuterRank DEF Finished, AfterTraining, InModel
        <3>2. ASSUME NEW i \in Replica, NEW n \in 1 .. Epochs * StepsPerEpoch
              PROVE  <<i, n>> \in rank'[r].theta \cup lost'
            <4>1. PICK q \in OuterGroup(r) : ReplicaOf(q) = i BY GroupCovers
            <4>2. q \in Rank /\ SlotOf(q) = slot BY <2>2, GroupCovers
            <4>3. rank[q].at = "flush" BY <2>2, <3>1, <4>2, GroupAbreast
            <4>4. InTrainer(rank[q]) /\ rank[q] \in ProcessT
                BY <1>1, <4>2, OuterRank DEF Typed
            <4>5. Folded(rank'[q]) = Epochs * StepsPerEpoch
                BY <4>2, <4>3, <4>4, OuterRank, Distance
            <4>6. ({i} \X (1 .. Folded(rank'[q]))) \subseteq rank'[r].theta \cup lost'
                BY <4>1, OuterThetas DEF Thetas, ThetaOK
            <4> QED BY <4>5, <4>6
        <3> QED BY <3>2 DEF Steps
    <2> QED BY <2>1, <2>2
<1> QED BY <1>6, <1>7, <1>8, <1>9

(* The outer states on disk count.                                         *)
LEMMA FiledTyped ==
    ASSUME Typed, NEW f \in Rank
    PROVE  disk.outer[f] \in OuterT \cup {NoOuterState} /\ disk.outer[f].total \in Nat
<1>1. disk.outer[f] \in OuterT \cup {NoOuterState} BY DEF Typed
<1> QED BY <1>1, SMT DEF OuterT, NoOuterState

(* An outer step adds to the momentum what it adds to theta.               *)
LEMMA OuterMomenta ==
    ASSUME Inv, Intact, NEW slot \in Slot, OuterStep(slot)
    PROVE  Momenta'
<1>1. Typed /\ Running /\ Quiet /\ Momenta
    BY OuterEffect DEF Inv
<1>2. disk' = disk BY <1>1 DEF Quiet
<1>3. ASSUME NEW r \in Rank PROVE MomentumOK(r)'
    <2>1. MomentumOK(r) BY <1>1, <1>3 DEF Momenta
    <2>2. CASE SlotOf(r) # slot
        <3>1. rank'[r] = rank[r] BY <2>2, OuterRank
        <3> QED BY <1>2, <2>1, <3>1 DEF MomentumOK, Filed
    <2>3. CASE SlotOf(r) = slot
        <3> DEFINE p == rank[r]
                   q == rank'[r]
        <3>1. /\ p.at \in {"outer", "flush"}
              /\ p.at = "outer" => q.at \in {"batch", "reduce"}
              /\ p.at = "flush" => q.at = "eval"
              /\ Done(q) = Done(p) /\ q.theta = p.theta \cup Travelled(slot)
              /\ q.momentum = p.momentum \cup Travelled(slot)
              /\ q.total = p.total /\ q.told = p.told /\ Passed(q) = Passed(p)
            BY <2>3, OuterRank
        <3>2. Start \notin Travelled(slot)
            <4>1. Travelled(slot) \subseteq UNION {Drift(s) : s \in OuterGroup(r)}
                BY <2>3, OuterDrift
            <4>2. ASSUME NEW s \in OuterGroup(r) PROVE Start \notin Drift(s)
                <5>1. 0 \notin Phase(rank[s]) BY SMT DEF Phase
                <5> QED BY <5>1 DEF Drift, Start
            <4> QED BY <4>1, <4>2
        <3>3. Belongs(p.momentum, p.theta) => Belongs(q.momentum, q.theta)
            BY <3>1, <3>2 DEF Belongs
        <3>4. q.at \in {"flush", "eval"} => p.at = "flush" BY <3>1
        <3>5. q.at \in InModel => q.at = "eval" BY <3>1 DEF InModel
        <3>6. q.at \in {"flush", "eval"} =>
                \A f \in Rank : disk.outer[f].total < Passed(q) * StepsPerEpoch
            BY <2>1, <3>1, <3>4 DEF MomentumOK
        <3>7. q.at \in InModel => Filed(Passed(q), q.theta)
            <4> SUFFICES ASSUME q.at \in InModel PROVE Filed(Passed(q), q.theta)
                OBVIOUS
            <4>1. ASSUME NEW f \in Rank
                  PROVE  /\ disk.outer[f].total <= Passed(q) * StepsPerEpoch
                         /\ disk.outer[f].total # Passed(q) * StepsPerEpoch
                <5>1. disk.outer[f].total < Passed(q) * StepsPerEpoch BY <3>5, <3>6
                <5>2. disk.outer[f].total \in Nat BY <1>1, FiledTyped
                <5>3. Passed(q) * StepsPerEpoch \in Nat
                    <6>1. p \in ProcessT BY <1>1 DEF Typed
                    <6>2. Passed(q) \in Nat BY <3>1, <6>1, Distance
                    <6> QED BY <6>2, Times
                <5> QED BY <5>1, <5>2, <5>3, SMT
            <4> QED BY <4>1 DEF Filed
        <3> QED BY <1>2, <2>1, <3>1, <3>3, <3>6, <3>7 DEF MomentumOK, Filed
    <2> QED BY <2>2, <2>3
<1> QED BY <1>1, <1>2, <1>3 DEF Momenta, Filed

(* An outer step keeps the invariant.                                      *)
LEMMA OuterPreserves ==
    ASSUME Inv, NEW slot \in Slot, OuterStep(slot)
    PROVE  Inv'
<1>1. Running /\ Quiet BY OuterEffect DEF Inv
<1>2. Typed' /\ AllOrNone' /\ Running' /\ Structure' BY OuterStructure
<1>3. Sensible'
    <2>1. \A r \in Rank : Written(r)' => rank'[r] = rank[r] BY OuterRank DEF Written
    <2>2. \A r \in Rank : Written(r)' => Written(r) BY <2>1 DEF Written
    <2> QED BY <1>1, <2>2 DEF Inv, Sensible, Quiet
<1>4. Few'
    <2>1. Few BY DEF Inv
    <2>2. rank'[0].at = "meta" => rank'[0] = rank[0]
        BY RankZero, OuterRank
    <2>3. Allowed' = Allowed BY <1>1, <1>2 DEF Allowed, Quiet
    <2> QED BY <1>1, <2>1, <2>2, <2>3 DEF Few, Quiet, Missing
<1>5. Whole' => Whole BY <1>1 DEF Whole, Quiet
<1>6. Intact' => Intact BY <1>1 DEF Intact, Quiet
<1> QED BY <1>2, <1>3, <1>4, <1>5, <1>6, OuterThetas, OuterAligned, OuterMomenta DEF Inv

-----------------------------------------------------------------------------
(* The end of an epoch and the saving keep the invariant.                  *)

(* These steps are steps of a job that runs.                               *)
LEMMA ClericalRunning ==
    ASSUME Inv, Clerical PROVE Running
<1>0. AllOrNone BY DEF Inv
<1>1. \E r \in Rank : rank[r].at # "down"
    <2>1. CASE EndOfEpoch BY <2>1, RankZero DEF EndOfEpoch, AllAt
    <2>2. CASE Evaluate BY <2>2, RankZero DEF Evaluate, AllAt
    <2>3. CASE SaveConsolidated BY <2>3, RankZero DEF SaveConsolidated
    <2>4. CASE Barrier BY <2>4, RankZero DEF Barrier, AllAt
    <2>5. CASE SaveShards BY <2>5, RankZero DEF SaveShards, AllAt
    <2>6. CASE ShardsSaved BY <2>6, RankZero DEF ShardsSaved, AllAt
    <2>7. CASE SaveMeta BY <2>7, RankZero DEF SaveMeta
    <2>8. ASSUME NEW w \in Rank, SaveOuterState(w) PROVE rank[w].at # "down"
        BY <2>8 DEF SaveOuterState
    <2>9. CASE Cleanup BY <2>9, RankZero DEF Cleanup, AllAt
    <2> QED BY <2>1, <2>2, <2>3, <2>4, <2>5, <2>6, <2>7, <2>8, <2>9 DEF Clerical
<1> QED BY <1>0, <1>1, SomewhereRunning

(* What each of them does to one rank of a job that keeps the invariant.   *)
LEMMA ClericalRank ==
    ASSUME Inv, Clerical, NEW r \in Rank
    PROVE  /\ Calm(r)
           /\ InTrainer(rank'[r]) \/ AfterTraining(rank'[r])
           /\ rank'[r].at \in InModel => rank'[r].model = rank'[r].theta
           /\ AfterTraining(rank'[r]) =>
                \/ AfterTraining(rank[r]) /\ rank'[r].model = rank[r].model
                \/ rank[r].at \in InModel /\ rank[r].counter = 0
           /\ rank'[r].at # "down"
<1>1. Running /\ Typed /\ Placed /\ Thetas BY ClericalRunning DEF Inv, Structure
<1>2. InTrainer(rank[r]) \/ AfterTraining(rank[r]) BY <1>1 DEF Placed
<1>3. rank[r].at \in InModel => rank[r].model = rank[r].theta BY <1>1 DEF Thetas, ThetaOK
<1>4. Enters(r) \/ MovesOn(r) BY ClericalEffect
<1>5. InTrainer(rank'[r]) \/ AfterTraining(rank'[r])
    BY <1>1, <1>2, <1>3, <1>4, ClericalCalm
<1>6. rank'[r].at # "down"
    BY <1>5 DEF InTrainer, AfterTraining, Ended, InModel
<1> QED BY <1>1, <1>2, <1>3, <1>4, <1>5, <1>6, ClericalCalm

(* All ranks see one more epoch end, or none does.                         *)
LEMMA ClericalPassed ==
    ASSUME Inv, Clerical
    PROVE  \/ \A r \in Rank : Enters(r) /\ Passed(rank'[r]) = Passed(rank[r]) + 1
           \/ \A r \in Rank : MovesOn(r) /\ Passed(rank'[r]) = Passed(rank[r])
<1>1. Running /\ Typed /\ Placed /\ Thetas BY ClericalRunning DEF Inv, Structure
<1>2. ASSUME NEW r \in Rank
      PROVE  /\ InTrainer(rank[r]) \/ AfterTraining(rank[r])
             /\ rank[r].at \in InModel => rank[r].model = rank[r].theta
    BY <1>1 DEF Placed, Thetas, ThetaOK
<1>3. CASE \A r \in Rank : Enters(r)
    BY <1>1, <1>2, <1>3, ClericalCalm
<1>4. CASE \A r \in Rank : MovesOn(r)
    BY <1>1, <1>2, <1>4, ClericalCalm
<1> QED BY <1>3, <1>4, ClericalEffect

(* The thetas account for what they did before.                            *)
LEMMA ClericalThetas ==
    ASSUME Inv, Clerical
    PROVE  Thetas'
<1>1. Typed /\ Running /\ Thetas BY ClericalRunning DEF Inv
<1>2. lost' = lost BY ClericalEffect
<1> SUFFICES ASSUME NEW r \in Rank PROVE ThetaOK(r)'
    BY DEF Thetas
<1>3. ThetaOK(r) BY <1>1 DEF Thetas
<1>4. \A q \in Rank : /\ rank'[q].theta = rank[q].theta /\ Done(rank'[q]) = Done(rank[q])
                      /\ Folded(rank'[q]) = Folded(rank[q]) /\ Kept(rank'[q]) = Kept(rank[q])
    BY ClericalRank DEF Calm
<1>5. Drift(r)' = Drift(r) BY <1>2, <1>4 DEF Drift, Phase
<1>6. /\ Start \in rank'[r].theta
      /\ rank'[r].theta \subseteq {Start} \cup Steps
      /\ rank'[r].theta \cap lost' = {}
      /\ Kept(rank'[r]) = rank'[r].theta \cup Drift(r)'
      /\ rank'[r].at \in InModel => rank'[r].model = rank'[r].theta
      /\ \A v \in lost' : v[2] <= Done(rank'[r])
    BY <1>2, <1>3, <1>4, <1>5, ClericalRank DEF ThetaOK
<1>7. \A q \in OuterGroup(r) :
          /\ rank'[q].theta = rank'[r].theta
          /\ ({ReplicaOf(q)} \X (1 .. Folded(rank'[q]))) \subseteq rank'[r].theta \cup lost'
    BY <1>2, <1>3, <1>4, GroupCovers DEF ThetaOK
<1>8. ASSUME AfterTraining(rank'[r]) PROVE rank'[r].model = rank'[r].theta
    <2>1. CASE AfterTraining(rank[r]) /\ rank'[r].model = rank[r].model
        BY <1>3, <1>4, <2>1 DEF ThetaOK
    <2>2. CASE rank[r].at \in InModel /\ rank[r].counter = 0
        <3>1. rank[r] \in ProcessT BY <1>1 DEF Typed
        <3>2. Folded(rank[r]) = Done(rank[r]) /\ Done(rank[r]) \in Nat
            BY <2>2, <3>1, Distance, SMT
        <3>3. Phase(rank[r]) = {} BY <3>2, SMT DEF Phase
        <3>4. Drift(r) = {} BY <3>3 DEF Drift
        <3>5. rank'[r].at \notin InModel BY <1>8 DEF AfterTraining, InModel
        <3>6. Kept(rank'[r]) = rank'[r].model BY <3>5 DEF Kept
        <3> QED BY <1>5, <1>6, <3>4, <3>6
    <2> QED BY <1>8, <2>1, <2>2, ClericalRank
<1> QED BY <1>2, <1>6, <1>7, <1>8 DEF ThetaOK

(* Who waits for an outer step, or is past one that another waits for,     *)
(* stays where it is.                                                      *)
LEMMA ClericalBehind ==
    ASSUME Inv, Clerical, NEW q \in Rank, NEW r \in Rank, Behind(rank[q], rank[r])
    PROVE  Behind(rank[q], rank[r])'
<1>1. Running /\ Together /\ Typed BY ClericalRunning DEF Inv, Structure
<1>2. rank[q].at \in {"outer", "flush"} /\ rank[r].at \in {"batch", "reduce", "eval"}
    BY DEF Behind
<1>3. ~EndOfEpoch /\ ~Evaluate /\ ~Barrier /\ ~SaveShards /\ ~ShardsSaved /\ ~Cleanup
    BY <1>2 DEF Evaluate, EndOfEpoch, Barrier, SaveShards, ShardsSaved, Cleanup, AllAt
<1>4. rank'[q] = rank[q] /\ rank'[r] = rank[r]
    <2>1. CASE SaveConsolidated
        BY <1>2, <2>1, SaveConsolidatedEffect DEF Moves, Stays
    <2>2. CASE SaveMeta
        BY <1>2, <2>2, SaveMetaEffect DEF Moves, Stays
    <2>3. ASSUME NEW w \in Rank, SaveOuterState(w)
          PROVE  rank'[q] = rank[q] /\ rank'[r] = rank[r]
        BY <1>2, <2>3, SaveOuterStateEffect DEF Leaves, Stays
    <2> QED BY <1>3, <2>1, <2>2, <2>3 DEF Clerical
<1>5. lost' = lost /\ torn' = torn BY ClericalEffect
<1> QED BY <1>4, <1>5 DEF Behind, Pulled, Matched

(* Thetas agree as before, and are complete once the last phase is folded  *)
(* in.                                                                     *)
LEMMA ClericalAligned ==
    ASSUME Inv, Clerical, Whole
    PROVE  Aligned' /\ Complete'
<1>1. Typed /\ Running /\ Aligned /\ Complete /\ Level /\ Placed /\ Thetas
    BY ClericalRunning DEF Inv, Structure
<1>2. lost' = lost /\ torn' = torn BY ClericalEffect
<1>3. \A q \in Rank : /\ rank'[q].theta = rank[q].theta
                      /\ Folded(rank'[q]) = Folded(rank[q])
                      /\ rank'[q].momentum = rank[q].momentum
                      /\ rank'[q].pulls = rank[q].pulls
                      /\ Uncounted(rank'[q]) = Uncounted(rank[q])
    BY ClericalRank DEF Calm, Uncounted
<1>4. \A q, r \in Rank : Same(rank[q], rank[r])' <=> Same(rank[q], rank[r])
    BY <1>2, <1>3 DEF Same, Alike, Matched
<1>5. Aligned' BY <1>1, <1>4, ClericalBehind DEF Aligned
<1>6. Complete'
    <2> SUFFICES ASSUME NEW r \in Rank, Finished(rank'[r])
                 PROVE  Steps \subseteq rank[r].theta \cup lost
        BY <1>2, <1>3 DEF Complete
    <2>1. CASE Finished(rank[r]) BY <1>1, <2>1 DEF Complete
    <2>2. CASE ~Finished(rank[r])
        <3>1. Enters(r)
            <4>1. CASE AfterTraining(rank'[r])
                <5>1. rank[r].at \in InModel
                    BY <2>2, <4>1, ClericalRank DEF Finished
                <5>2. MovesOn(r) /\ Passed(rank'[r]) = Passed(rank[r])
                    <6>1. ~Enters(r) BY <5>1 DEF Enters, InModel
                    <6> QED BY <6>1, ClericalPassed
                <5>3. Passed(rank'[r]) = Epochs
                    <6>1. rank'[r] \in ProcessT BY ClericalRank DEF Calm
                    <6> QED BY <4>1, <6>1, Distance
                <5>4. IsLast(rank[r]) BY <5>1, <5>2, <5>3 DEF IsLast, Passed, Ended
                <5> QED BY <2>2, <5>1, <5>4 DEF Finished
            <4>2. CASE rank'[r].at \in InModel /\ IsLast(rank'[r])
                <5> SUFFICES ASSUME MovesOn(r) PROVE FALSE BY ClericalEffect
                <5>1. rank[r].at \in InModel
                    <6>1. InTrainer(rank[r]) \/ AfterTraining(rank[r]) BY <1>1 DEF Placed
                    <6>2. CASE \E from \in InModel : Leaves(r, from) BY <6>2 DEF Leaves
                    <6>3. CASE \E from \in InModel, to \in InModel \ {"eval"} : Moves(r, from, to) BY <6>3 DEF Moves
                    <6>4. CASE Moves(r, "cleanup", "exited")
                        <7>1. AfterTraining(rank[r])
                            BY <6>1, <6>4 DEF Moves, InTrainer, Ended, InModel
                        <7> QED BY <2>2, <7>1 DEF Finished
                    <6>5. CASE Stays(r) BY <4>2, <6>5 DEF Stays
                    <6> QED BY <6>2, <6>3, <6>4, <6>5 DEF MovesOn
                <5>2. Passed(rank'[r]) = Passed(rank[r])
                    <6>1. ~Enters(r) BY <5>1 DEF Enters, InModel
                    <6> QED BY <6>1, ClericalPassed
                <5>3. rank'[r].epoch + 1 = rank[r].epoch + 1
                    BY <4>2, <5>1, <5>2 DEF Passed, Ended
                <5>4. IsLast(rank[r]) BY <4>2, <5>3 DEF IsLast
                <5> QED BY <2>2, <5>1, <5>4 DEF Finished
            <4> QED BY <4>1, <4>2 DEF Finished
        <3>2. /\ \A q \in Rank : Enters(q) /\ Passed(rank'[q]) = Passed(rank[q]) + 1
            <4>1. ~MovesOn(r)
                <5>1. rank'[r].at # "reduce"
                    <6>1. rank[r] \in ProcessT /\ rank'[r] = Finish(rank[r])
                        BY <1>1, <3>1 DEF Typed, Enters
                    <6> QED BY <6>1, FinishFields
                <5> QED BY <3>1, <5>1 DEF Enters, MovesOn, Leaves, Moves, Stays, InModel
            <4> QED BY <4>1, ClericalPassed
        <3>3. rank'[r].at = "eval" /\ IsLast(rank[r]) /\ rank[r].counter = 0
            <4>1. rank[r] \in ProcessT /\ rank'[r] = Finish(rank[r])
                BY <1>1, <3>1 DEF Typed, Enters
            <4>2. rank'[r].at \in {"flush", "eval"} /\ rank'[r].epoch = rank[r].epoch
                    /\ (rank'[r].at = "eval" => ~(IsLast(rank[r]) /\ rank[r].counter # 0))
                BY <4>1, FinishFields
            <4>3. rank'[r].at = "eval" /\ IsLast(rank'[r])
                BY <4>2 DEF Finished, AfterTraining, InModel
            <4> QED BY <4>2, <4>3 DEF IsLast
        <3>4. ASSUME NEW q \in Rank PROVE Done(rank[q]) = Done(rank[r])
            <4>1. rank[q].at = "reduce" /\ rank[r].at = "reduce" BY <3>2 DEF Enters
            <4>2. InTrainer(rank[q]) /\ InTrainer(rank[r])
                BY <1>1, <4>1 DEF Placed, AfterTraining
            <4>3. Passed(rank[q]) = Passed(rank[r]) BY <1>1 DEF Level
            <4> QED BY <1>1, <4>1, <4>2, <4>3, Distance DEF Typed
        <3>5. Folded(rank[r]) = Epochs * StepsPerEpoch
            <4>1. rank[r] \in ProcessT /\ rank[r].at = "reduce"
                BY <1>1, <3>1 DEF Typed, Enters
            <4>2. InTrainer(rank[r]) BY <1>1, <4>1 DEF Placed, AfterTraining
            <4>3. Done(rank[r]) = (Passed(rank[r]) + 1) * StepsPerEpoch
                BY <4>1, <4>2, Distance
            <4>4. Passed(rank[r]) = rank[r].epoch BY <4>1 DEF Passed, Ended, InModel
            <4>5. Done(rank[r]) = Epochs * StepsPerEpoch BY <3>3, <4>3, <4>4 DEF IsLast
            <4> QED BY <3>3, <4>1, <4>5, Distance, SMT
        <3>6. ASSUME NEW i \in Replica, NEW n \in 1 .. Epochs * StepsPerEpoch
              PROVE  <<i, n>> \in rank[r].theta \cup lost
            <4>1. PICK q \in OuterGroup(r) : ReplicaOf(q) = i BY GroupCovers
            <4>2. Folded(rank[q]) = Folded(rank[r])
                BY <1>1, <4>1, GroupCovers DEF Aligned, Same
            <4>3. ({i} \X (1 .. Folded(rank[q]))) \subseteq rank[r].theta \cup lost
                BY <1>1, <4>1 DEF Thetas, ThetaOK
            <4> QED BY <3>5, <4>2, <4>3
        <3> QED BY <3>6 DEF Steps
    <2> QED BY <2>1, <2>2
<1> QED BY <1>5, <1>6

(* Where everybody is after each of the steps.                             *)
LEMMA ClericalTogether ==
    ASSUME Inv, Clerical
    PROVE  Together'
<1>1. Running /\ Typed /\ Placed /\ Level /\ Together BY ClericalRunning DEF Inv, Structure
<1>2. sharded' = sharded BY ClericalEffect DEF flags
<1>3. 0 \in Rank BY RankZero
<1>4. ASSUME NEW r \in Rank, NEW from \in InModel, Leaves(r, from)
      PROVE  rank[r].at = from /\ rank'[r].at \in {"batch", "cleanup"}
    <2>1. rank[r] \in ProcessT BY <1>1 DEF Typed
    <2>2. rank[r].at = from /\ rank'[r] = LeaveGlobalModel(rank[r]) BY <1>4 DEF Leaves
    <2>3. rank[r].epoch < Epochs
        <3>1. InTrainer(rank[r])
            BY <1>1, <2>2 DEF Placed, AfterTraining, InModel
        <3> QED BY <3>1 DEF InTrainer
    <2> QED BY <2>1, <2>2, <2>3, LeaveFields
<1>5. ASSUME NEW r \in Rank, NEW from, NEW to \in Place, Moves(r, from, to)
      PROVE  rank[r].at = from /\ rank'[r].at = to
    <2>1. rank[r] \in ProcessT BY <1>1 DEF Typed
    <2> QED BY <1>5, <2>1, MoveFields DEF Moves
<1>6. InModel = {"eval", "save", "shards", "meta", "barrier", "state"}
        /\ InModel \cup {"exited"} \subseteq Place
    BY DEF InModel, Place
<1> SUFFICES ASSUME NEW q \in Rank, NEW r \in Rank PROVE Company(q, r)'
    BY DEF Together
<1>7. Company(q, r) /\ Company(r, q) /\ Company(0, r) /\ Company(0, q)
    BY <1>1, <1>3 DEF Together
<1>8. CASE EndOfEpoch
    <2>1. ASSUME NEW s \in Rank PROVE rank'[s].at \in {"flush", "eval"}
        <3>1. rank[s] \in ProcessT /\ rank'[s] = Finish(rank[s])
            BY <1>1, <1>8, EndOfEpochEffect DEF Typed, Enters
        <3> QED BY <3>1, FinishFields
    <2> QED BY <2>1 DEF Company
<1>9. CASE Evaluate
    <2>1. \A s \in Rank : rank[s].at = "eval" BY <1>9 DEF Evaluate, AllAt
    <2>2. Saves(rank[q]) <=> Saves(rank[r])
        <3>1. Passed(rank[q]) = Passed(rank[r]) BY <1>1 DEF Level
        <3>2. rank[q].epoch + 1 = rank[r].epoch + 1 BY <2>1, <3>1 DEF Passed, Ended, InModel
        <3> QED BY <3>2 DEF Saves, IsLast
    <2>3. \A s \in Rank :
             IF ~Saves(rank[s]) THEN Leaves(s, "eval")
             ELSE Moves(s, "eval", IF sharded \/ s = 0 THEN "save" ELSE "barrier")
        BY <1>9, EvaluateEffect
    <2>4. CASE ~Saves(rank[r])
        <3>1. Leaves(q, "eval") /\ Leaves(r, "eval") BY <2>2, <2>3, <2>4
        <3>2. rank'[r].at \in {"batch", "cleanup"} BY <1>4, <1>6, <3>1
        <3> QED BY <3>2 DEF Company
    <2>5. CASE Saves(rank[r])
        <3>1. ASSUME NEW s \in {q, r}
              PROVE  rank'[s].at = IF sharded \/ s = 0 THEN "save" ELSE "barrier"
            <4>1. Moves(s, "eval", IF sharded \/ s = 0 THEN "save" ELSE "barrier")
                BY <2>2, <2>3, <2>5
            <4>2. (IF sharded \/ s = 0 THEN "save" ELSE "barrier") \in Place BY <1>6
            <4> QED BY <1>5, <4>1, <4>2
        <3>2. /\ rank'[q].at = IF sharded \/ q = 0 THEN "save" ELSE "barrier"
              /\ rank'[r].at = IF sharded \/ r = 0 THEN "save" ELSE "barrier"
            BY <3>1
        <3> QED BY <1>2, <3>2 DEF Company
    <2> QED BY <2>4, <2>5
<1>10. CASE SaveConsolidated
    <2>1. ~sharded /\ rank[0].at = "save" /\ rank'[0].at = "barrier"
        BY <1>3, <1>5, <1>6, <1>10, SaveConsolidatedEffect
    <2>2. \A s \in Rank \ {0} : rank'[s] = rank[s]
        BY <1>10, SaveConsolidatedEffect DEF Stays
    <2>3. \A s \in Rank \ {0} : rank[s].at = "barrier"
        BY <1>1, <1>3, <2>1 DEF Together, Company
    <2>4. rank'[q].at = "barrier" /\ rank'[r].at = "barrier" BY <2>1, <2>2, <2>3
    <2> QED BY <1>2, <2>1, <2>4 DEF Company
<1>11. CASE Barrier
    <2>1. rank[0].at = "barrier" /\ rank'[0].at = "state"
        BY <1>3, <1>5, <1>6, <1>11, BarrierEffect
    <2>2. \A s \in Rank \ {0} : rank'[s].at \in {"batch", "cleanup"}
        BY <1>4, <1>6, <1>11, BarrierEffect
    <2> QED BY <2>1, <2>2 DEF Company
<1>12. CASE SaveShards
    <2>1. sharded /\ rank'[q].at = "shards" /\ rank'[r].at = "shards"
        BY <1>5, <1>6, <1>12, SaveShardsEffect
    <2> QED BY <1>2, <2>1 DEF Company
<1>13. CASE ShardsSaved
    <2>1. ASSUME NEW s \in Rank
          PROVE  rank[s].at = "shards" /\ rank'[s].at = IF s = 0 THEN "meta" ELSE "state"
        <3>1. Moves(s, "shards", IF s = 0 THEN "meta" ELSE "state")
            BY <1>13, ShardsSavedEffect
        <3>2. (IF s = 0 THEN "meta" ELSE "state") \in Place BY <1>6
        <3> QED BY <1>5, <3>1, <3>2
    <2>2. sharded BY <1>7, <2>1 DEF Company
    <2> QED BY <1>2, <2>1, <2>2 DEF Company
<1>14. CASE SaveMeta
    <2>1. rank[0].at = "meta" /\ rank'[0].at = "state"
        BY <1>3, <1>5, <1>6, <1>14, SaveMetaEffect
    <2>2. \A s \in Rank \ {0} : rank'[s] = rank[s]
        BY <1>14, SaveMetaEffect DEF Stays
    <2>3. sharded BY <1>1, <1>3, <2>1 DEF Together, Company
    <2>4. Company(0, r) BY <1>7
    <2>5. CASE r = 0 BY <1>2, <2>1, <2>3, <2>5 DEF Company
    <2>6. CASE r # 0
        <3>1. rank'[r] = rank[r] BY <2>2, <2>6
        <3>2. rank[r].at \notin {"flush", "eval", "shards", "save", "barrier", "exited", "meta"}
            BY <2>1, <2>3, <2>4, <2>6 DEF Company
        <3> QED BY <1>2, <2>3, <3>1, <3>2 DEF Company
    <2> QED BY <2>5, <2>6
<1>15. ASSUME NEW w \in Rank, SaveOuterState(w) PROVE Company(q, r)'
    <2>1. rank[w].at = "state" /\ rank'[w].at \in {"batch", "cleanup"}
        BY <1>4, <1>6, <1>15, SaveOuterStateEffect
    <2>2. \A s \in Rank \ {w} : rank'[s] = rank[s]
        BY <1>15, SaveOuterStateEffect DEF Stays
    <2>3. CASE r = w BY <2>1, <2>3 DEF Company
    <2>4. CASE r # w
        <3>1. rank'[r] = rank[r] BY <2>2, <2>4
        <3>2. Company(w, r) BY <1>1 DEF Together
        <3>3. sharded \/ w = 0 BY <1>1, <2>1 DEF Together, Company
        <3>4. rank[r].at \notin {"flush", "eval", "shards", "barrier", "exited"}
            BY <2>1, <3>2 DEF Company
        <3>5. rank[r].at # "save" BY <2>1, <2>4, <3>2, <3>3 DEF Company
        <3> QED BY <1>2, <1>7, <3>1, <3>4, <3>5 DEF Company
    <2> QED BY <2>3, <2>4
<1>16. CASE Cleanup
    <2>1. rank'[q].at = "exited" /\ rank'[r].at = "exited"
        BY <1>5, <1>6, <1>16, CleanupEffect
    <2> QED BY <2>1 DEF Company
<1> QED BY <1>8, <1>9, <1>10, <1>11, <1>12, <1>13, <1>14, <1>15, <1>16 DEF Clerical

(* What each step writes, and who is where when it does.                   *)
Writes(model, epoch) ==
    /\ disk'.saved.model = model /\ disk'.saved.epoch = epoch /\ disk'.outer = disk.outer

WritesNothing ==
    /\ Writes(disk.saved.model, disk.saved.epoch) /\ disk'.saved.pulls = disk.saved.pulls
    /\ \A r \in Rank : Written(r)' => Written(r) /\ MovesOn(r)

WritesModel ==
    /\ Writes(rank[0].theta, Passed(rank[0]))
    /\ \A r \in Rank : rank[r].at \in InModel /\ MovesOn(r)
    /\ \A r \in Rank : Written(r)' => r = 0
    /\ rank'[0].at = "barrier"

WritesShards ==
    /\ \E r \in Rank : Writes(rank[r].theta, 0)
    /\ \A r \in Rank : rank[r].at = "shards" /\ MovesOn(r)

WritesMeta ==
    /\ Writes(disk.saved.model, Passed(rank[0]))
    /\ rank[0].at = "meta" /\ rank'[0].at = "state"
    /\ \A r \in Rank : Written(r)' => Written(r)

WritesState(w) ==
    /\ disk'.saved = disk.saved
    /\ disk'.outer = [disk.outer EXCEPT ![StateFile(w)] =
                        [momentum |-> rank[w].momentum, outer |-> rank[w].outer,
                         total |-> rank[w].total, counter |-> rank[w].counter]]
    /\ StateFile(w) \in Rank /\ rank[w].at = "state"
    /\ \A r \in Rank : Written(r)' => Written(r)

(* Each of these steps writes nothing, or one of four things.              *)
LEMMA ClericalWrites ==
    ASSUME Inv, Clerical
    PROVE  /\ disk' \in [saved : SavedT, outer : [Rank -> OuterT \cup {NoOuterState}]]
           /\ rank'[0].at = "meta" => WritesShards \/ rank'[0] = rank[0]
           /\ \/ WritesNothing \/ WritesModel \/ WritesShards \/ WritesMeta
              \/ \E w \in Rank : WritesState(w)
<1>1. Running /\ Typed /\ Placed /\ Level /\ Together /\ Thetas
    BY ClericalRunning DEF Inv, Structure
<1>2. 0 \in Rank BY RankZero
<1> DEFINE DiskT == [saved : SavedT, outer : [Rank -> OuterT \cup {NoOuterState}]]
<1>3. disk \in DiskT /\ disk.saved \in SavedT /\ disk.outer \in [Rank -> OuterT \cup {NoOuterState}]
    BY <1>1 DEF Typed
<1>4. InModel = {"eval", "save", "shards", "meta", "barrier", "state"}
        /\ InModel \cup {"exited"} \subseteq Place
    BY DEF InModel, Place
<1>5. ASSUME NEW r \in Rank, NEW from \in InModel, Leaves(r, from)
      PROVE  rank[r].at = from /\ rank'[r].at \in {"batch", "cleanup"}
    <2>1. rank[r] \in ProcessT BY <1>1 DEF Typed
    <2>2. rank[r].at = from /\ rank'[r] = LeaveGlobalModel(rank[r]) BY <1>5 DEF Leaves
    <2>3. rank[r].epoch < Epochs
        <3>1. InTrainer(rank[r])
            BY <1>1, <2>2 DEF Placed, AfterTraining, InModel
        <3> QED BY <3>1 DEF InTrainer
    <2> QED BY <2>1, <2>2, <2>3, LeaveFields
<1>6. ASSUME NEW r \in Rank, NEW from, NEW to \in Place, Moves(r, from, to)
      PROVE  rank[r].at = from /\ rank'[r].at = to
    <2>1. rank[r] \in ProcessT BY <1>1 DEF Typed
    <2> QED BY <1>6, <2>1, MoveFields DEF Moves
<1>7. ASSUME NEW r \in Rank, rank[r].at \in InModel
      PROVE  /\ rank[r].model = rank[r].theta /\ rank[r].model \in SUBSET Trained
             /\ rank[r].pulls \in Pulls
             /\ rank[r].epoch + 1 = Passed(rank[r]) /\ rank[r].epoch + 1 \in -1 .. Epochs
    <2>1. rank[r] \in ProcessT BY <1>1 DEF Typed
    <2>2. InTrainer(rank[r]) BY <1>1, <1>7 DEF Placed, AfterTraining, InModel
    <2>3. rank[r].epoch \in Nat /\ rank[r].epoch < Epochs
        BY <2>1, <2>2, Distance DEF InTrainer
    <2>4. rank[r].epoch + 1 \in -1 .. Epochs BY <2>3, Bounds, SMT
    <2> QED BY <1>1, <1>7, <2>1, <2>4, Fields DEF Thetas, ThetaOK, Passed, Ended
<1>8. ASSUME NEW r \in Rank, Enters(r) PROVE rank'[r].at \in {"flush", "eval"}
    <2>1. rank[r] \in ProcessT /\ rank'[r] = Finish(rank[r]) BY <1>1, <1>8 DEF Typed, Enters
    <2> QED BY <2>1, FinishFields
<1>9. disk' = disk => disk' \in DiskT /\ Writes(disk.saved.model, disk.saved.epoch)
    BY <1>3 DEF Writes
<1> DEFINE Goal == /\ disk' \in DiskT
                   /\ rank'[0].at = "meta" => WritesShards \/ rank'[0] = rank[0]
                   /\ \/ WritesNothing \/ WritesModel \/ WritesShards \/ WritesMeta
                      \/ \E w \in Rank : WritesState(w)
<1>10. CASE EndOfEpoch
    <2>1. disk' = disk /\ \A r \in Rank : rank'[r].at \in {"flush", "eval"}
        BY <1>8, <1>10, EndOfEpochEffect DEF Quiet
    <2>2. WritesNothing BY <1>9, <2>1 DEF WritesNothing, Written
    <2> QED BY <1>2, <1>9, <2>1, <2>2
<1>11. CASE Evaluate
    <2>1. disk' = disk BY <1>11, EvaluateEffect DEF Quiet
    <2>2. ASSUME NEW r \in Rank
          PROVE  rank'[r].at \in {"batch", "cleanup", "save", "barrier"}
                 /\ (r = 0 => rank'[r].at # "barrier")
        <3>1. IF ~Saves(rank[r]) THEN Leaves(r, "eval")
              ELSE Moves(r, "eval", IF sharded \/ r = 0 THEN "save" ELSE "barrier")
            BY <1>11, EvaluateEffect
        <3>2. CASE ~Saves(rank[r])
            <4>1. Leaves(r, "eval") BY <3>1, <3>2
            <4>2. rank'[r].at \in {"batch", "cleanup"} BY <1>4, <1>5, <4>1
            <4> QED BY <4>2
        <3>3. CASE Saves(rank[r])
            <4>1. Moves(r, "eval", IF sharded \/ r = 0 THEN "save" ELSE "barrier")
                BY <3>1, <3>3
            <4>2. (IF sharded \/ r = 0 THEN "save" ELSE "barrier") \in Place BY <1>4
            <4>3. rank'[r].at = IF sharded \/ r = 0 THEN "save" ELSE "barrier"
                BY <1>6, <4>1, <4>2
            <4> QED BY <4>3
        <3> QED BY <3>2, <3>3
    <2>3. WritesNothing BY <1>9, <2>1, <2>2 DEF WritesNothing, Written
    <2> QED BY <1>2, <1>9, <2>1, <2>2, <2>3
<1>12. CASE SaveConsolidated
    <2>1. /\ ~sharded /\ Moves(0, "save", "barrier") /\ \A r \in Rank \ {0} : Stays(r)
          /\ disk' = [disk EXCEPT !.saved = [model |-> rank[0].model, pulls |-> rank[0].pulls,
                                              epoch |-> rank[0].epoch + 1, whole |-> TRUE]]
        BY <1>12, SaveConsolidatedEffect
    <2>2. rank[0].at = "save" /\ rank'[0].at = "barrier" BY <1>2, <1>4, <1>6, <2>1
    <2>3. ASSUME NEW r \in Rank \ {0} PROVE rank[r].at = "barrier" /\ rank'[r].at = "barrier"
        BY <1>1, <1>2, <2>1, <2>2 DEF Together, Company, Stays
    <2> DEFINE saved == [model |-> rank[0].model, pulls |-> rank[0].pulls,
                         epoch |-> rank[0].epoch + 1, whole |-> TRUE]
    <2>4. saved \in SavedT BY <1>2, <1>4, <1>7, <2>2 DEF SavedT
    <2>5. saved.model = rank[0].theta /\ saved.epoch = Passed(rank[0])
        BY <1>2, <1>4, <1>7, <2>2
    <2> HIDE DEF saved
    <2>6. disk' = [disk EXCEPT !.saved = saved] BY <2>1 DEF saved
    <2>7. disk'.saved = saved /\ disk'.outer = disk.outer /\ disk' \in DiskT
        BY <1>3, <2>4, <2>6
    <2>8. \A r \in Rank : rank[r].at \in InModel /\ MovesOn(r)
        <3>1. MovesOn(0) BY <1>4, <2>1 DEF MovesOn
        <3> QED BY <1>4, <2>1, <2>2, <2>3, <3>1 DEF MovesOn
    <2>9. WritesModel
        BY <2>2, <2>3, <2>5, <2>7, <2>8 DEF WritesModel, Writes, Written
    <2> QED BY <2>2, <2>7, <2>9
<1>13. CASE Barrier
    <2>1. disk' = disk /\ Moves(0, "barrier", "state") /\ \A r \in Rank \ {0} : Leaves(r, "barrier")
        BY <1>13, BarrierEffect DEF Quiet
    <2>2. rank[0].at = "barrier" /\ rank'[0].at = "state" BY <1>2, <1>4, <1>6, <2>1
    <2>3. \A r \in Rank \ {0} : rank'[r].at \in {"batch", "cleanup"} BY <1>4, <1>5, <2>1
    <2>4. MovesOn(0) BY <1>4, <2>1 DEF MovesOn
    <2>5. WritesNothing BY <1>9, <2>1, <2>2, <2>3, <2>4 DEF WritesNothing, Written
    <2> QED BY <1>9, <2>1, <2>2, <2>5
<1>14. CASE SaveShards
    <2>1. disk' = [disk EXCEPT !.saved.whole = FALSE] /\ \A r \in Rank : Moves(r, "save", "shards")
        BY <1>14, SaveShardsEffect
    <2>2. \A r \in Rank : rank'[r].at = "shards" BY <1>4, <1>6, <2>1
    <2>3. /\ disk'.saved = [disk.saved EXCEPT !.whole = FALSE] /\ disk'.outer = disk.outer
          /\ disk' = [saved |-> disk'.saved, outer |-> disk.outer]
        BY <1>3, <2>1
    <2>4. /\ disk'.saved.model = disk.saved.model /\ disk'.saved.epoch = disk.saved.epoch
          /\ disk'.saved.pulls = disk.saved.pulls /\ disk'.saved \in SavedT
        BY <1>3, <2>3 DEF SavedT
    <2>5. disk' \in DiskT BY <1>3, <2>3, <2>4
    <2>6. WritesNothing BY <2>2, <2>3, <2>4 DEF WritesNothing, Writes, Written
    <2> QED BY <1>2, <2>2, <2>5, <2>6
<1>15. CASE ShardsSaved
    <2>1. PICK x \in Rank :
            disk' = [disk EXCEPT !.saved = [model |-> rank[x].model, pulls |-> rank[x].pulls,
                                            epoch |-> 0, whole |-> TRUE]]
        BY <1>15, ShardsSavedEffect
    <2>2. ASSUME NEW r \in Rank PROVE rank[r].at = "shards" /\ MovesOn(r)
        <3>1. Moves(r, "shards", IF r = 0 THEN "meta" ELSE "state")
            BY <1>15, ShardsSavedEffect
        <3>2. (IF r = 0 THEN "meta" ELSE "state") \in InModel \ {"eval"} BY <1>4
        <3>3. "shards" \in InModel BY <1>4
        <3> QED BY <3>1, <3>2, <3>3 DEF Moves, MovesOn
    <2> DEFINE saved == [model |-> rank[x].model, pulls |-> rank[x].pulls, epoch |-> 0,
                         whole |-> TRUE]
    <2>3. /\ rank[x].model = rank[x].theta /\ rank[x].model \in SUBSET Trained
          /\ rank[x].pulls \in Pulls
        BY <1>4, <1>7, <2>2
    <2>4. saved \in SavedT
        <3>1. 0 \in -1 .. Epochs BY Bounds, SMT
        <3> QED BY <2>3, <3>1 DEF SavedT
    <2>5. saved.model = rank[x].theta /\ saved.epoch = 0 BY <2>3
    <2> HIDE DEF saved
    <2>6. disk' = [disk EXCEPT !.saved = saved] BY <2>1 DEF saved
    <2>7. disk'.saved = saved /\ disk'.outer = disk.outer /\ disk' \in DiskT
        BY <1>3, <2>4, <2>6
    <2>8. WritesShards BY <2>2, <2>5, <2>7 DEF WritesShards, Writes
    <2> QED BY <2>7, <2>8
<1>16. CASE SaveMeta
    <2>1. /\ Moves(0, "meta", "state") /\ \A r \in Rank \ {0} : Stays(r)
          /\ disk' = [disk EXCEPT !.saved.epoch = rank[0].epoch + 1]
        BY <1>16, SaveMetaEffect
    <2>2. rank[0].at = "meta" /\ rank'[0].at = "state" BY <1>2, <1>4, <1>6, <2>1
    <2> DEFINE epoch == rank[0].epoch + 1
    <2>3. epoch \in -1 .. Epochs /\ epoch = Passed(rank[0]) BY <1>2, <1>4, <1>7, <2>2
    <2> HIDE DEF epoch
    <2>4. /\ disk'.saved = [disk.saved EXCEPT !.epoch = epoch] /\ disk'.outer = disk.outer
          /\ disk' = [saved |-> disk'.saved, outer |-> disk.outer]
        BY <1>3, <2>1 DEF epoch
    <2>5. /\ disk'.saved.model = disk.saved.model /\ disk'.saved.epoch = epoch
          /\ disk'.saved \in SavedT
        BY <1>3, <2>3, <2>4 DEF SavedT
    <2>6. disk' \in DiskT BY <1>3, <2>4, <2>5
    <2>7. \A r \in Rank : Written(r)' => Written(r)
        BY <2>1, <2>2 DEF Written, Stays
    <2>8. WritesMeta BY <2>2, <2>3, <2>4, <2>5, <2>7 DEF WritesMeta, Writes
    <2> QED BY <2>2, <2>6, <2>8
<1>17. ASSUME NEW w \in Rank, SaveOuterState(w) PROVE Goal
    <2> DEFINE state == [momentum |-> rank[w].momentum, outer |-> rank[w].outer,
                         total |-> rank[w].total, counter |-> rank[w].counter]
    <2>1. /\ Leaves(w, "state") /\ \A r \in Rank \ {w} : Stays(r)
          /\ disk' = [disk EXCEPT !.outer[StateFile(w)] = state]
        BY <1>17, SaveOuterStateEffect
    <2>2. rank[w].at = "state" /\ rank'[w].at \in {"batch", "cleanup"} BY <1>4, <1>5, <2>1
    <2>3. StateFile(w) \in Rank BY RankZero DEF StateFile
    <2>4. state \in OuterT
        <3>1. rank[w] \in ProcessT BY <1>1 DEF Typed
        <3>2. InTrainer(rank[w]) BY <1>1, <2>2 DEF Placed, AfterTraining
        <3>3. rank[w].counter \in 0 .. InnerSteps - 1
            BY <2>2, <3>1, <3>2, Distance, Bounds, SMT
        <3> QED BY <3>1, <3>3, Fields DEF OuterT
    <2> HIDE DEF state
    <2>5. disk'.saved = disk.saved /\ disk'.outer = [disk.outer EXCEPT ![StateFile(w)] = state]
            /\ disk' = [saved |-> disk.saved, outer |-> disk'.outer]
        BY <1>3, <2>1
    <2>6. disk'.outer \in [Rank -> OuterT \cup {NoOuterState}] BY <1>3, <2>3, <2>4, <2>5
    <2>7. disk' \in DiskT BY <1>3, <2>5, <2>6
    <2>8. \A r \in Rank : Written(r)' => Written(r) BY <2>1, <2>2 DEF Written, Stays
    <2>9. WritesState(w) BY <2>2, <2>3, <2>5, <2>8 DEF WritesState, state
    <2>10. rank'[0].at = "meta" => rank'[0] = rank[0]
        <3>1. w # 0 => rank'[0] = rank[0] BY <1>2, <2>1 DEF Stays
        <3> QED BY <2>2, <3>1
    <2> QED BY <2>7, <2>9, <2>10
<1>18. CASE Cleanup
    <2>1. disk' = disk /\ \A r \in Rank : Moves(r, "cleanup", "exited")
        BY <1>18, CleanupEffect DEF Quiet
    <2>2. \A r \in Rank : rank'[r].at = "exited" BY <1>4, <1>6, <2>1
    <2>3. WritesNothing BY <1>9, <2>1, <2>2 DEF WritesNothing, Written
    <2> QED BY <1>2, <1>9, <2>1, <2>2, <2>3
<1> QED BY <1>10, <1>11, <1>12, <1>13, <1>14, <1>15, <1>16, <1>17, <1>18 DEF Clerical

(* Unless all ranks enter the shared model, every one moves on in it and   *)
(* has seen as many epochs end as before.                                  *)
LEMMA ClericalMovesOn ==
    ASSUME Inv, Clerical, NEW x \in Rank, rank[x].at # "reduce"
    PROVE  \A r \in Rank : MovesOn(r) /\ Passed(rank'[r]) = Passed(rank[r])
BY ClericalPassed DEF Enters

(* What is written is a model that can be resumed.                         *)
LEMMA ClericalSensible ==
    ASSUME Inv, Clerical PROVE Sensible'
<1>1. Running /\ Typed /\ Placed /\ Thetas /\ Sensible
    BY ClericalRunning DEF Inv, Structure
<1>2. ASSUME NEW r \in Rank
      PROVE  /\ Start \in rank[r].theta /\ rank[r].theta \subseteq {Start} \cup Steps
             /\ Passed(rank[r]) # -1
    <2>1. rank[r] \in ProcessT BY <1>1 DEF Typed
    <2>2. Passed(rank[r]) \in Nat BY <2>1, Distance
    <2> QED BY <1>1, <2>2, SMT DEF Thetas, ThetaOK
<1>3. 0 \in Rank BY RankZero
<1>4. CASE WritesNothing
    BY <1>1, <1>4 DEF WritesNothing, Writes, Sensible
<1>5. CASE WritesModel
    BY <1>2, <1>3, <1>5 DEF WritesModel, Writes, Sensible
<1>6. CASE WritesShards
    <2>1. PICK x \in Rank : Writes(rank[x].theta, 0) BY <1>6 DEF WritesShards
    <2>2. 0 # -1 BY SMT
    <2> QED BY <1>2, <2>1, <2>2 DEF Writes, Sensible
<1>7. CASE WritesMeta
    <2>1. disk.saved.epoch # -1 BY <1>1, <1>3, <1>7 DEF WritesMeta, Written, Sensible
    <2> QED BY <1>1, <1>2, <1>3, <1>7, <2>1 DEF WritesMeta, Writes, Sensible
<1>8. ASSUME NEW w \in Rank, WritesState(w) PROVE Sensible'
    <2>1. disk.saved.epoch # -1 BY <1>1, <1>8 DEF WritesState, Written, Sensible
    <2> QED BY <1>1, <1>8, <2>1 DEF WritesState, Sensible
<1> QED BY <1>4, <1>5, <1>6, <1>7, <1>8, ClericalWrites

(* What is written is even-handed, for it is a theta.                      *)
LEMMA ClericalEven ==
    ASSUME Inv, Clerical, Whole PROVE EvenHanded'
<1>1. Running /\ EvenHanded BY ClericalRunning DEF Inv
<1>2. lost' = lost BY ClericalEffect
<1>3. \A r \in Rank : rank'[r].theta = rank[r].theta BY ClericalRank DEF Calm
<1>4. Even(disk'.saved.model)
    <2>1. CASE disk'.saved.model = disk.saved.model BY <1>1, <2>1 DEF EvenHanded
    <2>2. CASE \E r \in Rank : disk'.saved.model = rank[r].theta
        BY <1>1, <2>2 DEF EvenHanded
    <2> QED
        BY <2>1, <2>2, ClericalWrites, RankZero
        DEF WritesNothing, WritesModel, WritesShards, WritesMeta, WritesState, Writes
<1>5. Even(lost') BY <1>1, <1>2 DEF EvenHanded
<1>6. \A r \in Rank : Even(rank'[r].theta) BY <1>1, <1>3 DEF EvenHanded
<1> QED BY <1>4, <1>5, <1>6 DEF EvenHanded, Even

(* What is written is what all ranks that go on to write hold.             *)
LEMMA ClericalJustSaved ==
    ASSUME Inv, Clerical, Whole PROVE JustSaved'
<1>1. Running /\ Typed /\ Level /\ Aligned /\ JustSaved
    BY ClericalRunning DEF Inv, Structure
<1>2. 0 \in Rank BY RankZero
<1>3. \A r \in Rank : rank'[r].theta = rank[r].theta BY ClericalRank DEF Calm
<1>4. ASSUME NEW r \in Rank, Written(r)
      PROVE  Passed(rank'[r]) = Passed(rank[r])
    <2>1. rank[r].at # "reduce" BY <1>4 DEF Written
    <2> QED BY <2>1, ClericalMovesOn
<1>5. CASE WritesNothing
    BY <1>1, <1>3, <1>4, <1>5 DEF WritesNothing, Writes, JustSaved
<1>6. CASE WritesModel
    <2>1. rank[0].at # "reduce" BY <1>2, <1>6 DEF WritesModel, InModel
    <2>2. Passed(rank'[0]) = Passed(rank[0]) BY <1>2, <2>1, ClericalMovesOn
    <2> QED BY <1>2, <1>3, <1>6, <2>2 DEF WritesModel, Writes, JustSaved
<1>7. CASE WritesShards
    <2>1. PICK x \in Rank : Writes(rank[x].theta, 0) BY <1>7 DEF WritesShards
    <2>2. ASSUME NEW r \in Rank PROVE rank[x].theta = rank[r].theta
        <3>1. rank[x].at = "shards" /\ rank[r].at = "shards" BY <1>7 DEF WritesShards
        <3> QED BY <1>1, <3>1 DEF Aligned, Same, Behind
    <2> QED BY <1>3, <2>1, <2>2 DEF Writes, JustSaved
<1>8. CASE WritesMeta
    <2>1. ASSUME NEW r \in Rank, Written(r)
          PROVE  disk'.saved.model = rank'[r].theta /\ disk'.saved.epoch = Passed(rank'[r])
        <3>1. Passed(rank[0]) = Passed(rank[r]) BY <1>1, <1>2 DEF Level
        <3> QED BY <1>1, <1>3, <1>4, <1>8, <2>1, <3>1 DEF WritesMeta, Writes, JustSaved
    <2> QED BY <1>8, <2>1 DEF WritesMeta, JustSaved
<1>9. ASSUME NEW w \in Rank, WritesState(w) PROVE JustSaved'
    BY <1>1, <1>3, <1>4, <1>9 DEF WritesState, JustSaved
<1> QED BY <1>5, <1>6, <1>7, <1>8, <1>9, ClericalWrites

(* The states on disk after a rank has filed its own.                      *)
LEMMA StateFiled ==
    ASSUME Inv, Intact, Clerical, NEW w \in Rank, WritesState(w), NEW f \in Rank
    PROVE  /\ disk'.outer[f].total <= Passed(rank[w]) * StepsPerEpoch
           /\ disk'.outer[f] # NoOuterState
                /\ disk'.outer[f].total = Passed(rank[w]) * StepsPerEpoch =>
                  Belongs(disk'.outer[f].momentum, rank[w].theta)
<1> DEFINE state == [momentum |-> rank[w].momentum, outer |-> rank[w].outer,
                     total |-> rank[w].total, counter |-> rank[w].counter]
<1>1. Running /\ Typed /\ Placed /\ Momenta BY ClericalRunning DEF Inv, Structure
<1>2. rank[w].at = "state" /\ disk'.outer = [disk.outer EXCEPT ![StateFile(w)] = state]
    BY DEF WritesState
<1>3. MomentumOK(w) BY <1>1 DEF Momenta
<1>4. disk.outer \in [Rank -> OuterT \cup {NoOuterState}] BY <1>1 DEF Typed
<1>5. Done(rank[w]) = Passed(rank[w]) * StepsPerEpoch
    <2>1. rank[w] \in ProcessT BY <1>1 DEF Typed
    <2>2. InTrainer(rank[w]) BY <1>1, <1>2 DEF Placed, AfterTraining
    <2>3. rank[w].at \in Ended BY <1>2 DEF Ended, InModel
    <2> QED BY <2>1, <2>2, <2>3, Distance
<1>6. CASE f = StateFile(w)
    <2>1. disk'.outer[f] = state BY <1>2, <1>4, <1>6
    <2>2. state.total = rank[w].total /\ state.momentum = rank[w].momentum OBVIOUS
    <2> HIDE DEF state
    <2> QED BY <1>3, <1>5, <2>1, <2>2 DEF MomentumOK
<1>7. CASE f # StateFile(w)
    <2>1. disk'.outer[f] = disk.outer[f] BY <1>2, <1>4, <1>7
    <2>2. Filed(Passed(rank[w]), rank[w].theta)
        BY <1>2, <1>3 DEF MomentumOK, InModel
    <2> QED BY <2>1, <2>2 DEF Filed
<1> QED BY <1>6, <1>7

(* The outer states on disk belong to the checkpoint that is written.      *)
LEMMA ClericalFiled ==
    ASSUME Inv, Intact, Clerical, disk'.saved.epoch > 0
    PROVE  Filed(disk.saved.epoch, disk.saved.model)'
<1>1. Running /\ Typed /\ Momenta /\ Whole /\ JustSaved /\ Sensible
    BY ClericalRunning DEF Inv, Whole, Intact
<1>2. 0 \in Rank BY RankZero
<1>3. CASE WritesNothing
    BY <1>1, <1>3 DEF WritesNothing, Writes, Momenta, Filed
<1>4. CASE WritesModel
    <2>1. Filed(Passed(rank[0]), rank[0].theta)
        BY <1>1, <1>2, <1>4 DEF WritesModel, Momenta, MomentumOK
    <2> QED BY <1>4, <2>1 DEF WritesModel, Writes, Filed
<1>5. CASE WritesShards
    <2>1. disk'.saved.epoch = 0 BY <1>5 DEF WritesShards, Writes
    <2> QED BY <2>1, SMT
<1>6. CASE WritesMeta
    <2>1. rank[0].at \in InModel /\ Written(0) BY <1>6 DEF WritesMeta, InModel, Written
    <2>2. Filed(Passed(rank[0]), rank[0].theta) /\ disk.saved.model = rank[0].theta
        BY <1>1, <1>2, <2>1 DEF Momenta, MomentumOK, JustSaved
    <2> QED BY <1>6, <2>2 DEF WritesMeta, Writes, Filed
<1>7. ASSUME NEW w \in Rank, WritesState(w) PROVE Filed(disk.saved.epoch, disk.saved.model)'
    <2>1. Written(w) /\ disk'.saved = disk.saved BY <1>7 DEF WritesState, Written
    <2>2. disk.saved.model = rank[w].theta /\ disk.saved.epoch \in {0, Passed(rank[w])}
        BY <1>1, <2>1 DEF JustSaved
    <2>3. disk.saved.epoch = Passed(rank[w]) BY <2>1, <2>2, SMT
    <2> QED BY <1>7, <2>1, <2>2, <2>3, StateFiled DEF Filed
<1> QED BY <1>3, <1>4, <1>5, <1>6, <1>7, ClericalWrites

(* The momenta belong to the thetas as before.                             *)
LEMMA ClericalMomenta ==
    ASSUME Inv, Intact, Clerical PROVE Momenta'
<1>1. Running /\ Typed /\ Placed /\ Momenta /\ Whole /\ Aligned /\ Together /\ Level
    BY ClericalRunning DEF Inv, Whole, Intact, Structure
<1>2. InModel = {"eval", "save", "shards", "meta", "barrier", "state"} BY DEF InModel
<1> SUFFICES ASSUME NEW r \in Rank PROVE MomentumOK(r)'
    BY ClericalFiled DEF Momenta
<1> DEFINE p == rank[r]
           q == rank'[r]
<1>3. MomentumOK(r) BY <1>1 DEF Momenta
<1>4. /\ q.theta = p.theta /\ q.momentum = p.momentum /\ q.total = p.total
      /\ q.told = p.told /\ Done(q) = Done(p) /\ p \in ProcessT
    BY ClericalRank DEF Calm
<1>5. /\ ~q.told => q.total = Done(q)
      /\ q.total <= Done(q)
      /\ q.total = Done(q) => Belongs(q.momentum, q.theta)
    BY <1>3, <1>4 DEF MomentumOK
<1>6. /\ Passed(p) \in Nat /\ Passed(p) * StepsPerEpoch \in Nat
      /\ (Passed(p) + 1) * StepsPerEpoch = Passed(p) * StepsPerEpoch + StepsPerEpoch
      /\ StepsPerEpoch \in Nat /\ StepsPerEpoch > 0
    BY <1>4, Distance, Times, Bounds
<1>7. CASE Enters(r)
    <2>1. Passed(q) = Passed(p) + 1 /\ q.at \in {"flush", "eval"}
        <3>1. q.at \in {"flush", "eval"} BY <1>4, <1>7, FinishFields DEF Enters
        <3>2. ~MovesOn(r)
            BY <1>2, <1>7, <3>1 DEF Enters, MovesOn, Leaves, Moves, Stays
        <3> QED BY <3>1, <3>2, ClericalPassed
    <2>2. disk'.outer = disk.outer
        <3>1. \A x \in Rank : rank[x].at = "reduce"
            <4>1. ~MovesOn(r)
                BY <1>2, <1>7, <2>1 DEF Enters, MovesOn, Leaves, Moves, Stays
            <4> QED BY <4>1, ClericalPassed DEF Enters
        <3> QED
            BY <3>1, <1>2, RankZero, ClericalWrites
            DEF WritesNothing, WritesModel, WritesShards, WritesMeta, WritesState, Writes
    <2>3. ASSUME NEW f \in Rank
          PROVE  disk.outer[f].total \in Nat /\ disk.outer[f].total < Passed(q) * StepsPerEpoch
        <3>1. disk.outer[f].total \in Nat BY <1>1, FiledTyped
        <3>2. disk.outer[f].total <= Passed(p) * StepsPerEpoch BY <1>3 DEF MomentumOK
        <3>3. Passed(q) * StepsPerEpoch = Passed(p) * StepsPerEpoch + StepsPerEpoch
            BY <1>6, <2>1
        <3> HIDE DEF p, q
        <3> QED BY <1>6, <3>1, <3>2, <3>3, SMT
    <2>4. ASSUME NEW f \in Rank
          PROVE  disk.outer[f].total <= Passed(q) * StepsPerEpoch
                 /\ disk.outer[f].total # Passed(q) * StepsPerEpoch
        <3>1. Passed(q) * StepsPerEpoch \in Nat
            BY <1>6, <2>1, Bounds, SMT
        <3> HIDE DEF p, q
        <3> QED BY <2>3, <3>1, SMT
    <2> QED BY <1>5, <2>2, <2>3, <2>4 DEF MomentumOK, Filed
<1>8. CASE ~Enters(r)
    <2>1. MovesOn(r) /\ Passed(q) = Passed(p) BY <1>8, ClericalPassed
    <2>2. q.at \in {"flush", "eval"} => q = p
        <3>1. CASE \E from \in InModel : Leaves(r, from)
            <4>1. p.at \in InModel /\ q = LeaveGlobalModel(p) BY <3>1 DEF Leaves
            <4>2. p.epoch < Epochs
                BY <1>1, <1>2, <4>1 DEF Placed, InTrainer, AfterTraining
            <4>3. q.at \in {"cleanup", "batch"} BY <1>4, <4>1, <4>2, LeaveFields
            <4> QED BY <4>3
        <3>2. CASE \E from \in InModel, to \in InModel \ {"eval"} : Moves(r, from, to)
            <4>1. PICK from \in InModel, to \in InModel \ {"eval"} : Moves(r, from, to) BY <3>2
            <4>2. to \in Place BY <1>2 DEF Place
            <4>3. q.at = to BY <1>4, <4>1, <4>2, MoveFields DEF Moves
            <4> QED BY <1>2, <4>3
        <3>3. CASE Moves(r, "cleanup", "exited")
            <4>1. "exited" \in Place BY DEF Place
            <4>2. q.at = "exited" BY <1>4, <3>3, <4>1, MoveFields DEF Moves
            <4> QED BY <4>2
        <3>4. CASE Stays(r) BY <3>4 DEF Stays
        <3> QED BY <2>1, <3>1, <3>2, <3>3, <3>4 DEF MovesOn
    <2>3. q.at \in InModel => p.at \in InModel
        <3>1. CASE \E from \in InModel : Leaves(r, from) BY <3>1 DEF Leaves
        <3>2. CASE \E from \in InModel, to \in InModel \ {"eval"} : Moves(r, from, to)
            BY <3>2 DEF Moves
        <3>3. CASE Moves(r, "cleanup", "exited")
            <4>1. "exited" \in Place BY DEF Place
            <4>2. q.at = "exited" BY <1>4, <3>3, <4>1, MoveFields DEF Moves
            <4> QED BY <1>2, <4>2
        <3>4. CASE Stays(r) BY <3>4 DEF Stays
        <3> QED BY <2>1, <3>1, <3>2, <3>3, <3>4 DEF MovesOn
    <2>4. CASE disk'.outer = disk.outer
        BY <1>3, <1>4, <1>5, <2>1, <2>2, <2>3, <2>4 DEF MomentumOK, Filed
    <2>5. ASSUME NEW w \in Rank, WritesState(w) PROVE MomentumOK(r)'
        <3>1. rank[w].at = "state" BY <2>5 DEF WritesState
        <3>2. Passed(rank[w]) = Passed(p) BY <1>1 DEF Level
        <3>3. q.at \notin {"flush", "eval"}
            <4>1. Company(w, r) BY <1>1 DEF Together
            <4> QED BY <2>2, <3>1, <4>1 DEF Company
        <3>4. \A f \in Rank : disk'.outer[f].total <= Passed(q) * StepsPerEpoch
            BY <2>1, <2>5, <3>2, StateFiled
        <3>5. q.at \in InModel => Filed(Passed(rank[r]), rank[r].theta)'
            <4> SUFFICES ASSUME q.at \in InModel PROVE Filed(Passed(rank[r]), rank[r].theta)'
                OBVIOUS
            <4>1. p.theta = rank[w].theta
                BY <1>1, <1>2, <2>3, <3>1 DEF Aligned, Same, Behind
            <4> QED BY <1>4, <2>1, <2>5, <3>2, <4>1, StateFiled DEF Filed
        <3> QED BY <1>5, <3>3, <3>4, <3>5 DEF MomentumOK
    <2> QED
        BY <2>4, <2>5, ClericalWrites
        DEF WritesNothing, WritesModel, WritesShards, WritesMeta, Writes
<1> QED BY <1>7, <1>8

(* The number of steps that may be missing is a number.                    *)
LEMMA Counts ==
    ASSUME Typed
    PROVE  /\ PerKill \in Nat /\ kills \in Nat /\ kills * PerKill \in Nat
           /\ (kills + 1) * PerKill = kills * PerKill + PerKill
           /\ Allowed \in Nat /\ kills * PerKill <= Allowed
           /\ Running => Allowed = kills * PerKill + PerKill
           /\ ~Running => Allowed = kills * PerKill
<1> USE Bounds
<1>1. kills \in Nat BY SMT DEF Typed
<1>2. PerKill \in Nat
    <2>1. InnerSteps - 1 \in Nat BY SMT
    <2> QED BY <2>1, SMT DEF PerKill
<1>3. kills * PerKill \in Nat /\ (kills + 1) * PerKill = kills * PerKill + PerKill
    BY <1>1, <1>2, SMT
<1>4. (Running => Allowed = kills * PerKill + PerKill) /\ (~Running => Allowed = kills * PerKill)
    BY <1>3 DEF Allowed
<1> QED BY <1>1, <1>2, <1>3, <1>4, SMT

(* The sets that are counted are finite.                                   *)
LEMMA FiniteSteps ==
    ASSUME NEW epoch \in Nat
    PROVE  /\ IsFiniteSet(StepsUntil(epoch)) /\ IsFiniteSet(Steps)
           /\ StepsUntil(0) = {}
<1> USE Bounds
<1>1. epoch * StepsPerEpoch \in Nat /\ Epochs * StepsPerEpoch \in Nat /\ 0 * StepsPerEpoch = 0
    BY Times
<1>2. IsFiniteSet(0 .. Replicas - 1) /\ IsFiniteSet(1 .. epoch * StepsPerEpoch)
        /\ IsFiniteSet(1 .. Epochs * StepsPerEpoch)
    BY <1>1, FS_Interval, SMT
<1>3. IsFiniteSet(StepsUntil(epoch)) BY <1>2, FS_Product DEF StepsUntil
<1>4. IsFiniteSet(Steps) BY <1>2, FS_Product DEF Steps, Replica
<1>5. StepsUntil(0) = {}
    <2>1. 1 .. 0 = {} BY SMT
    <2> QED BY <1>1, <2>1 DEF StepsUntil
<1> QED BY <1>3, <1>4, <1>5

(* A theta that is saved lacks what was lost, and of each replica less     *)
(* than a phase.                                                           *)
LEMMA MissingBound ==
    ASSUME Inv, Running, NEW r \in Rank,
           \A q \in OuterGroup(r) : rank[q].at # "outer"
    PROVE  Cardinality(StepsUntil(Passed(rank[r])) \ rank[r].theta) <= Allowed
<1> USE Bounds
<1>1. Typed /\ Placed /\ Level /\ Thetas /\ Few BY DEF Inv, Structure
<1> DEFINE e == Passed(rank[r])
           d == e * StepsPerEpoch
           tail == Replica \X (d - InnerSteps + 2 .. d)
           gone == StepsUntil(e) \ rank[r].theta
<1>2. e \in Nat /\ d \in Nat
    <2>1. rank[r] \in ProcessT BY <1>1 DEF Typed
    <2> QED BY <2>1, Distance, Times
<1>3. ASSUME NEW q \in OuterGroup(r)
      PROVE  Folded(rank[q]) \in Int /\ Folded(rank[q]) >= d - InnerSteps + 1
    <2>1. q \in Rank /\ rank[q] \in ProcessT BY <1>1, GroupCovers DEF Typed
    <2>2. Passed(rank[q]) = e BY <1>1, <2>1 DEF Level
    <2>3. InTrainer(rank[q]) \/ AfterTraining(rank[q]) BY <1>1, <2>1 DEF Placed
    <2>4. d <= Done(rank[q]) /\ rank[q].counter < InnerSteps
            /\ Done(rank[q]) \in Nat /\ rank[q].counter \in Nat
            /\ Folded(rank[q]) = Done(rank[q]) - rank[q].counter
        <3>1. Done(rank[q]) \in Nat /\ rank[q].counter \in Nat
                /\ Folded(rank[q]) = Done(rank[q]) - rank[q].counter
            BY <2>1, Distance
        <3>2. CASE InTrainer(rank[q])
            BY <2>1, <2>2, <3>1, <3>2, Distance
        <3>3. CASE AfterTraining(rank[q])
            <4>1. d = Done(rank[q]) BY <2>1, <2>2, <3>3, Distance
            <4>2. rank[q].counter < InnerSteps BY <3>3 DEF AfterTraining
            <4> HIDE DEF d, e
            <4> QED BY <3>1, <4>1, <4>2, SMT
        <3> QED BY <2>3, <3>2, <3>3
    <2> HIDE DEF d, e
    <2> QED BY <1>2, <2>4, SMT
<1>4. gone \subseteq lost \cup tail
    <2> SUFFICES ASSUME NEW i \in Replica, NEW n \in 1 .. d, <<i, n>> \notin rank[r].theta,
                        <<i, n>> \notin lost
                 PROVE  <<i, n>> \in tail
        BY DEF StepsUntil, Replica
    <2>1. PICK q \in OuterGroup(r) : ReplicaOf(q) = i BY GroupCovers
    <2>2. ({i} \X (1 .. Folded(rank[q]))) \subseteq rank[r].theta \cup lost
        BY <1>1, <2>1 DEF Thetas, ThetaOK
    <2>3. n \notin 1 .. Folded(rank[q]) BY <2>2
    <2>4. n \in d - InnerSteps + 2 .. d
        <3> HIDE DEF d
        <3> QED BY <1>2, <1>3, <2>1, <2>3, SMT
    <2> QED BY <2>4
<1>5. IsFiniteSet(lost) /\ Cardinality(lost) \in Nat
    <2>1. IsFiniteSet(Steps) BY <1>2, FiniteSteps
    <2>2. lost \in SUBSET Steps BY <1>1 DEF Typed
    <2>3. IsFiniteSet(lost) BY <2>1, <2>2, FS_Subset
    <2> QED BY <2>3, FS_CardinalityType
<1>6. IsFiniteSet(tail) /\ Cardinality(tail) \in Nat /\ Cardinality(tail) = PerKill
    <2> HIDE DEF d
    <2>1. IsFiniteSet(0 .. Replicas - 1) /\ Cardinality(0 .. Replicas - 1) = Replicas
        <3>1. Replicas - 1 \in Int /\ ~(0 > Replicas - 1) /\ Replicas - 1 - 0 + 1 = Replicas BY SMT
        <3>2. 0 \in Int BY SMT
        <3> QED BY <3>1, <3>2, FS_Interval
    <2>2. IsFiniteSet(d - InnerSteps + 2 .. d)
            /\ Cardinality(d - InnerSteps + 2 .. d) = InnerSteps - 1
        <3> DEFINE a == d - InnerSteps + 2
        <3>1. a \in Int /\ d \in Int /\ (IF a > d THEN 0 ELSE (d - a) + 1) = InnerSteps - 1
            BY <1>2, SMT
        <3> HIDE DEF a
        <3>2. IsFiniteSet(a .. d) /\ Cardinality(a .. d) = InnerSteps - 1
            BY <3>1, FS_Interval
        <3> QED BY <3>2 DEF a
    <2>3. IsFiniteSet(tail) /\ Cardinality(tail) = Replicas * (InnerSteps - 1)
        <3> DEFINE few == d - InnerSteps + 2 .. d
        <3>1. IsFiniteSet(Replica) /\ Cardinality(Replica) = Replicas BY <2>1 DEF Replica
        <3>2. IsFiniteSet(few) /\ Cardinality(few) = InnerSteps - 1 BY <2>2
        <3>3. tail = Replica \X few OBVIOUS
        <3> HIDE DEF tail, few
        <3> QED BY <3>1, <3>2, <3>3, FS_Product
    <2> QED BY <1>1, <2>3, Counts DEF PerKill
<1>7. IsFiniteSet(gone) /\ Cardinality(gone) <= Cardinality(lost) + Cardinality(tail)
    <2> HIDE DEF gone, tail
    <2> DEFINE both == lost \cup tail
    <2>1. IsFiniteSet(both) /\ Cardinality(both) = Cardinality(lost) + Cardinality(tail)
                                                   - Cardinality(lost \cap tail)
        BY <1>5, <1>6, FS_Union
    <2>2. Cardinality(lost \cap tail) \in Nat
        <3>1. lost \cap tail \in SUBSET lost OBVIOUS
        <3> QED BY <1>5, <3>1, FS_Subset, FS_CardinalityType
    <2>3. gone \in SUBSET both BY <1>4
    <2> HIDE DEF both
    <2>4. IsFiniteSet(gone) /\ Cardinality(gone) <= Cardinality(both)
        BY <2>1, <2>3, FS_Subset
    <2>5. Cardinality(gone) \in Nat /\ Cardinality(both) \in Nat
        BY <2>1, <2>4, FS_CardinalityType
    <2> QED BY <1>5, <1>6, <2>1, <2>2, <2>4, <2>5, SMT
<1>8. Cardinality(gone) \in Nat BY <1>7, FS_CardinalityType
<1>9. Cardinality(lost) <= kills * PerKill BY <1>1 DEF Few
<1>10. Allowed = kills * PerKill + PerKill /\ kills * PerKill \in Nat /\ PerKill \in Nat
    BY <1>1, Counts
<1> HIDE DEF gone, tail
<1>11. Cardinality(gone) <= Allowed
    BY <1>5, <1>6, <1>7, <1>8, <1>9, <1>10, SMT
<1> QED BY <1>11 DEF gone

(* A checkpoint that is written lacks few steps.                           *)
LEMMA ClericalFew ==
    ASSUME Inv, Clerical PROVE Few'
<1>1. Running /\ Typed /\ Few /\ Placed /\ Level BY ClericalRunning DEF Inv, Structure
<1>2. 0 \in Rank BY RankZero
<1>3. Allowed' = Allowed /\ lost' = lost /\ kills' = kills
    <2>1. Running' BY ClericalRank DEF Running
    <2> QED BY <1>1, <2>1, ClericalEffect DEF Allowed
<1>4. rank'[0].at = "meta" => WritesShards \/ rank'[0] = rank[0] BY ClericalWrites
<1> SUFFICES /\ disk'.saved.epoch # -1 =>
                   Cardinality(StepsUntil(disk'.saved.epoch) \ disk'.saved.model) <= Allowed
             /\ rank'[0].at = "meta" =>
                   Cardinality(StepsUntil(Passed(rank'[0])) \ disk'.saved.model) <= Allowed
    BY <1>1, <1>3 DEF Few, Missing
<1>5. CASE ~WritesShards /\ (WritesNothing \/ \E w \in Rank : WritesState(w))
    <2>1. disk'.saved.model = disk.saved.model /\ disk'.saved.epoch = disk.saved.epoch
        BY <1>5 DEF WritesNothing, WritesState, Writes
    <2> QED BY <1>1, <1>4, <1>5, <2>1 DEF Few, Missing
<1>6. CASE WritesModel
    <2>1. \A r \in Rank : rank[r].at # "outer" BY <1>6 DEF WritesModel, InModel
    <2>2. Cardinality(StepsUntil(Passed(rank[0])) \ rank[0].theta) <= Allowed
        BY <1>1, <1>2, <2>1, GroupCovers, MissingBound
    <2> QED BY <1>6, <2>2 DEF WritesModel, Writes
<1>7. CASE WritesShards
    <2>1. rank[0].at = "shards" BY <1>2, <1>7 DEF WritesShards
    <2>2. \A r \in Rank : rank[r].at # "outer" BY <1>7 DEF WritesShards
    <2>3. PICK x \in Rank : Writes(rank[x].theta, 0) BY <1>7 DEF WritesShards
    <2>4. Cardinality(StepsUntil(Passed(rank[x])) \ rank[x].theta) <= Allowed
        BY <1>1, <2>2, GroupCovers, MissingBound
    <2>5. Passed(rank'[0]) = Passed(rank[0]) BY <1>2, <2>1, ClericalMovesOn
    <2>6. Passed(rank[x]) = Passed(rank[0]) BY <1>1, <1>2 DEF Level
    <2>7. Cardinality(StepsUntil(0) \ rank[x].theta) <= Allowed
        <3>1. 0 \in Nat BY SMT
        <3>2. StepsUntil(0) \ rank[x].theta = {} BY <3>1, FiniteSteps
        <3>3. Allowed \in Nat BY <1>1, Counts
        <3>4. Cardinality({}) = 0 BY FS_EmptySet
        <3> QED BY <3>2, <3>3, <3>4, SMT
    <2> QED BY <2>3, <2>4, <2>5, <2>6, <2>7 DEF Writes
<1>8. CASE WritesMeta
    BY <1>1, <1>8 DEF WritesMeta, Writes, Few, Missing
<1> QED BY <1>5, <1>6, <1>7, <1>8, ClericalWrites

(* The end of an epoch and the saving keep the invariant.                  *)
LEMMA ClericalPreserves ==
    ASSUME Inv, Clerical PROVE Inv'
<1>1. Running /\ Typed /\ Level BY ClericalRunning DEF Inv, Structure
<1>2. UNCHANGED <<flags, kills, lost, torn>> /\ rank' = [r \in Rank |-> rank'[r]]
    BY ClericalEffect
<1>3. Typed'
    <2>1. \A r \in Rank : rank'[r] \in ProcessT BY ClericalRank DEF Calm
    <2>2. rank' \in [Rank -> ProcessT] BY <1>2, <2>1
    <2> QED BY <1>1, <1>2, <2>2, ClericalWrites DEF Typed, flags
<1>4. Running' BY ClericalRank DEF Running
<1>5. Placed' BY ClericalRank DEF Placed
<1>6. Level'
    <2> SUFFICES ASSUME NEW q \in Rank, NEW r \in Rank
                 PROVE  /\ Passed(rank'[q]) = Passed(rank'[r])
                        /\ ReplicaOf(q) = ReplicaOf(r) => Done(rank'[q]) = Done(rank'[r])
        BY DEF Level
    <2>1. Passed(rank[q]) = Passed(rank[r])
            /\ (ReplicaOf(q) = ReplicaOf(r) => Done(rank[q]) = Done(rank[r]))
        BY <1>1 DEF Level
    <2> QED BY <2>1, ClericalPassed, ClericalRank DEF Calm
<1>7. AllOrNone' BY <1>4 DEF AllOrNone
<1>8. Structure' BY <1>5, <1>6, ClericalTogether DEF Structure
<1>9. (Whole' => Whole) /\ (Intact' => Intact) BY <1>2 DEF Whole, Intact
<1> QED
    BY <1>3, <1>7, <1>8, <1>9, ClericalSensible, ClericalFew, ClericalThetas, ClericalEven,
       ClericalAligned, ClericalJustSaved, ClericalMomenta
    DEF Inv

-----------------------------------------------------------------------------
(* A kill and a resume keep the invariant.                                 *)

(* A kill keeps the invariant, and uses up the steps it was allowed.       *)
LEMMA KillPreserves ==
    ASSUME Inv, Kill PROVE Inv'
<1>1. Typed /\ Running /\ Few /\ Sensible BY DEF Inv, Kill, Running
<1>2. /\ kills < MaxKills /\ kills' = kills + 1 /\ UNCHANGED <<flags, disk, lost, torn>>
      /\ rank' = [r \in Rank |-> [rank[r] EXCEPT !.at = "down"]]
    BY DEF Kill
<1>3. ASSUME NEW r \in Rank PROVE rank'[r] \in ProcessT /\ rank'[r].at = "down"
    <2>1. rank[r] \in ProcessT BY <1>1 DEF Typed
    <2>2. "down" \in Place BY DEF Place
    <2>3. rank'[r] = [rank[r] EXCEPT !.at = "down"] BY <1>2
    <2> QED BY <2>1, <2>2, <2>3, MoveFields
<1>4. 0 \in Rank /\ ~Running' BY <1>3, RankZero DEF Running
<1>5. Typed'
    <2>1. rank' \in [Rank -> ProcessT] BY <1>2, <1>3
    <2>2. kills' \in 0 .. MaxKills BY <1>1, <1>2, Bounds, SMT DEF Typed
    <2> QED BY <1>1, <1>2, <2>1, <2>2 DEF Typed, flags
<1>6. Sensible' /\ AllOrNone'
    <2>1. \A r \in Rank : ~Written(r)' BY <1>3 DEF Written
    <2> QED BY <1>1, <1>2, <1>3, <2>1 DEF Sensible, AllOrNone
<1>7. Few'
    <2>1. Allowed' = Allowed /\ kills' * PerKill = Allowed
        BY <1>1, <1>2, <1>4, Counts DEF Allowed
    <2>2. Cardinality(lost') <= kills' * PerKill
        <3>1. Cardinality(lost) \in Nat
            <4>1. IsFiniteSet(Steps)
                <5>1. 0 \in Nat BY SMT
                <5> QED BY <5>1, FiniteSteps
            <4>2. lost \in SUBSET Steps BY <1>1 DEF Typed
            <4> QED BY <4>1, <4>2, FS_Subset, FS_CardinalityType
        <3>2. Cardinality(lost) <= kills * PerKill BY <1>1 DEF Few
        <3>3. kills * PerKill <= Allowed /\ kills * PerKill \in Nat /\ Allowed \in Nat
            BY <1>1, Counts
        <3> QED BY <1>2, <2>1, <3>1, <3>2, <3>3, SMT
    <2>3. rank'[0].at # "meta" BY <1>3, <1>4
    <2> QED BY <1>1, <1>2, <2>1, <2>2, <2>3 DEF Few, Missing
<1>8. Whole' => EvenHanded'
    BY <1>2, <1>4 DEF Inv, EvenHanded, Whole
<1>9. Intact' => Momenta'
    BY <1>2, <1>4 DEF Inv, Momenta, Filed, Intact
<1> QED BY <1>4, <1>5, <1>6, <1>7, <1>8, <1>9 DEF Inv

(* Every rank starts with the same theta, pulls and epoch, and an outer    *)
(* state of its own.                                                       *)
Restarts(theta, pulls, epoch, state, told) ==
    /\ Start \in theta /\ theta \subseteq {Start} \cup Steps
    /\ rank' = [r \in Rank |-> Process(theta, pulls, epoch, state[r], told[r])]
    /\ lost' = StepsUntil(epoch) \ theta
    /\ Cardinality(lost') <= kills * PerKill
    /\ Whole' => /\ Whole /\ Even(theta)
                 /\ \A q, r \in Rank : state[q].counter = state[r].counter
    /\ Whole' /\ Matched' =>
         \A q, r \in Rank : /\ state[q].momentum = state[r].momentum
                            /\ state[q].total = state[r].total
    /\ Intact' =>
         /\ \A f \in Rank : disk.outer[f].total <= epoch * StepsPerEpoch
         /\ \A r \in Rank :
              /\ ~told[r] => state[r].total = epoch * StepsPerEpoch
              /\ state[r].total <= epoch * StepsPerEpoch
              /\ state[r].total = epoch * StepsPerEpoch => Belongs(state[r].momentum, theta)

(* Without a checkpoint the run starts from the initialisation.            *)
LEMMA ColdRestart ==
    ASSUME Inv, Resume, disk.saved = NoCheckpoint
    PROVE  Restarts({Start}, {}, 0, [r \in Rank |-> Cold], [r \in Rank |-> FALSE])
<1> DEFINE state == [r \in Rank |-> Cold]
           told == [r \in Rank |-> FALSE]
           theta == {Start}
           pulls == {}
<1>1. rank' = Fresh /\ lost' = {} /\ torn' = torn BY DEF Resume
<1>2. Typed /\ Sensible BY DEF Inv
<1>3. \A r \in Rank : state[r] = Cold /\ told[r] = FALSE OBVIOUS
<1>4. rank' = [r \in Rank |-> Process(theta, pulls, 0, state[r], told[r])]
    <2>1. \A r \in Rank : Fresh[r] = Process(theta, pulls, 0, state[r], told[r])
        BY <1>2, <1>3, FreshEffect DEF Typed
    <2>2. Fresh = [r \in Rank |-> Fresh[r]] BY DEF Fresh
    <2> QED BY <1>1, <2>1, <2>2
<1>5. 0 \in Nat /\ 0 * StepsPerEpoch = 0 BY Times, SMT
<1>6. lost' = StepsUntil(0) \ theta BY <1>1, <1>5, FiniteSteps
<1>7. Cardinality(lost') <= kills * PerKill
    <2>1. Cardinality({}) = 0 BY FS_EmptySet
    <2>2. kills * PerKill \in Nat BY <1>2, Counts
    <2> QED BY <1>1, <2>1, <2>2, SMT
<1>8. Whole' => Whole /\ Even(theta) BY <1>1, SMT DEF Whole, Even, Start
<1>9. \A q, r \in Rank : state[q] = state[r] BY <1>3
<1>10. ASSUME NEW f \in Rank PROVE disk.outer[f].total <= 0 * StepsPerEpoch
    <2>1. disk.outer[f] = NoOuterState BY <1>2, SMT DEF Sensible, NoCheckpoint
    <2>2. disk.outer[f].total = 0 BY <2>1 DEF NoOuterState
    <2> QED BY <1>5, <2>2, SMT
<1>11. ASSUME NEW r \in Rank
       PROVE  /\ state[r].total = 0 * StepsPerEpoch
              /\ state[r].total <= 0 * StepsPerEpoch
              /\ Belongs(state[r].momentum, theta)
    <2>1. state[r].total = 0 /\ state[r].momentum = {} BY <1>3, ColdState
    <2> HIDE DEF state
    <2> QED BY <1>5, <2>1, SMT DEF Belongs
<1> HIDE DEF state, told
<1>12. Restarts(theta, pulls, 0, state, told)
    BY <1>1, <1>4, <1>6, <1>7, <1>8, <1>9, <1>10, <1>11 DEF Restarts
<1> QED BY <1>12 DEF state, told

(* With one it starts from it, and from the outer states beside it.        *)
LEMMA WarmRestart ==
    ASSUME Inv, Resume, disk.saved # NoCheckpoint
    PROVE  /\ disk.saved.epoch \in 0 .. Epochs
           /\ disk.saved.pulls \in Pulls
           /\ \E state \in [Rank -> OuterT], told \in [Rank -> BOOLEAN] :
                Restarts(disk.saved.model, disk.saved.pulls, disk.saved.epoch, state, told)
<1> DEFINE theta == disk.saved.model
           pulls == disk.saved.pulls
           epoch == disk.saved.epoch
           file(r) == disk.outer[StateFile(r)]
           state == [r \in Rank |-> IF file(r) = NoOuterState THEN Cold ELSE file(r)]
           told == [r \in Rank |-> IF file(r) = NoOuterState THEN TRUE
                                   ELSE file(r).total # epoch * StepsPerEpoch]
<1>1. /\ rank' = [r \in Rank |-> Restored(r)]
      /\ lost' = StepsUntil(epoch) \ theta
      /\ torn' = torn \cup Tears
      /\ disk.saved.whole /\ \A r \in Rank : rank[r].at = "down"
    BY DEF Resume
<1>2. Typed /\ Sensible /\ Few BY DEF Inv
<1>3. ~Running BY <1>1, RankZero DEF Running
<1>4. epoch \in 0 .. Epochs /\ theta \in SUBSET Trained /\ pulls \in Pulls
    <2>1. disk.saved \in SavedT BY <1>2 DEF Typed
    <2>2. epoch \in -1 .. Epochs /\ theta \in SUBSET Trained /\ pulls \in Pulls
            /\ disk.saved = [model |-> theta, pulls |-> pulls, epoch |-> epoch,
                             whole |-> disk.saved.whole]
            /\ disk.saved.whole \in BOOLEAN
        BY <2>1 DEF SavedT
    <2>3. epoch # -1
        <3>1. epoch = -1 => theta = {} /\ pulls = {} BY <1>2 DEF Sensible
        <3>2. disk.saved.whole = TRUE BY <1>1, <2>2
        <3> QED BY <2>2, <3>1, <3>2 DEF NoCheckpoint
    <2> HIDE DEF epoch, theta, pulls
    <2> QED BY <2>2, <2>3, Bounds, SMT
<1>5. ASSUME NEW r \in Rank
      PROVE  /\ StateFile(r) \in Rank /\ state[r] \in OuterT /\ told[r] \in BOOLEAN
             /\ Restored(r) = Process(theta, pulls, epoch, state[r], told[r])
             /\ file(r) = NoOuterState => state[r] = Cold /\ told[r] = TRUE
             /\ file(r) # NoOuterState =>
                  state[r] = file(r) /\ told[r] = (file(r).total # epoch * StepsPerEpoch)
    <2>1. StateFile(r) \in Rank BY <1>2, WarmEffect
    <2>2. file(r) \in OuterT \cup {NoOuterState} BY <1>2, <2>1 DEF Typed
    <2>3. Restored(r) = IF file(r) = NoOuterState
                        THEN Process(theta, pulls, epoch, Cold, TRUE)
                        ELSE Process(theta, pulls, epoch, file(r),
                                     file(r).total # epoch * StepsPerEpoch)
        BY <1>2, WarmEffect
    <2>4. /\ state[r] = IF file(r) = NoOuterState THEN Cold ELSE file(r)
          /\ told[r] = IF file(r) = NoOuterState THEN TRUE
                       ELSE file(r).total # epoch * StepsPerEpoch
        OBVIOUS
    <2> HIDE DEF state, told, file, theta, pulls, epoch
    <2>5. CASE file(r) = NoOuterState BY <2>1, <2>3, <2>4, <2>5, ColdState
    <2>6. CASE file(r) # NoOuterState BY <2>1, <2>2, <2>3, <2>4, <2>6
    <2> QED BY <2>5, <2>6
<1>6. state \in [Rank -> OuterT] /\ told \in [Rank -> BOOLEAN]
    <2>1. state = [r \in Rank |-> state[r]] /\ told = [r \in Rank |-> told[r]] OBVIOUS
    <2> HIDE DEF state, told
    <2> QED BY <1>5, <2>1
<1> HIDE DEF state, told, file
<1>7. rank' = [r \in Rank |-> Process(theta, pulls, epoch, state[r], told[r])] BY <1>1, <1>5
<1>8. Start \in theta /\ theta \subseteq {Start} \cup Steps
    <2>1. epoch # -1
        <3> HIDE DEF epoch
        <3> QED BY <1>4, SMT
    <2> QED BY <1>2, <2>1 DEF Sensible
<1>9. Cardinality(lost') <= kills * PerKill
    <2>1. epoch # -1
        <3> HIDE DEF epoch
        <3> QED BY <1>4, SMT
    <2>2. Cardinality(Missing(epoch)) <= Allowed BY <1>2, <2>1 DEF Few
    <2>3. Allowed = kills * PerKill BY <1>2, <1>3, Counts
    <2> QED BY <1>1, <2>2, <2>3 DEF Missing
<1>r. ASSUME NEW x \in Rank
      PROVE  /\ rank'[x].counter = state[x].counter /\ rank'[x].momentum = state[x].momentum
             /\ rank'[x].total = state[x].total
    <2>1. state[x] \in OuterT /\ told[x] \in BOOLEAN BY <1>5
    <2>2. rank'[x] = Process(theta, pulls, epoch, state[x], told[x]) BY <1>7
    <2> HIDE DEF theta, pulls, epoch
    <2> QED BY <1>4, <2>1, <2>2, ProcessFields
<1>s. ASSUME ~sharded, NEW q \in Rank, NEW r \in Rank PROVE state[q] = state[r]
    <2>1. StateFile(q) = StateFile(r) BY <1>s DEF StateFile
    <2>2. file(q) = file(r) BY <2>1 DEF file
    <2> QED BY <1>5, <2>2
<1>10. ASSUME Whole'
       PROVE  Whole /\ Even(theta) /\ \A q, r \in Rank : state[q].counter = state[r].counter
    <2>1. Whole BY <1>1, <1>10 DEF Whole
    <2>2. Even(theta) BY <2>1 DEF Inv, EvenHanded
    <2>3. ASSUME NEW q \in Rank, NEW r \in Rank PROVE state[q].counter = state[r].counter
        <3>1. CASE sharded
            <4>1. rank'[q].counter = rank'[r].counter
                BY <1>1, <1>10, <3>1 DEF Whole, Tears
            <4> QED BY <4>1, <1>r
        <3>2. CASE ~sharded BY <3>2, <1>s
        <3> QED BY <3>1, <3>2
    <2> QED BY <2>1, <2>2, <2>3
<1>m. ASSUME Matched', NEW q \in Rank, NEW r \in Rank
      PROVE  state[q].momentum = state[r].momentum /\ state[q].total = state[r].total
    <2>1. CASE sharded
        <3>1. rank'[q].momentum = rank'[r].momentum /\ rank'[q].total = rank'[r].total
            BY <1>1, <1>m, <2>1 DEF Matched, Tears
        <3> QED BY <3>1, <1>r
    <2>2. CASE ~sharded BY <2>2, <1>s
    <2> QED BY <2>1, <2>2
<1>11. ASSUME Intact'
       PROVE  /\ \A f \in Rank : disk.outer[f].total <= epoch * StepsPerEpoch
              /\ \A r \in Rank :
                   /\ ~told[r] => state[r].total = epoch * StepsPerEpoch
                   /\ state[r].total <= epoch * StepsPerEpoch
                   /\ state[r].total = epoch * StepsPerEpoch => Belongs(state[r].momentum, theta)
    <2>1. Intact /\ epoch # 0
        <3>1. torn \cup Tears \subseteq {"momenta"} BY <1>1, <1>11 DEF Intact
        <3>2. "meta" \notin Tears BY <3>1
        <3>3. epoch # 0 BY <3>2 DEF Tears
        <3> QED BY <3>1, <3>3 DEF Intact
    <2>2. epoch > 0
        <3> HIDE DEF epoch
        <3> QED BY <1>4, <2>1, SMT
    <2>3. Filed(epoch, theta) BY <2>1, <2>2 DEF Inv, Momenta
    <2>4. epoch * StepsPerEpoch \in Nat /\ epoch * StepsPerEpoch > 0
        <3> HIDE DEF epoch
        <3> QED BY <1>4, <2>2, Times, SMT
    <2>5. ASSUME NEW r \in Rank
          PROVE  /\ ~told[r] => state[r].total = epoch * StepsPerEpoch
                 /\ state[r].total <= epoch * StepsPerEpoch
                 /\ state[r].total = epoch * StepsPerEpoch => Belongs(state[r].momentum, theta)
        <3>1. CASE file(r) = NoOuterState
            <4>1. told[r] = TRUE /\ state[r].total = 0 BY <1>5, <3>1, ColdState
            <4> HIDE DEF epoch
            <4> QED BY <2>4, <4>1, SMT
        <3>2. CASE file(r) # NoOuterState
            <4>1. state[r] = file(r) /\ told[r] = (file(r).total # epoch * StepsPerEpoch)
                BY <1>5, <3>2
            <4>2. /\ file(r).total <= epoch * StepsPerEpoch
                  /\ file(r).total = epoch * StepsPerEpoch => Belongs(file(r).momentum, theta)
                BY <1>5, <2>3, <3>2 DEF Filed, file
            <4> QED BY <4>1, <4>2
        <3> QED BY <3>1, <3>2
    <2> QED BY <2>1, <2>3, <2>5 DEF Filed
<1>12. Restarts(theta, pulls, epoch, state, told)
    BY <1>1, <1>7, <1>8, <1>9, <1>10, <1>m, <1>11 DEF Restarts
<1> QED BY <1>4, <1>6, <1>12

(* A start of either kind keeps the invariant.                             *)
LEMMA RestartPreserves ==
    ASSUME Inv, Resume, NEW theta, NEW pulls \in Pulls, NEW epoch \in 0 .. Epochs,
           NEW state \in [Rank -> OuterT], NEW told \in [Rank -> BOOLEAN],
           Restarts(theta, pulls, epoch, state, told),
           torn' \subseteq {"meta", "states", "momenta"}
    PROVE  Inv'
<1> USE Bounds
<1>1. Typed /\ Sensible /\ Few BY DEF Inv
<1>2. UNCHANGED <<flags, disk, kills>> /\ \A r \in Rank : rank[r].at = "down" BY DEF Resume
<1>3. ~Running BY <1>2, RankZero DEF Running
<1>4. theta \in SUBSET Trained BY Sets DEF Restarts
<1>5. ASSUME NEW r \in Rank
      PROVE  LET q == rank'[r] IN
             /\ q \in ProcessT
             /\ q.at = IF epoch < Epochs THEN "batch" ELSE "cleanup"
             /\ q.model = theta /\ q.theta = theta /\ q.pulls = pulls
             /\ q.momentum = state[r].momentum /\ q.total = state[r].total
             /\ q.counter = state[r].counter /\ q.told = told[r]
             /\ InTrainer(q) \/ AfterTraining(q)
             /\ AfterTraining(q) => epoch = Epochs
             /\ Done(q) = epoch * StepsPerEpoch /\ Folded(q) = epoch * StepsPerEpoch - state[r].counter
             /\ Passed(q) = epoch /\ Kept(q) = theta
             /\ q.at \notin Ended
    <2>1. state[r] \in OuterT /\ told[r] \in BOOLEAN OBVIOUS
    <2>2. rank'[r] = Process(theta, pulls, epoch, state[r], told[r]) BY DEF Restarts
    <2> QED BY <1>4, <2>1, <2>2, ProcessFields
<1>6. lost' = StepsUntil(epoch) \ theta BY DEF Restarts
<1>7. epoch * StepsPerEpoch \in Nat /\ epoch * StepsPerEpoch <= Epochs * StepsPerEpoch
    BY Times, SMT
<1>8. lost' \subseteq Steps
    <2> SUFFICES StepsUntil(epoch) \subseteq Steps BY <1>6
    <2>1. 1 .. epoch * StepsPerEpoch \subseteq 1 .. Epochs * StepsPerEpoch
        BY <1>7, Times, SMT
    <2> QED BY <2>1 DEF StepsUntil, Steps, Replica
<1>9. Typed'
    <2>1. rank' \in [Rank -> ProcessT] BY <1>5 DEF Restarts
    <2> QED BY <1>1, <1>2, <1>8, <2>1 DEF Typed, flags
<1>10. Running' /\ AllOrNone'
    BY <1>5 DEF Running, AllOrNone
<1>11. \A r \in Rank : ~Written(r)'
    BY <1>5 DEF Written, Ended, InModel
<1>12. Sensible' BY <1>1, <1>2, <1>11 DEF Sensible
<1>13. Few'
    <2>1. Cardinality(lost') <= kills * PerKill BY DEF Restarts
    <2>2. Allowed = kills * PerKill /\ Allowed' = kills * PerKill + PerKill
            /\ PerKill \in Nat /\ kills * PerKill \in Nat
        BY <1>1, <1>2, <1>3, <1>10, Counts DEF Allowed
    <2>3. disk.saved.epoch # -1 => Cardinality(Missing(disk.saved.epoch)) <= Allowed'
        <3> SUFFICES ASSUME disk.saved.epoch # -1
                     PROVE  Cardinality(Missing(disk.saved.epoch)) <= Allowed'
            OBVIOUS
        <3> DEFINE c == Cardinality(Missing(disk.saved.epoch))
        <3>1. c <= Allowed BY <1>1 DEF Few
        <3>2. c \in Nat
            <4>1. disk.saved \in SavedT BY <1>1 DEF Typed
            <4>2. disk.saved.epoch \in -1 .. Epochs BY <4>1 DEF SavedT
            <4>3. disk.saved.epoch \in Nat BY <4>2, SMT
            <4>4. IsFiniteSet(StepsUntil(disk.saved.epoch)) BY <4>3, FiniteSteps
            <4>5. Missing(disk.saved.epoch) \in SUBSET StepsUntil(disk.saved.epoch)
                BY DEF Missing
            <4> QED BY <4>4, <4>5, FS_Subset, FS_CardinalityType
        <3> HIDE DEF c
        <3>3. c <= Allowed' BY <2>2, <3>1, <3>2, SMT
        <3> QED BY <3>3 DEF c
    <2>4. rank'[0].at # "meta" BY <1>5, RankZero
    <2>5. (Missing(disk.saved.epoch))' = Missing(disk.saved.epoch)
        BY <1>2 DEF Missing
    <2> QED BY <1>2, <2>1, <2>3, <2>4, <2>5 DEF Few
<1>14. Structure'
    <2>1. Placed' BY <1>5 DEF Placed
    <2>2. Level' BY <1>5 DEF Level
    <2>3. Together' BY <1>5 DEF Together, Company
    <2> QED BY <2>1, <2>2, <2>3 DEF Structure
<1>15. Thetas'
    <2> SUFFICES ASSUME NEW r \in Rank PROVE ThetaOK(r)'
        BY DEF Thetas
    <2>1. Start \in theta /\ theta \subseteq {Start} \cup Steps BY DEF Restarts
    <2>2. theta \cap lost' = {} BY <1>6
    <2>3. ASSUME NEW i \in Replica, NEW n \in 1 .. epoch * StepsPerEpoch
          PROVE  <<i, n>> \in theta \cup lost'
        <3>1. <<i, n>> \in StepsUntil(epoch) BY <2>3 DEF StepsUntil, Replica
        <3> QED BY <1>6, <3>1
    <2>4. Drift(r)' \subseteq theta
        <3>1. Phase(rank'[r]) \subseteq 1 .. epoch * StepsPerEpoch BY <1>5 DEF Phase
        <3>2. ReplicaOf(r) \in Replica BY Layout
        <3> QED BY <2>3, <3>1, <3>2 DEF Drift
    <2>5. \A v \in lost' : v[2] <= Done(rank'[r])
        BY <1>5, <1>6, <1>7, SMT DEF StepsUntil
    <2>6. ASSUME NEW q \in OuterGroup(r)
          PROVE  /\ rank'[q].theta = theta
                 /\ ({ReplicaOf(q)} \X (1 .. Folded(rank'[q]))) \subseteq theta \cup lost'
        <3>1. q \in Rank /\ ReplicaOf(q) \in Replica BY GroupCovers, Layout
        <3>2. 1 .. Folded(rank'[q]) \subseteq 1 .. epoch * StepsPerEpoch
            <4>1. state[q].counter \in Nat BY <3>1, SMT DEF OuterT
            <4>2. Folded(rank'[q]) = epoch * StepsPerEpoch - state[q].counter BY <1>5, <3>1
            <4> QED BY <1>7, <4>1, <4>2, SMT
        <3> QED BY <1>5, <2>3, <3>1, <3>2
    <2>7. rank'[r].at \notin InModel BY <1>5 DEF Ended
    <2>8. Kept(rank'[r]) = theta \cup Drift(r)' /\ rank'[r].theta = theta /\ rank'[r].model = theta
        BY <1>5, <2>4
    <2> QED BY <2>1, <2>2, <2>5, <2>6, <2>7, <2>8 DEF ThetaOK
<1>16. ASSUME Whole' PROVE EvenHanded' /\ Aligned' /\ Complete' /\ JustSaved'
    <2>1. Whole /\ Even(theta) /\ \A q, r \in Rank : state[q].counter = state[r].counter
        BY <1>16 DEF Restarts
    <2>2. EvenHanded'
        <3>1. Even(disk'.saved.model) BY <1>2, <2>1 DEF Inv, EvenHanded
        <3>2. Even(lost')
            <4> SUFFICES ASSUME NEW v \in lost', NEW i \in Replica PROVE <<i, v[2]>> \in lost'
                BY DEF Even
            <4>1. PICK j \in Replica, n \in 1 .. epoch * StepsPerEpoch : v = <<j, n>>
                BY <1>6 DEF StepsUntil, Replica
            <4>2. <<i, n>> \in StepsUntil(epoch) BY <4>1 DEF StepsUntil, Replica
            <4>3. <<i, n>> \notin theta
                <5>1. n > 0 /\ <<i, n>>[2] = n BY <1>7, <4>1, SMT
                <5>2. <<i, n>> \in theta => <<j, n>> \in theta BY <2>1, <4>1, <5>1 DEF Even
                <5> QED BY <1>6, <4>1, <5>2
            <4> QED BY <1>6, <4>1, <4>2, <4>3
        <3>3. \A r \in Rank : Even(rank'[r].theta) BY <1>5, <2>1
        <3> QED BY <3>1, <3>2, <3>3 DEF EvenHanded, Even
    <2>3. Aligned'
        <3>1. ASSUME Matched', NEW q \in Rank, NEW r \in Rank
              PROVE  Alike(rank'[q], rank'[r])
            <4>1. state[q].momentum = state[r].momentum /\ state[q].total = state[r].total
                BY <1>16, <3>1 DEF Restarts
            <4> QED BY <1>5, <4>1 DEF Alike, Uncounted
        <3>2. \A q, r \in Rank : Same(rank[q], rank[r])'
            BY <1>5, <2>1, <3>1 DEF Same, Alike
        <3> QED BY <3>2 DEF Aligned
    <2>4. Complete'
        <3> SUFFICES ASSUME NEW r \in Rank, Finished(rank'[r])
                     PROVE  Steps \subseteq rank'[r].theta \cup lost'
            BY DEF Complete
        <3>1. epoch = Epochs BY <1>5 DEF Finished, Ended
        <3> QED BY <1>5, <1>6, <3>1, Sets
    <2>5. JustSaved' BY <1>11 DEF JustSaved
    <2> QED BY <2>2, <2>3, <2>4, <2>5
<1>17. ASSUME Intact' PROVE Momenta'
    <2>0. Intact
        <3>1. torn \subseteq torn' BY DEF Resume
        <3> QED BY <1>17, <3>1 DEF Intact
    <2>1. /\ \A f \in Rank : disk.outer[f].total <= epoch * StepsPerEpoch
          /\ \A r \in Rank :
               /\ ~told[r] => state[r].total = epoch * StepsPerEpoch
               /\ state[r].total <= epoch * StepsPerEpoch
               /\ state[r].total = epoch * StepsPerEpoch => Belongs(state[r].momentum, theta)
        BY <1>17 DEF Restarts
    <2>2. disk'.saved.epoch > 0 => Filed(disk.saved.epoch, disk.saved.model)'
        BY <1>2, <2>0, <2>1 DEF Inv, Momenta, Filed
    <2>3. ASSUME NEW r \in Rank PROVE MomentumOK(r)'
        <3>1. rank'[r].at \notin InModel /\ rank'[r].at \notin {"flush", "eval"}
            BY <1>5 DEF Ended, InModel
        <3> QED BY <1>2, <1>5, <2>1, <3>1 DEF MomentumOK
    <2> QED BY <2>2, <2>3 DEF Momenta
<1> QED BY <1>9, <1>10, <1>12, <1>13, <1>14, <1>15, <1>16, <1>17 DEF Inv

(* A resume keeps the invariant.                                           *)
LEMMA ResumePreserves ==
    ASSUME Inv, Resume PROVE Inv'
<1>1. Typed BY DEF Inv
<1>2. CASE disk.saved = NoCheckpoint
    <2> DEFINE state == [r \in Rank |-> Cold]
               told == [r \in Rank |-> FALSE]
    <2>1. Restarts({Start}, {}, 0, state, told) BY <1>2, ColdRestart
    <2>2. state \in [Rank -> OuterT] /\ told \in [Rank -> BOOLEAN] BY ColdState
    <2>3. 0 \in 0 .. Epochs BY Bounds, SMT
    <2>4. torn' \subseteq {"meta", "states", "momenta"} BY <1>1, <1>2 DEF Resume, Typed
    <2>5. {} \in Pulls BY DEF Pulls
    <2> HIDE DEF state, told
    <2> QED BY <2>1, <2>2, <2>3, <2>4, <2>5, RestartPreserves
<1>3. CASE disk.saved # NoCheckpoint
    <2>1. torn' \subseteq {"meta", "states", "momenta"}
        BY <1>1, <1>3 DEF Resume, Typed, Tears
    <2> QED BY <1>3, <2>1, WarmRestart, RestartPreserves
<1> QED BY <1>2, <1>3

(* A first start satisfies the invariant.                                  *)
LEMMA InitInv ==
    ASSUME Init PROVE Inv
<1> USE Bounds
<1>1. /\ sharded \in BOOLEAN /\ split \in BOOLEAN /\ every \in Intervals
      /\ kills = 0 /\ lost = {} /\ torn = {} /\ rank = Fresh
      /\ disk = [saved |-> NoCheckpoint, outer |-> [r \in Rank |-> NoOuterState]]
    BY DEF Init
<1>2. Start \in Trained /\ {Start} \in SUBSET Trained BY Sets
<1>3. /\ Cold \in OuterT /\ Cold.momentum = {} /\ Cold.total = 0 /\ Cold.counter = 0
    BY ColdState
<1>4. 0 \in 0 .. Epochs /\ 0 * StepsPerEpoch = 0 /\ 0 < Epochs /\ 0 # Epochs
    BY SMT
<1>5. ASSUME NEW r \in Rank
      PROVE  LET q == rank[r] IN
             /\ q \in ProcessT /\ q.at = "batch" /\ q.theta = {Start} /\ q.model = {Start}
             /\ q.pulls = {} /\ q.momentum = {} /\ q.total = 0 /\ q.counter = 0 /\ q.told = FALSE
             /\ InTrainer(q) /\ ~AfterTraining(q)
             /\ Done(q) = 0 /\ Folded(q) = 0 /\ Passed(q) = 0 /\ Kept(q) = {Start}
    <2> DEFINE theta == {Start}
               pulls == {}
    <2>1. rank[r] = Process(theta, pulls, 0, Cold, FALSE) BY <1>1, FreshEffect
    <2> DEFINE told == FALSE
    <2>2. told \in BOOLEAN /\ theta \in SUBSET Trained /\ pulls \in Pulls BY <1>2 DEF Pulls
    <2>3. told = FALSE /\ pulls = {} OBVIOUS
    <2>4. rank[r] = Process(theta, pulls, 0, Cold, told) BY <2>1
    <2> HIDE DEF theta, pulls, told
    <2>5. PICK e \in 0 .. Epochs : e = 0 BY <1>4
    <2>6. rank[r] = Process(theta, pulls, e, Cold, told) /\ e \in 0 .. Epochs BY <2>4, <2>5
    <2>7. /\ rank[r] \in ProcessT
          /\ rank[r].at = IF e < Epochs THEN "batch" ELSE "cleanup"
          /\ rank[r].model = theta /\ rank[r].theta = theta /\ rank[r].pulls = pulls
          /\ rank[r].momentum = Cold.momentum /\ rank[r].total = Cold.total
          /\ rank[r].counter = Cold.counter /\ rank[r].told = told
          /\ InTrainer(rank[r]) \/ AfterTraining(rank[r])
          /\ AfterTraining(rank[r]) => e = Epochs
          /\ Done(rank[r]) = e * StepsPerEpoch /\ Folded(rank[r]) = e * StepsPerEpoch - Cold.counter
          /\ Passed(rank[r]) = e /\ Kept(rank[r]) = theta
        BY <1>3, <2>2, <2>6, ProcessFields
    <2>8. e * StepsPerEpoch = 0 /\ e < Epochs /\ e # Epochs /\ e * StepsPerEpoch - Cold.counter = 0
        BY <1>3, <1>4, <2>5, SMT
    <2> QED BY <1>3, <2>5, <2>3, <2>7, <2>8 DEF theta
<1>6. Running /\ AllOrNone BY <1>5 DEF Running, AllOrNone
<1>7. InModel = {"eval", "save", "shards", "meta", "barrier", "state"} BY DEF InModel
<1>8. /\ disk.saved = NoCheckpoint /\ NoCheckpoint.epoch = -1 /\ NoCheckpoint.model = {}
      /\ NoCheckpoint.pulls = {}
      /\ \A f \in Rank : disk.outer[f] = NoOuterState
      /\ NoOuterState.total = 0
    BY <1>1 DEF NoCheckpoint, NoOuterState
<1>9. Typed
    <2>1. rank \in [Rank -> ProcessT] BY <1>1, <1>5 DEF Fresh
    <2>2. NoCheckpoint \in SavedT
        <3>1. -1 \in -1 .. Epochs /\ {} \in SUBSET Trained /\ {} \in Pulls BY SMT DEF Pulls
        <3> QED BY <3>1 DEF NoCheckpoint, SavedT
    <2>3. disk \in [saved : SavedT, outer : [Rank -> OuterT \cup {NoOuterState}]]
        BY <1>1, <2>2
    <2>4. kills \in 0 .. MaxKills BY <1>1, SMT
    <2> QED BY <1>1, <2>1, <2>3, <2>4 DEF Typed
<1>10. Sensible
    <2>1. \A r \in Rank : ~Written(r) BY <1>5 DEF Written
    <2> QED BY <1>8, <2>1 DEF Sensible
<1>11. Few
    <2>1. Cardinality(lost) = 0 BY <1>1, FS_EmptySet
    <2>2. kills * PerKill \in Nat BY <1>9, Counts
    <2>3. Cardinality(lost) <= kills * PerKill BY <2>1, <2>2, SMT
    <2>4. rank[0].at # "meta" BY <1>5, RankZero
    <2> QED BY <1>8, <2>3, <2>4 DEF Few
<1>12. Structure
    BY <1>5 DEF Structure, Placed, Level, Together, Company
<1>13. Thetas
    <2> SUFFICES ASSUME NEW r \in Rank PROVE ThetaOK(r)
        BY DEF Thetas
    <2>1. 1 .. 0 = {} BY SMT
    <2>2. Drift(r) = {}
        <3>1. Phase(rank[r]) = {} BY <1>5, <2>1 DEF Phase
        <3> QED BY <3>1 DEF Drift
    <2>3. \A q \in OuterGroup(r) :
            /\ rank[q].theta = rank[r].theta
            /\ ({ReplicaOf(q)} \X (1 .. Folded(rank[q]))) \subseteq rank[r].theta \cup lost
        BY <1>5, <2>1, GroupCovers
    <2> QED BY <1>1, <1>5, <1>7, <2>2, <2>3 DEF ThetaOK
<1>14. EvenHanded
    <2>1. Even({}) /\ Even({Start}) BY SMT DEF Even, Start
    <2> QED BY <1>1, <1>5, <1>8, <2>1 DEF EvenHanded
<1>15. Aligned /\ Complete /\ JustSaved
    BY <1>5, <1>7 DEF Aligned, Same, Alike, Uncounted, Complete, Finished, JustSaved, Written
<1>16. Momenta
    <2>1. ASSUME NEW r \in Rank PROVE MomentumOK(r)
        <3>1. Belongs({}, {Start}) BY DEF Belongs
        <3>2. \A f \in Rank : disk.outer[f].total = 0 BY <1>8
        <3>3. 0 <= 0 * StepsPerEpoch /\ 0 <= 0 BY <1>4, SMT
        <3> QED BY <1>5, <1>7, <3>1, <3>2, <3>3 DEF MomentumOK
    <2>2. ~(disk.saved.epoch > 0) BY <1>8, SMT
    <2> QED BY <2>1, <2>2 DEF Momenta
<1> QED BY <1>6, <1>9, <1>10, <1>11, <1>12, <1>13, <1>14, <1>15, <1>16 DEF Inv

(* A step that changes nothing keeps the invariant.                        *)
LEMMA StutterPreserves ==
    ASSUME Inv, UNCHANGED vars PROVE Inv'
<1>1. UNCHANGED <<flags, rank, disk, kills, lost, torn>> BY DEF vars
<1>2. Typed' /\ AllOrNone' /\ Sensible' /\ Few'
    <2>1. Typed /\ AllOrNone /\ Sensible /\ Few BY DEF Inv
    <2>2. Typed' BY <1>1, <2>1 DEF Typed, flags
    <2>3. AllOrNone' BY <1>1, <2>1 DEF AllOrNone, Running
    <2>4. Sensible' BY <1>1, <2>1 DEF Sensible, Written
    <2>5. Few' BY <1>1, <2>1 DEF Few, Allowed, Running, Missing
    <2> QED BY <2>2, <2>3, <2>4, <2>5
<1>3. Running' <=> Running BY <1>1 DEF Running
<1>4. Running => Structure' /\ Thetas'
    <2> SUFFICES ASSUME Running PROVE Structure' /\ Thetas' OBVIOUS
    <2>1. Structure /\ Thetas BY DEF Inv
    <2>2. Placed' /\ Level' /\ Together'
        BY <1>1, <2>1 DEF Structure, Placed, Level, Together, Company, flags
    <2>3. Thetas' BY <1>1, <2>1 DEF Thetas, ThetaOK, Drift
    <2> QED BY <2>2, <2>3 DEF Structure
<1>5. Whole' => EvenHanded' /\ (Running => Aligned' /\ Complete' /\ JustSaved')
    <2> SUFFICES ASSUME Whole PROVE EvenHanded' /\ (Running => Aligned' /\ Complete' /\ JustSaved')
        BY <1>1 DEF Whole
    <2>1. EvenHanded /\ (Running => Aligned /\ Complete /\ JustSaved) BY DEF Inv
    <2>2. EvenHanded' BY <1>1, <1>3, <2>1 DEF EvenHanded, Even
    <2>3. Running => Aligned' BY <1>1, <2>1 DEF Aligned, Behind, Same, Alike, Pulled, Matched
    <2>4. Running => Complete' /\ JustSaved' BY <1>1, <2>1 DEF Complete, JustSaved, Written
    <2> QED BY <2>2, <2>3, <2>4
<1>6. Intact' => Momenta'
    BY <1>1, <1>3 DEF Inv, Momenta, MomentumOK, Filed, Intact
<1> QED BY <1>2, <1>3, <1>4, <1>5, <1>6 DEF Inv

(* The invariant holds in every behaviour.                                 *)
THEOREM DiLoCoInvariant == Spec => []Inv
<1>1. Init => Inv BY InitInv
<1>2. Inv /\ [Next]_vars => Inv'
    <2> SUFFICES ASSUME Inv, [Next]_vars PROVE Inv' OBVIOUS
    <2>1. CASE Resume BY <2>1, ResumePreserves
    <2>2. CASE Kill BY <2>2, KillPreserves
    <2>3. ASSUME NEW i \in 0 .. Replicas - 1, InnerStep(i) PROVE Inv'
        BY <2>3, InnerPreserves DEF Replica
    <2>4. ASSUME NEW slot \in 0 .. Slots - 1, OuterStep(slot) PROVE Inv'
        BY <2>4, OuterPreserves DEF Slot
    <2>5. CASE Clerical BY <2>5, ClericalPreserves
    <2>6. CASE UNCHANGED vars BY <2>6, StutterPreserves
    <2> QED BY <2>1, <2>2, <2>3, <2>4, <2>5, <2>6 DEF Next, Clerical
<1> QED BY <1>1, <1>2, PTL DEF Spec

-----------------------------------------------------------------------------
(* What follows from it.                                                   *)

(* Every record keeps its type: what is on disk, the place of every        *)
(* process in train_cifar.train, its counters and its parameters.          *)
THEOREM DiLoCoTypeCorrect == Spec => []DiLoCoTypeOK
<1>1. Inv => DiLoCoTypeOK
    <2> SUFFICES ASSUME Inv PROVE DiLoCoTypeOK OBVIOUS
    <2>1. Typed BY DEF Inv
    <2>2. lost \subseteq Trained BY <2>1, Sets DEF Typed
    <2>3. ASSUME NEW r \in Rank
          PROVE  /\ rank[r].at \in Place /\ rank[r].epoch \in 0 .. Epochs
                 /\ rank[r].step \in 0 .. StepsPerEpoch /\ rank[r].counter \in 0 .. InnerSteps
                 /\ rank[r].model \cup rank[r].theta \cup rank[r].stash \subseteq Trained
        <3>1. rank[r] \in ProcessT BY <2>1 DEF Typed
        <3> QED BY <3>1, Fields
    <2>4. disk.saved.model \subseteq Trained BY <2>1 DEF Typed, SavedT
    <2> QED BY <2>1, <2>2, <2>3, <2>4 DEF DiLoCoTypeOK, Typed
<1> QED BY <1>1, DiLoCoInvariant, PTL

(* "theta(t) is identical on every rank" (diloco.global_model): ranks that *)
(* have come equally far hold a shared model made of the same steps, and   *)
(* moved by the same momenta unless a resume gave them different ones.     *)
THEOREM SharedModelIsOne == Spec => []OneTheta
<1>1. Inv => OneTheta
    <2> SUFFICES ASSUME Inv, NEW q \in Rank, NEW r \in Rank, Running, Whole,
                        rank[q].at = rank[r].at
                 PROVE  /\ rank[q].theta = rank[r].theta
                        /\ Matched => rank[q].pulls = rank[r].pulls
        BY DEF OneTheta, Whole, Matched
    <2>1. Same(rank[q], rank[r]) \/ Behind(rank[q], rank[r]) \/ Behind(rank[r], rank[q])
        BY DEF Inv, Aligned
    <2> QED BY <2>1 DEF Same, Alike, Behind
<1> QED BY <1>1, DiLoCoInvariant, PTL

(* What checkpoint.py keeps is the shared model: a step of one replica is  *)
(* never in it without the same step of every other.                       *)
THEOREM CheckpointsHoldTheta == Spec => []CheckpointIsTheta
<1>1. Inv => CheckpointIsTheta
    BY DEF Inv, EvenHanded, Even, CheckpointIsTheta, Whole, Replica
<1> QED BY <1>1, DiLoCoInvariant, PTL

(* A run whose resume did not warn of foreign momentum (load_outer_state)  *)
(* has in its momentum exactly what is in its theta, though its ranks may  *)
(* have resumed with outer states of different saves.                      *)
THEOREM MomentumIsOfTheta == Spec => []MomentumBelongs
<1>1. Inv => MomentumBelongs
    <2> SUFFICES ASSUME Inv, NEW r \in Rank, Running, Intact, ~rank[r].told
                 PROVE  rank[r].momentum = rank[r].theta \ {<<0, 0>>}
        BY DEF MomentumBelongs, Intact
    <2>1. MomentumOK(r) BY DEF Inv, Momenta
    <2> QED BY <2>1 DEF MomentumOK, Belongs, Start
<1> QED BY <1>1, DiLoCoInvariant, PTL

(* A run that ends has folded in all inner steps of all replicas but those *)
(* its resumes lost, and a kill costs no more than InnerSteps - 1 steps of *)
(* each replica.                                                           *)
THEOREM WorkIsFolded == Spec => []AllWorkIsFolded
<1>1. Inv => AllWorkIsFolded
    <2> SUFFICES ASSUME Inv PROVE AllWorkIsFolded OBVIOUS
    <2>1. Typed /\ Few BY DEF Inv
    <2>2. ASSUME AllAt(Rank, {"exited"}), Whole, NEW r \in Rank
          PROVE  rank[r].model = {<<0, 0>>} \cup (StepsUntil(Epochs) \ lost)
        <3>1. \A x \in Rank : rank[x].at = "exited" BY <2>2 DEF AllAt
        <3>2. Running BY <3>1 DEF Running
        <3>3. Placed /\ Thetas /\ Complete BY <2>2, <3>2 DEF Inv, Structure
        <3>4. AfterTraining(rank[r])
            BY <3>1, <3>3 DEF Placed, InTrainer, Ended, InModel
        <3>5. /\ rank[r].model = rank[r].theta /\ Start \in rank[r].theta
              /\ rank[r].theta \subseteq {Start} \cup Steps /\ rank[r].theta \cap lost = {}
            BY <3>3, <3>4 DEF Thetas, ThetaOK
        <3>6. Steps \subseteq rank[r].theta \cup lost
            BY <3>3, <3>4 DEF Complete, Finished
        <3> QED BY <3>5, <3>6, Sets DEF Start
    <2>3. Cardinality(lost) <= kills * Replicas * (InnerSteps - 1)
        <3>1. kills * Replicas * (InnerSteps - 1) = kills * (Replicas * (InnerSteps - 1))
            <4>1. kills \in Nat /\ Replicas \in Nat /\ InnerSteps - 1 \in Nat
                BY <2>1, Counts, Bounds, SMT
            <4> DEFINE h == InnerSteps - 1
            <4> HIDE DEF h
            <4>2. kills * Replicas * h = kills * (Replicas * h) BY <4>1, SMT DEF h
            <4> QED BY <4>2 DEF h
        <3> QED BY <2>1, <3>1 DEF Few, PerKill
    <2> QED BY <2>2, <2>3 DEF AllWorkIsFolded, Whole
<1> QED BY <1>1, DiLoCoInvariant, PTL

(* Before the last epoch ends, a replica that trains or an outer group     *)
(* that is complete can go on.                                             *)
LEMMA TrainingGoesOn ==
    ASSUME Inv, Running, Whole, \A r \in Rank : rank[r].at \in {"batch", "outer", "reduce"},
           NEW z \in Rank, rank[z].at # "reduce"
    PROVE  \E r \in Rank : \/ \A q \in InnerGroup(r) : rank[q].at = "batch"
                           \/ \A q \in OuterGroup(r) : rank[q].at = "outer"
<1> USE Bounds
<1>1. Typed /\ Placed /\ Level /\ Aligned BY DEF Inv, Structure
<1> DEFINE e == Passed(rank[z])
           end == (e + 1) * StepsPerEpoch
<1>2. ASSUME NEW r \in Rank
      PROVE  /\ Done(rank[r]) \in Nat /\ rank[r].counter \in Nat
             /\ Folded(rank[r]) = Done(rank[r]) - rank[r].counter
             /\ InTrainer(rank[r])
             /\ rank[r].at = "outer" <=> rank[r].counter = InnerSteps
             /\ rank[r].counter <= InnerSteps
             /\ rank[r].at = "reduce" => Done(rank[r]) = end
             /\ Done(rank[r]) <= end
             /\ rank[r].at = "batch" => Done(rank[r]) < end
    <2>1. rank[r] \in ProcessT BY <1>1 DEF Typed
    <2>2. InTrainer(rank[r]) BY <1>1 DEF Placed, AfterTraining
    <2>3. Passed(rank[r]) = e BY <1>1 DEF Level
    <2>4. rank[r].epoch = e BY <2>3 DEF Passed, Ended, InModel
    <2>5. /\ Done(rank[r]) = e * StepsPerEpoch + rank[r].step /\ rank[r].step \in Nat
          /\ rank[r].step <= StepsPerEpoch
          /\ rank[r].at = "batch" => rank[r].step < StepsPerEpoch
        BY <2>1, <2>2, <2>4, Distance, Fields, SMT DEF InTrainer
    <2>6. e \in Nat /\ e * StepsPerEpoch \in Nat /\ end = e * StepsPerEpoch + StepsPerEpoch
        BY <2>1, <2>3, Distance, Times
    <2>7. Done(rank[r]) <= end /\ (rank[r].at = "batch" => Done(rank[r]) < end)
        <3> HIDE DEF e, end
        <3> QED BY <2>5, <2>6, SMT
    <2>8. rank[r].at = "reduce" => Done(rank[r]) = end BY <2>1, <2>2, <2>3, Distance
    <2> QED BY <2>1, <2>2, <2>7, <2>8, Distance DEF InTrainer
<1>3. \A q, r \in Rank : ReplicaOf(q) = ReplicaOf(r) => Done(rank[q]) = Done(rank[r])
    BY <1>1 DEF Level
<1>4. end \in Nat
    <2>1. rank[z] \in ProcessT BY <1>1 DEF Typed
    <2>2. e \in Nat BY <2>1, Distance
    <2> QED BY <2>2, Times
<1> HIDE DEF end, e
<1>5. CASE \A r \in Rank : rank[r].at # "outer"
    <2>1. ASSUME NEW q \in InnerGroup(z) PROVE rank[q].at = "batch"
        <3>1. q \in Rank /\ Done(rank[q]) = Done(rank[z]) BY <1>3, GroupCovers
        <3>2. Done(rank[z]) < end BY <1>2, <1>5
        <3>3. rank[q].at # "reduce" BY <1>2, <1>4, <3>1, <3>2, SMT
        <3> QED BY <1>5, <3>1, <3>3
    <2> QED BY <2>1
<1>6. ASSUME NEW r \in Rank, rank[r].at = "outer",
             NEW q \in OuterGroup(r), rank[q].at # "outer"
      PROVE  \A x \in InnerGroup(q) : rank[x].at = "batch"
    <2>1. q \in Rank /\ SlotOf(q) = SlotOf(r) BY GroupCovers
    <2>2. Folded(rank[q]) = Folded(rank[r]) BY <1>1, <2>1 DEF Aligned, Same
    <2>3. rank[r].counter = InnerSteps /\ rank[q].counter < InnerSteps
        BY <1>2, <1>6, <2>1, SMT
    <2>4. Done(rank[q]) < Done(rank[r]) BY <1>2, <2>1, <2>2, <2>3, SMT
    <2>5. ASSUME NEW x \in InnerGroup(q) PROVE rank[x].at = "batch"
        <3>1. x \in Rank /\ Done(rank[x]) = Done(rank[q]) BY <1>3, <2>1, GroupCovers
        <3>2. rank[x].at # "reduce" BY <1>2, <1>4, <2>1, <2>4, <3>1, SMT
        <3>3. rank[x].at # "outer"
            <4> SUFFICES ASSUME rank[x].at = "outer" PROVE FALSE OBVIOUS
            <4>1. rank[x].counter = InnerSteps BY <1>2, <3>1
            <4>2. Folded(rank[x]) # Folded(rank[r])
                BY <1>2, <2>1, <2>3, <2>4, <3>1, <4>1, SMT
            <4>3. Same(rank[x], rank[r]) BY <1>1, <1>6, <3>1 DEF Aligned, Behind
            <4> QED BY <4>2, <4>3 DEF Same
        <3> QED BY <3>1, <3>2, <3>3
    <2> QED BY <2>5
<1>7. CASE \E r \in Rank : rank[r].at = "outer"
    <2>1. PICK r \in Rank : rank[r].at = "outer" BY <1>7
    <2>2. CASE \A q \in OuterGroup(r) : rank[q].at = "outer" BY <2>2
    <2>3. CASE \E q \in OuterGroup(r) : rank[q].at # "outer" BY <1>6, <2>1, <2>3, GroupCovers
    <2> QED BY <2>2, <2>3
<1> QED BY <1>5, <1>7

(* "It must be reached by every rank the same number of times": until all  *)
(* have exited, some collective has everyone it waits for, or somebody is  *)
(* writing.  Neither replicas at different batches nor ranks that flush a  *)
(* last phase while others evaluate can hang the run.                      *)
THEOREM CollectivesAreMet == Spec => []NobodyWaitsAlone
<1>1. Inv => NobodyWaitsAlone
    <2> SUFFICES ASSUME Inv, Whole, Running, ~AllAt(Rank, {"exited"}),
                        \A r \in Rank : rank[r].at \notin {"meta", "state"},
                        sharded \/ rank[0].at # "save"
                 PROVE  \/ \E r \in Rank : AllAt(InnerGroup(r), {"batch"})
                                             \/ AllAt(OuterGroup(r), {"outer", "flush"})
                        \/ \E place \in {"reduce", "eval", "barrier", "shards", "cleanup"} :
                               AllAt(Rank, {place})
                        \/ sharded /\ AllAt(Rank, {"save"})
        BY DEF NobodyWaitsAlone, Whole
    <2> DEFINE Goal == \/ \E r \in Rank : AllAt(InnerGroup(r), {"batch"})
                                            \/ AllAt(OuterGroup(r), {"outer", "flush"})
                       \/ \E place \in {"reduce", "eval", "barrier", "shards", "cleanup"} :
                              AllAt(Rank, {place})
                       \/ sharded /\ AllAt(Rank, {"save"})
    <2>1. Typed /\ Placed /\ Level /\ Together /\ Aligned BY DEF Inv, Structure
    <2>2. ASSUME NEW r \in Rank, rank[r].at \in {"flush", "eval"} PROVE Goal
        <3>1. \A q \in Rank : rank[q].at \in {"flush", "eval"} BY <2>1, <2>2 DEF Together, Company
        <3>2. CASE \A q \in Rank : rank[q].at = "eval" BY <3>2 DEF AllAt
        <3>3. ASSUME NEW s \in Rank, rank[s].at = "flush" PROVE Goal
            <4>1. ASSUME NEW q \in OuterGroup(s), rank[q].at # "flush" PROVE FALSE
                <5>1. q \in Rank /\ SlotOf(q) = SlotOf(s) BY GroupCovers
                <5>2. rank[q].at = "eval" BY <3>1, <4>1, <5>1
                <5>3. rank[q] \in ProcessT /\ rank[s] \in ProcessT BY <2>1, <5>1 DEF Typed
                <5>4. InTrainer(rank[q]) /\ InTrainer(rank[s])
                    BY <2>1, <3>3, <5>1, <5>2 DEF Placed, AfterTraining
                <5>5. Passed(rank[q]) = rank[q].epoch + 1 /\ Passed(rank[s]) = rank[s].epoch + 1
                        /\ Passed(rank[q]) = Passed(rank[s])
                    BY <2>1, <3>3, <5>1, <5>2 DEF Level, Passed, Ended, InModel
                <5>6. IsLast(rank[s]) /\ rank[s].counter > 0 BY <3>3, <5>4 DEF InTrainer
                <5>7. IsLast(rank[q]) BY <5>5, <5>6 DEF IsLast
                <5>8. rank[q].counter = 0 BY <5>2, <5>4, <5>7 DEF InTrainer, InModel
                <5>9. rank[q].at \in Ended /\ rank[s].at \in Ended
                    BY <3>3, <5>2 DEF Ended, InModel
                <5>10. Done(rank[q]) = Done(rank[s])
                    BY <5>3, <5>4, <5>5, <5>9, Distance
                <5>11. Folded(rank[q]) = Folded(rank[s])
                    BY <2>1, <5>1 DEF Aligned, Same
                <5>12. /\ Done(rank[s]) \in Nat /\ rank[s].counter \in Nat
                       /\ Folded(rank[s]) = Done(rank[s]) - rank[s].counter
                       /\ Folded(rank[q]) = Done(rank[q]) - rank[q].counter
                    BY <5>3, Distance
                <5> QED BY <5>6, <5>8, <5>10, <5>11, <5>12, SMT
            <4> QED BY <4>1 DEF AllAt
        <3> QED BY <3>1, <3>2, <3>3
    <2>3. ASSUME NEW r \in Rank, rank[r].at = "shards" PROVE Goal
        BY <2>1, <2>3 DEF Together, Company, AllAt
    <2>4. ASSUME NEW r \in Rank, rank[r].at = "save" PROVE Goal
        <3>1. sharded /\ \A q \in Rank : rank[q].at = "save"
            BY <2>1, <2>4 DEF Together, Company
        <3> QED BY <3>1 DEF AllAt
    <2>5. ASSUME NEW r \in Rank, rank[r].at = "barrier" PROVE Goal
        <3>1. \A q \in Rank : rank[q].at = "barrier"
            BY <2>1, <2>5 DEF Together, Company
        <3> QED BY <3>1 DEF AllAt
    <2>6. \A r \in Rank : rank[r].at # "exited"
        BY <2>1 DEF Together, Company, AllAt
    <2>7. ASSUME NEW r \in Rank, rank[r].at = "cleanup",
                 \A q \in Rank : rank[q].at \in {"batch", "outer", "reduce", "cleanup"}
          PROVE  Goal
        <3>1. ASSUME NEW q \in Rank PROVE rank[q].at = "cleanup"
            <4> SUFFICES ASSUME rank[q].at # "cleanup" PROVE FALSE OBVIOUS
            <4>1. rank[q] \in ProcessT /\ rank[r] \in ProcessT BY <2>1 DEF Typed
            <4>2. AfterTraining(rank[r]) BY <2>1, <2>7 DEF Placed, InTrainer, Ended, InModel
            <4>3. InTrainer(rank[q]) BY <2>1, <2>6 DEF Placed, AfterTraining
            <4>4. Passed(rank[q]) = Epochs BY <2>1, <4>1, <4>2, Distance DEF Level
            <4>5. Passed(rank[q]) = rank[q].epoch BY <2>7 DEF Passed, Ended, InModel
            <4>6. rank[q].epoch < Epochs BY <4>3 DEF InTrainer
            <4> QED BY <4>4, <4>5, <4>6, Bounds, SMT
        <3> QED BY <3>1 DEF AllAt
    <2>8. ASSUME \A r \in Rank : rank[r].at \in {"batch", "outer", "reduce"} PROVE Goal
        <3>1. CASE \A r \in Rank : rank[r].at = "reduce" BY <3>1 DEF AllAt
        <3>2. CASE \E z \in Rank : rank[z].at # "reduce"
            BY <2>8, <3>2, TrainingGoesOn DEF AllAt
        <3> QED BY <3>1, <3>2
    <2>9. ASSUME NEW r \in Rank
          PROVE  rank[r].at \in {"batch", "outer", "reduce", "cleanup", "flush", "eval",
                                 "shards", "save", "barrier"}
        BY <2>1, <2>6 DEF Placed, InTrainer, AfterTraining, Ended, InModel
    <2> QED BY <2>2, <2>3, <2>4, <2>5, <2>7, <2>8, <2>9
<1> QED BY <1>1, DiLoCoInvariant, PTL

=============================================================================
