------------------------------ MODULE InlineOuter ------------------------------
(***************************************************************************)
(* The outer loop of central/strategy.py over the inline transport: the    *)
(* global model lives in memory, every merge is followed by a checkpoint   *)
(* in one of two tiers, and a restart adopts the newest checkpoint that is *)
(* finite.  With it runs the controller of the length H of a round: the    *)
(* schedule in the learning rate, times a multiplier that the Jensen gauge *)
(* moves after every evaluate phase.                                       *)
(*                                                                         *)
(* Of a model only whether it is finite is kept.  The multiplier and the   *)
(* gauge are integers, in thousandths, rounded where the code has floats.  *)
(***************************************************************************)
EXTENDS Integers, FiniteSets, FiniteSetsExt

CONSTANTS PersistEvery, KeepPersistent, KeepEphemeral,   \* the two tiers
          H0, QsrMax, QsrWarmup,    \* --qsr-h0, --qsr-max, --qsr-warmup-steps
          JensenLo, JensenHi,       \* the band, in thousandths
          JensenWarmup,             \* --jensen-warmup-rounds
          Rates,        \* learning rates a cluster may report
          Gaps,         \* readings of the gauge
          MaxAttempts,  \* bound: rounds of all the servers
          MaxReadings,  \* bound: readings of the gauge since a cold start
          MaxCrashes,   \* bound: deaths of the server
          Overflows,    \* bound: merges whose result is not finite
          WriteErrors   \* whether a checkpoint may fail to be written

ASSUME OuterAssumption ==
  /\ {PersistEvery, KeepPersistent, KeepEphemeral, H0, QsrMax} \subseteq Nat \ {0}
  /\ {QsrWarmup, JensenLo, JensenHi, JensenWarmup, MaxAttempts, MaxReadings, MaxCrashes,
      Overflows} \subseteq Nat
  /\ Rates \subseteq Nat \ {0} /\ Gaps \subseteq Int /\ IsFiniteSet(Gaps)
  /\ H0 <= QsrMax

VARIABLES at,       \* where Flower's driver is, or "down"
          global,   \* _global_fp32, _inline_round, _inline_global_step
          control,  \* _lr_last, _lr_ref, _h_multiplier, _jensen_ema, _gauge_rounds
          scored,   \* _last_local_eval: whether two clusters scored their endpoints
          store,    \* checkpoint_dir: a set of checkpoints
          past      \* ghost: counts for the bounds, and what went wrong so far

vars == <<at, global, control, scored, store, past>>

Weights == {"none", "finite", "poisoned"}
Tier == {"ephemeral", "persistent"}
Rate == Rates \cup {0}
Floor == Max({1, H0 \div 2})

Cold == [weights |-> "none", round |-> 0, step |-> 0]

NoControl == [last |-> 0, ref |-> 0, multiplier |-> 1000,
              gauged |-> FALSE, ema |-> 0, rounds |-> 0]
------------------------------------------------------------------------------
(* _next_inner_steps: quadratic in the rate, capped, and then multiplied.  *)
Clamp(lo, x, hi) == Min({hi, Max({lo, x})})

Scheduled(g, c) ==
  IF g.step >= QsrWarmup /\ c.last > 0 /\ c.ref > 0
  THEN (H0 * c.ref * c.ref) \div (c.last * c.last)
  ELSE H0

(* The cap applied last, over the multiplier. *)
NextInnerSteps_(g, c) ==
  Clamp(Floor, (Scheduled(g, c) * c.multiplier + 500) \div 1000, QsrMax)

NextInnerSteps(g, c) ==
  Clamp(Floor, (Min({Scheduled(g, c), QsrMax}) * c.multiplier + 500) \div 1000, QsrMax)

(* _observe_fit_results: the rate.                                         *)
Observed(c, rate) == [c EXCEPT !.last = rate, !.ref = Max({@, rate})]

(* _update_jensen: the average is kept of all readings, and acted upon     *)
(* after the warm-up: a cut on fracture, a rise when the replicas barely   *)
(* differ, a trim at the far end, and in the band a tenth of the way home. *)
Moved(m, ema) ==
  IF ema >= 0 THEN (m * 7) \div 10
  ELSE IF ema > -JensenLo THEN (m * 115) \div 100
  ELSE IF ema < -JensenHi THEN (m * 85) \div 100
  ELSE m + (1000 - m) \div 10

UpdateJensen(c, gap) ==
  LET ema == IF c.gauged THEN (c.ema + gap) \div 2 ELSE gap
      acts == c.rounds + 1 > JensenWarmup
  IN  [c EXCEPT !.gauged = TRUE, !.ema = ema, !.rounds = @ + 1,
                !.multiplier = IF acts THEN Clamp(500, Moved(@, ema), 2000) ELSE @]
------------------------------------------------------------------------------
(* The newest of both tiers together. *)
Pruned_(files, tier, keep) ==
  {f \in files : Cardinality({g \in files : g.round > f.round}) < keep}

(* _prune_checkpoints: of one tier the newest by name, that is by round.   *)
Pruned(files, tier, keep) ==
  {f \in files : f.tier = tier =>
     Cardinality({g \in files : g.tier = tier /\ g.round > f.round}) < keep}

TierOf(round) == IF round % PersistEvery = 0 THEN "persistent" ELSE "ephemeral"

Snapshot == [round |-> global.round, tier |-> TierOf(global.round),
             global |-> global, control |-> control]

(* A file of the same name is replaced.                                    *)
Checkpointed ==
  LET s == Snapshot
  IN  Pruned({f \in store : <<f.round, f.tier>> # <<s.round, s.tier>>} \cup {s}, s.tier,
             IF s.tier = "persistent" THEN KeepPersistent ELSE KeepEphemeral)

(* One looked for in the tier of rollbacks only. *)
Finite_ == {f \in store : f.global.weights = "finite" /\ f.tier = "persistent"}

(* resume_from_checkpoint: newest first, and the first that is finite.     *)
(* Each one opened on the way leaves its highest rate behind, and when     *)
(* none is finite the last one opened leaves its controller too.           *)
Finite == {f \in store : f.global.weights = "finite"}

Newest(files) == CHOOSE f \in files : \A g \in files : g.round <= f.round
Oldest(files) == CHOOSE f \in files : \A g \in files : g.round >= f.round

Opened == IF Finite = {} THEN store
          ELSE {f \in store : f.round >= Newest(Finite).round}

ResumedGlobal == IF Finite = {} THEN Cold ELSE Newest(Finite).global

ResumedControl ==
  IF store = {} THEN NoControl
  ELSE [Oldest(Opened).control EXCEPT !.ref = Max({f.control.ref : f \in Opened})]
------------------------------------------------------------------------------
(* configure_fit tells the clusters NextInnerSteps; on a cold start the    *)
(* first client's weights are adopted.                                     *)
ConfigureFit ==
  /\ at = "idle"
  /\ past.attempts < MaxAttempts
  /\ past' = [past EXCEPT !.attempts = @ + 1]
  /\ global' = [global EXCEPT !.weights = IF @ = "none" THEN "finite" ELSE @]
  /\ at' = "fitting"
  /\ UNCHANGED <<control, scored, store>>

(* aggregate_fit without a single result changes nothing.                  *)
NoResults ==
  /\ at = "fitting"
  /\ at' = "evaluating"
  /\ UNCHANGED <<global, control, scored, store, past>>

(* The replies are observed, but none of them can be merged: no tokens,    *)
(* not finite, or far out of proportion.                                   *)
NothingUsable ==
  /\ at = "fitting"
  /\ \E rate \in Rates : control' = Observed(control, rate)
  /\ scored' \in BOOLEAN
  /\ at' = "evaluating"
  /\ UNCHANGED <<global, store, past>>

(* _aggregate_inline: an overflow of the outer step poisons the model, and *)
(* what was merged into a poisoned model is poisoned.                      *)
AggregateInline ==
  /\ at = "fitting"
  /\ scored' \in BOOLEAN
  /\ \E rate \in Rates, w \in Weights \ {"none"} :
       /\ global.weights = "poisoned" => w = "poisoned"
       /\ global.weights = "finite" /\ w = "poisoned" => past.overflows < Overflows
       /\ control' = Observed(control, rate)
       /\ global' = [weights |-> w, round |-> global.round + 1, step |-> global.step + 1]
       /\ past' = IF w = global.weights THEN past
                  ELSE [past EXCEPT !.overflows = @ + 1, !.poisoned = global'.round]
  /\ at' = "merged"
  /\ UNCHANGED store

(* _checkpoint, which may find the disk full.                              *)
Checkpoint ==
  /\ at = "merged"
  /\ \/ store' = Checkpointed /\ UNCHANGED past
     \/ /\ WriteErrors
        /\ past' = [past EXCEPT !.missed = TRUE]
        /\ UNCHANGED store
  /\ at' = "evaluating"
  /\ UNCHANGED <<global, control, scored>>

(* aggregate_evaluate: the gauge is read when two clusters scored their    *)
(* own endpoints; a phase without a finite loss reads nothing.             *)
AggregateEvaluate ==
  /\ at = "evaluating"
  /\ \/ UNCHANGED control
     \/ /\ scored /\ control.rounds < MaxReadings
        /\ \E gap \in Gaps : control' = UpdateJensen(control, gap)
  /\ at' = "idle"
  /\ UNCHANGED <<global, scored, store, past>>

Crash ==
  /\ at # "down" /\ past.crashes < MaxCrashes
  /\ past' = [past EXCEPT !.crashes = @ + 1]
  /\ at' = "down"
  /\ UNCHANGED <<global, control, scored, store>>

Restart ==
  /\ at = "down"
  /\ at' = "idle"
  /\ global' = ResumedGlobal
  /\ control' = ResumedControl
  /\ scored' = FALSE
  /\ past' = [past EXCEPT !.rolledBack = @ \/ \E f \in store : f.round > global'.round,
                          !.poisoned = 0]
  /\ UNCHANGED store
------------------------------------------------------------------------------
Init ==
  /\ at = "idle"
  /\ global = Cold
  /\ control = NoControl
  /\ scored = FALSE
  /\ store = {}
  /\ past = [attempts |-> 0, crashes |-> 0, overflows |-> 0, poisoned |-> 0,
             missed |-> FALSE, rolledBack |-> FALSE]

Next == \/ ConfigureFit \/ NoResults \/ NothingUsable \/ AggregateInline
        \/ Checkpoint \/ AggregateEvaluate \/ Crash \/ Restart

Spec == Init /\ [][Next]_vars
------------------------------------------------------------------------------
Global  == [weights : Weights, round : 0 .. MaxAttempts, step : 0 .. MaxAttempts]
Control == [last : Rate, ref : Rate, multiplier : 500 .. 2000, gauged : BOOLEAN,
            ema : Min(Gaps \cup {0}) .. Max(Gaps \cup {0}), rounds : 0 .. MaxReadings]

(* The type of the state, and the ranges the controller promises: the      *)
(* multiplier within [0.5, 2], H between half its base and the cap.        *)
OuterTypeOK ==
  /\ at \in {"idle", "fitting", "merged", "evaluating", "down"}
  /\ global \in Global
  /\ control \in Control
  /\ scored \in BOOLEAN
  /\ NextInnerSteps(global, control) \in Min({Floor, QsrMax}) .. QsrMax
  /\ \A f \in store : /\ f.round = f.global.round /\ f.tier \in Tier
                      /\ f.global \in Global /\ f.control \in Control

(* "If the aggregator dies, the run resumes from a round or two ago": the  *)
(* merge that was checkpointed last is what a restart would adopt, as long *)
(* as no run was rolled back before and no write failed.                   *)
RecoversLastMerge ==
  at \in {"idle", "fitting", "evaluating"} /\ global.weights = "finite" /\ global.round > 0
    /\ ~past.rolledBack /\ ~past.missed
    => ResumedGlobal = global

(* "A coarse history you can roll back to after discovering that the model *)
(* went bad several rounds ago": a poisoned run still has a finite         *)
(* checkpoint while the persistent ones written since are fewer than kept. *)
RollbackReaches ==
  LET last == (past.poisoned - 1) - ((past.poisoned - 1) % PersistEvery) IN
  past.poisoned > 0 /\ last > 0 /\ global.round < last + KeepPersistent * PersistEvery
    /\ ~past.rolledBack /\ ~past.missed
    => Finite # {}

(* "The one guard that must always bite" (_next_inner_steps): with the      *)
(* other inputs unchanged, a reading of fracture shortens the next round,  *)
(* unless it is as short as it can be.  A multiplier that was above one    *)
(* when the schedule is at its cap has first to come down to one.          *)
FractureBites ==
  [][control'.rounds > control.rounds /\ control'.rounds > JensenWarmup /\ control'.ema >= 0
       => \/ NextInnerSteps(global, control') < NextInnerSteps(global, control)
          \/ NextInnerSteps(global, control) = Floor
          \/ control.multiplier = 500
          \/ control.multiplier > 1000]_vars
==============================================================================
