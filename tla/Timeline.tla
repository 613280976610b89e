------------------------------ MODULE Timeline ------------------------------
(***************************************************************************)
(* The campaign planner's simulator (src/src/pww/plan/timeline.py with the *)
(* round prices of rounds.py): a selection of submissions is expanded into *)
(* the productive windows of its jobs, and the federation is walked from   *)
(* round to round to the horizon or to the first budget that binds.        *)
(*                                                                         *)
(* One action is one turn of the loop of `simulate`.  A round is charged   *)
(* either one at a time or, where membership and H hold still, many at     *)
(* once by arithmetic; the two must be the same walk.                      *)
(*                                                                         *)
(* Times are whole units, so the float slop _EPS is 0, and a DARL block is *)
(* one sequence.  A Member is carried by its window.  Qualities, tokens    *)
(* (blocks * seq_len), warnings and the queued/startup columns are left    *)
(* out; the H schedule is the fixed one or a replayed trace.               *)
(***************************************************************************)
EXTENDS Integers, FiniteSets, FiniteSetsExt, Sequences, SequencesExt

CONSTANTS
    Horizon,     \* PlanConfig.horizon_s
    Overlap,     \* PlanConfig.chain_wait_overlap
    Lead,        \* PlanConfig.chain_lead_s
    Warm,        \* the sites whose lanes resume a checkpoint
    BalanceMax,  \* PlanConfig.balance_max
    Merge,       \* Calibration.merge: what a round costs beside its members
    Xfer,        \* Calibration.sites[.].xfer, by site
    Tau          \* Calibration.tau_stall_s

ASSUME TimelineAssumption ==
    /\ Horizon \in Nat \ {0} /\ Merge \in Nat \ {0} /\ BalanceMax \in Nat \ {0}
    /\ {Lead, Tau} \subseteq Nat /\ Overlap \in BOOLEAN

VARIABLES
    config,      \* what the run is planned against: corpus, attempts, H trace
    plan,        \* the selection being simulated, and whether it is balanced
    sim          \* the locals of `simulate`

timelineVars == <<config, plan, sim>>

Never == -1

-----------------------------------------------------------------------------
(* What a submission puts on the clock.                                    *)

\* How long after one link of a lane the next one begins.
Gap(o) ==
    LET eligible == o.wall - Lead
    IN IF o.chain = "singleton" THEN o.wall + o.wait
       ELSE IF Overlap THEN Max({eligible, o.wait}) ELSE eligible + o.wait

\* The productive spans of an option's jobs, clipped to the horizon; only the
\* first link of a lane that has no checkpoint starts cold.
OptionWindows(o) ==
    LET links == IF o.chain = "none" THEN 1 ELSE o.links
        Arrival(i) == o.begin + o.wait + i * Gap(o)
        Window(l, i) ==
            [lane |-> <<o.site, l>>, site |-> o.site, gpus |-> o.gpus,
             step |-> o.step, batch |-> o.batch, overhead |-> o.overhead,
             start |-> Min({Arrival(i) + o.startup, Horizon}),
             end |-> Min({Arrival(i) + o.wall, Horizon}),
             cold |-> i = 0 /\ o.site \notin Warm]
    IN {w \in {Window(l, i) : l \in 1..o.lanes, i \in 0..(links - 1)} :
            w.end > w.start}

\* What `simulate` is called with, its windows worked out.
PlanOf(sel, balance) ==
    [sel |-> sel, balance |-> balance,
     windows |-> UNION {OptionWindows(o) : o \in sel}]

Windows == plan.windows

Starts == {w.start : w \in Windows}

-----------------------------------------------------------------------------
(* What a round costs.                                                     *)

\* PWW_GRAD_ACCUM of a lane, fixed for the life of its job by the whole
\* planned membership and not by who is present.
Accum(w) ==
    IF ~plan.balance \/ Cardinality({v.lane : v \in Windows}) < 2
    THEN 1
    ELSE LET slowest == Max({v.step : v \in Windows})
         IN Min({BalanceMax,
                 Max({1, (2 * slowest + w.step) \div (2 * w.step)})})

\* The barrier is the slowest member's phase; overheads add up, and a lane
\* that only evaluates pays no transport.
Period(fit, late, stall, h) ==
    h * Max({Accum(w) * w.step : w \in fit}) + stall + Merge
      + MapThenSumSet(LAMBDA w : w.overhead, fit)
      + MapThenSumSet(LAMBDA w : w.overhead - Xfer[w.site], late)

Blocks(fit, h) == h * MapThenSumSet(LAMBDA w : Accum(w) * w.batch, fit)

Federated(fit) == Cardinality({w.site : w \in fit}) >= 2

-----------------------------------------------------------------------------
(* The walk.  s is a value of sim.                                         *)

Constant == Len(config.trace) = 1

NextH(s) == config.trace[Min({s.drawn + 1, Len(config.trace)})]

Live(s) == {w \in Windows : w.start <= s.t /\ s.t < w.end}

\* A departure test that forgets the overhead of the round (mutant).
Fit_(s) ==
    LET h == NextH(s)
    IN {w \in Live(s) : w.end >= s.t + h * Accum(w) * w.step}

\* The departure fixpoint: everyone who would not see the round close forfeits
\* it, all at once, and the round is priced again without them.
Fit(s) ==
    LET Survivors(fit, i) ==
            {w \in fit : w.end >= s.t + Period(fit, {}, 0, NextH(s))}
    IN FoldLeft(Survivors, Live(s),
                [i \in 1..Cardinality(Live(s)) |-> i])

\* A fast path that runs through the joins (mutant).
StableUntil_(s) == Min({w.end : w \in Fit(s)} \cup {Horizon})

\* Until when nobody leaves and nobody joins.
StableUntil(s) ==
    Min({w.end : w \in Fit(s)} \cup {b \in Starts : b > s.t} \cup {Horizon})

Running(s) == s.running /\ s.t < Horizon /\ s.attempts > 0 /\ s.left > 0

\* Charge n rounds alike to those who fit them.
Charge(s, n, fit, late, stall) ==
    LET h == NextH(s)
        period == Period(fit, late, stall, h)
        Charged(k) == [start |-> s.t + (k - 1) * period, period |-> period,
                       fit |-> fit, late |-> late, h |-> h]
    IN [s EXCEPT !.t = @ + n * period,
                 !.left = @ - n * Blocks(fit, h),
                 !.attempts = @ - n,
                 !.drawn = IF Constant THEN @ ELSE @ + n,
                 !.rounds = @ \o [k \in 1..n |-> Charged(k)]]

\* The fast path: the rounds until something changes, by arithmetic.
FastRounds(s) ==
    LET fit == Fit(s)
        nTime == (StableUntil(s) - s.t) \div Period(fit, {}, 0, NextH(s))
        nBlocks == s.left \div Blocks(fit, NextH(s))
        n == Min({nTime, nBlocks, s.attempts})
        c == Charge(s, n, fit, {}, 0)
    IN IF n = nTime
       THEN c
       ELSE [c EXCEPT !.running = FALSE,
                      !.dry = IF n = nBlocks /\ @ = Never THEN c.t ELSE @]

FastApplies(s) ==
    Constant /\ s.t + Period(Fit(s), {}, 0, NextH(s)) <= StableUntil(s)

\* The slow path: one round, lengthened by the lanes that join while it runs
\* and by the stall of a lane that joins cold for the first time.
SlowRound(s) ==
    LET fit == Fit(s)
        Stall(late) == IF \E w \in late : w.cold /\ w.lane \notin s.charged
                       THEN Tau ELSE 0
        Until(late) == s.t + Period(fit, late, Stall(late), NextH(s))
        Grown(late, i) ==
            {w \in Windows : s.t < w.start /\ w.start < Until(late)}
        late == FoldLeft(Grown, Grown({}, 0),
                         [i \in 1..Cardinality(Windows) |-> i])
    IN IF Blocks(fit, NextH(s)) > s.left
       THEN [s EXCEPT !.running = FALSE, !.dry = IF @ = Never THEN s.t ELSE @]
       ELSE [Charge(s, 1, fit, late, Stall(late)) EXCEPT
                !.charged = @ \cup {w.lane : w \in {v \in late : v.cold}}]

-----------------------------------------------------------------------------
(* The turns of the loop.                                                  *)

Fresh(c) ==
    [t |-> 0, left |-> c.blocks, attempts |-> c.attempts, drawn |-> 0,
     charged |-> {}, rounds |-> <<>>, dry |-> Never, running |-> TRUE]

\* Nobody is live: on to the next window, or out of the loop.
Idle ==
    /\ Running(sim)
    /\ Live(sim) = {}
    /\ LET ahead == {b \in Starts : b > sim.t}
       IN sim' = IF ahead = {} THEN [sim EXCEPT !.running = FALSE]
                 ELSE [sim EXCEPT !.t = Min(ahead)]
    /\ UNCHANGED <<config, plan>>

\* Nobody who is live would see a round close.
Forfeit ==
    /\ Running(sim)
    /\ Live(sim) # {} /\ Fit(sim) = {}
    /\ sim' = [sim EXCEPT !.t = Min({w.end : w \in Live(sim)} \cup {Horizon}),
                          !.drawn = IF Constant THEN @ ELSE @ + 1]
    /\ UNCHANGED <<config, plan>>

Fast ==
    /\ Running(sim)
    /\ Fit(sim) # {} /\ FastApplies(sim)
    /\ sim' = FastRounds(sim)
    /\ UNCHANGED <<config, plan>>

Slow ==
    /\ Running(sim)
    /\ Fit(sim) # {} /\ ~FastApplies(sim)
    /\ sim' = SlowRound(sim)
    /\ UNCHANGED <<config, plan>>

Simulate == Idle \/ Forfeit \/ Fast \/ Slow

\* When the corpus ran out, if it did.
DryAt(s) == IF s.dry = Never /\ s.left <= 0 THEN s.t ELSE s.dry

FederatedMerges(s) == Cardinality({i \in DOMAIN s.rounds : Federated(s.rounds[i].fit)})

SoloMerges(s) == Len(s.rounds) - FederatedMerges(s)

-----------------------------------------------------------------------------
(* The hour accounting of a finished walk.                                 *)

RunEnd(s) == Min({s.t, Horizon})

\* The elements of S in a total order, given as "is before".
InOrder(S, Before(_, _)) ==
    [i \in 1..Cardinality(S) |->
        CHOOSE x \in S : Cardinality({y \in S : Before(y, x)}) = i - 1]

\* Spans joined where they touch or overlap, in order.
MergeSpans(spans) ==
    LET Earlier(a, b) == a[1] < b[1] \/ (a[1] = b[1] /\ a[2] < b[2])
        Joined(out, x) ==
            IF x[2] <= x[1] THEN out
            ELSE IF out # <<>> /\ x[1] <= Last(out)[2]
            THEN Append(Front(out), <<Last(out)[1], Max({Last(out)[2], x[2]})>>)
            ELSE Append(out, x)
    IN FoldLeft(Joined, <<>>, InOrder(spans, Earlier))

\* How much of the spans lies between lo and hi.
Within(spans, lo, hi) ==
    LET Part(x) == Max({0, Min({x[2], hi}) - Max({x[1], lo})})
    IN FoldLeft(LAMBDA n, x : n + Part(x), 0, spans)

PlannedSites == {w.site : w \in Windows}

LiveSpans(site, s) ==
    MergeSpans({<<w.start, Min({w.end, RunEnd(s)})>> :
                    w \in {v \in Windows : v.site = site}})

\* When two sites or more are live: between neighbouring edges of the spans.
Coresidency(s) ==
    LET spans == [site \in PlannedSites |-> ToSet(LiveSpans(site, s))]
        edges == UNION {{x[1], x[2]} : x \in UNION Range(spans)}
        Both(lo) == Cardinality({site \in PlannedSites :
                        \E x \in spans[site] : x[1] <= lo /\ lo < x[2]}) >= 2
        Next(lo) == Min({e \in edges : e > lo})
    IN MergeSpans({<<lo, Next(lo)>> :
                    lo \in {e \in edges : e < Max(edges) /\ Both(e)}})

\* A split that leaves the tail among the hours between (mutant).
Split_(site, s) ==
    LET spans == LiveSpans(site, s)
        fed == Coresidency(s)
        total == FoldLeft(LAMBDA n, x : n + x[2] - x[1], 0, spans)
        head == IF fed = <<>> THEN total ELSE Within(spans, 0, Head(fed)[1])
        tail == IF fed = <<>> THEN 0 ELSE Within(spans, Last(fed)[2], RunEnd(s))
        both == FoldLeft(LAMBDA n, x : n + Within(spans, x[1], x[2]), 0, fed)
    IN [headstart |-> head, coresident |-> both, tail |-> tail,
        between |-> Max({0, total - head - both})]

\* A site's presence, split around the co-residency.
Split(site, s) ==
    LET spans == LiveSpans(site, s)
        fed == Coresidency(s)
        total == FoldLeft(LAMBDA n, x : n + x[2] - x[1], 0, spans)
        head == IF fed = <<>> THEN total ELSE Within(spans, 0, Head(fed)[1])
        tail == IF fed = <<>> THEN 0 ELSE Within(spans, Last(fed)[2], RunEnd(s))
        both == FoldLeft(LAMBDA n, x : n + Within(spans, x[1], x[2]), 0, fed)
    IN [headstart |-> head, coresident |-> both, tail |-> tail,
        between |-> Max({0, total - head - both - tail})]

-----------------------------------------------------------------------------
(* What must hold of the walk.                                             *)

\* Charging n rounds by arithmetic is charging them one at a time: the fast
\* path is an optimisation of the loop and not a second simulator ("the round
\* count is arithmetic rather than a loop").  Only said of a round that every
\* live lane fits; see README for the one that some lane forfeits.
FastIsStepping ==
    [][Fast /\ Fit(sim) = Live(sim) =>
        LET n == Len(sim'.rounds) - Len(sim.rounds)
            stepped == FoldLeft(LAMBDA s, i : SlowRound(s), sim,
                                [i \in 1..n |-> i])
            Walk(s) == <<s.t, s.left, s.attempts, s.charged, s.rounds>>
        IN /\ Walk(stepped) = Walk(sim')
           /\ Running(stepped) /\ ~sim'.running =>
                ~SlowRound(stepped).running]_timelineVars

\* Whoever is credited with a round is there from its first instant to its
\* last, so no merge is counted that a dying job could not have reported, and
\* no lane is in two rounds at once.  A lane that joins lengthens the round
\* after the departures were settled, so such a round is excepted; README.
CreditedAreAlive ==
    \A i \in DOMAIN sim.rounds :
        LET r == sim.rounds[i]
            close == r.start + r.period
        IN /\ \A w \in r.fit : w.start <= r.start
                              /\ (r.late = {} => close <= w.end)
           /\ \A w \in r.late : r.start < w.start /\ w.start < close
           /\ \A j \in DOMAIN sim.rounds : j > i => close <= sim.rounds[j].start

\* The four columns of a site's presence are what they are named for, counted
\* instant by instant: before the first co-residency, in one, after the last,
\* and the solo hours in between.
SplitIsExact ==
    ~Running(sim) =>
        LET Here(site, x) == \E w \in Windows :
                w.site = site /\ w.start <= x /\ x < Min({w.end, RunEnd(sim)})
            clock == 0..Horizon
            shared == {x \in clock :
                        Cardinality({v \in PlannedSites : Here(v, x)}) >= 2}
        IN \A site \in PlannedSites :
            LET mine == {x \in clock : Here(site, x)}
                early == {x \in mine : \A y \in shared : x < y}
                late == {x \in mine : \A y \in shared : x > y} \ early
                both == mine \cap shared
            IN Split(site, sim) =
                [headstart |-> Cardinality(early),
                 coresident |-> Cardinality(both),
                 tail |-> Cardinality(late),
                 between |-> Cardinality(mine \ (early \cup late \cup both))]

=============================================================================
