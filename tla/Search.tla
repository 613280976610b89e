------------------------------- MODULE Search -------------------------------
(***************************************************************************)
(* The campaign planner's search (src/src/pww/plan/search.py): the shapes  *)
(* each site has a probe for are admitted or not, the admitted ones become *)
(* the options the site could submit, every selection of them is simulated *)
(* by Timeline; then the exact optimum, the greedy that runs beside it,    *)
(* the envelope of the evaluated plans over the exchange rate alpha, and   *)
(* what the plan says of its own robustness: alpha*, the rows of the alpha *)
(* sensitivity and the ledger of what each site is worth.                  *)
(*                                                                         *)
(* beta is 0 (its default), no plan is unrankable for its overhead's       *)
(* quality, and the instance is one that is enumerated (max_exact_plans).  *)
(* Rates are pairs <<num, den>>, compared and multiplied out.              *)
(***************************************************************************)
EXTENDS Timeline

CONSTANTS
    Sites,
    Shapes,        \* by site, the shapes and what was probed of each
    Submitter,     \* by site, the account that submits
    Geometry,      \* [step, batch] by <<site, gpus>>, where it was measured
    EvalFix,       \* Calibration.sites[.].eval_fix, where it is calibrated
    EvalWindows,   \* Calibration.val_windows over the speedup of a forward
    Startup,       \* by site
    MaxProbeAge,   \* PlanConfig.max_probe_age_s
    UserGrid,      \* PlanConfig.begin_grid_s
    LanesMax,      \* PlanConfig.lanes_max
    MaxLinks,      \* PlanConfig.max_links_per_lane
    ChainPolicies, \* PlanConfig.chain_policies
    NoProbe, NoEval

VARIABLES
    evaluated,     \* _Evaluator.cache: a selection to what it scored
    off,           \* the unbalanced walk, while the balanced one is simulated
    stage,         \* "enumerate", "grow", "exchange" or "done"
    best,          \* _greedy's best selection, in the order it was grown
    scan           \* where the 2-exchange is in its pass

searchVars == <<config, plan, sim, evaluated, off, stage, best, scan>>

-----------------------------------------------------------------------------
(* Admission.                                                              *)

\* admit: a wait that was read, lately and as the account that submits; a
\* throughput that was measured; a calibrated overhead; a job that outlives
\* its startup.  Nothing is interpolated for what is missing.
Admissible(site, s) ==
    /\ s.probe # NoProbe
    /\ s.probe.ok /\ s.probe.age <= MaxProbeAge /\ s.probe.by = Submitter[site]
    /\ <<site, s.gpus>> \in DOMAIN Geometry
    /\ site \in DOMAIN EvalFix
    /\ s.wall > Startup[site]

\* site_overhead_s: the transport and the evaluation.
OverheadOf(site, g) ==
    Xfer[site] + EvalFix[site] + (EvalWindows * g.step) \div g.batch

Candidate(site, s) ==
    LET g == Geometry[<<site, s.gpus>>]
    IN [site |-> site, gpus |-> s.gpus, step |-> g.step, batch |-> g.batch,
        overhead |-> OverheadOf(site, g), startup |-> Startup[site],
        wait |-> s.probe.wait, wall |-> s.wall]

Candidates == [site \in Sites |->
    {Candidate(site, s) : s \in {x \in Shapes[site] : Admissible(site, x)}}]

-----------------------------------------------------------------------------
(* The options of a site.                                                  *)

LinksToCover(c, begin) ==
    LET span == Min({Horizon - begin - c.wait, Horizon})
    IN IF span <= 0 THEN 1
       ELSE Min({MaxLinks, (span + c.wall - 1) \div c.wall})

\* Now, and whenever a candidate of another site would become productive.
BeginGrid(site) ==
    LET others == UNION {Candidates[v] : v \in Sites \ {site}}
    IN {b \in {0} \cup {c.wait + c.startup : c \in others} \cup UserGrid :
            b < Horizon}

AllOptions(site) ==
    LET As(c, begin, lanes, chain) ==
            c @@ [begin |-> begin, lanes |-> lanes, chain |-> chain,
                  links |-> IF chain = "none" THEN 1
                            ELSE LinksToCover(c, begin)]
    IN {o \in {As(c, b, l, p) : c \in Candidates[site], b \in BeginGrid(site),
                                l \in 1..LanesMax, p \in ChainPolicies} :
            o.chain = "none" \/ o.links > 1}

Jobs(o) == o.lanes * o.links

\* The presence of a lane's first job alone (mutant).
Presence_(o) ==
    LET ws == OptionWindows(o)
    IN {<<w.start, w.end>> : w \in {v \in ws : \A u \in ws : v.start <= u.start}}

\* The key of a duplicate: the same hardware at the same instants.
Presence(o) ==
    {<<w.start, w.end>> : w \in OptionWindows(o)}

SamePlan(o, p) ==
    /\ o.gpus = p.gpus /\ o.batch = p.batch /\ o.lanes = p.lanes
    /\ Presence(o) = Presence(p)

\* Of the options that are the same plan, the one that submits fewest jobs.
Options == [site \in Sites |->
    LET all == AllOptions(site)
        Kept(o) == CHOOSE p \in {q \in all : SamePlan(o, q)} :
                       \A q \in all : SamePlan(o, q) => Jobs(p) <= Jobs(q)
    IN {Kept(o) : o \in all}]

\* At most one option for each site.
SelectionsOf(options) ==
    LET choices == {{}} \cup {{o} : o \in UNION Range(options)}
    IN {UNION Range(f) : f \in {g \in [Sites -> choices] :
            \A site \in Sites : g[site] \subseteq options[site]}}

Selections == SelectionsOf([site \in Sites |-> AllOptions(site)])

Kept == SelectionsOf(Options)

-----------------------------------------------------------------------------
(* What a simulated selection is worth.                                    *)

\* Two sites were planned and never merged: for the corpus, or for the clock.
TrapOf(sel, s) ==
    LET Productive(o) == o.begin + o.wait + o.startup
        late == Max({Productive(o) : o \in sel})
    IN IF Cardinality(sel) < 2 \/ FederatedMerges(s) > 0 THEN "none"
       ELSE IF DryAt(s) # Never /\ DryAt(s) <= late THEN "corpus"
       ELSE "no overlap"

EvalOf(sel, s, balance) ==
    [fed |-> FederatedMerges(s), solo |-> SoloMerges(s),
     tokens |-> config.blocks - s.left, trap |-> TrapOf(sel, s),
     balance |-> balance, jobs |-> MapThenSumSet(Jobs, sel),
     begins |-> MapThenSumSet(LAMBDA o : o.begin, sel)]

\* U at alpha = a, times a's denominator.
Worth(e, a) == a[2] * e.fed + a[1] * e.solo

Utility(e) ==
    IF config.objective = "tokens" THEN e.tokens ELSE Worth(e, config.alpha)

\* _rank_key: trapped plans below all others, then U, then fewer jobs, sooner.
RankKey(e, utility) ==
    <<IF e.trap = "none" THEN 1 ELSE 0, utility, -e.jobs, -e.begins>>

Key(e) == RankKey(e, Utility(e))

Higher(k, l) ==
    \E i \in 1..4 : k[i] > l[i] /\ \A j \in 1..(i - 1) : k[j] = l[j]

Above(e, f) == Higher(Key(e), Key(f))

EvalOfSeq(sel) == evaluated[ToSet(sel)]

\* Accumulation is a no-op unless two lanes step at different speeds.
BalanceMatters(sel) ==
    /\ MapThenSumSet(LAMBDA o : o.lanes, sel) >= 2
    /\ Cardinality({o.step : o \in sel}) > 1

\* Which budget binds decides: balance only when no corpus runs dry by it.
AutoBalance(without, with) ==
    /\ DryAt(without) = Never /\ DryAt(with) = Never
    /\ with.left < without.left

-----------------------------------------------------------------------------
(* Enumeration: every selection is simulated, balanced or not.             *)

Simulated(sel, balance) ==
    /\ plan' = PlanOf(sel, balance)
    /\ sim' = Fresh(config)

Turn ==
    /\ stage = "enumerate"
    /\ Simulate
    /\ UNCHANGED <<evaluated, off, stage, best, scan>>

\* 'auto' simulates both and keeps the better.
TryBalanced ==
    /\ stage = "enumerate" /\ ~Running(sim)
    /\ config.balance = "auto" /\ BalanceMatters(plan.sel) /\ off = NoEval
    /\ off' = sim
    /\ Simulated(plan.sel, TRUE)
    /\ UNCHANGED <<config, evaluated, stage, best, scan>>

Record ==
    LET sel == plan.sel
        balanced == IF off = NoEval THEN plan.balance ELSE AutoBalance(off, sim)
        walk == IF off # NoEval /\ ~balanced THEN off ELSE sim
        now == evaluated @@ (sel :> EvalOf(sel, walk, balanced))
        left == Selections \ DOMAIN now
    IN /\ stage = "enumerate" /\ ~Running(sim)
       /\ config.balance = "auto" /\ BalanceMatters(sel) => off # NoEval
       /\ evaluated' = now
       /\ off' = NoEval
       /\ IF left # {}
          THEN /\ Simulated(CHOOSE x \in left : TRUE, config.balance = "on")
               /\ UNCHANGED stage
          ELSE stage' = "grow" /\ UNCHANGED <<plan, sim>>
       /\ UNCHANGED <<config, best, scan>>

-----------------------------------------------------------------------------
(* The greedy.                                                             *)

\* The first option, in order, that is above all before it.
BestSwap(sel, i) ==
    LET Better(o, s) == IF Above(EvalOfSeq([s EXCEPT ![i] = o]), EvalOfSeq(s))
                        THEN [s EXCEPT ![i] = o] ELSE s
    IN FoldSet(Better, sel, Options[sel[i].site])

\* _reoptimise: every member's option once, the membership held fixed.
Reoptimised(sel) ==
    FoldLeft(BestSwap, sel, [i \in 1..Len(sel) |-> i])

Extensions ==
    {Append(best, o) : o \in UNION {Options[v] : v \in
        {v \in Sites : \A i \in DOMAIN best : best[i].site # v}}}

\* Add the option that is worth most, then reoptimise; until none is.
Grow ==
    LET worth == {x \in Extensions : Above(EvalOfSeq(x), EvalOfSeq(best))}
    IN /\ stage = "grow"
       /\ IF worth = {}
          THEN /\ stage' = "exchange"
               /\ UNCHANGED best
          ELSE \E x \in worth :
               /\ \A y \in worth : ~Above(EvalOfSeq(y), EvalOfSeq(x))
               /\ best' = Reoptimised(x)
               /\ UNCHANGED stage
       /\ UNCHANGED <<config, plan, sim, evaluated, off, scan>>

\* One swap of a pass over the selection the pass began with.
Exchange ==
    /\ stage = "exchange" /\ scan.at <= Len(best)
    /\ LET swapped == BestSwap(best, scan.at)
       IN /\ best' = swapped
          /\ scan' = [at |-> scan.at + 1, improved |-> scan.improved \/ swapped # best]
    /\ UNCHANGED <<config, plan, sim, evaluated, off, stage>>

\* Another pass when this one improved anything.
EndOfPass ==
    /\ stage = "exchange" /\ scan.at > Len(best)
    /\ scan' = [at |-> 1, improved |-> FALSE]
    /\ stage' = IF scan.improved THEN stage ELSE "done"
    /\ UNCHANGED <<config, plan, sim, evaluated, off, best>>

SearchInit(configs) ==
    /\ config \in configs
    /\ plan = PlanOf({}, FALSE)
    /\ sim = Fresh(config)
    /\ evaluated = <<>>
    /\ off = NoEval
    /\ stage = "enumerate"
    /\ best = <<>>
    /\ scan = [at |-> 1, improved |-> FALSE]

SearchNext ==
    Turn \/ TryBalanced \/ Record \/ Grow \/ Exchange \/ EndOfPass

-----------------------------------------------------------------------------
(* The exact optimum, and where it changes with alpha.                     *)

\* Of the selections that have a key the ones with the highest.
Best(keys) ==
    {x \in DOMAIN keys : \A y \in DOMAIN keys : ~Higher(keys[y], keys[x])}

\* _exact: of the kept selections.
Winners == Best([x \in Kept |-> Key(evaluated[x])])

\* sensitivity: the same plans, ranked at another alpha.
Row(a) == Best([x \in Kept |-> RankKey(evaluated[x], Worth(evaluated[x], a))])

\* The plans that could be recommended, and what they are worth.
Rankable == {e \in {evaluated[x] : x \in Kept} : e.trap = "none"}

Ranked == {<<e.solo, e.fed>> : e \in Rankable}

\* The best fed of each solo.
Points == {p \in Ranked : \A q \in Ranked : q[1] = p[1] => q[2] <= p[2]}

\* The concavity test with its sign reversed: a lower hull (mutant).
Sunk_(p1, p2, p) ==
    (p2[2] - p1[2]) * (p[1] - p1[1]) >= (p[2] - p1[2]) * (p2[1] - p1[1])

\* p2 is on or below the chord from p1 to p.
Sunk(p1, p2, p) ==
    (p2[2] - p1[2]) * (p[1] - p1[1]) <= (p[2] - p1[2]) * (p2[1] - p1[1])

\* The upper hull, left to right: what the new point leaves sunk is popped.
Hull(points) ==
    LET Firm(hull, p) ==
            Max({k \in 0..Len(hull) : k < 2 \/ ~Sunk(hull[k - 1], hull[k], p)})
        Push(hull, p) == Append(SubSeq(hull, 1, Firm(hull, p)), p)
    IN FoldLeft(Push, <<>>, InOrder(points, LAMBDA p, q : p[1] < q[1]))

\* A hull from its peak, the point that wins at alpha = 0.
FromPeak(hull) ==
    LET Peak(i) == \A j \in DOMAIN hull :
            \/ hull[j][2] < hull[i][2]
            \/ hull[j][2] = hull[i][2] /\ hull[j][1] <= hull[i][1]
    IN SubSeq(hull, CHOOSE i \in DOMAIN hull : Peak(i), Len(hull))

\* Each point with the alpha, as a fraction, at which it begins to win.
Labelled(winners) ==
    LET From(i) == IF i = 1 THEN <<0, 1>>
                   ELSE <<winners[i - 1][2] - winners[i][2],
                          winners[i][1] - winners[i - 1][1]>>
    IN [i \in DOMAIN winners |-> [point |-> winners[i], from |-> From(i)]]

\* alpha_breakpoints
Breakpoints ==
    IF Points = {} THEN <<>> ELSE Labelled(FromPeak(Hull(Points)))

LessEq(a, b) == a[1] * b[2] <= b[1] * a[2]

\* How far apart two rates are.
Apart(a, b) ==
    LET d == a[1] * b[2] - b[1] * a[2]
    IN <<Max({d, -d}), a[2] * b[2]>>

Nearest(rates) ==
    {a \in rates : \A b \in rates :
        LessEq(Apart(a, config.alpha), Apart(b, config.alpha))}

\* The segment of the envelope that alpha is in.
Segment(breaks) ==
    Max({1} \cup {i \in DOMAIN breaks : LessEq(breaks[i].from, config.alpha)})

\* Only where the winner's own segment begins (mutant).
Boundaries_(breaks) ==
    {breaks[i].from : i \in {Segment(breaks)} \ {1}}

\* The boundaries of the winner's own segment; the first has none below it.
Boundaries(breaks) ==
    LET here == Segment(breaks)
    IN {breaks[i].from : i \in DOMAIN breaks \cap
            ({here + 1} \cup IF here > 1 THEN {here} ELSE {})}

\* alpha_star: the nearest of them, if there is one.
AlphaStar == Nearest(Boundaries(Breakpoints))

MostUseful(trials) ==
    {x \in trials : \A y \in trials :
        Utility(evaluated[y]) <= Utility(evaluated[x])}

\* marginal_ledger: what the winner w is compared with for a site, itself
\* without the site, or the best of its options added and all reoptimised.
Alternatives(w, site) ==
    IF \E o \in w : o.site = site
    THEN {{o \in w : o.site # site}}
    ELSE LET Added(o) == ToSet(Reoptimised(Append(SetToSeq(w), o)))
         IN MostUseful({Added(o) : o \in Options[site]})

\* _flip_alpha: the rate, not negative, at which two plans are worth the same.
Flip(e, f) ==
    LET solo == e.solo - f.solo
        fed == e.fed - f.fed
    IN IF solo = 0 \/ (solo > 0 /\ fed > 0) \/ (solo < 0 /\ fed < 0) THEN {}
       ELSE {<<Max({fed, -fed}), Max({solo, -solo})>>}

-----------------------------------------------------------------------------
(* What must hold of the search.                                           *)

\* Dropping duplicates keeps the optimum: no selection of all the options is
\* worth more than the best selection of those that were kept, trapped plans
\* below the others ("provably optimum-preserving").
PrunePreserves ==
    stage = "grow" =>
        LET Value(e) == SubSeq(Key(e), 1, 2)
        IN \A x \in Selections : \E y \in Kept :
            LET e == Value(evaluated[x])
                f == Value(evaluated[y])
            IN f[1] > e[1] \/ (f[1] = e[1] /\ f[2] >= e[2])

\* The plan of each segment has the largest U of the ranked on all of it.
IsEnvelope(breaks, ranked) ==
    LET U(p, a) == a[2] * p[2] + a[1] * p[1]
        Wins(i, a) == \A p \in ranked : U(p, a) <= U(breaks[i].point, a)
    IN \A i \in DOMAIN breaks :
        /\ Wins(i, breaks[i].from)
        /\ i < Len(breaks) =>
            /\ ~LessEq(breaks[i + 1].from, breaks[i].from)
            /\ Wins(i, breaks[i + 1].from)
        /\ i = Len(breaks) => \A p \in ranked : p[1] <= breaks[i].point[1]

\* The reported breakpoints are the upper envelope of U(alpha) over the plans
\* evaluated: alpha increases strictly, and between two of them the plan that
\* is said to win has the largest U of all.
EnvelopeIsExact == stage = "done" => IsEnvelope(Breakpoints, Ranked)

\* a is nearer to the configured rate than all of the stars, and not 0.
Nearer(a, stars) ==
    a[1] > 0 /\ \A b \in stars :
        ~LessEq(Apart(b, config.alpha), Apart(a, config.alpha))

\* Of the rankable plans e is the best up to the stars, and there it is caught.
HoldsUpTo(stars, e, rankable) ==
    /\ \A a \in stars :
        /\ \A f \in rankable : Worth(f, a) <= Worth(e, a)
        /\ \E f \in rankable : f.solo # e.solo /\ Worth(f, a) = Worth(e, a)
    /\ \A f \in rankable : \A a \in Flip(e, f) : ~Nearer(a, stars)

\* The other verdict on the site would be worth no more, unless trapped.
Settled(w, site) ==
    \A x \in Alternatives(w, site) :
        evaluated[x].trap = "none" =>
            Utility(evaluated[x]) <= Utility(evaluated[w])

\* The winners, alpha* and the greedy's selection, against all the plans.
Stands(winners, stars, rankable) ==
    \A w \in winners :
        /\ HoldsUpTo(stars, evaluated[w], rankable)
        /\ \A a \in {<<1, 4>>, <<1, 2>>, <<1, 1>>} : Nearer(a, stars) => w \in Row(a)
        /\ \A site \in Sites : Settled(w, site)
        /\ ~Above(EvalOfSeq(best), evaluated[w])

\* "The nearest alpha at which the recommendation CHANGES": up to alpha* the
\* winner stays the best, and there another plan is worth as much; so no row of
\* the sensitivity table drops it, and no plan of the ledger overtakes it, at a
\* rate nearer to the configured one.  Nor does the ledger find a site whose
\* other verdict would be worth more, unless in a plan that is trapped; and the
\* greedy never does better.  At alpha = 0 a tie may be broken otherwise;
\* "tokens" has no alpha (README).
RecommendationStands ==
    stage = "done" /\ config.objective = "federated" =>
        Stands(Winners, AlphaStar, Rankable)

=============================================================================
