-------------------------- MODULE InlineOuterProofs --------------------------
(***************************************************************************)
(* Theorems about InlineOuter, for any lengths of the tiers, any number of *)
(* rounds, crashes and overflows, and any readings: what is on disk is     *)
(* enough to go on from the last merge, and to go back to before the model *)
(* went bad.                                                               *)
(***************************************************************************)
EXTENDS InlineOuter, FiniteSetTheorems, WellFoundedInduction, TLAPS

-----------------------------------------------------------------------------
(* The inductive invariant                                                 *)

File    == [round : 1 .. MaxAttempts, tier : Tier, global : Global, control : Control]
Past    == [attempts : 0 .. MaxAttempts, crashes : Nat, overflows : Nat,
            poisoned : 0 .. MaxAttempts, missed : BOOLEAN, rolledBack : BOOLEAN]

StateTypeOK ==
    /\ at \in {"idle", "fitting", "merged", "evaluating", "down"}
    /\ global \in Global /\ control \in Control /\ scored \in BOOLEAN
    /\ store \in SUBSET File /\ past \in Past

\* No round is counted that was not attempted, and a fit phase is still to be
\* counted.
Counted ==
    /\ global.round <= past.attempts /\ global.step <= global.round
    /\ at = "fitting" => global.round < past.attempts
    /\ \A f \in store : f.round <= past.attempts

\* There is a model once a phase has begun, and none before the first; what is
\* checkpointed is a merge.
Seeded ==
    /\ at = "merged" => global.round > 0
    /\ at \in {"fitting", "merged", "evaluating"} => global.weights # "none"
    /\ global.weights = "none" => global.round = 0

\* A file is named for its round and its tier, and the tier follows from the
\* round, so that there is one file of a round.
Named ==
    /\ \A f \in store : /\ f.round = f.global.round /\ f.tier = TierOf(f.round)
                        /\ f.global.step <= f.round /\ f.global.weights # "none"
    /\ \A f, g \in store : f.round = g.round => f = g

\* As long as the server never went back: no file is of a later round, and
\* poisoned are those of the round that went bad and of later ones.
Straight ==
    /\ \A f \in store : f.round <= global.round
    /\ at = "merged" => \A f \in store : f.round < global.round
    /\ global.weights = "poisoned" <=> past.poisoned > 0
    /\ past.poisoned <= global.round
    /\ \A f \in store : f.global.weights = "poisoned" <=>
                            past.poisoned > 0 /\ past.poisoned <= f.round

\* The file of round r, if there has been one.
Stored(r) == r > 0 => \E f \in store : f.round = r

\* As long as no file is missing either: the last merge is on disk, and so are
\* the last KeepPersistent rounds of the persistent tier.
Latest ==
    /\ at \in {"idle", "fitting", "evaluating"} /\ global.round > 0 =>
         \E f \in store : f.global = global
    /\ at = "merged" => Stored(global.round - 1)
    /\ at = "down" => Stored(global.round) \/ Stored(global.round - 1)

Kept ==
    \A f \in store : (\A g \in store : g.round <= f.round) =>
        \A n \in 1 .. f.round :
            n % PersistEvery = 0 /\ f.round < n + KeepPersistent * PersistEvery => Stored(n)

OuterInv ==
    /\ StateTypeOK /\ Counted /\ Seeded /\ Named
    /\ ~past.rolledBack => Straight
    /\ ~past.rolledBack /\ ~past.missed => Latest /\ Kept

-----------------------------------------------------------------------------
(* Greatest and least                                                      *)

\* A family of subsets of a finite set has a smallest member.
LEMMA Smallest ==
  ASSUME NEW S, IsFiniteSet(S), NEW B \in SUBSET (SUBSET S), B # {}
  PROVE  \E x \in B : \A y \in B : y \subseteq x => y = x
<1>1. IsWellFoundedOn(StrictSubsetOrdering(S), SUBSET S)
  BY FS_StrictSubsetOrderingWellFounded, FS_FiniteSubsetsOfFinite
<1>2. PICK x \in B : \A y \in B : ~ (<<y, x>> \in StrictSubsetOrdering(S))
  BY <1>1, WFMin
<1>. QED  BY <1>2 DEF StrictSubsetOrdering

\* A finite set of integers has a greatest member and a least one.
LEMMA Extremes ==
  ASSUME NEW S, IsFiniteSet(S), S # {}, \A x \in S : x \in Int
  PROVE  /\ \E x \in S : \A y \in S : x >= y
         /\ \E x \in S : \A y \in S : x <= y
<1>1. \E x \in S : \A y \in S : x >= y
  <2> DEFINE Above(x) == {y \in S : y > x}
             A == {Above(x) : x \in S}
  <2>0. A \in SUBSET (SUBSET S) /\ \E m : m \in A
    OBVIOUS
  <2>1. \A x \in S : Above(x) \in A
    OBVIOUS
  <2>2. \A m \in A : \E x \in S : m = Above(x)
    OBVIOUS
  <2>. HIDE DEF A
  <2>3. PICK m \in A : \A n \in A : n \subseteq m => n = m
    <3>. HIDE DEF Above
    <3>. QED  BY <2>0, Smallest
  <2>4. PICK x \in S : m = Above(x)
    BY <2>2
  <2>5. ASSUME NEW y \in S, ~(x >= y)
        PROVE  FALSE
    <3>1. x \in Int /\ y \in Int /\ y > x /\ ~(y > y) /\ \A z \in S : z > y => z > x
      BY <2>5
    <3>2. Above(y) \subseteq Above(x) /\ y \in Above(x) /\ y \notin Above(y)
      BY <3>1
    <3>. QED  BY <2>1, <2>3, <2>4, <3>2
  <2>. QED  BY <2>5
<1>2. \E x \in S : \A y \in S : x <= y
  <2> DEFINE Below(x) == {y \in S : y < x}
             A == {Below(x) : x \in S}
  <2>0. A \in SUBSET (SUBSET S) /\ \E m : m \in A
    OBVIOUS
  <2>1. \A x \in S : Below(x) \in A
    OBVIOUS
  <2>2. \A m \in A : \E x \in S : m = Below(x)
    OBVIOUS
  <2>. HIDE DEF A
  <2>3. PICK m \in A : \A n \in A : n \subseteq m => n = m
    <3>. HIDE DEF Below
    <3>. QED  BY <2>0, Smallest
  <2>4. PICK x \in S : m = Below(x)
    BY <2>2
  <2>5. ASSUME NEW y \in S, ~(x <= y)
        PROVE  FALSE
    <3>1. x \in Int /\ y \in Int /\ y < x /\ ~(y < y) /\ \A z \in S : z < y => z < x
      BY <2>5
    <3>2. Below(y) \subseteq Below(x) /\ y \in Below(x) /\ y \notin Below(y)
      BY <3>1
    <3>. QED  BY <2>1, <2>3, <2>4, <3>2
  <2>. QED  BY <2>5
<1>. QED  BY <1>1, <1>2

LEMMA MaxMin ==
  ASSUME NEW S, IsFiniteSet(S), S # {}, \A x \in S : x \in Int
  PROVE  /\ Max(S) \in S /\ \A y \in S : y <= Max(S)
         /\ Min(S) \in S /\ \A y \in S : Min(S) <= y
<1>1. \E x \in S : \A y \in S : x >= y
  BY Extremes
<1>2. \E x \in S : \A y \in S : x <= y
  BY Extremes
<1>. QED  BY <1>1, <1>2 DEF Max, Min

LEMMA MaxMinOfTwo ==
  ASSUME NEW a \in Int, NEW b \in Int
  PROVE  /\ Max({a, b}) \in {a, b} /\ Max({a, b}) >= a /\ Max({a, b}) >= b
         /\ Min({a, b}) \in {a, b} /\ Min({a, b}) <= a /\ Min({a, b}) <= b
<1>1. (\A x \in {a, b} : x \in Int) /\ {a, b} # {} /\ IsFiniteSet({a, b})
  <2>1. IsFiniteSet({a}) /\ IsFiniteSet({b}) /\ {a, b} = {a} \cup {b}
    BY FS_Singleton
  <2>. QED  BY <2>1, FS_Union
<1>. QED  BY <1>1, MaxMin

LEMMA ClampRange ==
  ASSUME NEW lo \in Int, NEW x \in Int, NEW hi \in Int
  PROVE  /\ Clamp(lo, x, hi) \in Int /\ Clamp(lo, x, hi) <= hi
         /\ Clamp(lo, x, hi) >= Min({lo, hi})
<1>1. Max({lo, x}) \in Int /\ Max({lo, x}) >= lo
  BY MaxMinOfTwo
<1>. QED  BY <1>1, MaxMinOfTwo DEF Clamp

LEMMA Division ==
  ASSUME NEW a \in Nat, NEW b \in Nat \ {0}
  PROVE  a \div b \in Nat /\ a % b \in 0 .. b - 1 /\ a = b * (a \div b) + (a % b)
<1>1. a % b \in 0 .. b - 1 /\ a \div b \in Int
  OBVIOUS
<1>2. a = b * (a \div b) + (a % b)
  OBVIOUS
<1>. QED  BY <1>1, <1>2

-----------------------------------------------------------------------------
(* The controller of H                                                     *)

LEMMA FloorType == Floor \in Nat /\ Floor >= 1
<1> DEFINE h == H0 \div 2
<1>1. h \in Int /\ 1 \in Int
  BY OuterAssumption
<1>. HIDE DEF h
<1>2. Max({1, h}) \in {1, h} /\ Max({1, h}) >= 1
  BY <1>1, MaxMinOfTwo
<1>3. Max({1, h}) \in Int
  BY <1>1, <1>2
<1>. QED  BY <1>2, <1>3 DEF Floor, h

LEMMA RateType ==
  /\ \A r \in Rate : r \in Nat
  /\ \A r \in Rates : r \in Rate /\ r \in Nat
  /\ 0 \in Rate
BY OuterAssumption DEF Rate

LEMMA GapsType ==
  LET S == Gaps \cup {0} IN
  /\ IsFiniteSet(S) /\ S # {}
  /\ \A x \in S : x \in Int /\ Min(S) <= x /\ x <= Max(S)
  /\ Min(S) \in Int /\ Max(S) \in Int
<1> DEFINE S == Gaps \cup {0}
<1>1. IsFiniteSet(S) /\ S # {} /\ \A x \in S : x \in Int
  BY OuterAssumption, FS_AddElement
<1>. HIDE DEF S
<1>2. Max(S) \in S /\ (\A y \in S : y <= Max(S)) /\ Min(S) \in S /\ \A y \in S : Min(S) <= y
  BY <1>1, MaxMin
<1>. QED  BY <1>1, <1>2 DEF S

\* What is left of a controller when its fields change one by one.
LEMMA Fields ==
  ASSUME NEW R, NEW M, NEW B, NEW E, NEW N,
         NEW c \in [last : R, ref : R, multiplier : M, gauged : B, ema : E, rounds : N],
         NEW last \in R, NEW ref \in R, NEW multiplier \in M, NEW gauged \in B,
         NEW ema \in E, NEW rounds \in N
  PROVE  LET C == [last : R, ref : R, multiplier : M, gauged : B, ema : E, rounds : N] IN
         /\ [c EXCEPT !.last = last, !.ref = ref] \in C
         /\ [c EXCEPT !.ref = ref] \in C
         /\ [c EXCEPT !.gauged = gauged, !.ema = ema, !.rounds = rounds,
                      !.multiplier = multiplier] \in C
OBVIOUS

LEMMA ZeroGap == 0 \in Min(Gaps \cup {0}) .. Max(Gaps \cup {0})
<1> DEFINE lo == Min(Gaps \cup {0})
           hi == Max(Gaps \cup {0})
<1>1. lo \in Int /\ hi \in Int /\ lo <= 0 /\ 0 <= hi
  BY GapsType
<1>. HIDE DEF lo, hi
<1>2. 0 \in lo .. hi
  BY <1>1
<1>. QED  BY <1>2 DEF lo, hi

LEMMA ScheduledType ==
  ASSUME NEW g \in Global, NEW c \in Control
  PROVE  Scheduled(g, c) \in Nat
<1>1. H0 \in Nat /\ c.ref \in Nat /\ c.last \in Nat
  BY OuterAssumption, RateType DEF Control
<1>2. CASE c.last > 0
  <2>1. H0 * c.ref * c.ref \in Nat
    BY <1>1
  <2>2. c.last * c.last \in Nat \ {0}
    <3> DEFINE l == c.last
    <3>1. l \in Nat /\ l >= 1
      BY <1>1, <1>2
    <3>. HIDE DEF l
    <3>2. l * l \in Nat /\ l * l >= 1
      BY <3>1
    <3>. QED  BY <3>2 DEF l
  <2>3. (H0 * c.ref * c.ref) \div (c.last * c.last) \in Nat
    BY <2>1, <2>2, Division
  <2>. QED  BY <1>1, <2>3 DEF Scheduled
<1>3. CASE ~(c.last > 0)
  BY <1>1, <1>3 DEF Scheduled
<1>. QED  BY <1>2, <1>3

\* The length of a round is between half the base and the cap.
LEMMA LengthInRange ==
  ASSUME NEW g \in Global, NEW c \in Control
  PROVE  NextInnerSteps(g, c) \in Min({Floor, QsrMax}) .. QsrMax
<1> DEFINE s == Scheduled(g, c)
           x == (Min({s, QsrMax}) * c.multiplier + 500) \div 1000
<1>1. s \in Nat /\ QsrMax \in Nat /\ c.multiplier \in Nat /\ Floor \in Nat
  BY ScheduledType, FloorType, OuterAssumption DEF Control
<1>. HIDE DEF s
<1>2. Min({s, QsrMax}) \in Nat
  BY <1>1, MaxMinOfTwo
<1>3. Min({s, QsrMax}) * c.multiplier \in Nat
  BY <1>1, <1>2
<1>4. x \in Int
  BY <1>3
<1>5. NextInnerSteps(g, c) = Clamp(Floor, x, QsrMax)
  BY DEF NextInnerSteps, s
<1>. HIDE DEF x
<1>6. Min({Floor, QsrMax}) \in Int
  BY <1>1, MaxMinOfTwo
<1>. QED  BY <1>1, <1>4, <1>5, <1>6, ClampRange

LEMMA ObservedType ==
  ASSUME NEW c \in Control, NEW rate \in Rates
  PROVE  Observed(c, rate) \in Control
<1> DEFINE a == c.ref
           m == Max({a, rate})
<1>1. a \in Int /\ rate \in Int /\ a \in Rate /\ rate \in Rate
  BY RateType DEF Control
<1>. HIDE DEF a
<1>2. m \in {a, rate}
  BY <1>1, MaxMinOfTwo
<1>3. m \in Rate
  BY <1>1, <1>2
<1>4. Observed(c, rate) = [c EXCEPT !.last = rate, !.ref = m]
  BY DEF Observed, Control, a
<1>. HIDE DEF m
<1>5. [c EXCEPT !.last = rate, !.ref = m] \in Control
  <2> DEFINE M == 500 .. 2000
             B == BOOLEAN
             E == Min(Gaps \cup {0}) .. Max(Gaps \cup {0})
             N == 0 .. MaxReadings
             C == [last : Rate, ref : Rate, multiplier : M, gauged : B, ema : E, rounds : N]
  <2>0. C = Control
    BY DEF Control
  <2>1. c.multiplier \in M /\ c.gauged \in B /\ c.ema \in E /\ c.rounds \in N /\ c \in C
    BY DEF Control
  <2>. HIDE DEF M, B, E, N
  <2>2. [c EXCEPT !.last = rate, !.ref = m] \in C
    BY <1>1, <1>3, <2>1, Fields
  <2>. QED  BY <2>0, <2>2
<1>. QED  BY <1>4, <1>5

LEMMA UpdateJensenType ==
  ASSUME NEW c \in Control, NEW gap \in Gaps, c.rounds < MaxReadings
  PROVE  UpdateJensen(c, gap) \in Control
<1> DEFINE lo == Min(Gaps \cup {0})
           hi == Max(Gaps \cup {0})
           ema == IF c.gauged THEN (c.ema + gap) \div 2 ELSE gap
           m == Moved(c.multiplier, ema)
           old == c.ema
           mul == c.multiplier
<1>2. /\ lo \in Int /\ hi \in Int /\ lo <= gap /\ gap <= hi /\ gap \in Int
  BY GapsType
<1>. HIDE DEF lo, hi
<1>3. old \in lo .. hi /\ mul \in 500 .. 2000 /\ c.rounds \in 0 .. MaxReadings
      /\ c.gauged \in BOOLEAN
  BY DEF Control, lo, hi
<1>. HIDE DEF old, mul
<1>4. ema \in lo .. hi
  <2>1. ema = IF c.gauged THEN (old + gap) \div 2 ELSE gap
    BY DEF old
  <2>. HIDE DEF ema
  <2>. QED  BY <1>2, <1>3, <2>1
<1>. HIDE DEF ema
<1>5. m \in Int
  <2>0. m = Moved(mul, ema)
    BY DEF mul
  <2>. HIDE DEF m
  <2>1. m = Moved(mul, ema) /\ mul \in Int /\ ema \in Int
    BY <1>2, <1>3, <1>4, <2>0
  <2>2. /\ (mul * 7) \div 10 \in Int /\ (mul * 115) \div 100 \in Int
        /\ (mul * 85) \div 100 \in Int /\ mul + (1000 - mul) \div 10 \in Int
    BY <2>1
  <2>. QED  BY <2>1, <2>2 DEF Moved
<1>. HIDE DEF m
<1>7. Clamp(500, m, 2000) \in 500 .. 2000
  <2> DEFINE a == 500
             b == 2000
  <2>1. a \in Int /\ b \in Int /\ a <= b
    OBVIOUS
  <2>. HIDE DEF a, b
  <2>2. Clamp(a, m, b) \in a .. b
    <3>1. Min({a, b}) \in {a, b}
      BY <2>1, MaxMinOfTwo
    <3>2. Clamp(a, m, b) \in Int /\ Clamp(a, m, b) <= b /\ Clamp(a, m, b) >= Min({a, b})
      BY <1>5, <2>1, ClampRange
    <3>. QED  BY <2>1, <3>1, <3>2
  <2>. QED  BY <2>2 DEF a, b
<1>8. c.rounds + 1 \in 0 .. MaxReadings
  BY <1>3, OuterAssumption
<1> DEFINE next == IF c.rounds + 1 > JensenWarmup THEN Clamp(500, m, 2000) ELSE mul
<1>9. UpdateJensen(c, gap) =
        [c EXCEPT !.gauged = TRUE, !.ema = ema, !.rounds = c.rounds + 1, !.multiplier = next]
  BY DEF UpdateJensen, ema, m, mul, Control
<1>10. next \in 500 .. 2000
  BY <1>3, <1>7
<1>. HIDE DEF next
<1>11. [c EXCEPT !.gauged = TRUE, !.ema = ema, !.rounds = c.rounds + 1,
                 !.multiplier = next] \in Control
  <2> DEFINE M == 500 .. 2000
             B == BOOLEAN
             E == Min(Gaps \cup {0}) .. Max(Gaps \cup {0})
             N == 0 .. MaxReadings
             C == [last : Rate, ref : Rate, multiplier : M, gauged : B, ema : E, rounds : N]
             t == TRUE
             n == c.rounds + 1
  <2>0. C = Control
    BY DEF Control
  <2>1. c.last \in Rate /\ c.ref \in Rate /\ t \in B /\ c \in C
    BY DEF Control
  <2>2. ema \in E /\ n \in N /\ next \in M
    BY <1>4, <1>8, <1>10 DEF lo, hi
  <2>. HIDE DEF M, B, E, N, t, n
  <2>3. [c EXCEPT !.gauged = t, !.ema = ema, !.rounds = n, !.multiplier = next] \in C
    BY <2>1, <2>2, Fields
  <2>. QED  BY <2>0, <2>3 DEF t, n
<1>. QED  BY <1>9, <1>11

-----------------------------------------------------------------------------
(* The two tiers                                                           *)

LEMMA TierOfType == \A r : TierOf(r) \in Tier
BY DEF TierOf, Tier

\* Fewer than KeepPersistent persistent rounds lie within KeepPersistent times
\* PersistEvery rounds of another one.
LEMMA FewMultiples ==
  ASSUME NEW n \in Nat, n % PersistEvery = 0, NEW r \in Nat,
         r < n + KeepPersistent * PersistEvery,
         NEW S, \A g \in S : /\ g.round \in Nat /\ g.round % PersistEvery = 0
                             /\ n < g.round /\ g.round <= r,
         \A f, g \in S : f.round = g.round => f = g
  PROVE  IsFiniteSet(S) /\ Cardinality(S) < KeepPersistent
<1> DEFINE P == PersistEvery
           K == KeepPersistent
           m == n \div P
           At(g) == g.round \div P
           F == [g \in S |-> At(g) - m]
<1>1. P \in Nat \ {0} /\ K \in Nat \ {0}
  BY OuterAssumption
<1>. HIDE DEF P, K
<1>2. m \in Nat /\ n = P * m
  BY <1>1, Division DEF P
<1>. HIDE DEF m
<1>3. ASSUME NEW g \in S
      PROVE  At(g) \in Nat /\ g.round = P * At(g) /\ At(g) - m \in 1 .. K - 1
  <2> DEFINE q == g.round
             a == q \div P
  <2>0. q \in Nat /\ q % P = 0 /\ n < q /\ q < n + K * P
    <3>1. q \in Nat /\ q % P = 0 /\ n < q /\ q <= r
      BY DEF P
    <3>2. n \in Nat /\ r \in Nat /\ r < n + K * P /\ K * P \in Nat
      BY <1>1 DEF K, P
    <3>. HIDE DEF q
    <3>. QED  BY <3>1, <3>2
  <2>. HIDE DEF q
  <2>1. a \in Nat /\ q = P * a
    <3>1. q \in Nat /\ q % P = 0 /\ P \in Nat \ {0}
      BY <1>1, <2>0
    <3>2. q \div P \in Nat /\ q = P * (q \div P) + (q % P)
      BY <3>1, Division
    <3>. HIDE DEF a
    <3>3. a \in Nat /\ q = P * a + 0
      BY <3>1, <3>2 DEF a
    <3>. QED  BY <3>1, <3>3
  <2>3. a \in Nat /\ P * m < P * a /\ P * a < P * m + K * P
    BY <1>2, <2>0, <2>1
  <2>. HIDE DEF a
  <2>4. m < a
    <3>1. ASSUME a <= m PROVE P * a <= P * m
      BY <1>1, <1>2, <2>3, <3>1
    <3>. QED  BY <1>1, <1>2, <2>3, <3>1
  <2>5. a < m + K
    <3>1. ASSUME m + K <= a PROVE P * m + K * P <= P * a
      <4>1. a - (m + K) \in Nat
        BY <1>1, <1>2, <2>3, <3>1
      <4>2. P * (a - (m + K)) >= 0
        BY <1>1, <4>1
      <4>. QED  BY <1>1, <1>2, <2>3, <4>2
    <3>. QED  BY <1>1, <1>2, <2>3, <3>1
  <2>6. a - m \in 1 .. K - 1
    BY <1>1, <1>2, <2>3, <2>4, <2>5
  <2>. QED  BY <2>1, <2>3, <2>6 DEF a, q
<1>4. F \in Injection(S, 1 .. K - 1)
  <2>1. F \in [S -> 1 .. K - 1]
    BY <1>3
  <2>2. ASSUME NEW f \in S, NEW g \in S, F[f] = F[g]
        PROVE  f = g
    <3>1. At(f) = At(g)
      BY <1>2, <1>3, <2>2
    <3>. QED  BY <1>3, <3>1
  <2>. HIDE DEF F
  <2>. QED  BY <2>1, <2>2 DEF Injection, IsInjective
<1> DEFINE one == 1
           top == K - 1
<1>5. IsFiniteSet(one .. top) /\ Cardinality(one .. top) = K - 1
  <2>1. one \in Int /\ top \in Int /\ one <= top + 1 /\ top - one + 1 = K - 1
    BY <1>1
  <2>2. one > top => top = 0 /\ K - 1 = 0
    BY <1>1
  <2>. HIDE DEF one, top
  <2>3. IsFiniteSet(one .. top)
        /\ Cardinality(one .. top) = IF one > top THEN 0 ELSE top - one + 1
    BY <2>1, FS_Interval
  <2>. QED  BY <2>1, <2>2, <2>3
<1>6. IsFiniteSet(S) /\ Cardinality(S) <= Cardinality(one .. top)
  BY <1>4, <1>5, FS_Injection
<1>. QED  BY <1>1, <1>5, <1>6, FS_CardinalityType DEF K, top


-----------------------------------------------------------------------------
(* What is on disk                                                         *)

\* Files have a newest and an oldest among them.
LEMMA Ends ==
  ASSUME NEW F \in SUBSET File, F # {}
  PROVE  /\ Newest(F) \in F /\ \A g \in F : g.round <= Newest(F).round
         /\ Oldest(F) \in F /\ \A g \in F : g.round >= Oldest(F).round
<1> DEFINE R == {f.round : f \in F}
           a == 1
           b == MaxAttempts
<1>1. R \subseteq a .. b /\ R # {} /\ a \in Int /\ b \in Int
  BY OuterAssumption DEF File
<1>2. \A x \in R : x \in Int
  BY <1>1
<1>3. IsFiniteSet(R)
  <2>. HIDE DEF R, a, b
  <2>1. IsFiniteSet(a .. b)
    BY <1>1, FS_Interval
  <2>. QED  BY <1>1, <2>1, FS_Subset
<1>4. (\E x \in R : \A y \in R : x >= y) /\ (\E x \in R : \A y \in R : x <= y)
  <2>. HIDE DEF R
  <2>. QED  BY <1>1, <1>2, <1>3, Extremes
<1>5. PICK f \in F : \A y \in R : f.round >= y
  BY <1>4
<1>6. PICK h \in F : \A y \in R : h.round <= y
  BY <1>4
<1>7. \A g \in F : g.round \in Int /\ f.round >= g.round /\ h.round <= g.round
  BY <1>2, <1>5, <1>6
<1>8. (\A g \in F : g.round <= f.round) /\ (\A g \in F : g.round >= h.round)
  BY <1>7
<1>. QED  BY <1>8 DEF Newest, Oldest

\* As there is one file of a round, there are finitely many.
LEMMA FilesFinite ==
  ASSUME NEW F \in SUBSET File, \A f, g \in F : f.round = g.round => f = g
  PROVE  IsFiniteSet(F)
<1> DEFINE R == [f \in F |-> f.round]
           a == 1
           b == MaxAttempts
<1>1. a \in Int /\ b \in Int
  BY OuterAssumption
<1>2. R \in [F -> a .. b] /\ \A f, g \in F : R[f] = R[g] => f = g
  BY DEF File
<1>. HIDE DEF R, a, b
<1>3. R \in Injection(F, a .. b)
  BY <1>2 DEF Injection, IsInjective
<1>4. IsFiniteSet(a .. b)
  BY <1>1, FS_Interval
<1>. QED  BY <1>3, <1>4, FS_Injection

\* Whatever is pruned is of the tier that is, and it is never the newest.
LEMMA PrunedKeeps ==
  ASSUME NEW files, NEW tier, NEW keep \in Nat \ {0}
  PROVE  /\ Pruned(files, tier, keep) \subseteq files
         /\ \A f \in files : f.tier # tier => f \in Pruned(files, tier, keep)
         /\ \A f \in files : (\A g \in files : ~(g.round > f.round))
                               => f \in Pruned(files, tier, keep)
<1>1. Pruned(files, tier, keep) \subseteq files
  BY DEF Pruned
<1>2. \A f \in files : f.tier # tier => f \in Pruned(files, tier, keep)
  BY DEF Pruned
<1>3. ASSUME NEW f \in files, \A g \in files : ~(g.round > f.round)
      PROVE  f \in Pruned(files, tier, keep)
  <2>1. {g \in files : g.tier = tier /\ g.round > f.round} = {}
    BY <1>3
  <2>2. Cardinality({g \in files : g.tier = tier /\ g.round > f.round}) < keep
    BY <2>1, FS_EmptySet
  <2>. QED  BY <2>2 DEF Pruned
<1>. QED  BY <1>1, <1>2, <1>3

\* A persistent file of round n survives while the newest is fewer than
\* KeepPersistent times PersistEvery rounds ahead of it.
LEMMA PersistentSurvives ==
  ASSUME NEW files,
         \A g \in files : g.round \in Nat /\ g.tier = TierOf(g.round),
         \A f, g \in files : f.round = g.round => f = g,
         NEW r \in Nat, \A g \in files : g.round <= r,
         NEW f \in files, f.round % PersistEvery = 0,
         r < f.round + KeepPersistent * PersistEvery
  PROVE  f \in Pruned(files, "persistent", KeepPersistent)
<1> DEFINE S == {g \in files : g.tier = "persistent" /\ g.round > f.round}
           n == f.round
<1>1. n \in Nat /\ n % PersistEvery = 0 /\ r < n + KeepPersistent * PersistEvery
  OBVIOUS
<1>2. \A g \in S : g.round \in Nat /\ g.round % PersistEvery = 0 /\ n < g.round /\ g.round <= r
  BY DEF TierOf
<1>3. \A g, h \in S : g.round = h.round => g = h
  OBVIOUS
<1>4. Cardinality(S) < KeepPersistent
  <2>. HIDE DEF S, n
  <2>. QED  BY <1>1, <1>2, <1>3, FewMultiples
<1>. QED  BY <1>4 DEF Pruned

\* What a checkpoint leaves: the snapshot and some of the files of other
\* rounds, of the persistent ones all that are recent.
LEMMA CheckpointedKeeps ==
  ASSUME StateTypeOK, Named, global.round \in 1 .. MaxAttempts
  PROVE  /\ Checkpointed \subseteq {f \in store : f.round # global.round} \cup {Snapshot}
         /\ (\A f \in store : f.round < global.round) =>
              /\ Snapshot \in Checkpointed
              /\ \A f \in store :
                   f.round % PersistEvery = 0
                     /\ global.round < f.round + KeepPersistent * PersistEvery
                     => f \in Checkpointed
<1> DEFINE s == Snapshot
           files == {f \in store : <<f.round, f.tier>> # <<s.round, s.tier>>} \cup {s}
           keep == IF s.tier = "persistent" THEN KeepPersistent ELSE KeepEphemeral
<1>1. s.round = global.round /\ s.tier = TierOf(global.round) /\ s.tier \in Tier
  BY TierOfType DEF Snapshot
<1>. HIDE DEF s
<1>2. keep \in Nat \ {0}
  BY OuterAssumption
<1>3. Checkpointed = Pruned(files, s.tier, keep)
  BY DEF Checkpointed, s
<1>4. \A f \in store : f.tier = TierOf(f.round)
  BY DEF Named
<1>5. files = {f \in store : f.round # global.round} \cup {s}
  BY <1>1, <1>4
<1>6. \A f \in store : f.round \in Nat /\ f.round \in 1 .. MaxAttempts
  BY OuterAssumption DEF StateTypeOK, File
<1>7. Checkpointed \subseteq files
  <2>. HIDE DEF files, keep
  <2>. QED  BY <1>2, <1>3, PrunedKeeps
<1>8. ASSUME \A f \in store : f.round < global.round
      PROVE  /\ s \in Checkpointed
             /\ \A f \in store :
                  f.round % PersistEvery = 0
                    /\ global.round < f.round + KeepPersistent * PersistEvery
                    => f \in Checkpointed
  <2> DEFINE r == global.round
  <2>1. r \in Nat
    BY OuterAssumption
  <2>2. \A g \in files : g.round \in Nat /\ g.round <= r /\ g.tier = TierOf(g.round)
    BY <1>1, <1>4, <1>5, <1>6, <1>8, <2>1
  <2>3. s \in files /\ \A g \in files : ~(g.round > s.round)
    BY <1>1, <2>1, <2>2
  <2>4. \A f, g \in files : f.round = g.round => f = g
    BY <1>1, <1>5 DEF Named
  <2>5. \A f \in store : f \in files
    BY <1>5, <1>6, <1>8, <2>1
  <2>. HIDE DEF files, r
  <2>6. s \in Checkpointed
    <3>. HIDE DEF keep
    <3>. QED  BY <1>2, <1>3, <2>3, PrunedKeeps
  <2>7. ASSUME NEW f \in store, f.round % PersistEvery = 0,
               r < f.round + KeepPersistent * PersistEvery
        PROVE  f \in Checkpointed
    <3>1. CASE s.tier = "persistent"
      <4>1. f \in Pruned(files, "persistent", KeepPersistent)
        BY <2>1, <2>2, <2>4, <2>5, <2>7, PersistentSurvives
      <4>. QED  BY <1>3, <3>1, <4>1
    <3>2. CASE s.tier # "persistent"
      <4>1. f.tier = "persistent"
        BY <1>4, <2>7 DEF TierOf
      <4>. HIDE DEF keep
      <4>. QED  BY <1>2, <1>3, <2>5, <3>2, <4>1, PrunedKeeps
    <3>. QED  BY <3>1, <3>2
  <2>. QED  BY <2>6, <2>7 DEF r
<1>. QED  BY <1>5, <1>7, <1>8 DEF s

\* The newest finite file is what a restart takes, and no finite one is newer.
LEMMA NewestFinite ==
  ASSUME StateTypeOK, Finite # {}
  PROVE  /\ Newest(Finite) \in store /\ Newest(Finite).global.weights = "finite"
         /\ \A f \in Finite : f.round <= Newest(Finite).round
<1>1. Finite \in SUBSET File /\ Finite \subseteq store
  BY DEF StateTypeOK, Finite
<1>2. Newest(Finite) \in Finite /\ \A f \in Finite : f.round <= Newest(Finite).round
  BY <1>1, Ends
<1>. QED  BY <1>2 DEF Finite

\* What a restart adopts.
LEMMA ResumedType ==
  ASSUME StateTypeOK, Named
  PROVE  ResumedGlobal \in Global /\ ResumedControl \in Control
<1>1. ResumedGlobal \in Global
  <2>1. CASE Finite = {}
    BY <2>1, OuterAssumption DEF ResumedGlobal, Cold, Global, Weights
  <2>2. CASE Finite # {}
    BY <2>2, NewestFinite DEF ResumedGlobal, StateTypeOK, File
  <2>. QED  BY <2>1, <2>2
<1>2. ResumedControl \in Control
  <2>1. CASE store = {}
    <3>1. 0 \in Min(Gaps \cup {0}) .. Max(Gaps \cup {0})
      BY ZeroGap
    <3>2. 0 \in Rate /\ 0 \in 0 .. MaxReadings /\ 1000 \in 500 .. 2000 /\ FALSE \in BOOLEAN
      BY RateType, OuterAssumption
    <3>. QED  BY <2>1, <3>1, <3>2 DEF ResumedControl, NoControl, Control
  <2>2. CASE store # {}
    <3> DEFINE refs == {f.control.ref : f \in Opened}
               c == Oldest(Opened).control
               top == Max(refs)
    <3>1. Opened \in SUBSET File /\ Opened # {} /\ Opened \subseteq store
      <4>1. Opened \subseteq store
        BY DEF Opened
      <4>2. CASE Finite = {}
        BY <2>2, <4>1, <4>2 DEF Opened, StateTypeOK
      <4>3. CASE Finite # {}
        <5> DEFINE m == Newest(Finite)
        <5>1. m \in store /\ m.round \in Int
          BY <4>3, NewestFinite DEF StateTypeOK, File
        <5>2. m \in Opened
          BY <4>3, <5>1 DEF Opened
        <5>. QED  BY <4>1, <5>2 DEF StateTypeOK
      <4>. QED  BY <4>2, <4>3
    <3>2. c \in Control
      <4>1. Oldest(Opened) \in Opened
        BY <3>1, Ends
      <4>. QED  BY <3>1, <4>1 DEF File
    <3>3. refs \subseteq Rate /\ refs # {}
      BY <3>1 DEF File, Control
    <3>4. IsFiniteSet(refs)
      <4>1. IsFiniteSet(Opened)
        BY <3>1, FilesFinite DEF Named
      <4> DEFINE Ref == [f \in Opened |-> f.control.ref]
      <4>2. Ref \in Surjection(Opened, refs)
        BY DEF Surjection
      <4>. HIDE DEF Ref, refs
      <4>. QED  BY <4>1, <4>2, FS_Surjection
    <3>5. \A x \in refs : x \in Int
      BY <3>3, RateType
    <3>. HIDE DEF refs
    <3>6. top \in Rate
      BY <3>3, <3>4, <3>5, MaxMin
    <3>7. [c EXCEPT !.ref = top] \in Control
      <4> DEFINE M == 500 .. 2000
                 B == BOOLEAN
                 E == Min(Gaps \cup {0}) .. Max(Gaps \cup {0})
                 N == 0 .. MaxReadings
                 C == [last : Rate, ref : Rate, multiplier : M, gauged : B, ema : E, rounds : N]
      <4>0. C = Control
        BY DEF Control
      <4>. HIDE DEF c, top, M, B, E, N
      <4>1. /\ c.last \in Rate /\ c.ref \in Rate /\ c.multiplier \in M /\ c.gauged \in B
            /\ c.ema \in E /\ c.rounds \in N /\ c \in C
        BY <3>2, <4>0
      <4>2. [c EXCEPT !.ref = top] \in C
        BY <3>6, <4>1, Fields
      <4>. QED  BY <4>0, <4>2
    <3>8. ResumedControl = [c EXCEPT !.ref = top]
      BY <2>2 DEF ResumedControl, refs
    <3>. QED  BY <3>7, <3>8
  <2>. QED  BY <2>1, <2>2
<1>. QED  BY <1>1, <1>2

-----------------------------------------------------------------------------
(* Every action preserves the invariant                                    *)

LEMMA InitOuter == Init => OuterInv
<1>. SUFFICES ASSUME Init PROVE OuterInv
  OBVIOUS
<1>1. StateTypeOK
  <2>1. 0 \in Min(Gaps \cup {0}) .. Max(Gaps \cup {0})
    BY ZeroGap
  <2>2. 0 \in Rate /\ 0 \in 0 .. MaxReadings /\ 1000 \in 500 .. 2000 /\ FALSE \in BOOLEAN
    BY RateType, OuterAssumption
  <2>3. control \in Control
    BY <2>1, <2>2 DEF Init, NoControl, Control
  <2>4. 0 \in 0 .. MaxAttempts /\ 0 \in Nat
    BY OuterAssumption
  <2>5. global \in Global
    BY <2>4 DEF Init, Cold, Global, Weights
  <2>6. past \in Past
    BY <2>4 DEF Init, Past
  <2>7. store \in SUBSET File /\ scored \in BOOLEAN /\ at = "idle"
    BY DEF Init
  <2>. QED  BY <2>3, <2>5, <2>6, <2>7 DEF StateTypeOK
<1>2. Counted /\ Seeded /\ Named /\ Straight /\ Latest /\ Kept
  BY OuterAssumption DEF Init, Cold, Counted, Seeded, Named, Straight, Latest, Kept
<1>. QED  BY <1>1, <1>2 DEF OuterInv

LEMMA ConfigureFitKeeps ==
  ASSUME OuterInv, ConfigureFit
  PROVE  OuterInv'
<1>0. /\ StateTypeOK /\ Counted /\ Seeded /\ Named
      /\ ~past.rolledBack => Straight
      /\ ~past.rolledBack /\ ~past.missed => Latest /\ Kept
  BY DEF OuterInv
<1>1. /\ at = "idle" /\ at' = "fitting" /\ past.attempts < MaxAttempts
      /\ past' = [past EXCEPT !.attempts = @ + 1]
      /\ global' = [global EXCEPT !.weights = IF @ = "none" THEN "finite" ELSE @]
      /\ control' = control /\ scored' = scored /\ store' = store
  BY DEF ConfigureFit
<1>2. StateTypeOK'
  BY <1>0, <1>1, OuterAssumption DEF StateTypeOK, Global, Past, Weights
<1>3. /\ global'.round = global.round /\ global'.step = global.step
      /\ global'.weights = IF global.weights = "none" THEN "finite" ELSE global.weights
      /\ past'.attempts = past.attempts + 1 /\ past'.poisoned = past.poisoned
      /\ past'.rolledBack = past.rolledBack /\ past'.missed = past.missed
  BY <1>0, <1>1 DEF StateTypeOK, Global, Past
<1>4. Counted'
  BY <1>0, <1>1, <1>3, OuterAssumption DEF StateTypeOK, Global, Past, Counted, File
<1>5. Seeded' /\ Named'
  BY <1>0, <1>1, <1>3 DEF Seeded, Named
<1>6. Straight => Straight'
  BY <1>1, <1>3 DEF Straight
<1>7. Latest => Latest'
  <2>1. global.round > 0 => global' = global
    BY <1>0, <1>1 DEF StateTypeOK, Global, Seeded
  <2>. QED  BY <1>1, <1>3, <2>1 DEF Latest, Stored
<1>8. Kept => Kept'
  BY <1>1 DEF Kept, Stored
<1>. QED  BY <1>0, <1>2, <1>3, <1>4, <1>5, <1>6, <1>7, <1>8 DEF OuterInv

\* A step of the fit or the evaluate phase that only moves on and touches the
\* controller.
LEMMA ControlKeeps ==
  ASSUME OuterInv, UNCHANGED <<global, store, past>>, control' \in Control, scored' \in BOOLEAN,
         \/ at = "fitting" /\ at' = "evaluating"
         \/ at = "evaluating" /\ at' = "idle"
  PROVE  OuterInv'
<1>0. /\ StateTypeOK /\ Counted /\ Seeded /\ Named
      /\ ~past.rolledBack => Straight
      /\ ~past.rolledBack /\ ~past.missed => Latest /\ Kept
  BY DEF OuterInv
<1>1. StateTypeOK'
  BY <1>0 DEF StateTypeOK
<1>2. Counted' /\ Seeded' /\ Named'
  BY <1>0 DEF Counted, Seeded, Named
<1>3. Straight => Straight'
  BY DEF Straight
<1>4. Latest => Latest'
  BY DEF Latest, Stored
<1>5. Kept => Kept'
  BY DEF Kept, Stored
<1>. QED  BY <1>0, <1>1, <1>2, <1>3, <1>4, <1>5 DEF OuterInv

LEMMA AggregateInlineKeeps ==
  ASSUME OuterInv, AggregateInline
  PROVE  OuterInv'
<1>0. /\ StateTypeOK /\ Counted /\ Seeded /\ Named
      /\ ~past.rolledBack => Straight
      /\ ~past.rolledBack /\ ~past.missed => Latest /\ Kept
  BY DEF OuterInv
<1>1. PICK rate \in Rates, w \in Weights \ {"none"} :
        /\ global.weights = "poisoned" => w = "poisoned"
        /\ control' = Observed(control, rate)
        /\ global' = [weights |-> w, round |-> global.round + 1, step |-> global.step + 1]
        /\ past' = IF w = global.weights THEN past
                   ELSE [past EXCEPT !.overflows = @ + 1, !.poisoned = global'.round]
  BY DEF AggregateInline
<1>2. at = "fitting" /\ at' = "merged" /\ store' = store /\ scored' \in BOOLEAN
  BY DEF AggregateInline
<1>3. /\ global'.weights = w /\ global'.round = global.round + 1
      /\ global'.step = global.step + 1
      /\ past'.attempts = past.attempts /\ past'.rolledBack = past.rolledBack
      /\ past'.missed = past.missed
      /\ past'.poisoned = IF w = global.weights THEN past.poisoned ELSE global.round + 1
  BY <1>0, <1>1 DEF StateTypeOK, Past
<1>4. /\ global.round \in Nat /\ global.step \in Nat /\ past.attempts \in Nat
      /\ past.attempts <= MaxAttempts /\ past.poisoned \in Nat /\ MaxAttempts \in Nat
      /\ global.weights \in {"finite", "poisoned"} /\ w \in {"finite", "poisoned"}
      /\ \A f \in store : f.round \in Nat /\ f.round >= 1
  BY <1>0, <1>2, OuterAssumption DEF StateTypeOK, Global, Past, File, Seeded, Weights
<1>5. StateTypeOK'
  <2>1. global' \in Global
    BY <1>0, <1>1, <1>2, <1>4 DEF Counted, Global, Weights
  <2>2. past' \in Past
    <3>1. global.round + 1 \in 0 .. MaxAttempts /\ past.overflows + 1 \in Nat
      BY <1>0, <1>2, <1>4 DEF Counted, StateTypeOK, Past
    <3>. QED  BY <1>0, <1>1, <1>3, <3>1 DEF StateTypeOK, Past
  <2>3. control' \in Control
    BY <1>0, <1>1, ObservedType DEF StateTypeOK
  <2>. QED  BY <1>0, <1>2, <2>1, <2>2, <2>3 DEF StateTypeOK
<1>6. Counted' /\ Seeded' /\ Named'
  BY <1>0, <1>2, <1>3, <1>4 DEF Counted, Seeded, Named
<1>7. Straight => Straight'
  BY <1>1, <1>2, <1>3, <1>4 DEF Straight
<1>8. Latest => Latest'
  <2>1. Latest => Stored(global.round)
    BY <1>0, <1>2 DEF Latest, Stored, Named
  <2>. QED  BY <1>2, <1>3, <1>4, <2>1 DEF Latest, Stored
<1>9. Kept => Kept'
  BY <1>2 DEF Kept, Stored
<1>. QED  BY <1>0, <1>3, <1>5, <1>6, <1>7, <1>8, <1>9 DEF OuterInv

LEMMA CheckpointKeeps ==
  ASSUME OuterInv, Checkpoint
  PROVE  OuterInv'
<1>0. /\ StateTypeOK /\ Counted /\ Seeded /\ Named
      /\ ~past.rolledBack => Straight
      /\ ~past.rolledBack /\ ~past.missed => Latest /\ Kept
  BY DEF OuterInv
<1>1. /\ at = "merged" /\ at' = "evaluating"
      /\ global' = global /\ control' = control /\ scored' = scored
  BY DEF Checkpoint
<1>2. /\ global.round \in 1 .. MaxAttempts /\ global.round \in Nat
      /\ \A f \in store : f.round \in Nat /\ f.round >= 1
  BY <1>0, <1>1, OuterAssumption DEF StateTypeOK, Global, File, Seeded
<1>3. CASE store' = Checkpointed /\ past' = past
  <2> DEFINE s == Snapshot
  <2>1. /\ s.round = global.round /\ s.tier = TierOf(global.round) /\ s.global = global
        /\ s \in File
    BY <1>0, <1>2, TierOfType DEF Snapshot, StateTypeOK, File
  <2>2. /\ store' \subseteq {f \in store : f.round # global.round} \cup {s}
        /\ (\A f \in store : f.round < global.round) =>
             /\ s \in store'
             /\ \A f \in store :
                  f.round % PersistEvery = 0
                    /\ global.round < f.round + KeepPersistent * PersistEvery
                    => f \in store'
    BY <1>0, <1>2, <1>3, CheckpointedKeeps
  <2>. HIDE DEF s
  <2>3. StateTypeOK'
    BY <1>0, <1>1, <1>3, <2>1, <2>2 DEF StateTypeOK
  <2>4. Counted' /\ Seeded'
    BY <1>0, <1>1, <1>2, <1>3, <2>1, <2>2 DEF Counted, Seeded
  <2>5. Named'
    <3>1. \A f \in store' : f = s \/ (f \in store /\ f.round # s.round)
      BY <2>1, <2>2
    <3>2. \A f, g \in store' : f.round = g.round => f = g
      BY <1>0, <3>1 DEF Named
    <3>3. s.global.step <= s.round /\ s.global.weights # "none"
      BY <1>0, <1>1, <2>1 DEF Counted, Seeded
    <3>4. \A f \in store' : /\ f.round = f.global.round /\ f.tier = TierOf(f.round)
                            /\ f.global.step <= f.round /\ f.global.weights # "none"
      BY <1>0, <2>1, <3>1, <3>3 DEF Named
    <3>. QED  BY <3>2, <3>4 DEF Named
  <2>6. Straight => Straight'
    <3>. SUFFICES ASSUME Straight PROVE Straight'
      OBVIOUS
    <3>1. \A f \in store' : f = s \/ f \in store
      BY <2>2
    <3>2. \A f \in store' : f.round <= global.round
      BY <1>1, <1>2, <2>1, <3>1 DEF Straight
    <3>3. s.global.weights = "poisoned" <=> past.poisoned > 0 /\ past.poisoned <= s.round
      BY <1>1, <2>1 DEF Straight
    <3>4. \A f \in store' : f.global.weights = "poisoned" <=>
                              past.poisoned > 0 /\ past.poisoned <= f.round
      BY <3>1, <3>3 DEF Straight
    <3>. QED  BY <1>1, <1>3, <3>2, <3>4 DEF Straight
  <2>7. ASSUME Straight, Latest, Kept
        PROVE  Latest' /\ Kept'
    <3> DEFINE r == global.round
    <3>1. r \in Nat /\ \A f \in store : f.round < r
      BY <1>1, <1>2, <2>7 DEF Straight
    <3>2. s \in store' /\ s.round = r
      BY <2>1, <2>2, <3>1
    <3>3. Latest'
      BY <1>1, <2>1, <3>2 DEF Latest
    <3>4. ASSUME NEW n \in 1 .. r, n % PersistEvery = 0,
                 r < n + KeepPersistent * PersistEvery
          PROVE  \E p \in store' : p.round = n
      <4>1. CASE n = r
        BY <3>2, <4>1
      <4>2. CASE n # r
        <5>1. r - 1 > 0 /\ n \in 1 .. r - 1
          BY <3>1, <3>4, <4>2
        <5>2. PICK h \in store : h.round = r - 1
          BY <1>1, <2>7, <5>1 DEF Latest, Stored
        <5>3. \A g \in store : g.round <= h.round
          BY <1>2, <3>1, <5>2
        <5>4. h.round < n + KeepPersistent * PersistEvery
          <6>1. KeepPersistent * PersistEvery \in Nat
            BY OuterAssumption
          <6>. QED  BY <3>1, <3>4, <5>2, <6>1
        <5>5. n \in 1 .. h.round /\ n > 0
          BY <5>1, <5>2
        <5>6. PICK p \in store : p.round = n
          BY <2>7, <3>4, <5>3, <5>4, <5>5 DEF Kept, Stored
        <5>. QED  BY <2>2, <3>1, <3>4, <5>6
      <4>. QED  BY <4>1, <4>2
    <3>5. Kept'
      <4>. SUFFICES ASSUME NEW f \in store', \A g \in store' : g.round <= f.round,
                           NEW n \in 1 .. f.round, n % PersistEvery = 0,
                           f.round < n + KeepPersistent * PersistEvery
                    PROVE  \E p \in store' : p.round = n
        BY DEF Kept, Stored
      <4>1. f.round = r
        BY <1>2, <2>1, <2>2, <3>1, <3>2
      <4>. QED  BY <3>4, <4>1
    <3>. QED  BY <3>3, <3>5
  <2>. QED  BY <1>0, <1>3, <2>3, <2>4, <2>5, <2>6, <2>7 DEF OuterInv
<1>4. CASE past' = [past EXCEPT !.missed = TRUE] /\ store' = store
  <2>1. /\ past' \in Past /\ past'.attempts = past.attempts /\ past'.poisoned = past.poisoned
        /\ past'.rolledBack = past.rolledBack /\ past'.missed = TRUE
    BY <1>0, <1>4 DEF StateTypeOK, Past
  <2>2. StateTypeOK'
    BY <1>0, <1>1, <1>4, <2>1 DEF StateTypeOK
  <2>3. Counted' /\ Seeded' /\ Named'
    BY <1>0, <1>1, <1>4, <2>1 DEF Counted, Seeded, Named
  <2>4. Straight => Straight'
    <3>1. Straight => \A f \in store : f.round <= global.round
      BY <1>1 DEF Straight
    <3>. QED  BY <1>1, <1>4, <2>1, <3>1 DEF Straight
  <2>. QED  BY <1>0, <2>1, <2>2, <2>3, <2>4 DEF OuterInv
<1>. QED  BY <1>3, <1>4 DEF Checkpoint

LEMMA CrashKeeps ==
  ASSUME OuterInv, Crash
  PROVE  OuterInv'
<1>0. /\ StateTypeOK /\ Counted /\ Seeded /\ Named
      /\ ~past.rolledBack => Straight
      /\ ~past.rolledBack /\ ~past.missed => Latest /\ Kept
  BY DEF OuterInv
<1>1. /\ at' = "down" /\ past' = [past EXCEPT !.crashes = @ + 1]
      /\ global' = global /\ control' = control /\ scored' = scored /\ store' = store
  BY DEF Crash
<1>2. /\ past' \in Past /\ past'.attempts = past.attempts /\ past'.poisoned = past.poisoned
      /\ past'.rolledBack = past.rolledBack /\ past'.missed = past.missed
  BY <1>0, <1>1 DEF StateTypeOK, Past
<1>3. StateTypeOK'
  BY <1>0, <1>1, <1>2 DEF StateTypeOK
<1>4. Counted' /\ Seeded' /\ Named'
  BY <1>0, <1>1, <1>2 DEF Counted, Seeded, Named
<1>5. Straight => Straight'
  BY <1>1, <1>2 DEF Straight
<1>6. Latest => Latest'
  <2>1. /\ at \in {"idle", "fitting", "merged", "evaluating"}
        /\ global.round \in Nat
    BY <1>0, OuterAssumption DEF Crash, StateTypeOK, Global
  <2>2. Latest => Stored(global.round) \/ Stored(global.round - 1)
    BY <1>0, <2>1 DEF Latest, Stored, Named
  <2>. QED  BY <1>1, <2>2 DEF Latest, Stored
<1>7. Kept => Kept'
  BY <1>1 DEF Kept, Stored
<1>. QED  BY <1>0, <1>2, <1>3, <1>4, <1>5, <1>6, <1>7 DEF OuterInv

LEMMA RestartKeeps ==
  ASSUME OuterInv, Restart
  PROVE  OuterInv'
<1>0. /\ StateTypeOK /\ Counted /\ Seeded /\ Named
      /\ ~past.rolledBack => Straight
      /\ ~past.rolledBack /\ ~past.missed => Latest /\ Kept
  BY DEF OuterInv
<1>1. /\ at' = "idle" /\ global' = ResumedGlobal /\ control' = ResumedControl
      /\ scored' = FALSE /\ store' = store
      /\ past' = [past EXCEPT !.rolledBack = @ \/ \E f \in store : f.round > global'.round,
                              !.poisoned = 0]
  BY DEF Restart
<1> DEFINE back == past.rolledBack \/ \E f \in store : f.round > global'.round
<1>2. /\ past' \in Past /\ past'.attempts = past.attempts /\ past'.poisoned = 0
      /\ past'.rolledBack = back /\ past'.missed = past.missed
  <2>1. back \in BOOLEAN /\ 0 \in 0 .. MaxAttempts
    BY <1>0, OuterAssumption DEF StateTypeOK, Past
  <2>2. past' = [past EXCEPT !.rolledBack = back, !.poisoned = 0]
    BY <1>0, <1>1 DEF StateTypeOK, Past
  <2>. HIDE DEF back
  <2>. QED  BY <1>0, <2>1, <2>2 DEF StateTypeOK, Past
<1>3. \/ store # {} /\ \E h \in Finite : h \in store /\ global' = h.global
                            /\ \A f \in Finite : f.round <= h.round
      \/ Finite = {} /\ global' = Cold
  <2>1. CASE Finite = {}
    BY <1>1, <2>1 DEF ResumedGlobal
  <2>2. CASE Finite # {}
    <3>1. Newest(Finite) \in Finite /\ Newest(Finite) \in store
          /\ \A f \in Finite : f.round <= Newest(Finite).round
      BY <1>0, <2>2, NewestFinite DEF Finite
    <3>. QED  BY <1>1, <2>2, <3>1 DEF ResumedGlobal
  <2>. QED  BY <2>1, <2>2
<1>4. StateTypeOK'
  BY <1>0, <1>1, <1>2, ResumedType DEF StateTypeOK
<1>5. /\ \A f \in store : f.round \in Nat /\ f.round >= 1 /\ f.global \in Global
      /\ past.attempts \in Nat /\ past.poisoned \in Nat
  BY <1>0, OuterAssumption DEF StateTypeOK, File, Past
<1>6. Counted' /\ Seeded' /\ Named'
  <2>1. global'.round <= past.attempts /\ global'.step <= global'.round
        /\ (global'.weights = "none" => global'.round = 0)
    BY <1>0, <1>3, <1>5 DEF Cold, Named, Counted
  <2>. QED  BY <1>0, <1>1, <1>2, <2>1 DEF Counted, Seeded, Named
<1>7. ~back => Straight'
  <2>. SUFFICES ASSUME ~back PROVE Straight'
    OBVIOUS
  <2>1. Straight /\ \A f \in store : f.round <= global'.round
    BY <1>0, <1>3, <1>5 DEF Named, Cold
  <2>2. global'.weights # "poisoned" /\ global'.round >= 0
    BY <1>3, <1>5 DEF Cold, Finite, Global
  <2>3. ASSUME NEW f \in store, f.global.weights = "poisoned"
        PROVE  FALSE
    <3>1. past.poisoned > 0 /\ past.poisoned <= f.round
      BY <2>1, <2>3 DEF Straight
    <3>2. CASE Finite = {} /\ global' = Cold
      BY <1>5, <2>1, <3>2 DEF Cold
    <3>3. ASSUME NEW h \in Finite, h \in store, global' = h.global PROVE FALSE
      <4>1. f.round <= h.round /\ h.round \in Nat /\ f.round \in Nat
        BY <1>0, <1>5, <2>1, <3>3 DEF Named
      <4>2. past.poisoned <= h.round
        BY <1>5, <3>1, <4>1
      <4>3. h.global.weights = "poisoned"
        BY <2>1, <3>1, <3>3, <4>2 DEF Straight
      <4>. QED  BY <4>3 DEF Finite
    <3>. QED  BY <1>3, <3>2, <3>3
  <2>. QED  BY <1>1, <1>2, <2>1, <2>2, <2>3 DEF Straight
<1>8. Latest'
  BY <1>1, <1>3 DEF Latest, Cold
<1>9. Kept => Kept'
  BY <1>1 DEF Kept, Stored
<1>. QED  BY <1>0, <1>2, <1>4, <1>6, <1>7, <1>8, <1>9 DEF OuterInv

LEMMA NextOuter ==
  ASSUME OuterInv, [Next]_vars
  PROVE  OuterInv'
<1>0. StateTypeOK
  BY DEF OuterInv
<1>1. CASE ConfigureFit
  BY <1>1, ConfigureFitKeeps
<1>2. CASE NoResults
  BY <1>0, <1>2, ControlKeeps DEF NoResults, StateTypeOK
<1>3. CASE NothingUsable
  <2>1. control' \in Control /\ scored' \in BOOLEAN
    BY <1>0, <1>3, ObservedType DEF NothingUsable, StateTypeOK
  <2>. QED  BY <1>3, <2>1, ControlKeeps DEF NothingUsable
<1>4. CASE AggregateInline
  BY <1>4, AggregateInlineKeeps
<1>5. CASE Checkpoint
  BY <1>5, CheckpointKeeps
<1>6. CASE AggregateEvaluate
  <2>1. control' \in Control /\ scored' \in BOOLEAN
    BY <1>0, <1>6, UpdateJensenType DEF AggregateEvaluate, StateTypeOK
  <2>. QED  BY <1>6, <2>1, ControlKeeps DEF AggregateEvaluate
<1>7. CASE Crash
  BY <1>7, CrashKeeps
<1>8. CASE Restart
  BY <1>8, RestartKeeps
<1>9. CASE UNCHANGED vars
  <2>1. StateTypeOK' /\ Counted' /\ Seeded' /\ Named' /\ (Straight => Straight')
        /\ (Latest => Latest') /\ (Kept => Kept')
    BY <1>9 DEF vars, OuterInv, StateTypeOK, Counted, Seeded, Named, Straight, Latest, Kept,
                Stored
  <2>. QED  BY <1>9, <2>1 DEF vars, OuterInv
<1>. QED  BY <1>1, <1>2, <1>3, <1>4, <1>5, <1>6, <1>7, <1>8, <1>9 DEF Next

\* The state has its type and the counts agree; while the server never went
\* back the poisoned files are the tail of the history; and while no write
\* failed either, the last merge and the recent persistent rounds are on disk.
THEOREM OuterInvariant == Spec => []OuterInv
BY InitOuter, NextOuter, PTL DEF Spec

-----------------------------------------------------------------------------
(* What follows from it                                                    *)

LEMMA OuterTypes == OuterInv => OuterTypeOK
<1>. SUFFICES ASSUME OuterInv PROVE OuterTypeOK
  OBVIOUS
<1>1. StateTypeOK /\ Named
  BY DEF OuterInv
<1>2. NextInnerSteps(global, control) \in Min({Floor, QsrMax}) .. QsrMax
  BY <1>1, LengthInRange DEF StateTypeOK
<1>3. \A f \in store : /\ f.round = f.global.round /\ f.tier \in Tier
                       /\ f.global \in Global /\ f.control \in Control
  BY <1>1 DEF StateTypeOK, Named, File
<1>4. /\ at \in {"idle", "fitting", "merged", "evaluating", "down"} /\ scored \in BOOLEAN
      /\ global \in Global /\ control \in Control
  BY <1>1 DEF StateTypeOK
<1>. QED  BY <1>2, <1>3, <1>4 DEF OuterTypeOK

LEMMA LastMergeOnDisk == OuterInv => RecoversLastMerge
<1>. SUFFICES ASSUME OuterInv, at \in {"idle", "fitting", "evaluating"},
                     global.weights = "finite", global.round > 0,
                     ~past.rolledBack, ~past.missed
              PROVE  ResumedGlobal = global
  BY DEF RecoversLastMerge
<1>1. StateTypeOK /\ Named /\ Straight /\ Latest
  BY DEF OuterInv
<1>2. PICK f \in store : f.global = global
  BY <1>1 DEF Latest
<1>3. f \in Finite
  BY <1>2 DEF Finite
<1> DEFINE h == Newest(Finite)
<1>4. h \in store /\ f.round <= h.round
  BY <1>1, <1>3, NewestFinite
<1>5. h.round <= f.round
  BY <1>1, <1>2, <1>4 DEF Straight, Named
<1>6. f.round \in Int /\ h.round \in Int
  BY <1>1, <1>2, <1>4 DEF StateTypeOK, File
<1>7. h = f
  BY <1>1, <1>2, <1>4, <1>5, <1>6 DEF Named
<1>. QED  BY <1>2, <1>3, <1>7 DEF ResumedGlobal

LEMMA HistoryReaches == OuterInv => RollbackReaches
<1> DEFINE last == (past.poisoned - 1) - ((past.poisoned - 1) % PersistEvery)
<1>. SUFFICES ASSUME OuterInv, past.poisoned > 0, last > 0,
                     global.round < last + KeepPersistent * PersistEvery,
                     ~past.rolledBack, ~past.missed
              PROVE  Finite # {}
  BY DEF RollbackReaches
<1>1. StateTypeOK /\ Named /\ Straight /\ Latest /\ Kept /\ Seeded
  BY DEF OuterInv
<1>2. /\ past.poisoned \in Nat /\ past.poisoned - 1 \in Nat /\ PersistEvery \in Nat \ {0} /\ global.round \in Nat
      /\ KeepPersistent * PersistEvery \in Nat /\ past.poisoned <= global.round
  BY <1>1, OuterAssumption DEF StateTypeOK, Past, Global, Straight
<1>3. last % PersistEvery = 0 /\ last \in Nat /\ last < past.poisoned
  <2> DEFINE b == past.poisoned - 1
             P == PersistEvery
             q == b \div P
             m == b % P
  <2>1. b \in Nat /\ P \in Nat \ {0}
    BY <1>2
  <2>. HIDE DEF b, P
  <2>2. q \in Nat /\ m \in 0 .. P - 1 /\ b = P * q + m
    BY <2>1, Division
  <2>. HIDE DEF q, m
  <2>3. b - m = P * q /\ b - m \in Nat /\ b - m <= b
    BY <2>1, <2>2
  <2>4. (P * q) % P = 0
    BY <2>1, <2>2
  <2>5. (b - m) % P = 0
    BY <2>3, <2>4
  <2>6. last % PersistEvery = 0
    BY <2>5 DEF b, m, P
  <2>7. last \in Nat /\ last <= past.poisoned - 1
    BY <2>3 DEF b, m, P
  <2>8. past.poisoned \in Int
    BY <1>1 DEF StateTypeOK, Past
  <2>. HIDE DEF last
  <2>. QED  BY <2>6, <2>7, <2>8
<1>. HIDE DEF last
<1>4. \E f \in store : f.round = last
  <2>1. ASSUME NEW n \in Nat, n > 0, n <= global.round, Stored(n),
               \A g \in store : g.round <= n,
               last <= n
        PROVE  \E f \in store : f.round = last
    <3>1. PICK h \in store : h.round = n
      BY <2>1 DEF Stored
    <3>2. last \in 1 .. h.round /\ h.round < last + KeepPersistent * PersistEvery
      BY <1>2, <1>3, <2>1, <3>1
    <3>. QED  BY <1>1, <1>3, <2>1, <3>1, <3>2 DEF Kept, Stored
  <2> DEFINE r == global.round
  <2>2. r \in Nat /\ last <= r - 1 /\ last <= r /\ r > 0 /\ r - 1 > 0 /\ r - 1 \in Nat
    BY <1>2, <1>3
  <2>3. \A f \in store : f.round \in Nat /\ f.round <= r
    BY <1>1, OuterAssumption DEF StateTypeOK, File, Straight
  <2>4. CASE Stored(r)
    BY <2>1, <2>2, <2>3, <2>4
  <2>5. CASE ~Stored(r) /\ Stored(r - 1)
    <3>1. \A f \in store : f.round <= r - 1
      BY <2>2, <2>3, <2>5 DEF Stored
    <3>. QED  BY <2>1, <2>2, <2>5, <3>1
  <2>6. Stored(r) \/ Stored(r - 1)
    BY <1>1, <2>2 DEF StateTypeOK, Latest, Stored, Named
  <2>. QED  BY <2>4, <2>5, <2>6
<1>5. PICK f \in store : f.round = last
  BY <1>4
<1>6. f.global.weights \in Weights /\ f.global.weights # "none"
  BY <1>1 DEF StateTypeOK, File, Global, Named
<1>7. f.global.weights # "poisoned"
  BY <1>1, <1>2, <1>3, <1>5 DEF Straight
<1>. QED  BY <1>5, <1>6, <1>7 DEF Finite, Weights

\* The state has its type, and H is between half its base and the cap.
THEOREM OuterTypeCorrect == Spec => []OuterTypeOK
BY OuterInvariant, OuterTypes, PTL

\* A restart adopts the merge that was checkpointed last.
THEOREM LastMergeIsRecovered == Spec => []RecoversLastMerge
BY OuterInvariant, LastMergeOnDisk, PTL

\* A poisoned run still has a finite checkpoint while the persistent ones
\* written since are fewer than kept.
THEOREM RollbackIsReached == Spec => []RollbackReaches
BY OuterInvariant, HistoryReaches, PTL
=============================================================================
