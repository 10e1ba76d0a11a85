-------------------------- MODULE SysmonHostProofs --------------------------
(***************************************************************************)
(* The series of the cores and the usage that is exported, for any set of  *)
(* cores and any length of time: sums over the cores, the ratio of two     *)
(* readings of a line, and the baseline it is computed against.            *)
(***************************************************************************)
EXTENDS SysmonHost, Induction

-----------------------------------------------------------------------------
(* Sums over finite sets. *)

Chosen(s) == CHOOSE x \in s : TRUE
Sum(f, g, s) == IF s = {} THEN 0 ELSE f[Chosen(s)] + g[s \ {Chosen(s)}]
Sums(S, f, g) == g = [s \in SUBSET S |-> Sum(f, g, s)]

Solution(S, f) == CHOOSE g : Sums(S, f, g)

LEMMA SumOverIsSolution ==
    ASSUME NEW S, NEW f
    PROVE  SumOver(S, f) = Solution(S, f)[S]
    BY Zenon DEF SumOver, MapThenSumSet, MapThenFoldSet, Sums, Sum, Chosen, Solution

\* The recursion of a sum over a finite set has a solution.
LEMMA SumsExist ==
    ASSUME NEW S, IsFiniteSet(S), NEW f
    PROVE  \E g : Sums(S, f, g)
<1> DEFINE Small(n) == {s \in SUBSET S : Cardinality(s) <= n}
           Part(n, g) == g = [s \in Small(n) |-> Sum(f, g, s)]
           T == {n \in Nat : \E g : Part(n, g)}
<1>1. \A s \in SUBSET S : IsFiniteSet(s) /\ Cardinality(s) \in Nat
    BY FS_Subset, FS_CardinalityType
<1>2. 0 \in T
    <2>1. Part(0, [s \in Small(0) |-> 0])
        <3>1. \A s \in Small(0) : s = {}
            BY <1>1, FS_EmptySet
        <3> QED
            BY <3>1 DEF Sum
    <2> QED
        BY <2>1
<1>3. ASSUME NEW n \in Nat, n \in T PROVE n + 1 \in T
    <2>1. PICK g : Part(n, g)
        BY <1>3
    <2> DEFINE h == [s \in Small(n + 1) |-> Sum(f, g, s)]
    <2>2. ASSUME NEW s \in Small(n + 1) PROVE Sum(f, h, s) = Sum(f, g, s)
        <3>1. CASE s = {}
            BY <3>1 DEF Sum
        <3>2. CASE s # {}
            <4> DEFINE u == s \ {Chosen(s)}
            <4>1. Chosen(s) \in s
                BY <3>2 DEF Chosen
            <4>2. u \in Small(n) /\ u \in Small(n + 1)
                BY <1>1, <4>1, FS_RemoveElement
            <4>3. h[u] = g[u]
                BY <2>1, <4>2
            <4> QED
                BY <3>2, <4>3 DEF Sum
        <3> QED
            BY <3>1, <3>2
    <2>3. Part(n + 1, h)
        BY <2>2
    <2> HIDE DEF Part, h
    <2> QED
        BY <2>3
<1>4. \A n \in Nat : n \in T
    <2> HIDE DEF T
    <2> QED
        BY <1>2, <1>3, NumberInduction
<1>5. PICK g : Part(Cardinality(S), g)
    BY <1>1, <1>4
<1>6. Small(Cardinality(S)) = SUBSET S
    BY <1>1, FS_Subset
<1> QED
    BY <1>5, <1>6 DEF Sums

\* It is a sum of every subset.
LEMMA SumOverUnfolds ==
    ASSUME NEW S, IsFiniteSet(S), NEW f
    PROVE  /\ SumOver(S, f) = Solution(S, f)[S]
           /\ \A s \in SUBSET S : Solution(S, f)[s] = Sum(f, Solution(S, f), s)
<1>1. Sums(S, f, Solution(S, f))
    BY SumsExist DEF Solution
<1> QED
    BY <1>1, SumOverIsSolution DEF Sums

\* A sum of natural numbers is one, and is zero if all of them are.
LEMMA SumIsNat ==
    ASSUME NEW S, IsFiniteSet(S), NEW f, \A x \in S : f[x] \in Nat
    PROVE  /\ SumOver(S, f) \in Nat
           /\ (\A x \in S : f[x] = 0) => SumOver(S, f) = 0
<1> DEFINE g == Solution(S, f)
<1>1. SumOver(S, f) = g[S] /\ \A s \in SUBSET S : g[s] = Sum(f, g, s)
    BY SumOverUnfolds
<1> HIDE DEF g
<1> DEFINE T == {s \in SUBSET S : g[s] \in Nat /\ ((\A x \in S : f[x] = 0) => g[s] = 0)}
<1>2. {} \in T
    <2>1. g[{}] = 0
        BY <1>1, {} \in SUBSET S DEF Sum
    <2> QED
        BY <2>1
<1>3. ASSUME NEW s \in SUBSET S, s # {}, \A x \in s : s \ {x} \in T PROVE s \in T
    <2>1. Chosen(s) \in s
        BY <1>3 DEF Chosen
    <2>2. g[s] = f[Chosen(s)] + g[s \ {Chosen(s)}]
        BY <1>1, <1>3 DEF Sum
    <2>3. g[s \ {Chosen(s)}] \in Nat /\ ((\A x \in S : f[x] = 0) => g[s \ {Chosen(s)}] = 0)
        BY <1>3, <2>1
    <2>4. f[Chosen(s)] \in Nat /\ ((\A x \in S : f[x] = 0) => f[Chosen(s)] = 0)
        BY <2>1
    <2>5. g[s] \in Nat /\ ((\A x \in S : f[x] = 0) => g[s] = 0)
        BY <2>2, <2>3, <2>4
    <2> QED
        BY <2>5
<1>4. S \in T
    <2> HIDE DEF T
    <2>1. \A s \in SUBSET S : s \in T
        BY <1>2, <1>3, SubsetInduction
    <2> QED
        BY <2>1
<1> QED
    BY <1>1, <1>4

\* A sum grows with its terms.
LEMMA SumIsMonotone ==
    ASSUME NEW S, IsFiniteSet(S), NEW lo, NEW hi,
           \A x \in S : lo[x] \in Nat /\ hi[x] \in Nat /\ lo[x] <= hi[x]
    PROVE  SumOver(S, lo) <= SumOver(S, hi)
<1> DEFINE low  == Solution(S, lo)
           high == Solution(S, hi)
<1>1. SumOver(S, lo) = low[S] /\ \A s \in SUBSET S : low[s] = Sum(lo, low, s)
    BY SumOverUnfolds
<1>2. SumOver(S, hi) = high[S] /\ \A s \in SUBSET S : high[s] = Sum(hi, high, s)
    BY SumOverUnfolds
<1> HIDE DEF low, high
<1> DEFINE T == {s \in SUBSET S : low[s] \in Nat /\ high[s] \in Nat /\ low[s] <= high[s]}
<1>3. {} \in T
    <2>1. low[{}] = 0 /\ high[{}] = 0
        BY <1>1, <1>2, {} \in SUBSET S DEF Sum
    <2> QED
        BY <2>1
<1>4. ASSUME NEW s \in SUBSET S, s # {}, \A x \in s : s \ {x} \in T PROVE s \in T
    <2> DEFINE x == Chosen(s)
               u == s \ {x}
    <2>1. x \in s
        BY <1>4 DEF Chosen
    <2>2. low[s] = lo[x] + low[u] /\ high[s] = hi[x] + high[u]
        BY <1>1, <1>2, <1>4 DEF Sum
    <2>3. low[u] \in Nat /\ high[u] \in Nat /\ low[u] <= high[u]
        BY <1>4, <2>1
    <2>4. lo[x] \in Nat /\ hi[x] \in Nat /\ lo[x] <= hi[x]
        BY <2>1
    <2> HIDE DEF x, u
    <2>5. low[s] \in Nat /\ high[s] \in Nat /\ low[s] <= high[s]
        BY <2>2, <2>3, <2>4
    <2> QED
        BY <2>5
<1>5. S \in T
    <2> HIDE DEF T
    <2>1. \A s \in SUBSET S : s \in T
        BY <1>3, <1>4, SubsetInduction
    <2> QED
        BY <2>1
<1> QED
    BY <1>1, <1>2, <1>5

-----------------------------------------------------------------------------
(* The counters and what is read of them. *)

\* The cores a line is summed over.
LEMMA LineIsSum ==
    ASSUME NEW x \in Names
    PROVE  \E S \in SUBSET Cores :
              IsFiniteSet(S) /\ LineOf(x) = Line(S) /\ LineOf(x)' = Line(S)'
<1>1. CASE x = "cpu"
    BY <1>1, HostAssumption DEF LineOf
<1>2. CASE x # "cpu"
    BY <1>2, FS_Singleton DEF LineOf, Names
<1> QED
    BY <1>1, <1>2

\* A line read now is three natural numbers, and counts the time of guests twice.
LEMMA LineFacts ==
    ASSUME CountersOK, NEW x \in Names
    PROVE  /\ LineOf(x) \in Counter
           /\ Surplus(LineOf(x)) \in Nat
           /\ "guest" \notin Kinds => Surplus(LineOf(x)) = 0
<1>1. PICK S \in SUBSET Cores : IsFiniteSet(S) /\ LineOf(x) = Line(S)
    BY LineIsSum
<1>2. SumOver(S, user) \in Nat /\ SumOver(S, guest) \in Nat /\ SumOver(S, idle) \in Nat
    BY <1>1, SumIsNat DEF CountersOK
<1>3. "guest" \notin Kinds => SumOver(S, guest) = 0
    BY <1>1, SumIsNat DEF CountersOK
<1>4. LineOf(x) \in Counter
    BY <1>1, <1>2 DEF Line, Counter
<1>5. Surplus(LineOf(x)) = SumOver(S, guest)
    BY <1>1, <1>2 DEF Line, Surplus
<1> QED
    BY <1>2, <1>3, <1>4, <1>5

\* A line moves on with the user time and the guest time of the cores.
LEMMA LineGrows ==
    ASSUME CountersOK, CountersOK', NEW x \in Names,
           \A c \in Cores : user[c] <= user'[c] /\ guest[c] <= guest'[c]
    PROVE  LineOf(x)' \in Counter /\ Behind(LineOf(x), LineOf(x)')
<1>1. PICK S \in SUBSET Cores :
          IsFiniteSet(S) /\ LineOf(x) = Line(S) /\ LineOf(x)' = Line(S)'
    BY LineIsSum
<1>2. /\ SumOver(S, user) \in Nat /\ SumOver(S, user') \in Nat
      /\ SumOver(S, guest) \in Nat /\ SumOver(S, guest') \in Nat
      /\ SumOver(S, idle) \in Nat /\ SumOver(S, idle') \in Nat
    BY <1>1, SumIsNat DEF CountersOK
<1>3. SumOver(S, user) <= SumOver(S, user')
    BY <1>1, SumIsMonotone DEF CountersOK
<1>4. SumOver(S, guest) <= SumOver(S, guest')
    BY <1>1, SumIsMonotone DEF CountersOK
<1>5. LineOf(x).busy = SumOver(S, user) /\ LineOf(x)'.busy = SumOver(S, user')
    BY <1>1 DEF Line
<1>6. Surplus(LineOf(x)) = SumOver(S, guest) /\ Surplus(LineOf(x)') = SumOver(S, guest')
    BY <1>1, <1>2 DEF Line, Surplus
<1>7. LineOf(x)' \in Counter
    BY <1>1, <1>2 DEF Line, Counter
<1> QED
    BY <1>2, <1>3, <1>4, <1>5, <1>6, <1>7 DEF Behind

\* A reading is behind itself, and behind what one it is behind is behind.
LEMMA BehindIsOrder ==
    ASSUME NEW a \in Counter, NEW b \in Counter, NEW c \in Counter
    PROVE  /\ Surplus(a) \in Nat => Behind(a, a)
           /\ Behind(a, b) /\ Behind(b, c) => Behind(a, c)
    BY DEF Behind, Surplus, Counter

-----------------------------------------------------------------------------
(* The series of the cores. *)

\* The series after UpdateHost are those of the sample, if the exporter knew of
\* all the series there were.
LEMMA RecordCoresDomain ==
    ASSUME NEW sample, coresByHost = DOMAIN perCore
    PROVE  DOMAIN RecordCores(sample) = DOMAIN sample
    BY DEF RecordCores

\* A complete snapshot has a usage for the cores that were in the one before.
LEMMA SnapshotDoneKeepsBaseline ==
    ASSUME BaselineInv, SnapshotDone
    PROVE  BaselineInv'
<1> USE DEF SnapshotDone
<1>1. DOMAIN perCore' = DOMAIN CoreUsage /\ coresByHost' = DOMAIN CoreUsage
    BY RecordCoresDomain DEF BaselineInv
<1>2. DOMAIN truth' = DOMAIN complete \cap DOMAIN curr
    OBVIOUS
<1>3. DOMAIN CoreUsage = IF PerCore THEN DOMAIN truth' \ {"cpu"} ELSE {}
    <2>1. CASE started /\ PerCore
        BY <1>2, <2>1 DEF BaselineInv, CoreUsage
    <2>2. CASE ~(started /\ PerCore)
        <3>1. DOMAIN CoreUsage = {}
            BY <2>2 DEF CoreUsage, Nothing
        <3> QED
            BY <1>2, <2>2, <3>1 DEF BaselineInv
    <2> QED
        BY <2>1, <2>2
<1> QED
    BY <1>1, <1>3 DEF BaselineInv, CoresAreCurrent

\* The ratio of any two readings is between zero and one.
THEOREM RatioIsBounded ==
    ASSUME NEW p \in Counter, NEW c \in Counter
    PROVE  RatioOf(p, c).n <= RatioOf(p, c).d /\ Ratio(RatioOf(p, c))
<1> DEFINE deltaTotal == c.total - p.total
           sinceReset == IF c.idle >= p.idle THEN c.idle - p.idle ELSE c.idle
           deltaIdle  == IF sinceReset > deltaTotal THEN deltaTotal ELSE sinceReset
<1>1. p.total \in Nat /\ c.total \in Nat /\ p.idle \in Nat /\ c.idle \in Nat
    BY DEF Counter
<1>2. CASE c.total <= p.total
    <2>1. RatioOf(p, c) = Zero
        BY <1>2 DEF RatioOf
    <2> QED
        BY <2>1 DEF Zero, Ratio
<1>3. CASE ~(c.total <= p.total)
    <2>1. RatioOf(p, c) = [n |-> deltaTotal - deltaIdle, d |-> deltaTotal]
        BY <1>3 DEF RatioOf
    <2>2. deltaTotal \in Nat \ {0} /\ deltaIdle \in 0 .. deltaTotal
        BY <1>1, <1>3
    <2> HIDE DEF deltaTotal, deltaIdle
    <2> QED
        BY <2>1, <2>2 DEF Ratio
<1> QED
    BY <1>2, <1>3

\* Where the fields of a line are disjoint, as they are without guests, the
\* ratio of two readings is the share of the time between them that was busy,
\* and an idle counter that went back hides usage and makes up none.
THEOREM RatioIsTruthful ==
    ASSUME NEW p \in Counter, NEW c \in Counter,
           p.total = p.busy + p.idle, c.total = c.busy + c.idle, c.busy >= p.busy
    PROVE  Truthful(RatioOf(p, c), Spent(p, c))
<1> DEFINE busy == c.busy - p.busy
           spentIdle == c.idle - p.idle
           r == RatioOf(p, c)
<1>1. /\ p.total \in Nat /\ c.total \in Nat /\ p.idle \in Nat /\ c.idle \in Nat
      /\ p.busy \in Nat /\ c.busy \in Nat
    BY DEF Counter
<1>2. Spent(p, c).busy = busy /\ Spent(p, c).idle = spentIdle
    BY DEF Spent
<1>3. busy \in Nat /\ spentIdle \in Int /\ c.total - p.total = busy + spentIdle
    BY <1>1
<1>4. ASSUME spentIdle >= 0, busy + spentIdle > 0
      PROVE  r.n = busy /\ r.d = busy + spentIdle
    BY <1>1, <1>3, <1>4 DEF RatioOf
<1>5. ASSUME busy + spentIdle <= 0 PROVE r.n = 0
    BY <1>1, <1>3, <1>5 DEF RatioOf, Zero
<1>6. ASSUME busy = 0 PROVE r.n = 0 \/ spentIdle < 0
    BY <1>1, <1>3, <1>4, <1>5, <1>6
<1>7. spentIdle >= 0 /\ busy + spentIdle > 0 => r.n * (busy + spentIdle) = busy * r.d
    BY <1>4
<1>8. ASSUME spentIdle < 0 PROVE r.n \in 0 .. busy
    <2>1. CASE c.total <= p.total
        BY <1>3, <2>1 DEF RatioOf, Zero
    <2>2. CASE ~(c.total <= p.total)
        BY <1>1, <1>3, <1>8, <2>2 DEF RatioOf
    <2> QED
        BY <2>1, <2>2
<1> HIDE DEF busy, spentIdle, r
<1>9. Truthful(r, Spent(p, c))
    BY <1>2, <1>5, <1>6, <1>7, <1>8 DEF Truthful, SameRatio
<1> QED
    BY <1>9 DEF r

\* With guests, the ratio of two readings is at least the share of the time that
\* was busy: what is counted twice enlarges both the numerator and the denominator.
THEOREM RatioIsNotUnderstated ==
    ASSUME NEW p \in Counter, NEW c \in Counter, Behind(p, c)
    PROVE  NotUnderstated(RatioOf(p, c), Spent(p, c))
<1> DEFINE busy == c.busy - p.busy
           more == Surplus(c) - Surplus(p)
           spentIdle == c.idle - p.idle
           r == RatioOf(p, c)
<1>1. /\ p.total \in Nat /\ c.total \in Nat /\ p.idle \in Nat /\ c.idle \in Nat
      /\ p.busy \in Nat /\ c.busy \in Nat
    BY DEF Counter
<1>2. Spent(p, c).busy = busy /\ Spent(p, c).idle = spentIdle
    BY DEF Spent
<1>3. busy \in Nat /\ more \in Nat /\ spentIdle \in Int
    BY <1>1 DEF Behind, Surplus
<1>4. c.total - p.total = busy + more + spentIdle
    BY <1>1 DEF Surplus
<1>5. ASSUME spentIdle >= 0, busy + spentIdle > 0
      PROVE  r.n = busy + more /\ r.d = busy + more + spentIdle
    <2> HIDE DEF more
    <2> QED
        BY <1>1, <1>3, <1>4, <1>5 DEF RatioOf
<1> HIDE DEF busy, more, spentIdle, r
<1>6. ASSUME spentIdle >= 0
      PROVE  (busy + more) * (busy + spentIdle) >= busy * (busy + more + spentIdle)
    <2>1. more * spentIdle \in Nat
        BY <1>3, <1>6
    <2>2. (busy + more) * (busy + spentIdle) = busy * (busy + more + spentIdle) + more * spentIdle
        BY <1>3
    <2>3. busy * (busy + more + spentIdle) \in Int
        BY <1>3
    <2> QED
        BY <2>1, <2>2, <2>3
<1>7. spentIdle >= 0 /\ busy + spentIdle > 0 => r.n * (busy + spentIdle) >= busy * r.d
    BY <1>5, <1>6
<1> QED
    BY <1>2, <1>7 DEF NotUnderstated, r

-----------------------------------------------------------------------------
(* The inductive invariant. *)

LEMMA ZeroFacts == Ratio(Zero) /\ Zero.n <= Zero.d
    BY DEF Ratio, Zero

LEMMA InitEstablishes == Init => IInv
<1> SUFFICES ASSUME Init PROVE IInv
    OBVIOUS
<1> USE HostAssumption DEF Init, Nothing
<1>1. TypeOK
    <2>1. 0 \in 0 .. MaxTime
        OBVIOUS
    <2>2. \A c \in Cores : user[c] = 0 /\ guest[c] = 0 /\ idle[c] = 0
        OBVIOUS
    <2>3. DOMAIN prev = {} /\ DOMAIN curr = {} /\ DOMAIN perCore = {}
        OBVIOUS
    <2> QED
        BY <2>1, <2>2, <2>3, ZeroFacts DEF TypeOK
<1>2. BaselineInv
    BY DEF BaselineInv, CoresAreCurrent
<1>3. CountersOK
    BY DEF CountersOK
<1>4. ReadingsOK
    BY DEF ReadingsOK
<1>5. UsageTruthful /\ UsageNotUnderstated
    BY DEF UsageTruthful, UsageNotUnderstated
<1> QED
    BY <1>1, <1>2, <1>3, <1>4, <1>5 DEF IInv

LEMMA RestartPreserves ==
    ASSUME IInv, Restart
    PROVE  IInv'
<1> USE DEF IInv, Restart, Nothing, worldVars
<1>1. TypeOK'
    BY ZeroFacts DEF TypeOK
<1>2. BaselineInv'
    BY DEF BaselineInv, CoresAreCurrent
<1>3. CountersOK'
    BY DEF CountersOK
<1>4. ReadingsOK'
    BY DEF ReadingsOK
<1>5. UsageTruthful' /\ UsageNotUnderstated'
    BY DEF UsageTruthful, UsageNotUnderstated
<1> QED
    BY <1>1, <1>2, <1>3, <1>4, <1>5

\* What is read now is behind nothing yet, and not behind what was read before.
LEMMA ReadStatPreserves ==
    ASSUME IInv, ReadStat
    PROVE  IInv'
<1> USE DEF ReadStat, worldVars, exporterVars
<1>1. DOMAIN curr' = online \cup {"cpu"} /\ \A x \in DOMAIN curr' : curr'[x] = LineOf(x)
    BY DEF ParseCPUStat
<1>2. DOMAIN curr' \subseteq Names
    BY <1>1 DEF IInv, TypeOK, Names
<1>3. TypeOK'
    <2>1. \A x \in DOMAIN curr' : curr'[x] \in Counter
        BY <1>1, <1>2, LineFacts DEF IInv
    <2> QED
        BY <1>2, <2>1 DEF IInv, TypeOK
<1>4. BaselineInv'
    BY DEF IInv, BaselineInv, CoresAreCurrent
<1>5. CountersOK'
    BY DEF IInv, CountersOK
<1>6. ReadingsOK'
    <2>1. \A x : LineOf(x)' = LineOf(x)
        BY DEF LineOf, Line
    <2>2. \A x \in DOMAIN complete : Behind(complete[x], LineOf(x)')
        BY <2>1 DEF IInv, ReadingsOK
    <2>3. \A x \in DOMAIN curr' : Behind(curr'[x], LineOf(x)')
        BY <1>1, <1>2, <2>1, LineFacts, BehindIsOrder DEF IInv
    <2>4. \A x \in DOMAIN complete \cap DOMAIN curr' : Behind(complete[x], curr'[x])
        BY <1>1 DEF IInv, ReadingsOK
    <2> QED
        BY <1>1, <2>2, <2>3, <2>4 DEF ReadingsOK
<1>7. UsageNotUnderstated' /\ ("guest" \notin Kinds => UsageTruthful')
    BY DEF IInv, UsageTruthful, UsageNotUnderstated
<1> QED
    BY <1>3, <1>4, <1>5, <1>6, <1>7 DEF IInv

LEMMA SnapshotFailsPreserves ==
    ASSUME IInv, SnapshotFails
    PROVE  IInv'
<1> USE DEF IInv, SnapshotFails, Nothing, worldVars, exporterVars
<1>1. TypeOK'
    BY DEF TypeOK
<1>2. BaselineInv'
    BY DEF BaselineInv, CoresAreCurrent
<1>3. CountersOK'
    BY DEF CountersOK
<1>4. ReadingsOK'
    <2>1. \A x : LineOf(x)' = LineOf(x)
        BY DEF LineOf, Line
    <2> QED
        BY <2>1 DEF ReadingsOK
<1>5. UsageNotUnderstated' /\ ("guest" \notin Kinds => UsageTruthful')
    BY DEF UsageTruthful, UsageNotUnderstated
<1> QED
    BY <1>1, <1>2, <1>3, <1>4, <1>5

\* The ratio of a line that is in the last complete snapshot and in this one.
LEMMA LineRatio ==
    ASSUME IInv, NEW x \in DOMAIN complete \cap DOMAIN curr
    PROVE  /\ Ratio(RatioOf(prev[x], curr[x]))
           /\ RatioOf(prev[x], curr[x]).n <= RatioOf(prev[x], curr[x]).d
           /\ NotUnderstated(RatioOf(prev[x], curr[x]), Spent(complete[x], curr[x]))
           /\ "guest" \notin Kinds =>
                 Truthful(RatioOf(prev[x], curr[x]), Spent(complete[x], curr[x]))
<1>1. prev = complete
    BY DEF IInv, BaselineInv
<1>2. prev[x] \in Counter /\ curr[x] \in Counter
    BY <1>1 DEF IInv, TypeOK
<1>3. Ratio(RatioOf(prev[x], curr[x])) /\ RatioOf(prev[x], curr[x]).n <= RatioOf(prev[x], curr[x]).d
    BY <1>2, RatioIsBounded
<1>4. Behind(prev[x], curr[x])
    BY <1>1 DEF IInv, ReadingsOK
<1>5. NotUnderstated(RatioOf(prev[x], curr[x]), Spent(complete[x], curr[x]))
    BY <1>1, <1>2, <1>4, RatioIsNotUnderstated
<1>6. ASSUME "guest" \notin Kinds
      PROVE  Truthful(RatioOf(prev[x], curr[x]), Spent(complete[x], curr[x]))
    <2>1. x \in Names /\ Surplus(LineOf(x)) = 0
        BY <1>6, LineFacts DEF IInv, TypeOK
    <2>2. Surplus(prev[x]) = 0 /\ Surplus(curr[x]) = 0
        BY <1>1, <2>1 DEF IInv, ReadingsOK, Behind
    <2>3. prev[x].total = prev[x].busy + prev[x].idle /\ curr[x].total = curr[x].busy + curr[x].idle
        BY <1>2, <2>2 DEF Surplus, Counter
    <2>4. curr[x].busy >= prev[x].busy
        BY <1>2, <1>4 DEF Behind, Counter
    <2> QED
        BY <1>1, <1>2, <2>3, <2>4, RatioIsTruthful
<1> QED
    BY <1>3, <1>5, <1>6

\* What a snapshot reports of the cores is a ratio of a line each.
LEMMA CoreUsageFacts ==
    ASSUME IInv, NEW c \in DOMAIN CoreUsage
    PROVE  /\ c \in Cores /\ c \in DOMAIN complete \cap DOMAIN curr
           /\ CoreUsage[c] = RatioOf(prev[c], curr[c])
<1>1. started /\ PerCore
    BY DEF CoreUsage, Nothing
<1>2. c \in (DOMAIN curr \cap DOMAIN prev) \ {"cpu"} /\ CoreUsage[c] = RatioOf(prev[c], curr[c])
    BY <1>1 DEF CoreUsage
<1> QED
    BY <1>2 DEF IInv, TypeOK, BaselineInv, Names

\* The counters do not change with what is done with their readings.
LEMMA SameCounters ==
    ASSUME IInv, UNCHANGED <<user, guest, idle>>
    PROVE  CountersOK' /\ \A x : LineOf(x)' = LineOf(x)
    BY DEF IInv, CountersOK, LineOf, Line

LEMMA SnapshotDonePreserves ==
    ASSUME IInv, SnapshotDone
    PROVE  IInv'
<1> USE DEF SnapshotDone, worldVars
<1>1. prev = complete /\ (~started => DOMAIN complete = {}) /\ "cpu" \in DOMAIN curr
    BY DEF IInv, BaselineInv, ReadingsOK
<1>2. total' = IF "cpu" \in DOMAIN complete THEN RatioOf(prev["cpu"], curr["cpu"]) ELSE Zero
    BY <1>1 DEF TotalUsage
<1>3. /\ DOMAIN perCore' = DOMAIN CoreUsage
      /\ \A c \in DOMAIN CoreUsage : perCore'[c] = CoreUsage[c]
    BY DEF IInv, BaselineInv, RecordCores
<1>4. DOMAIN curr' = {} /\ DOMAIN complete' = DOMAIN curr
    BY DEF Nothing
<1>5. TypeOK'
    <2>1. Ratio(total)' /\ (total.n <= total.d)'
        BY <1>1, <1>2, LineRatio, ZeroFacts
    <2>2. \E m \in Memory : resident' = ResidentOf(m)
        OBVIOUS
    <2>3. resident' = 0 \/ \E m \in Memory : resident' \in 1 .. m.total
        BY <2>2, HostAssumption DEF ResidentOf
    <2>4. \A c \in DOMAIN perCore' :
              c \in Cores /\ Ratio(perCore'[c]) /\ perCore'[c].n <= perCore'[c].d
        BY <1>3, CoreUsageFacts, LineRatio
    <2>5. coresByHost' = DOMAIN perCore'
        BY <1>3
    <2> QED
        BY <1>4, <2>1, <2>3, <2>4, <2>5 DEF IInv, TypeOK
<1>6. BaselineInv'
    BY SnapshotDoneKeepsBaseline DEF IInv
<1>7. CountersOK'
    BY SameCounters
<1>8. ReadingsOK'
    BY <1>4, SameCounters DEF IInv, ReadingsOK
<1>9. /\ DOMAIN truth' = DOMAIN complete \cap DOMAIN curr
      /\ \A x \in DOMAIN truth' : truth'[x] = Spent(complete[x], curr[x])
    OBVIOUS
<1>10. UsageNotUnderstated'
    <2>1. "cpu" \in DOMAIN truth' => NotUnderstated(total', truth'["cpu"])
        BY <1>2, <1>9, LineRatio
    <2>2. \A c \in DOMAIN perCore' : NotUnderstated(perCore'[c], truth'[c])
        BY <1>3, <1>9, CoreUsageFacts, LineRatio
    <2> QED
        BY <2>1, <2>2 DEF UsageNotUnderstated, NotUnderstated
<1>11. ASSUME "guest" \notin Kinds PROVE UsageTruthful'
    <2>1. "cpu" \in DOMAIN truth' => Truthful(total', truth'["cpu"])
        BY <1>2, <1>9, <1>11, LineRatio
    <2>2. \A c \in DOMAIN perCore' : c \in DOMAIN truth' /\ Truthful(perCore'[c], truth'[c])
        BY <1>3, <1>9, <1>11, CoreUsageFacts, LineRatio
    <2> QED
        BY <2>1, <2>2 DEF UsageTruthful, Truthful, SameRatio
<1> QED
    BY <1>5, <1>6, <1>7, <1>8, <1>10, <1>11 DEF IInv

\* The counters move on, and those of busy time and of guests only forwards.
LEMMA CountersMove ==
    ASSUME IInv, CountersOK',
           \A c \in Cores : user[c] <= user'[c] /\ guest[c] <= guest'[c],
           online' \subseteq Cores, UNCHANGED <<collectorVars, exporterVars>>
    PROVE  IInv'
<1> USE DEF collectorVars, exporterVars
<1>1. TypeOK'
    <2>1. \A c \in Cores :
              user'[c] \in 0 .. MaxTime /\ guest'[c] \in 0 .. MaxTime /\ idle'[c] \in 0 .. MaxTime
        BY HostAssumption DEF CountersOK
    <2> QED
        BY <2>1 DEF IInv, TypeOK
<1>2. BaselineInv'
    BY DEF IInv, BaselineInv, CoresAreCurrent
<1>3. ReadingsOK'
    <2>1. ASSUME NEW x \in Names, NEW line \in Counter, Behind(line, LineOf(x))
          PROVE  Behind(line, LineOf(x)')
        <3>1. LineOf(x) \in Counter /\ LineOf(x)' \in Counter
            BY LineFacts, LineGrows DEF IInv
        <3> QED
            BY <2>1, <3>1, LineGrows, BehindIsOrder DEF IInv
    <2>2. \A x \in DOMAIN complete : Behind(complete[x], LineOf(x)')
        BY <2>1 DEF IInv, TypeOK, BaselineInv, ReadingsOK
    <2>3. \A x \in DOMAIN curr : Behind(curr[x], LineOf(x)')
        BY <2>1 DEF IInv, TypeOK, ReadingsOK
    <2> QED
        BY <2>2, <2>3 DEF IInv, ReadingsOK
<1>4. UsageNotUnderstated' /\ ("guest" \notin Kinds => UsageTruthful')
    BY DEF IInv, UsageTruthful, UsageNotUnderstated
<1> QED
    BY <1>1, <1>2, <1>3, <1>4 DEF IInv

LEMMA SpendPreserves ==
    ASSUME IInv, NEW c \in Cores, NEW kind \in Kinds, Spend(c, kind)
    PROVE  IInv'
<1> USE DEF Spend
<1>1. CountersOK'
    <2>1. CASE kind = "idle"
        BY <2>1, HostAssumption DEF IInv, CountersOK
    <2>2. CASE kind = "user"
        BY <2>2, HostAssumption DEF IInv, CountersOK
    <2>3. CASE kind = "guest"
        BY <2>3, HostAssumption DEF IInv, CountersOK
    <2> QED
        BY <2>1, <2>2, <2>3, HostAssumption
<1>2. \A k \in Cores : user[k] <= user'[k] /\ guest[k] <= guest'[k]
    BY DEF IInv, CountersOK
<1> QED
    BY <1>1, <1>2, CountersMove DEF IInv, TypeOK

LEMMA IdleStepsBackPreserves ==
    ASSUME IInv, NEW c \in Cores, IdleStepsBack(c)
    PROVE  IInv'
<1> USE DEF IdleStepsBack
<1>1. CountersOK'
    BY HostAssumption DEF IInv, CountersOK
<1>2. \A k \in Cores : user[k] <= user'[k] /\ guest[k] <= guest'[k]
    BY DEF IInv, CountersOK
<1> QED
    BY <1>1, <1>2, CountersMove DEF IInv, TypeOK

LEMMA HotplugPreserves ==
    ASSUME IInv, NEW c \in Cores, Hotplug(c)
    PROVE  IInv'
<1> USE DEF Hotplug
<1>1. CountersOK' /\ \A k \in Cores : user[k] <= user'[k] /\ guest[k] <= guest'[k]
    BY DEF IInv, CountersOK
<1>2. online' \subseteq Cores
    BY DEF IInv, TypeOK
<1> QED
    BY <1>1, <1>2, CountersMove

\* The invariant holds in every behaviour.
THEOREM Invariance == Spec => []IInv
<1>1. Init => IInv
    BY InitEstablishes
<1>2. IInv /\ [Next]_vars => IInv'
    <2> SUFFICES ASSUME IInv, [Next]_vars PROVE IInv'
        OBVIOUS
    <2>1. CASE ReadStat
        BY <2>1, ReadStatPreserves
    <2>2. CASE SnapshotFails
        BY <2>2, SnapshotFailsPreserves
    <2>3. CASE SnapshotDone
        BY <2>3, SnapshotDonePreserves
    <2>4. CASE Restart
        BY <2>4, RestartPreserves
    <2>5. ASSUME NEW c \in Cores, IdleStepsBack(c) PROVE IInv'
        BY <2>5, IdleStepsBackPreserves
    <2>6. ASSUME NEW c \in Cores, Hotplug(c) PROVE IInv'
        BY <2>6, HotplugPreserves
    <2>7. ASSUME NEW c \in Cores, NEW kind \in Kinds, Spend(c, kind) PROVE IInv'
        BY <2>7, SpendPreserves
    <2>8. CASE UNCHANGED vars
        <3>1. CountersOK' /\ \A c \in Cores : user[c] <= user'[c] /\ guest[c] <= guest'[c]
            BY <2>8 DEF IInv, CountersOK, vars, worldVars
        <3> QED
            BY <2>8, <3>1, CountersMove DEF IInv, TypeOK, vars, worldVars
    <2> QED
        BY <2>1, <2>2, <2>3, <2>4, <2>5, <2>6, <2>7, <2>8 DEF Next
<1> QED
    BY <1>1, <1>2, PTL DEF Spec

\* Counters, readings and series have their types; what is exported is a ratio
\* between zero and one, and memory that the host has.
THEOREM TypeCorrect == Spec => []TypeOK
<1>1. IInv => TypeOK
    BY DEF IInv
<1> QED
    BY Invariance, <1>1, PTL

\* No series outlives its core, and no core that stayed lacks one.
THEOREM CoresStayCurrent == Spec => []CoresAreCurrent
<1>1. IInv => CoresAreCurrent
    BY DEF IInv, BaselineInv
<1> QED
    BY Invariance, <1>1, PTL

\* Whatever a host runs, the usage exported of it and of each core is at least
\* what was busy between the two last complete snapshots.
THEOREM UsageIsNotUnderstated == Spec => []UsageNotUnderstated
<1>1. IInv => UsageNotUnderstated
    BY DEF IInv
<1> QED
    BY Invariance, <1>1, PTL

\* On a host that runs no guests, the usage exported of the host and of each core
\* is what was busy between the two last complete snapshots.
THEOREM UsageIsTruthful ==
    ASSUME "guest" \notin Kinds
    PROVE  Spec => []UsageTruthful
<1>1. IInv => UsageTruthful
    BY DEF IInv
<1> QED
    BY Invariance, <1>1, PTL
=============================================================================
