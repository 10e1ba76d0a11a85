------------------------ MODULE ConmonMetricsProofs -------------------------
(***************************************************************************)
(* What a scrape may see of the unlocked writes of Record, for any checks, *)
(* any number of scrapes at once and any number of runs.                   *)
(***************************************************************************)
EXTENDS ConmonMetrics, TLAPS

\* A series names a check and a family.
LEMMA SeriesParts ==
    ASSUME NEW x \in Series
    PROVE  /\ x[1] \in Checks /\ x[2] \in Families
           /\ x = <<x[1], x[2]>>
    BY DEF Series

\* A series holds what a scrape that began with floor f may find in it.
InWindow(v, f, n) ==
    \/ v > 0 /\ v \in f .. n
    \/ v = Unset /\ f = 0 /\ n > 0
    \/ v = Absent /\ f = 0

\* Every series of a check is that of its latest run or of the run before, if
\* there are such.
LEMMA SeriesRecent ==
    ASSUME IInv, NEW x \in Series
    PROVE  /\ InWindow(series[x], Recorded(x[1]), run[x[1]])
           /\ Recorded(x[1]) \in Nat
<1>1. x[1] \in Checks /\ x[2] \in Families /\ x = <<x[1], x[2]>>
    BY SeriesParts
<1>2. CheckConsistent(x[1])
    BY <1>1 DEF IInv
<1>3. run[x[1]] \in Nat /\ step[x[1]] \in {"idle", "probe"} \cup Families
    BY <1>1, MetricsAssumption DEF IInv, TypeOK, Run
<1>4. Recorded(x[1]) \in Nat
    BY <1>1, <1>2, <1>3 DEF CheckConsistent, Recorded
<1>5. IF x[2] \in Unwritten(x[1]) THEN series[x] \in Before(x[1], x[2])
      ELSE series[x] = IF run[x[1]] = 0 THEN Absent ELSE run[x[1]]
    BY <1>1, <1>2 DEF CheckConsistent
<1>6. CASE step[x[1]] = "idle"
    BY <1>3, <1>5, <1>6 DEF InWindow, Recorded, Unwritten, Absent, Unset
<1>7. CASE step[x[1]] # "idle"
    BY <1>1, <1>2, <1>3, <1>5, <1>7
    DEF CheckConsistent, InWindow, Recorded, Before, Absent, Unset
<1> QED
    BY <1>4, <1>6, <1>7

\* The invariant holds at the start.
LEMMA InitEstablishes == Init => IInv
<1> SUFFICES ASSUME Init PROVE IInv
    OBVIOUS
<1> USE DEF Init
<1>1. TypeOK
    BY MetricsAssumption DEF TypeOK, Run, Value
<1>2. \A c \in Checks : CheckConsistent(c)
    BY DEF CheckConsistent, Unwritten
<1>3. \A s \in Scrapes : ScrapeBehind(s)
    BY DEF ScrapeBehind, Recorded, Absent
<1>4. ScrapeWindow
    BY SeriesParts DEF ScrapeWindow
<1>5. ScrapesAdvance
    BY DEF ScrapesAdvance, Absent
<1> QED
    BY <1>1, <1>2, <1>3, <1>4, <1>5 DEF IInv

\* What a step of a check must do for the scrapes: count no run back, take no
\* series back.
LEMMA CheckStepKeepsScrapes ==
    ASSUME IInv, TypeOK', UNCHANGED scrapeVars,
           \A c \in Checks : run[c] <= run'[c] /\ Recorded(c) <= Recorded(c)',
           \A x \in Series : series[x] <= series'[x]
    PROVE  (\A s \in Scrapes : ScrapeBehind(s)') /\ ScrapeWindow' /\ ScrapesAdvance'
<1> USE DEF scrapeVars
<1>1. \A c \in Checks : /\ run[c] \in Nat /\ run'[c] \in Nat
                        /\ Recorded(c) \in Int /\ Recorded(c)' \in Int
    BY MetricsAssumption DEF IInv, TypeOK, Run, Recorded
<1>2. \A x \in Series : series[x] \in Int /\ series'[x] \in Int
    BY MetricsAssumption DEF IInv, TypeOK, Run, Value, Absent
<1>3. ASSUME NEW s \in Scrapes
      PROVE  /\ \A c \in Checks : floor[s][c] \in Nat
             /\ \A x \in Series : seen[s][x] \in Int /\ prev[s][x] \in Int
    BY <1>3, MetricsAssumption DEF IInv, TypeOK, Run, Value, Absent
<1>4. ASSUME NEW s \in Scrapes PROVE ScrapeBehind(s)'
    <2>1. ScrapeBehind(s)
        BY DEF IInv
    <2>2. \A c \in Checks : floor'[s][c] <= Recorded(c)'
        BY <1>1, <1>3, <2>1 DEF ScrapeBehind
    <2>3. \A x \in Series : seen'[s][x] <= series'[x] /\ prev'[s][x] <= series'[x]
        BY <1>2, <1>3, <2>1 DEF ScrapeBehind
    <2> QED
        BY <2>2, <2>3 DEF ScrapeBehind
<1>5. ASSUME NEW s \in Scrapes, NEW x \in Series \ left[s]
      PROVE  InWindow(seen[s][x], floor[s][x[1]], run'[x[1]])
    <2>1. InWindow(seen[s][x], floor[s][x[1]], run[x[1]])
        BY DEF IInv, ScrapeWindow, InWindow
    <2>2. x[1] \in Checks
        BY SeriesParts
    <2> QED
        BY <1>1, <1>3, <2>1, <2>2 DEF InWindow
<1> QED
    BY <1>4, <1>5 DEF ScrapeWindow, ScrapesAdvance, IInv, InWindow

\* A step of one check leaves the others as they are.
LEMMA OthersKeep ==
    ASSUME IInv, NEW d \in Checks, step'[d] = step[d], run'[d] = run[d],
           \A f \in Families : <<d, f>> \in Series => series'[<<d, f>>] = series[<<d, f>>]
    PROVE  CheckConsistent(d)' /\ Recorded(d)' = Recorded(d)
<1>1. CheckConsistent(d)
    BY DEF IInv
<1>2. Unwritten(d)' = Unwritten(d) /\ \A f \in Families : Before(d, f)' = Before(d, f)
    BY DEF Unwritten, Before
<1> QED
    BY <1>1, <1>2 DEF CheckConsistent, Recorded

\* The types, as far as the steps of a check need them.
LEMMA CheckTypes ==
    ASSUME IInv
    PROVE  /\ run \in [Checks -> Run] /\ step \in [Checks -> {"idle", "probe"} \cup Families]
           /\ series \in [Series -> Value]
           /\ MaxRuns \in Nat /\ \A n \in Run : n \in Nat /\ n <= MaxRuns
           /\ Absent \in Value /\ Unset \in Value /\ \A n \in Run : n \in Value
           /\ \A v \in Value : v \in Int /\ v >= Absent
           /\ \A c \in Checks, f \in Families : <<c, f>> \in Series <=> f # "kind" \/ c \in Gauged
<1>1. \A c \in Checks, f \in Families : <<c, f>> \in Series <=> f # "kind" \/ c \in Gauged
    BY DEF Series
<1>2. MaxRuns \in Nat /\ \A n \in Run : n \in Nat /\ n <= MaxRuns
    BY MetricsAssumption DEF Run
<1>3. /\ Absent \in Value /\ Unset \in Value /\ \A n \in Run : n \in Value
      /\ \A v \in Value : v \in Int /\ v >= Absent
    BY MetricsAssumption DEF Run, Value, Absent, Unset
<1> QED
    BY <1>1, <1>2, <1>3 DEF IInv, TypeOK

\* What a step of check c does: it keeps the types and c's own consistency,
\* takes nothing back, and touches no other check and no scrape.
Advances(c) ==
    /\ TypeOK'
    /\ CheckConsistent(c)'
    /\ run[c] <= run'[c] /\ Recorded(c) <= Recorded(c)'
    /\ \A d \in Checks \ {c} : step'[d] = step[d] /\ run'[d] = run[d]
    /\ \A x \in Series : series[x] <= series'[x] /\ (x[1] # c => series'[x] = series[x])
    /\ UNCHANGED scrapeVars

\* Each step of a run writes at most one series, the one whose turn it is.
LEMMA CheckStepAdvances ==
    ASSUME IInv, NEW c \in Checks,
           \/ BeginRun(c) \/ EndProbe(c) \/ WithLabelValues(c)
           \/ SetSuccess(c) \/ SetDuration(c) \/ IncRuns(c) \/ SetKind(c)
    PROVE  Advances(c)
<1>1. CheckConsistent(c)
    BY DEF IInv
<1> USE DEF Advances
<1>2. CASE BeginRun(c)
    <2> USE <1>2, CheckTypes DEF BeginRun, scrapeVars
    <2>1. TypeOK'
        BY DEF IInv, TypeOK, Run
    <2>2. CheckConsistent(c)'
        BY <1>1 DEF CheckConsistent, Unwritten, Before, Families, Absent, Unset
    <2>3. run[c] <= run'[c] /\ Recorded(c) <= Recorded(c)'
        BY DEF Recorded
    <2> QED
        BY <2>1, <2>2, <2>3
<1>3. CASE EndProbe(c)
    <2> USE <1>3, CheckTypes DEF EndProbe, scrapeVars
    <2>1. TypeOK'
        BY DEF IInv, TypeOK, Families
    <2>2. CheckConsistent(c)'
        BY <1>1 DEF CheckConsistent, Unwritten, Before, Families, Absent, Unset
    <2>3. run[c] <= run'[c] /\ Recorded(c) <= Recorded(c)'
        BY DEF Recorded
    <2> QED
        BY <2>1, <2>2, <2>3
<1>4. CASE SetSuccess(c)
    <2> USE <1>4, CheckTypes DEF SetSuccess, Exists, scrapeVars
    <2>1. TypeOK'
        BY DEF IInv, TypeOK, Families
    <2>2. CheckConsistent(c)'
        BY <1>1 DEF CheckConsistent, Unwritten, Before, Families, Absent, Unset
    <2>3. run[c] <= run'[c] /\ Recorded(c) <= Recorded(c)'
        BY DEF Recorded
    <2>4. \A x \in Series : series[x] <= series'[x] /\ (x[1] # c => series'[x] = series[x])
        BY <1>1 DEF CheckConsistent, Unwritten, Before, Families, Absent, Unset
    <2> QED
        BY <2>1, <2>2, <2>3, <2>4
<1>5. CASE SetDuration(c)
    <2> USE <1>5, CheckTypes DEF SetDuration, Exists, scrapeVars
    <2>1. TypeOK'
        BY DEF IInv, TypeOK, Families
    <2>2. CheckConsistent(c)'
        BY <1>1 DEF CheckConsistent, Unwritten, Before, Families, Absent, Unset
    <2>3. run[c] <= run'[c] /\ Recorded(c) <= Recorded(c)'
        BY DEF Recorded
    <2>4. \A x \in Series : series[x] <= series'[x] /\ (x[1] # c => series'[x] = series[x])
        BY <1>1 DEF CheckConsistent, Unwritten, Before, Families, Absent, Unset
    <2> QED
        BY <2>1, <2>2, <2>3, <2>4
<1>6. CASE IncRuns(c)
    <2> USE <1>6, CheckTypes DEF IncRuns, Exists, scrapeVars
    <2>1. series[<<c, "runs">>] = run[c] - 1 /\ run[c] > 0
        BY <1>1 DEF CheckConsistent, Unwritten, Before, Families, Absent, Unset
    <2>2. series'[<<c, "runs">>] \in Run /\ series' \in [Series -> Value]
        BY <2>1
    <2> HIDE DEF IncRuns
    <2>3. TypeOK'
        BY <2>2 DEF IncRuns, IInv, TypeOK, Families
    <2> USE DEF IncRuns
    <2>4. CheckConsistent(c)'
        BY <1>1, <2>1 DEF CheckConsistent, Unwritten, Before, Families, Absent, Unset
    <2>5. run[c] <= run'[c] /\ Recorded(c) <= Recorded(c)'
        BY DEF Recorded
    <2>6. \A x \in Series : series[x] <= series'[x] /\ (x[1] # c => series'[x] = series[x])
        BY <2>1
    <2> QED
        BY <2>3, <2>4, <2>5, <2>6
<1>7. CASE SetKind(c)
    <2> USE <1>7, CheckTypes DEF SetKind, Exists, scrapeVars
    <2>1. TypeOK'
        BY DEF IInv, TypeOK, Families
    <2>2. CheckConsistent(c)'
        BY <1>1 DEF CheckConsistent, Unwritten, Before, Families, Absent, Unset
    <2>3. run[c] <= run'[c] /\ Recorded(c) <= Recorded(c)'
        BY DEF Recorded
    <2>4. \A x \in Series : series[x] <= series'[x] /\ (x[1] # c => series'[x] = series[x])
        BY <1>1 DEF CheckConsistent, Unwritten, Before, Families, Absent, Unset
    <2> QED
        BY <2>1, <2>2, <2>3, <2>4
<1>8. CASE WithLabelValues(c)
    <2> USE <1>8, CheckTypes DEF WithLabelValues, scrapeVars
    <2>1. step[c] \in Unwritten(c) /\ <<c, step[c]>> \in Series
        BY <1>1 DEF CheckConsistent, Unwritten, Families
    <2>2. series[<<c, step[c]>>] \in Before(c, step[c])
        BY <1>1, <2>1 DEF CheckConsistent
    <2>3. run[c] = 1
        BY <1>1, <2>2 DEF CheckConsistent, Before, Absent, Families
    <2>4. TypeOK'
        BY DEF IInv, TypeOK
    <2>5. CheckConsistent(c)'
        <3> SUFFICES ASSUME NEW f \in Families, <<c, f>> \in Series
                     PROVE  IF f \in Unwritten(c) THEN series'[<<c, f>>] \in Before(c, f)
                            ELSE series'[<<c, f>>] = IF run[c] = 0 THEN Absent ELSE run[c]
            BY <1>1 DEF CheckConsistent, Unwritten, Before
        <3>1. CASE f = step[c]
            BY <2>1, <2>3, <3>1 DEF Before
        <3>2. CASE f # step[c]
            BY <1>1, <3>2 DEF CheckConsistent
        <3> QED
            BY <3>1, <3>2
    <2>6. run[c] <= run'[c] /\ Recorded(c) <= Recorded(c)'
        BY DEF Recorded
    <2>7. \A x \in Series : series[x] <= series'[x] /\ (x[1] # c => series'[x] = series[x])
        BY DEF Absent, Unset
    <2> QED
        BY <2>4, <2>5, <2>6, <2>7
<1> QED
    BY <1>2, <1>3, <1>4, <1>5, <1>6, <1>7, <1>8

\* So the invariant survives it.
LEMMA CheckStepPreserves ==
    ASSUME IInv, NEW c \in Checks, Advances(c)
    PROVE  IInv'
<1> USE DEF Advances
<1>1. ASSUME NEW d \in Checks \ {c}
      PROVE  CheckConsistent(d)' /\ Recorded(d)' = Recorded(d)
    BY OthersKeep
<1>2. \A d \in Checks : run[d] <= run'[d] /\ Recorded(d) <= Recorded(d)'
    <2>1. \A d \in Checks : run[d] \in Int /\ Recorded(d) \in Int
        BY CheckTypes DEF Recorded
    <2> QED
        BY <1>1, <2>1
<1> QED
    BY <1>1, <1>2, CheckStepKeepsScrapes DEF IInv

\* A scrape starts from what it read last, and has read nothing yet.
LEMMA BeginScrapePreserves ==
    ASSUME IInv, NEW s \in Scrapes, BeginScrape(s)
    PROVE  IInv'
<1> USE DEF BeginScrape, checkVars
<1>1. \A c \in Checks : Recorded(c) \in Run
    BY CheckTypes DEF IInv, CheckConsistent, Recorded, Run
<1>2. TypeOK'
    BY <1>1 DEF IInv, TypeOK
<1>3. \A c \in Checks : CheckConsistent(c)' /\ Recorded(c)' = Recorded(c)
    BY DEF IInv, CheckConsistent, Unwritten, Before, Recorded
<1>4. ASSUME NEW r \in Scrapes PROVE ScrapeBehind(r)'
    BY <1>1, <1>3, CheckTypes DEF IInv, TypeOK, ScrapeBehind
<1>5. ScrapeWindow'
    BY DEF IInv, TypeOK, ScrapeWindow
<1>6. ScrapesAdvance'
    BY DEF IInv, TypeOK, ScrapesAdvance
<1> QED
    BY <1>2, <1>3, <1>4, <1>5, <1>6 DEF IInv

\* A series is read as the registry has it.
LEMMA ReadSeriesPreserves ==
    ASSUME IInv, NEW s \in Scrapes, ReadSeries(s)
    PROVE  IInv'
<1> USE DEF checkVars
<1>1. PICK x \in left[s] :
          /\ seen' = [seen EXCEPT ![s][x] = series[x]]
          /\ left' = [left EXCEPT ![s] = @ \ {x}]
          /\ UNCHANGED <<checkVars, floor, prev>>
    BY DEF ReadSeries
<1>2. x \in Series /\ x[1] \in Checks
    BY SeriesParts DEF IInv, TypeOK
<1>3. TypeOK'
    BY <1>1, <1>2 DEF IInv, TypeOK
<1>4. \A c \in Checks : CheckConsistent(c)' /\ Recorded(c)' = Recorded(c)
    BY <1>1 DEF IInv, CheckConsistent, Unwritten, Before, Recorded
<1>5. \A r \in Scrapes : ScrapeBehind(r)'
    BY <1>1, <1>2, <1>4, CheckTypes DEF IInv, TypeOK, ScrapeBehind
<1>6. InWindow(series[x], floor[s][x[1]], run[x[1]]) /\ series[x] >= prev[s][x]
    <2>1. floor[s][x[1]] \in Nat /\ floor[s][x[1]] <= Recorded(x[1]) /\ run[x[1]] \in Nat
        BY <1>2, CheckTypes DEF IInv, TypeOK, ScrapeBehind
    <2>2. series[x] >= prev[s][x] /\ series[x] \in Int
        BY <1>2, CheckTypes DEF IInv, TypeOK, ScrapeBehind
    <2> QED
        BY <1>2, <2>1, <2>2, SeriesRecent DEF InWindow
<1>7. ScrapeWindow'
    BY <1>1, <1>2, <1>6 DEF IInv, TypeOK, ScrapeWindow, InWindow
<1>8. ScrapesAdvance'
    BY <1>1, <1>2, <1>6 DEF IInv, TypeOK, ScrapesAdvance
<1> QED
    BY <1>3, <1>4, <1>5, <1>7, <1>8 DEF IInv

\* The invariant holds in every behaviour.
THEOREM Invariance == Spec => []IInv
<1>1. IInv /\ [Next]_vars => IInv'
    <2> SUFFICES ASSUME IInv, [Next]_vars PROVE IInv'
        OBVIOUS
    <2>1. CASE Next
        <3>1. ASSUME NEW c \in Checks,
                     \/ BeginRun(c) \/ EndProbe(c) \/ WithLabelValues(c)
                     \/ SetSuccess(c) \/ SetDuration(c) \/ IncRuns(c) \/ SetKind(c)
              PROVE  IInv'
            BY <3>1, CheckStepAdvances, CheckStepPreserves
        <3>2. ASSUME NEW s \in Scrapes, BeginScrape(s) \/ ReadSeries(s)
              PROVE  IInv'
            BY <3>2, BeginScrapePreserves, ReadSeriesPreserves
        <3> QED
            BY <2>1, <3>1, <3>2 DEF Next
    <2>2. CASE UNCHANGED vars
        <3> USE <2>2 DEF vars, checkVars, scrapeVars
        <3>1. TypeOK' /\ \A c \in Checks : CheckConsistent(c)'
            BY DEF IInv, TypeOK, CheckConsistent, Unwritten, Before
        <3>2. (\A s \in Scrapes : ScrapeBehind(s)') /\ ScrapeWindow' /\ ScrapesAdvance'
            BY DEF IInv, ScrapeBehind, Recorded, ScrapeWindow, ScrapesAdvance
        <3> QED
            BY <3>1, <3>2 DEF IInv
    <2> QED
        BY <2>1, <2>2
<1> QED
    BY InitEstablishes, <1>1, PTL DEF Spec

\* The variables keep their types.
THEOREM TypeCorrect == Spec => []TypeOK
<1>1. IInv => TypeOK
    BY DEF IInv
<1> QED
    BY Invariance, <1>1, PTL

\* Record's series keep together: all of the latest run between two runs, of
\* the last two runs during one, in the order of Record's statements, and in the
\* first one no two of them at once with the zero they were created with.
THEOREM RecordStaysCoherent == Spec => []RecordCoherent
<1>1. ASSUME IInv PROVE RecordCoherent
    <2> SUFFICES ASSUME NEW c \in Checks
                 PROVE  LET of(f) == series[<<c, f>>] IN
                        /\ \A f \in Families : <<c, f>> \in Series =>
                              /\ step[c] = "idle" => of(f) = IF run[c] = 0 THEN Absent ELSE run[c]
                              /\ run[c] > 1 => of(f) \in {run[c] - 1, run[c]}
                              /\ run[c] = 1 => of(f) \in {Absent, Unset, 1}
                              /\ of(f) = Unset => step[c] = f
                        /\ of("success") >= of("duration") /\ of("duration") >= of("runs")
                        /\ c \in Gauged => of("runs") >= of("kind")
        BY DEF RecordCoherent
    <2>1. CheckConsistent(c)
        BY <1>1 DEF IInv
    <2> USE <1>1, CheckTypes
    <2>2. ASSUME NEW f \in Families, <<c, f>> \in Series
          PROVE  /\ step[c] = "idle" => series[<<c, f>>] = IF run[c] = 0 THEN Absent ELSE run[c]
                 /\ run[c] > 1 => series[<<c, f>>] \in {run[c] - 1, run[c]}
                 /\ run[c] = 1 => series[<<c, f>>] \in {Absent, Unset, 1}
                 /\ series[<<c, f>>] = Unset => step[c] = f
        BY <2>1, <2>2 DEF CheckConsistent, Unwritten, Before, Absent, Unset
    <2>3. /\ series[<<c, "success">>] >= series[<<c, "duration">>]
          /\ series[<<c, "duration">>] >= series[<<c, "runs">>]
          /\ c \in Gauged => series[<<c, "runs">>] >= series[<<c, "kind">>]
        BY <2>1 DEF CheckConsistent, Unwritten, Before, Families, Absent, Unset
    <2> QED
        BY <2>2, <2>3
<1> QED
    BY Invariance, <1>1, PTL

\* A scrape mixes only the runs it overlaps, and finds the zero of a created
\* series only if it overlaps the first.
THEOREM ScrapesSeeTheirWindow == Spec => []ScrapeWindow
<1>1. IInv => ScrapeWindow
    BY DEF IInv
<1> QED
    BY Invariance, <1>1, PTL

\* No series goes back from one scrape to the next.
THEOREM ScrapesNeverGoBack == Spec => []ScrapesAdvance
<1>1. IInv => ScrapesAdvance
    BY DEF IInv
<1> QED
    BY Invariance, <1>1, PTL
=============================================================================
