--------------------------- MODULE ConmonMetrics ----------------------------
(***************************************************************************)
(* internal/metrics: what a scrape sees of the runs of the probes.  Record *)
(* writes up to four series of a check one after the other, without a lock *)
(* around them, while the handler of /metrics may be reading.  The first   *)
(* Record of a check also creates each series, at zero, in a step of its   *)
(* own before the write.  A value is abstracted to the number of the run   *)
(* that wrote it.  Scheduler shows that the runs of a check follow each    *)
(* other, so a check has one writer.                                       *)
(***************************************************************************)
EXTENDS Integers

CONSTANTS
    Checks,  \* the configured checks
    Gauged,  \* those with a gauge of their kind (https, dns and tls; not icmp)
    Scrapes, \* the scrapes that may be in progress at once
    MaxRuns  \* bound: runs of a check

ASSUME MetricsAssumption == Gauged \subseteq Checks /\ MaxRuns \in Nat

Families == {"success", "duration", "runs", "kind"}
Run == 0 .. MaxRuns

Absent == -1  \* what a scrape finds of a series that does not exist
Unset == 0    \* the zero a series has from its creation to its first write
Value == {Absent} \cup Run

VARIABLES
    step,     \* what the goroutine of each check does next; "idle" between runs
    run,      \* the number of runs of each check that have begun
    answered, \* the run being recorded had an answer from its target
    series,   \* the series of the registry
    madeUp,   \* history: the kind gauge holds the zero of a run without an answer
    everSeen, \* history: some recorded run of the check had an answer
    left,     \* what each scrape has yet to read
    seen,     \* what each scrape has read
    floor,    \* history: the runs completely recorded when the scrape began
    prev      \* what the scrape read the last time

checkVars == <<step, run, answered, series, madeUp, everSeen>>
scrapeVars == <<left, seen, floor, prev>>
vars == <<checkVars, scrapeVars>>

Series == {x \in Checks \X Families : x[2] # "kind" \/ x[1] \in Gauged}

TypeOK ==
    /\ step \in [Checks -> {"idle", "probe"} \cup Families]
    /\ run \in [Checks -> Run]
    /\ answered \in [Checks -> BOOLEAN]
    /\ series \in [Series -> Value]
    /\ madeUp \in [Checks -> BOOLEAN]
    /\ everSeen \in [Checks -> BOOLEAN]
    /\ left \in [Scrapes -> SUBSET Series]
    /\ seen \in [Scrapes -> [Series -> Value]]
    /\ floor \in [Scrapes -> [Checks -> Run]]
    /\ prev \in [Scrapes -> [Series -> Value]]

Init ==
    /\ step = [c \in Checks |-> "idle"]
    /\ run = [c \in Checks |-> 0]
    /\ answered = [c \in Checks |-> FALSE]
    /\ series = [x \in Series |-> Absent]
    /\ madeUp = [c \in Checks |-> FALSE]
    /\ everSeen = [c \in Checks |-> FALSE]
    /\ left = [s \in Scrapes |-> {}]
    /\ seen = [s \in Scrapes |-> [x \in Series |-> Absent]]
    /\ floor = [s \in Scrapes |-> [c \in Checks |-> 0]]
    /\ prev = [s \in Scrapes |-> [x \in Series |-> Absent]]

-----------------------------------------------------------------------------
(* A run: exporter.Record(runner.Run(ctx)). *)

BeginRun(c) ==
    /\ step[c] = "idle"
    /\ run[c] < MaxRuns
    /\ run' = [run EXCEPT ![c] = @ + 1]
    /\ step' = [step EXCEPT ![c] = "probe"]
    /\ UNCHANGED <<answered, series, madeUp, everSeen, scrapeVars>>

\* The probe returns, with an answer of its target (whatever it says) or
\* without one: then the answer's field of the result keeps its zero.
EndProbe(c) ==
    /\ step[c] = "probe"
    /\ \E a \in BOOLEAN : answered' = [answered EXCEPT ![c] = a]
    /\ step' = [step EXCEPT ![c] = "success"]
    /\ UNCHANGED <<run, series, madeUp, everSeen, scrapeVars>>

\* Each write of Record is to the series WithLabelValues returns.  If the check
\* has none yet it is created, and a scrape finds it from then on; otherwise it
\* is only looked up.
WithLabelValues(c) ==
    /\ step[c] \in Families
    /\ series[<<c, step[c]>>] = Absent
    /\ series' = [series EXCEPT ![<<c, step[c]>>] = Unset]
    /\ UNCHANGED <<step, run, answered, madeUp, everSeen, scrapeVars>>

Exists(c) == series[<<c, step[c]>>] # Absent

\* The four writes of Record, in the order of its statements.
SetSuccess(c) ==
    /\ step[c] = "success" /\ Exists(c)
    /\ series' = [series EXCEPT ![<<c, "success">>] = run[c]]
    /\ step' = [step EXCEPT ![c] = "duration"]
    /\ UNCHANGED <<run, answered, madeUp, everSeen, scrapeVars>>

\* Variant of SetDuration: only a run with an answer has a duration.
SetDurationAnswered(c) ==
    /\ step[c] = "duration" /\ Exists(c)
    /\ series' = [series EXCEPT ![<<c, "duration">>] = IF answered[c] THEN run[c] ELSE @]
    /\ step' = [step EXCEPT ![c] = "runs"]
    /\ UNCHANGED <<run, answered, madeUp, everSeen, scrapeVars>>

SetDuration(c) ==
    /\ step[c] = "duration" /\ Exists(c)
    /\ series' = [series EXCEPT ![<<c, "duration">>] = run[c]]
    /\ step' = [step EXCEPT ![c] = "runs"]
    /\ UNCHANGED <<run, answered, madeUp, everSeen, scrapeVars>>

\* Variant of IncRuns: a run is counted when it begins and when it ends.
IncRunsTwice(c) ==
    /\ step[c] = "runs" /\ Exists(c)
    /\ series' = [series EXCEPT ![<<c, "runs">>] = @ + 2]
    /\ step' = [step EXCEPT ![c] = IF c \in Gauged THEN "kind" ELSE "idle"]
    /\ UNCHANGED <<run, answered, madeUp, everSeen, scrapeVars>>

\* Variant of IncRuns: a run without an answer starts the count again.
IncRunsReset(c) ==
    /\ step[c] = "runs" /\ Exists(c)
    /\ series' = [series EXCEPT ![<<c, "runs">>] = IF answered[c] THEN @ + 1 ELSE 0]
    /\ step' = [step EXCEPT ![c] = IF c \in Gauged THEN "kind" ELSE "idle"]
    /\ UNCHANGED <<run, answered, madeUp, everSeen, scrapeVars>>

IncRuns(c) ==
    /\ step[c] = "runs" /\ Exists(c)
    /\ series' = [series EXCEPT ![<<c, "runs">>] = @ + 1]
    /\ step' = [step EXCEPT ![c] = IF c \in Gauged THEN "kind" ELSE "idle"]
    /\ UNCHANGED <<run, answered, madeUp, everSeen, scrapeVars>>

SetKind(c) ==
    /\ step[c] = "kind" /\ Exists(c)
    /\ series' = [series EXCEPT ![<<c, "kind">>] = run[c]]
    /\ madeUp' = [madeUp EXCEPT ![c] = ~answered[c]]
    /\ everSeen' = [everSeen EXCEPT ![c] = @ \/ answered[c]]
    /\ step' = [step EXCEPT ![c] = "idle"]
    /\ UNCHANGED <<run, answered, scrapeVars>>

-----------------------------------------------------------------------------
(* A scrape: the registry collects the families concurrently, so the series *)
(* are read one by one in any order.                                        *)

Recorded(c) == IF step[c] = "idle" THEN run[c] ELSE run[c] - 1

BeginScrape(s) ==
    /\ left[s] = {}
    /\ left' = [left EXCEPT ![s] = Series]
    /\ prev' = [prev EXCEPT ![s] = seen[s]]
    /\ floor' = [floor EXCEPT ![s] = [c \in Checks |-> Recorded(c)]]
    /\ UNCHANGED <<checkVars, seen>>

\* Variant of ReadSeries: a series read before is answered from a cache.
ReadCached(s) ==
    /\ \E x \in left[s] :
        /\ seen' = [seen EXCEPT ![s][x] = IF prev[s][x] # Absent THEN prev[s][x] ELSE series[x]]
        /\ left' = [left EXCEPT ![s] = @ \ {x}]
    /\ UNCHANGED <<checkVars, floor, prev>>

ReadSeries(s) ==
    /\ \E x \in left[s] :
        /\ seen' = [seen EXCEPT ![s][x] = series[x]]
        /\ left' = [left EXCEPT ![s] = @ \ {x}]
    /\ UNCHANGED <<checkVars, floor, prev>>

-----------------------------------------------------------------------------
Next ==
    \/ \E c \in Checks :
        \/ BeginRun(c) \/ EndProbe(c) \/ WithLabelValues(c)
        \/ SetSuccess(c) \/ SetDuration(c) \/ IncRuns(c) \/ SetKind(c)
    \/ \E s \in Scrapes : BeginScrape(s) \/ ReadSeries(s)

Spec == Init /\ [][Next]_vars

-----------------------------------------------------------------------------
\* Between two runs every series of a check is of its latest run, or there is
\* none if it has not run yet, and the counter has counted each run once.
\* During Record each series is of the latest run or the one before; during the
\* first one it may not exist yet, or hold the zero it was created with, but
\* only one at a time: the next to be written.  The counter is never ahead of
\* the result it counts.
RecordCoherent ==
    \A c \in Checks :
        LET of(f) == series[<<c, f>>] IN
        /\ \A f \in Families : <<c, f>> \in Series =>
              /\ step[c] = "idle" => of(f) = IF run[c] = 0 THEN Absent ELSE run[c]
              /\ run[c] > 1 => of(f) \in {run[c] - 1, run[c]}
              /\ run[c] = 1 => of(f) \in {Absent, Unset, 1}
              /\ of(f) = Unset => step[c] = f
        /\ of("success") >= of("duration") /\ of("duration") >= of("runs")
        /\ c \in Gauged => of("runs") >= of("kind")

\* What a scrape has read of a check is no older than what was completely
\* recorded when the scrape began and no newer than the latest run: a scrape
\* during which a check does not run sees all its series of one run.  Only a
\* scrape that began before the end of the check's first Record may miss a series
\* or find the zero it was created with, the latter only once the check has run.
ScrapeWindow ==
    \A s \in Scrapes : \A x \in Series \ left[s] :
        \/ seen[s][x] > 0 /\ seen[s][x] \in floor[s][x[1]] .. run[x[1]]
        \/ seen[s][x] = Unset /\ floor[s][x[1]] = 0 /\ run[x[1]] > 0
        \/ seen[s][x] = Absent /\ floor[s][x[1]] = 0

\* From one scrape to the next no series goes back or vanishes: the counter
\* has no reset a rate() would take for a restart.
ScrapesAdvance ==
    \A s \in Scrapes : \A x \in Series \ left[s] : seen[s][x] >= prev[s][x]

\* The families the current run of a check has yet to write.
Unwritten(c) ==
    CASE step[c] = "idle" -> {}
      [] step[c] \in {"probe", "success"} -> Families
      [] step[c] = "duration" -> {"duration", "runs", "kind"}
      [] step[c] = "runs" -> {"runs", "kind"}
      [] step[c] = "kind" -> {"kind"}

\* What a series the current run has not written yet may hold.
Before(c, f) ==
    IF run[c] > 1 THEN {run[c] - 1}
    ELSE IF step[c] = f THEN {Absent, Unset} ELSE {Absent}

\* The place of a check in Record tells what each of its series holds.
CheckConsistent(c) ==
    /\ step[c] # "idle" => run[c] > 0
    /\ step[c] = "kind" => c \in Gauged
    /\ \A f \in Families : <<c, f>> \in Series =>
          IF f \in Unwritten(c) THEN series[<<c, f>>] \in Before(c, f)
          ELSE series[<<c, f>>] = IF run[c] = 0 THEN Absent ELSE run[c]

\* What a scrape knows is behind the registry, series by series.
ScrapeBehind(s) ==
    /\ \A c \in Checks : floor[s][c] <= Recorded(c)
    /\ \A x \in Series : seen[s][x] <= series[x] /\ prev[s][x] <= series[x]

\* The inductive invariant.
IInv ==
    /\ TypeOK
    /\ \A c \in Checks : CheckConsistent(c)
    /\ \A s \in Scrapes : ScrapeBehind(s)
    /\ ScrapeWindow
    /\ ScrapesAdvance

\* "Latest observed": once a run has had an answer, the gauge of the kind
\* shows an answer, not the zero of a run that had none.
LatestObserved == \A c \in Checks : everSeen[c] => ~madeUp[c]

\* "Latest probe success result.", "Latest probe duration in seconds.": what a
\* scrape finds in these two series is the result of a probe.
ResultsAreOfProbes ==
    \A s \in Scrapes : \A x \in Series \ left[s] :
        x[2] \in {"success", "duration"} => seen[s][x] # Unset
=============================================================================
