----------------------------- MODULE SysmonHost -----------------------------
(***************************************************************************)
(* The host half of a sysmon cycle: HostCollector.Snapshot, which keeps    *)
(* the CPU counters of the last complete snapshot and turns the difference *)
(* into usage ratios, and Exporter.UpdateHost, which sets the series of    *)
(* the host and deletes those of cores that are gone.  /proc is external:  *)
(* counters that grow, an idle counter that may step back (the iowait part *)
(* of it does), cores that go offline and come back, guest time, which the *)
(* kernel counts both as user and as guest.                                *)
(***************************************************************************)
EXTENDS Integers, FiniteSets, FiniteSetsExt

CONSTANTS
    Cores,    \* the possible cores
    Kinds,    \* how a core may spend a unit of time: "user", "guest", "idle"
    MaxTime,  \* bound: units of time per core and boot
    PerCore,  \* system.collect_per_core_cpu
    Memory    \* what /proc/meminfo may say: [total, available]

ASSUME HostAssumption ==
    /\ IsFiniteSet(Cores) /\ "cpu" \notin Cores
    /\ Kinds \subseteq {"user", "guest", "idle"}
    /\ MaxTime \in Nat /\ PerCore \in BOOLEAN
    /\ Memory \subseteq [total : Nat, available : Nat]

VARIABLES
    user, guest, idle, \* the counters of each core in /proc/stat, since the boot
    online,            \* the cores /proc/stat has a line for
    prev,              \* HostCollector.prev: the counters of the last snapshot
    started,           \* prev is not nil
    reading,           \* /proc/stat is read, the other files are not yet
    curr,              \* what was read of it
    total,             \* the gauge of the whole host's CPU usage
    resident,          \* the gauge of its memory
    perCore,           \* the series of the cores
    coresByHost,       \* the cores the exporter thinks have a series
    complete,          \* history: what the last complete snapshot read
    truth              \* history: the time really spent between the two last
                       \* complete snapshots, by line of /proc/stat

worldVars == <<user, guest, idle, online>>
collectorVars == <<prev, started, reading, curr>>
exporterVars == <<total, resident, perCore, coresByHost, complete, truth>>
vars == <<worldVars, collectorVars, exporterVars>>

Names == Cores \cup {"cpu"}
Counter == [total : Nat, idle : Nat, busy : Nat]
Nothing == [x \in {} |-> 0]
Zero == [n |-> 0, d |-> 1]
Ratio(r) == r.n \in Nat /\ r.d \in Nat \ {0}

TypeOK ==
    /\ \A c \in Cores : user[c] \in 0 .. MaxTime /\ guest[c] \in 0 .. MaxTime
    /\ \A c \in Cores : idle[c] \in 0 .. MaxTime
    /\ online \subseteq Cores
    /\ started \in BOOLEAN /\ reading \in BOOLEAN
    /\ DOMAIN prev \subseteq Names /\ \A x \in DOMAIN prev : prev[x] \in Counter
    /\ DOMAIN curr \subseteq Names /\ \A x \in DOMAIN curr : curr[x] \in Counter
    /\ Ratio(total) /\ total.n <= total.d
    /\ resident = 0 \/ \E m \in Memory : resident \in 1 .. m.total
    /\ DOMAIN perCore \subseteq Cores
    /\ \A c \in DOMAIN perCore : Ratio(perCore[c]) /\ perCore[c].n <= perCore[c].d
    /\ coresByHost \subseteq Cores

Init ==
    /\ user = [c \in Cores |-> 0]
    /\ guest = [c \in Cores |-> 0]
    /\ idle = [c \in Cores |-> 0]
    /\ online = Cores
    /\ prev = Nothing
    /\ started = FALSE
    /\ reading = FALSE
    /\ curr = Nothing
    /\ total = Zero
    /\ resident = 0
    /\ perCore = Nothing
    /\ coresByHost = {}
    /\ complete = Nothing
    /\ truth = Nothing

-----------------------------------------------------------------------------
(* /proc/stat and its parsing. *)

SumOver(S, f) == MapThenSumSet(LAMBDA c : f[c], S)

\* One line: total is the sum of all its fields, idle that of idle and iowait;
\* "busy" is what a reader of proc(5) would count as busy, guest time once.
Line(S) ==
    [total |-> SumOver(S, user) + SumOver(S, guest) + SumOver(S, idle),
     idle  |-> SumOver(S, idle),
     busy  |-> SumOver(S, user)]

LineOf(x) == IF x = "cpu" THEN Line(Cores) ELSE Line({x})
ParseCPUStat == [x \in online \cup {"cpu"} |-> LineOf(x)]

\* Variant: the difference of the idle counters is not held to the time there was.
RatioUnclamped(p, c) ==
    IF c.total <= p.total THEN Zero
    ELSE [n |-> (c.total - p.total) - (IF c.idle >= p.idle THEN c.idle - p.idle ELSE c.idle),
          d |-> c.total - p.total]

\* The ratio of two readings of a line, with its guards: a total that did not
\* grow is no usage, an idle counter that went back is taken for a reset one,
\* and never for more idle time than there was time.
RatioOf(p, c) ==
    LET deltaTotal == c.total - p.total
        sinceReset == IF c.idle >= p.idle THEN c.idle - p.idle ELSE c.idle
        deltaIdle  == IF sinceReset > deltaTotal THEN deltaTotal ELSE sinceReset
    IN  IF c.total <= p.total THEN Zero
        ELSE [n |-> deltaTotal - deltaIdle, d |-> deltaTotal]

\* What the collector reports: the first snapshot has no usage, later ones
\* that of the lines which are in both.
TotalUsage ==
    IF started /\ "cpu" \in DOMAIN prev THEN RatioOf(prev["cpu"], curr["cpu"]) ELSE Zero

CoreUsage ==
    IF started /\ PerCore
    THEN [c \in (DOMAIN curr \cap DOMAIN prev) \ {"cpu"} |-> RatioOf(prev[c], curr[c])]
    ELSE Nothing

\* Memory in use; a host may report more available than there is in total.
ResidentOf(m) == IF m.total > m.available THEN m.total - m.available ELSE 0

-----------------------------------------------------------------------------
(* The steps of a cycle. *)

ReadStat ==
    /\ ~reading
    /\ reading' = TRUE
    /\ curr' = ParseCPUStat
    /\ UNCHANGED <<worldVars, prev, started, exporterVars>>

\* Variant: the counters that were read become the baseline although the
\* snapshot fails.
SnapshotFailsAsBaseline ==
    /\ reading
    /\ reading' = FALSE
    /\ prev' = curr
    /\ started' = TRUE
    /\ curr' = Nothing
    /\ UNCHANGED <<worldVars, exporterVars>>

\* meminfo, uptime or boot_id cannot be read: the snapshot fails and the
\* counters it had read are dropped.
SnapshotFails ==
    /\ reading
    /\ reading' = FALSE
    /\ curr' = Nothing
    /\ UNCHANGED <<worldVars, prev, started, exporterVars>>

\* Variant: a core that reports nothing keeps its series.
RecordCoresKept(sample) ==
    [c \in DOMAIN perCore \cup DOMAIN sample |->
        IF c \in DOMAIN sample THEN sample[c] ELSE perCore[c]]

\* The series of the cores after UpdateHost: those of this sample are set,
\* those the exporter knows of and the sample lacks are deleted.
RecordCores(sample) ==
    LET kept == DOMAIN perCore \ (coresByHost \ DOMAIN sample) IN
    [c \in kept \cup DOMAIN sample |-> IF c \in DOMAIN sample THEN sample[c] ELSE perCore[c]]

Spent(p, c) == [busy |-> c.busy - p.busy, idle |-> c.idle - p.idle]

\* The snapshot is complete: usage is computed against the one before, this
\* one takes its place, and UpdateHost records the sample.
SnapshotDone ==
    /\ reading
    /\ reading' = FALSE
    /\ total' = TotalUsage
    /\ \E m \in Memory : resident' = ResidentOf(m)
    /\ perCore' = RecordCores(CoreUsage)
    /\ coresByHost' = DOMAIN CoreUsage
    /\ truth' = [x \in DOMAIN complete \cap DOMAIN curr |-> Spent(complete[x], curr[x])]
    /\ complete' = curr
    /\ prev' = curr
    /\ started' = TRUE
    /\ curr' = Nothing
    /\ UNCHANGED worldVars

-----------------------------------------------------------------------------
(* The environment. *)

\* A core spends a unit of time; that of a guest is counted as user time too.
Spend(c, kind) ==
    /\ c \in online
    /\ kind \in Kinds
    /\ user[c] + idle[c] < MaxTime
    /\ user' = [user EXCEPT ![c] = IF kind = "idle" THEN @ ELSE @ + 1]
    /\ guest' = [guest EXCEPT ![c] = IF kind = "guest" THEN @ + 1 ELSE @]
    /\ idle' = [idle EXCEPT ![c] = IF kind = "idle" THEN @ + 1 ELSE @]
    /\ UNCHANGED <<online, collectorVars, exporterVars>>

\* The kernel takes back a unit of iowait.
IdleStepsBack(c) ==
    /\ c \in online
    /\ idle[c] > 0
    /\ idle' = [idle EXCEPT ![c] = @ - 1]
    /\ UNCHANGED <<user, guest, online, collectorVars, exporterVars>>

\* A core but the last one goes offline, or comes back with its counters.
Hotplug(c) ==
    /\ online' = IF c \in online THEN online \ {c} ELSE online \cup {c}
    /\ online' # {}
    /\ UNCHANGED <<user, guest, idle, collectorVars, exporterVars>>

\* The process is restarted: baseline and registry are gone.
Restart ==
    /\ prev' = Nothing
    /\ started' = FALSE
    /\ reading' = FALSE
    /\ curr' = Nothing
    /\ total' = Zero
    /\ resident' = 0
    /\ perCore' = Nothing
    /\ coresByHost' = {}
    /\ complete' = Nothing
    /\ truth' = Nothing
    /\ UNCHANGED worldVars

Next ==
    \/ ReadStat \/ SnapshotFails \/ SnapshotDone \/ Restart
    \/ \E c \in Cores : IdleStepsBack(c) \/ Hotplug(c) \/ \E kind \in Kinds : Spend(c, kind)

Spec == Init /\ [][Next]_vars

-----------------------------------------------------------------------------
SameRatio(r, t) == r.n * (t.busy + t.idle) = t.busy * r.d

\* The usage that is exported is the share of the time between the two last
\* complete snapshots that was busy, also when snapshots failed in between or
\* a core was away for a while; no time is no usage, and where the idle
\* counter went back the usage is at most hidden, never made up.
Truthful(r, t) ==
    /\ t.idle >= 0 /\ t.busy + t.idle > 0 => SameRatio(r, t)
    /\ t.busy + t.idle <= 0 => r.n = 0
    /\ t.busy = 0 => r.n = 0 \/ t.idle < 0
    /\ t.idle < 0 => r.n \in 0 .. t.busy

UsageTruthful ==
    /\ "cpu" \in DOMAIN truth => Truthful(total, truth["cpu"])
    /\ \A c \in DOMAIN perCore : c \in DOMAIN truth /\ Truthful(perCore[c], truth[c])

\* Guest time, which a line has twice, may make usage of what is none, never the
\* other way round: what is exported is at least the usage there was.
NotUnderstated(r, t) ==
    t.idle >= 0 /\ t.busy + t.idle > 0 => r.n * (t.busy + t.idle) >= t.busy * r.d

UsageNotUnderstated ==
    /\ "cpu" \in DOMAIN truth => NotUnderstated(total, truth["cpu"])
    /\ \A c \in DOMAIN perCore : NotUnderstated(perCore[c], truth[c])

\* A core has a series exactly if it was there in the two last complete
\* snapshots: none is left behind by a core that went away.
CoresAreCurrent == DOMAIN perCore = IF PerCore THEN DOMAIN truth \ {"cpu"} ELSE {}

\* The baseline is the last complete snapshot, and the exporter knows every core
\* that has a series.
BaselineInv ==
    /\ prev = complete
    /\ coresByHost = DOMAIN perCore
    /\ ~started => DOMAIN complete = {}
    /\ CoresAreCurrent

\* The counters of the kernel: guest time is user time as well, and a core that
\* runs no guests has none.
CountersOK ==
    /\ user \in [Cores -> Nat] /\ guest \in [Cores -> Nat] /\ idle \in [Cores -> Nat]
    /\ \A c \in Cores : guest[c] <= user[c] /\ user[c] + idle[c] <= MaxTime
    /\ "guest" \notin Kinds => \A c \in Cores : guest[c] = 0

\* What a line counts twice.
Surplus(line) == line.total - line.busy - line.idle

\* A reading of a line is behind a later one: the time that was busy and the time
\* that is counted twice only grow.
Behind(earlier, later) ==
    /\ earlier.busy <= later.busy
    /\ Surplus(earlier) \in 0 .. Surplus(later)

ReadingsOK ==
    /\ \A x \in DOMAIN complete : Behind(complete[x], LineOf(x))
    /\ \A x \in DOMAIN curr : Behind(curr[x], LineOf(x))
    /\ IF reading THEN "cpu" \in DOMAIN curr ELSE DOMAIN curr = {}
    /\ \A x \in DOMAIN complete \cap DOMAIN curr : Behind(complete[x], curr[x])

\* The inductive invariant.
IInv ==
    /\ TypeOK
    /\ BaselineInv
    /\ CountersOK
    /\ ReadingsOK
    /\ UsageNotUnderstated
    /\ "guest" \notin Kinds => UsageTruthful

\* The ratio of the whole host as documented: its usage, however the time was
\* spent.
HostRatioIsUsage ==
    "cpu" \in DOMAIN truth /\ truth["cpu"].idle >= 0 /\ truth["cpu"].busy + truth["cpu"].idle > 0
        => SameRatio(total, truth["cpu"])
=============================================================================
