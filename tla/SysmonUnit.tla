----------------------------- MODULE SysmonUnit -----------------------------
(***************************************************************************)
(* How sysmon observes one systemd unit, read by read: the monotonic clock *)
(* at the start of the cycle, systemctl show, the cgroup files one after   *)
(* the other (v2, then v1 for what v2 does not have), and recordService.   *)
(* The unit lives on between the reads: it may start, stop or restart      *)
(* after the clock was read, and its cgroup may come and go between two    *)
(* files.  Sysmon has the cycle around this, for several units, with an    *)
(* observation as one step.                                                *)
(***************************************************************************)
EXTENDS Integers, FiniteSets

CONSTANTS
    States,   \* the states systemd may give the unit
    LastInstant,  \* bound: the time of the world
    Word,     \* an unsigned timestamp has this many values (2^64 in the code)
    NoSeries

KnownStateValues ==
    {"active", "inactive", "failed", "activating", "deactivating", "reloading"}

ASSUME UnitAssumption ==
    /\ {"active", "inactive"} \subseteq States
    /\ LastInstant \in Nat \ {0} /\ Word \in Nat /\ LastInstant < Word

VARIABLES
    time,      \* the monotonic clock
    unitState, \* the state of the unit
    enter,     \* when it last became active, 0 for never
    pc,        \* what the cycle reads next
    now,       \* nowUS
    status,    \* what systemctl answered
    cpu,       \* where the usage figures of this cycle are from: "unset" as
    mem,       \*   long as they are not set
    series,    \* the series of the unit in the registry
    upAtClock, \* history: how long it had been up when the clock was read, 0 if
               \*   that failed or it has been started since
    upLeast,   \* history: bounds of the time the unit that is recorded had been
    upMost     \*   up while it was observed

unitWorldVars == <<time, unitState, enter>>
history == <<upAtClock, upLeast, upMost>>
unitVars == <<unitWorldVars, pc, now, status, cpu, mem, series, history>>

Figure == {"unset", "v2", "v1"}
Status == [state : States, enter : 0 .. LastInstant]
NoStatus == [state |-> "inactive", enter |-> 0]
Series ==
    [state : States, active : {0, 1}, set : [KnownStateValues -> {0, 1}],
     uptime : 0 .. LastInstant, cpu : Figure, mem : Figure]

UnitTypeOK ==
    /\ time \in 1 .. LastInstant
    /\ unitState \in States
    /\ enter \in 0 .. LastInstant
    /\ pc \in {"clock", "status", "cpu2", "mem2", "cpu1", "mem1", "record"}
    /\ now \in 0 .. LastInstant
    /\ status \in Status
    /\ cpu \in Figure /\ mem \in Figure
    /\ series \in Series \cup {NoSeries}
    /\ upAtClock \in 0 .. LastInstant
    /\ upLeast \in 0 .. LastInstant /\ upMost \in 0 .. LastInstant

UnitInit ==
    /\ time = 1
    /\ unitState = "inactive"
    /\ enter = 0
    /\ pc = "clock"
    /\ now = 0
    /\ status = NoStatus
    /\ cpu = "unset"
    /\ mem = "unset"
    /\ series = NoSeries
    /\ upAtClock = 0
    /\ upLeast = 0
    /\ upMost = 0

-----------------------------------------------------------------------------
\* The clock, or zero if it cannot be read.
ReadClock ==
    /\ pc = "clock"
    /\ \/ now' = time /\ upAtClock' = IF enter = 0 THEN 0 ELSE time - enter
       \/ now' = 0 /\ upAtClock' = 0
    /\ pc' = "status"
    /\ UNCHANGED <<unitWorldVars, status, cpu, mem, series, upLeast, upMost>>

\* systemctl answers and its answer can be parsed.  Only an active unit with a
\* control group is asked for its usage.
StatusOK ==
    /\ pc = "status"
    /\ status' = [state |-> unitState, enter |-> enter]
    /\ upLeast' = IF unitState = "active" THEN upAtClock ELSE 0
    /\ upMost' = IF unitState = "active" THEN time - enter ELSE 0
    /\ upAtClock' = 0
    /\ pc' \in IF unitState = "active" THEN {"cpu2", "record"} ELSE {"record"}
    /\ UNCHANGED <<unitWorldVars, now, cpu, mem, series>>

\* It does not: the last known sample is recorded once more.
StatusFails ==
    /\ pc = "status"
    /\ pc' = "clock"
    /\ now' = 0
    /\ upAtClock' = 0
    /\ UNCHANGED <<unitWorldVars, status, cpu, mem, series, upLeast, upMost>>

\* Variant of UsageFails: what was read before the failure is kept.
UsageFailsKept ==
    /\ pc' = "record"
    /\ UNCHANGED <<unitWorldVars, now, status, cpu, mem, series, history>>

\* ReadUsage fails: there is no usage at all.
UsageFails ==
    /\ pc' = "record"
    /\ cpu' = "unset"
    /\ mem' = "unset"
    /\ UNCHANGED <<unitWorldVars, now, status, series, history>>

\* Each file is there, is not there, or cannot be read or parsed.  A v2 file
\* that is not there is looked for in the v1 hierarchy.
ReadV2CPU ==
    /\ pc = "cpu2"
    /\ \/ UsageFails
       \/ /\ cpu' \in {"v2", "unset"}
          /\ pc' = "mem2"
          /\ UNCHANGED <<unitWorldVars, now, status, mem, series, history>>

ReadV2Memory ==
    /\ pc = "mem2"
    /\ \/ UsageFails
       \/ /\ mem' \in {"v2", "unset"}
          /\ pc' = IF cpu = "unset" THEN "cpu1" ELSE IF mem' = "unset" THEN "mem1" ELSE "record"
          /\ UNCHANGED <<unitWorldVars, now, status, cpu, series, history>>

\* A figure that v1 lacks too fails the usage, whatever the other file gives.
ReadV1CPU ==
    /\ pc = "cpu1"
    /\ \/ UsageFails
       \/ /\ cpu' = "v1"
          /\ pc' = IF mem = "unset" THEN "mem1" ELSE "record"
          /\ UNCHANGED <<unitWorldVars, now, status, mem, series, history>>

ReadV1Memory ==
    /\ pc = "mem1"
    /\ \/ UsageFails
       \/ /\ mem' = "v1"
          /\ pc' = "record"
          /\ UNCHANGED <<unitWorldVars, now, status, cpu, series, history>>

-----------------------------------------------------------------------------
\* Variant of ComputeUptime: no guard on a unit that entered later.
ComputeUptimeWrapped(n, e) == IF e = 0 THEN 0 ELSE (n - e) % Word

\* The difference of two unsigned timestamps; a unit that became active after
\* the clock was read is not up yet, and a clock of zero gives no uptime.
ComputeUptime(n, e) == IF n <= e \/ e = 0 THEN 0 ELSE (n - e) % Word

\* Variant of StateSet: the state before is not reset.
StateSetKept(state) ==
    [k \in KnownStateValues |->
        IF k = state \/ (series # NoSeries /\ series.set[k] = 1) THEN 1 ELSE 0]

\* The old series of the state-set are deleted, one per known state is set.
StateSet(state) == [k \in KnownStateValues |-> IF k = state THEN 1 ELSE 0]

\* Variant of Record: the uptime is computed for a unit in any state.
RecordAnyUptime ==
    /\ pc = "record"
    /\ series' =
           [state |-> status.state, active |-> IF status.state = "active" THEN 1 ELSE 0,
            set |-> StateSet(status.state), uptime |-> ComputeUptime(now, status.enter),
            cpu |-> cpu, mem |-> mem]
    /\ pc' = "clock"
    /\ now' = 0
    /\ status' = NoStatus
    /\ cpu' = "unset"
    /\ mem' = "unset"
    /\ UNCHANGED <<unitWorldVars, history>>

\* The sample is complete: recordService sets the series of the unit.
Record ==
    /\ pc = "record"
    /\ LET active == status.state = "active" IN
       series' =
           [state |-> status.state, active |-> IF active THEN 1 ELSE 0,
            set |-> StateSet(status.state),
            uptime |-> IF active THEN ComputeUptime(now, status.enter) ELSE 0,
            cpu |-> cpu, mem |-> mem]
    /\ pc' = "clock"
    /\ now' = 0
    /\ status' = NoStatus
    /\ cpu' = "unset"
    /\ mem' = "unset"
    /\ UNCHANGED <<unitWorldVars, history>>

-----------------------------------------------------------------------------
(* The world. *)

Pass ==
    /\ time < LastInstant
    /\ time' = time + 1
    /\ UNCHANGED <<unitState, enter, pc, now, status, cpu, mem, series, history>>

\* The unit changes its state.  A reload of an active unit is not a new start.
Change(state) ==
    /\ state # unitState
    /\ unitState' = state
    /\ LET starts == state = "active" /\ unitState # "reloading" IN
       /\ enter' = IF starts THEN time ELSE enter
       /\ upAtClock' = IF starts THEN 0 ELSE upAtClock
    /\ UNCHANGED <<time, pc, now, status, cpu, mem, series, upLeast, upMost>>

UnitNext ==
    \/ ReadClock \/ StatusOK \/ StatusFails
    \/ ReadV2CPU \/ ReadV2Memory \/ ReadV1CPU \/ ReadV1Memory \/ Record
    \/ Pass
    \/ \E state \in States : Change(state)

UnitSpec == UnitInit /\ [][UnitNext]_unitVars

-----------------------------------------------------------------------------
\* An uptime that is exported is at most the time the unit had been up when it
\* answered, also if it was started between the reading of the clock and the
\* answer, or the clock could not be read.  It is at least the time the unit had
\* been up when the clock was read, if it was and the unit has not been started
\* since.  A unit that is not active has none.
UptimeTrue ==
    pc = "clock" /\ series # NoSeries => series.uptime \in upLeast .. upMost

\* The two usage figures are exported together or not at all, and only of an
\* active unit, whichever file went away between two reads.
UsageWhole ==
    series # NoSeries =>
        /\ (series.cpu = "unset") <=> (series.mem = "unset")
        /\ series.cpu # "unset" => series.active = 1

\* The state-set and the active gauge tell the same, through any sequence of
\* states: one state carries 1 if the state is known, none otherwise.
StateSetAgrees ==
    series # NoSeries =>
        /\ {k \in KnownStateValues : series.set[k] = 1} = {series.state} \cap KnownStateValues
        /\ series.active = 1 <=> series.set["active"] = 1

\* A time of the history is none, or what the clock reading and the start of the
\* unit make of it.
IsUpSince(up, start) == up = 0 \/ (start # 0 /\ start <= now /\ up = now - start)

\* What the place in an observation tells of the unit it is of ...
TimesConsistent ==
    /\ enter <= time /\ now <= time
    /\ IsUpSince(upAtClock, enter) /\ (pc # "status" => upAtClock = 0)
    /\ pc \notin {"clock", "status"} =>
          IF status.state = "active"
          THEN now - status.enter <= upMost /\ IsUpSince(upLeast, status.enter)
          ELSE upLeast = 0
    /\ pc \in {"clock", "status"} /\ series # NoSeries => series.uptime \in upLeast .. upMost

\* ... and of its usage figures.
FiguresConsistent ==
    /\ pc \in {"clock", "status", "cpu2"} => cpu = "unset"
    /\ pc \in {"clock", "status", "cpu2", "mem2"} => mem = "unset"
    /\ pc \in {"cpu2", "mem2", "cpu1", "mem1"} => status.state = "active"
    /\ pc = "cpu1" => cpu = "unset"
    /\ pc = "mem1" => cpu # "unset" /\ mem = "unset"
    /\ pc = "record" =>
          /\ (cpu = "unset") <=> (mem = "unset")
          /\ cpu # "unset" => status.state = "active"

\* The inductive invariant.
UnitIInv == UnitTypeOK /\ TimesConsistent /\ FiguresConsistent /\ UsageWhole /\ StateSetAgrees
=============================================================================
