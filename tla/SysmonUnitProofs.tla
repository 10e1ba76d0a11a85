-------------------------- MODULE SysmonUnitProofs --------------------------
(***************************************************************************)
(* One observation of a unit, for any set of states, any length of time    *)
(* and any size of a timestamp that time does not exceed.                  *)
(***************************************************************************)
EXTENDS SysmonUnit, TLAPS

\* The difference of two timestamps is what was subtracted, or zero; the guard
\* of the code keeps it from wrapping.
LEMMA ComputeUptimeIsDifference ==
    ASSUME NEW n \in 0 .. LastInstant, NEW e \in 0 .. LastInstant
    PROVE  /\ ComputeUptime(n, e) \in 0 .. LastInstant
           /\ ComputeUptime(n, e) = IF n <= e \/ e = 0 THEN 0 ELSE n - e
<1>1. CASE n <= e \/ e = 0
    BY <1>1, UnitAssumption DEF ComputeUptime
<1>2. CASE ~(n <= e \/ e = 0)
    <2>1. n - e \in Nat /\ n - e < Word /\ n - e <= LastInstant /\ Word \in Nat
        BY <1>2, UnitAssumption
    <2>2. (n - e) % Word = n - e
        BY <2>1
    <2> QED
        BY <1>2, <2>1, <2>2 DEF ComputeUptime
<1> QED
    BY <1>1, <1>2

\* The state-set has one entry per known state, and a one for the state only.
LEMMA StateSetType ==
    ASSUME NEW state \in States
    PROVE  /\ StateSet(state) \in [KnownStateValues -> {0, 1}]
           /\ {k \in KnownStateValues : StateSet(state)[k] = 1} = {state} \cap KnownStateValues
    BY DEF StateSet

\* The invariant holds at the start.
LEMMA InitEstablishes == UnitInit => UnitIInv
    BY UnitAssumption
       DEF UnitInit, UnitIInv, UnitTypeOK, TimesConsistent, IsUpSince, FiguresConsistent,
           UsageWhole, StateSetAgrees, Status, NoStatus, Figure

\* Reading the clock and asking systemctl: time has only gone on in between.
LEMMA AskPreserves ==
    ASSUME UnitIInv, ReadClock \/ StatusOK \/ StatusFails
    PROVE  UnitIInv'
<1> USE DEF unitWorldVars
<1>1. CASE ReadClock
    <2>1. now' \in 0 .. time /\ now' \in 0 .. LastInstant
        BY <1>1, UnitAssumption DEF ReadClock, UnitIInv, UnitTypeOK
    <2>2. UnitTypeOK'
        BY <1>1, <2>1, UnitAssumption DEF ReadClock, UnitIInv, UnitTypeOK, TimesConsistent
    <2>3. TimesConsistent'
        BY <1>1, <2>1 DEF ReadClock, UnitIInv, UnitTypeOK, TimesConsistent, IsUpSince
    <2> QED
        BY <1>1, <2>1, <2>2, <2>3
           DEF ReadClock, UnitIInv, FiguresConsistent, UsageWhole, StateSetAgrees
<1>2. CASE StatusOK
    <2>1. /\ status' \in Status /\ upAtClock' \in 0 .. LastInstant
          /\ upLeast' \in 0 .. LastInstant /\ upMost' \in 0 .. LastInstant
        BY <1>2, UnitAssumption DEF StatusOK, UnitIInv, UnitTypeOK, TimesConsistent, Status
    <2>2. pc' \in {"cpu2", "record"} /\ (pc' = "cpu2" => unitState = "active")
        BY <1>2 DEF StatusOK
    <2>3. UnitTypeOK'
        BY <1>2, <2>1, <2>2 DEF StatusOK, UnitIInv, UnitTypeOK
    <2>4. TimesConsistent'
        BY <1>2, <2>2 DEF StatusOK, UnitIInv, UnitTypeOK, TimesConsistent, IsUpSince
    <2> QED
        BY <1>2, <2>2, <2>3, <2>4
           DEF StatusOK, UnitIInv, FiguresConsistent, UsageWhole, StateSetAgrees
<1>3. CASE StatusFails
    <2>1. UnitTypeOK'
        BY <1>3, UnitAssumption DEF StatusFails, UnitIInv, UnitTypeOK
    <2> QED
        BY <1>3, <2>1
           DEF StatusFails, UnitIInv, UnitTypeOK, TimesConsistent, IsUpSince, FiguresConsistent,
               UsageWhole, StateSetAgrees
<1> QED
    BY <1>1, <1>2, <1>3

\* The reads of the control group set figures one by one, and drop both when
\* one is not to be had.
LEMMA UsagePreserves ==
    ASSUME UnitIInv, ReadV2CPU \/ ReadV2Memory \/ ReadV1CPU \/ ReadV1Memory
    PROVE  UnitIInv'
<1>1. /\ pc \in {"cpu2", "mem2", "cpu1", "mem1"}
      /\ pc' \in {"mem2", "cpu1", "mem1", "record"}
      /\ cpu' \in Figure /\ mem' \in Figure
      /\ UNCHANGED <<unitWorldVars, now, status, series, history>>
    BY DEF ReadV2CPU, ReadV2Memory, ReadV1CPU, ReadV1Memory, UsageFails, UnitIInv, UnitTypeOK, Figure
<1> USE DEF unitWorldVars, history
<1>2. UnitTypeOK'
    BY <1>1 DEF UnitIInv, UnitTypeOK
<1>3. TimesConsistent'
    BY <1>1 DEF UnitIInv, TimesConsistent, IsUpSince
<1>4. FiguresConsistent'
    BY <1>1
       DEF ReadV2CPU, ReadV2Memory, ReadV1CPU, ReadV1Memory, UsageFails, UnitIInv, FiguresConsistent
<1>5. UsageWhole' /\ StateSetAgrees'
    BY <1>1 DEF UnitIInv, UsageWhole, StateSetAgrees
<1> QED
    BY <1>2, <1>3, <1>4, <1>5 DEF UnitIInv

\* What is recorded is the sample as it is then.
LEMMA RecordPreserves ==
    ASSUME UnitIInv, Record
    PROVE  UnitIInv'
<1> DEFINE active == status.state = "active"
<1>1. /\ status.state \in States /\ status.enter \in 0 .. LastInstant /\ now \in 0 .. LastInstant
      /\ upLeast \in 0 .. LastInstant /\ upMost \in 0 .. LastInstant
    BY DEF UnitIInv, UnitTypeOK, Status
<1>2. /\ series'.state = status.state /\ series'.active = IF active THEN 1 ELSE 0
      /\ series'.set = StateSet(status.state)
      /\ series'.uptime = IF active THEN ComputeUptime(now, status.enter) ELSE 0
      /\ series'.cpu = cpu /\ series'.mem = mem
    BY DEF Record
<1>3. series'.uptime \in 0 .. LastInstant /\ series'.uptime \in upLeast .. upMost
    <2>1. CASE active
        <3>1. now - status.enter <= upMost /\ IsUpSince(upLeast, status.enter)
            BY <2>1 DEF UnitIInv, TimesConsistent, Record
        <3>2. /\ series'.uptime \in 0 .. LastInstant
              /\ series'.uptime =
                     IF now <= status.enter \/ status.enter = 0 THEN 0 ELSE now - status.enter
            BY <1>1, <1>2, <2>1, ComputeUptimeIsDifference
        <3> QED
            BY <1>1, <3>1, <3>2 DEF IsUpSince
    <2>2. CASE ~active
        <3>1. upLeast = 0
            BY <2>2 DEF UnitIInv, TimesConsistent, Record
        <3> QED
            BY <1>1, <1>2, <2>2, <3>1, UnitAssumption
    <2> QED
        BY <2>1, <2>2
<1>4. series' \in Series
    <2>1. series' = [state |-> series'.state, active |-> series'.active, set |-> series'.set,
                     uptime |-> series'.uptime, cpu |-> series'.cpu, mem |-> series'.mem]
        BY DEF Record
    <2> QED
        BY <1>1, <1>2, <1>3, <2>1, StateSetType DEF Series, UnitIInv, UnitTypeOK
<1>5. UnitTypeOK'
    BY <1>4, UnitAssumption DEF Record, unitWorldVars, history, UnitIInv, UnitTypeOK, NoStatus, Status, Figure
<1>6. TimesConsistent'
    BY <1>3, <1>5, UnitAssumption DEF Record, unitWorldVars, history, UnitIInv, UnitTypeOK, TimesConsistent, IsUpSince
<1>7. FiguresConsistent'
    BY DEF Record, FiguresConsistent
<1>8. UsageWhole'
    BY <1>2 DEF Record, UnitIInv, FiguresConsistent, UsageWhole
<1>9. StateSetAgrees'
    <2>1. {k \in KnownStateValues : series'.set[k] = 1} = {series'.state} \cap KnownStateValues
        BY <1>1, <1>2, StateSetType
    <2>2. "active" \in KnownStateValues
        BY DEF KnownStateValues
    <2>3. series'.active = 1 <=> series'.set["active"] = 1
        BY <1>1, <1>2, <2>2 DEF StateSet
    <2> QED
        BY <2>1, <2>3 DEF StateSetAgrees
<1> QED
    BY <1>5, <1>6, <1>7, <1>8, <1>9 DEF UnitIInv

\* The world goes on: time passes, and a unit that starts does so now.
LEMMA WorldPreserves ==
    ASSUME UnitIInv, Pass \/ \E state \in States : Change(state)
    PROVE  UnitIInv'
<1>1. /\ time' \in time .. LastInstant /\ unitState' \in States
      /\ \/ enter' = enter /\ upAtClock' = upAtClock
         \/ enter' = time /\ upAtClock' = 0
      /\ UNCHANGED <<pc, now, status, cpu, mem, series, upLeast, upMost>>
    BY UnitAssumption DEF Pass, Change, history, UnitIInv, UnitTypeOK
<1>2. UnitTypeOK'
    BY <1>1, UnitAssumption DEF UnitIInv, UnitTypeOK
<1>3. TimesConsistent'
    BY <1>1, UnitAssumption DEF UnitIInv, UnitTypeOK, TimesConsistent, IsUpSince
<1> QED
    BY <1>1, <1>2, <1>3 DEF UnitIInv, FiguresConsistent, UsageWhole, StateSetAgrees

\* The invariant holds in every behaviour.
THEOREM Invariance == UnitSpec => []UnitIInv
<1>1. UnitIInv /\ [UnitNext]_unitVars => UnitIInv'
    <2> SUFFICES ASSUME UnitIInv, [UnitNext]_unitVars PROVE UnitIInv'
        OBVIOUS
    <2>1. CASE UnitNext
        BY <2>1, AskPreserves, UsagePreserves, RecordPreserves, WorldPreserves DEF UnitNext
    <2>2. CASE UNCHANGED unitVars
        BY <2>2
           DEF unitVars, unitWorldVars, history, UnitIInv, UnitTypeOK, TimesConsistent, IsUpSince,
               FiguresConsistent, UsageWhole, StateSetAgrees
    <2> QED
        BY <2>1, <2>2
<1> QED
    BY InitEstablishes, <1>1, PTL DEF UnitSpec

\* The variables keep their types.
THEOREM TypeCorrect == UnitSpec => []UnitTypeOK
<1>1. UnitIInv => UnitTypeOK
    BY DEF UnitIInv
<1> QED
    BY Invariance, <1>1, PTL

\* An exported uptime is between the time the unit had been up when the clock was
\* read and the time it had been up when it answered.
THEOREM UptimeIsTrue == UnitSpec => []UptimeTrue
<1>1. UnitIInv => UptimeTrue
    BY DEF UnitIInv, TimesConsistent, UptimeTrue
<1> QED
    BY Invariance, <1>1, PTL

\* Usage is exported whole or not at all.
THEOREM UsageIsWhole == UnitSpec => []UsageWhole
<1>1. UnitIInv => UsageWhole
    BY DEF UnitIInv
<1> QED
    BY Invariance, <1>1, PTL

\* The state-set and the active gauge agree.
THEOREM StatesAgree == UnitSpec => []StateSetAgrees
<1>1. UnitIInv => StateSetAgrees
    BY DEF UnitIInv
<1> QED
    BY Invariance, <1>1, PTL
=============================================================================
