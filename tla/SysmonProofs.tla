---------------------------- MODULE SysmonProofs ----------------------------
(***************************************************************************)
(* What sysmon exports and pushes is what it observed last, and the        *)
(* gateway mirrors one process: for any units, any number of faults, and   *)
(* whether or not Gather hands out the registry's own labels.              *)
(***************************************************************************)
EXTENDS Sysmon, TLAPS

\* The invariant holds before the first start.
LEMMA InitEstablishes == Init => IInv
<1> SUFFICES ASSUME Init PROVE IInv
    OBVIOUS
<1> USE DEF Init
<1>1. None \in Samples
    BY DEF None, Samples
<1>2. TypeOK
    <2>1. faults \in 0 .. MaxFaults
        BY SysmonAssumption
    <2>2. clockOK \in BOOLEAN /\ stopping \in BOOLEAN /\ tick \in BOOLEAN
        OBVIOUS
    <2> QED
        BY <1>1, <2>1, <2>2 DEF TypeOK, PC
<1> QED
    BY <1>2 DEF IInv, MadeBy, None, ExportedIsLatest, GatewayOneProcess, OneProcess

\* The samples of an answer are samples, made by this process.
LEMMA SampleOfType ==
    ASSUME TypeOK, NEW s \in Services, NEW usage \in Measure
    PROVE  /\ SampleOf(s, usage) \in Sample /\ SampleOf(s, usage).inc = inc
           /\ SampleOf(s, usage) # NoSample
<1>1. world[s] \in State /\ inc \in BOOLEAN
    BY DEF TypeOK
<1>2. SampleOf(s, usage) \in Sample
    BY <1>1 DEF SampleOf, Sample, State, Measure
<1>3. SampleOf(s, usage).inc = inc
    BY DEF SampleOf
<1> QED
    BY <1>2, <1>3, SysmonAssumption

\* The registry of the process, as content of the gateway.
LEMMA RegistryIsContent ==
    ASSUME IInv
    PROVE  Registry \in Content /\ OneProcess(Registry)
    BY DEF IInv, TypeOK, Registry, Content, OneProcess

\* Nothing known is made by any process.
LEMMA NoneMade == None \in Samples /\ \A i : MadeBy(None, i)
    BY DEF None, Samples, MadeBy

\* A step that leaves what is observed, exported and pushed alone, outside or
\* inside the loop over the units.
LEMMA DataKept ==
    ASSUME IInv, TypeOK',
           UNCHANGED <<inc, samples, lastKnown, obs, exported, remoteVars>>,
           pc' = "services" => (pc = "services" /\ todo' = todo) \/ todo' = Services,
           pc' # "services" => pc # "services",
           exit' = "error" => pc' = "down" /\ ~succeeded',
           succeeded' => ~first'
    PROVE  IInv'
    BY DEF IInv, remoteVars, MadeBy, ExportedIsLatest, GatewayOneProcess, OneProcess

\* A step after which the process is gone; what it left outside is of one
\* process each.
LEMMA EndPreserves ==
    ASSUME IInv, NEW to \in {"down", "stopped"}, NEW how \in {"clean", "error", "crash"},
           EndProcess(to, how), how = "error" => to = "down" /\ ~succeeded,
           UNCHANGED world, stopping' = stopping, faults' \in 0 .. MaxFaults,
           gateway' \in Content \cup {NoContent}, late' \in Content \cup {NoContent},
           OneProcess(gateway)', OneProcess(late)'
    PROVE  IInv'
<1> USE DEF EndProcess
<1>1. TypeOK'
    BY NoneMade DEF IInv, TypeOK, PC
<1>2. MadeBy(lastKnown, inc)' /\ MadeBy(samples, inc)' /\ MadeBy(exported, inc)'
    BY NoneMade
<1> QED
    BY <1>1, <1>2 DEF IInv, None, ExportedIsLatest, GatewayOneProcess

\* A failed cycle, outside the loop over the units.
LEMMA CycleFailsPreserves ==
    ASSUME IInv, NEW labels \in SUBSET Owners, CycleFails(labels), pc \in {"snapshot", "push"},
           UNCHANGED world, stopping' = stopping, faults' \in 0 .. MaxFaults,
           gateway' \in Content \cup {NoContent}, late' \in Content \cup {NoContent},
           OneProcess(gateway)', OneProcess(late)'
    PROVE  IInv'
<1>1. CASE first /\ EndProcess("down", "error")
    <2>1. ~succeeded
        BY <1>1 DEF IInv
    <2> QED
        BY <1>1, <2>1, EndPreserves
<1>2. CASE ~first /\ CycleOver("select", labels) /\ UNCHANGED <<first, succeeded>>
    <2> USE <1>2 DEF CycleOver, cycleVars
    <2>1. TypeOK'
        BY DEF IInv, TypeOK, PC
    <2> QED
        BY <2>1 DEF IInv, MadeBy, ExportedIsLatest, GatewayOneProcess
<1> QED
    BY <1>1, <1>2 DEF CycleFails

\* The steps of the process.
LEMMA LoopPreserves ==
    ASSUME IInv, StartProcess \/ BeginCycle \/ StopOnCancel \/ SnapshotOK \/ SnapshotFails
    PROVE  IInv'
<1> USE DEF cycleVars, dataVars, registryVars, remoteVars
<1>1. CASE StartProcess
    <2>1. TypeOK'
        BY <1>1 DEF StartProcess, IInv, TypeOK, PC
    <2> QED
        BY <1>1, <2>1, DataKept DEF StartProcess
<1>2. CASE BeginCycle
    <2>1. TypeOK'
        BY <1>2 DEF BeginCycle, IInv, TypeOK, PC
    <2> QED
        BY <1>2, <2>1, DataKept DEF BeginCycle, IInv
<1>3. CASE StopOnCancel
    BY <1>3, EndPreserves DEF StopOnCancel, IInv, TypeOK, GatewayOneProcess, OneProcess, MadeBy
<1>4. CASE SnapshotOK
    <2>1. faults' \in 0 .. MaxFaults
        BY <1>4, SysmonAssumption DEF SnapshotOK, Fault, IInv, TypeOK
    <2>2. clockOK' \in BOOLEAN
        BY <1>4, Zenon DEF SnapshotOK
    <2>3. TypeOK'
        BY <1>4, <2>1, <2>2 DEF SnapshotOK, IInv, TypeOK, PC
    <2> QED
        BY <1>4, <2>3, DataKept DEF SnapshotOK, IInv
<1>5. CASE SnapshotFails
    <2>1. faults' \in 0 .. MaxFaults
        BY <1>5, SysmonAssumption DEF SnapshotFails, Fault, IInv, TypeOK
    <2>2. stripped \in SUBSET Owners /\ pc \in {"snapshot", "push"} /\ CycleFails(stripped)
        BY <1>5 DEF SnapshotFails, IInv, TypeOK
    <2> QED
        BY <1>5, <2>1, <2>2, CycleFailsPreserves
           DEF SnapshotFails, IInv, TypeOK, GatewayOneProcess, OneProcess, MadeBy
<1> QED
    BY <1>1, <1>2, <1>3, <1>4, <1>5

\* A unit that answers: its sample is the latest observation everywhere.
LEMMA StatusOKPreserves ==
    ASSUME IInv, NEW s \in Services, StatusOK(s)
    PROVE  IInv'
<1>1. PICK usage \in Measure :
          /\ lastKnown' = [lastKnown EXCEPT ![s] = SampleOf(s, usage)]
          /\ samples' = [samples EXCEPT ![s] = SampleOf(s, usage)]
          /\ obs' = [obs EXCEPT ![s] = SampleOf(s, usage)]
    BY DEF StatusOK
<1>2. PICK new \in Sample :
          /\ new.inc = inc /\ new # NoSample
          /\ lastKnown' = [lastKnown EXCEPT ![s] = new]
          /\ samples' = [samples EXCEPT ![s] = new]
          /\ obs' = [obs EXCEPT ![s] = new]
    BY <1>1, SampleOfType DEF IInv
<1>3. faults' \in 0 .. MaxFaults
    BY SysmonAssumption DEF StatusOK, Fault, IInv, TypeOK
<1>4. /\ pc = "services" /\ todo' = todo \ {s}
      /\ UNCHANGED <<procVars, stopping, expired, clockOK, tick, registryVars, world, remoteVars>>
    BY DEF StatusOK
<1> USE DEF procVars, registryVars, remoteVars
<1>5. TypeOK'
    BY <1>2, <1>3, <1>4 DEF IInv, TypeOK, Samples
<1>6. obs' = lastKnown' /\ MadeBy(lastKnown, inc)' /\ MadeBy(samples, inc)'
    BY <1>2, <1>4 DEF IInv, TypeOK, Samples, MadeBy
<1>7. \A t \in Services \ todo' : samples'[t] = obs'[t]
    BY <1>2, <1>4 DEF IInv, TypeOK, Samples
<1>8. \A t \in Services : exported'[t] # NoSample => obs'[t] # NoSample
    BY <1>2, <1>4 DEF IInv, TypeOK, Samples
<1> QED
    BY <1>4, <1>5, <1>6, <1>7, <1>8
       DEF IInv, MadeBy, ExportedIsLatest, GatewayOneProcess, OneProcess

\* A unit that does not answer: the last observation stands in for it.
LEMMA StatusFailsPreserves ==
    ASSUME IInv, NEW s \in Services, StatusFails(s)
    PROVE  IInv'
<1> USE DEF StatusFails, procVars, dataVars, registryVars, remoteVars
<1>1. TypeOK'
    BY SysmonAssumption DEF Fault, IInv, TypeOK, Samples
<1>2. MadeBy(samples, inc)'
    BY DEF IInv, TypeOK, Samples, MadeBy
<1>3. \A t \in Services \ todo' : samples'[t] = obs'[t]
    BY DEF IInv, TypeOK, Samples
<1> QED
    BY <1>1, <1>2, <1>3 DEF IInv, MadeBy, ExportedIsLatest, GatewayOneProcess, OneProcess

\* When every unit was asked, what is exported is what was observed last.
LEMMA UpdatePreserves ==
    ASSUME IInv, UpdateServices
    PROVE  IInv' /\ exported' = obs
<1> USE DEF UpdateServices, remoteVars
<1>1. samples = obs
    BY DEF IInv, TypeOK, Samples
<1>2. TypeOK'
    BY DEF IInv, TypeOK, PC, Samples, None
<1>3. MadeBy(samples, inc)' /\ MadeBy(exported, inc)'
    BY DEF IInv, MadeBy, None
<1> QED
    BY <1>1, <1>2, <1>3 DEF IInv, MadeBy, ExportedIsLatest, GatewayOneProcess, OneProcess

\* A push replaces what the gateway held by one registry.
LEMMA PushPreserves ==
    ASSUME IInv, PushOK \/ PushFails \/ GatherFails
    PROVE  IInv'
<1>1. Registry \in Content /\ OneProcess(Registry)
    BY RegistryIsContent
<1>2. Stripped \in SUBSET Owners
    BY DEF Stripped
<1>3. CASE PushOK
    <2> USE <1>3 DEF PushOK, CycleSucceeds, CycleOver, cycleVars
    <2>1. TypeOK'
        BY <1>1, <1>2 DEF IInv, TypeOK, PC
    <2>2. OneProcess(gateway)' /\ OneProcess(late)'
        BY <1>1 DEF IInv, OneProcess, MadeBy
    <2> QED
        BY <2>1, <2>2 DEF IInv, MadeBy, ExportedIsLatest, GatewayOneProcess
<1>4. CASE PushFails
    <2>1. /\ gateway' \in {gateway, Registry} /\ late' \in {late, Registry}
          /\ faults' \in 0 .. MaxFaults
        BY <1>4, SysmonAssumption DEF PushFails, Fault, remoteVars, IInv, TypeOK
    <2>2. OneProcess(gateway)' /\ OneProcess(late)'
        BY <1>1, <2>1 DEF IInv, GatewayOneProcess, OneProcess, MadeBy
    <2>3. UNCHANGED <<stopping, world>> /\ pc = "push" /\ CycleFails(Stripped)
        BY <1>4 DEF PushFails
    <2> QED
        BY <1>1, <1>2, <2>1, <2>2, <2>3, CycleFailsPreserves DEF IInv, TypeOK
<1>5. CASE GatherFails
    <2>1. stripped \in SUBSET Owners /\ pc \in {"snapshot", "push"} /\ CycleFails(stripped)
        BY <1>5 DEF GatherFails, IInv, TypeOK
    <2> QED
        BY <1>5, <2>1, CycleFailsPreserves
           DEF GatherFails, remoteVars, IInv, TypeOK, GatewayOneProcess, OneProcess, MadeBy
<1> QED
    BY <1>3, <1>4, <1>5

\* The environment.
LEMMA EnvironmentPreserves ==
    ASSUME IInv, Tick \/ Expire \/ Stop \/ Crash \/ ArriveLate \/ \E s \in Services : Change(s)
    PROVE  IInv'
<1> USE DEF procVars, cycleVars, dataVars, registryVars, remoteVars
<1>1. CASE Tick
    <2>1. TypeOK'
        BY <1>1 DEF Tick, IInv, TypeOK
    <2> QED
        BY <1>1, <2>1, DataKept DEF Tick, IInv
<1>2. CASE Expire
    <2>1. TypeOK'
        BY <1>2, SysmonAssumption DEF Expire, Fault, IInv, TypeOK
    <2> QED
        BY <1>2, <2>1, DataKept DEF Expire, IInv
<1>3. CASE Stop
    <2>1. TypeOK'
        BY <1>3 DEF Stop, IInv, TypeOK
    <2> QED
        BY <1>3, <2>1, DataKept DEF Stop, IInv
<1>4. CASE Crash
    <2>1. faults' \in 0 .. MaxFaults
        BY <1>4, SysmonAssumption DEF Crash, Fault, IInv, TypeOK
    <2> QED
        BY <1>4, <2>1, EndPreserves
           DEF Crash, IInv, TypeOK, GatewayOneProcess, OneProcess, MadeBy
<1>5. CASE ArriveLate
    <2>1. TypeOK'
        BY <1>5 DEF ArriveLate, IInv, TypeOK
    <2>2. OneProcess(gateway)' /\ OneProcess(late)'
        BY <1>5 DEF ArriveLate, IInv, OneProcess, MadeBy
    <2> QED
        BY <1>5, <2>1, <2>2 DEF ArriveLate, IInv, MadeBy, ExportedIsLatest, GatewayOneProcess
<1>6. ASSUME NEW s \in Services, Change(s) PROVE IInv'
    <2>1. TypeOK'
        BY <1>6 DEF Change, IInv, TypeOK, State
    <2> QED
        BY <1>6, <2>1, DataKept DEF Change, IInv
<1> QED
    BY <1>1, <1>2, <1>3, <1>4, <1>5, <1>6

\* The invariant is inductive.
LEMMA NextPreserves ==
    ASSUME IInv, [Next]_vars
    PROVE  IInv'
<1>1. CASE Next
    BY <1>1, LoopPreserves, StatusOKPreserves, StatusFailsPreserves, UpdatePreserves,
       PushPreserves, EnvironmentPreserves
       DEF Next, ProcessStep, ServiceStep
<1>2. CASE UNCHANGED vars
    BY <1>2 DEF vars, procVars, cycleVars, dataVars, registryVars, remoteVars, IInv, TypeOK, MadeBy,
           ExportedIsLatest, GatewayOneProcess, OneProcess
<1> QED
    BY <1>1, <1>2

\* The invariant holds in every behaviour.
THEOREM Invariance == SafetySpec => []IInv
    BY InitEstablishes, NextPreserves, PTL DEF SafetySpec

\* The variables keep their types.
THEOREM TypeCorrect == SafetySpec => []TypeOK
<1>1. IInv => TypeOK
    BY DEF IInv
<1> QED
    BY Invariance, <1>1, PTL

\* What the registry holds of a unit is its latest observation, whatever failed.
THEOREM ExportsTheLatest == SafetySpec => []ExportedIsLatest
<1>1. IInv => ExportedIsLatest
    BY DEF IInv
<1> QED
    BY Invariance, <1>1, PTL

\* The gateway holds the registry of a single process.
THEOREM OneProcessInGateway == SafetySpec => []GatewayOneProcess
<1>1. IInv => GatewayOneProcess
    BY DEF IInv
<1> QED
    BY Invariance, <1>1, PTL

\* Run returns an error only before its first successful cycle.
THEOREM ErrorOnlyAtFirst == SafetySpec => []OnlyFirstCycleExits
<1>1. IInv => OnlyFirstCycleExits
    BY DEF IInv, OnlyFirstCycleExits
<1> QED
    BY Invariance, <1>1, PTL

\* As long as the process lives no unit it has observed loses its series.
THEOREM SeriesStay == SafetySpec => NeverVanishes
<1>1. ASSUME IInv, [Next]_vars
      PROVE  \A s \in Services :
                 exported[s] # NoSample /\ pc' \notin {"down", "stopped"}
                     => exported'[s] # NoSample
    <2>1. CASE UpdateServices
        BY <1>1, <2>1, UpdatePreserves DEF IInv
    <2>2. CASE ~UpdateServices
        <3>1. exported' = exported \/ pc' \in {"down", "stopped"}
            BY <1>1, <2>2 DEF Next, ProcessStep, ServiceStep, vars, procVars, cycleVars, dataVars,
               registryVars, remoteVars, StartProcess, BeginCycle, StopOnCancel, SnapshotOK,
               SnapshotFails, StatusOK, StatusFails, PushOK, PushFails, GatherFails, CycleFails,
               CycleSucceeds, CycleOver, EndProcess, Tick, Expire, Stop, Crash, Change, ArriveLate
        <3> QED
            BY <3>1
    <2> QED
        BY <2>1, <2>2
<1> QED
    BY Invariance, <1>1, PTL DEF SafetySpec, NeverVanishes

-----------------------------------------------------------------------------
(* What the pusher does to the registry. *)

\* What a step of a process that lives on does to the labels and the series.
LEMMA StrippedBySteps ==
    ASSUME IInv, StrippedInv, [Next]_vars
    PROVE  \/ pc' \in {"down", "stopped"} /\ stripped' = {}
           \/ UNCHANGED registryVars
           \/ UpdateServices /\ stripped' = stripped /\ exported' = obs
           \/ stripped = {} /\ stripped' = Stripped /\ exported' = exported
<1> USE DEF procVars, cycleVars, dataVars, registryVars, EndProcess, CycleOver, CycleFails
<1>1. CASE UpdateServices
    <2>1. samples = obs
        BY <1>1 DEF UpdateServices, IInv, TypeOK, Samples
    <2>2. stripped' = stripped
        BY <1>1, <2>1 DEF UpdateServices, IInv, StrippedInv
    <2> QED
        BY <1>1, <2>1, <2>2 DEF UpdateServices
<1>2. CASE PushOK \/ PushFails
    BY <1>2 DEF PushOK, PushFails, CycleSucceeds
<1>3. CASE StopOnCancel \/ SnapshotFails \/ GatherFails \/ Crash
    BY <1>3 DEF StopOnCancel, SnapshotFails, GatherFails, Crash
<1>4. CASE StartProcess \/ BeginCycle \/ SnapshotOK \/ Tick \/ Expire \/ Stop \/ ArriveLate
    BY <1>4 DEF StartProcess, BeginCycle, SnapshotOK, Tick, Expire, Stop, ArriveLate
<1>5. ASSUME NEW s \in Services, StatusOK(s) \/ StatusFails(s) \/ Change(s)
      PROVE  UNCHANGED registryVars
    BY <1>5 DEF StatusOK, StatusFails, Change
<1>6. CASE UNCHANGED vars
    BY <1>6 DEF vars
<1> QED
    BY <1>1, <1>2, <1>3, <1>4, <1>5, <1>6 DEF Next, ProcessStep, ServiceStep

\* What is stripped keeps being labels of series that there are.
LEMMA StrippedPreserved ==
    ASSUME IInv, StrippedInv, [Next]_vars
    PROVE  StrippedInv'
    BY StrippedBySteps DEF IInv, StrippedInv, registryVars, Stripped

\* A damaged registry stays damaged for the life of the process, and is not
\* pushed any more.
THEOREM DamageStays == SafetySpec => DamageLasts
<1>1. Init => StrippedInv
    BY DEF Init, StrippedInv
<1>2. SafetySpec => []StrippedInv
    BY <1>1, StrippedPreserved, Invariance, PTL DEF SafetySpec
<1>3. ASSUME IInv, StrippedInv, [Next]_vars
      PROVE  /\ pc' \notin {"down", "stopped"} => stripped \subseteq stripped'
             /\ stripped # {} => gateway' \in {gateway, late} /\ late' \in {late, NoContent}
    <2>1. pc' \notin {"down", "stopped"} => stripped \subseteq stripped'
        BY <1>3, StrippedBySteps DEF registryVars
    <2>2. ASSUME stripped # {}
          PROVE  gateway' \in {gateway, late} /\ late' \in {late, NoContent}
        <3> USE DEF remoteVars
        <3>1. CASE ProcessStep
            BY <2>2, <3>1 DEF ProcessStep, ServiceStep, StartProcess, BeginCycle, StopOnCancel,
               SnapshotOK, SnapshotFails, StatusOK, StatusFails, UpdateServices, PushOK, PushFails,
               GatherFails
        <3>2. CASE ArriveLate
            BY <3>2 DEF ArriveLate
        <3>3. CASE ~ProcessStep /\ ~ArriveLate
            BY <1>3, <3>3 DEF Next, Tick, Expire, Stop, Crash, Change, vars
        <3> QED
            BY <3>1, <3>2, <3>3
    <2> QED
        BY <2>1, <2>2
<1> QED
    BY <1>2, <1>3, Invariance, PTL DEF SafetySpec, DamageLasts

-----------------------------------------------------------------------------
(* The process mirrors what it observes. *)

\* The end of a process is one of the mirror, and a failed cycle is none or one.
LEMMA EndIsMirrored ==
    ASSUME NEW to, NEW how, EndProcess(to, how)
    PROVE  Mirror!Ends
    BY DEF EndProcess, Mirror!Ends, Mirror!Ignorance, None

LEMMA FailureIsMirrored ==
    ASSUME NEW labels, CycleFails(labels)
    PROVE  Mirror!GoesOn \/ Mirror!Ends
<1>1. CASE first /\ EndProcess("down", "error")
    BY <1>1, EndIsMirrored
<1>2. CASE CycleOver("select", labels)
    BY <1>2 DEF CycleOver, Mirror!GoesOn
<1> QED
    BY <1>1, <1>2 DEF CycleFails

\* What is pushed is what the process knows: the registry is up to date.
LEMMA RegistryIsPicture ==
    ASSUME IInv, pc = "push"
    PROVE  Registry = Mirror!Picture
    BY DEF IInv, ExportedIsLatest, Registry, Mirror!Picture

\* Every step maps to a step of the mirror or to a stutter.
LEMMA StepIsMirrored ==
    ASSUME IInv, [Next]_vars
    PROVE  [Mirror!Next]_(Mirror!vars)
<1> USE DEF procVars, cycleVars, dataVars, registryVars, remoteVars
<1> DEFINE Quiet == UNCHANGED <<inc, obs, gateway, late>>
<1>1. Quiet => UNCHANGED Mirror!vars
    BY DEF Mirror!vars
<1>2. Mirror!GoesOn \/ Mirror!Ends => (UNCHANGED remoteVars => Quiet \/ Mirror!Restart)
    BY DEF Mirror!GoesOn, Mirror!Restart
<1>3. CASE StartProcess \/ BeginCycle \/ SnapshotOK \/ UpdateServices \/ Tick \/ Expire \/ Stop
    BY <1>1, <1>3 DEF StartProcess, BeginCycle, SnapshotOK, UpdateServices, Tick, Expire, Stop
<1>4. CASE StopOnCancel \/ Crash
    <2>1. Mirror!Restart
        BY <1>4, EndIsMirrored DEF StopOnCancel, Crash, Mirror!Restart
    <2> QED
        BY <2>1 DEF Mirror!Next
<1>5. CASE SnapshotFails \/ GatherFails
    <2>1. Mirror!GoesOn \/ Mirror!Ends
        BY <1>5, FailureIsMirrored DEF SnapshotFails, GatherFails
    <2>2. UNCHANGED remoteVars
        BY <1>5 DEF SnapshotFails, GatherFails
    <2> QED
        BY <1>1, <1>2, <2>1, <2>2 DEF Mirror!Next
<1>6. ASSUME NEW s \in Services, ServiceStep(s) \/ Change(s)
      PROVE  [Mirror!Next]_(Mirror!vars)
    <2>1. CASE StatusOK(s)
        <3>1. PICK usage \in Measure : obs' = [obs EXCEPT ![s] = SampleOf(s, usage)]
            BY <2>1 DEF StatusOK
        <3>2. SampleOf(s, usage) \in Sample
            BY SampleOfType DEF IInv
        <3>3. Mirror!Learn(s)
            BY <2>1, <3>1, <3>2 DEF StatusOK, Mirror!Learn
        <3> QED
            BY <3>3 DEF Mirror!Next
    <2>2. CASE StatusFails(s) \/ Change(s)
        BY <1>1, <2>2 DEF StatusFails, Change
    <2> QED
        BY <1>6, <2>1, <2>2 DEF ServiceStep
<1>7. CASE PushOK
    <2>1. Mirror!Publish
        BY <1>7, RegistryIsPicture
           DEF PushOK, CycleSucceeds, CycleOver, Mirror!Publish, Mirror!GoesOn
    <2> QED
        BY <2>1 DEF Mirror!Next
<1>8. CASE PushFails
    <2>1. Mirror!GoesOn \/ Mirror!Ends
        BY <1>8, FailureIsMirrored DEF PushFails
    <2>2. CASE UNCHANGED remoteVars
        BY <1>1, <1>2, <2>1, <2>2 DEF Mirror!Next
    <2>3. CASE gateway' = Registry /\ UNCHANGED late
        BY <1>8, <2>1, <2>3, RegistryIsPicture DEF PushFails, Mirror!Publish, Mirror!Next
    <2>4. CASE late' = Registry /\ UNCHANGED gateway
        BY <1>8, <2>1, <2>4, RegistryIsPicture DEF PushFails, Mirror!Postpone, Mirror!Next
    <2> QED
        BY <1>8, <2>2, <2>3, <2>4 DEF PushFails
<1>9. CASE ArriveLate
    BY <1>9 DEF ArriveLate, Mirror!Deliver, Mirror!GoesOn, Mirror!Next
<1>10. CASE UNCHANGED vars
    BY <1>1, <1>10 DEF vars
<1> QED
    BY <1>3, <1>4, <1>5, <1>6, <1>7, <1>8, <1>9, <1>10 DEF Next, ProcessStep

\* Through any crashes, failed units, lost answers and late PUTs, the group in
\* the gateway is the whole of what one process had observed at one moment.
THEOREM MirrorsTheHost == SafetySpec => ImplementsMirror
<1>1. Init => Mirror!Init
    BY DEF Init, Mirror!Init, Mirror!Ignorance, None
<1> QED
    BY <1>1, Invariance, StepIsMirrored, PTL DEF SafetySpec, ImplementsMirror, Mirror!Spec
=============================================================================
