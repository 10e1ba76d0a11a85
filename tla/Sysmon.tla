------------------------------- MODULE Sysmon -------------------------------
(***************************************************************************)
(* sysmon: one process that, every interval, snapshots the host, asks      *)
(* systemd for each unit, updates its registry and PUTs the whole of it to *)
(* a Pushgateway, under one deadline per cycle.  systemd restarts it when  *)
(* it exits or crashes.  The Pushgateway, systemd and the network are      *)
(* external.  A sample is abstracted to what tells a good one from a made  *)
(* up one: the state it reports, and whether uptime and usage are real.    *)
(***************************************************************************)
EXTENDS Naturals, Sequences

CONSTANTS
    Services,  \* the configured units
    Hung,      \* those for which systemctl does not answer
    MaxFaults, \* bound: how often the environment may fail
    Shared,    \* Gather of the client library hands out the label pairs of the
               \* registry itself, as client_golang v1.23.2 (go.mod) does
    NoSample,  \* no series for the unit
    NoContent  \* nothing pushed for this host

State == {"active", "inactive"}
Measure == {"real", "zero"}
Sample == [st : State, up : Measure, res : Measure, inc : BOOLEAN]
Samples == [Services -> Sample \cup {NoSample}]
Content == [inc : BOOLEAN, svc : Samples]

ASSUME SysmonAssumption ==
    /\ Hung \subseteq Services /\ MaxFaults \in Nat /\ Shared \in BOOLEAN
    /\ NoSample \notin Sample /\ NoContent \notin Content

\* Whose series the registry holds: the host's own, and those of each unit.
Owners == Services \cup {"host"}

PC == {"down", "snapshot", "services", "push", "select", "stopped"}
InCycle == {"snapshot", "services", "push"}

VARIABLES
    pc,        \* where the process is; "down" until systemd restarts it
    inc,       \* history: the parity of the number of processes that have ended
    first,     \* the first cycle of the process is not over
    succeeded, \* history: a cycle of this process has succeeded
    exit,      \* how the process ended last
    stopping,  \* SIGTERM: the context of Run is cancelled
    expired,   \* the deadline of the cycle has passed
    tick,      \* the ticker holds a tick
    clockOK,   \* the monotonic clock was read in this cycle; reset with samples
    todo,      \* the units not yet asked in this cycle
    samples,   \* serviceSamples of this cycle, until UpdateServices has taken them
    lastKnown, \* lastKnownServices
    exported,  \* the registry: the series of each unit
    stripped,  \* the registry: whose series carry a label twice
    obs,       \* history: the latest observation of each unit by this process
    world,     \* the state each unit really is in
    gateway,   \* what the Pushgateway holds for this host
    late,      \* a PUT the process gave up, which may still arrive
    faults     \* history: the faults so far

procVars == <<pc, inc, first, succeeded, exit>>
cycleVars == <<expired, clockOK, todo, samples>>
registryVars == <<exported, stripped>>
dataVars == <<lastKnown, obs, registryVars>>
remoteVars == <<gateway, late>>
vars == <<procVars, stopping, cycleVars, tick, dataVars, world, remoteVars, faults>>

TypeOK ==
    /\ pc \in PC
    /\ inc \in BOOLEAN /\ first \in BOOLEAN /\ succeeded \in BOOLEAN
    /\ exit \in {"none", "clean", "error", "crash"}
    /\ stopping \in BOOLEAN /\ expired \in BOOLEAN /\ tick \in BOOLEAN /\ clockOK \in BOOLEAN
    /\ todo \subseteq Services
    /\ samples \in Samples /\ lastKnown \in Samples /\ exported \in Samples /\ obs \in Samples
    /\ stripped \subseteq Owners
    /\ world \in [Services -> State]
    /\ gateway \in Content \cup {NoContent}
    /\ late \in Content \cup {NoContent}
    /\ faults \in 0 .. MaxFaults

None == [s \in Services |-> NoSample]

Init ==
    /\ pc = "down"
    /\ inc = FALSE
    /\ first = TRUE
    /\ succeeded = FALSE
    /\ exit = "none"
    /\ stopping = FALSE
    /\ expired = FALSE
    /\ tick = FALSE
    /\ clockOK = TRUE
    /\ todo = {}
    /\ samples = None
    /\ lastKnown = None
    /\ exported = None
    /\ stripped = {}
    /\ obs = None
    /\ world \in [Services -> State]
    /\ gateway = NoContent
    /\ late = NoContent
    /\ faults = 0

\* The context of the cycle: its own deadline, or the cancellation of Run's.
CycleDone == expired \/ stopping

Fault ==
    /\ faults < MaxFaults
    /\ faults' = faults + 1

-----------------------------------------------------------------------------
(* The process and its main loop. *)

\* systemd starts the process: the maps and the registry are empty, the ticker
\* exists before the first cycle, which begins at once.
StartProcess ==
    /\ pc = "down"
    /\ ~stopping
    /\ pc' = "snapshot"
    /\ first' = TRUE
    /\ succeeded' = FALSE
    /\ exit' = "none"
    /\ UNCHANGED <<inc, stopping, cycleVars, tick, dataVars, world, remoteVars, faults>>

\* The process ends, and what it knew is gone.
EndProcess(to, how) ==
    /\ pc' = to
    /\ exit' = how
    /\ inc' = ~inc
    /\ expired' = FALSE /\ clockOK' = TRUE /\ todo' = {} /\ samples' = None /\ tick' = FALSE
    /\ lastKnown' = None /\ obs' = None /\ exported' = None /\ stripped' = {}
    /\ UNCHANGED <<first, succeeded>>

\* The select takes a tick, also when the context is cancelled by then.
BeginCycle ==
    /\ pc = "select"
    /\ tick
    /\ tick' = FALSE
    /\ pc' = "snapshot"
    /\ expired' = FALSE
    /\ UNCHANGED <<inc, first, succeeded, exit, stopping, clockOK, todo, samples, dataVars,
                   world, remoteVars, faults>>

\* The select takes the cancelled context: Run returns nil.
StopOnCancel ==
    /\ pc = "select"
    /\ stopping
    /\ EndProcess("stopped", "clean")
    /\ UNCHANGED <<stopping, world, remoteVars, faults>>

\* runOnce returns, and leaves the registry with these labels stripped.
CycleOver(to, labels) ==
    /\ pc' = to
    /\ stripped' = labels
    /\ UNCHANGED <<inc, exit, cycleVars, tick, lastKnown, obs, exported>>

\* Variant of CycleFails: a failed cycle is tried again at once.
CycleFailsRetry(labels) ==
    \/ first /\ EndProcess("down", "error")
    \/ ~first /\ CycleOver("snapshot", labels) /\ UNCHANGED <<first, succeeded>>

\* Variant of CycleFails: a failed first cycle is only logged too.
CycleFailsLogged(labels) ==
    CycleOver("select", labels) /\ first' = FALSE /\ UNCHANGED succeeded

\* runOnce returns an error: the first cycle ends the process, a later one is
\* only logged.
CycleFails(labels) ==
    \/ first /\ EndProcess("down", "error")
    \/ ~first /\ CycleOver("select", labels) /\ UNCHANGED <<first, succeeded>>

CycleSucceeds(labels) ==
    CycleOver("select", labels) /\ first' = FALSE /\ succeeded' = TRUE

-----------------------------------------------------------------------------
(* runOnce. *)

\* Snapshot looks at the context once, before it reads /proc.  UpdateHost
\* follows (its values are SysmonHost's), and then the clock is read, without
\* a look at the context: a clock that cannot be read does not end the cycle,
\* uptimes become zero.
SnapshotOK ==
    /\ pc = "snapshot"
    /\ ~CycleDone
    /\ \/ clockOK' = TRUE /\ UNCHANGED faults
       \/ clockOK' = FALSE /\ Fault
    /\ pc' = "services"
    /\ todo' = Services
    /\ UNCHANGED <<inc, first, succeeded, exit, stopping, expired, samples, tick, dataVars,
                   world, remoteVars>>

SnapshotFails ==
    /\ pc = "snapshot"
    /\ IF CycleDone THEN UNCHANGED faults ELSE Fault
    /\ CycleFails(stripped)
    /\ UNCHANGED <<stopping, world, remoteVars>>

\* Variant of SampleOf: no guard on a clock behind the unit's timestamp.
SampleWrapped(s, usage) ==
    LET active == world[s] = "active" IN
    [st  |-> world[s],
     up  |-> IF active THEN IF clockOK THEN "real" ELSE "wrapped" ELSE "zero",
     res |-> IF active THEN usage ELSE "zero",
     inc |-> inc]

\* What an answer of systemctl becomes: only an active unit has an uptime, if
\* the clock could be read, and the usage that could be read.
SampleOf(s, usage) ==
    LET active == world[s] = "active" IN
    [st  |-> world[s],
     up  |-> IF active /\ clockOK THEN "real" ELSE "zero",
     res |-> IF active THEN usage ELSE "zero",
     inc |-> inc]

\* One unit answered.  Usage is read only of an active unit, and a failure to
\* read it leaves zeros.
StatusOK(s) ==
    /\ pc = "services"
    /\ s \in todo \ Hung
    /\ ~CycleDone
    /\ \E usage \in Measure :
        /\ world[s] = "active" \/ usage = "zero"
        /\ IF world[s] = "active" /\ usage = "zero" THEN Fault ELSE UNCHANGED faults
        /\ lastKnown' = [lastKnown EXCEPT ![s] = SampleOf(s, usage)]
        /\ samples' = [samples EXCEPT ![s] = SampleOf(s, usage)]
        /\ obs' = [obs EXCEPT ![s] = SampleOf(s, usage)]
    /\ todo' = todo \ {s}
    /\ UNCHANGED <<procVars, stopping, expired, clockOK, tick, registryVars, world, remoteVars>>

\* Variant of StatusFails: a unit that could not be observed is exported as down.
StatusZeroed(s) ==
    /\ pc = "services"
    /\ s \in todo
    /\ IF CycleDone THEN UNCHANGED faults ELSE s \notin Hung /\ Fault
    /\ samples' = [samples EXCEPT ![s] = [st |-> "inactive", up |-> "zero", res |-> "zero",
                                          inc |-> inc]]
    /\ todo' = todo \ {s}
    /\ UNCHANGED <<procVars, stopping, expired, clockOK, tick, dataVars, world, remoteVars>>

\* Variant of StatusFails: a unit that could not be observed is left out.
StatusSkipped(s) ==
    /\ pc = "services"
    /\ s \in todo
    /\ IF CycleDone THEN UNCHANGED faults ELSE s \notin Hung /\ Fault
    /\ todo' = todo \ {s}
    /\ UNCHANGED <<procVars, stopping, expired, clockOK, samples, tick, dataVars, world,
                   remoteVars>>

\* One unit did not answer, or the deadline passed while it was asked, or
\* before: its last known sample is used, if there is one.
StatusFails(s) ==
    /\ pc = "services"
    /\ s \in todo
    /\ IF CycleDone THEN UNCHANGED faults ELSE s \notin Hung /\ Fault
    /\ samples' = [samples EXCEPT ![s] = lastKnown[s]]
    /\ todo' = todo \ {s}
    /\ UNCHANGED <<procVars, stopping, expired, clockOK, tick, dataVars, world, remoteVars>>

\* UpdateServices: the series of the units of this cycle are set, those of
\* units without a sample are cleared.
UpdateServices ==
    /\ pc = "services"
    /\ todo = {}
    /\ exported' = samples
    /\ stripped' = {o \in stripped : o \in Services => samples[o] # NoSample}
    /\ pc' = "push"
    /\ samples' = None
    /\ clockOK' = TRUE
    /\ UNCHANGED <<inc, first, succeeded, exit, stopping, expired, todo, tick, lastKnown, obs,
                   world, remoteVars, faults>>

Registry == [inc |-> inc, svc |-> exported]

\* The labels of the series a process keeps, sorted by name as the registry
\* holds them.  sysmon_service_state is made anew in each cycle.
Families(owner) ==
    IF owner = "host" THEN {<<"host">>, <<"core", "host">>, <<"boot_id", "host">>}
                      ELSE {<<"host", "service">>}

\* What dropping the label host in place leaves in the array of the labels.
StrippedInPlace(labels) ==
    LET Other(name) == name # "host"
        kept == SelectSeq(labels, Other)
    IN  [i \in DOMAIN labels |-> IF i <= Len(kept) THEN kept[i] ELSE labels[i]]

Repeats(labels) == \E i \in DOMAIN labels \ {1} : labels[i] = labels[i - 1]

\* Whose labels are stripped when the registry, which could be gathered, has been:
\* the pusher drops the label host from what Gather gave it.
Stripped ==
    {o \in Owners :
        /\ Shared
        /\ o \in Services => exported[o] # NoSample
        /\ \E labels \in Families(o) : Repeats(StrippedInPlace(labels))}

\* Variant of PushOK: a POST, which adds to what the gateway holds.
PushMerges ==
    /\ pc = "push"
    /\ stripped = {}
    /\ ~CycleDone
    /\ gateway' = [inc |-> inc,
                   svc |-> [s \in Services |->
                       IF exported[s] = NoSample /\ gateway # NoContent
                       THEN gateway.svc[s] ELSE exported[s]]]
    /\ CycleSucceeds(Stripped)
    /\ UNCHANGED <<stopping, world, late, faults>>

\* The PUT replaces what the gateway held for this host.
PushOK ==
    /\ pc = "push"
    /\ stripped = {}
    /\ ~CycleDone
    /\ gateway' = Registry
    /\ CycleSucceeds(Stripped)
    /\ UNCHANGED <<stopping, world, late, faults>>

\* Gather refuses a registry in which a series has a label twice, and the push
\* fails before it looks at the context.
GatherFails ==
    /\ pc = "push"
    /\ stripped # {}
    /\ CycleFails(stripped)
    /\ UNCHANGED <<stopping, world, remoteVars, faults>>

\* What is gathered is not sent, refused, applied with its answer lost, or given
\* up while it is on its way.
PushFails ==
    /\ pc = "push"
    /\ stripped = {}
    /\ \/ CycleDone /\ UNCHANGED <<remoteVars, faults>>
       \/ Fault /\ UNCHANGED remoteVars
       \/ Fault /\ gateway' = Registry /\ UNCHANGED late
       \/ Fault /\ late' = Registry /\ UNCHANGED gateway
    /\ CycleFails(Stripped)
    /\ UNCHANGED <<stopping, world>>

-----------------------------------------------------------------------------
(* The environment. *)

Tick ==
    /\ pc \in InCycle \cup {"select"}
    /\ ~tick
    /\ tick' = TRUE
    /\ UNCHANGED <<procVars, stopping, cycleVars, dataVars, world, remoteVars, faults>>

\* The deadline passes: while a unit that does not answer is being asked, or
\* because the cycle is slow (a fault).
Expire ==
    /\ pc \in InCycle
    /\ ~CycleDone
    /\ expired' = TRUE
    /\ IF pc = "services" /\ todo \cap Hung # {} THEN UNCHANGED faults ELSE Fault
    /\ UNCHANGED <<procVars, stopping, clockOK, todo, samples, tick, dataVars, world, remoteVars>>

\* SIGTERM of the process: systemd was told to stop the unit.
Stop ==
    /\ ~stopping
    /\ stopping' = TRUE
    /\ UNCHANGED <<procVars, cycleVars, tick, dataVars, world, remoteVars, faults>>

Crash ==
    /\ pc \in InCycle \cup {"select"}
    /\ Fault
    /\ EndProcess("down", "crash")
    /\ UNCHANGED <<stopping, world, remoteVars>>

\* A unit starts or stops.
Change(s) ==
    /\ world' = [world EXCEPT ![s] = IF @ = "active" THEN "inactive" ELSE "active"]
    /\ UNCHANGED <<procVars, stopping, cycleVars, tick, dataVars, remoteVars, faults>>

\* The abandoned PUT arrives after all, behind pushes made since.
ArriveLate ==
    /\ late # NoContent
    /\ gateway' = late
    /\ late' = NoContent
    /\ UNCHANGED <<procVars, stopping, cycleVars, tick, dataVars, world, faults>>

-----------------------------------------------------------------------------
ServiceStep(s) == StatusOK(s) \/ StatusFails(s)

\* The process, one step after the other; systemd starts it.
ProcessStep ==
    \/ StartProcess \/ BeginCycle \/ StopOnCancel
    \/ SnapshotOK \/ SnapshotFails
    \/ \E s \in Services : ServiceStep(s)
    \/ UpdateServices
    \/ PushOK \/ PushFails \/ GatherFails

Next ==
    \/ ProcessStep
    \/ Tick \/ Expire \/ Stop \/ Crash \/ ArriveLate
    \/ \E s \in Services : Change(s)

\* The process runs when it can, systemd restarts it (Restart=always), the
\* ticker ticks, the deadline of a cycle that waits for a silent unit passes,
\* and the select does not ignore the cancelled context for ever.
Fairness ==
    /\ WF_vars(ProcessStep)
    /\ SF_vars(StopOnCancel)
    /\ WF_vars(Tick)
    /\ WF_vars(Expire /\ todo \cap Hung # {})

SafetySpec == Init /\ [][Next]_vars
Spec == SafetySpec /\ Fairness

-----------------------------------------------------------------------------
\* Outside the loop over the units, the registry holds for each unit what this
\* process observed last, through failed observations, cycles given up by
\* their deadline, failed snapshots and failed pushes: nothing that is older, and
\* no zero for a unit that did not answer.  The zeros an answered unit gets for a
\* clock or a usage that cannot be read are part of its observation.
ExportedIsLatest ==
    pc # "services" => exported = obs

\* A unit observed once keeps its series for the life of the process.
NeverVanishes ==
    [][\A s \in Services :
        exported[s] # NoSample /\ pc' \notin {"down", "stopped"}
            => exported'[s] # NoSample]_vars

\* Samples carry the process that made them.
MadeBy(f, i) == \A s \in Services : f[s] # NoSample => f[s].inc = i

OneProcess(content) == content # NoContent => MadeBy(content.svc, content.inc)

\* The gateway shows the registry of one process: after a restart no series of
\* the process before survives next to the new ones, whatever order the PUTs
\* arrive in.
GatewayOneProcess == OneProcess(gateway)

\* Run returns an error only as long as no cycle of the process succeeded:
\* once it works, no failure but a crash makes it restart.
OnlyFirstCycleExits == exit = "error" => ~succeeded

\* The inductive invariant: the three copies of an observation in the process
\* (obs, as history; lastKnown; samples and then exported), the two outside it
\* (gateway, late), and what the process has been through.
IInv ==
    /\ TypeOK
    /\ obs = lastKnown
    /\ MadeBy(lastKnown, inc) /\ MadeBy(samples, inc) /\ MadeBy(exported, inc)
    /\ pc = "services" => \A s \in Services \ todo : samples[s] = obs[s]
    /\ ExportedIsLatest
    /\ \A s \in Services : exported[s] # NoSample => obs[s] # NoSample
    /\ GatewayOneProcess /\ OneProcess(late)
    /\ exit = "error" => pc = "down" /\ ~succeeded
    /\ succeeded => ~first

\* What is stripped are labels of series that there are.
StrippedInv == \A s \in stripped \cap Services : exported[s] # NoSample

\* A registry that was damaged is not repaired by UpdateServices, which deletes
\* the series of a unit and sets them again: until the process ends its damage
\* only grows, and none of its pushes reaches the gateway.
DamageLasts ==
    [][/\ pc' \notin {"down", "stopped"} => stripped \subseteq stripped'
       /\ stripped # {} => gateway' \in {gateway, late} /\ late' \in {late, NoContent}]_vars

Mirror == INSTANCE HostMirror WITH
    boot <- inc, known <- obs, shown <- gateway, delayed <- late,
    Known <- Sample, Nothing <- NoSample, Empty <- NoContent

\* Through every crash, lost answer and late PUT, the group of the host in the
\* gateway is the whole of what one process had observed at one moment: a cycle
\* in which some units failed publishes what it knew of them before, no more.
ImplementsMirror == Mirror!Spec

\* After a crash or a failed first cycle, whatever the gateway holds by then, a
\* process that took over gets its own registry into it, unless sysmon is
\* stopped for good.
Replaces == pc = "down" ~> stopping \/ (gateway # NoContent /\ gateway.inc = inc)

\* "push full current-state metrics on every cycle": when faults stop and a
\* unit stays in a state, the gateway shows that state, again and again (a PUT
\* given up earlier may come in between).
Converges ==
    \A s \in Services, v \in State :
        <>[](world[s] = v /\ ~stopping)
            => []<>(gateway # NoContent /\ gateway.svc[s] # NoSample /\ gateway.svc[s].st = v)

\* A process that is told to stop ends, in the middle of a cycle too.
Stops == stopping ~> pc \in {"stopped", "down"}

\* "push full current-state metrics on every cycle": a host whose sysmon keeps
\* running appears in the gateway.
HostAppears == <>(gateway # NoContent \/ stopping)
=============================================================================
