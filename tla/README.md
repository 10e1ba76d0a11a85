# A verification development of conmon and sysmon

The repository holds two Go programs that export Prometheus metrics:

* **conmon** probes remote targets (HTTPS, DNS, ICMP, TLS) on a fixed interval each and serves the
  results on `/metrics`;
* **sysmon** observes its own host and a list of systemd units once per interval and pushes the
  result to a Pushgateway.

Around them are shell scripts, a docker compose stack and Grafana dashboards. This directory models
the two programs in TLA+, checks the models with TLC on small instances and proves their safety properties
with TLAPS. Paths below are relative to `src/`. `PROJECT.json` gives
the source lines of every definition, the properties of every run, a plausible bug for every property
that makes its run fail, and the list of the hazards of the code.

## 1. Inventory

| component | code | state it keeps | operations | talks to |
|---|---|---|---|---|
| scheduler | `internal/scheduler` | a goroutine and a ticker per job, a wait group, the `done` channel | `Start`, `runJob`, the waiter | runs jobs; started and awaited by conmon's app |
| conmon app | `internal/app`, `cmd/conmon` | the run context, the channel of the server's outcome | `New`, `Run` | scheduler, `net/http` server, signals |
| conmon exporter | `internal/metrics` | the vectors of the registry, the custom label keys | `New`, `Record`, scrapes of the handler | written by every job, read by the server |
| icmp probe | `internal/probe/icmp` | an identifier per probe; socket, sequence numbers and replies per run | `New`, `Run` | raw sockets, which share what the host receives |
| http, dns, tls probes | `internal/probe/{http,dns,tls}` | nothing between runs | `Run` and the judgement of an answer | the target |
| conmon configuration | `internal/config` | nothing | `Load`, `Validate` (which also completes) | app, exporter |
| sysmon app | `internal/sysmon/app`, `cmd/sysmon` | `lastKnownServices`, the ticker, the first-cycle rule | `Run`, `runOnce` | collector, systemd, exporter, pusher |
| host collector | `internal/sysmon/collector` | `prev`, the CPU counters of the last snapshot | `Snapshot` | `/proc` |
| sysmon exporter | `internal/sysmon/metrics` | the registry, the last labels of each unit, the cores with a series | `UpdateHost`, `UpdateServices` | pusher gathers it |
| systemd and cgroup readers | `internal/sysmon/systemd` | nothing | `Status`, `ReadUsage`, uptime | `systemctl`, `/sys/fs/cgroup` |
| pusher | `internal/sysmon/push` | nothing, but it writes into what it gathers | `Push` (PUT of one group, without the label `host`) | the registry, the Pushgateway |
| sysmon configuration, identity | `internal/sysmon/{config,identity}` | nothing | `Load`, `Validate` (run again by `New`), `ResolveHost` | sysmon app |
| scripts, deployment | `scripts`, `deploy`, `Makefile` | files of the host | install, run | docker, systemctl |

What makes each of them correct, and what is hard:

* **Scheduler.** `done` closes once, after the last run, and only after a cancellation; a slow job
  never delays another. Hard: the select chooses at random between a tick and the cancelled context;
  the first run of a job looks at neither; tickers drop ticks; a `Done` too many or too few.
* **conmon app.** `Run` returns after every stop, leaves nothing running, and its error tells what
  happened. Hard: a signal and a server failure at once; `Shutdown` before `Listen`; a client that
  never finishes reading; a wait for the jobs that has no timeout.
* **conmon exporter.** A scrape must not show a state that never was, beyond the runs it overlaps.
  Hard: four writes without a common lock; the first `Record` of a check publishes each series at zero before
  it writes it.
* **icmp probe.** Count the own replies once each and end in time. Hard: every raw socket receives
  everything; replies are lost, late and duplicated; a read does not see its context.
* **http, dns and tls probes.** One deadline over several waits, however these are spread, and success
  exactly for a good answer in time. Hard: redirects and the handshake each take of the same time; the body
  is not part of the answer; the read of a DNS answer does not see a cancellation; days round down.
* **Configuration.** What is accepted can be run; two checks never share a series. Hard: checks
  are completed in place while they are being checked, and texts differ before and after trimming; a key of a
  label may clash across groups; the configuration of sysmon is validated, and thereby completed, twice.
* **sysmon app and pusher.** Export what was observed last; survive the failure of
  one unit; push the registry of one process; converge when faults end. Hard: one deadline for all
  the units and the push; crash and restart; an answer lost or a PUT that arrives late; a gatherer that
  edits in place what the registry may still own.
* **Host collector and exporter.** Usage over the right interval through failed snapshots, hotplug and
  an idle counter that steps back; no series of a core that is gone; no memory in use below zero.
* **Unit observation.** Reads that follow each other while the unit starts and stops: no negative
  uptime, no half usage, a state-set that agrees with the state.

## 2. Modules

| module | models | state and actions against the code |
|---|---|---|
| `JobGroup` | the promise of `scheduler.Start` (abstract) | a group is launched, members begin and end runs, leave after a cancellation, the group closes |
| `Scheduler` | `internal/scheduler` | `pc[j]` is the goroutine in `runJob`, `ticker[j]` the capacity-one channel of `time.Ticker`, `wg` the counter, `done` the channel; one action per step a goroutine can be interrupted after |
| `ConmonApp` | `App.Run` | EXTENDS `Scheduler`: `mainPc` walks the statements of `Run`, `serverPc` the goroutine around `ListenAndServe`, `serverErr` the channel between them; `ctxDone` of the scheduler is the run context |
| `ConmonMetrics` | `Record` and scrapes | `step[c]` is the next write of `Record`, before which `WithLabelValues` creates the series if there is none; a scrape reads the series in any order |
| `IcmpProbe` | `Probe.Run` of icmp | one action per send, read and failed read; `net` is what may still be read, by anyone, any number of times |
| `RemoteProbe` | `Run` of the https, dns and tls probes | `leg` is the wait the run is in, `deadline` that of its context or client; what the target and the libraries do is a script; `Judgement` is the code's verdict |
| `ConfigFile` | what both programs read of a file | trimmed texts, durations as written and as decoded |
| `ConmonConfig` | `Load`, `Validate`, `runtimeChecks`, `metrics.New`, label values | a deterministic pipeline over every file of an instance |
| `SysmonConfig` | `Load`, `Validate`, `New`, `ResolveHost` of sysmon | `reached` says how far a file has come: decoded and validated, validated again, given the name of the host |
| `HostMirror` | what the group of a host in the Pushgateway promises (abstract) | a process learns of one unit at a time and publishes all it knows at once; a late delivery |
| `Sysmon` | the process, `runOnce`, restarts, pushes | `pc` walks `runOnce` and the select of `Run`; `lastKnown`, `exported` and `gateway` are the three copies of a sample; `stripped` says whose series the pusher has damaged |
| `SysmonHost` | `Snapshot`, `computeCPUUsage`, the memory in use, `UpdateHost` | counters of `/proc/stat` against the collector's `prev` |
| `SysmonUnit` | the loop body of `runOnce`, `Status`, `ReadUsage`, `recordService` | one action per read of the outside world |
| `ConmonAppProofs` | theorems about `Scheduler` and `ConmonApp` | section 6 |
| `ConmonMetricsProofs`, `SysmonProofs`, `SysmonUnitProofs`, `SysmonHostProofs` | theorems about the module they are named after | section 6 |
| `ProbeProofs` | theorems about `IcmpProbe` and `RemoteProbe` | section 6 |
| `ConfigProofs` | theorems about `ConmonConfig` and `SysmonConfig` | section 6 |
| `Induction` | two induction schemes, over numbers and over finite sets, that the other proofs cite | section 6 |
| `MC*` | instances | sets and values for the `.cfg` files; `MCProbes`, `MCConfig` and `MCObservation` put independent modules side by side |

How they fit together. `ConmonApp` composes the main goroutine, the server and the whole scheduler: its
steps that start, cancel and await the jobs are the actions of `Scheduler`, in a conjunction.
`Scheduler` implements `JobGroup` under a refinement mapping (`ImplementsGroup`), and `Sysmon` implements
`HostMirror` (`ImplementsMirror`): what a process knows is the history `obs`, not the registry, so
the mapping says that the gateway never shows anything but observations. `ConmonMetrics`,
`IcmpProbe` and `RemoteProbe` take from the scheduler that the runs of one check follow each other, which is what
`JobGroup` says of `inflight`. `SysmonHost` and `SysmonUnit` are the insides of two steps of `Sysmon`
(`SnapshotOK` and `StatusOK`): they are separate because their data (counters, timestamps) and the
faults of the cycle would multiply, and the only thing that crosses the border is the outcome of
the step.

A comment "Variant of X" marks an operator that is X with a plausible bug. It is not part of any
specification; `PROJECT.json` pairs it with the property that finds the bug.

### Abstractions

* Values are reduced to what the properties tell apart: the value of a series in `ConmonMetrics` is
  the number of the run that wrote it, zero for none yet; a sample in `Sysmon` says whether uptime and usage are real or
  the zero the code fills in; a CPU ratio is kept exact, as numerator and denominator.
* A string in `ConmonConfig` is its text and whether it is padded with white space; letter case is
  folded by a table of the words that matter. A duration of a file is how it is written (blank, a
  duration, anything else) and the value it would parse to, which may be negative.
* In `ConmonConfig` the rules of a step that all end in the same rejection are one conjunction: which
  error is reported first is not modelled.
* In `IcmpProbe` a packet stays readable until it vanishes, which stands for delay, buffers,
  duplication and the copies other sockets get. Replies to earlier runs of a probe are among them.
* In `RemoteProbe` a target is a script: when each of the waits would be over, which of them ends in an
  error, and what is answered. Nothing else of a request or an answer is kept. The steps of the code take
  no time, so time passes only in waits; this is why `InTime` can be exact. `MCProbes` runs these runs
  one at a time: each has a socket of its own and nothing is shared, unlike for icmp.
* In `Sysmon` a gathered series is the list of the names of its labels, which is all that decides
  whether dropping one in place leaves another twice. `Shared` says whether the client library hands
  out the registry's own labels; it is TRUE for the version in `go.mod`.
* In `Sysmon` the units of a cycle are asked in any order (the code asks them in that of the
  configuration), and a late PUT is kept until it arrives or a later one is abandoned.
* `net/http`, the Prometheus client, systemd, `/proc`, the Pushgateway and the network are external,
  modelled by what the code relies on: the entries `external` of the map.

## 3. Runs

| run | instance | what it shows |
|---|---|---|
| `scheduler` | 3 jobs, one of which may never return | the wait group is exact, a closed channel means nothing runs or moves again, no burst after lost ticks; the hung job keeps the others neither from running nor from leaving; the scheduler implements `JobGroup` with its liveness |
| `conmon_app` | 2 jobs, 2 scrapes, one with a client that never reads | `Run` returns, leaves nothing running, tells what happened |
| `conmon_metrics` | 1 check with a gauge, 1 scrape repeated, 3 runs | what a scrape can mix: only runs it overlaps and, if it began before the end of the first `Record`, the zero a series is created with; nothing goes back between scrapes |
| `probes` | icmp: 2 probes (2 requests; 1 request to this host), identifiers equal or not; https, dns, tls: every check of the instance against every script | icmp: own replies, once each; the verdict is backed by a reply; every run ends. The others: no run takes more than its timeout, success means a good answer in time and a good answer in time is a success |
| `config` | a few thousand files of conmon: one check of each kind with every value at and around its limits; durations in every form; defaults; two checks in one or two groups with all label and name clashes; files of sysmon with every answer of the host's name | what is accepted can be run, labels are as configured, series are distinct; what sysmon accepts once it accepts again unchanged |
| `sysmon` | 2 units, any 2 faults, the client library of `go.mod` | exported is what was observed last (the zeros the code puts for a clock or a usage that cannot be read count as observed), the gateway holds what one process knew at one moment (`HostMirror`), a process that ends is replaced there, `Run` stops |
| `observation` | of the host: 2 cores, 2 units of time each, memory with more available than there is; of a unit: 4 states, 3 instants, timestamps of 8 values | host: usage is the busy share between the two last complete snapshots, hidden at most where the idle counter went back; only present cores have series. Unit: the uptime lies between what it was when the clock was read and when the unit answered, usage is whole or absent, state-set in line with the state |
| `latest_observed`, `first_record`, `sysmon_hung`, `sysmon_second_push`, `host_guests` | smallest instance each | the five disagreements of section 5 |

**Bounds, and why they are enough.**

* *Jobs, checks, probes, units, cores: two or three.* These are treated alike and interact in pairs
  (through one counter, one label space, one identifier, one deadline, one line `cpu`); what
  involves two of them appears with two. The theorems of section 6 hold for any number of them.
* *`MaxRuns` = 3* (`ConmonMetrics`): a scrape overlaps at most one `Record` boundary per series; two
  runs give the old and the new value, the third a scrape that starts in one and ends in another.
* *`MaxFaults` = 2* (`Sysmon`): a fault and one more while the first is not healed (for instance
  an abandoned PUT, then a crash). Faults stop in the end, which is what `Replaces` is about.
* *`MaxTime`* (`SysmonHost`: 2, with guests 3) and *`LastInstant` = 3* (`SysmonUnit`) bound the time, so that the
  difference of two readings can be zero, positive and negative. *`Word` = 8* is the number of values of an
  unsigned timestamp; a difference that wraps is then visible as a number above `LastInstant`.
* *Scripts* (`RemoteProbe`): timeouts 1 to 3 and waits over at 0 to 4, so that each wait can be over at
  once, before, with and after the deadline, and the sum of the waits can exceed it while none does.
  `MaxRedirects` = 1 (nine in `net/http`) with up to three requests, so that one too many is reached;
  `Day` = 2, so that a remainder of a day is lost in the division.
* *Texts, ports, durations* (`config`): the values at, below and above every limit the code names.
* *`Ids` = {1, 2}* (`IcmpProbe`): two identifiers, so that the probes have the same one or not.
* *`Hung` = {}* (`conmon_app`): `Returns` is about jobs whose probes end, which `RunsEnd` and `InTime` show of
  the probes there are. Of a probe that does not end the code makes `Run` wait for ever; what `scheduler` shows of
  it is that the other jobs run on and leave.
* `SYMMETRY` (of the cores) is used in `observation` only, which checks no temporal property.

`CHECK_DEADLOCK FALSE` is given in `config`, a pipeline that ends, and in `probes`, where one run of the other
kinds is followed to its end and no further. Elsewhere a step `Finished` or `Exited` says where the program
may stop, and TLC reports any other dead end.

## 4. Fairness

* **Scheduler.** Weak fairness for each goroutine and ticker: the Go runtime runs what can run, and
  clocks tick. Strong fairness for `StopOnCancel`: between two looks at the cancelled context a
  run may intervene, and `select` picks among ready cases uniformly at random, so it does not avoid one
  for ever. No fairness for the runs of a job in `Hung`.
* **ConmonApp.** The same, and weak fairness for every step of the main and the server goroutine, for
  the deadline of `Shutdown` and for scrapes of clients that do read. A signal, a failure of the
  listener and a scrape are never promised.
* **IcmpProbe.** A run takes its steps and its deadline passes; the network owes nothing. The deadline
  is what ends a run, since `ReadFrom` does not see a cancelled context.
* **RemoteProbe.** None: its properties are safety, and `InTime` bounds the time by the deadline.
* **Sysmon.** Weak fairness for `ProcessStep`, every step of the one goroutine: the process runs, systemd restarts it (`Restart=always` in `deploy/systemd`), the ticker
  ticks, and the deadline passes while a silent unit is being asked. Faults are bounded but nothing
  makes a fault not happen before the bound. Strong fairness for `StopOnCancel`, as above.

## 5. What the violations say

1. `latest_observed`. A run without an answer writes zero into the gauge the code calls "Latest observed
   HTTP status code." (`internal/metrics/exporter.go:60`; likewise `:64`, `:68`). For DNS the zero
   reads as NOERROR. `probe_success` tells the difference, the gauge alone does not.
2. `first_record`. The first `Record` of a check calls `WithLabelValues`, which publishes the series at zero, before
   `Set`. A scrape in between reads `conmon_probe_success 0` (or a duration of zero) though no run failed; the code
   calls the two series "Latest probe success result." and "Latest probe duration in seconds."
   (`internal/metrics/exporter.go:48`, `:52`). It can happen once per check and process; `ScrapeWindow` says that no
   scrape that begins later sees such a zero.
3. `sysmon_hung`. All units share the deadline of the cycle with the push. A unit `systemctl` hangs for
   uses it up, so the push always fails; the first cycle then ends the process and systemd restarts it
   without end: the host is never pushed, although the design says that every cycle pushes
   (`docs/superpowers/specs/2026-04-14-sysmon-design.md:274`).
4. `host_guests`. `/proc/stat` counts guest time in `user` too, and `parseCPUStat` adds both: on a host
   that runs guests the exported ratio is too high. It is never too low: `UsageIsNotUnderstated`.
5. `sysmon_second_push`. `strippingGatherer` drops the label `host` from each gathered metric in place
   (`internal/sysmon/push/pusher.go:45`, `dst := m.Label[:0]`). With client_golang v1.23.2 (`go.mod`) the labels
   gathered are those of the registered metric, not a copy: the labels `[host, service]` of a
   unit's series become `[service, service]` in the registry, and the next `Gather` refuses them. Every push after
   the first that had a unit's series fails until the process is restarted: that nothing else repairs the
   registry, `UpdateServices` with its deletions included, is the theorem `DamageStays`. Nothing in the instance
   fails otherwise, and the design asks for a push of the current state in every cycle (same line 274). With
   `Shared = FALSE`, a library that copies, the same run finds `Converges` to hold, with two faults as well: the
   in-place edit is all there is to repair. This is also why `sysmon` checks `Replaces`, which a process
   fulfils with its first push, and not `Converges`.

Each run checks the one property, and everything else about the component is checked to hold.

Where the documentation disagrees with the code in what no run can show:

* `README.md:481` and `:731` say that the loader does not copy `defaults.tls.min_days_remaining` into checks. That is
  true of `Load`, but `runtimeChecks` does it right after (`internal/app/app.go:136`), so the default does take effect;
  `Runnable` says that a TLS check that is run has a threshold.
* `README.md:424`, `:519` and `:776` say that the main program is not wired to the configuration, that the listen
  address is not consumed and that no metrics are emitted yet; `App` does all three.

## 6. Theorems

Proved for all values of the constants that satisfy the named assumptions of the modules (a finite set
of jobs; a finite set of cores; counts that are natural numbers; scripts whose waits follow each other;
a timestamp that is large enough for the time there is; `NoSample` and `NoContent` different from what
they stand beside; the types of a file), and from nothing else. The types of a file (`ConfigAssumption`,
`SysmonAssumption`) are those the decoder enforces by the Go types it decodes into (`config/types.go`,
`sysmon/config/types.go`): a string where there is a string, a list of checks in a group, any integer for
a port, any form of a duration. They say nothing of whether the file is sensible. Each module has
an inductive invariant, `IInv` (`AppIInv`, `RemoteIInv`, `SysmonIInv`, `UnitIInv`), defined next to its properties.
Every safety property that a run of section 3 checks and finds to hold is stated by a theorem.

* `ConmonAppProofs`. Of the scheduler: `TypeCorrect`, `WgIsExact`, `DoneMeansQuiescent`, `DoneMeansOver`,
  `PacedRuns`, and `Refinement`, that every behaviour is one of `JobGroup` (its safety part). Of the
  application: `AppTypeCorrect`, `ReturnMeansQuiescent`, `ResultIsTruthful`, `NeverSilent`. They use the theorems
  about the scheduler by the lemma `AppContainsScheduler`, which holds by the way `ConmonApp` is composed and says
  nothing of the code.
* `ConmonMetricsProofs`: `RecordStaysCoherent`, `ScrapesSeeTheirWindow`, `ScrapesNeverGoBack`, for any
  checks, any number of scrapes at once, any number of runs, the creation of the series included.
* `ProbeProofs`. Of icmp: `OnlyOwnReplies`, `CountedOnce`, `VerdictIsBacked`, for any probes, identifiers and
  counts. Of the others: `RemoteTypeCorrect`, `RunsInTime`, `VerdictIsTrue`, for any checks, any targets, any
  number of redirects and any length of a day.
* `ConfigProofs`. For any set of files, of any number of groups, checks and labels: `ChecksAreRunnable`,
  `SeriesAreDistinct`, `LabelsAreAsConfigured`; of sysmon `SysmonIsReady`, that validating twice is validating once.
* `SysmonProofs`: `ExportsTheLatest`, `OneProcessInGateway`, `ErrorOnlyAtFirst`, `SeriesStay`; `DamageStays`, how long
  the registry suffers from what the pusher did to it; and `MirrorsTheHost`, that every behaviour is one of
  `HostMirror`; for any units, any number of faults and either client library.
* `SysmonUnitProofs`: `UptimeIsTrue`, `UsageIsWhole`, `StatesAgree`, for any states, any length of time
  and any size of a timestamp.
* `SysmonHostProofs`: `TypeCorrect`, `CoresStayCurrent`, `UsageIsTruthful` on a host without guests and
  `UsageIsNotUnderstated` on any, for any cores; they rest on `RatioIsBounded`, `RatioIsTruthful` and
  `RatioIsNotUnderstated`, which are about the ratio of any two readings of a line.

**Induction.** The theorems of the library that state an induction take the formula as a parameter, which the
provers here cannot instantiate. `Induction` states two schemes with a *set* in its place: a set of
numbers that holds zero and the successor of each member holds all (`NumberInduction`), and a set that holds
the empty set and every finite set of which it holds all that lack one element holds them all
(`SubsetInduction`). Both are proved by a least counterexample. On these rest

* `SumIsNat` and `SumIsMonotone`: the sum over a set of cores is a fold, whose value is defined by
  choice; `SumsExist` shows that the recursion has a solution for finite sets;
* the lemmas about `AllChecks`: the list `runtimeChecks` walks is the concatenation of the groups' lists, so that
  each of its places is a place of a check in a group, a different one for a different place.

Why the invariants have to be stronger than what they show:

* *Scheduler.* "The channel is closed only when all have exited" is not inductive: the waiter sees only
  the counter, so the step that closes needs that zero means nobody is left. That is the exactness
  of the counter (`WgCountsMembers`), which in turn needs, in the step of `Done`, the cardinality of a
  finite set without one member. `JobConsistent` makes `Paced` hold (a full ticker always owes a run)
  and gives `Leave` of `JobGroup` its guard (a goroutine stops only when cancelled).
* *ConmonApp.* `ServerConsistent` says that a single outcome is ever in the channel, which is why the
  select cannot receive nil and the last receive of `Run` finds a value.
* *ConmonMetrics.* `CheckConsistent` gives the value of every series by the place in `Record`: the latest run if it
  is written, else what it was `Before`, which in a first run is absent or, for the one being written, created;
  `ScrapeBehind` says that what a scrape remembers is never ahead of the registry. A step of a check
  then has to advance only (`Advances`), and every scrape property survives it.
* *IcmpProbe.* A packet carries the identifier of the probe whose request it answers (an invariant of the
  network), and what a run counted are as many packets as numbers it has seen. The step that counts a
  reply needs that the seen numbers are among the sent ones, hence that there are at most that many.
* *RemoteProbe.* The verdict speaks of a script as a whole and the run sees one wait at a time:
  `LegConsistent` says what of the script the place of the run has already settled (no error so far, the
  waits before over by now, no redirect too many, no expired certificate), and that time never goes past what the
  run has to react to, from which `InTime` follows. The code compares whole days, the property an
  amount of time: that these agree is the lemma `WholeDays` about the division that rounds down.
* *Sysmon.* The samples of a cycle agree with the observations for the units already asked; that
  is the loop invariant of `runOnce`, and at its end it gives `ExportedIsLatest`. Every copy of a sample
  carries the process that made it, the PUT under way included. For `HostMirror` a
  push must publish what is known: that is `ExportedIsLatest` at the moment of the push.
* *SysmonUnit.* Between the answer of systemctl and the record the clock reading is at most the up time plus the
  entry timestamp: the reading is older than the answer. The lower bound `upLeast` of the uptime is none, or exactly
  the clock reading less that timestamp, since a start between the two withdraws it. The guard of `ComputeUptime`
  keeps the unsigned difference from wrapping.
* *SysmonHost.* The baseline is the last complete snapshot, and the exporter knows exactly the cores
  with a series (`BaselineInv`). For the usage, what was read of a line must be behind what the line says now, and
  what the last complete snapshot read behind what is being read (`ReadingsOK`): busy time only grows, and so
  does the `Surplus`, the part of a total that is counted twice, which is the guest time. The idle time has no such
  invariant, since the kernel takes some back; the ratio copes with that. Without guests the surplus is zero
  and the ratio exact; with guests it adds the same to numerator and denominator.
* *ConmonConfig.* What each stage has made of the file, as a function of the file: `Validate` has run on the decoded file and
  found it and its completion in order, `checks` is the concatenation of the validated groups, a series has the
  labels of its check. `SeriesDistinct` then is that the ids of checks are unique over all groups and that
  the key of an id is none of the custom ones; `LabelsAsConfigured` needs that trimming the keys of a map loses none of them.
* *SysmonConfig.* `SysmonIInv` says that `Load` leaves the completion of a valid configuration; that
  `Validate` accepts it again and leaves it alone is that trimming twice is trimming once.

Only model-checked: everything under fairness (`Returns`, `RunsEnd`, `Isolation`, `CancelStopsEach`, `Replaces`, `Stops`,
and the liveness of `ImplementsGroup`), which is beyond this prover. What `StrippedInPlace` does to a list of
labels is computed by TLC only, since the provers do not know `SelectSeq`; `DamageStays` holds whatever it does.

## 7. Not modelled

* What the HTTP, DNS and TLS probes send and how their libraries speak the protocols: that a method, a
  header, a record type or a server name is passed on is an assignment each.
* The uptime of the host, copied from a file, and the replacement of the `host_info` series when the boot
  id changes: a process does not outlive its boot, so that branch is never taken. Whether reading them fails
  matters to `Snapshot`, and that is modelled.
* The YAML decoder beyond unknown keys and the forms of a duration; the parsing of `systemctl show` and cgroup
  files beyond absent, unreadable, present; the enabled flag of a unit, which is copied.
* Scripts, Makefile, Docker, Prometheus and Grafana configuration: inputs to other programs.

## 8. Plan

In this order; what is done is above.

1. done - `JobGroup`, `Scheduler`, `ConmonApp`, with theorems.
2. done - the rest of conmon: `ConmonMetrics`, `IcmpProbe`, `ConmonConfig`.
3. done - sysmon: `Sysmon`, `SysmonHost`, `SysmonUnit`.
4. done - the theorems of section 6, those about data (sums over cores, lists of checks) by `Induction`.
5. done - `HostMirror`, which `Sysmon` implements, with the theorem; the pusher's edit of the registry.
6. done - the configuration of sysmon with its repeated completion, and the decoding of both files. The
   `host_info` series over reboots was dropped: it cannot happen (section 7).
7. done - `RemoteProbe`, with theorems. What a stop of conmon waits for is then bounded by the largest timeout of
   a check, by `InTime`; the scheduler's model keeps "a run ends" as an assumption for the jobs not hung.
8. to do - `ConmonMetrics` over `JobGroup`, so that "a check has one writer" is proved and not taken over: the runs of a
   check in `ConmonMetrics` are those of one member of a group.
9. to do - what a stop of conmon waits for, as a theorem over `JobGroup` and `RemoteProbe`.
