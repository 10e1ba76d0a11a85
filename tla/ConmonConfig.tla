---------------------------- MODULE ConmonConfig ----------------------------
(***************************************************************************)
(* What becomes of the configuration before conmon runs: it is decoded,    *)
(* Validate checks it and completes it in place, runtimeChecks takes the   *)
(* checks that are implemented, metrics.New the label keys, and each       *)
(* result is recorded under the labels of its check.                       *)
(***************************************************************************)
EXTENDS ConfigFile

CONSTANTS
    Files,     \* the files conmon may be given
    Reserved,  \* the label keys that begin with two underscores
    Malformed  \* the label keys that are no identifiers

\* A configuration, in which a duration is as written or, once decoded, a number.
IsLabels(l) == l \in [DOMAIN l -> Text] /\ \A k \in DOMAIN l : k \in Text

IsCheck(c, Duration) ==
    /\ c \in [id : Text, name : Text, kind : Text, scope : Text, host : Text, port : Int,
              scheme : STRING, method : Text, statuses : SUBSET Int, server : Text,
              query : Text, recordType : Text, rcode : Text, min : Int, count : Int,
              interval : Duration, timeout : Duration, labels : {c.labels}, group : Text]
    /\ IsLabels(c.labels)

IsDefaults(d, Duration) ==
    /\ d \in [interval : Duration, timeout : Duration, min : Int, server : Text,
              labels : {d.labels}]
    /\ IsLabels(d.labels)

IsGroup(g, Duration) ==
    /\ g \in [name : Text, checks : {g.checks}]
    /\ IsList(g.checks) /\ \A i \in DOMAIN g.checks : IsCheck(g.checks[i], Duration)

IsConfig(c, Duration) ==
    /\ c \in [defaults : {c.defaults}, groups : {c.groups},
              listen : [text : STRING, pad : BOOLEAN, port : Int]]
    /\ IsDefaults(c.defaults, Duration)
    /\ IsList(c.groups) /\ \A g \in DOMAIN c.groups : IsGroup(c.groups[g], Duration)

ASSUME ConfigAssumption ==
    /\ Reserved \cap Malformed = {} /\ "" \notin Reserved \cup Malformed
    /\ \A f \in Files : IsConfig(f.config, Written)

VARIABLES
    file,   \* the file (history)
    stage,  \* "file", "loaded", "valid", "checks", "ready", or "rejected"
    cfg,    \* the configuration, which Validate changes
    checks, \* what runtimeChecks returns
    keys,   \* the custom label keys of the exporter
    series  \* the labels of the series of each check

vars == <<file, stage, cfg, checks, keys, series>>

\* strings.ToLower and strings.ToUpper, on the words that matter.
Lowercase == [HTTPS |-> "https", TLS |-> "tls", DNS |-> "dns", ICMP |-> "icmp"]
Uppercase == [a |-> "A", aaaa |-> "AAAA", nxdomain |-> "NXDOMAIN", head |-> "HEAD"]
Fold(m, s) == [text |-> IF s.text \in DOMAIN m THEN m[s.text] ELSE s.text, pad |-> FALSE]

rcodeMap ==
    [NOERROR |-> 0, FORMERR |-> 1, SERVFAIL |-> 2, NXDOMAIN |-> 3, NOTIMP |-> 4, REFUSED |-> 5]
dnsRecordTypes == {"A", "AAAA", "CNAME", "MX", "NS", "PTR", "SOA", "SRV", "TXT"}
baseLabels == {"check_id", "check_name", "group", "kind", "scope"}

-----------------------------------------------------------------------------
(* Labels: functions from keys to values, as decoded or by their texts. *)

LabelKeysOK(labels) ==
    /\ \A k \in DOMAIN labels : k.text \notin {""} \cup Reserved \cup Malformed
    /\ \A k, m \in DOMAIN labels : Trim(k) = Trim(m) => k = m

normalizeLabels(labels) ==
    [t \in {k.text : k \in DOMAIN labels} |->
        Trim(labels[CHOOSE k \in DOMAIN labels : k.text = t])]

Over(upper, lower) ==
    [k \in DOMAIN upper \cup DOMAIN lower |-> IF k \in DOMAIN upper THEN upper[k] ELSE lower[k]]

\* Variant of mergeLabels: the defaults win.
mergeLabelsReversed(defaults, overrides) == Over(defaults, normalizeLabels(overrides))

\* The labels of the check on top of the defaults, which are normalized.
mergeLabels(defaults, overrides) == Over(normalizeLabels(overrides), defaults)

-----------------------------------------------------------------------------
(* Load: the decoder, and Validate. *)

Positions(groups) == UNION {{g} \X DOMAIN groups[g].checks : g \in DOMAIN groups}
CheckAt(groups, p) == groups[p[1]].checks[p[2]]

Durations(c) ==
    {c.defaults.interval, c.defaults.timeout}
        \cup UNION {{CheckAt(c.groups, p).interval, CheckAt(c.groups, p).timeout} :
                       p \in Positions(c.groups)}

DecodedTimes(c) == [c EXCEPT !.interval = DurationOf(@), !.timeout = DurationOf(@)]

DecodedGroup(g) ==
    [g EXCEPT !.checks = [i \in DOMAIN g.checks |-> DecodedTimes(g.checks[i])]]

Decoded(c) ==
    [c EXCEPT !.defaults = DecodedTimes(@),
              !.groups = [g \in DOMAIN c.groups |-> DecodedGroup(c.groups[g])]]

MaxPort == 65535
validatePort(port) == port > 0 /\ port <= MaxPort

DefaultsOK(d) ==
    /\ d.interval > 0 /\ d.timeout > 0 /\ d.min >= 0
    /\ LabelKeysOK(d.labels)

ListenOK(listen) ==
    /\ ~Blank(listen)
    /\ listen.text = "host:port" /\ validatePort(listen.port)

\* A check with everything validateCheck and its caller put into it, some of it
\* for the checks of one kind only.
Completed(d, group, c) ==
    LET kind == Fold(Lowercase, c.kind).text
        http == kind \in {"http", "https"}
    IN
    [c EXCEPT !.id = Trim(@), !.name = Trim(@), !.scope = Trim(@), !.kind = Fold(Lowercase, @),
              !.recordType = Fold(Uppercase, @), !.rcode = Fold(Uppercase, @),
              !.method = IF ~http THEN Trim(@)
                         ELSE IF Blank(@) THEN [text |-> "GET", pad |-> FALSE]
                         ELSE Fold(Uppercase, @),
              !.statuses = IF http /\ @ = {} THEN {200} ELSE @,
              !.server = IF kind = "dns" /\ Blank(@) THEN Trim(d.server) ELSE Trim(@),
              !.port = IF kind = "dns" /\ @ = 0 THEN 53 ELSE @,
              !.labels = mergeLabels(d.labels, @),
              !.interval = IF @ = 0 THEN d.interval ELSE @,
              !.timeout = IF @ = 0 THEN d.timeout ELSE @,
              !.group = group]

\* The rules of each kind, for a completed check.
KindOK(c) ==
    LET kind == c.kind.text IN
    \/ kind = "icmp" /\ ~Blank(c.host) /\ c.count >= 0
    \/ /\ kind \in {"http", "https"}
       /\ c.scheme = kind
       /\ c.method.text # "invalid"
       /\ c.statuses \subseteq 100 .. 599
    \/ kind = "tcp" /\ ~Blank(c.host) /\ validatePort(c.port)
    \/ /\ kind = "dns"
       /\ ~Blank(c.query)
       /\ c.recordType.text \in dnsRecordTypes
       /\ validatePort(c.port)
       /\ Blank(c.rcode) \/ c.rcode.text \in DOMAIN rcodeMap
    \/ kind = "tls" /\ ~Blank(c.host) /\ validatePort(c.port) /\ c.min >= 0

\* The rules of a check as decoded, but for its kind.
CheckOK(c) ==
    /\ LabelKeysOK(c.labels)
    /\ ~Blank(c.id) /\ ~Blank(c.name) /\ ~Blank(c.kind) /\ ~Blank(c.scope)
    /\ c.interval >= 0 /\ c.timeout >= 0

ValidatedDefaults(d) == [d EXCEPT !.server = Trim(@), !.labels = normalizeLabels(@)]

ValidatedGroup(d, g) ==
    [name |-> Trim(g.name),
     checks |-> [i \in DOMAIN g.checks |-> Completed(d, Trim(g.name), g.checks[i])]]

\* Variant of Unique: the ids that were seen are not remembered.
UniqueNames(groups) == \A g, h \in DOMAIN groups : groups[g].name = groups[h].name => g = h

\* Names of groups are unique, and ids of checks over all groups.
Unique(groups) ==
    /\ \A g, h \in DOMAIN groups : groups[g].name = groups[h].name => g = h
    /\ \A p, q \in Positions(groups) : CheckAt(groups, p).id = CheckAt(groups, q).id => p = q

Reject ==
    /\ stage' = "rejected"
    /\ UNCHANGED <<file, cfg, checks, keys, series>>

Decode ==
    /\ stage = "file"
    /\ IF FileOK(file) /\ \A d \in Durations(file.config) : DurationOK(d)
       THEN /\ cfg' = Decoded(file.config)
            /\ stage' = "loaded"
            /\ UNCHANGED <<file, checks, keys, series>>
       ELSE Reject

\* The rules of what is decoded, and of what it is completed to.
DecodedOK(c) ==
    /\ DefaultsOK(c.defaults) /\ ListenOK(c.listen)
    /\ \A p \in Positions(c.groups) : CheckOK(CheckAt(c.groups, p))

CompletedOK(groups) ==
    /\ \A g \in DOMAIN groups : ~Blank(groups[g].name)
    /\ \A p \in Positions(groups) : KindOK(CheckAt(groups, p))
    /\ Unique(groups)

Validated(c) ==
    LET defaults == ValidatedDefaults(c.defaults) IN
    [defaults |-> defaults, listen |-> Trim(c.listen),
     groups |-> [g \in DOMAIN c.groups |-> ValidatedGroup(defaults, c.groups[g])]]

\* Validate stops at the first rule that is broken; Load then returns an error
\* and the configuration is not used.
Validate ==
    /\ stage = "loaded"
    /\ IF DecodedOK(cfg) /\ CompletedOK(Validated(cfg).groups)
       THEN /\ cfg' = Validated(cfg)
            /\ stage' = "valid"
            /\ UNCHANGED <<file, checks, keys, series>>
       ELSE Reject

-----------------------------------------------------------------------------
(* app.New. *)

\* Variant of Implemented: every kind that can be configured.
ImplementedAll(c) == c.kind.text \in {"https", "dns", "icmp", "tls", "http", "tcp"}

Implemented(c) == c.kind.text \in {"https", "dns", "icmp", "tls"}

\* The checks of all groups in one list.
AllChecks(groups) ==
    LET before[g \in 0 .. Len(groups)] ==
            IF g = 0 THEN <<>> ELSE before[g - 1] \o groups[g].checks
    IN  before[Len(groups)]

RuntimeCheck(c) ==
    [c EXCEPT !.min = IF c.kind.text = "tls" /\ @ = 0 THEN cfg.defaults.min ELSE @]

RunnableCheck(c) == Implemented(c) /\ c.interval > 0 /\ c.timeout > 0

runtimeChecks ==
    /\ stage = "valid"
    /\ LET all == AllChecks(cfg.groups) IN
       IF \A i \in DOMAIN all : RunnableCheck(all[i])
       THEN /\ checks' = [i \in DOMAIN all |-> RuntimeCheck(all[i])]
            /\ stage' = "checks"
            /\ UNCHANGED <<file, cfg, keys, series>>
       ELSE Reject

collectLabelKeys == UNION {DOMAIN checks[i].labels : i \in DOMAIN checks}

\* metrics.New refuses a label key that is one of its own, and once more those
\* that Validate refuses.
NewExporter ==
    /\ stage = "checks"
    /\ IF collectLabelKeys \cap (baseLabels \cup {""} \cup Reserved \cup Malformed) = {}
       THEN /\ keys' = collectLabelKeys
            /\ stage' = "ready"
            /\ UNCHANGED <<file, cfg, checks, series>>
       ELSE Reject

\* The labels of a result: those of its check, and every custom key of any
\* check, blank if this one has no such label.
labelValues(c) ==
    Over([check_id |-> c.id, check_name |-> c.name, group |-> c.group, kind |-> c.kind,
          scope |-> c.scope],
         [k \in keys |-> IF k \in DOMAIN c.labels THEN c.labels[k]
                         ELSE [text |-> "", pad |-> FALSE]])

\* A job recorded its first result.
Record(i) ==
    /\ stage = "ready"
    /\ i \in DOMAIN checks \ DOMAIN series
    /\ series' = [j \in DOMAIN series \cup {i} |->
                    IF j = i THEN labelValues(checks[i]) ELSE series[j]]
    /\ UNCHANGED <<file, stage, cfg, checks, keys>>

-----------------------------------------------------------------------------
Init ==
    /\ file \in Files
    /\ stage = "file"
    /\ cfg = file.config
    /\ checks = <<>>
    /\ keys = {}
    /\ series = <<>>

Next ==
    \/ Decode \/ Validate \/ runtimeChecks \/ NewExporter
    \/ \E i \in DOMAIN checks : Record(i)

Spec == Init /\ [][Next]_vars

-----------------------------------------------------------------------------
\* No two checks record into the same series, whatever their groups, labels
\* and padding: the results of one never overwrite those of another.
SeriesDistinct == \A i, j \in DOMAIN series : series[i] = series[j] => i = j

\* The value a label must have by what was configured: that of the check, else
\* that of the defaults, else blank.
Configured(c, key) ==
    LET of(labels) == {Trim(labels[k]) : k \in {m \in DOMAIN labels : m.text = key}} IN
    IF of(c.labels) # {} THEN of(c.labels)
    ELSE IF of(file.config.defaults.labels) # {} THEN of(file.config.defaults.labels)
    ELSE {[text |-> "", pad |-> FALSE]}

\* The series of a check carries its own labels on top of the defaults and
\* nothing of the labels of another check, whose keys it does carry.
LabelsAsConfigured ==
    \A i \in DOMAIN series, key \in keys :
        {series[i][key]} = Configured(AllChecks(file.config.groups)[i], key)

\* What the probes and the scheduler rely on holds of every check they are
\* given: a ticker does not take an interval of zero, a check without a probe
\* would run a nil one, and an address needs a host and a port.
HasWhatItNeeds(c) ==
    /\ c.interval > 0 /\ c.timeout > 0
    /\ \/ c.kind.text = "https" /\ c.scheme = "https" /\ c.statuses # {}
       \/ c.kind.text = "dns" /\ c.port \in 1 .. MaxPort /\ c.recordType.text \in dnsRecordTypes
       \/ c.kind.text = "icmp" /\ ~Blank(c.host)
       \/ c.kind.text = "tls" /\ ~Blank(c.host) /\ c.port \in 1 .. MaxPort
             /\ (c.min > 0 \/ file.config.defaults.min = 0)

Runnable == stage \in {"checks", "ready"} => \A i \in DOMAIN checks : HasWhatItNeeds(checks[i])

\* What makes them inductive: what each stage has made of the file, and that a
\* recorded result has the labels of its check.
IInv ==
    /\ file \in Files
    /\ stage \in {"file", "loaded", "valid", "checks", "ready", "rejected"}
    /\ stage = "loaded" => cfg = Decoded(file.config)
    /\ stage \in {"valid", "checks", "ready"} =>
          /\ DecodedOK(Decoded(file.config))
          /\ cfg = Validated(Decoded(file.config))
          /\ CompletedOK(cfg.groups)
    /\ stage \in {"checks", "ready"} =>
          LET all == AllChecks(cfg.groups) IN
          /\ checks = [i \in DOMAIN all |-> RuntimeCheck(all[i])]
          /\ \A i \in DOMAIN all : RunnableCheck(all[i])
    /\ stage = "ready" => keys = collectLabelKeys /\ keys \cap baseLabels = {}
    /\ DOMAIN series \subseteq IF stage = "ready" THEN DOMAIN checks ELSE {}
    /\ \A i \in DOMAIN series : series[i] = labelValues(checks[i])
=============================================================================
