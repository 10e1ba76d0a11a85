------------------------------ MODULE MCConfig -------------------------------
\* The instance of the configurations the model checker runs.  Of conmon: one
\* check of each kind with every value that matters, and two checks in one or
\* two groups with all ways to label and name them.  Of sysmon: every value of
\* the pushes, and two units with all ways to write them.  One of the programs
\* reads its file; the other has none.
EXTENDS ConmonConfig, SysmonConfig, TLC

Plain(t) == [text |-> t, pad |-> FALSE]
Padded(t) == [text |-> t, pad |-> TRUE]
Without == <<>>
For(n) == [form |-> "parsed", value |-> n]
Unset == [form |-> "blank", value |-> 0]
NotDuration == [form |-> "other", value |-> 0]

ReservedKeys == {"__site"}
MalformedKeys == {"my-site"}

Defaults == [interval |-> For(60), timeout |-> For(5), min |-> 0, server |-> Plain(""), labels |-> Without]
Listen == [text |-> "host:port", pad |-> TRUE, port |-> 9109]

Check ==
    [id |-> Plain("one"), name |-> Padded("One"), kind |-> Plain("icmp"), scope |-> Plain("lan"),
     host |-> Plain("gw"), port |-> 443, scheme |-> "https", method |-> Plain(""),
     statuses |-> {}, server |-> Plain(""), query |-> Plain("example"),
     recordType |-> Plain("a"), rcode |-> Plain(""), min |-> 0, count |-> 0,
     interval |-> Unset, timeout |-> Unset, labels |-> Without, group |-> Plain("")]

Config(defaults, listen, groups) == [defaults |-> defaults, listen |-> listen, groups |-> groups]
Group(name, list) == [name |-> name, checks |-> list]
OneCheck(c) == Config(Defaults, Listen, <<Group(Plain("g"), <<c>>)>>)

Ports == {-1, 0, 1, 53, 65535, 65536}
Hosts == {Plain(""), Plain("gw")}

\* One check, by kind.
Icmp == {[Check EXCEPT !.host = h, !.count = n] : h \in Hosts, n \in {-1, 0, 3}}
Http == {[Check EXCEPT !.kind = k, !.scheme = s, !.method = m, !.statuses = st] :
            k \in {Plain("https"), Padded("HTTPS"), Plain("http")}, s \in {"", "http", "https"},
            m \in {Plain(""), Plain("head"), Plain("invalid")}, st \in {{}, {204}, {99}, {600}}}
Tcp == {[Check EXCEPT !.kind = Plain("tcp"), !.host = h, !.port = p] : h \in Hosts, p \in Ports}
Dns == {[Check EXCEPT !.kind = Plain("DNS"), !.query = q, !.recordType = r, !.rcode = x,
                      !.port = p] :
            q \in {Plain(""), Plain("example")}, r \in {Plain("a"), Plain("AAAA"), Plain("ANY")},
            x \in {Plain(""), Padded("nxdomain"), Plain("BAD")}, p \in Ports}
Tls == {[Check EXCEPT !.kind = Padded("TLS"), !.host = h, !.port = p, !.min = n] :
            h \in Hosts, p \in Ports, n \in {-1, 0, 7}}
Other == {[Check EXCEPT !.kind = Plain("ssh")], [Check EXCEPT !.id = Plain("")],
          [Check EXCEPT !.name = Plain("")], [Check EXCEPT !.scope = Plain("")],
          [Check EXCEPT !.kind = Plain("")], [Check EXCEPT !.interval = For(10)],
          [Check EXCEPT !.timeout = For(2)], [Check EXCEPT !.timeout = For(-2)],
          [Check EXCEPT !.interval = NotDuration]}
OneCheckConfigs == {OneCheck(c) : c \in Icmp \cup Http \cup Tcp \cup Dns \cup Tls \cup Other}

\* The defaults and the address.
DefaultConfigs ==
    {Config([Defaults EXCEPT !.interval = i, !.timeout = t, !.min = n, !.server = s], l,
            <<Group(Plain("g"), <<[Check EXCEPT !.kind = Plain("tls")],
                                  [Check EXCEPT !.kind = Plain("dns"), !.id = Plain("two")]>>)>>) :
        i \in {For(0), For(60)}, t \in {Unset, For(5)}, n \in {-1, 0, 7}, s \in {Plain(""), Padded("ns")},
        l \in {Listen, [Listen EXCEPT !.text = ""], [Listen EXCEPT !.text = "host"],
               [Listen EXCEPT !.port = 0], [Listen EXCEPT !.port = 65536]}}

\* Two checks.
GoodLabels ==
    {Without, Padded("site") :> Plain("s2"),
     Plain("site") :> Padded("s3") @@ Plain("rack") :> Plain("r2"), Plain("kind") :> Plain("k")}
BadLabels ==
    {Plain("site") :> Plain("s1") @@ Padded("site") :> Plain("s2"),
     Plain("__site") :> Plain("x"), Plain("my-site") :> Plain("x"), Padded("") :> Plain("x")}
Groupings(a, b) ==
    {<<Group(Plain("g"), <<a, b>>)>>} \cup
    {<<Group(Plain("g"), <<a>>), Group(n, <<b>>)>> : n \in {Plain("h"), Padded("g"), Plain("")}}
TwoCheckConfigs ==
    UNION {{Config([Defaults EXCEPT !.labels = d], Listen, groups) :
               groups \in Groupings([Check EXCEPT !.labels = x],
                                    [Check EXCEPT !.id = other, !.labels = y])} :
              d \in GoodLabels, x \in GoodLabels \cup BadLabels, y \in GoodLabels,
              other \in {Plain("two"), Padded("one"), Plain("one")}}

AllConfigs == OneCheckConfigs \cup DefaultConfigs \cup TwoCheckConfigs

GoodFile == [readable |-> TRUE, known |-> TRUE, documents |-> 1]
BadFiles == {[GoodFile EXCEPT !.readable = FALSE], [GoodFile EXCEPT !.known = FALSE],
             [GoodFile EXCEPT !.documents = 0], [GoodFile EXCEPT !.documents = 2]}
NoFile == [GoodFile EXCEPT !.readable = FALSE]

ConmonFiles ==
    {"config" :> c @@ GoodFile : c \in AllConfigs}
        \cup {"config" :> OneCheck(Check) @@ f : f \in BadFiles}

\* sysmon.
Gateway == [text |-> "gateway", pad |-> TRUE, scheme |-> "http", authority |-> TRUE]
SysmonExample ==
    [url |-> Gateway, job |-> Plain(""), interval |-> For(30), timeout |-> For(5),
     host |-> Plain(""), perCore |-> "absent", services |-> <<>>]
Units == {Plain("sshd"), Padded("sshd"), Padded("docker"), Padded("")}
UnitLists == {<<>>} \cup {<<u>> : u \in Units} \cup {<<u, v>> : u, v \in Units}
SysmonConfigs ==
    {[SysmonExample EXCEPT !.interval = i, !.timeout = t, !.url = u, !.job = j] :
        i, t \in {Unset, For(0), For(30), For(-1), NotDuration}, j \in {Plain(""), Padded("edge")},
        u \in {Gateway, [Gateway EXCEPT !.text = ""], [Gateway EXCEPT !.scheme = "https"],
               [Gateway EXCEPT !.scheme = ""], [Gateway EXCEPT !.authority = FALSE]}}
    \cup
    {[SysmonExample EXCEPT !.services = l, !.host = h, !.perCore = b] :
        l \in UnitLists, h \in {Plain(""), Padded("web")}, b \in {"absent", "true", "false"}}
SomeSysmonFiles ==
    {"content" :> c @@ GoodFile : c \in SysmonConfigs}
        \cup {"content" :> SysmonExample @@ f : f \in BadFiles}
SomeLookups == {[ok |-> TRUE, name |-> Plain("machine")], [ok |-> FALSE, name |-> Plain("")]}

\* One of the two programs.
ConfigInit ==
    \/ Init /\ SysmonInit /\ given = "content" :> SysmonExample @@ NoFile
    \/ Init /\ SysmonInit /\ file = "config" :> OneCheck(Check) @@ NoFile

ConfigNext ==
    \/ Next /\ UNCHANGED sysmonVars
    \/ SysmonNext /\ UNCHANGED vars

ConfigSpec == ConfigInit /\ [][ConfigNext]_<<vars, sysmonVars>>
=============================================================================
