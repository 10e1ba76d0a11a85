------------------------------ MODULE MCProbes ------------------------------
\* The instance of the probes the model checker runs.  What kind the check is
\* of decides which probe is made of it: the icmp probes run beside each other
\* (IcmpProbe), a run of another kind is on its own (RemoteProbe).
EXTENDS IcmpProbe, RemoteProbe
CONSTANTS gateway, self

TwoProbes == {gateway, self}
Counts == [p \in TwoProbes |-> IF p = gateway THEN 2 ELSE 0]
SelfIsLocal == {self}

Timeouts == {1, 2, 3}
TestChecks ==
    [kind : {"https"}, timeout : Timeouts, statuses : {{}, {500}, {200, 301}}]
        \cup [kind : {"dns"}, timeout : Timeouts, rcode : {"", "NOERROR", "NXDOMAIN"}]
        \cup [kind : {"tls"}, timeout : Timeouts, minDays : {0, 1, 2}]

\* The times at which up to n legs may be over: four is after every timeout.
Dues(n) == {d \in [1 .. n -> 0 .. 4] : \A i \in 1 .. n - 1 : d[i] <= d[i + 1]}

TestScripts ==
    [https |-> UNION {[due : Dues(n), broken : 0 .. n, status : {200, 301, 500}] : n \in 2 .. 4},
     dns   |-> [due : Dues(2), broken : 0 .. 2, rcode : {"NOERROR", "NXDOMAIN"}, answers : 0 .. 1],
     tls   |-> [due : Dues(3), broken : 0 .. 3, notAfter : -1 .. 7]]

IcmpCheck == [kind |-> "icmp", timeout |-> 1]

RemoteIdle ==
    /\ check = IcmpCheck /\ target = IcmpCheck
    /\ leg = 0 /\ elapsed = 0 /\ deadline = 0
    /\ ctxDone = FALSE /\ outcome = BaseResult /\ cut = TRUE

IcmpIdle == Init /\ \A p \in Probes : id[p] = 1

ProbesInit ==
    \/ Init /\ RemoteIdle
    \/ IcmpIdle /\ RemoteInit

ProbesNext ==
    \/ check.kind = "icmp" /\ Next /\ UNCHANGED remoteVars
    \/ check.kind # "icmp" /\ RemoteNext /\ UNCHANGED vars

ProbesSpec == ProbesInit /\ [][ProbesNext]_<<vars, remoteVars>> /\ Fairness
=============================================================================
