------------------------------ MODULE IcmpProbe ------------------------------
(***************************************************************************)
(* The ICMP probes of conmon.  Each run of a probe opens a raw socket of   *)
(* its own, sends its echo requests and counts the replies until it has    *)
(* one for each request or its deadline passes.  The kernel copies every   *)
(* ICMP packet that arrives to every open raw socket, so a probe also      *)
(* reads the replies to the other probes, to its own earlier runs, and,    *)
(* when the target is this host, the requests themselves.  The network     *)
(* loses, delays, reorders and duplicates.                                 *)
(***************************************************************************)
EXTENDS Integers, FiniteSets

CONSTANTS
    Probes,   \* the icmp checks
    Ids,      \* the identifiers a probe may have (16 bits of the clock)
    Count,    \* Count[p]: check.Count
    Local     \* the probes whose target is this host

ASSUME IcmpAssumption ==
    /\ Count \in [Probes -> Nat]
    /\ Local \subseteq Probes

VARIABLES
    id,        \* Probe.id, fixed when the probe is made
    pc,        \* where the run of the probe is
    sent,      \* sent
    seen,      \* seenReplies
    replies,   \* outcome.ICMPEchoReplies
    success,   \* outcome.Success
    expired,   \* the deadline of the run, of its context and its socket, passed
    net,       \* packets that may still be read: under way, or waiting in the
               \* buffers of the sockets, more than once if duplicated
    cancelled, \* the context of the application is cancelled
    counted    \* history: the packets the run counted

runVars == <<pc, sent, seen, replies, success, expired, counted>>
vars == <<id, runVars, net, cancelled>>

Max1(n) == IF n > 0 THEN n ELSE 1
probeCount(p) == Max1(Count[p])

\* "from" is the probe whose request it is or answers; no one can read it.
Packet ==
    UNION {[type : {"reply", "request"}, id : Ids, seq : 1 .. probeCount(p), from : {p}] :
              p \in Probes}

TypeOK ==
    /\ id \in [Probes -> Ids]
    /\ pc \in [Probes -> {"idle", "open", "send", "read"}]
    /\ sent \in [Probes -> Nat] /\ \A p \in Probes : sent[p] <= probeCount(p)
    /\ seen \in [Probes -> SUBSET Nat] /\ \A p \in Probes : seen[p] \subseteq 1 .. sent[p]
    /\ replies \in [Probes -> Nat] /\ \A p \in Probes : replies[p] <= probeCount(p)
    /\ success \in [Probes -> BOOLEAN]
    /\ expired \in [Probes -> BOOLEAN]
    /\ net \subseteq Packet
    /\ cancelled \in BOOLEAN
    /\ counted \in [Probes -> SUBSET Packet]

\* Two probes made at the same time may have the same identifier.
Init ==
    /\ id \in [Probes -> Ids]
    /\ pc = [p \in Probes |-> "idle"]
    /\ sent = [p \in Probes |-> 0]
    /\ seen = [p \in Probes |-> {}]
    /\ replies = [p \in Probes |-> 0]
    /\ success = [p \in Probes |-> FALSE]
    /\ expired = [p \in Probes |-> FALSE]
    /\ net = {}
    /\ cancelled = FALSE
    /\ counted = [p \in Probes |-> {}]

\* runCtx.Err() is not nil.
RunDone(p) == expired[p] \/ cancelled

-----------------------------------------------------------------------------
(* A run. *)

\* Run begins, as its job does: one run of a probe at a time.  The first run of a
\* job does not look at the context and the select of later ones may prefer the
\* tick, so a run may begin with a context that is cancelled already.
BeginRun(p) ==
    /\ pc[p] = "idle"
    /\ pc' = [pc EXCEPT ![p] = "open"]
    /\ replies' = [replies EXCEPT ![p] = 0]
    /\ success' = [success EXCEPT ![p] = FALSE]
    /\ counted' = [counted EXCEPT ![p] = {}]
    /\ UNCHANGED <<id, sent, seen, expired, net, cancelled>>

\* The run ends with its outcome as it is; its socket is closed and its
\* variables are gone.
End(p) ==
    /\ pc' = [pc EXCEPT ![p] = "idle"]
    /\ sent' = [sent EXCEPT ![p] = 0]
    /\ seen' = [seen EXCEPT ![p] = {}]
    /\ expired' = [expired EXCEPT ![p] = FALSE]
    /\ UNCHANGED <<id, cancelled, net>>

\* The name is resolved, the socket opened and given its deadline.
OpenSocket(p) ==
    /\ pc[p] = "open"
    /\ pc' = [pc EXCEPT ![p] = "send"]
    /\ UNCHANGED <<id, sent, seen, replies, success, expired, counted, net, cancelled>>

\* One of that fails, or a write does: the run failed, whatever it had sent.
Fails(p) ==
    /\ pc[p] \in {"open", "send"}
    /\ End(p)
    /\ UNCHANGED <<replies, success, counted>>

\* What the network may make of a request: nothing, the reply of the target,
\* and at a local target the request itself.
Answers(p, n) ==
    LET packet(t) == [type |-> t, id |-> id[p], seq |-> n, from |-> p] IN
    {{}, {packet("reply")}} \cup
        IF p \in Local THEN {{packet("request")}, {packet("request"), packet("reply")}} ELSE {}

\* Variant of Send: the loop runs once too often.
SendOneMore(p) ==
    /\ pc[p] = "send"
    /\ sent[p] <= probeCount(p)
    /\ ~RunDone(p)
    /\ sent' = [sent EXCEPT ![p] = @ + 1]
    /\ \E packets \in Answers(p, sent[p] + 1) : net' = net \cup packets
    /\ UNCHANGED <<id, pc, seen, replies, success, expired, counted, cancelled>>

Send(p) ==
    /\ pc[p] = "send"
    /\ sent[p] < probeCount(p)
    /\ ~RunDone(p)
    /\ sent' = [sent EXCEPT ![p] = @ + 1]
    /\ \E packets \in Answers(p, sent[p] + 1) : net' = net \cup packets
    /\ UNCHANGED <<id, pc, seen, replies, success, expired, counted, cancelled>>

\* The loop ends: all are sent, or the context is done.  With nothing sent the
\* run failed.
StopSending(p) ==
    /\ pc[p] = "send"
    /\ sent[p] = probeCount(p) \/ RunDone(p)
    /\ IF sent[p] = 0
       THEN End(p)
       ELSE /\ pc' = [pc EXCEPT ![p] = "read"]
            /\ UNCHANGED <<id, sent, seen, expired, net, cancelled>>
    /\ UNCHANGED <<replies, success, counted>>

\* Variant of Matches: any reply is taken for one to this probe.
MatchesAnyId(p, pkt) ==
    /\ pkt.type = "reply"
    /\ pkt.seq \in 1 .. sent[p]
    /\ pkt.seq \notin seen[p]

\* Variant of Matches: a reply is counted as often as it comes.
MatchesAgain(p, pkt) ==
    /\ pkt.type = "reply"
    /\ pkt.id = id[p]
    /\ pkt.seq \in 1 .. sent[p]

\* The first packet for this run: a reply to the probe's identifier, to a
\* sequence number it has sent and not seen answered.
Matches(p, pkt) ==
    /\ pkt.type = "reply"
    /\ pkt.id = id[p]
    /\ pkt.seq \in 1 .. sent[p]
    /\ pkt.seq \notin seen[p]

\* A packet is read; others may read it too, or read it again.  One that does
\* not match is dropped; one that does makes the run a success, and ends it if
\* no request is left unanswered.
Read(p, pkt) ==
    /\ pc[p] = "read"
    /\ ~expired[p]
    /\ pkt \in net
    /\ IF Matches(p, pkt)
       THEN /\ counted' = [counted EXCEPT ![p] = @ \cup {pkt}]
            /\ replies' = [replies EXCEPT ![p] = @ + 1]
            /\ success' = [success EXCEPT ![p] = TRUE]
            /\ IF replies[p] + 1 >= sent[p]
               THEN End(p)
               ELSE /\ seen' = [seen EXCEPT ![p] = @ \cup {pkt.seq}]
                    /\ UNCHANGED <<id, pc, sent, expired, net, cancelled>>
       ELSE UNCHANGED vars

\* Variant of ReadFails: the cancelled context is noticed, the deadline not.
ReadFailsOnCancel(p) ==
    /\ pc[p] = "read"
    /\ cancelled
    /\ success' = [success EXCEPT ![p] = replies[p] > 0]
    /\ End(p)
    /\ UNCHANGED <<replies, counted>>

\* Variant of ReadFails: not all answered is taken for a failure.
ReadFailsAll(p) ==
    /\ pc[p] = "read"
    /\ expired[p]
    /\ success' = [success EXCEPT ![p] = FALSE]
    /\ End(p)
    /\ UNCHANGED <<replies, counted>>

\* The read fails, at the deadline even if packets are waiting: the run is a
\* success if anything was counted.  The read does not see the context.
ReadFails(p) ==
    /\ pc[p] = "read"
    /\ expired[p]
    /\ success' = [success EXCEPT ![p] = replies[p] > 0]
    /\ End(p)
    /\ UNCHANGED <<replies, counted>>

-----------------------------------------------------------------------------
(* The environment. *)

\* A packet does not arrive any more: it is lost, or every copy of it is read.
Vanish(pkt) ==
    /\ pkt \in net
    /\ net' = net \ {pkt}
    /\ UNCHANGED <<id, runVars, cancelled>>

Expire(p) ==
    /\ pc[p] # "idle"
    /\ ~expired[p]
    /\ expired' = [expired EXCEPT ![p] = TRUE]
    /\ UNCHANGED <<id, pc, sent, seen, replies, success, counted, net, cancelled>>

Cancel ==
    /\ ~cancelled
    /\ cancelled' = TRUE
    /\ UNCHANGED <<id, runVars, net>>

-----------------------------------------------------------------------------
RunStep(p) ==
    \/ OpenSocket(p) \/ Fails(p) \/ Send(p) \/ StopSending(p) \/ ReadFails(p)
    \/ \E pkt \in net : Read(p, pkt)

Next ==
    \/ \E p \in Probes : BeginRun(p) \/ RunStep(p) \/ Expire(p)
    \/ \E pkt \in net : Vanish(pkt)
    \/ Cancel

\* A run takes its steps and time passes; the network owes nothing.
Fairness == \A p \in Probes : WF_vars(RunStep(p)) /\ WF_vars(Expire(p))

Spec == Init /\ [][Next]_vars /\ Fairness

-----------------------------------------------------------------------------
\* A run counts replies to requests of its own probe, although its socket gets
\* everything: the identifier keeps the probes apart, as long as no other
\* probe was given the same.
OwnReplies ==
    \A p \in Probes :
        (\A q \in Probes \ {p} : id[q] # id[p]) =>
            \A pkt \in counted[p] : pkt.from = p /\ pkt.type = "reply"

\* The sequence numbers of the replies the run counted.
Numbers(p) == {pkt.seq : pkt \in counted[p]}

\* What a run counts are as many requests, each sent and each counted once,
\* however often a reply is duplicated.
EachOnce ==
    \A p \in Probes :
        /\ replies[p] = Cardinality(Numbers(p))
        /\ pc[p] # "idle" => \A pkt \in counted[p] : pkt.seq <= sent[p]

\* The verdict of a run that is over is whether it counted a reply: a late,
\* foreign or repeated packet never turns it, and a cancelled or expired run
\* keeps what it got.
VerdictBacked == \A p \in Probes : success[p] <=> counted[p] # {}

\* What a run knows, against what it counted; before it reads it has nothing.
RunConsistent(p) ==
    /\ \A pkt \in counted[p] :
          pkt \in Packet /\ pkt.type = "reply" /\ pkt.id = id[p] /\ pkt.id = id[pkt.from]
    /\ replies[p] = Cardinality(Numbers(p))
    /\ success[p] <=> counted[p] # {}
    /\ pc[p] # "idle" => seen[p] = Numbers(p)
    /\ pc[p] \in {"open", "send"} => counted[p] = {}
    /\ pc[p] \in {"idle", "open"} => sent[p] = 0 /\ seen[p] = {}

\* The inductive invariant: a packet carries the identifier of the probe whose
\* request it is or answers.
IInv ==
    /\ TypeOK
    /\ \A pkt \in net : pkt.id = id[pkt.from]
    /\ \A p \in Probes : RunConsistent(p)

\* Every run ends, also when nothing is answered, when the application stops
\* in the middle of it, and when other replies keep arriving.
RunsEnd == \A p \in Probes : pc[p] # "idle" ~> pc[p] = "idle"
=============================================================================
