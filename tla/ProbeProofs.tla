---------------------------- MODULE ProbeProofs -----------------------------
(***************************************************************************)
(* The probes.  A run of an ICMP probe counts the replies to its own       *)
(* probe, each once, for any probes, identifiers and counts, whatever the  *)
(* network does.  A run of an HTTP, DNS or TLS probe takes no more than    *)
(* its timeout, and its verdict is the truth about the target, for any     *)
(* checks, any number of legs, any target, and a cancellation at any       *)
(* moment.                                                                 *)
(***************************************************************************)
EXTENDS IcmpProbe, RemoteProbe, FiniteSetTheorems, TLAPS

-----------------------------------------------------------------------------
(* The ICMP probe. *)

LEMMA CountIsPositive ==
    ASSUME NEW p \in Probes
    PROVE  probeCount(p) \in Nat \ {0}
    BY IcmpAssumption DEF probeCount, Max1

\* The fields of a packet.
LEMMA PacketFields ==
    ASSUME NEW pkt \in Packet
    PROVE  pkt.from \in Probes /\ pkt.seq \in Nat
<1>1. PICK p \in Probes :
          pkt \in [type : {"reply", "request"}, id : Ids, seq : 1 .. probeCount(p), from : {p}]
    BY DEF Packet
<1> QED
    BY <1>1, CountIsPositive

\* The packets that a request gives rise to carry its identifier.
LEMMA AnswersArePackets ==
    ASSUME id \in [Probes -> Ids], NEW p \in Probes, NEW n \in 1 .. probeCount(p),
           NEW packets \in Answers(p, n), NEW pkt \in packets
    PROVE  pkt \in Packet /\ pkt.id = id[pkt.from]
<1> DEFINE packet(t) == [type |-> t, id |-> id[p], seq |-> n, from |-> p]
<1>1. pkt = packet("reply") \/ pkt = packet("request")
    BY DEF Answers
<1>2. pkt \in [type : {"reply", "request"}, id : Ids, seq : 1 .. probeCount(p), from : {p}]
    BY <1>1
<1>3. pkt \in Packet
    BY <1>2 DEF Packet
<1> QED
    BY <1>1, <1>3

\* The invariant holds at the start.
LEMMA InitEstablishes == Init => IInv
<1> SUFFICES ASSUME Init PROVE IInv
    OBVIOUS
<1> USE DEF Init
<1>1. TypeOK
    <2>1. \A p \in Probes : sent[p] <= probeCount(p) /\ replies[p] <= probeCount(p)
        BY CountIsPositive
    <2>2. \A p \in Probes : seen[p] \subseteq 1 .. sent[p]
        OBVIOUS
    <2> QED
        BY <2>1, <2>2 DEF TypeOK
<1>2. ASSUME NEW p \in Probes PROVE RunConsistent(p)
    <2>1. Numbers(p) = {}
        BY DEF Numbers
    <2> QED
        BY <2>1, FS_EmptySet DEF RunConsistent
<1> QED
    BY <1>1, <1>2 DEF IInv

\* A run that is not touched stays as it is.
LEMMA OthersKeep ==
    ASSUME NEW q \in Probes, RunConsistent(q), UNCHANGED id,
           counted'[q] = counted[q], replies'[q] = replies[q], success'[q] = success[q],
           pc'[q] = pc[q], seen'[q] = seen[q], sent'[q] = sent[q]
    PROVE  RunConsistent(q)'
    BY DEF RunConsistent, Numbers

\* A run that ends keeps its outcome; what it knew is gone.
LEMMA EndKeeps ==
    ASSUME IInv, NEW p \in Probes, End(p), UNCHANGED <<replies, success, counted>>
    PROVE  IInv'
<1> USE DEF End
<1>1. TypeOK'
    BY CountIsPositive DEF IInv, TypeOK
<1>2. RunConsistent(p)'
    BY DEF IInv, TypeOK, RunConsistent, Numbers
<1>3. ASSUME NEW q \in Probes \ {p} PROVE RunConsistent(q)'
    BY OthersKeep DEF IInv, TypeOK
<1>4. \A pkt \in net' : pkt.id = id'[pkt.from]
    BY DEF IInv
<1> QED
    BY <1>1, <1>2, <1>3, <1>4 DEF IInv

\* The numbers a run has seen are finitely many, and it has seen as many as it
\* has counted replies.
LEMMA SeenIsFinite ==
    ASSUME IInv, NEW p \in Probes, pc[p] # "idle"
    PROVE  /\ IsFiniteSet(seen[p]) /\ Cardinality(seen[p]) = replies[p]
           /\ IsFiniteSet(1 .. sent[p]) /\ Cardinality(1 .. sent[p]) = sent[p]
<1>1. sent[p] \in Nat /\ seen[p] \subseteq 1 .. sent[p]
    BY DEF IInv, TypeOK
<1>2. IsFiniteSet(1 .. sent[p]) /\ Cardinality(1 .. sent[p]) = sent[p]
    BY <1>1, FS_Interval
<1>3. IsFiniteSet(seen[p])
    BY <1>1, <1>2, FS_Subset
<1>4. seen[p] = Numbers(p) /\ replies[p] = Cardinality(Numbers(p))
    BY DEF IInv, RunConsistent
<1> QED
    BY <1>2, <1>3, <1>4

\* A packet that matches is one more reply to a request that had none.
LEMMA MatchPreserves ==
    ASSUME IInv, NEW p \in Probes, NEW pkt \in net, Read(p, pkt), Matches(p, pkt)
    PROVE  IInv'
<1> DEFINE after == seen[p] \cup {pkt.seq}
<1>1. /\ pc[p] = "read"
      /\ counted' = [counted EXCEPT ![p] = @ \cup {pkt}]
      /\ replies' = [replies EXCEPT ![p] = @ + 1]
      /\ success' = [success EXCEPT ![p] = TRUE]
      /\ UNCHANGED <<id, cancelled, net>>
      /\ \/ End(p)
         \/ /\ seen' = [seen EXCEPT ![p] = after]
            /\ UNCHANGED <<pc, sent, expired>>
    BY DEF Read, End
<1>2. /\ pkt \in Packet /\ pkt.type = "reply" /\ pkt.id = id[p] /\ pkt.id = id[pkt.from]
      /\ pkt.seq \in 1 .. sent[p] /\ pkt.seq \notin seen[p]
    BY DEF IInv, TypeOK, Matches
<1>3. RunConsistent(p)
    BY DEF IInv
<1>4. after \subseteq 1 .. sent[p] /\ sent[p] \in Nat /\ sent[p] <= probeCount(p)
    BY <1>2 DEF IInv, TypeOK
<1>5. Cardinality(after) = replies[p] + 1 /\ replies[p] + 1 <= sent[p]
    <2>1. Cardinality(after) = Cardinality(seen[p]) + 1
        BY <1>1, <1>2, SeenIsFinite, FS_AddElement
    <2>2. Cardinality(after) <= Cardinality(1 .. sent[p])
        BY <1>1, <1>4, SeenIsFinite, FS_Subset
    <2> QED
        BY <1>1, <2>1, <2>2, SeenIsFinite
<1>6. Numbers(p)' = after
    BY <1>1, <1>3 DEF Numbers, RunConsistent, IInv, TypeOK
<1>7. TypeOK'
    <2>1. /\ counted' \in [Probes -> SUBSET Packet] /\ success' \in [Probes -> BOOLEAN]
          /\ UNCHANGED <<id, cancelled, net>>
        BY <1>1, <1>2 DEF IInv, TypeOK
    <2>2. replies' \in [Probes -> Nat] /\ \A q \in Probes : replies'[q] <= probeCount(q)
        BY <1>1, <1>4, <1>5, CountIsPositive DEF IInv, TypeOK
    <2>3. CASE End(p)
        BY <2>1, <2>2, <2>3, CountIsPositive DEF IInv, TypeOK, End
    <2>4. CASE seen' = [seen EXCEPT ![p] = after] /\ UNCHANGED <<pc, sent, expired>>
        <3>1. after \in SUBSET Nat
            BY <1>4
        <3>2. \A q \in Probes : seen'[q] \subseteq 1 .. sent'[q]
            BY <1>4, <2>4 DEF IInv, TypeOK
        <3> HIDE DEF after
        <3>3. seen' \in [Probes -> SUBSET Nat]
            BY <2>4, <3>1 DEF IInv, TypeOK
        <3> QED
            BY <2>1, <2>2, <2>4, <3>2, <3>3 DEF IInv, TypeOK
    <2> QED
        BY <1>1, <2>3, <2>4
<1>8. RunConsistent(p)'
    BY <1>1, <1>2, <1>3, <1>5, <1>6 DEF RunConsistent, IInv, TypeOK, End
<1>9. ASSUME NEW q \in Probes \ {p} PROVE RunConsistent(q)'
    BY <1>1, OthersKeep DEF IInv, TypeOK, End
<1>10. \A x \in net' : x.id = id'[x.from]
    BY <1>1 DEF IInv
<1> QED
    BY <1>7, <1>8, <1>9, <1>10 DEF IInv

\* When the read fails the verdict is what was counted.
LEMMA ReadFailsKeeps ==
    ASSUME IInv, NEW p \in Probes, ReadFails(p)
    PROVE  IInv'
<1>1. pc[p] = "read" /\ RunConsistent(p)
    BY DEF ReadFails, IInv
<1>2. (replies[p] > 0) <=> counted[p] # {}
    <2>1. replies[p] = Cardinality(seen[p]) /\ IsFiniteSet(seen[p]) /\ replies[p] \in Nat
        BY <1>1, SeenIsFinite DEF IInv, TypeOK
    <2>2. replies[p] = 0 <=> seen[p] = {}
        BY <2>1, FS_EmptySet
    <2>3. seen[p] = {} <=> counted[p] = {}
        BY <1>1 DEF RunConsistent, Numbers
    <2> QED
        BY <2>1, <2>2, <2>3
<1>3. UNCHANGED <<replies, success, counted>>
    BY <1>1, <1>2 DEF ReadFails, RunConsistent, IInv, TypeOK
<1> QED
    BY <1>3, EndKeeps DEF ReadFails

\* Every other step of a run.
LEMMA RunStepPreserves ==
    ASSUME IInv, NEW p \in Probes, BeginRun(p) \/ RunStep(p) \/ Expire(p)
    PROVE  IInv'
<1>1. CASE BeginRun(p)
    <2> USE <1>1 DEF BeginRun
    <2>1. TypeOK'
        BY CountIsPositive DEF IInv, TypeOK
    <2>2. Numbers(p)' = {}
        BY DEF Numbers, IInv, TypeOK
    <2>3. RunConsistent(p)'
        BY <2>2, FS_EmptySet DEF IInv, TypeOK, RunConsistent
    <2>4. ASSUME NEW q \in Probes \ {p} PROVE RunConsistent(q)'
        BY OthersKeep DEF IInv, TypeOK
    <2> QED
        BY <2>1, <2>3, <2>4 DEF IInv
<1>2. CASE OpenSocket(p)
    <2> USE <1>2 DEF OpenSocket
    <2>1. TypeOK'
        BY DEF IInv, TypeOK
    <2>2. RunConsistent(p)'
        BY DEF IInv, TypeOK, RunConsistent, Numbers
    <2>3. ASSUME NEW q \in Probes \ {p} PROVE RunConsistent(q)'
        BY OthersKeep DEF IInv, TypeOK
    <2> QED
        BY <2>1, <2>2, <2>3 DEF IInv
<1>3. CASE Fails(p)
    BY <1>3, EndKeeps DEF Fails
<1>4. CASE Send(p)
    <2> USE <1>4 DEF Send
    <2>1. PICK packets \in Answers(p, sent[p] + 1) : net' = net \cup packets
        OBVIOUS
    <2>2. sent[p] + 1 \in 1 .. probeCount(p)
        BY CountIsPositive DEF IInv, TypeOK
    <2>3. \A pkt \in packets : pkt \in Packet /\ pkt.id = id[pkt.from]
        BY <2>2, AnswersArePackets DEF IInv, TypeOK
    <2>4. net' \subseteq Packet /\ \A pkt \in net' : pkt.id = id'[pkt.from]
        BY <2>1, <2>3 DEF IInv, TypeOK
    <2>5. TypeOK'
        BY <2>2, <2>4 DEF IInv, TypeOK
    <2>6. RunConsistent(p)'
        BY DEF IInv, TypeOK, RunConsistent, Numbers
    <2>7. ASSUME NEW q \in Probes \ {p} PROVE RunConsistent(q)'
        BY OthersKeep DEF IInv, TypeOK
    <2> QED
        BY <2>4, <2>5, <2>6, <2>7 DEF IInv
<1>5. CASE StopSending(p)
    <2>1. CASE sent[p] = 0
        BY <1>5, <2>1, EndKeeps DEF StopSending
    <2>2. CASE sent[p] # 0
        <3> USE <1>5, <2>2 DEF StopSending
        <3>1. TypeOK'
            BY DEF IInv, TypeOK
        <3>2. RunConsistent(p)'
            BY DEF IInv, TypeOK, RunConsistent, Numbers
        <3>3. ASSUME NEW q \in Probes \ {p} PROVE RunConsistent(q)'
            BY OthersKeep DEF IInv, TypeOK
        <3> QED
            BY <3>1, <3>2, <3>3 DEF IInv
    <2> QED
        BY <2>1, <2>2
<1>6. CASE ReadFails(p)
    BY <1>6, ReadFailsKeeps
<1>7. ASSUME NEW pkt \in net, Read(p, pkt) PROVE IInv'
    <2>1. CASE Matches(p, pkt)
        BY <1>7, <2>1, MatchPreserves
    <2>2. CASE ~Matches(p, pkt)
        <3>1. UNCHANGED vars
            BY <1>7, <2>2 DEF Read
        <3> QED
            BY <3>1 DEF vars, runVars, IInv, TypeOK, RunConsistent, Numbers
    <2> QED
        BY <2>1, <2>2
<1>8. CASE Expire(p)
    <2> USE <1>8 DEF Expire
    <2>1. TypeOK'
        BY DEF IInv, TypeOK
    <2>2. ASSUME NEW q \in Probes PROVE RunConsistent(q)'
        BY OthersKeep DEF IInv, TypeOK
    <2> QED
        BY <2>1, <2>2 DEF IInv
<1> QED
    BY <1>1, <1>2, <1>3, <1>4, <1>5, <1>6, <1>7, <1>8 DEF RunStep

\* The invariant holds in every behaviour.
THEOREM Invariance == Spec => []IInv
<1>1. IInv /\ [Next]_vars => IInv'
    <2> SUFFICES ASSUME IInv, [Next]_vars PROVE IInv'
        OBVIOUS
    <2>1. ASSUME NEW p \in Probes, BeginRun(p) \/ RunStep(p) \/ Expire(p) PROVE IInv'
        BY <2>1, RunStepPreserves
    <2>2. ASSUME NEW pkt \in net, Vanish(pkt) PROVE IInv'
        BY <2>2 DEF Vanish, runVars, IInv, TypeOK, RunConsistent, Numbers
    <2>3. CASE Cancel
        BY <2>3 DEF Cancel, runVars, IInv, TypeOK, RunConsistent, Numbers
    <2>4. CASE UNCHANGED vars
        BY <2>4 DEF vars, runVars, IInv, TypeOK, RunConsistent, Numbers
    <2> QED
        BY <2>1, <2>2, <2>3, <2>4 DEF Next
<1> QED
    BY InitEstablishes, <1>1, PTL DEF Spec

\* The variables keep their types.
THEOREM TypeCorrect == Spec => []TypeOK
<1>1. IInv => TypeOK
    BY DEF IInv
<1> QED
    BY Invariance, <1>1, PTL

\* A probe whose identifier no other has counts replies to its own requests
\* only.
THEOREM OnlyOwnReplies == Spec => []OwnReplies
<1>1. ASSUME IInv PROVE OwnReplies
    <2> SUFFICES ASSUME NEW p \in Probes, \A q \in Probes \ {p} : id[q] # id[p],
                        NEW pkt \in counted[p]
                 PROVE  pkt.from = p /\ pkt.type = "reply"
        BY DEF OwnReplies
    <2>1. pkt \in Packet /\ pkt.type = "reply" /\ pkt.id = id[p] /\ pkt.id = id[pkt.from]
        BY <1>1 DEF IInv, RunConsistent
    <2> QED
        BY <2>1, PacketFields
<1> QED
    BY Invariance, <1>1, PTL

\* The number a run reports is that of the requests it has replies to.
THEOREM CountedOnce == Spec => []EachOnce
<1>1. ASSUME IInv PROVE EachOnce
    <2> SUFFICES ASSUME NEW p \in Probes
                 PROVE  /\ replies[p] = Cardinality(Numbers(p))
                        /\ pc[p] # "idle" => \A pkt \in counted[p] : pkt.seq <= sent[p]
        BY DEF EachOnce
    <2>1. RunConsistent(p)
        BY <1>1 DEF IInv
    <2>2. ASSUME pc[p] # "idle", NEW pkt \in counted[p] PROVE pkt.seq <= sent[p]
        BY <1>1, <2>1, <2>2 DEF RunConsistent, Numbers, IInv, TypeOK
    <2> QED
        BY <2>1, <2>2 DEF RunConsistent
<1> QED
    BY Invariance, <1>1, PTL

\* A run is a success exactly if it counted a reply.
THEOREM VerdictIsBacked == Spec => []VerdictBacked
<1>1. IInv => VerdictBacked
    BY DEF IInv, RunConsistent, VerdictBacked
<1> QED
    BY Invariance, <1>1, PTL

-----------------------------------------------------------------------------
(* The check, the target and its legs. *)

LEMMA CheckFacts ==
    ASSUME check \in RemoteChecks
    PROVE  /\ check.kind \in Kinds
           /\ check.timeout \in Nat \ {0}
           /\ check.kind = "tls" => check.minDays \in Nat
    BY RemoteAssumption

LEMMA TargetFacts ==
    ASSUME check \in RemoteChecks, target \in Scripts[check.kind]
    PROVE  /\ LegsOK(check.kind, target)
           /\ check.kind = "dns" => target.answers \in Nat
           /\ check.kind = "tls" => target.notAfter \in Int
    BY RemoteAssumption, CheckFacts

LEMMA LegFacts ==
    ASSUME check \in RemoteChecks, target \in Scripts[check.kind]
    PROVE  /\ Len(target.due) \in Nat /\ Len(target.due) >= 2
           /\ check.kind = "dns" => Len(target.due) = 2
           /\ check.kind = "tls" => Len(target.due) = 3
           /\ \A i \in 1 .. Len(target.due) : target.due[i] \in Nat
           /\ \A i, j \in 1 .. Len(target.due) : i <= j => target.due[i] <= target.due[j]
           /\ target.broken \in Nat
           /\ AnswerLeg \in 1 .. Len(target.due)
<1>1. LegsOK(check.kind, target)
    BY TargetFacts
<1>2. target.due \in Seq(Nat) /\ Len(target.due) \in Nat
    BY <1>1 DEF LegsOK
<1>3. \A i \in 1 .. Len(target.due) : target.due[i] \in Nat
    BY <1>2
<1> QED
    BY <1>1, <1>2, <1>3 DEF LegsOK, AnswerLeg

\* So many days are left, rounded down, exactly if that much time is left.
LEMMA WholeDays ==
    ASSUME NEW x \in Int, NEW m \in Nat, NEW d \in Nat \ {0}
    PROVE  (x \div d) >= m <=> x >= m * d
<1> DEFINE q == x \div d
           r == x % d
<1>1. q \in Int /\ r \in Int /\ x = d * q + r /\ 0 <= r /\ r < d
    OBVIOUS
<1> HIDE DEF q, r
<1>2. ASSUME q >= m PROVE x >= m * d
    <2>1. PICK k \in Nat : q = m + k
        BY <1>1, <1>2
    <2>2. d * q = m * d + d * k /\ d * k >= 0
        BY <2>1
    <2> QED
        BY <1>1, <2>2
<1>3. ASSUME ~ (q >= m) PROVE ~ (x >= m * d)
    <2>1. PICK k \in Nat : m = q + 1 + k
        BY <1>1, <1>3
    <2>2. m * d = d * q + d + d * k /\ d * k >= 0
        BY <1>1, <2>1
    <2> QED
        BY <1>1, <2>2
<1> QED
    BY <1>2, <1>3 DEF q

-----------------------------------------------------------------------------
(* The verdict. *)

\* What the code looks at when it judges an answer decides whether it is good;
\* a handshake is judged when it ends.
LEMMA JudgesWell ==
    ASSUME check \in RemoteChecks, target \in Scripts[check.kind],
           check.kind = "tls" => elapsed = target.due[3]
    PROVE  Judgement(check, target, elapsed) <=> AnswerIsGood
<1>1. CASE check.kind = "https"
    BY <1>1 DEF Judgement, AnswerIsGood, expectedStatuses
<1>2. CASE check.kind = "dns"
    <2>1. target.answers > 0 <=> target.answers # 0
        BY <1>2, TargetFacts
    <2> QED
        BY <1>2, <2>1 DEF Judgement, AnswerIsGood, DnsSuccess
<1>3. CASE check.kind = "tls"
    <2>1. target.due[3] \in Nat /\ target.notAfter \in Int /\ check.minDays \in Nat
        BY <1>3, CheckFacts, TargetFacts, LegFacts
    <2> DEFINE left == target.notAfter - target.due[3]
    <2>2. left \in Int
        BY <2>1
    <2>3. (left \div Day) >= check.minDays <=> left >= check.minDays * Day
        BY <2>1, <2>2, WholeDays, RemoteAssumption
    <2>4. elapsed < target.notAfter <=> left > 0
        BY <1>3, <2>1
    <2>5. Judgement(check, target, elapsed)
              <=> elapsed < target.notAfter /\ (left \div Day) >= check.minDays
        BY <1>3 DEF Judgement, DaysRemaining
    <2>6. AnswerIsGood <=> left > 0 /\ left >= check.minDays * Day
        BY <1>3 DEF AnswerIsGood
    <2> QED
        BY <2>3, <2>4, <2>5, <2>6
<1> QED
    BY <1>1, <1>2, <1>3, CheckFacts DEF Kinds

\* A run that judges does so on an answer that was given in time.
LEMMA JudgesAnAnswer ==
    ASSUME RemoteIInv, leg = Len(target.due), (LegIsOver /\ target.broken # leg) \/ Body
    PROVE  /\ AnswersBy(check.timeout)
           /\ check.kind = "tls" => elapsed = target.due[3]
<1>1. check \in RemoteChecks /\ target \in Scripts[check.kind] /\ leg # 0 /\ LegConsistent
    BY LegFacts DEF RemoteIInv, RemoteTypeOK
<1> USE <1>1
<1>2. elapsed \in Nat /\ elapsed <= check.timeout /\ check.timeout \in Nat /\ MaxRedirects \in Nat
    BY CheckFacts, RemoteAssumption DEF RemoteIInv, RemoteTypeOK, InTime
<1>3. CASE Body
    <2>1. check.kind = "https" /\ AnswerLeg = leg - 1 /\ leg > 1
        BY <1>3, LegFacts DEF Body, AnswerLeg
    <2>2. target.due[AnswerLeg] <= check.timeout
        <3>1. target.due[leg - 1] <= elapsed
            BY <2>1 DEF LegConsistent
        <3>2. target.due[leg - 1] \in Nat
            BY <2>1, LegFacts
        <3> QED
            BY <1>2, <2>1, <3>1, <3>2
    <2>3. AnswerLeg <= MaxRedirects + 1
        BY <1>2, <2>1, LegFacts DEF LegConsistent
    <2>4. target.broken \notin 1 .. AnswerLeg
        BY <2>1 DEF LegConsistent
    <2>5. check.kind # "tls"
        BY <2>1
    <2> QED
        BY <2>2, <2>3, <2>4, <2>5 DEF AnswersBy
<1>4. CASE ~Body
    <2>1. check.kind \in {"dns", "tls"} /\ AnswerLeg = leg
        BY <1>4, CheckFacts DEF Body, AnswerLeg, Kinds
    <2>2. target.due[leg] <= elapsed /\ target.broken # leg
        BY <1>4 DEF LegIsOver
    <2>3. target.due[AnswerLeg] <= check.timeout
        BY <1>2, <2>1, <2>2, LegFacts
    <2>4. target.broken \notin 1 .. AnswerLeg
        BY <2>1, <2>2, LegFacts DEF LegConsistent
    <2>5. check.kind = "tls" => target.due[2] <= target.notAfter /\ elapsed = target.due[3]
        <3> SUFFICES ASSUME check.kind = "tls"
                     PROVE  target.due[2] <= target.notAfter /\ elapsed = target.due[3]
            OBVIOUS
        <3>1. leg = 3 /\ target.due[3] \in Nat
            BY LegFacts
        <3>2. target.due[2] <= target.notAfter
            BY <3>1 DEF LegConsistent
        <3>3. elapsed <= target.due[3]
            BY <3>1 DEF LegConsistent
        <3> QED
            BY <1>2, <2>2, <3>1, <3>2, <3>3
    <2>6. check.kind # "https"
        BY <2>1
    <2> QED
        BY <2>3, <2>4, <2>5, <2>6 DEF AnswersBy
<1> QED
    BY <1>3, <1>4

-----------------------------------------------------------------------------
(* The invariant. *)

LEMMA RemoteInitEstablishes == RemoteInit => RemoteIInv
<1> SUFFICES ASSUME RemoteInit PROVE RemoteIInv
    OBVIOUS
<1> USE DEF RemoteInit
<1>1. RemoteTypeOK
    <2>1. outcome \in [success : BOOLEAN, answered : BOOLEAN] /\ cut \in BOOLEAN
        BY DEF BaseResult
    <2>2. leg \in 0 .. Len(target.due) /\ elapsed \in Nat /\ deadline \in Nat
        BY LegFacts, CheckFacts
    <2> QED
        BY <2>1, <2>2 DEF RemoteTypeOK
<1>2. LegConsistent /\ NothingReported
    BY LegFacts, CheckFacts, RemoteAssumption DEF LegConsistent, NothingReported
<1>3. InTime /\ VerdictTrue
    BY CheckFacts DEF InTime, VerdictTrue
<1> QED
    BY <1>1, <1>2, <1>3 DEF RemoteIInv

\* What a run that is over must show, when the last step leaves the clock alone.
LEMMA OverIsConsistent ==
    ASSUME RemoteIInv, leg' = 0, UNCHANGED <<check, target, elapsed, deadline>>,
           ctxDone' \in BOOLEAN, cut' \in BOOLEAN,
           outcome' \in [success : BOOLEAN, answered : BOOLEAN],
           outcome'.answered => AnswersBy(check.timeout),
           outcome'.success => outcome'.answered /\ AnswerIsGood,
           ~cut' /\ AnswersBy(check.timeout - 1) /\ AnswerIsGood => outcome'.success
    PROVE  RemoteIInv'
<1>1. RemoteTypeOK'
    BY LegFacts DEF RemoteIInv, RemoteTypeOK
<1>2. InTime'
    BY DEF RemoteIInv, InTime
<1>3. VerdictTrue'
    BY DEF VerdictTrue, AnswersBy, AnswerLeg, AnswerIsGood
<1> QED
    BY <1>1, <1>2, <1>3 DEF RemoteIInv

\* Judging keeps the invariant where there is an answer.
LEMMA JudgeKeeps ==
    ASSUME RemoteIInv, leg = Len(target.due), (LegIsOver /\ target.broken # leg) \/ Body, Judge
    PROVE  RemoteIInv'
<1>1. Judgement(check, target, elapsed) <=> AnswerIsGood
    BY JudgesAnAnswer, JudgesWell DEF RemoteIInv, RemoteTypeOK
<1>2. Judgement(check, target, elapsed) \in BOOLEAN
    BY CheckFacts DEF RemoteIInv, RemoteTypeOK, Judgement, DnsSuccess, Kinds
<1>3. /\ leg' = 0 /\ UNCHANGED <<check, target, elapsed, deadline, ctxDone, cut>>
      /\ outcome' = [success |-> Judgement(check, target, elapsed), answered |-> TRUE]
    BY DEF Judge
<1>4. outcome' \in [success : BOOLEAN, answered : BOOLEAN]
    BY <1>2, <1>3
<1>5. ctxDone' \in BOOLEAN /\ cut' \in BOOLEAN
    BY <1>3 DEF RemoteIInv, RemoteTypeOK
<1> QED
    BY <1>1, <1>3, <1>4, <1>5, JudgesAnAnswer, OverIsConsistent

\* Giving up keeps the invariant where the target gives no good answer in time,
\* and where the run is cut.
LEMMA GiveUpKeeps ==
    ASSUME RemoteIInv, leg # 0, GiveUp, cut' \in BOOLEAN,
           cut' = TRUE \/ ~AnswersBy(check.timeout - 1)
    PROVE  RemoteIInv'
<1>1. outcome = BaseResult
    BY DEF RemoteIInv, NothingReported
<1> QED
    BY <1>1, OverIsConsistent DEF GiveUp, BaseResult, RemoteIInv, RemoteTypeOK

\* A leg that is not the body is one the answer needs.
LEMMA NotBeyondTheAnswer ==
    ASSUME RemoteIInv, leg # 0, ~Body
    PROVE  leg \in 1 .. AnswerLeg /\ AnswerLeg \in 1 .. Len(target.due)
    BY LegFacts DEF RemoteIInv, RemoteTypeOK, Body, AnswerLeg

\* The invariant does not depend on whether the context is cancelled.
LEMMA RestIsKept ==
    ASSUME RemoteIInv, ctxDone' \in BOOLEAN,
           UNCHANGED <<check, target, leg, elapsed, deadline, outcome, cut>>
    PROVE  RemoteIInv'
<1>1. RemoteTypeOK'
    BY DEF RemoteIInv, RemoteTypeOK
<1>2. leg' # 0 => LegConsistent' /\ NothingReported'
    BY DEF RemoteIInv, LegConsistent, NothingReported, AnswerLeg
<1>3. InTime' /\ VerdictTrue'
    BY DEF RemoteIInv, InTime, VerdictTrue, AnswersBy, AnswerLeg, AnswerIsGood
<1>4. (deadline = check.timeout)'
    BY DEF RemoteIInv
<1> QED
    BY <1>1, <1>2, <1>3, <1>4 DEF RemoteIInv

LEMMA RemoteStepPreserves == RemoteIInv /\ [RemoteNext]_remoteVars => RemoteIInv'
<1> SUFFICES ASSUME RemoteIInv, [RemoteNext]_remoteVars PROVE RemoteIInv'
    OBVIOUS
<1>0. /\ check \in RemoteChecks /\ target \in Scripts[check.kind]
      /\ leg \in 0 .. Len(target.due) /\ elapsed \in Nat
      /\ deadline = check.timeout /\ check.timeout \in Nat /\ MaxRedirects \in Nat
    BY CheckFacts, RemoteAssumption DEF RemoteIInv, RemoteTypeOK
<1> USE <1>0
<1>1. CASE NextLeg
    <2> USE <1>1 DEF NextLeg
    <2>1. leg # 0 /\ LegConsistent /\ LegIsOver /\ ~Refused
        BY DEF RemoteIInv
    <2>2. RemoteTypeOK' /\ NothingReported'
        BY LegFacts DEF RemoteIInv, RemoteTypeOK, NothingReported
    <2>3. LegConsistent'
        <3>1. target.broken \notin 1 .. leg
            BY <2>1, LegFacts DEF LegConsistent
        <3>2. target.due[leg] <= elapsed /\ target.due[leg] <= target.due[leg + 1]
              /\ elapsed = target.due[leg]
            BY <2>1, LegFacts DEF LegConsistent, LegIsOver
        <3>3. ASSUME check.kind = "https", leg + 1 > MaxRedirects + 1
              PROVE  AnswerLeg <= MaxRedirects + 1
            BY <2>1, <3>3, LegFacts DEF LegConsistent, Refused, AnswerLeg
        <3>4. ASSUME check.kind = "tls", leg + 1 > 2
              PROVE  target.due[2] <= target.notAfter
            <4>1. CASE leg = 2
                BY <2>1, <3>2, <3>4, <4>1, TargetFacts DEF Refused
            <4>2. CASE leg > 2
                BY <2>1, <3>4, <4>2 DEF LegConsistent
            <4> QED
                BY <3>4, <4>1, <4>2
        <3> QED
            BY <2>1, <3>1, <3>2, <3>3, <3>4, LegFacts DEF LegConsistent, AnswerLeg
    <2>4. InTime' /\ VerdictTrue'
        BY DEF RemoteIInv, InTime, VerdictTrue
    <2> QED
        BY <2>2, <2>3, <2>4 DEF RemoteIInv
<1>2. CASE LastLeg
    BY <1>2, JudgeKeeps DEF LastLeg
<1>3. CASE LegFails
    <2>1. leg # 0 /\ LegConsistent /\ ~Body /\ GiveUp /\ cut' = cut
        BY <1>3 DEF LegFails, RemoteIInv
    <2>2. leg \in 1 .. AnswerLeg /\ AnswerLeg \in 1 .. Len(target.due)
        BY <2>1, NotBeyondTheAnswer
    <2>3. ~AnswersBy(check.timeout - 1)
        <3>1. CASE target.broken = leg
            BY <2>2, <3>1 DEF AnswersBy
        <3>2. CASE Refused
            <4>1. CASE check.kind = "https" /\ leg > MaxRedirects /\ leg < Len(target.due) - 1
                BY <4>1, LegFacts DEF AnswersBy, AnswerLeg
            <4>2. CASE check.kind = "tls" /\ leg = 2 /\ elapsed > target.notAfter
                BY <2>1, <4>2, TargetFacts, LegFacts DEF AnswersBy, LegConsistent
            <4> QED
                BY <3>2, <4>1, <4>2 DEF Refused
        <3> QED
            BY <1>3, <3>1, <3>2 DEF LegFails
    <2>4. cut' \in BOOLEAN
        BY <2>1 DEF RemoteIInv, RemoteTypeOK
    <2> QED
        BY <2>1, <2>3, <2>4, GiveUpKeeps
<1>4. CASE TimesOut
    <2>1. leg # 0 /\ LegConsistent /\ elapsed >= deadline
        BY <1>4 DEF TimesOut, RemoteIInv
    <2>2. CASE Body
        BY <1>4, <2>2, JudgeKeeps DEF TimesOut, Body
    <2>3. CASE ~Body
        <3>1. GiveUp /\ cut' = cut
            BY <1>4, <2>3 DEF TimesOut
        <3>2. leg \in 1 .. AnswerLeg /\ AnswerLeg \in 1 .. Len(target.due)
            BY <2>1, <2>3, NotBeyondTheAnswer
        <3>3. elapsed <= target.due[leg] /\ target.due[leg] <= target.due[AnswerLeg]
            BY <2>1, <3>2, LegFacts DEF LegConsistent
        <3>4. ~AnswersBy(check.timeout - 1)
            BY <2>1, <3>2, <3>3, LegFacts DEF AnswersBy
        <3>5. cut' \in BOOLEAN
            BY <3>1 DEF RemoteIInv, RemoteTypeOK
        <3> QED
            BY <2>1, <3>1, <3>4, <3>5, GiveUpKeeps
    <2> QED
        BY <2>2, <2>3
<1>5. CASE Cancelled
    <2>1. CASE Body
        BY <1>5, <2>1, JudgeKeeps DEF Cancelled, Body
    <2>2. CASE ~Body
        BY <1>5, <2>2, GiveUpKeeps DEF Cancelled
    <2> QED
        BY <2>1, <2>2
<1>6. CASE Pass
    <2> USE <1>6 DEF Pass
    <2>1. leg # 0 /\ LegConsistent
        BY DEF RemoteIInv
    <2>2. RemoteTypeOK' /\ NothingReported'
        BY DEF RemoteIInv, RemoteTypeOK, NothingReported
    <2>3. LegConsistent'
        <3>1. elapsed + 1 <= target.due[leg] /\ elapsed + 1 <= deadline
            BY <2>1, LegFacts DEF LegIsOver
        <3>2. leg > 1 => target.due[leg - 1] <= elapsed + 1
            <4>1. leg > 1 => target.due[leg - 1] \in Nat
                BY LegFacts
            <4> QED
                BY <2>1, <4>1 DEF LegConsistent
        <3>3. AnswerLeg' = AnswerLeg
            BY DEF AnswerLeg
        <3> QED
            BY <2>1, <3>1, <3>2, <3>3 DEF LegConsistent
    <2>4. InTime' /\ VerdictTrue'
        BY <2>1 DEF InTime, VerdictTrue
    <2> QED
        BY <2>2, <2>3, <2>4 DEF RemoteIInv
<1>7. CASE CancelContext
    <2>1. ctxDone' \in BOOLEAN
        BY <1>7 DEF CancelContext
    <2> QED
        BY <1>7, <2>1, RestIsKept DEF CancelContext
<1>8. CASE UNCHANGED remoteVars
    <2>1. ctxDone' \in BOOLEAN
        BY <1>8 DEF remoteVars, RemoteIInv, RemoteTypeOK
    <2> QED
        BY <1>8, <2>1, RestIsKept DEF remoteVars
<1> QED
    BY <1>1, <1>2, <1>3, <1>4, <1>5, <1>6, <1>7, <1>8 DEF RemoteNext

-----------------------------------------------------------------------------
\* The inductive invariant of a run: where the run waits says what the target
\* has done by now (Run of the three probes).
THEOREM RemoteInvariance == RemoteSpec => []RemoteIInv
<1>1. RemoteInit => RemoteIInv
    BY RemoteInitEstablishes
<1>2. RemoteIInv /\ [RemoteNext]_remoteVars => RemoteIInv'
    BY RemoteStepPreserves
<1> QED
    BY <1>1, <1>2, PTL DEF RemoteSpec

\* Every run is typed: its check and target are of one kind, and it waits in one
\* of the legs of that target.
THEOREM RemoteTypeCorrect == RemoteSpec => []RemoteTypeOK
<1>1. RemoteIInv => RemoteTypeOK
    BY DEF RemoteIInv
<1> QED
    BY <1>1, RemoteInvariance, PTL

\* A run is over at its timeout, whatever legs it consists of.
THEOREM RunsInTime == RemoteSpec => []InTime
<1>1. RemoteIInv => InTime
    BY DEF RemoteIInv
<1> QED
    BY <1>1, RemoteInvariance, PTL

\* A run says success exactly if the target gave a good answer in time, unless
\* the stop of the application cut it off; the days that are left of a
\* certificate are those at the end of the handshake.
THEOREM VerdictIsTrue == RemoteSpec => []VerdictTrue
<1>1. RemoteIInv => VerdictTrue
    BY DEF RemoteIInv
<1> QED
    BY <1>1, RemoteInvariance, PTL
=============================================================================
