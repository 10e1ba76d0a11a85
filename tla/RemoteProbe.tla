---------------------------- MODULE RemoteProbe ----------------------------
(***************************************************************************)
(* A run of the HTTP, DNS or TLS probe of conmon: a few waits for the      *)
(* target one after the other (the legs), all under one deadline, and a    *)
(* judgement of what the target answered.  The context of the application  *)
(* may be cancelled at any moment.  Time is counted from the start of the  *)
(* run; the steps of the code take none.  net/http, miekg/dns, crypto/tls  *)
(* and the target are external: what they do is the target's script.       *)
(***************************************************************************)
EXTENDS Integers, Sequences

CONSTANTS
    RemoteChecks, \* the checks, of the kinds "https", "dns" and "tls"
    Scripts,      \* Scripts[kind]: what a target of that kind may do in a run
    MaxRedirects, \* how many redirects the client of net/http follows (nine)
    Day           \* a day, in units of the clock

Kinds == {"https", "dns", "tls"}

\* due[i]: when leg i is over, if it is begun by then; broken: the leg that
\* ends in an error, if any.  A leg that is never answered is due after every
\* timeout.
\*  https: a leg for each request of the chain of redirects, and the body;
\*  dns: the socket (and the name of the server), and the answer;
\*  tls: the connection, the certificate, and the rest of the handshake.
LegsOK(kind, t) ==
    /\ t.due \in Seq(Nat)
    /\ Len(t.due) >= 2 /\ (kind = "dns" => Len(t.due) = 2) /\ (kind = "tls" => Len(t.due) = 3)
    /\ \A i, j \in 1 .. Len(t.due) : i <= j => t.due[i] <= t.due[j]
    /\ t.broken \in Nat

ASSUME RemoteAssumption ==
    /\ \A c \in RemoteChecks :
          /\ c.kind \in Kinds
          /\ c.timeout \in Nat \ {0}
          /\ c.kind = "tls" => c.minDays \in Nat
    /\ \A k \in Kinds : \A t \in Scripts[k] :
          /\ LegsOK(k, t)
          /\ k = "dns" => t.answers \in Nat
          /\ k = "tls" => t.notAfter \in Int
    /\ MaxRedirects \in Nat /\ Day \in Nat \ {0}

VARIABLES
    check,    \* Probe.check
    target,   \* what the target does in this run
    leg,      \* the leg the run waits in; zero when it is over
    elapsed,  \* the time since the start of the run, and then its Duration
    deadline, \* when the run's context, or the client's timer, is done
    ctxDone,  \* the context of the application is cancelled
    outcome,  \* Success, and whether the fields of the answer are set
    cut       \* history: the run was given up because of the cancellation

remoteVars == <<check, target, leg, elapsed, deadline, ctxDone, outcome, cut>>
BaseResult == [success |-> FALSE, answered |-> FALSE]

RemoteTypeOK ==
    /\ check \in RemoteChecks
    /\ target \in Scripts[check.kind]
    /\ leg \in 0 .. Len(target.due)
    /\ elapsed \in Nat /\ deadline \in Nat
    /\ ctxDone \in BOOLEAN /\ cut \in BOOLEAN
    /\ outcome \in [success : BOOLEAN, answered : BOOLEAN]

\* Run begins, with the context cancelled or not: a job does not look at it
\* before its first run.  A run keeps nothing for the next.
RemoteInit ==
    /\ check \in RemoteChecks
    /\ target \in Scripts[check.kind]
    /\ leg = 1
    /\ elapsed = 0
    /\ deadline = check.timeout
    /\ ctxDone \in BOOLEAN
    /\ outcome = BaseResult
    /\ cut = FALSE

-----------------------------------------------------------------------------
(* How an answer is judged. *)

\* No status given is 200.
expectedStatuses(statuses) == IF statuses = {} THEN {200} ELSE statuses

\* An expected code is all that is asked for; without one there must be answers.
DnsSuccess(c, t) ==
    IF c.rcode # "" THEN t.rcode = c.rcode ELSE t.rcode = "NOERROR" /\ t.answers > 0

\* Whole days, rounded down.
DaysRemaining(t, now) == (t.notAfter - now) \div Day

Judgement(c, t, now) ==
    \/ c.kind = "https" /\ t.status \in expectedStatuses(c.statuses)
    \/ c.kind = "dns" /\ DnsSuccess(c, t)
    \/ c.kind = "tls" /\ now < t.notAfter /\ DaysRemaining(t, now) >= c.minDays

-----------------------------------------------------------------------------
(* The run. *)

Body == check.kind = "https" /\ leg = Len(target.due)
LegIsOver == target.due[leg] <= elapsed

\* The run is over with the base result.
GiveUp ==
    /\ leg' = 0
    /\ UNCHANGED <<check, target, elapsed, deadline, ctxDone, outcome>>

\* The run is over with what the target answered, judged now.
Judge ==
    /\ leg' = 0
    /\ outcome' = [success |-> Judgement(check, target, elapsed), answered |-> TRUE]
    /\ UNCHANGED <<check, target, elapsed, deadline, ctxDone, cut>>

\* The client stops at a redirect after the last it follows, and the handshake
\* at a certificate that has expired.
Refused ==
    \/ check.kind = "https" /\ leg > MaxRedirects /\ leg < Len(target.due) - 1
    \/ check.kind = "tls" /\ leg = 2 /\ elapsed > target.notAfter

\* Variant of NextLeg: a deadline for each leg.
NextLegAfresh ==
    /\ leg \in 1 .. Len(target.due) - 1
    /\ LegIsOver
    /\ target.broken # leg
    /\ ~Refused
    /\ leg' = leg + 1
    /\ deadline' = elapsed + check.timeout
    /\ UNCHANGED <<check, target, elapsed, ctxDone, outcome, cut>>

NextLeg ==
    /\ leg \in 1 .. Len(target.due) - 1
    /\ LegIsOver
    /\ target.broken # leg
    /\ ~Refused
    /\ leg' = leg + 1
    /\ UNCHANGED <<check, target, elapsed, deadline, ctxDone, outcome, cut>>

LastLeg ==
    /\ leg = Len(target.due)
    /\ LegIsOver
    /\ target.broken # leg \/ Body
    /\ Judge

\* The leg ends in an error, which that of the body is not.
LegFails ==
    /\ leg # 0
    /\ LegIsOver
    /\ target.broken = leg \/ Refused
    /\ ~Body
    /\ GiveUp
    /\ UNCHANGED cut

\* Variant of TimesOut: a body that is not read to its end is no answer.
TimesOutBody ==
    /\ leg # 0
    /\ elapsed >= deadline
    /\ GiveUp
    /\ UNCHANGED cut

\* The deadline passes.  The body is not read on, and does not matter.
TimesOut ==
    /\ leg # 0
    /\ elapsed >= deadline
    /\ IF Body THEN Judge ELSE GiveUp /\ UNCHANGED cut

\* The cancellation ends every wait but the read of a DNS answer, which knows
\* the deadline of the context only.
SeesCancel == ctxDone /\ ~(check.kind = "dns" /\ leg = 2)

Cancelled ==
    /\ leg # 0
    /\ SeesCancel
    /\ IF Body THEN Judge ELSE GiveUp /\ cut' = TRUE

-----------------------------------------------------------------------------
(* The environment. *)

\* Time does not pass a moment at which the run has something to do.
Pass ==
    /\ leg # 0
    /\ ~LegIsOver /\ elapsed < deadline /\ ~SeesCancel
    /\ elapsed' = elapsed + 1
    /\ UNCHANGED <<check, target, leg, deadline, ctxDone, outcome, cut>>

CancelContext ==
    /\ ~ctxDone
    /\ ctxDone' = TRUE
    /\ UNCHANGED <<check, target, leg, elapsed, deadline, outcome, cut>>

-----------------------------------------------------------------------------
RemoteNext ==
    \/ NextLeg \/ LastLeg \/ LegFails \/ TimesOut \/ Cancelled
    \/ Pass \/ CancelContext

RemoteSpec == RemoteInit /\ [][RemoteNext]_remoteVars

-----------------------------------------------------------------------------
\* However many waits a run has, however they are spread, and whether or not
\* the cancellation reaches the one it is in, the run takes no more than its
\* timeout: what a stop of the application waits for is bounded by it.
InTime == elapsed <= check.timeout

\* The leg with which the answer of the target is complete.
AnswerLeg == IF check.kind = "https" THEN Len(target.due) - 1 ELSE Len(target.due)

\* The target has given an answer by this time.
AnswersBy(time) ==
    /\ target.due[AnswerLeg] <= time
    /\ target.broken \notin 1 .. AnswerLeg
    /\ check.kind = "https" => AnswerLeg <= MaxRedirects + 1
    /\ check.kind = "tls" => target.due[2] <= target.notAfter

\* The answer is one the check asks for; a certificate is good for so many whole
\* days from the end of the handshake.
AnswerIsGood ==
    \/ check.kind = "https" /\ \/ check.statuses = {} /\ target.status = 200
                               \/ target.status \in check.statuses
    \/ check.kind = "dns" /\ \/ check.rcode # "" /\ target.rcode = check.rcode
                             \/ check.rcode = "" /\ target.rcode = "NOERROR" /\ target.answers # 0
    \/ check.kind = "tls" /\ LET left == target.notAfter - target.due[3]
                             IN  left > 0 /\ left >= check.minDays * Day

\* A run says success exactly if the target gave a good answer in time, at any
\* spread of the waits and whatever becomes of the body, and reports nothing else
\* of the target otherwise.  A run that fails although the target answers well
\* was cut by the stop of the application (or the answer came with the deadline).
VerdictTrue ==
    leg = 0 =>
        /\ outcome.answered => AnswersBy(check.timeout)
        /\ outcome.success => outcome.answered /\ AnswerIsGood
        /\ ~cut /\ AnswersBy(check.timeout - 1) /\ AnswerIsGood => outcome.success

\* Where the run is says what the target has done by now.
LegConsistent ==
    /\ target.broken \notin 1 .. (leg - 1)
    /\ leg > 1 => target.due[leg - 1] <= elapsed
    /\ elapsed <= target.due[leg] /\ elapsed <= deadline
    /\ check.kind = "https" /\ leg > MaxRedirects + 1 => AnswerLeg <= MaxRedirects + 1
    /\ check.kind = "tls" /\ leg > 2 => target.due[2] <= target.notAfter

NothingReported == outcome = BaseResult /\ cut = FALSE

\* The inductive invariant.
RemoteIInv ==
    /\ RemoteTypeOK
    /\ deadline = check.timeout
    /\ leg # 0 => LegConsistent /\ NothingReported
    /\ InTime
    /\ VerdictTrue
=============================================================================
