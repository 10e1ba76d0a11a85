------------------------------ MODULE JobGroup ------------------------------
(***************************************************************************)
(* What scheduler.Start promises to its caller, without goroutines,        *)
(* tickers or a wait group: a group of jobs is launched once, each member  *)
(* begins and ends runs one at a time, members leave only after the        *)
(* context is cancelled and never in the middle of a run, and the group is *)
(* closed once, when the last member has left.                             *)
(***************************************************************************)
CONSTANTS
    Jobs,
    Hung  \* the jobs whose runs need not end

VARIABLES
    launched,   \* Start has been called
    cancelled,  \* the context passed to Start is cancelled
    live,       \* the members that may still begin a run
    inflight,   \* the members whose Run is executing
    closed      \* the channel Start returned is closed

vars == <<launched, cancelled, live, inflight, closed>>

Init ==
    /\ launched = FALSE
    /\ cancelled = FALSE
    /\ live = {}
    /\ inflight = {}
    /\ closed = FALSE

Launch ==
    /\ ~launched
    /\ launched' = TRUE
    /\ live' = Jobs
    /\ closed' = (Jobs = {})
    /\ UNCHANGED <<cancelled, inflight>>

Cancel ==
    /\ ~cancelled
    /\ cancelled' = TRUE
    /\ UNCHANGED <<launched, live, inflight, closed>>

\* A run may begin even after the cancellation: the loop picks at random
\* between a ready tick and the cancelled context, and never looks at the
\* context before the first run.
Begin(j) ==
    /\ j \in live \ inflight
    /\ inflight' = inflight \cup {j}
    /\ UNCHANGED <<launched, cancelled, live, closed>>

End(j) ==
    /\ j \in inflight
    /\ inflight' = inflight \ {j}
    /\ UNCHANGED <<launched, cancelled, live, closed>>

Leave(j) ==
    /\ cancelled
    /\ j \in live \ inflight
    /\ live' = live \ {j}
    /\ UNCHANGED <<launched, cancelled, inflight, closed>>

Close ==
    /\ launched
    /\ live = {}
    /\ ~closed
    /\ closed' = TRUE
    /\ UNCHANGED <<launched, cancelled, live, inflight>>

Next ==
    \/ Launch
    \/ Cancel
    \/ \E j \in Jobs : Begin(j) \/ End(j) \/ Leave(j)
    \/ Close

\* Leave needs strong fairness: a new run may begin each time it is enabled.  A
\* job that hangs in a run keeps no other from leaving, only the group from
\* closing.
Fairness ==
    /\ \A j \in Jobs \ Hung : WF_vars(End(j))
    /\ \A j \in Jobs : SF_vars(Leave(j))
    /\ WF_vars(Close)

SafetySpec == Init /\ [][Next]_vars
Spec == SafetySpec /\ Fairness
=============================================================================
