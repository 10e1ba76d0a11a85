----------------------------- MODULE HostMirror -----------------------------
(***************************************************************************)
(* What sysmon promises of a host's group in the Pushgateway: it is, as a  *)
(* whole, what one process knew of the units at one moment.  The process   *)
(* learns of one unit at a time and publishes all it knows at once;        *)
(* something published may be delivered late, once.  Nothing is made up    *)
(* and nothing of two processes is mixed.                                  *)
(***************************************************************************)
CONSTANTS
    Services, \* the units
    Known,    \* what can be known of a unit
    Nothing,  \* nothing is known of a unit
    Empty     \* nothing is published for the host

VARIABLES
    boot,    \* which process runs, up to parity
    known,   \* what this process knows of each unit
    shown,   \* what is published for the host
    delayed  \* what may still be delivered

vars == <<boot, known, shown, delayed>>

Ignorance == [s \in Services |-> Nothing]
Picture == [inc |-> boot, svc |-> known]

Init ==
    /\ boot = FALSE
    /\ known = Ignorance
    /\ shown = Empty
    /\ delayed = Empty

\* The process goes on, or ends, and the next one knows nothing.
GoesOn == UNCHANGED <<boot, known>>
Ends ==
    /\ boot' = ~boot
    /\ known' = Ignorance

Restart == Ends /\ UNCHANGED <<shown, delayed>>

\* The process learns something of one unit, and forgets nothing of the others.
Learn(s) ==
    /\ \E k \in Known : known' = [known EXCEPT ![s] = k]
    /\ UNCHANGED <<boot, shown, delayed>>

\* What the process knows is published, or set out to be; it may be the last
\* thing the process does.
Publish == shown' = Picture /\ (GoesOn \/ Ends) /\ UNCHANGED delayed
Postpone == delayed' = Picture /\ (GoesOn \/ Ends) /\ UNCHANGED shown

\* What was set out arrives, over what was published since.
Deliver ==
    /\ delayed # Empty
    /\ shown' = delayed
    /\ delayed' = Empty
    /\ GoesOn

Next == Restart \/ Publish \/ Postpone \/ Deliver \/ \E s \in Services : Learn(s)

Spec == Init /\ [][Next]_vars
=============================================================================
