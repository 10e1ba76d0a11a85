---------------------------- MODULE MCObservation ----------------------------
\* The instance of what sysmon observes in a cycle the model checker runs: the
\* host (SysmonHost) or a unit (SysmonUnit).
EXTENDS MCSysmonHost, SysmonUnit
VARIABLE observed

SomeStates == {"active", "inactive", "reloading", "maintenance"}

ObservationInit == observed \in {"host", "unit"} /\ Init /\ UnitInit

ObservationNext ==
    \/ observed = "host" /\ Next /\ UNCHANGED <<observed, unitVars>>
    \/ observed = "unit" /\ UnitNext /\ UNCHANGED <<observed, vars>>

ObservationSpec == ObservationInit /\ [][ObservationNext]_<<observed, vars, unitVars>>
=============================================================================
