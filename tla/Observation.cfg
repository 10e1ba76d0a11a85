\* Two cores without guests; or a unit with two other known states and one that
\* sysmon does not know.
CONSTANTS
    cpu0 = cpu0
    cpu1 = cpu1
    Cores <- TwoCores
    Kinds <- NoGuests
    MaxTime = 2
    PerCore = TRUE
    Memory <- MoreAvailable
    States <- SomeStates
    LastInstant = 3
    Word = 8
    NoSeries = NoSeries
SYMMETRY Symmetry
SPECIFICATION ObservationSpec
INVARIANTS
    TypeOK
    UsageTruthful
    CoresAreCurrent
    UnitTypeOK
    UptimeTrue
    UsageWhole
    StateSetAgrees
