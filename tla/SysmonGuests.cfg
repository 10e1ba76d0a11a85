\* One core that also runs guests.
CONSTANTS
    cpu0 = cpu0
    cpu1 = cpu1
    Cores <- OneCore
    Kinds <- WithGuests
    MaxTime = 3
    PerCore = TRUE
    Memory <- MemoryInUse
SPECIFICATION Spec
INVARIANT HostRatioIsUsage
