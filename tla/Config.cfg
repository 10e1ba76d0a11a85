\* Every configuration of the instance: of conmon, through Load, app.New and
\* Record; of sysmon, through Load and app.New.
CONSTANTS
    Files <- ConmonFiles
    SysmonFiles <- SomeSysmonFiles
    Lookups <- SomeLookups
    Reserved <- ReservedKeys
    Malformed <- MalformedKeys
SPECIFICATION ConfigSpec
INVARIANTS
    SeriesDistinct
    LabelsAsConfigured
    Runnable
    SysmonReady
CHECK_DEADLOCK FALSE
