\* Two units, two faults anywhere, and the client library of go.mod.
CONSTANTS
    web = web
    db = db
    NoSample = NoSample
    NoContent = NoContent
    Services <- BothServices
    Hung <- NoneHung
    MaxFaults = 2
    Shared = TRUE
SPECIFICATION Spec
INVARIANTS
    TypeOK
    ExportedIsLatest
PROPERTIES
    NeverVanishes
    ImplementsMirror
    Replaces
    Stops
