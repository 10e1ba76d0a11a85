\* One of two units never answers systemctl; nothing else fails.
CONSTANTS
    web = web
    db = db
    NoSample = NoSample
    NoContent = NoContent
    Services <- BothServices
    Hung <- OneHung
    MaxFaults = 0
    Shared = TRUE
SPECIFICATION Spec
PROPERTY HostAppears
