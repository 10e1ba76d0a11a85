\* One unit, and nothing fails.
CONSTANTS
    web = web
    db = db
    NoSample = NoSample
    NoContent = NoContent
    Services <- OneService
    Hung <- NoneHung
    MaxFaults = 0
    Shared = TRUE
SPECIFICATION Spec
PROPERTY Converges
