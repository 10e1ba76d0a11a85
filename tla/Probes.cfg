\* A probe of two requests to a gateway and one of one request to this host; or
\* one check of another kind, with every target of the instance in each run.
CONSTANTS
    gateway = gateway
    self = self
    Probes <- TwoProbes
    Ids = {1, 2}
    Count <- Counts
    Local <- SelfIsLocal
    RemoteChecks <- TestChecks
    Scripts <- TestScripts
    MaxRedirects = 1
    Day = 2
SPECIFICATION ProbesSpec
INVARIANTS
    TypeOK
    OwnReplies
    EachOnce
    VerdictBacked
    InTime
    VerdictTrue
PROPERTY RunsEnd
CHECK_DEADLOCK FALSE
