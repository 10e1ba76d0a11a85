\* Two probes, two scrapes of which one may never end.
CONSTANTS
    a = a
    b = b
    s = s
    t = t
    Jobs <- TwoJobs
    Hung <- NoneHung
    Scrapes <- TwoScrapes
    Slow <- OneSlow
SPECIFICATION AppSpec
INVARIANTS
    AppTypeOK
    ReturnIsQuiescent
    ResultTruthful
PROPERTY Returns
