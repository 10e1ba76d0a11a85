\* Three jobs, one of which may never return from a run: safety, the refinement
\* with its fairness, and what the hung job does not do to the others.
CONSTANTS
    a = a
    b = b
    c = c
    Jobs <- ThreeJobs
    Hung <- OneHung
SPECIFICATION Spec
INVARIANTS
    TypeOK
    WgCountsMembers
    DoneIsQuiescent
PROPERTIES
    Paced
    Isolation
    CancelStopsEach
    ImplementsGroup
