--------------------------- MODULE MCConmonApp -----------------------------
\* The instance of ConmonApp the model checker runs.
EXTENDS ConmonApp
CONSTANTS a, b, s, t
TwoJobs == {a, b}
NoneHung == {}
TwoScrapes == {s, t}
OneSlow == {t}
=============================================================================
