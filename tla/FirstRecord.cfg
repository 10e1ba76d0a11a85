\* The series the code calls the latest result.
CONSTANTS
    web = web
    s = s
    Checks <- WebOnly
    Gauged <- WebOnly
    Scrapes <- OneScrape
    MaxRuns = 3
SPECIFICATION Spec
INVARIANT ResultsAreOfProbes
