\* The gauges the code calls "latest observed".
CONSTANTS
    web = web
    s = s
    Checks <- WebOnly
    Gauged <- WebOnly
    Scrapes <- OneScrape
    MaxRuns = 3
SPECIFICATION Spec
INVARIANT LatestObserved
