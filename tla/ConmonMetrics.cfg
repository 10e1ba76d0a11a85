\* Three runs of one check, scraped again and again meanwhile.
CONSTANTS
    web = web
    s = s
    Checks <- WebOnly
    Gauged <- WebOnly
    Scrapes <- OneScrape
    MaxRuns = 3
SPECIFICATION Spec
INVARIANTS
    TypeOK
    RecordCoherent
    ScrapeWindow
    ScrapesAdvance
