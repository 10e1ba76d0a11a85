-------------------------- MODULE MCConmonMetrics ---------------------------
\* The instance of ConmonMetrics the model checker runs: one https check (no
\* two checks share a series) and one scrape after another.
EXTENDS ConmonMetrics
CONSTANTS web, s
WebOnly == {web}
OneScrape == {s}
=============================================================================
