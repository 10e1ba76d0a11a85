---------------------------- MODULE MCScheduler -----------------------------
\* The instance of Scheduler the model checker runs: the .cfg file names the
\* jobs and says which of them may hang.
EXTENDS Scheduler
CONSTANTS a, b, c
ThreeJobs == {a, b, c}
OneHung == {c}
=============================================================================
