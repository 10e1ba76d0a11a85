----------------------------- MODULE Scheduler ------------------------------
(***************************************************************************)
(* internal/scheduler: one goroutine per job, each with a ticker of its    *)
(* own, a wait group they all leave, and a waiter that closes the channel  *)
(* Start returned.  An action is one step of one goroutine, of the clock   *)
(* or of the owner of the context.                                         *)
(***************************************************************************)
EXTENDS Naturals, FiniteSets

CONSTANTS
    Jobs,   \* the jobs handed to Start
    Hung    \* the jobs whose Run need not return (no fairness is given them)

ASSUME JobsAssumption == IsFiniteSet(Jobs) /\ Hung \subseteq Jobs

VARIABLES
    ctxDone,  \* the context passed to Start is cancelled
    started,  \* Start has been called
    pc,       \* where the goroutine of each job is
    ticker,   \* each job's ticker: "none" yet, "empty", one tick "full", "stopped"
    wg,       \* the counter of the wait group
    done,     \* the channel Start returned is closed
    due       \* history: the job has not run since its latest tick (or Start)

jobVars == <<pc, ticker, due>>
schedVars == <<started, pc, ticker, wg, done, due>>
vars == <<ctxDone, started, pc, ticker, wg, done, due>>

PC == {"unborn", "spawned", "running", "selecting", "stopping", "exited"}
TickerState == {"none", "empty", "full", "stopped"}

TypeOK ==
    /\ ctxDone \in BOOLEAN
    /\ started \in BOOLEAN
    /\ pc \in [Jobs -> PC]
    /\ ticker \in [Jobs -> TickerState]
    /\ wg \in Nat
    /\ done \in BOOLEAN
    /\ due \in [Jobs -> BOOLEAN]

SchedInit ==
    /\ started = FALSE
    /\ pc = [j \in Jobs |-> "unborn"]
    /\ ticker = [j \in Jobs |-> "none"]
    /\ wg = 0
    /\ done = FALSE
    /\ due = [j \in Jobs |-> TRUE]

Init == ctxDone = FALSE /\ SchedInit

\* Variant of Start: the counter is not raised before the goroutines exist.
StartWithoutAdd ==
    /\ ~started
    /\ started' = TRUE
    /\ pc' = [j \in Jobs |-> "spawned"]
    /\ done' = (Jobs = {})
    /\ UNCHANGED <<ctxDone, ticker, wg, due>>

\* Start: with no job the channel is closed at once; otherwise the counter is
\* raised before any goroutine exists.
Start ==
    /\ ~started
    /\ started' = TRUE
    /\ pc' = [j \in Jobs |-> "spawned"]
    /\ wg' = Cardinality(Jobs)
    /\ done' = (Jobs = {})
    /\ UNCHANGED <<ctxDone, ticker, due>>

\* The first Run: no ticker exists and the context is not looked at.
FirstRun(j) ==
    /\ pc[j] = "spawned"
    /\ pc' = [pc EXCEPT ![j] = "running"]
    /\ due' = [due EXCEPT ![j] = FALSE]
    /\ UNCHANGED <<ctxDone, started, ticker, wg, done>>

\* Run returns to the select; after the first one the ticker is created.
FinishRun(j) ==
    /\ pc[j] = "running"
    /\ pc' = [pc EXCEPT ![j] = "selecting"]
    /\ ticker' = [ticker EXCEPT ![j] = IF @ = "none" THEN "empty" ELSE @]
    /\ UNCHANGED <<ctxDone, started, wg, done, due>>

\* The clock: a ticker holds one tick and drops those its reader is too slow for.
Tick(j) ==
    /\ ticker[j] \in {"empty", "full"}
    /\ ticker' = [ticker EXCEPT ![j] = "full"]
    /\ due' = [due EXCEPT ![j] = TRUE]
    /\ UNCHANGED <<ctxDone, started, pc, wg, done>>

\* Variant of TakeTick: the tick stays in the channel.
TakeTickKept(j) ==
    /\ pc[j] = "selecting"
    /\ ticker[j] = "full"
    /\ pc' = [pc EXCEPT ![j] = "running"]
    /\ due' = [due EXCEPT ![j] = FALSE]
    /\ UNCHANGED <<ctxDone, started, ticker, wg, done>>

\* Variant of TakeTick: one worker for all jobs.
TakeTickSerial(j) ==
    /\ \A k \in Jobs : pc[k] # "running"
    /\ pc[j] = "selecting"
    /\ ticker[j] = "full"
    /\ pc' = [pc EXCEPT ![j] = "running"]
    /\ ticker' = [ticker EXCEPT ![j] = "empty"]
    /\ due' = [due EXCEPT ![j] = FALSE]
    /\ UNCHANGED <<ctxDone, started, wg, done>>

\* The select receives the tick, whether or not the context is cancelled too.
TakeTick(j) ==
    /\ pc[j] = "selecting"
    /\ ticker[j] = "full"
    /\ pc' = [pc EXCEPT ![j] = "running"]
    /\ ticker' = [ticker EXCEPT ![j] = "empty"]
    /\ due' = [due EXCEPT ![j] = FALSE]
    /\ UNCHANGED <<ctxDone, started, wg, done>>

\* Variant of StopOnCancel: the loop ends without a cancellation.
StopUncancelled(j) ==
    /\ pc[j] = "selecting"
    /\ pc' = [pc EXCEPT ![j] = "stopping"]
    /\ ticker' = [ticker EXCEPT ![j] = "stopped"]
    /\ UNCHANGED <<ctxDone, started, wg, done, due>>

\* Variant of StopOnCancel: a job leaves only with the others between runs.
StopTogether(j) ==
    /\ pc[j] = "selecting"
    /\ ctxDone
    /\ \A k \in Jobs : pc[k] # "running"
    /\ pc' = [pc EXCEPT ![j] = "stopping"]
    /\ ticker' = [ticker EXCEPT ![j] = "stopped"]
    /\ UNCHANGED <<ctxDone, started, wg, done, due>>

\* The select takes the cancelled context: runJob returns, which stops the ticker.
StopOnCancel(j) ==
    /\ pc[j] = "selecting"
    /\ ctxDone
    /\ pc' = [pc EXCEPT ![j] = "stopping"]
    /\ ticker' = [ticker EXCEPT ![j] = "stopped"]
    /\ UNCHANGED <<ctxDone, started, wg, done, due>>

\* Variant of WgDone: the goroutine calls Done once more than it was added.
WgDoneAgain(j) ==
    /\ pc[j] \in {"stopping", "exited"}
    /\ pc' = [pc EXCEPT ![j] = "exited"]
    /\ wg' = wg - 1
    /\ UNCHANGED <<ctxDone, started, ticker, done, due>>

\* Variant of WgDone: the goroutine ends without its Done.
ExitWithoutDone(j) ==
    /\ pc[j] = "stopping"
    /\ pc' = [pc EXCEPT ![j] = "exited"]
    /\ UNCHANGED <<ctxDone, started, ticker, wg, done, due>>

\* The deferred wg.Done of the goroutine, after runJob has returned.
WgDone(j) ==
    /\ pc[j] = "stopping"
    /\ pc' = [pc EXCEPT ![j] = "exited"]
    /\ wg' = wg - 1
    /\ UNCHANGED <<ctxDone, started, ticker, done, due>>

\* The waiter: wg.Wait returns, then close(done).  It exists only when Start
\* had a job to spawn, and so only while the channel is open.
CloseDone ==
    /\ started
    /\ ~done
    /\ wg = 0
    /\ done' = TRUE
    /\ UNCHANGED <<ctxDone, started, wg, jobVars>>

Cancel ==
    /\ ~ctxDone
    /\ ctxDone' = TRUE
    /\ UNCHANGED schedVars

JobStep(j) ==
    \/ FirstRun(j)
    \/ FinishRun(j)
    \/ Tick(j)
    \/ TakeTick(j)
    \/ StopOnCancel(j)
    \/ WgDone(j)

\* Every job has exited and nothing is left to do.
Finished ==
    /\ ctxDone
    /\ done
    /\ UNCHANGED vars

Next ==
    \/ Start
    \/ Cancel
    \/ CloseDone
    \/ \E j \in Jobs : JobStep(j)
    \/ Finished

\* The Go runtime runs every goroutine that can run, the clock ticks, and a
\* select that keeps finding the context cancelled takes that branch in the
\* end (it picks at random among the ready ones), hence SF.
SchedFairness ==
    /\ WF_vars(Start)
    /\ WF_vars(CloseDone)
    /\ \A j \in Jobs :
        /\ WF_vars(FirstRun(j))
        /\ WF_vars(Tick(j))
        /\ WF_vars(TakeTick(j))
        /\ SF_vars(StopOnCancel(j))
        /\ WF_vars(WgDone(j))
    /\ \A j \in Jobs \ Hung : WF_vars(FinishRun(j))

SafetySpec == Init /\ [][Next]_vars
Spec == SafetySpec /\ SchedFairness

-----------------------------------------------------------------------------
\* The goroutines that have not yet left the wait group.
Members == {j \in Jobs : pc[j] \notin {"unborn", "exited"}}

\* The counter of the wait group is the number of goroutines that still owe it
\* a Done: it cannot reach zero early (done closed under a running probe), go
\* negative (a panic) or stay above zero (Run never returns).
WgCountsMembers == wg = Cardinality(Members)

\* Where a goroutine is tells what its ticker may be, and what it owes the clock.
JobConsistent(j) ==
    /\ pc[j] \in {"unborn", "spawned"} => ticker[j] = "none" /\ due[j]
    /\ pc[j] = "running" => ticker[j] # "stopped"
    /\ pc[j] = "selecting" => ticker[j] \in {"empty", "full"}
    /\ pc[j] \in {"stopping", "exited"} <=> ticker[j] = "stopped"
    /\ ticker[j] = "full" => due[j]
    /\ pc[j] = "unborn" <=> ~started
    /\ pc[j] \in {"stopping", "exited"} => ctxDone

\* The inductive invariant: the counter is exact, and that is why a closed
\* channel finds every goroutine gone.
IInv ==
    /\ TypeOK
    /\ WgCountsMembers
    /\ \A j \in Jobs : JobConsistent(j)
    /\ done => started /\ \A j \in Jobs : pc[j] = "exited"

\* When the channel Start returned is closed, every goroutine is past its loop:
\* no Run is in flight and no ticker is left running.  A stopped ticker was
\* created, after the first run: each job has run once, cancelled or not.
DoneIsQuiescent ==
    done => \A j \in Jobs : pc[j] = "exited" /\ ticker[j] = "stopped"

\* Once the channel is closed nothing of the scheduler moves again.
DoneIsFinal == [][done => UNCHANGED schedVars]_vars

\* A run starts only for a tick of its own (the first one for Start): a run
\* longer than the interval makes later ticks lost, never a burst of runs.
Paced == [][\A j \in Jobs : pc[j] # "running" /\ pc'[j] = "running" => due[j]]_vars

\* A job whose Run returns leaves after a cancellation even if another hangs.
CancelStopsEach == \A j \in Jobs \ Hung : ctxDone ~> pc[j] = "exited"

\* A job whose Run returns is run again and again until the cancellation, even
\* if the Run of another job never returns.
Isolation == \A j \in Jobs \ Hung : []<>(pc[j] = "running" \/ ctxDone)

\* The scheduler implements the group of jobs its caller sees.
Group == INSTANCE JobGroup WITH
    launched <- started,
    cancelled <- ctxDone,
    live <- {j \in Jobs : pc[j] \in {"spawned", "running", "selecting"}},
    inflight <- {j \in Jobs : pc[j] = "running"},
    closed <- done

ImplementsGroup == Group!Spec
=============================================================================
