----------------------------- MODULE ConmonApp ------------------------------
(***************************************************************************)
(* internal/app App.Run: the main goroutine that starts the scheduler and  *)
(* the metrics server, waits for a signal or a server error, and stops     *)
(* both; the goroutine of the server; and the scrapes the server answers.  *)
(* It EXTENDS Scheduler, whose context (ctxDone) is the runCtx of Run.     *)
(* net/http is external: what ListenAndServe and Shutdown do is modelled   *)
(* as far as Run depends on it.                                            *)
(***************************************************************************)
EXTENDS Scheduler

CONSTANTS
    Scrapes,  \* the requests to /metrics that may be in flight at once
    Slow      \* those whose client may never finish reading

ASSUME ScrapesAssumption == Slow \subseteq Scrapes

VARIABLES
    sigDone,     \* the context of signal.NotifyContext is cancelled
    mainPc,      \* where App.Run is
    got,         \* the error received in the first case of the select
    shutdownErr, \* Shutdown returned its deadline's error
    result,      \* what Run returned
    serverPc,    \* where the goroutine of the server is
    outcome,     \* what ListenAndServe returned: an error, or ErrServerClosed ("nil")
    serverErr,   \* the channel of capacity one between the two
    inShutdown,  \* Shutdown has been called on the server
    active       \* the scrapes in flight

mainVars == <<mainPc, got, shutdownErr, result>>
serverVars == <<serverPc, outcome>>
appOnly == <<sigDone, mainPc, got, shutdownErr, result, serverPc, outcome,
             serverErr, inShutdown, active>>
appVars == <<vars, appOnly>>

MainPC == {"start", "select", "gotErr", "awaitJobsErr", "gotCtx", "shutdown",
           "polling", "awaitJobs", "awaitServer", "returned"}
ServerPC == {"none", "listen", "bound", "serving", "sending", "exited"}

AppTypeOK ==
    /\ sigDone \in BOOLEAN
    /\ mainPc \in MainPC
    /\ got \in {"none", "nil", "err"}
    /\ shutdownErr \in BOOLEAN
    /\ result \in {"none", "nil", "err", "shutdown"}
    /\ serverPc \in ServerPC
    /\ outcome \in {"none", "nil", "err"}
    /\ serverErr \in {"empty", "nil", "err"}
    /\ inShutdown \in BOOLEAN
    /\ active \subseteq Scrapes

AppInit ==
    /\ Init
    /\ sigDone = FALSE
    /\ mainPc = "start"
    /\ got = "none"
    /\ shutdownErr = FALSE
    /\ result = "none"
    /\ serverPc = "none"
    /\ outcome = "none"
    /\ serverErr = "empty"
    /\ inShutdown = FALSE
    /\ active = {}

-----------------------------------------------------------------------------
(* The main goroutine. *)

\* Lines 86-99: the jobs are spawned, then the goroutine of the server.
Launch ==
    /\ mainPc = "start"
    /\ Start
    /\ mainPc' = "select"
    /\ serverPc' = "listen"
    /\ UNCHANGED <<sigDone, got, shutdownErr, result, outcome, serverErr, inShutdown, active>>

\* The two cases of the select; either may be taken when both are ready.
SelectServerErr ==
    /\ mainPc = "select"
    /\ serverErr # "empty"
    /\ got' = serverErr
    /\ serverErr' = "empty"
    /\ mainPc' = "gotErr"
    /\ UNCHANGED <<vars, sigDone, shutdownErr, result, serverVars, inShutdown, active>>

SelectCtx ==
    /\ mainPc = "select"
    /\ sigDone
    /\ mainPc' = "gotCtx"
    /\ UNCHANGED <<vars, sigDone, got, shutdownErr, result, serverVars, serverErr,
                   inShutdown, active>>

\* Variant of CancelRun: no cancel() on the way out with a server error.
CancelRunOnSignal ==
    /\ mainPc \in {"gotErr", "gotCtx"}
    /\ ctxDone' = (ctxDone \/ mainPc = "gotCtx")
    /\ mainPc' = IF mainPc = "gotErr" THEN "awaitJobsErr" ELSE "shutdown"
    /\ UNCHANGED <<schedVars, sigDone, got, shutdownErr, result, serverVars, serverErr,
                   inShutdown, active>>

\* cancel(), at line 103 or 109: idempotent.
CancelRun ==
    /\ mainPc \in {"gotErr", "gotCtx"}
    /\ ctxDone' = TRUE
    /\ mainPc' = IF mainPc = "gotErr" THEN "awaitJobsErr" ELSE "shutdown"
    /\ UNCHANGED <<schedVars, sigDone, got, shutdownErr, result, serverVars, serverErr,
                   inShutdown, active>>

\* Variant of ReturnServerErr: the jobs are not waited for.
ReturnServerErrAtOnce ==
    /\ mainPc = "awaitJobsErr"
    /\ result' = got
    /\ mainPc' = "returned"
    /\ UNCHANGED <<vars, sigDone, got, shutdownErr, serverVars, serverErr, inShutdown, active>>

\* Lines 104-105.
ReturnServerErr ==
    /\ mainPc = "awaitJobsErr"
    /\ done
    /\ result' = got
    /\ mainPc' = "returned"
    /\ UNCHANGED <<vars, sigDone, got, shutdownErr, serverVars, serverErr, inShutdown, active>>

\* Shutdown closes the listener and looks at the connections once ...
BeginShutdown ==
    /\ mainPc = "shutdown"
    /\ inShutdown' = TRUE
    /\ mainPc' = IF active = {} THEN "awaitJobs" ELSE "polling"
    /\ UNCHANGED <<vars, sigDone, got, shutdownErr, result, serverVars, serverErr, active>>

\* ... and then again and again, until none is busy ...
ShutdownIdle ==
    /\ mainPc = "polling"
    /\ active = {}
    /\ mainPc' = "awaitJobs"
    /\ UNCHANGED <<vars, sigDone, got, shutdownErr, result, serverVars, serverErr,
                   inShutdown, active>>

\* ... or its five seconds are over (it may notice that first, too).
ShutdownTimeout ==
    /\ mainPc = "polling"
    /\ shutdownErr' = TRUE
    /\ mainPc' = "awaitJobs"
    /\ UNCHANGED <<vars, sigDone, got, result, serverVars, serverErr, inShutdown, active>>

\* Line 114: no timeout on the jobs.
JobsDone ==
    /\ mainPc = "awaitJobs"
    /\ done
    /\ mainPc' = "awaitServer"
    /\ UNCHANGED <<vars, sigDone, got, shutdownErr, result, serverVars, serverErr,
                   inShutdown, active>>

\* Variant of Return: the error of the server is not looked at.
ReturnNil ==
    /\ mainPc = "awaitServer"
    /\ serverErr # "empty"
    /\ serverErr' = "empty"
    /\ result' = IF shutdownErr THEN "shutdown" ELSE "nil"
    /\ mainPc' = "returned"
    /\ UNCHANGED <<vars, sigDone, got, shutdownErr, serverVars, inShutdown, active>>

\* Variant of Return: the channel is not waited for.
ReturnUnreceived ==
    /\ mainPc = "awaitServer"
    /\ serverErr' = "empty"
    /\ result' = IF shutdownErr THEN "shutdown" ELSE serverErr
    /\ mainPc' = "returned"
    /\ UNCHANGED <<vars, sigDone, got, shutdownErr, serverVars, inShutdown, active>>

\* Lines 115-120: the error of Shutdown goes before that of the server.
Return ==
    /\ mainPc = "awaitServer"
    /\ serverErr # "empty"
    /\ serverErr' = "empty"
    /\ result' = IF shutdownErr THEN "shutdown" ELSE serverErr
    /\ mainPc' = "returned"
    /\ UNCHANGED <<vars, sigDone, got, shutdownErr, serverVars, inShutdown, active>>

-----------------------------------------------------------------------------
(* The goroutine of the server, lines 92-99, around net/http. *)

\* ListenAndServe refuses at once after a Shutdown; otherwise it binds, or fails.
Bind ==
    /\ serverPc = "listen"
    /\ \/ /\ ~inShutdown
          /\ serverPc' = "bound"
          /\ UNCHANGED outcome
       \/ /\ ~inShutdown
          /\ serverPc' = "sending"
          /\ outcome' = "err"
       \/ /\ inShutdown
          /\ serverPc' = "sending"
          /\ outcome' = "nil"
    /\ UNCHANGED <<vars, sigDone, mainVars, serverErr, inShutdown, active>>

\* The listener is registered, unless a Shutdown came in between.
Serve ==
    /\ serverPc = "bound"
    /\ serverPc' = IF inShutdown THEN "sending" ELSE "serving"
    /\ outcome' = IF inShutdown THEN "nil" ELSE outcome
    /\ UNCHANGED <<vars, sigDone, mainVars, serverErr, inShutdown, active>>

\* Shutdown closed the listener: ErrServerClosed, while scrapes may be in flight.
ListenerClosed ==
    /\ serverPc = "serving"
    /\ inShutdown
    /\ serverPc' = "sending"
    /\ outcome' = "nil"
    /\ UNCHANGED <<vars, sigDone, mainVars, serverErr, inShutdown, active>>

\* Accept fails on its own.
AcceptFails ==
    /\ serverPc = "serving"
    /\ ~inShutdown
    /\ serverPc' = "sending"
    /\ outcome' = "err"
    /\ UNCHANGED <<vars, sigDone, mainVars, serverErr, inShutdown, active>>

\* The only send on the channel: it would block if the buffer were taken.
SendOutcome ==
    /\ serverPc = "sending"
    /\ serverErr = "empty"
    /\ serverErr' = outcome
    /\ serverPc' = "exited"
    /\ UNCHANGED <<vars, sigDone, mainVars, outcome, inShutdown, active>>

-----------------------------------------------------------------------------
(* The environment: the signal, its propagation to runCtx, the scrapes. *)

Signal ==
    /\ ~sigDone
    /\ sigDone' = TRUE
    /\ UNCHANGED <<vars, mainVars, serverVars, serverErr, inShutdown, active>>

\* A child context is cancelled by its parent shortly after it.
Propagate ==
    /\ sigDone
    /\ Cancel
    /\ UNCHANGED appOnly

BeginScrape(s) ==
    /\ serverPc = "serving"
    /\ ~inShutdown
    /\ s \notin active
    /\ active' = active \cup {s}
    /\ UNCHANGED <<vars, sigDone, mainVars, serverVars, serverErr, inShutdown>>

EndScrape(s) ==
    /\ s \in active
    /\ active' = active \ {s}
    /\ UNCHANGED <<vars, sigDone, mainVars, serverVars, serverErr, inShutdown>>

-----------------------------------------------------------------------------
MainStep ==
    \/ Launch \/ SelectServerErr \/ SelectCtx \/ CancelRun \/ ReturnServerErr
    \/ BeginShutdown \/ ShutdownIdle \/ ShutdownTimeout \/ JobsDone \/ Return

ServerStep == Bind \/ Serve \/ ListenerClosed \/ AcceptFails \/ SendOutcome

SchedulerStep ==
    /\ CloseDone \/ \E j \in Jobs : JobStep(j)
    /\ UNCHANGED appOnly

\* Run has returned: main exits the process.
Exited ==
    /\ mainPc = "returned"
    /\ UNCHANGED appVars

AppNext ==
    \/ MainStep
    \/ ServerStep
    \/ SchedulerStep
    \/ Signal
    \/ Propagate
    \/ \E s \in Scrapes : BeginScrape(s) \/ EndScrape(s)
    \/ Exited

\* Goroutines that can run do; Shutdown's deadline expires; a scrape ends
\* unless its client is slow.  Nothing makes a signal come, Listen or Accept
\* fail, or a scrape begin.
AppFairness ==
    /\ SchedFairness
    /\ WF_appVars(Launch)
    /\ WF_appVars(SelectServerErr \/ SelectCtx)
    /\ WF_appVars(CancelRun)
    /\ WF_appVars(ReturnServerErr)
    /\ WF_appVars(BeginShutdown)
    /\ WF_appVars(ShutdownIdle \/ ShutdownTimeout)
    /\ WF_appVars(JobsDone)
    /\ WF_appVars(Return)
    /\ WF_appVars(Bind)
    /\ WF_appVars(Serve)
    /\ WF_appVars(ListenerClosed)
    /\ WF_appVars(SendOutcome)
    /\ WF_appVars(Propagate)
    /\ \A s \in Scrapes \ Slow : WF_appVars(EndScrape(s))

AppSafetySpec == AppInit /\ [][AppNext]_appVars
AppSpec == AppSafetySpec /\ AppFairness

-----------------------------------------------------------------------------
\* When Run returns it leaves nothing running: no probe in flight, no ticker,
\* and the goroutine of the server has sent its outcome and ended.
ReturnIsQuiescent ==
    mainPc = "returned" =>
        /\ done
        /\ \A j \in Jobs : pc[j] = "exited" /\ ticker[j] = "stopped"
        /\ serverPc = "exited"

\* Where Run is tells what it knows of the signal, the server and the jobs.
MainConsistent ==
    /\ mainPc = "start" <=> ~started
    /\ mainPc = "start" <=> serverPc = "none"
    /\ mainPc \in {"gotCtx", "shutdown", "polling", "awaitJobs", "awaitServer"}
        => sigDone /\ got = "none"
    /\ mainPc \in {"start", "select"} => got = "none"
    /\ mainPc \in {"polling", "awaitJobs", "awaitServer"} => inShutdown
    /\ inShutdown => mainPc \in {"polling", "awaitJobs", "awaitServer", "returned"} /\ sigDone
    /\ mainPc \in {"gotErr", "awaitJobsErr"} => got = "err" /\ outcome = "err" /\ ~shutdownErr
    /\ mainPc = "awaitServer" => done
    /\ shutdownErr => inShutdown
    /\ inShutdown /\ mainPc # "polling" /\ ~shutdownErr => active = {}

\* Where the server's goroutine is tells what is in the channel: one outcome
\* is sent, and only Run receives it.
ServerConsistent ==
    /\ outcome # "none" <=> serverPc \in {"sending", "exited"}
    /\ outcome = "nil" => inShutdown
    /\ serverErr # "empty" => serverPc = "exited" /\ serverErr = outcome
    /\ serverPc = "exited" /\ serverErr = "empty"
        => mainPc \in {"gotErr", "awaitJobsErr", "returned"}
    /\ mainPc \in {"gotErr", "awaitJobsErr", "returned"} => serverPc = "exited"

\* What the returned error says.  nil: a signal came, the server was closed by
\* Shutdown and every scrape was answered.  A failure of the server is never
\* lost, whichever case of the select saw it, except to Shutdown's own error,
\* and that one is returned only when a signal came and Shutdown was called.
ResultTruthful ==
    mainPc = "returned" =>
        /\ result = "nil" => sigDone /\ inShutdown /\ outcome = "nil" /\ active = {}
        /\ result = "err" => outcome = "err"
        /\ result = "shutdown" => sigDone /\ inShutdown
        /\ outcome = "err" => result \in {"err", "shutdown"}
        /\ result # "none"

\* The inductive invariant of the application.
AppIInv ==
    /\ AppTypeOK
    /\ MainConsistent
    /\ ServerConsistent
    /\ mainPc = "returned" => done
    /\ ResultTruthful

\* The first case of the select never receives nil, so Run cannot return nil,
\* and main cannot exit with success, without a signal.
NoSilentStop == mainPc = "select" => serverErr # "nil"

\* Run returns after a signal and after a failure of the server, whatever the
\* clients do, when every probe returns.
Returns == sigDone \/ outcome = "err" ~> mainPc = "returned"
=============================================================================
