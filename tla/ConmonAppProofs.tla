-------------------------- MODULE ConmonAppProofs ---------------------------
(***************************************************************************)
(* The safety properties of Scheduler for every finite set of jobs, and    *)
(* that it implements JobGroup (its safety part; the rest is TLC's).       *)
(* The preservation lemmas speak of single steps, so that the application, *)
(* which takes the same steps among others, can cite them: it drives the   *)
(* scheduler as its specification allows, and what holds of the scheduler  *)
(* holds inside it.  From that and an invariant of the main and the server *)
(* goroutine follows what Run returns and what it leaves behind, for any   *)
(* jobs and any scrapes.                                                   *)
(***************************************************************************)
EXTENDS ConmonApp, FiniteSetTheorems, TLAPS

-----------------------------------------------------------------------------
(* The scheduler. *)

\* Leaving the wait group makes the set of members smaller by one.
LEMMA MembersFinite ==
    IsFiniteSet(Members) /\ Cardinality(Members) \in Nat
<1>1. IsFiniteSet(Members)
    BY FS_Subset, JobsAssumption DEF Members
<1> QED
    BY <1>1, FS_CardinalityType

\* The goroutines created by Start are the members, and they owe one Done each.
LEMMA StartPreserves ==
    ASSUME IInv, Start
    PROVE  IInv'
<1> USE DEF Start, IInv, TypeOK
<1>1. TypeOK'
    BY JobsAssumption, FS_CardinalityType DEF PC
<1>2. Members' = Jobs
    BY DEF Members
<1>3. WgCountsMembers'
    BY <1>2 DEF WgCountsMembers
<1>4. ASSUME NEW j \in Jobs PROVE JobConsistent(j)'
    BY DEF JobConsistent
<1>5. (done => started /\ \A j \in Jobs : pc[j] = "exited")'
    OBVIOUS
<1> QED
    BY <1>1, <1>3, <1>4, <1>5

\* The invariant survives each step of a goroutine and of the clock.
LEMMA JobStepPreserves ==
    ASSUME IInv, NEW j \in Jobs, JobStep(j)
    PROVE  IInv'
<1> USE DEF IInv, TypeOK
<1>1. CASE FirstRun(j)
    <2> USE <1>1 DEF FirstRun
    <2>1. TypeOK'
        BY DEF PC
    <2>2. Members' = Members
        BY DEF Members
    <2>3. \A k \in Jobs : JobConsistent(k)'
        BY DEF JobConsistent
    <2> QED
        BY <2>1, <2>2, <2>3 DEF WgCountsMembers
<1>2. CASE FinishRun(j)
    <2> USE <1>2 DEF FinishRun
    <2>1. TypeOK'
        BY DEF PC, TickerState
    <2>2. Members' = Members
        BY DEF Members
    <2>3. \A k \in Jobs : JobConsistent(k)'
        BY DEF JobConsistent, TickerState
    <2> QED
        BY <2>1, <2>2, <2>3 DEF WgCountsMembers
<1>3. CASE Tick(j)
    <2> USE <1>3 DEF Tick
    <2>1. TypeOK'
        BY DEF TickerState
    <2>2. Members' = Members
        BY DEF Members
    <2>3. \A k \in Jobs : JobConsistent(k)'
        BY DEF JobConsistent
    <2> QED
        BY <2>1, <2>2, <2>3 DEF WgCountsMembers
<1>4. CASE TakeTick(j)
    <2> USE <1>4 DEF TakeTick
    <2>1. TypeOK'
        BY DEF PC, TickerState
    <2>2. Members' = Members
        BY DEF Members
    <2>3. \A k \in Jobs : JobConsistent(k)'
        BY DEF JobConsistent
    <2> QED
        BY <2>1, <2>2, <2>3 DEF WgCountsMembers
<1>5. CASE StopOnCancel(j)
    <2> USE <1>5 DEF StopOnCancel
    <2>1. TypeOK'
        BY DEF PC, TickerState
    <2>2. Members' = Members
        BY DEF Members
    <2>3. \A k \in Jobs : JobConsistent(k)'
        BY DEF JobConsistent
    <2> QED
        BY <2>1, <2>2, <2>3 DEF WgCountsMembers
<1>6. CASE WgDone(j)
    <2> USE <1>6 DEF WgDone
    <2>1. Members' = Members \ {j} /\ j \in Members
        BY DEF Members
    <2>2. Cardinality(Members') = Cardinality(Members) - 1
        BY <2>1, MembersFinite, FS_RemoveElement
    <2>3. Cardinality(Members') \in Nat
        BY <2>1, MembersFinite, FS_RemoveElement, FS_CardinalityType
    <2>4. WgCountsMembers'
        BY <2>2 DEF WgCountsMembers
    <2>5. TypeOK'
        BY <2>3, <2>4 DEF PC, WgCountsMembers
    <2>6. \A k \in Jobs : JobConsistent(k)'
        BY DEF JobConsistent
    <2> QED
        BY <2>4, <2>5, <2>6
<1> QED
    BY <1>1, <1>2, <1>3, <1>4, <1>5, <1>6 DEF JobStep

\* The waiter finds the counter at zero only when there is no member left.
LEMMA CloseDonePreserves ==
    ASSUME IInv, CloseDone
    PROVE  IInv'
<1> USE DEF CloseDone, IInv, jobVars
<1>1. Members = {}
    BY MembersFinite, FS_EmptySet DEF WgCountsMembers
<1>2. \A j \in Jobs : pc[j] = "exited"
    BY <1>1 DEF Members, JobConsistent
<1>3. TypeOK' /\ Members' = Members
    BY DEF TypeOK, Members
<1> QED
    BY <1>2, <1>3 DEF WgCountsMembers, JobConsistent

\* Whoever else moves, and cancels the context or not, the invariant survives.
LEMMA OthersPreserve ==
    ASSUME IInv, ctxDone' \in BOOLEAN, ctxDone => ctxDone', UNCHANGED schedVars
    PROVE  IInv'
<1> USE DEF IInv, schedVars
<1>1. TypeOK' /\ Members' = Members
    BY DEF TypeOK, Members
<1> QED
    BY <1>1 DEF WgCountsMembers, JobConsistent

LEMMA SchedInitEstablishes ==
    ASSUME ctxDone \in BOOLEAN, SchedInit
    PROVE  IInv
<1> USE DEF SchedInit
<1>1. TypeOK
    BY DEF TypeOK, PC, TickerState
<1>2. Members = {}
    BY DEF Members
<1>3. WgCountsMembers
    BY <1>2, FS_EmptySet DEF WgCountsMembers
<1> QED
    BY <1>1, <1>3 DEF IInv, JobConsistent

\* The inductive invariant holds in every behaviour, for every set of jobs.
THEOREM Invariance == SafetySpec => []IInv
<1>1. Init => IInv
    BY SchedInitEstablishes DEF Init
<1>2. IInv /\ [Next]_vars => IInv'
    <2> SUFFICES ASSUME IInv, [Next]_vars PROVE IInv'
        OBVIOUS
    <2>1. CASE Start
        BY <2>1, StartPreserves
    <2>2. CASE Cancel
        BY <2>2, OthersPreserve DEF Cancel
    <2>3. CASE CloseDone
        BY <2>3, CloseDonePreserves
    <2>4. CASE \E j \in Jobs : JobStep(j)
        BY <2>4, JobStepPreserves
    <2>5. CASE UNCHANGED vars
        BY <2>5, OthersPreserve DEF vars, schedVars, IInv, TypeOK
    <2> QED
        BY <2>1, <2>2, <2>3, <2>4, <2>5 DEF Next, Finished
<1> QED
    BY <1>1, <1>2, PTL DEF SafetySpec

\* Type correctness.
THEOREM TypeCorrect == SafetySpec => []TypeOK
BY Invariance, PTL DEF IInv

\* The wait group counts exactly the goroutines that have not left.
THEOREM WgIsExact == SafetySpec => []WgCountsMembers
BY Invariance, PTL DEF IInv

\* A closed channel means that no run is in flight and no ticker is left.
THEOREM DoneMeansQuiescent == SafetySpec => []DoneIsQuiescent
<1>1. IInv => DoneIsQuiescent
    BY DEF IInv, DoneIsQuiescent, JobConsistent
<1> QED
    BY <1>1, Invariance, PTL

\* After the channel is closed the scheduler takes no step any more.
THEOREM DoneMeansOver == SafetySpec => DoneIsFinal
<1>1. IInv /\ [Next]_vars => (done => UNCHANGED schedVars)
    <2> SUFFICES ASSUME IInv, [Next]_vars, done PROVE UNCHANGED schedVars
        OBVIOUS
    <2>1. \A j \in Jobs : pc[j] = "exited" /\ ticker[j] = "stopped" /\ started
        BY DEF IInv, JobConsistent
    <2>2. \A j \in Jobs : ~JobStep(j)
        BY <2>1 DEF JobStep, FirstRun, FinishRun, Tick, TakeTick, StopOnCancel, WgDone
    <2>3. ~Start /\ ~CloseDone
        BY DEF Start, CloseDone, IInv
    <2> QED
        BY <2>2, <2>3 DEF Next, Cancel, Finished, vars, schedVars
<1> QED
    BY <1>1, Invariance, PTL DEF SafetySpec, DoneIsFinal

\* No run without a tick of its own.
THEOREM PacedRuns == SafetySpec => Paced
<1>1. IInv /\ [Next]_vars
        => \A j \in Jobs : pc[j] # "running" /\ pc'[j] = "running" => due[j]
    <2> SUFFICES ASSUME IInv, [Next]_vars, NEW j \in Jobs,
                        pc[j] # "running", pc'[j] = "running"
                 PROVE  due[j]
        OBVIOUS
    <2> USE DEF IInv, TypeOK
    <2>1. CASE Start
        BY <2>1 DEF Start
    <2>2. CASE UNCHANGED pc
        BY <2>2
    <2>3. ASSUME NEW k \in Jobs, JobStep(k) PROVE due[j]
        <3>1. k = j /\ (FirstRun(j) \/ TakeTick(j))
            BY <2>3 DEF JobStep, FirstRun, FinishRun, Tick, TakeTick, StopOnCancel, WgDone
        <3> QED
            BY <3>1 DEF FirstRun, TakeTick, JobConsistent
    <2> QED
        BY <2>1, <2>2, <2>3 DEF Next, Cancel, CloseDone, Finished, vars, schedVars, jobVars
<1> QED
    BY <1>1, Invariance, PTL DEF SafetySpec, Paced

\* The refinement mapping of Group, by name.
Live == {j \in Jobs : pc[j] \in {"spawned", "running", "selecting"}}
Inflight == {j \in Jobs : pc[j] = "running"}

\* Every step of the scheduler is a step of the group of jobs or a stutter.
LEMMA StepSimulation ==
    ASSUME IInv, [Next]_vars
    PROVE  [Group!Next]_(Group!vars)
<1> USE DEF IInv, TypeOK, Live, Inflight
<1>1. CASE Start
    <2>1. Inflight = {} /\ Inflight' = {}
        BY <1>1 DEF Start, JobConsistent
    <2>2. Live' = Jobs
        BY <1>1 DEF Start
    <2> QED
        BY <1>1, <2>1, <2>2 DEF Start, Group!Next, Group!Launch
<1>2. CASE Cancel
    BY <1>2 DEF Cancel, schedVars, Group!Next, Group!Cancel
<1>3. CASE CloseDone
    <2>1. \A j \in Jobs : pc[j] = "exited"
        BY <1>3, CloseDonePreserves DEF CloseDone, jobVars
    <2>2. Live = {}
        BY <2>1
    <2> QED
        BY <1>3, <2>2 DEF CloseDone, jobVars, Group!Next, Group!Close
<1>4. ASSUME NEW j \in Jobs, JobStep(j)
      PROVE  [Group!Next]_(Group!vars)
    <2>1. CASE FirstRun(j)
        <3>1. Live' = Live /\ Inflight' = Inflight \cup {j} /\ j \in Live \ Inflight
            BY <2>1 DEF FirstRun
        <3> QED
            BY <2>1, <3>1 DEF FirstRun, Group!Next, Group!Begin
    <2>2. CASE FinishRun(j)
        <3>1. Live' = Live /\ Inflight' = Inflight \ {j} /\ j \in Inflight
            BY <2>2 DEF FinishRun
        <3> QED
            BY <2>2, <3>1 DEF FinishRun, Group!Next, Group!End
    <2>3. CASE Tick(j)
        BY <2>3 DEF Tick, Group!vars
    <2>4. CASE TakeTick(j)
        <3>1. Live' = Live /\ Inflight' = Inflight \cup {j} /\ j \in Live \ Inflight
            BY <2>4 DEF TakeTick
        <3> QED
            BY <2>4, <3>1 DEF TakeTick, Group!Next, Group!Begin
    <2>5. CASE StopOnCancel(j)
        <3>1. Live' = Live \ {j} /\ Inflight' = Inflight /\ j \in Live \ Inflight
            BY <2>5 DEF StopOnCancel
        <3> QED
            BY <2>5, <3>1 DEF StopOnCancel, Group!Next, Group!Leave
    <2>6. CASE WgDone(j)
        <3>1. Live' = Live /\ Inflight' = Inflight
            BY <2>6 DEF WgDone
        <3> QED
            BY <2>6, <3>1 DEF WgDone, Group!vars
    <2> QED
        BY <1>4, <2>1, <2>2, <2>3, <2>4, <2>5, <2>6 DEF JobStep
<1>5. CASE UNCHANGED vars
    BY <1>5 DEF vars, Group!vars
<1> QED
    BY <1>1, <1>2, <1>3, <1>4, <1>5 DEF Next, Finished

\* The scheduler implements the group of jobs its caller sees: launched once,
\* runs of a job one at a time, members leaving between runs and only after
\* the cancellation, and the channel closed once, after the last one left.
THEOREM Refinement == SafetySpec => Group!SafetySpec
<1>1. Init => Group!Init
    BY DEF Init, SchedInit, Group!Init
<1>2. IInv /\ [Next]_vars => [Group!Next]_(Group!vars)
    BY StepSimulation
<1> QED
    BY <1>1, <1>2, Invariance, PTL DEF SafetySpec, Group!SafetySpec

-----------------------------------------------------------------------------
(* The application. *)

\* A step of the application is a step of the scheduler or leaves it alone.
LEMMA AppStepIsSchedulerStep ==
    ASSUME [AppNext]_appVars
    PROVE  [Next]_vars
<1>1. CASE MainStep
    BY <1>1 DEF MainStep, Launch, SelectServerErr, SelectCtx, CancelRun, ReturnServerErr,
                BeginShutdown, ShutdownIdle, ShutdownTimeout, JobsDone, Return,
                Next, Cancel, vars, schedVars
<1>2. CASE ServerStep
    BY <1>2 DEF ServerStep, Bind, Serve, ListenerClosed, AcceptFails, SendOutcome, vars
<1>3. CASE SchedulerStep
    BY <1>3 DEF SchedulerStep, Next
<1>4. CASE Signal \/ Exited \/ \E s \in Scrapes : BeginScrape(s) \/ EndScrape(s)
    BY <1>4 DEF Signal, Exited, BeginScrape, EndScrape, appVars, vars
<1>5. CASE Propagate
    BY <1>5 DEF Propagate, Next
<1>6. CASE UNCHANGED appVars
    BY <1>6 DEF appVars, vars
<1> QED
    BY <1>1, <1>2, <1>3, <1>4, <1>5, <1>6 DEF AppNext

\* Every step of the application is a step of the scheduler or leaves it alone,
\* by the shape of AppNext: the scheduler's invariant may be used for its jobs.
LEMMA AppContainsScheduler == AppSafetySpec => SafetySpec
<1>1. AppInit => Init
    BY DEF AppInit
<1> QED
    BY <1>1, AppStepIsSchedulerStep, PTL DEF AppSafetySpec, SafetySpec

\* The invariant survives every step of Run.
LEMMA MainStepPreserves ==
    ASSUME AppIInv, IInv, MainStep
    PROVE  AppIInv'
<1> USE DEF AppIInv, AppTypeOK, MainPC, ServerPC, MainConsistent, ServerConsistent,
            ResultTruthful, IInv, TypeOK
<1>1. CASE Launch
    BY <1>1 DEF Launch, Start
<1>2. CASE SelectServerErr
    BY <1>2 DEF SelectServerErr, vars, serverVars
<1>3. CASE SelectCtx
    BY <1>3 DEF SelectCtx, vars, serverVars
<1>4. CASE CancelRun
    BY <1>4 DEF CancelRun, schedVars, serverVars
<1>5. CASE ReturnServerErr
    BY <1>5 DEF ReturnServerErr, vars, serverVars
<1>6. CASE BeginShutdown
    BY <1>6 DEF BeginShutdown, vars, serverVars
<1>7. CASE ShutdownIdle
    BY <1>7 DEF ShutdownIdle, vars, serverVars
<1>8. CASE ShutdownTimeout
    BY <1>8 DEF ShutdownTimeout, vars, serverVars
<1>9. CASE JobsDone
    BY <1>9 DEF JobsDone, vars, serverVars
<1>10. CASE Return
    BY <1>10 DEF Return, vars, serverVars
<1> QED
    BY <1>1, <1>2, <1>3, <1>4, <1>5, <1>6, <1>7, <1>8, <1>9, <1>10 DEF MainStep

\* The invariant survives every step of the server's goroutine.
LEMMA ServerStepPreserves ==
    ASSUME AppIInv, IInv, ServerStep
    PROVE  AppIInv'
<1> USE DEF AppIInv, AppTypeOK, MainPC, ServerPC, MainConsistent, ServerConsistent,
            ResultTruthful
<1>1. CASE Bind
    BY <1>1 DEF Bind, vars, mainVars
<1>2. CASE Serve
    BY <1>2 DEF Serve, vars, mainVars
<1>3. CASE ListenerClosed
    BY <1>3 DEF ListenerClosed, vars, mainVars
<1>4. CASE AcceptFails
    BY <1>4 DEF AcceptFails, vars, mainVars
<1>5. CASE SendOutcome
    BY <1>5 DEF SendOutcome, vars, mainVars
<1> QED
    BY <1>1, <1>2, <1>3, <1>4, <1>5 DEF ServerStep

\* ... and those of the jobs, the signal and the scrapes.
LEMMA OtherStepPreserves ==
    ASSUME AppIInv, IInv,
           SchedulerStep \/ Signal \/ Propagate
             \/ (\E s \in Scrapes : BeginScrape(s) \/ EndScrape(s)) \/ UNCHANGED appVars
    PROVE  AppIInv'
<1> USE DEF AppIInv, AppTypeOK, MainPC, ServerPC, MainConsistent, ServerConsistent,
            ResultTruthful
<1>1. CASE SchedulerStep
    <2>1. UNCHANGED appOnly /\ UNCHANGED started /\ (done => done')
        BY <1>1 DEF SchedulerStep, CloseDone, JobStep, FirstRun, FinishRun, Tick, TakeTick,
                    StopOnCancel, WgDone, jobVars
    <2> QED
        BY <2>1 DEF appOnly
<1>2. CASE Signal
    BY <1>2 DEF Signal, vars, mainVars, serverVars
<1>3. CASE Propagate
    BY <1>3 DEF Propagate, Cancel, schedVars, appOnly
<1>4. ASSUME NEW s \in Scrapes, BeginScrape(s) PROVE AppIInv'
    BY <1>4 DEF BeginScrape, vars, mainVars, serverVars
<1>5. ASSUME NEW s \in Scrapes, EndScrape(s) PROVE AppIInv'
    BY <1>5 DEF EndScrape, vars, mainVars, serverVars
<1>6. CASE UNCHANGED appVars
    BY <1>6 DEF appVars, appOnly, vars
<1> QED
    BY <1>1, <1>2, <1>3, <1>4, <1>5, <1>6

\* The invariant of the scheduler and that of the application, together.
THEOREM AppInvariance == AppSafetySpec => [](IInv /\ AppIInv)
<1>1. AppInit => AppIInv
    BY DEF AppInit, Init, SchedInit, AppIInv, AppTypeOK, MainPC, ServerPC, MainConsistent,
           ServerConsistent, ResultTruthful
<1>2. IInv /\ AppIInv /\ [AppNext]_appVars => AppIInv'
    BY MainStepPreserves, ServerStepPreserves, OtherStepPreserves DEF AppNext, Exited
<1> QED
    BY <1>1, <1>2, AppContainsScheduler, Invariance, PTL DEF AppSafetySpec

\* The variables of the application keep their types: the channel of the
\* server's outcome is received from only when it holds one.
THEOREM AppTypeCorrect == AppSafetySpec => []AppTypeOK
<1>1. AppIInv => AppTypeOK
    BY DEF AppIInv
<1> QED
    BY <1>1, AppInvariance, PTL

\* When Run returns no probe is in flight and both goroutines are gone.
THEOREM ReturnMeansQuiescent == AppSafetySpec => []ReturnIsQuiescent
<1>1. IInv /\ AppIInv => ReturnIsQuiescent
    BY DEF IInv, JobConsistent, AppIInv, ServerConsistent, ReturnIsQuiescent
<1> QED
    BY <1>1, AppInvariance, PTL

\* What Run returns tells what happened: no failure of the server is lost and
\* nil is returned only after a signal and a complete shutdown.
THEOREM ResultIsTruthful == AppSafetySpec => []ResultTruthful
<1>1. AppIInv => ResultTruthful
    BY DEF AppIInv
<1> QED
    BY <1>1, AppInvariance, PTL

\* Run never stops in silence: the select cannot receive nil.
THEOREM NeverSilent == AppSafetySpec => []NoSilentStop
<1>1. AppIInv => NoSilentStop
    BY DEF AppIInv, MainConsistent, ServerConsistent, NoSilentStop
<1> QED
    BY <1>1, AppInvariance, PTL
=============================================================================
