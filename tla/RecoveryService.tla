---------------------------- MODULE RecoveryService ----------------------------
(***************************************************************************)
(* The recovery execution service: the bootstrap and resource lifecycle of *)
(* lib/coordinator-recovery-execution-service.mjs, the supervisor it hands *)
(* over to, the action loop that supervisor owns and the recovery          *)
(* verification both share.  One action is the code between two awaits.    *)
(*                                                                         *)
(* Timers fire at any time once armed, every awaited request may fail, the *)
(* verification may expire, the clock may step back and an operator may    *)
(* stop the service at any moment.  A step of a job is one pass through    *)
(* the fence of lib/active-solver-daemon-runtime.mjs at most; the ledger   *)
(* it changes is modelled elsewhere.                                       *)
(***************************************************************************)
EXTENDS ServiceStatus

CONSTANT JobCount        \* settlements of the fixed job set, in its order

VARIABLES start,         \* where the start of the bootstrap awaits
          boot,          \* lifecycle of the bootstrap
          bootPublishing, preparation,   \* its asynchronous operations in flight
          sup,           \* lifecycle of the execution supervisor
          publishing,    \* the publication of the supervisor: what it awaits
          verification,  \* the recovery verification: active or not
          verificationStopped,
          loop,          \* the action loop: what its cycle awaits, its job, the status it reports
          loopStopped, fence, jobSetLease,
          store, lease,  \* the resources of the service
          reason,        \* why the service stopped
          lateEffects    \* history: effects of steps after the loop was stopped

bootVars == <<start, boot, bootPublishing, preparation>>
loopVars == <<loop, loopStopped, fence, jobSetLease>>
verificationVars == <<verification, verificationStopped>>
resourceVars == <<store, lease>>
recoveryVars == <<bootVars, sup, publishing, verificationVars, loopVars, resourceVars, reason,
                  lateEffects>>

NoCycle == "none"
NoReport == [state |-> "idle", attempted |-> FALSE, lastSuccess |-> "never", failures |-> 0,
             steps |-> 0, results |-> 0, cycleDigest |-> FALSE, record |-> "release"]
NoLoop == [at |-> NoCycle, job |-> 0, report |-> NoReport]

\* No process: the lease and the store are free.
NoService ==
  /\ start = "none" /\ boot = "none" /\ bootPublishing = FALSE /\ preparation = FALSE
  /\ sup = "none" /\ publishing = "none"
  /\ verification = FALSE /\ verificationStopped = FALSE
  /\ loop = NoLoop
  /\ loopStopped = FALSE /\ fence = FALSE /\ jobSetLease = FALSE
  /\ store = "closed" /\ lease = "released" /\ reason = "none" /\ lateEffects = 0

Reset(at, s, l) ==
  /\ start' = at /\ boot' = "none" /\ bootPublishing' = FALSE /\ preparation' = FALSE
  /\ sup' = "none" /\ publishing' = "none"
  /\ verification' = FALSE /\ verificationStopped' = FALSE
  /\ loop' = NoLoop
  /\ loopStopped' = FALSE /\ fence' = FALSE /\ jobSetLease' = FALSE
  /\ store' = s /\ lease' = l /\ reason' = "none" /\ lateEffects' = 0

\* startCoordinatorRecoveryExecutionService, until it holds the lease and the open store.
Acquire == lease = "released" /\ Reset("verifying", "open", "held")

\* The process dies and keeps nothing; its lease goes stale.
Die == lease = "held" /\ Reset("none", "closed", "released")

-------------------------------------------------------------------------------
(* Stopping: the first caller decides the reason, everything is revoked at once. *)

\* recoverySupervisor.stop of the verification.
RevokeVerification == verification' = FALSE /\ verificationStopped' = TRUE

\* statusRecord of the loop, for a cycle that attempted so many steps and has so many results.
\* Consecutive failures are none or some.
Report(state, steps, results) ==
  [loop.report EXCEPT !.state = state, !.steps = steps, !.results = results, !.cycleDigest = results > 0]
RunningReport ==
  [Report("running", 0, 0) EXCEPT !.attempted = TRUE,
                                  !.lastSuccess = IF @ = "this attempt" THEN "earlier" ELSE @]
InactiveReport(steps, results) == [Report("inactive", steps, results) EXCEPT !.failures = 1]
ActiveReport ==
  [Report("active", JobCount, JobCount) EXCEPT !.lastSuccess = "this attempt", !.failures = 0]

\* actionLoop.stop: the fence falls at once, the job-set lease once no cycle runs.
StopLoop ==
  /\ loopStopped' = TRUE /\ fence' = FALSE
  /\ jobSetLease' = (jobSetLease /\ loop.at # NoCycle)
  /\ loop' = [loop EXCEPT !.report = Report("stopped", 0, 0)]

\* stop of the bootstrap, with the supervisor where it has one.
StopBoot(why) ==
  /\ boot' = "stopping"
  /\ reason' = why
  /\ RevokeVerification
  /\ \/ /\ sup \in {"none", "stopping", "stopped"}
        /\ UNCHANGED <<sup, loopVars>>
     \/ /\ sup \in {"starting", "running"}
        /\ sup' = "stopping" /\ StopLoop

\* stop of the supervisor by itself; the bootstrap follows once it has drained.
StopSupervisor(why) ==
  /\ sup' = "stopping"
  /\ reason' = why
  /\ RevokeVerification
  /\ StopLoop
  /\ UNCHANGED boot

\* A failure met by code that a stop may have overtaken: the first stop stands.
FailStart(why) ==
  \/ boot = "starting" /\ StopBoot(why)
  \/ boot # "starting" /\ UNCHANGED <<boot, sup, reason, verificationVars, loopVars>>

\* Service.stop, or the abort signal.
Stop(why) ==
  /\ why \in {"requested", "aborted"} /\ boot \in {"starting", "running"}
  /\ StopBoot(why)
  /\ UNCHANGED <<start, bootPublishing, preparation, publishing, resourceVars, lateEffects>>

-------------------------------------------------------------------------------
(* The start of the service and of its bootstrap. *)

\* The first refresh answers.  Without an active verification there is no bootstrap.
FirstRefreshEnds(ok) ==
  /\ start = "verifying"
  /\ verification' = ok
  /\ boot' = IF ok THEN "starting" ELSE "stopped"
  /\ start' = IF ok THEN "first status" ELSE "failed"
  /\ bootPublishing' = ok
  /\ reason' = IF ok THEN reason ELSE "startup-failure"
  /\ UNCHANGED <<preparation, sup, publishing, verificationStopped, loopVars, resourceVars,
                 lateEffects>>

\* The heartbeat of the preparation.
BootBeat ==
  /\ boot = "starting" /\ start = "preparing" /\ ~bootPublishing
  /\ \/ /\ verification
        /\ bootPublishing' = TRUE
        /\ UNCHANGED <<boot, sup, reason, verificationVars, loopVars>>
     \/ /\ ~verification
        /\ StopBoot("background-failure")
        /\ UNCHANGED bootPublishing
  /\ UNCHANGED <<start, preparation, publishing, resourceVars, lateEffects>>

\* The checks after preparation and before the last lease check.
Handoff ==
  \/ /\ boot = "starting" /\ verification
     /\ start' = "lease"
     /\ UNCHANGED <<boot, sup, reason, verificationVars, loopVars>>
  \/ /\ boot # "starting" \/ ~verification
     /\ start' = "failed"
     /\ FailStart("startup-failure")

\* publishPreparationStatus ends.  After the first one the preparation begins without a
\* look at the lifecycle; a stop that came meanwhile waits for it.
BootPublicationEnds(ok) ==
  /\ bootPublishing /\ bootPublishing' = FALSE
  /\ \/ /\ ok /\ start = "first status"
        /\ start' = "preparing" /\ preparation' = TRUE
        /\ UNCHANGED <<boot, sup, reason, verificationVars, loopVars>>
     \/ /\ ok /\ start = "preparing"
        /\ UNCHANGED <<start, preparation, boot, sup, reason, verificationVars, loopVars>>
     \/ /\ ok /\ start = "handoff"
        /\ Handoff /\ UNCHANGED preparation
     \/ /\ ~ok
        /\ start' = IF start = "preparing" THEN start ELSE "failed"
        /\ FailStart(IF start = "first status" THEN "startup-failure" ELSE "background-failure")
        /\ UNCHANGED preparation
  /\ UNCHANGED <<publishing, resourceVars, lateEffects>>

\* prepareJobSetVerification returns or throws; a stop aborts it, and waits.
PreparationEnds(ok) ==
  /\ preparation /\ preparation' = FALSE
  /\ \/ /\ ok /\ boot = "starting" /\ bootPublishing
        /\ start' = "handoff"
        /\ UNCHANGED <<boot, sup, reason, verificationVars, loopVars>>
     \/ /\ ok /\ (boot # "starting" \/ ~bootPublishing)
        /\ Handoff
     \/ /\ ~ok
        /\ start' = "failed"
        /\ FailStart("startup-failure")
  /\ UNCHANGED <<bootPublishing, publishing, resourceVars, lateEffects>>

\* The preparation timer, armed with the preparation.
PreparationTimeout ==
  /\ boot = "starting" /\ preparation
  /\ StopBoot("background-failure")
  /\ UNCHANGED <<start, bootPublishing, preparation, publishing, resourceVars, lateEffects>>

\* What is left of a publication once the active verification and the report are read: the lease
\* check and the write, before which buildStatus refuses a status that is not valid.
Publication ==
  LET status == BuildRecoveryStatus([state |-> "active", record |-> "release"], loop.report) IN
  IF RecoveryStatusValid(status, JobCount) THEN "writing" ELSE "refused"

\* The last lease check answers.  The lifecycle is not looked at again, but a stop has
\* revoked the verification that createCoordinatorRecoveryExecutionSupervisor asks for;
\* with it, and the job-set lease, the supervisor starts its first publication.
HandoffLeaseEnds(ok) ==
  /\ start = "lease"
  /\ \/ /\ ok /\ verification
        /\ start' = "supervisor" /\ sup' = "starting" /\ jobSetLease' = TRUE
        /\ publishing' = Publication
        /\ UNCHANGED <<boot, reason, verificationVars, loop, loopStopped, fence>>
     \/ /\ ~ok \/ ~verification
        /\ start' = "failed"
        /\ FailStart("startup-failure")
        /\ UNCHANGED publishing
  /\ UNCHANGED <<bootPublishing, preparation, resourceVars, lateEffects>>

-------------------------------------------------------------------------------
(* The supervisor: one publication at a time, with the refresh when it is due. *)

\* A publication that throws stops a supervisor that starts or runs.
PublicationFails ==
  /\ publishing' = "none"
  /\ \/ /\ sup = "running" /\ StopSupervisor("background-failure") /\ UNCHANGED start
     \/ /\ sup = "starting" /\ start' = "failed" /\ StopBoot("startup-failure")
     \/ /\ sup = "stopping"
        /\ UNCHANGED <<start, boot, sup, reason, verificationVars, loopVars>>

\* The heartbeat of a running supervisor.
SupervisorBeat ==
  /\ sup = "running" /\ publishing = "none"
  /\ \/ \* the refresh is due: it gives up the activation and awaits the next one
        /\ publishing' = "refreshing" /\ verification' = FALSE
        /\ UNCHANGED <<start, boot, sup, reason, verificationStopped, loopVars>>
     \/ /\ verification /\ loop.report.state # "inactive"
        /\ publishing' = Publication
        /\ UNCHANGED <<start, boot, sup, reason, verificationVars, loopVars>>
     \/ /\ ~verification \/ loop.report.state = "inactive"
        /\ PublicationFails
  /\ UNCHANGED <<bootPublishing, preparation, resourceVars, lateEffects>>

\* The refresh answers; what arrives after the stop is deactivated.  With an active
\* verification the publication goes on unless the loop is inactive.
RefreshEnds(ok) ==
  /\ publishing = "refreshing"
  /\ \/ /\ ok /\ ~verificationStopped /\ loop.report.state # "inactive"
        /\ verification' = TRUE /\ publishing' = Publication
        /\ UNCHANGED <<start, boot, sup, reason, verificationStopped, loopVars>>
     \/ /\ ~ok \/ verificationStopped \/ loop.report.state = "inactive"
        /\ PublicationFails
  /\ UNCHANGED <<bootPublishing, preparation, resourceVars, lateEffects>>

\* The lease check and the write of the status.  The first one of a supervisor that was
\* not stopped meanwhile starts the loop.
PublicationEnds(ok) ==
  /\ publishing \in {"writing", "refused"}
  /\ \/ ~ok /\ PublicationFails
     \/ /\ ok /\ publishing = "writing" /\ publishing' = "none"
        /\ \/ /\ sup = "starting"
              /\ sup' = "running" /\ boot' = "running" /\ start' = "done"
           \/ /\ sup # "starting"
              /\ start' = IF start = "supervisor" THEN "failed" ELSE start
              /\ UNCHANGED <<sup, boot>>
        /\ UNCHANGED <<reason, verificationVars, loopVars>>
  /\ UNCHANGED <<bootPublishing, preparation, resourceVars, lateEffects>>

-------------------------------------------------------------------------------
(* The action loop. *)

UnchangedByLoop == UNCHANGED <<bootVars, sup, publishing, verificationVars, resourceVars, reason>>

\* Mutant of CycleEnds: a cycle that a stop overtook keeps the job-set lease.
CycleEnds_Leaks(report) ==
  /\ loop' = [at |-> NoCycle, job |-> 0, report |-> IF loopStopped THEN loop.report ELSE report]
  /\ fence' = FALSE
  /\ UNCHANGED <<loopStopped, jobSetLease>>

\* The end of a cycle, whose finally clause drops the fence and lets a stopped loop
\* release the job-set lease.
CycleEnds(report) ==
  /\ loop' = [at |-> NoCycle, job |-> 0, report |-> IF loopStopped THEN loop.report ELSE report]
  /\ fence' = FALSE
  /\ jobSetLease' = (jobSetLease /\ ~loopStopped)
  /\ UNCHANGED loopStopped

\* The head of the walk over the jobs, which uses the activation for each of them.
NextJob(j) ==
  \/ /\ ~loopStopped /\ verification
     /\ loop' = [loop EXCEPT !.at = "step", !.job = j]
     /\ fence' = TRUE
     /\ UNCHANGED <<loopStopped, jobSetLease>>
  \/ /\ loopStopped \/ ~verification
     /\ CycleEnds(InactiveReport(j, j - 1))

\* start, or the interval: performCycle until its first await.
StartCycle ==
  /\ sup = "running" /\ ~loopStopped /\ loop.at = NoCycle
  /\ \/ /\ verification
        /\ loop' = [at |-> "lease", job |-> 0, report |-> RunningReport]
        /\ UNCHANGED <<loopStopped, fence, jobSetLease>>
     \/ ~verification /\ CycleEnds([RunningReport EXCEPT !.state = "inactive", !.failures = 1])
  /\ UnchangedByLoop /\ UNCHANGED lateEffects

CycleLeaseEnds(ok) ==
  /\ loop.at = "lease"
  /\ IF ok THEN NextJob(1) ELSE CycleEnds(InactiveReport(0, 0))
  /\ UnchangedByLoop /\ UNCHANGED lateEffects

\* The step passes its fence on the way to a mutation or a broadcast, and performs it.
CrossBoundary ==
  /\ loop.at = "step" /\ fence
  /\ loop' = [loop EXCEPT !.at = "crossed"]
  /\ UnchangedByLoop /\ UNCHANGED <<loopStopped, fence, jobSetLease, lateEffects>>

Effect ==
  /\ loop.at = "crossed"
  /\ loop' = [loop EXCEPT !.at = "step"]
  /\ lateEffects' = IF loopStopped THEN lateEffects + 1 ELSE lateEffects
  /\ UnchangedByLoop /\ UNCHANGED <<loopStopped, fence, jobSetLease>>

\* executeRecoverySolverDaemonStep returns or throws.
StepEnds(ok) ==
  /\ loop.at = "step" \/ (loop.at = "crossed" /\ ~ok)
  /\ \/ ~ok /\ CycleEnds(InactiveReport(loop.job, loop.job - 1))
     \/ ok /\ loop.job < JobCount /\ NextJob(loop.job + 1)
     \/ ok /\ loop.job = JobCount /\ CycleEnds(ActiveReport)
  /\ UnchangedByLoop /\ UNCHANGED lateEffects

-------------------------------------------------------------------------------
(* Draining, cleanup and the environment. *)

\* Mutant of SupervisorDrains: the cycle in flight is not waited for.
SupervisorDrains_Early ==
  /\ sup = "stopping" /\ publishing = "none"
  /\ sup' = "stopped"
  /\ UNCHANGED <<bootVars, publishing, verificationVars, loopVars, resourceVars, reason,
                 lateEffects>>

\* The supervisor's shutdown promise: after the publication and the loop.
SupervisorDrains ==
  /\ sup = "stopping" /\ publishing = "none" /\ ~jobSetLease
  /\ sup' = "stopped"
  /\ UNCHANGED <<bootVars, publishing, verificationVars, loopVars, resourceVars, reason,
                 lateEffects>>

\* A running bootstrap follows its supervisor, and asks for its reason only.
BootFollows ==
  /\ boot = "running" /\ sup = "stopped"
  /\ StopBoot("background-failure")
  /\ UNCHANGED <<start, bootPublishing, preparation, publishing, resourceVars, lateEffects>>

\* The bootstrap's shutdown promise.
BootDrains ==
  /\ boot = "stopping" /\ ~bootPublishing /\ ~preparation /\ sup \in {"none", "stopped"}
  /\ boot' = "stopped"
  /\ UNCHANGED <<start, bootPublishing, preparation, sup, publishing, verificationVars, loopVars,
                 resourceVars, reason, lateEffects>>

\* cleanup: the verification, the store, then the lease.
CloseStore ==
  /\ boot = "stopped" /\ store = "open"
  /\ RevokeVerification
  /\ store' = "closed"
  /\ UNCHANGED <<bootVars, sup, publishing, loopVars, lease, reason, lateEffects>>

\* The last of it; the process ends.
ReleaseLease ==
  /\ store = "closed" /\ lease = "held"
  /\ Reset("none", "closed", "released")

\* The verification expires, is deactivated elsewhere, or sees the clock step back.
Expire ==
  /\ verification /\ verification' = FALSE
  /\ UNCHANGED <<bootVars, sup, publishing, verificationStopped, loopVars, resourceVars, reason,
                 lateEffects>>

Answers ==
  \E ok \in BOOLEAN :
    \/ FirstRefreshEnds(ok) \/ BootPublicationEnds(ok) \/ PreparationEnds(ok) \/ HandoffLeaseEnds(ok)
    \/ RefreshEnds(ok) \/ PublicationEnds(ok) \/ CycleLeaseEnds(ok)
StepReturns == \E ok \in BOOLEAN : StepEnds(ok)
Shutdown == SupervisorDrains \/ BootFollows \/ BootDrains \/ CloseStore \/ ReleaseLease

RecoveryNext ==
  \/ Answers \/ StepReturns \/ Shutdown
  \/ BootBeat \/ PreparationTimeout \/ SupervisorBeat \/ StartCycle \/ CrossBoundary \/ Effect
  \/ \E why \in {"requested", "aborted"} : Stop(why)
  \/ Expire

-------------------------------------------------------------------------------
\* docs/COORDINATOR.md: only after preparation and any action cycle have drained does the
\* service close the store and release the lease.  This includes a stop that comes during
\* the first publication, during the handoff or during the start of the supervisor.
DrainedBeforeClose ==
  /\ store = "closed" => /\ loop.at = NoCycle /\ ~jobSetLease
                         /\ ~preparation /\ ~bootPublishing /\ publishing = "none"
                         /\ sup \in {"none", "stopped"}
  /\ lease = "released" => store = "closed"

\* A stopped service holds no authority: no verification is active, also when a refresh
\* answers late, no fence is up, and at most the one effect that had crossed its boundary
\* happens after the stop.
StopRevokes ==
  /\ boot \in {"stopping", "stopped"} \/ sup \in {"stopping", "stopped"} => ~verification /\ ~fence
  /\ lateEffects <= 1

\* The service never builds a status that its validator refuses: a cycle that failed in a step,
\* whose counts do not reconcile, stops the service by its state and not by its report.
ReportPublishable == publishing # "refused"

\* Whatever the service awaits when it is stopped, it closes its store and its lease.
StopReleases == boot = "stopping" \/ sup = "stopping" ~> lease = "released"
================================================================================
