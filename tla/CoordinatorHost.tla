---------------------------- MODULE CoordinatorHost ----------------------------
(***************************************************************************)
(* The two coordinator services of one host.  The active and the recovery  *)
(* service take the same lease, so that one of them runs at a time: either *)
(* may be started, stopped and killed, and the recovery service works on   *)
(* whatever the active one left, a BLOCKED run journal included, which it  *)
(* neither reads nor writes.                                               *)
(***************************************************************************)
EXTENDS ActiveService

CONSTANTS JobCount,      \* settlements of the fixed job set of the recovery service
          RecoverFrom    \* bound: states of the run journal in which recovery is started

ASSUME HostAssumption == JobCount \in Nat \ {0} /\ RecoverFrom # {}

\* The variables of the recovery service (module RecoveryService).
VARIABLES rStart, rBoot, rBootPublishing, rPreparation, rSup, rPublishing, rVerification,
          rVerificationStopped, rLoop, rLoopStopped, rFence, rJobSetLease, rStore, rLease, rReason,
          rLateEffects

Recovery == INSTANCE RecoveryService WITH
  start <- rStart, boot <- rBoot, bootPublishing <- rBootPublishing, preparation <- rPreparation,
  sup <- rSup, publishing <- rPublishing, verification <- rVerification,
  verificationStopped <- rVerificationStopped, loop <- rLoop, loopStopped <- rLoopStopped,
  fence <- rFence, jobSetLease <- rJobSetLease, store <- rStore, lease <- rLease,
  reason <- rReason, lateEffects <- rLateEffects

rVars == <<rStart, rBoot, rBootPublishing, rPreparation, rSup, rPublishing, rVerification,
           rVerificationStopped, rLoop, rLoopStopped, rFence, rJobSetLease, rStore, rLease, rReason,
           rLateEffects>>
hostVars == <<activeVars, rVars>>

RecoveryRuns == rLease = "held"

HostInit == ActiveInit /\ Recovery!NoService

\* The active process takes the lease, or goes on.
ActiveStep == ~RecoveryRuns /\ ActiveNext /\ UNCHANGED rVars

\* startCoordinatorRecoveryExecutionService acquires the lease that the active service
\* released, or that went stale after it died.
LaunchRecovery == /\ ~RecoveryRuns /\ proc = "down" /\ run.state \in RecoverFrom
                  /\ Recovery!Acquire /\ UNCHANGED activeVars

RecoveryStep == RecoveryRuns /\ Recovery!RecoveryNext /\ UNCHANGED activeVars

\* The recovery process dies; it keeps nothing.
CrashRecovery == RecoveryRuns /\ Recovery!Die /\ UNCHANGED activeVars

HostNext == ActiveStep \/ LaunchRecovery \/ RecoveryStep \/ CrashRecovery

HostSpec == HostInit /\ [][HostNext]_hostVars

\* In both services every await is bounded by a timeout of its own or by the abort signal
\* that the preparation must honour, a step of a job has no loop, and promises are
\* delivered; the clock, the operator and the crashes promise nothing.
FairHostSpec ==
  /\ HostSpec
  /\ WF_hostVars(~RecoveryRuns /\ Answers /\ UNCHANGED rVars)
  /\ WF_hostVars(~RecoveryRuns /\ Shutdown /\ UNCHANGED rVars)
  /\ WF_hostVars(Recovery!Answers /\ UNCHANGED activeVars)
  /\ SF_hostVars(Recovery!StepReturns /\ UNCHANGED activeVars)
  /\ WF_hostVars(Recovery!Effect /\ UNCHANGED activeVars)
  /\ WF_hostVars(Recovery!Shutdown /\ UNCHANGED activeVars)

-------------------------------------------------------------------------------
\* docs/COORDINATOR.md: a service closes its store, and releases its lease, only after
\* preparation, publication and cycles have drained, wherever a stop met it.  The one
\* exception is an active service whose release of the lease threw.  And a stopped recovery
\* service holds no authority: no verification is active, also when a refresh answers late, no
\* fence is up, and at most the one effect that had crossed its boundary follows the stop; until
\* then it publishes what the validator of its status accepts.
HostDrained ==
  /\ ClosedIsDrained /\ Recovery!DrainedBeforeClose
  /\ Recovery!StopRevokes /\ Recovery!ReportPublishable

\* Whatever a service awaits when it is stopped, its process ends and the other service can
\* take over.
HostStops == StopEnds /\ Recovery!StopReleases
================================================================================
