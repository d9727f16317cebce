----------------------------- MODULE ActiveService -----------------------------
(***************************************************************************)
(* The active execution service: the process started by                    *)
(* lib/coordinator-active-execution-service.mjs with its bootstrap, the    *)
(* supervisor of lib/coordinator-active-execution-supervisor.mjs, and the  *)
(* durable run journal of lib/coordinator-store.mjs that counts failures   *)
(* across restarts and opens the crash-loop breaker.                       *)
(*                                                                         *)
(* One action is the code between two awaits.  A cycle of the lifecycle    *)
(* (module ExecutionCycle) is one asynchronous operation here.  The        *)
(* process may die anywhere; only the journal survives.  The lease is this *)
(* process's view of it: module ServiceLease has the files.                *)
(***************************************************************************)
EXTENDS Integers, Sequences

CONSTANTS FailureWindowSeconds, MaximumFailures,
          MaxClock, MaxRuns       \* bounds on the clock and on the starts of the process

ASSUME ActiveAssumption ==
  FailureWindowSeconds \in Nat \ {0} /\ MaximumFailures \in Nat \ {0} /\ MaxClock \in Nat /\ MaxRuns \in Nat

VARIABLES clock,
          run,            \* the service-run journal
          proc,           \* the process: down, starting, up, cleaning
          start, boot, bootPublishing, preparation,
          sup, publishing,
          release,        \* the release supervisor: active, inactive or stopped
          exec,           \* the lifecycle: its state, and whether a cycle is in flight
          leaseRelease,   \* the supervisor's release of the lease: none, out, done or thrown
          store, reason,
          started, stopped,   \* history: the runs begun, and those that ended clean
          failures        \* history: the recorded failures, each with its time and its number in its window

procVars == <<proc, start, boot, bootPublishing, preparation, sup, publishing, release, exec,
              leaseRelease, store, reason>>
activeVars == <<clock, run, procVars, started, stopped, failures>>

Unset == -1      \* a time that is null
NoRun == [state |-> "NEVER_STARTED", startedAt |-> Unset, updatedAt |-> Unset, outcome |-> "none",
          lastStatusAt |-> Unset, windowAt |-> Unset, count |-> 0, failureAt |-> Unset]

FreshProcess(p) ==
  /\ proc' = p /\ boot' = "none" /\ bootPublishing' = FALSE /\ preparation' = FALSE
  /\ sup' = "none" /\ publishing' = FALSE /\ exec' = [state |-> "idle", cycle |-> FALSE]
  /\ leaseRelease' = "none"

ActiveInit ==
  /\ clock = 0 /\ run = NoRun
  /\ proc = "down" /\ start = "none" /\ boot = "none" /\ bootPublishing = FALSE /\ preparation = FALSE
  /\ sup = "none" /\ publishing = FALSE /\ release = "inactive" /\ exec = [state |-> "idle", cycle |-> FALSE]
  /\ leaseRelease = "none" /\ store = "closed" /\ reason = "none"
  /\ started = 0 /\ stopped = 0 /\ failures = << >>

-------------------------------------------------------------------------------
(* The service-run journal. *)

\* A failure window older than its length is forgotten.
Expired(r) == r.windowAt # Unset /\ clock - r.windowAt >= FailureWindowSeconds
Forget(r) == [r EXCEPT !.count = 0, !.windowAt = Unset, !.failureAt = Unset]

CountFailure(r) ==
  [r EXCEPT !.count = @ + 1, !.failureAt = clock, !.windowAt = IF @ = Unset THEN clock ELSE @]

\* What beginServiceRun makes of the previous record: a run still RUNNING is an abrupt exit.
Recovered(r) ==
  LET kept == IF Expired(r) THEN Forget(r) ELSE r
  IN IF r.state = "RUNNING" THEN CountFailure(kept) ELSE kept

\* Mutant of Begin: the breaker compares after the run is admitted.
Begin_OffByOne(r) ==
  LET seen == Recovered(r)
  IN [seen EXCEPT !.state = IF seen.count > MaximumFailures THEN "BLOCKED" ELSE "RUNNING",
                  !.outcome = IF seen.count > MaximumFailures THEN "crash-loop-open" ELSE "none",
                  !.startedAt = clock, !.updatedAt = clock, !.lastStatusAt = Unset]

\* beginServiceRun: the record it writes.
Begin(r) ==
  LET seen == Recovered(r)
      blocked == seen.count >= MaximumFailures
  IN [seen EXCEPT !.state = IF blocked THEN "BLOCKED" ELSE "RUNNING",
                  !.outcome = IF blocked THEN "crash-loop-open" ELSE "none",
                  !.startedAt = clock, !.updatedAt = clock, !.lastStatusAt = Unset]

\* finishServiceRun: the record it writes.
Finish(r, why) ==
  LET kept == IF Expired(r) THEN Forget(r) ELSE r
  IN IF why \in {"requested", "aborted"}
     THEN [kept EXCEPT !.state = "STOPPED", !.outcome = why, !.updatedAt = clock]
     ELSE [CountFailure(kept) EXCEPT !.state = "FAILED", !.outcome = why, !.updatedAt = clock]

WithFailure(next) == Append(failures, [at |-> clock, nth |-> next.count])

\* The consistency that readServiceRunState demands of the record, at every start, status
\* and finish: a record it refuses would stop every later run.
Readable(r) ==
  /\ (r.count = 0) = (r.windowAt = Unset) /\ (r.count = 0) = (r.failureAt = Unset)
  /\ r.count <= MaximumFailures
  /\ r.updatedAt >= r.startedAt
  /\ r.lastStatusAt # Unset => r.lastStatusAt \in r.startedAt .. r.updatedAt
  /\ r.windowAt # Unset => r.failureAt >= r.windowAt /\ r.failureAt <= r.updatedAt
  /\ r.state = "RUNNING" => r.outcome = "none" /\ r.count < MaximumFailures
  /\ r.state = "STOPPED" => r.outcome \in {"requested", "aborted"}
  /\ r.state = "FAILED" => r.outcome \in {"startup-failure", "background-failure"} /\ r.count > 0
  /\ r.state = "BLOCKED" => r.count >= MaximumFailures /\ r.lastStatusAt = Unset

-------------------------------------------------------------------------------
(* Starting the process. *)

\* The lease, the store, the interrupted actions and the begin of the run, in one step: a
\* crash before the run is begun leaves nothing.  Where the clock stepped back behind the
\* record, or the breaker is open, the process cleans up and exits.
Launch ==
  /\ proc = "down" /\ started < MaxRuns
  /\ clock >= run.updatedAt
  /\ LET next == Begin(run) IN
     /\ run' = next
     /\ failures' = IF run.state = "RUNNING" THEN WithFailure(next) ELSE failures
     /\ \/ /\ next.state = "RUNNING"
           /\ started' = started + 1
           /\ FreshProcess("starting")
           /\ start' = "verifying" /\ store' = "open" /\ release' = "inactive" /\ reason' = "none"
        \/ /\ next.state = "BLOCKED"
           /\ UNCHANGED <<started, procVars>>
  /\ UNCHANGED <<clock, stopped>>

\* The first refresh of the release answers; with an active release the bootstrap starts
\* its first publication.
FirstRefreshEnds(ok) ==
  /\ proc = "starting" /\ start = "verifying"
  /\ \/ /\ ok
        /\ proc' = "up" /\ boot' = "starting" /\ start' = "first status" /\ bootPublishing' = TRUE
        /\ release' = "active"
        /\ UNCHANGED reason
     \/ /\ ~ok
        /\ proc' = "up" /\ boot' = "stopped" /\ start' = "failed" /\ release' = "stopped"
        /\ reason' \in {"startup-failure", "aborted"}
        /\ UNCHANGED bootPublishing
  /\ UNCHANGED <<clock, run, preparation, sup, publishing, exec, leaseRelease, store, started, stopped, failures>>

-------------------------------------------------------------------------------
(* Stopping. *)

\* stop of the supervisor: the lifecycle is stopped, which revokes the release, and the
\* lease is given back while a cycle may still be in flight.
HaltSupervisor ==
  /\ sup' = "stopping" /\ leaseRelease' = "out"
  /\ release' = "stopped"
  /\ exec' = [exec EXCEPT !.state = "stopped"]

\* stop of the bootstrap: the first reason stands.
StopBoot(why) ==
  /\ boot' = "stopping" /\ reason' = why
  /\ \/ sup \in {"starting", "running"} /\ HaltSupervisor
     \/ sup = "none" /\ release' = "stopped" /\ UNCHANGED <<sup, leaseRelease, exec>>
     \/ sup \in {"stopping", "stopped"} /\ UNCHANGED <<sup, leaseRelease, release, exec>>

FailStart(why) ==
  \/ boot = "starting" /\ StopBoot(why)
  \/ boot # "starting" /\ UNCHANGED <<boot, reason, sup, leaseRelease, release, exec>>

Keep == UNCHANGED <<boot, reason, sup, leaseRelease, release, exec>>
KeepRest == UNCHANGED <<clock, run, proc, store, started, stopped, failures>>

Stop(why) ==
  /\ boot \in {"starting", "running"}
  /\ StopBoot(why)
  /\ KeepRest /\ UNCHANGED <<start, bootPublishing, preparation, publishing>>

-------------------------------------------------------------------------------
(* The bootstrap. *)

\* recordServiceRunStatus: refused once the record is no longer this run's, or the clock is
\* behind it.
RecordStatus ==
  /\ run.state = "RUNNING" /\ clock >= run.startedAt /\ clock >= run.lastStatusAt
  /\ run' = [run EXCEPT !.updatedAt = clock, !.lastStatusAt = clock]

\* publishPreparationStatus, and the status of the supervisor: the journal first, then the
\* file.  Any of its awaits may fail; before or after the journal was written.
Recorded(ok) == RecordStatus \/ (~ok /\ UNCHANGED run)

Handoff ==
  \/ boot = "starting" /\ release = "active" /\ start' = "lease" /\ Keep
  \/ /\ boot # "starting" \/ release # "active"
     /\ start' = "failed" /\ FailStart("startup-failure")

BootBeat ==
  /\ boot = "starting" /\ start = "preparing" /\ ~bootPublishing
  /\ \/ release = "active" /\ bootPublishing' = TRUE /\ Keep
     \/ release # "active" /\ StopBoot("background-failure") /\ UNCHANGED bootPublishing
  /\ KeepRest /\ UNCHANGED <<start, preparation, publishing>>

BootPublicationEnds(ok) ==
  /\ bootPublishing /\ bootPublishing' = FALSE
  /\ Recorded(ok)
  /\ \/ ok /\ start = "first status" /\ start' = "preparing" /\ preparation' = TRUE /\ Keep
     \/ ok /\ start = "preparing" /\ Keep /\ UNCHANGED <<start, preparation>>
     \/ ok /\ start = "handoff" /\ Handoff /\ UNCHANGED preparation
     \/ /\ ~ok
        /\ start' = IF start = "preparing" THEN start ELSE "failed"
        /\ FailStart(IF start = "first status" THEN "startup-failure" ELSE "background-failure")
        /\ UNCHANGED preparation
  /\ UNCHANGED <<clock, proc, publishing, store, started, stopped, failures>>

\* prepareExecutionPolicySet ends, or its timeout stops the service, which then waits for it.
PreparationEnds(ok) ==
  /\ preparation /\ preparation' = FALSE
  /\ \/ ok /\ boot = "starting" /\ bootPublishing /\ start' = "handoff" /\ Keep
     \/ ok /\ (boot # "starting" \/ ~bootPublishing) /\ Handoff
     \/ ~ok /\ start' = "failed" /\ FailStart("startup-failure")
  /\ KeepRest /\ UNCHANGED <<bootPublishing, publishing>>

PreparationTimeout ==
  /\ boot = "starting" /\ preparation
  /\ StopBoot("background-failure")
  /\ KeepRest /\ UNCHANGED <<start, bootPublishing, preparation, publishing>>

\* The last lease check; the supervisor asks for an active release and starts the first
\* cycle of the lifecycle.
HandoffLeaseEnds(ok) ==
  /\ start = "lease"
  /\ \/ /\ ok /\ release = "active"
        /\ start' = "first cycle" /\ sup' = "starting"
        /\ exec' = [state |-> "running", cycle |-> TRUE]
        /\ UNCHANGED <<boot, reason, leaseRelease, release>>
     \/ /\ ~ok \/ release # "active"
        /\ start' = "failed" /\ FailStart("startup-failure")
  /\ KeepRest /\ UNCHANGED <<bootPublishing, preparation, publishing>>

-------------------------------------------------------------------------------
(* The supervisor and the cycles of the lifecycle. *)

\* A failed cycle, or a failed publication: the supervisor that starts takes the bootstrap
\* with it, the one that runs stops by itself.
SupervisorFails ==
  \/ sup = "starting" /\ StopBoot("startup-failure") /\ start' = "failed"
  \/ sup = "running" /\ HaltSupervisor /\ reason' = "background-failure" /\ UNCHANGED <<boot, start>>
  \/ sup \in {"stopping", "stopped"} /\ Keep /\ UNCHANGED start

StartCycle ==
  /\ sup = "running" /\ ~exec.cycle
  /\ exec' = [state |-> "running", cycle |-> TRUE]
  /\ KeepRest
  /\ UNCHANGED <<start, boot, bootPublishing, preparation, sup, publishing, release, leaseRelease, reason>>

\* A cycle ends with a state, or throws; a stopped one is only waited for.
CycleEnds(state) ==
  /\ exec.cycle
  /\ \/ /\ sup = "running" /\ state # "inactive"
        /\ exec' = [state |-> state, cycle |-> FALSE]
        /\ UNCHANGED <<start, boot, sup, release, leaseRelease, reason, publishing>>
     \/ /\ sup = "starting" /\ state # "inactive"
        /\ exec' = [state |-> state, cycle |-> FALSE]
        /\ start' = "supervisor" /\ publishing' = TRUE
        /\ UNCHANGED <<boot, sup, release, leaseRelease, reason>>
     \/ /\ sup \in {"starting", "running"} /\ state = "inactive"
        /\ sup' = "stopping" /\ leaseRelease' = "out" /\ release' = "stopped"
        /\ exec' = [state |-> "stopped", cycle |-> FALSE]
        /\ boot' = IF sup = "starting" THEN "stopping" ELSE boot
        /\ start' = IF sup = "starting" THEN "failed" ELSE start
        /\ reason' = IF sup = "starting" THEN "startup-failure" ELSE "background-failure"
        /\ UNCHANGED publishing
     \/ /\ sup \in {"stopping", "stopped"}
        /\ exec' = [exec EXCEPT !.cycle = FALSE]
        /\ UNCHANGED <<start, boot, sup, release, leaseRelease, reason, publishing>>
  /\ KeepRest /\ UNCHANGED <<bootPublishing, preparation>>

\* The heartbeat: a release that is not active, or a lifecycle that is inactive, fails it.
SupervisorBeat ==
  /\ sup = "running" /\ ~publishing
  /\ \/ release = "active" /\ publishing' = TRUE /\ Keep /\ UNCHANGED start
     \/ release # "active" /\ SupervisorFails /\ UNCHANGED publishing
  /\ KeepRest /\ UNCHANGED <<bootPublishing, preparation>>

PublicationEnds(ok) ==
  /\ publishing /\ publishing' = FALSE
  /\ Recorded(ok)
  /\ \/ ~ok /\ SupervisorFails
     \/ /\ ok /\ sup = "starting"
        /\ sup' = "running" /\ boot' = "running" /\ start' = "done"
        /\ UNCHANGED <<reason, leaseRelease, release, exec>>
     \/ ok /\ sup # "starting" /\ Keep /\ start' = IF start = "supervisor" THEN "failed" ELSE start
  /\ UNCHANGED <<clock, proc, bootPublishing, preparation, store, started, stopped, failures>>

-------------------------------------------------------------------------------
(* Draining and cleanup. *)

\* serviceLease.release answers: false for a lease that is lost or stale, an exception for
\* a lease directory that is incomplete or whose identity is mixed.
LeaseReleaseEnds(how) ==
  /\ leaseRelease = "out" /\ leaseRelease' = how
  /\ KeepRest
  /\ UNCHANGED <<start, boot, bootPublishing, preparation, sup, publishing, release, exec, reason>>

\* The shutdown promise awaits the publication, then the release of the lease, then the
\* lifecycle; a release that throws rejects it before the lifecycle was awaited.
SupervisorDrains ==
  /\ sup = "stopping" /\ ~publishing
  /\ leaseRelease = "thrown" \/ (leaseRelease = "done" /\ ~exec.cycle)
  /\ sup' = "stopped"
  /\ KeepRest
  /\ UNCHANGED <<start, boot, bootPublishing, preparation, publishing, release, exec, leaseRelease, reason>>

BootFollows ==
  /\ boot = "running" /\ sup = "stopped"
  /\ StopBoot("background-failure")
  /\ KeepRest /\ UNCHANGED <<start, bootPublishing, preparation, publishing>>

BootDrains ==
  /\ boot = "stopping" /\ ~bootPublishing /\ ~preparation /\ sup \in {"none", "stopped"}
  /\ boot' = "stopped"
  /\ KeepRest
  /\ UNCHANGED <<start, bootPublishing, preparation, sup, publishing, release, exec, leaseRelease, reason>>

\* cleanup: finishes the run and closes the store.  A rejected shutdown is a background
\* failure whatever the reason was; a finish before the record's own time throws, which
\* leaves the run RUNNING and lets the cleanup go on.
Cleanup ==
  /\ boot = "stopped" /\ proc = "up"
  /\ LET why == IF leaseRelease = "thrown" THEN "background-failure" ELSE reason
         clean == why \in {"requested", "aborted"}
         next == Finish(run, why)
     IN IF clock >= run.updatedAt
        THEN /\ run' = next
             /\ stopped' = IF clean THEN stopped + 1 ELSE stopped
             /\ failures' = IF clean THEN failures ELSE WithFailure(next)
        ELSE UNCHANGED <<run, stopped, failures>>
  /\ store' = "closed" /\ release' = "stopped" /\ proc' = "cleaning"
  /\ UNCHANGED <<clock, start, boot, bootPublishing, preparation, sup, publishing, exec, leaseRelease, reason,
                 started>>

\* The lease is given back and the process ends when nothing is in flight any more.
Exit ==
  /\ proc = "cleaning" /\ ~exec.cycle
  /\ FreshProcess("down") /\ start' = "none" /\ release' = "inactive" /\ reason' = "none"
  /\ UNCHANGED <<clock, run, store, started, stopped, failures>>

-------------------------------------------------------------------------------
(* The environment. *)

Crash ==
  /\ proc # "down"
  /\ FreshProcess("down") /\ start' = "none" /\ release' = "inactive" /\ reason' = "none"
  /\ store' = "closed"
  /\ UNCHANGED <<clock, run, started, stopped, failures>>

\* The release expires or is deactivated.
Expire ==
  /\ release = "active" /\ release' = "inactive"
  /\ KeepRest
  /\ UNCHANGED <<start, boot, bootPublishing, preparation, sup, publishing, exec, leaseRelease, reason>>

\* Time passes, or the wall clock is set back.
SetClock(t) ==
  /\ t = clock + 1 \/ t = clock - 1
  /\ t \in 0 .. MaxClock
  /\ clock' = t
  /\ UNCHANGED <<run, procVars, started, stopped, failures>>

Answers ==
  \/ \E ok \in BOOLEAN : FirstRefreshEnds(ok) \/ BootPublicationEnds(ok) \/ PreparationEnds(ok)
                         \/ HandoffLeaseEnds(ok) \/ PublicationEnds(ok)
  \/ \E how \in {"done", "thrown"} : LeaseReleaseEnds(how)
  \/ \E state \in {"active", "degraded", "inactive"} : CycleEnds(state)
Shutdown == SupervisorDrains \/ BootFollows \/ BootDrains \/ Cleanup \/ Exit

ActiveNext ==
  \/ Launch \/ Answers \/ Shutdown
  \/ BootBeat \/ PreparationTimeout \/ StartCycle \/ SupervisorBeat
  \/ \E why \in {"requested", "aborted"} : Stop(why)
  \/ Crash \/ Expire
  \/ \E t \in 0 .. MaxClock : SetClock(t)

-------------------------------------------------------------------------------
\* Every run that the journal ever began ended clean, had its failure counted once, or is the
\* one the record still calls RUNNING.
RunsAccounted == started = stopped + Len(failures) + IF run.state = "RUNNING" THEN 1 ELSE 0

\* The window of the breaker is anchored at its first failure and does not slide: a span of
\* FailureWindowSeconds may hold the failures of two windows, but not all of them.
BreakerBounds ==
  \A i, j \in 1 .. Len(failures) :
    j = i + 2 * MaximumFailures - 1 => failures[j].at >= failures[i].at + FailureWindowSeconds

\* The run journal is sound, whatever died when and however the clock was set: the runs are
\* accounted for, no sequence of starts, statuses, stops and crashes writes a record that
\* readServiceRunState refuses, which would stop every later run, and the breaker bounds a
\* crash loop.
JournalSound == RunsAccounted /\ Readable(run) /\ BreakerBounds

\* docs/COORDINATOR.md: cleanup comes after preparation and execution have drained.  The
\* store is closed under a cycle in flight only when the release of the lease threw.
ClosedIsDrained ==
  proc = "cleaning" => /\ ~preparation /\ ~bootPublishing /\ ~publishing
                       /\ exec.cycle => leaseRelease = "thrown"

\* A stop ends the process, whatever it awaits.
StopEnds == (boot = "stopping" \/ sup = "stopping") ~> proc = "down"
================================================================================
