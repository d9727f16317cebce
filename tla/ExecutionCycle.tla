---------------------------- MODULE ExecutionCycle ----------------------------
(***************************************************************************)
(* lib/coordinator-active-execution-lifecycle.mjs: the loop that gives     *)
(* every nonterminal settlement its planner steps, with the cancellation   *)
(* fence of lib/active-solver-daemon-runtime.mjs and the release           *)
(* supervisor it revokes.                                                  *)
(*                                                                         *)
(* One action is the code between two awaits.  What a step does to its     *)
(* settlement is one of the outcomes of the runtime, chosen freely; the    *)
(* settlement ledger and the daemon have modules of their own.  The        *)
(* wrapping supervisor calls stop whenever a heartbeat, a publication or   *)
(* its operator asks for it, which is at any time.                         *)
(***************************************************************************)
EXTENDS ServiceStatus, Sequences, FiniteSets

CONSTANTS Settlements,              \* settlement identifiers, ordered as in the database
          Unmatched,                \* those without exactly one prepared policy
          MaxSettlementsPerCycle

LOCAL INSTANCE SequencesExt
LOCAL INSTANCE FiniteSetsExt

ASSUME CycleAssumption ==
  /\ Settlements \subseteq Nat \ {0} /\ IsFiniteSet(Settlements)
  /\ Unmatched \subseteq Settlements
  /\ MaxSettlementsPerCycle \in Nat \ {0}

VARIABLES ledger,           \* of each settlement: none, open, halted or terminal
          lifecycle, report, cursor, timer,
          fence,            \* the execution fence is active
          release,          \* the supervisor's current activation: active or not
          releaseStopped,   \* the supervisor was stopped
          cycle,            \* where the running cycle awaits, and the entries it still has
          effectsAfterStop  \* history: effects performed after the fence was revoked

cycleVars == <<ledger, lifecycle, report, cursor, timer, fence, release, releaseStopped, cycle,
               effectsAfterStop>>

NoCursor == 0
Outcomes == {"ADVANCED", "WAITING", "DONE", "HALTED", "GATE_CLOSED"}
NoResults == [o \in Outcomes |-> 0]
NoCycle == [at |-> "none", todo |-> <<>>, discovered |-> 0, results |-> NoResults]

\* statusRecord, for an attempt whose result is not known yet.
Idle == [state |-> "idle", attempted |-> FALSE, lastSuccess |-> "never", failures |-> 0, counts |-> EmptyCounts,
         cycleDigest |-> FALSE, cursorDigest |-> FALSE, record |-> "prepared"]

CycleInit ==
  /\ ledger \in [Settlements -> {"none", "open", "halted", "terminal"}]
  /\ lifecycle = "created" /\ report = Idle /\ cursor = NoCursor /\ timer = FALSE
  /\ fence = TRUE /\ release = TRUE /\ releaseStopped = FALSE
  /\ cycle = NoCycle /\ effectsAfterStop = 0

-------------------------------------------------------------------------------
(* Selecting the work of a cycle. *)

\* listNonterminalSettlements, each with its policy.
Entries ==
  [i \in 1 .. Cardinality({s \in Settlements : ledger[s] \in {"open", "halted"}}) |->
     LET s == SetToSortSeq({x \in Settlements : ledger[x] \in {"open", "halted"}}, <)[i]
     IN [settlement |-> [settlementId |-> s, halted |-> ledger[s] = "halted"],
         matched |-> s \notin Unmatched]]

Runnable(entry) == entry.matched /\ ~entry.settlement.halted

\* The comparison of rotateAfterCursor reads the field settlementId of the entry.
ComesAfter(entry, c) == "settlementId" \in DOMAIN entry /\ entry.settlementId > c

RotateAfterCursor(entries, c) ==
  LET after == {i \in DOMAIN entries : ComesAfter(entries[i], c)}
      first == Min(after)
  IN IF c = NoCursor \/ after = {} THEN entries
     ELSE SubSeq(entries, first, Len(entries)) \o SubSeq(entries, 1, first - 1)

Selected ==
  LET ordered == RotateAfterCursor(Entries, cursor)
  IN SubSeq(ordered, 1, IF Len(ordered) < MaxSettlementsPerCycle THEN Len(ordered)
                        ELSE MaxSettlementsPerCycle)

Current == cycle.todo[1].settlement.settlementId

-------------------------------------------------------------------------------
(* How a cycle ends. *)

\* deactivateActiveSolverDaemonExecutionFence and releaseSupervisor.stop().
Revoke == fence' = FALSE /\ release' = FALSE /\ releaseStopped' = TRUE

\* resultCounts: what a cycle discovered, what it could run, what its attempts came to, and
\* the halts its eligibility pass found.
ResultCounts(discovered, eligible, results, halted) ==
  LET attempted == results["ADVANCED"] + results["WAITING"] + results["DONE"] + results["HALTED"]
                     + results["GATE_CLOSED"] IN
  [discovered |-> discovered, eligible |-> eligible, attempted |-> attempted,
   advanced |-> results["ADVANCED"], waiting |-> results["WAITING"], done |-> results["DONE"],
   gateClosed |-> (discovered - eligible) + results["GATE_CLOSED"], halted |-> halted + results["HALTED"],
   backlog |-> IF eligible > attempted THEN eligible - attempted ELSE 0]

\* A status replaces the one before it; the counts are those of the cycle it reports.
Report(state, counts, digest, c) ==
  [report EXCEPT !.state = state, !.counts = counts, !.cycleDigest = digest, !.cursorDigest = c # NoCursor]

NothingClosed(counts) == counts.gateClosed = 0 /\ counts.halted = 0
\* The end of a cycle that made its attempts.
Completed(results, c) ==
  LET counts == ResultCounts(cycle.discovered, cycle.discovered, results, 0) IN
  [Report(IF NothingClosed(counts) THEN "active" ELSE "degraded", counts, TRUE, c) EXCEPT !.lastSuccess = "this attempt"]

\* A cycle that returns a status: start or schedule then arm the timer, unless a stop
\* came meanwhile.
Return(next) ==
  /\ cycle' = NoCycle
  /\ report' = next
  /\ lifecycle' = IF lifecycle = "starting" THEN "running" ELSE lifecycle
  /\ timer' = (lifecycle # "stopping")
  /\ UNCHANGED <<fence, release, releaseStopped>>

\* A cycle that throws: quietly once stopping, else recordFailedCycle, after which the
\* caller stops the lifecycle.
Throw ==
  /\ cycle' = NoCycle
  /\ \/ /\ lifecycle = "stopping"
        /\ UNCHANGED <<lifecycle, report, timer, fence, release, releaseStopped>>
     \/ /\ lifecycle # "stopping"
        /\ lifecycle' = "stopping" /\ timer' = FALSE
        /\ report' = [Report("inactive", EmptyCounts, FALSE, cursor) EXCEPT !.failures = 1, !.attempted = TRUE]
        /\ Revoke

\* The head of the loop over the selected entries.
BeginStep(next) ==
  \/ lifecycle # "stopping" /\ release
     /\ cycle' = [next EXCEPT !.at = "step"]
     /\ UNCHANGED <<lifecycle, report, timer, fence, release, releaseStopped>>
  \/ (lifecycle = "stopping" \/ ~release) /\ Throw

-------------------------------------------------------------------------------
(* The cycle, await by await. *)

\* Mutant of Attempt: the counts of the last cycle stay until the next ones are known.
Attempt_KeepsCounts(last) ==
  [last EXCEPT !.state = "running", !.attempted = TRUE,
               !.lastSuccess = IF @ = "never" THEN "never" ELSE "an earlier attempt",
               !.cursorDigest = cursor # NoCursor]

\* The status of a cycle that begins.
Attempt(last) ==
  [Report("running", EmptyCounts, FALSE, cursor) EXCEPT !.attempted = TRUE,
     !.lastSuccess = IF last.lastSuccess = "never" THEN "never" ELSE "an earlier attempt"]

\* start, or the timer: performCycle until its first await.  The clock may have stepped
\* back; the release may be due for a refresh, which first gives up the activation.
StartCycle ==
  /\ lifecycle = "created" \/ (lifecycle = "running" /\ timer)
  /\ LET started == IF lifecycle = "created" THEN "starting" ELSE lifecycle IN
     \/ \E due \in BOOLEAN :
          /\ due \/ release
          /\ cycle' = [NoCycle EXCEPT !.at = IF due THEN "refreshing" ELSE "lease"]
          /\ release' = (release /\ ~due)
          /\ lifecycle' = started /\ report' = Attempt(report) /\ timer' = FALSE
          /\ UNCHANGED <<fence, releaseStopped>>
     \/ Throw
  /\ UNCHANGED <<ledger, cursor, effectsAfterStop>>

\* Mutant of RefreshEnds: a refresh that stop aborts never answers.
RefreshEnds_Abandoned(ok) ==
  /\ cycle.at = "refreshing" /\ ~releaseStopped
  /\ \/ /\ ok
        /\ release' = TRUE
        /\ cycle' = [cycle EXCEPT !.at = "lease"]
        /\ UNCHANGED <<lifecycle, report, timer, fence, releaseStopped>>
     \/ ~ok /\ Throw
  /\ UNCHANGED <<ledger, cursor, effectsAfterStop>>

\* releaseSupervisor.refresh answers; an activation that arrives after its stop is
\* deactivated at once.
RefreshEnds(ok) ==
  /\ cycle.at = "refreshing"
  /\ \/ /\ ok /\ ~releaseStopped
        /\ release' = TRUE
        /\ cycle' = [cycle EXCEPT !.at = "lease"]
        /\ UNCHANGED <<lifecycle, report, timer, fence, releaseStopped>>
     \/ (~ok \/ releaseStopped) /\ Throw
  /\ UNCHANGED <<ledger, cursor, effectsAfterStop>>

\* The complete eligibility pass, and what a cycle that it ends reports.
Blocked == \E i \in DOMAIN Entries : ~Runnable(Entries[i])
PassCounts ==
  ResultCounts(Len(Entries), Cardinality({i \in DOMAIN Entries : Runnable(Entries[i])}), NoResults,
               Cardinality({i \in DOMAIN Entries : Entries[i].settlement.halted}))

\* The lease answers; with it the complete eligibility pass.  One unmatched or halted
\* settlement ends the cycle before any step.
LeaseEnds(ok) ==
  /\ cycle.at = "lease"
  /\ \/ ~ok /\ Throw
     \/ ok /\ Blocked /\ Return(Report("degraded", PassCounts, TRUE, cursor))
     \/ ok /\ Entries = <<>> /\ Return(Completed(NoResults, cursor))
     \/ /\ ok /\ Entries # <<>> /\ ~Blocked
        /\ BeginStep([cycle EXCEPT !.todo = Selected, !.discovered = Len(Entries)])
  /\ UNCHANGED <<ledger, cursor, effectsAfterStop>>

\* Mutant of CrossBoundary: the fence is checked when the step begins only.
CrossBoundary_Unfenced ==
  /\ cycle.at = "step" /\ ledger[Current] = "open"
  /\ cycle' = [cycle EXCEPT !.at = "crossed"]
  /\ UNCHANGED <<ledger, lifecycle, report, cursor, timer, fence, release, releaseStopped,
                 effectsAfterStop>>

\* beforeSideEffect lets the step through to its next mutation or request.
CrossBoundary ==
  /\ cycle.at = "step" /\ ledger[Current] = "open"
  /\ fence
  /\ cycle' = [cycle EXCEPT !.at = "crossed"]
  /\ UNCHANGED <<ledger, lifecycle, report, cursor, timer, fence, release, releaseStopped,
                 effectsAfterStop>>

\* The mutation or request itself.  It may halt the settlement, by a halt of the daemon
\* or by a reconciliation mismatch, or end it; the step then goes on.
StepEffect(result) ==
  /\ cycle.at = "crossed" /\ ledger[Current] = "open"
  /\ ledger' = [ledger EXCEPT ![Current] = result]
  /\ effectsAfterStop' = IF fence THEN effectsAfterStop ELSE effectsAfterStop + 1
  /\ cycle' = [cycle EXCEPT !.at = "step"]
  /\ UNCHANGED <<lifecycle, report, cursor, timer, fence, release, releaseStopped>>

\* executeActiveSolverDaemonStep returns.  HALTED is the result of a halt by the daemon
\* or of a halt found; a reconciliation that halts by mismatch returns ACTION_RECONCILED,
\* one of the ADVANCED outcomes.
StepEnds(outcome) ==
  /\ cycle.at = "step"
  /\ outcome = "HALTED" => ledger[Current] = "halted"
  /\ outcome = "DONE" => ledger[Current] = "terminal"
  /\ cursor' = Current
  /\ LET results == [cycle.results EXCEPT ![outcome] = @ + 1] IN
     \/ /\ outcome \in {"HALTED", "GATE_CLOSED"} \/ Len(cycle.todo) = 1
        /\ Return(Completed(results, Current))
     \/ /\ outcome \notin {"HALTED", "GATE_CLOSED"} /\ Len(cycle.todo) > 1
        /\ BeginStep([cycle EXCEPT !.todo = Tail(@), !.results = results])
  /\ UNCHANGED <<ledger, effectsAfterStop>>

\* Any await of a step may fail, and a mutation of a settlement that is no longer open does.
StepFails ==
  /\ cycle.at \in {"step", "crossed"}
  /\ Throw
  /\ UNCHANGED <<ledger, cursor, effectsAfterStop>>

-------------------------------------------------------------------------------
(* Around the cycle. *)

\* stop: revokes at once, whatever is running.
Stop ==
  /\ lifecycle \notin {"stopping", "stopped"}
  /\ lifecycle' = "stopping" /\ timer' = FALSE
  /\ Revoke
  /\ UNCHANGED <<ledger, report, cursor, cycle, effectsAfterStop>>

\* The shutdown promise: after the running cycle.
Drained ==
  /\ lifecycle = "stopping" /\ cycle = NoCycle
  /\ lifecycle' = "stopped" /\ report' = Report("stopped", EmptyCounts, FALSE, cursor)
  /\ UNCHANGED <<ledger, cursor, timer, fence, release, releaseStopped, cycle, effectsAfterStop>>

\* The activation expires, or is deactivated from outside.
Expire ==
  /\ release /\ release' = FALSE
  /\ UNCHANGED <<ledger, lifecycle, report, cursor, timer, fence, releaseStopped, cycle,
                 effectsAfterStop>>

\* Another writer of the database: admission, or the last effect of a superseded process.
Elsewhere(s) ==
  /\ \/ ledger[s] = "none" /\ ledger' = [ledger EXCEPT ![s] = "open"]
     \/ ledger[s] = "open" /\ \E st \in {"halted", "terminal"} : ledger' = [ledger EXCEPT ![s] = st]
  /\ UNCHANGED <<lifecycle, report, cursor, timer, fence, release, releaseStopped, cycle,
                 effectsAfterStop>>

StepReturns == \E outcome \in Outcomes : StepEnds(outcome)
CycleStep ==
  \/ \E ok \in BOOLEAN : RefreshEnds(ok) \/ LeaseEnds(ok)
  \/ CrossBoundary
  \/ \E result \in {"open", "halted", "terminal"} : StepEffect(result)
  \/ StepReturns
  \/ StepFails

CycleNext ==
  \/ StartCycle \/ CycleStep
  \/ Stop \/ Drained \/ Expire
  \/ \E s \in Settlements : Elsewhere(s)

CycleSpec == CycleInit /\ [][CycleNext]_cycleVars

\* Every await of the cycle is bounded by a timeout and a step has no loop, so a cycle
\* goes on and its steps return; the timer fires; a drained lifecycle stops.
FairCycleSpec ==
  /\ CycleSpec
  /\ WF_cycleVars(CycleStep) /\ SF_cycleVars(StepReturns \/ StepFails)
  /\ WF_cycleVars(StartCycle) /\ WF_cycleVars(Drained)

-------------------------------------------------------------------------------
\* docs/COORDINATOR.md: a mutation or request that has not crossed its final boundary
\* cannot start after shutdown.  So at most one effect follows the revocation.
OneEffectAfterRevocation == effectsAfterStop <= 1

\* Whatever the cycle awaits, a shutdown completes.
StopCompletes == lifecycle = "stopping" ~> lifecycle = "stopped"

\* publishStatus of the supervisor, whose heartbeat may come at any time.
Publishable == release /\ report.state \notin {"inactive", "stopped"}
Status == BuildActiveStatus([state |-> IF release THEN "active" ELSE "inactive",
                             record |-> IF release THEN "prepared" ELSE "none"], report)

\* The lifecycle and the validator of its status agree: whenever a heartbeat comes, between any
\* two awaits of a cycle, the status is accepted, and it is green only after a complete cycle
\* in which everything discovered was eligible and nothing was closed.  (A refused status stops
\* the service.)  Settlements that are halted are the subject of HaltIsReported.
ReportAccepted ==
  /\ Publishable /\ report.counts.halted = 0 => ActiveStatusValid(Status)
  /\ Healthy(Status) => report.counts.eligible = report.counts.discovered /\ cycle = NoCycle

\* docs/COORDINATOR.md: an already-halted settlement makes the cycle degraded, and all authority
\* is reported false.  So that status, too, is one the service can publish.
HaltIsReported == Publishable => ActiveStatusValid(Status)
===============================================================================
