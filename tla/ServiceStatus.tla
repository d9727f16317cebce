----------------------------- MODULE ServiceStatus -----------------------------
(***************************************************************************)
(* What the services may publish: the validators that                      *)
(* lib/coordinator-service-state.mjs applies when a status is built, again *)
(* when it is published and again when the health of the service is read.  *)
(*                                                                         *)
(* A time is kept by how it compares: whether there was an attempt, and    *)
(* whether the last success is of that attempt, of an earlier one, or of   *)
(* none.  A digest is kept by what it commits to, or by its presence.      *)
(***************************************************************************)
EXTENDS Integers

CountNames == {"discovered", "eligible", "attempted", "advanced", "waiting", "gateClosed", "done",
               "halted", "backlog"}
EmptyCounts == [c \in CountNames |-> 0]

\* The counts of a cycle agree with each other, and every attempt has one outcome.
CountsReconcile(c) ==
  LET unmatched == c.discovered - c.eligible IN
  /\ c.eligible <= c.discovered /\ c.attempted <= c.eligible
  /\ c.backlog = c.eligible - c.attempted
  /\ c.gateClosed >= unmatched
  /\ c.advanced + c.waiting + c.done + c.halted + c.gateClosed - unmatched = c.attempted

\* validateActiveExecution: what each state of the lifecycle may report.
ActiveExecutionValid(x) ==
  LET empty == x.counts = EmptyCounts /\ ~x.cycleDigest IN
  /\ x.lastSuccess # "never" => x.attempted
  /\ CountsReconcile(x.counts)
  /\ CASE x.state = "idle" -> /\ ~x.attempted /\ x.lastSuccess = "never" /\ x.failures = 0
                              /\ empty /\ ~x.cursorDigest
       [] x.state = "running" -> x.attempted /\ x.failures = 0 /\ empty
       [] x.state = "active" -> /\ x.attempted /\ x.failures = 0 /\ x.cycleDigest
                                /\ x.lastSuccess = "this attempt" /\ x.counts.gateClosed = 0
       [] x.state = "degraded" -> /\ x.attempted /\ x.failures = 0 /\ x.cycleDigest
                                  /\ x.counts.gateClosed >= 1
       [] x.state = "inactive" -> x.attempted /\ x.failures >= 1 /\ empty
       [] x.state = "stopped" -> empty

\* An inactive verification keeps nothing of a release.
ReleaseVerificationValid(v) ==
  IF v.state = "inactive" THEN v.record = "none" ELSE v.state = "active" /\ v.record # "none"

ActiveStatusValid(s) ==
  /\ ReleaseVerificationValid(s.verification) /\ ActiveExecutionValid(s.execution)
  /\ s.execution.record = s.verification.record
  /\ s.authority = (s.verification.state = "active" /\ s.execution.state = "active")

BuildActiveStatus(v, x) ==
  [verification |-> v, execution |-> x, authority |-> v.state = "active" /\ x.state = "active"]

\* Health is green for a status with authority only.
Healthy(s) ==
  /\ ActiveStatusValid(s) /\ s.verification.state = "active" /\ s.execution.state = "active" /\ s.authority

-------------------------------------------------------------------------------
(* The recovery service, whose claims are for a token that is not paused. *)

\* An inactive verification keeps nothing of a release here, too.
RecoveryVerificationValid(v) == v.record = "none" <=> v.state = "inactive"

\* validateRecoveryAction: what each state of the action loop may report.  Every attempted step
\* has one result.
RecoveryActionValid(x, jobCount) ==
  LET empty == x.steps = 0 /\ x.results = 0 /\ ~x.cycleDigest IN
  /\ x.lastSuccess # "never" => x.attempted
  /\ x.steps <= jobCount /\ x.results = x.steps
  /\ CASE x.state = "idle" -> ~x.attempted /\ x.lastSuccess = "never" /\ x.failures = 0 /\ empty
       [] x.state = "running" -> x.attempted /\ empty
       [] x.state = "active" -> /\ x.attempted /\ x.lastSuccess = "this attempt" /\ x.failures = 0
                                /\ x.steps = jobCount /\ x.cycleDigest
       [] x.state = "inactive" -> x.attempted /\ x.failures >= 1
       [] x.state = "stopped" -> empty

RecoveryStatusValid(s, jobCount) ==
  /\ RecoveryVerificationValid(s.verification) /\ RecoveryActionValid(s.action, jobCount)
  /\ s.action.record = s.verification.record
  /\ s.claims = (s.verification.state = "active" /\ s.action.state = "active")

BuildRecoveryStatus(v, x) ==
  [verification |-> v, action |-> x, claims |-> v.state = "active" /\ x.state = "active"]
================================================================================
