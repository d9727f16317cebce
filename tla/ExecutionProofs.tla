---------------------------- MODULE ExecutionProofs ----------------------------
(***************************************************************************)
(* The two guards in front of an effect of the coordinator service.        *)
(*                                                                         *)
(* Between processes, the lease: a process that lost it performs at most   *)
(* one more effect, for any number of processes, any stale interval and    *)
(* any pauses.                                                             *)
(*                                                                         *)
(* Inside one, the fence of the execution cycle: one effect at most        *)
(* follows its revocation, because the check that precedes every effect    *)
(* can be passed only before it.  And the status a cycle leaves behind is  *)
(* one its validator accepts, for any settlements, any policies and any    *)
(* batch size: the counts of a cycle agree because what it attempted and   *)
(* what it still has to do never exceed what it discovered.                *)
(***************************************************************************)
EXTENDS ExecutionCycle, ServiceLease, FiniteSetTheorems, SequenceTheorems, TLAPS

\* The initial state satisfies the invariant.
LEMMA LeaseInitInv == LeaseInit => LeaseInv
<1> SUFFICES ASSUME LeaseInit PROVE LeaseInv
  OBVIOUS
<1>1. LeaseTypeOK
  BY DEF LeaseInit, LeaseTypeOK, NoLease, Phases
<1>2. LateIsLast
  <2> SUFFICES ASSUME NEW p \in Processes
               PROVE  /\ lateEffects[p] <= 1
                      /\ lateEffects[p] = 1 => lease.owner # p /\ phase[p] \in {"holding", "gone"}
    BY DEF LateIsLast
  <2>1. lateEffects[p] = 0
    BY DEF LeaseInit
  <2>2. lateEffects[p] <= 1 /\ lateEffects[p] # 1
    BY <2>1
  <2> QED
    BY <2>2, Zenon
<1> QED
  BY <1>1, <1>2 DEF LeaseInv

\* Every step of every process, of the clock and of a crash preserves it.
LEMMA LeaseStepInv == LeaseInv /\ [LeaseNext]_leaseVars => LeaseInv'
<1> SUFFICES ASSUME LeaseInv, [LeaseNext]_leaseVars PROVE LeaseInv'
  OBVIOUS
<1> USE LeaseAssumption DEF LeaseInv, LeaseTypeOK, LateIsLast, NoLease, EmptyLease, Phases, Enter, Exists
<1>1. ASSUME NEW p \in Processes, MakeDirectory(p) PROVE LeaseInv'
  BY <1>1 DEF MakeDirectory
<1>2. ASSUME NEW p \in Processes, FindStale(p) PROVE LeaseInv'
  BY <1>2 DEF FindStale
<1>3. ASSUME NEW p \in Processes, Quarantine(p) PROVE LeaseInv'
  BY <1>3 DEF Quarantine
<1>4. ASSUME NEW p \in Processes, WriteOwner(p) PROVE LeaseInv'
  <2>1. lateEffects[p] # 1
    BY <1>4 DEF WriteOwner
  <2>2. CASE lease.owner = Absent
    <3>1. LeaseTypeOK'
      BY <1>4, <2>2 DEF WriteOwner
    <3>2. LateIsLast'
      BY <1>4, <2>1, <2>2 DEF WriteOwner
    <3> QED
      BY <3>1, <3>2
  <2>3. CASE ~(lease.owner = Absent)
    <3>1. LeaseTypeOK'
      BY <1>4, <2>3 DEF WriteOwner
    <3>2. LateIsLast'
      BY <1>4, <2>1, <2>3 DEF WriteOwner
    <3> QED
      BY <3>1, <3>2
  <2> QED
    BY <2>2, <2>3
<1>5. ASSUME NEW p \in Processes, WriteHeartbeat(p) PROVE LeaseInv'
  <2>1. lateEffects[p] # 1
    BY <1>5 DEF WriteHeartbeat
  <2>2. CASE Exists /\ lease.heartbeat = Absent
    <3>1. LeaseTypeOK'
      <4>1. heartbeatAt[p] \in Nat
        OBVIOUS
      <4>2. lease' = [lease EXCEPT !.heartbeat = p, !.heartbeatAt = heartbeatAt[p]]
        BY <1>5, <2>2 DEF WriteHeartbeat
      <4>3. lease' \in [owner : Processes \cup {Absent, NoDirectory}, heartbeat : Processes \cup {Absent},
                        heartbeatAt : Nat, status : Processes \cup {Absent}]
        BY <4>1, <4>2
      <4> QED
        BY <1>5, <2>2, <4>3 DEF WriteHeartbeat
    <3>2. LateIsLast'
      BY <1>5, <2>1, <2>2 DEF WriteHeartbeat
    <3> QED
      BY <3>1, <3>2
  <2>3. CASE ~(Exists /\ lease.heartbeat = Absent)
    <3>1. LeaseTypeOK'
      BY <1>5, <2>3 DEF WriteHeartbeat
    <3>2. LateIsLast'
      BY <1>5, <2>1, <2>3 DEF WriteHeartbeat
    <3> QED
      BY <3>1, <3>2
  <2> QED
    BY <2>2, <2>3
<1>6. ASSUME NEW p \in Processes, NEW next \in {"publishing", "releasing", "working"}, Check(p, next)
      PROVE LeaseInv'
  <2>1. LeaseTypeOK'
    BY <1>6 DEF Check
  <2>2. lateEffects[p] # 1
    BY <1>6 DEF Check, RequireOwnership
  <2>3. LateIsLast'
    BY <1>6, <2>2 DEF Check
  <2> QED
    BY <2>1, <2>3
<1>7. ASSUME NEW p \in Processes, ReplaceStatus(p) PROVE LeaseInv'
  BY <1>7 DEF ReplaceStatus
<1>8. ASSUME NEW p \in Processes, ReplaceHeartbeat(p) PROVE LeaseInv'
  BY <1>8 DEF ReplaceHeartbeat
<1>9. ASSUME NEW p \in Processes, RemoveDirectory(p) PROVE LeaseInv'
  BY <1>9 DEF RemoveDirectory
<1>10. ASSUME NEW p \in Processes, Effect(p) PROVE LeaseInv'
  BY <1>10 DEF Effect
<1>11. ASSUME NEW p \in Processes, Crash(p) PROVE LeaseInv'
  BY <1>11 DEF Crash
<1>12. CASE Tick
  BY <1>12 DEF Tick
<1>13. CASE UNCHANGED leaseVars
  BY <1>13 DEF leaseVars
<1> QED
  BY <1>1, <1>2, <1>3, <1>4, <1>5, <1>6, <1>7, <1>8, <1>9, <1>10, <1>11, <1>12, <1>13 DEF LeaseNext

\* requireOwnership before every effect bounds what a superseded owner can still do:
\* at most the one effect it had checked for before the lease was taken.
THEOREM LeaseOneLateEffect == LeaseSpec => []OneLateEffect
<1>1. LeaseInv => OneLateEffect
  BY DEF LeaseInv, LateIsLast, OneLateEffect
<1> QED
  BY <1>1, LeaseInitInv, LeaseStepInv, PTL DEF LeaseSpec

-------------------------------------------------------------------------------
(* The fence. *)

AwaitPoints == {"none", "refreshing", "lease", "step", "crossed"}
Cycles(S) == [at : AwaitPoints, todo : Seq(S), discovered : Nat, results : [Outcomes -> Nat]]
ReportStates == {"idle", "running", "active", "degraded", "inactive", "stopped"}
Reports == [state : ReportStates, attempted : BOOLEAN, lastSuccess : {"never", "this attempt", "an earlier attempt"},
            failures : {0, 1}, counts : [CountNames -> Int], cycleDigest : BOOLEAN, cursorDigest : BOOLEAN,
            record : {"prepared"}]
Attempts(results) ==
  results["ADVANCED"] + results["WAITING"] + results["DONE"] + results["HALTED"] + results["GATE_CLOSED"]

CycleTypeOK ==
  /\ ledger \in [Settlements -> {"none", "open", "halted", "terminal"}]
  /\ lifecycle \in {"created", "starting", "running", "stopping", "stopped"}
  /\ fence \in BOOLEAN /\ effectsAfterStop \in {0, 1}
  /\ \E S : cycle \in Cycles(S)
  /\ report \in Reports

\* One effect at most follows the revocation.
FenceHolds ==
  /\ fence => effectsAfterStop = 0
  /\ effectsAfterStop = 1 => cycle.at # "crossed"

\* The attempts a running cycle has made and those it still has fit what it discovered.
CycleFits ==
  /\ cycle.at \in {"refreshing", "lease"} => Attempts(cycle.results) = 0
  /\ cycle.at \in {"step", "crossed"} =>
       Len(cycle.todo) >= 1 /\ Attempts(cycle.results) + Len(cycle.todo) <= cycle.discovered

\* A report without a halted settlement is one the validator accepts, and an active one
\* found everything eligible.
ReportSound ==
  /\ report.lastSuccess # "never" => report.attempted
  /\ report.counts.halted = 0 => ActiveExecutionValid(report)
  /\ report.state = "active" => report.counts.eligible = report.counts.discovered

\* The report is running as long as the cycle is, and a failure ends the lifecycle.
ReportConsistent ==
  /\ cycle.at = "none" => cycle = NoCycle
  /\ cycle.at # "none" => report.state = "running" /\ report.attempted /\ report.failures = 0
  /\ lifecycle \notin {"stopping", "stopped"} => report.failures = 0
  /\ ReportSound

\* The inductive invariant of the cycle.
CycleInv == CycleTypeOK /\ FenceHolds /\ CycleFits /\ ReportConsistent

\* A cycle without any result has no result of any kind.
LEMMA EmptyCountsFacts ==
  /\ EmptyCounts \in [CountNames -> Int] /\ CountsReconcile(EmptyCounts)
  /\ EmptyCounts.halted = 0 /\ NoResults \in [Outcomes -> Nat] /\ Attempts(NoResults) = 0
<1>1. /\ EmptyCounts.discovered = 0 /\ EmptyCounts.eligible = 0 /\ EmptyCounts.attempted = 0
      /\ EmptyCounts.advanced = 0 /\ EmptyCounts.waiting = 0 /\ EmptyCounts.gateClosed = 0
      /\ EmptyCounts.done = 0 /\ EmptyCounts.halted = 0 /\ EmptyCounts.backlog = 0
  BY DEF EmptyCounts, CountNames
<1>2. EmptyCounts \in [CountNames -> Int]
  BY DEF EmptyCounts
<1>3. NoResults \in [Outcomes -> Nat] /\ Attempts(NoResults) = 0
  BY DEF NoResults, Outcomes, Attempts
<1> QED
  BY <1>1, <1>2, <1>3 DEF CountsReconcile

\* The counts of a cycle agree as long as its attempts fit what was eligible, and nothing was
\* attempted where something was not.
LEMMA ResultCountsFacts ==
  ASSUME NEW n \in Nat, NEW e \in Nat, e <= n, NEW r \in [Outcomes -> Nat], NEW h \in Nat,
         Attempts(r) <= e, e = n \/ Attempts(r) = 0
  PROVE  /\ ResultCounts(n, e, r, h) \in [CountNames -> Int]
         /\ ResultCounts(n, e, r, h).discovered = n /\ ResultCounts(n, e, r, h).eligible = e
         /\ ResultCounts(n, e, r, h).gateClosed = (n - e) + r["GATE_CLOSED"]
         /\ ResultCounts(n, e, r, h).halted = h + r["HALTED"]
         /\ ResultCounts(n, e, r, h).halted = 0 => CountsReconcile(ResultCounts(n, e, r, h))
<1> DEFINE c == ResultCounts(n, e, r, h)
<1>1. /\ r["ADVANCED"] \in Nat /\ r["WAITING"] \in Nat /\ r["DONE"] \in Nat /\ r["HALTED"] \in Nat
      /\ r["GATE_CLOSED"] \in Nat /\ Attempts(r) \in Nat
  BY DEF Outcomes, Attempts
<1>2. c = [discovered |-> n, eligible |-> e, attempted |-> Attempts(r), advanced |-> r["ADVANCED"],
           waiting |-> r["WAITING"], done |-> r["DONE"], gateClosed |-> (n - e) + r["GATE_CLOSED"],
           halted |-> h + r["HALTED"], backlog |-> IF e > Attempts(r) THEN e - Attempts(r) ELSE 0]
  BY DEF ResultCounts, Attempts
<1>3. /\ c.discovered = n /\ c.eligible = e /\ c.attempted = Attempts(r) /\ c.advanced = r["ADVANCED"]
      /\ c.waiting = r["WAITING"] /\ c.done = r["DONE"] /\ c.gateClosed = (n - e) + r["GATE_CLOSED"]
      /\ c.halted = h + r["HALTED"] /\ c.backlog = IF e > Attempts(r) THEN e - Attempts(r) ELSE 0
  BY <1>2
<1>4. c \in [CountNames -> Int]
  BY <1>1, <1>2 DEF CountNames
<1> HIDE DEF c
<1>5. c.backlog = e - Attempts(r)
  BY <1>1, <1>3
<1>6. c.halted = 0 => CountsReconcile(c)
  <2> SUFFICES ASSUME c.halted = 0 PROVE CountsReconcile(c)
    OBVIOUS
  <2>1. h = 0 /\ r["HALTED"] = 0
    BY <1>1, <1>3
  <2>2. Attempts(r) = r["ADVANCED"] + r["WAITING"] + r["DONE"] + r["HALTED"] + r["GATE_CLOSED"]
    BY DEF Attempts
  <2>3. c.advanced + c.waiting + c.done + c.halted + c.gateClosed - (c.discovered - c.eligible) = c.attempted
    BY <1>1, <1>3, <2>1, <2>2
  <2>4. c.gateClosed >= c.discovered - c.eligible
    BY <1>1, <1>3
  <2> QED
    BY <1>1, <1>3, <1>5, <2>3, <2>4 DEF CountsReconcile
<1> QED
  BY <1>3, <1>4, <1>6 DEF c

\* What the complete eligibility pass finds: a list, in the order of the database, as long as
\* there are open settlements; the rotation leaves it as it is.
LEMMA EntriesFacts ==
  /\ \E S : Entries \in Seq(S)
  /\ Len(Entries) \in Nat
  /\ RotateAfterCursor(Entries, cursor) = Entries
  /\ \E S : /\ Selected \in Seq(S) /\ Len(Selected) <= Len(Entries)
            /\ Entries # <<>> => Len(Selected) >= 1
<1> DEFINE Open == {s \in Settlements : ledger[s] \in {"open", "halted"}}
           N == Cardinality(Open)
<1>1. N \in Nat
  BY CycleAssumption, FS_Subset, FS_CardinalityType
<1>2. \E f : Entries = [i \in 1 .. N |-> f[i]] /\ \A i \in 1 .. N : DOMAIN f[i] = {"settlement", "matched"}
  <2> DEFINE f == [i \in 1 .. N |-> Entries[i]]
  <2>1. Entries = f /\ \A i \in 1 .. N : DOMAIN f[i] = {"settlement", "matched"}
    BY DEF Entries
  <2> QED
    BY <2>1
<1>3. DOMAIN Entries = 1 .. N /\ \A i \in 1 .. N : DOMAIN Entries[i] = {"settlement", "matched"}
  BY <1>2
<1>4. Entries \in Seq({Entries[i] : i \in 1 .. N}) /\ Len(Entries) = N
  <2>1. Entries \in [1 .. N -> {Entries[i] : i \in 1 .. N}]
    BY <1>2, <1>3
  <2>2. Entries \in Seq({Entries[i] : i \in 1 .. N})
    BY <1>1, <2>1, SeqDef
  <2> QED
    BY <1>1, <1>3, <2>2, LenProperties
<1>5. RotateAfterCursor(Entries, cursor) = Entries
  <2>1. {i \in DOMAIN Entries : ComesAfter(Entries[i], cursor)} = {}
    BY <1>3 DEF ComesAfter
  <2> QED
    BY <2>1 DEF RotateAfterCursor
<1>6. \E S : /\ Selected \in Seq(S) /\ Len(Selected) <= Len(Entries)
             /\ Entries # <<>> => Len(Selected) >= 1
  <2> DEFINE n == IF Len(Entries) < MaxSettlementsPerCycle THEN Len(Entries) ELSE MaxSettlementsPerCycle
  <2>1. Selected = SubSeq(Entries, 1, n)
    BY <1>5 DEF Selected
  <2>2. n \in Nat /\ n <= Len(Entries)
    BY <1>1, <1>4, CycleAssumption
  <2>3. SubSeq(Entries, 1, n) \in Seq({Entries[i] : i \in 1 .. N}) /\ Len(SubSeq(Entries, 1, n)) = n
    <3>1. \A i \in 1 .. n : Entries[i] \in {Entries[j] : j \in 1 .. N}
      BY <1>1, <1>4, <2>2
    <3>2. 1 \in Int /\ n \in Int /\ n \in Nat
      BY <2>2
    <3> HIDE DEF n
    <3>3. /\ SubSeq(Entries, 1, n) \in Seq({Entries[i] : i \in 1 .. N})
          /\ Len(SubSeq(Entries, 1, n)) = IF 1 <= n THEN n - 1 + 1 ELSE 0
      BY <3>1, <3>2, SubSeqProperties
    <3> QED
      BY <3>2, <3>3
  <2>4. Entries # <<>> => n >= 1
    BY <1>1, <1>4, CycleAssumption, EmptySeq
  <2> QED
    BY <2>1, <2>2, <2>3, <2>4
<1> QED
  BY <1>1, <1>4, <1>5, <1>6

\* What the pass counts is what the validator expects of a cycle that it ends.
LEMMA PassCountsFacts ==
  ASSUME Blocked
  PROVE  /\ PassCounts \in [CountNames -> Int]
         /\ PassCounts.halted = 0 => CountsReconcile(PassCounts) /\ PassCounts.gateClosed >= 1
<1> DEFINE I == DOMAIN Entries
           R == {i \in I : Runnable(Entries[i])}
           H == {i \in I : Entries[i].settlement.halted}
<1>1. Len(Entries) \in Nat /\ I = 1 .. Len(Entries)
  BY EntriesFacts
<1>2. IsFiniteSet(I) /\ Cardinality(I) = Len(Entries)
  <2>1. \A n \in Nat : IsFiniteSet(1 .. n) /\ Cardinality(1 .. n) = n
    BY FS_Interval
  <2> QED
    BY <1>1, <2>1
<1>3. R \subseteq I /\ H \subseteq I /\ R # I
  BY DEF Blocked
<1>4. Cardinality(R) \in Nat /\ Cardinality(H) \in Nat /\ Cardinality(R) < Len(Entries)
  BY <1>2, <1>3, FS_Subset, FS_CardinalityType
<1>5. PassCounts = ResultCounts(Len(Entries), Cardinality(R), NoResults, Cardinality(H))
  BY DEF PassCounts
<1>6. NoResults["GATE_CLOSED"] = 0 /\ NoResults["HALTED"] = 0
  BY DEF NoResults, Outcomes
<1> QED
  <2> DEFINE P(c) == /\ c \in [CountNames -> Int]
                     /\ c.halted = 0 => CountsReconcile(c) /\ c.gateClosed >= 1
  <2>1. ASSUME NEW n \in Nat, NEW e \in Nat, NEW h \in Nat, e < n
        PROVE  P(ResultCounts(n, e, NoResults, h))
    <3>1. NoResults \in [Outcomes -> Nat] /\ Attempts(NoResults) <= e /\ Attempts(NoResults) = 0 /\ e <= n
      BY <2>1, EmptyCountsFacts
    <3>2. /\ ResultCounts(n, e, NoResults, h) \in [CountNames -> Int]
          /\ ResultCounts(n, e, NoResults, h).gateClosed = (n - e) + NoResults["GATE_CLOSED"]
          /\ ResultCounts(n, e, NoResults, h).halted = 0 => CountsReconcile(ResultCounts(n, e, NoResults, h))
      BY <3>1, ResultCountsFacts
    <3> QED
      BY <1>6, <2>1, <3>2
  <2> HIDE DEF P, R, H
  <2>2. P(PassCounts)
    BY <1>1, <1>4, <1>5, <2>1
  <2> QED
    BY <2>2 DEF P

\* x is the report as it is, with another state, other counts and another digest.
Replaces(x, st, counts) ==
  /\ x \in Reports /\ x.state = st /\ x.counts = counts
  /\ x.failures = report.failures /\ x.attempted = report.attempted /\ x.lastSuccess = report.lastSuccess

\* A status replaces the one before it, field by field.
LEMMA ReportFacts ==
  ASSUME report \in Reports, NEW st \in ReportStates, NEW counts \in [CountNames -> Int], NEW c
  PROVE  /\ Replaces(Report(st, counts, TRUE, c), st, counts) /\ Report(st, counts, TRUE, c).cycleDigest
         /\ Replaces(Report(st, counts, FALSE, c), st, counts) /\ ~Report(st, counts, FALSE, c).cycleDigest
<1>1. ASSUME NEW b \in BOOLEAN, NEW x,
             x = [report EXCEPT !.state = st, !.counts = counts, !.cycleDigest = TRUE, !.cursorDigest = b]
      PROVE  Replaces(x, st, counts) /\ x.cycleDigest
  BY <1>1 DEF Reports, Replaces
<1>2. ASSUME NEW b \in BOOLEAN, NEW x,
             x = [report EXCEPT !.state = st, !.counts = counts, !.cycleDigest = FALSE, !.cursorDigest = b]
      PROVE  Replaces(x, st, counts) /\ ~x.cycleDigest
  BY <1>2 DEF Reports, Replaces
<1>3. (c # NoCursor) \in BOOLEAN
  OBVIOUS
<1> QED
  BY <1>1, <1>2, <1>3, Zenon DEF Report

\* A cycle that throws leaves a sound report, whether the lifecycle was stopping or not.
LEMMA ThrowKeeps ==
  ASSUME CycleInv, Throw, ledger' = ledger, effectsAfterStop' = effectsAfterStop
  PROVE  CycleInv'
<1>t. CycleTypeOK /\ FenceHolds /\ ReportConsistent /\ report \in Reports
  BY DEF CycleInv, CycleTypeOK
<1>e. EmptyCounts \in [CountNames -> Int] /\ CountsReconcile(EmptyCounts) /\ EmptyCounts.halted = 0
  BY EmptyCountsFacts
<1>1. /\ cycle' = NoCycle /\ cycle'.at = "none" /\ \E S : cycle' \in Cycles(S)
  <2>1. NoCycle \in Cycles({}) /\ NoCycle.at = "none"
    BY EmptyCountsFacts DEF NoCycle, Cycles, AwaitPoints
  <2> QED
    BY <2>1 DEF Throw
<1>2. FenceHolds' /\ CycleFits'
  BY <1>t, <1>1 DEF FenceHolds, CycleFits, Throw, Revoke
<1>3. CASE lifecycle = "stopping" /\ UNCHANGED <<lifecycle, report, timer, fence, release, releaseStopped>>
  BY <1>t, <1>1, <1>2, <1>3
     DEF CycleInv, CycleTypeOK, ReportConsistent, ReportSound
<1>4. CASE /\ lifecycle' = "stopping" /\ fence' = FALSE
           /\ report' = [Report("inactive", EmptyCounts, FALSE, cursor) EXCEPT !.failures = 1, !.attempted = TRUE]
  <2>1. /\ report' \in Reports /\ report'.state = "inactive" /\ report'.attempted = TRUE /\ report'.failures = 1
        /\ report'.counts = EmptyCounts /\ report'.cycleDigest = FALSE
    <3> DEFINE x == Report("inactive", EmptyCounts, FALSE, cursor)
    <3>1. Replaces(x, "inactive", EmptyCounts) /\ ~x.cycleDigest
      <4>1. "inactive" \in ReportStates
        BY DEF ReportStates
      <4> QED
        BY <1>t, <1>e, <4>1, ReportFacts
    <3>2. report' = [x EXCEPT !.failures = 1, !.attempted = TRUE]
      BY <1>4
    <3> HIDE DEF x
    <3> QED
      BY <3>1, <3>2 DEF Reports, Replaces
  <2>3. ReportSound'
    BY <1>e, <2>1 DEF ReportSound, ActiveExecutionValid
  <2>4. CycleTypeOK'
    BY <1>t, <1>1, <1>4, <2>1 DEF CycleTypeOK
  <2> QED
    BY <1>1, <1>2, <1>4, <2>3, <2>4 DEF CycleInv, ReportConsistent
<1> QED
  BY <1>3, <1>4 DEF Throw, Revoke

\* A cycle that returns leaves its own report.
LEMMA ReturnKeeps ==
  ASSUME CycleInv, cycle.at # "none", NEW next, Return(next), next \in Reports, next.failures = 0,
         ReportSound', ledger' = ledger, effectsAfterStop' = effectsAfterStop
  PROVE  CycleInv'
<1>t. CycleTypeOK /\ FenceHolds /\ ReportConsistent
  BY DEF CycleInv
<1>1. /\ cycle' = NoCycle /\ cycle'.at = "none" /\ \E S : cycle' \in Cycles(S)
  <2>1. NoCycle \in Cycles({}) /\ NoCycle.at = "none"
    BY EmptyCountsFacts DEF NoCycle, Cycles, AwaitPoints
  <2> QED
    BY <2>1 DEF Return
<1>2. /\ lifecycle' \in {"created", "starting", "running", "stopping", "stopped"}
      /\ report' = next /\ fence' = fence
  BY <1>t DEF Return, CycleTypeOK
<1>3. CycleTypeOK'
  BY <1>t, <1>1, <1>2 DEF CycleTypeOK
<1> QED
  BY <1>t, <1>1, <1>2, <1>3 DEF CycleInv, FenceHolds, CycleFits, ReportConsistent

\* Nothing of the report changes while a cycle goes from await to await.
LEMMA GoesOn ==
  ASSUME CycleInv, cycle.at # "none", NEW S, cycle' \in Cycles(S), cycle'.at # "none", CycleFits',
         FenceHolds', UNCHANGED <<ledger, lifecycle, report, fence, effectsAfterStop>>
  PROVE  CycleInv'
<1>1. CycleTypeOK'
  BY DEF CycleInv, CycleTypeOK
<1> QED
  BY <1>1 DEF CycleInv, ReportConsistent, ReportSound

\* The head of the loop over the selected entries begins the next step, or throws.
LEMMA BeginStepKeeps ==
  ASSUME CycleInv, cycle.at \in {"lease", "step"}, NEW S, NEW next \in Cycles(S), BeginStep(next),
         Len(next.todo) >= 1, Attempts(next.results) + Len(next.todo) <= next.discovered,
         ledger' = ledger, effectsAfterStop' = effectsAfterStop
  PROVE  CycleInv'
<1>1. CASE Throw
  BY <1>1, ThrowKeeps
<1>2. CASE /\ cycle' = [next EXCEPT !.at = "step"]
           /\ UNCHANGED <<lifecycle, report, timer, fence, release, releaseStopped>>
  <2>1. /\ cycle' \in Cycles(S) /\ cycle'.at = "step" /\ cycle'.results = next.results
        /\ cycle'.todo = next.todo /\ cycle'.discovered = next.discovered
    BY <1>2 DEF Cycles, AwaitPoints
  <2>2. CycleFits' /\ FenceHolds'
    BY <1>2, <2>1 DEF CycleFits, FenceHolds, CycleInv
  <2> QED
    BY <1>2, <2>1, <2>2, GoesOn
<1> QED
  BY <1>1, <1>2 DEF BeginStep

\* A cycle that made its attempts reports them.
LEMMA CompletedFacts ==
  ASSUME CycleInv, cycle.at # "none", NEW r \in [Outcomes -> Nat], NEW c, Attempts(r) <= cycle.discovered
  PROVE  /\ Completed(r, c) \in Reports /\ Completed(r, c).failures = 0
         /\ report' = Completed(r, c) => ReportSound'
<1> DEFINE counts == ResultCounts(cycle.discovered, cycle.discovered, r, 0)
           st == IF NothingClosed(counts) THEN "active" ELSE "degraded"
           x == Report(st, counts, TRUE, c)
<1>t. report \in Reports /\ report.attempted = TRUE /\ report.failures = 0 /\ cycle.discovered \in Nat
  BY DEF CycleInv, CycleTypeOK, ReportConsistent, Cycles, Reports
<1>r. r["GATE_CLOSED"] \in Nat /\ r["HALTED"] \in Nat
  BY DEF Outcomes
<1>1. /\ counts \in [CountNames -> Int]
      /\ counts.discovered = cycle.discovered /\ counts.eligible = cycle.discovered
      /\ counts.gateClosed = (cycle.discovered - cycle.discovered) + r["GATE_CLOSED"]
      /\ counts.halted = 0 + r["HALTED"]
      /\ counts.halted = 0 => CountsReconcile(counts)
  BY <1>t, ResultCountsFacts
<1>2. counts.gateClosed = r["GATE_CLOSED"] /\ counts.halted = r["HALTED"]
  BY <1>t, <1>r, <1>1
<1>3. st \in ReportStates /\ TRUE \in BOOLEAN
  BY DEF ReportStates
<1>4. Replaces(x, st, counts) /\ x.cycleDigest
  <2> HIDE DEF counts, st
  <2> QED
    BY <1>t, <1>1, <1>3, ReportFacts
<1>5. Completed(r, c) = [x EXCEPT !.lastSuccess = "this attempt"]
  BY DEF Completed
<1>6. /\ Completed(r, c) \in Reports /\ Completed(r, c).failures = 0 /\ Completed(r, c).state = st
      /\ Completed(r, c).counts = counts /\ Completed(r, c).cycleDigest = TRUE
      /\ Completed(r, c).lastSuccess = "this attempt" /\ Completed(r, c).attempted = TRUE
  <2> HIDE DEF x, counts, st
  <2> QED
    BY <1>t, <1>4, <1>5 DEF Reports, Replaces
<1>7. /\ st \in {"active", "degraded"}
      /\ st = "active" => counts.gateClosed = 0 /\ counts.halted = 0
      /\ st = "degraded" /\ counts.halted = 0 => counts.gateClosed >= 1
  BY <1>r, <1>2 DEF NothingClosed
<1> HIDE DEF counts, st
<1> QED
  BY <1>1, <1>6, <1>7 DEF ReportSound, ActiveExecutionValid

\* Every step of the cycle and around it preserves the invariant.
LEMMA CycleInvStep == CycleInv /\ [CycleNext]_cycleVars => CycleInv'
<1> SUFFICES ASSUME CycleInv, [CycleNext]_cycleVars PROVE CycleInv'
  OBVIOUS
<1>t. /\ CycleTypeOK /\ FenceHolds /\ CycleFits /\ ReportConsistent /\ report \in Reports
      /\ cycle.results \in [Outcomes -> Nat] /\ cycle.discovered \in Nat
  BY DEF CycleInv, CycleTypeOK, Cycles
<1>S. PICK S : cycle \in Cycles(S)
  BY <1>t DEF CycleTypeOK
<1>1. CASE UNCHANGED cycleVars
  BY <1>1 DEF cycleVars, CycleInv, CycleTypeOK, FenceHolds, CycleFits, ReportConsistent, ReportSound
<1>2. CASE StartCycle
  <2>1. CASE Throw
    BY <1>2, <2>1, ThrowKeeps DEF StartCycle
  <2>2. ASSUME NEW due \in BOOLEAN,
               cycle' = [NoCycle EXCEPT !.at = IF due THEN "refreshing" ELSE "lease"],
               report' = Attempt(report), fence' = fence,
               lifecycle' = (IF lifecycle = "created" THEN "starting" ELSE lifecycle)
        PROVE  CycleInv'
    <3>1. /\ cycle' \in Cycles({}) /\ cycle'.at \in {"refreshing", "lease"} /\ Attempts(cycle'.results) = 0
      <4>1. PICK a \in {"refreshing", "lease"} : cycle' = [NoCycle EXCEPT !.at = a]
        BY <2>2
      <4>2. cycle' = [at |-> a, todo |-> <<>>, discovered |-> 0, results |-> NoResults]
        BY <4>1 DEF NoCycle
      <4> QED
        BY <4>2, EmptyCountsFacts DEF Cycles, AwaitPoints
    <3>2. report.failures = 0 /\ lifecycle \in {"created", "running"}
      BY <1>2, <1>t DEF StartCycle, ReportConsistent
    <3>3. /\ report' \in Reports /\ report'.state = "running" /\ report'.counts = EmptyCounts
          /\ ~report'.cycleDigest /\ report'.failures = 0 /\ report'.attempted = TRUE
      <4> DEFINE x == Report("running", EmptyCounts, FALSE, cursor)
      <4>1. "running" \in ReportStates /\ EmptyCounts \in [CountNames -> Int]
        BY EmptyCountsFacts DEF ReportStates
      <4>2. Replaces(x, "running", EmptyCounts) /\ ~x.cycleDigest
        BY <1>t, <4>1, ReportFacts
      <4>3. report' = [x EXCEPT !.attempted = TRUE,
                         !.lastSuccess = IF report.lastSuccess = "never" THEN "never" ELSE "an earlier attempt"]
        BY <2>2 DEF Attempt
      <4> HIDE DEF x
      <4> QED
        BY <3>2, <4>2, <4>3 DEF Reports, Replaces
    <3>4. ReportSound'
      BY <3>3, EmptyCountsFacts DEF ReportSound, ActiveExecutionValid
    <3>5. UNCHANGED <<ledger, effectsAfterStop>>
      BY <1>2 DEF StartCycle
    <3>6. CycleTypeOK'
      BY <1>t, <2>2, <3>1, <3>2, <3>3, <3>5 DEF CycleTypeOK
    <3> QED
      BY <1>t, <2>2, <3>1, <3>3, <3>4, <3>5, <3>6 DEF CycleInv, FenceHolds, CycleFits, ReportConsistent
  <2> QED
    BY <1>2, <2>1, <2>2 DEF StartCycle
<1>3. ASSUME NEW ok \in BOOLEAN, RefreshEnds(ok) PROVE CycleInv'
  <2>1. CASE Throw
    BY <1>3, <2>1, ThrowKeeps DEF RefreshEnds
  <2>2. CASE /\ cycle.at = "refreshing" /\ cycle' = [cycle EXCEPT !.at = "lease"]
             /\ UNCHANGED <<ledger, lifecycle, report, fence, effectsAfterStop>>
    <3>1. cycle' \in Cycles(S) /\ cycle'.at = "lease" /\ cycle'.results = cycle.results
      BY <1>S, <2>2 DEF Cycles, AwaitPoints
    <3>2. CycleFits' /\ FenceHolds'
      BY <1>t, <2>2, <3>1 DEF CycleFits, FenceHolds
    <3> QED
      BY <2>2, <3>1, <3>2, GoesOn
  <2> QED
    BY <1>3, <2>1, <2>2 DEF RefreshEnds
<1>4. ASSUME NEW ok \in BOOLEAN, LeaseEnds(ok) PROVE CycleInv'
  <2>0. cycle.at = "lease" /\ ledger' = ledger /\ effectsAfterStop' = effectsAfterStop
    BY <1>4 DEF LeaseEnds
  <2>1. CASE Throw
    BY <2>0, <2>1, ThrowKeeps
  <2>2. CASE Blocked /\ Return(Report("degraded", PassCounts, TRUE, cursor))
    <3> DEFINE x == Report("degraded", PassCounts, TRUE, cursor)
    <3>1. "degraded" \in ReportStates
      BY DEF ReportStates
    <3>2. /\ PassCounts \in [CountNames -> Int]
          /\ PassCounts.halted = 0 => CountsReconcile(PassCounts) /\ PassCounts.gateClosed >= 1
      BY <2>2, PassCountsFacts
    <3>3. Replaces(x, "degraded", PassCounts) /\ x.cycleDigest
      BY <1>t, <3>1, <3>2, ReportFacts
    <3>4. report.attempted /\ report.failures = 0
      BY <1>t, <2>0 DEF ReportConsistent
    <3>5. report' = x
      BY <2>2 DEF Return
    <3> HIDE DEF x
    <3>6. ReportSound'
      BY <3>2, <3>3, <3>4, <3>5 DEF ReportSound, ActiveExecutionValid, Replaces
    <3>7. x \in Reports /\ x.failures = 0 /\ Return(x)
      BY <2>2, <3>3, <3>4 DEF Replaces, x
    <3> QED
      BY <2>0, <3>6, <3>7, ReturnKeeps
  <2>3. CASE Return(Completed(NoResults, cursor))
    <3> DEFINE x == Completed(NoResults, cursor)
    <3>1. NoResults \in [Outcomes -> Nat] /\ Attempts(NoResults) <= cycle.discovered
      BY <1>t, EmptyCountsFacts
    <3>2. x \in Reports /\ x.failures = 0 /\ (report' = x => ReportSound')
      BY <2>0, <3>1, CompletedFacts
    <3>3. report' = x
      BY <2>3 DEF Return
    <3> QED
      BY <2>0, <2>3, <3>2, <3>3, ReturnKeeps
  <2>4. CASE Entries # <<>> /\ BeginStep([cycle EXCEPT !.todo = Selected, !.discovered = Len(Entries)])
    <3> DEFINE x == [cycle EXCEPT !.todo = Selected, !.discovered = Len(Entries)]
    <3>1. PICK T : Selected \in Seq(T) /\ Len(Selected) <= Len(Entries) /\ Len(Selected) >= 1
      BY <2>4, EntriesFacts
    <3>2. x \in Cycles(T) /\ x.results = cycle.results /\ x.todo = Selected /\ x.discovered = Len(Entries)
      BY <1>S, <3>1, EntriesFacts DEF Cycles
    <3>3. Attempts(x.results) = 0
      BY <1>t, <2>0, <3>2 DEF CycleFits
    <3>4. Len(Selected) \in Nat
      BY <3>1, LenProperties
    <3> HIDE DEF x
    <3>5. Len(x.todo) >= 1 /\ Attempts(x.results) + Len(x.todo) <= x.discovered
      BY <3>1, <3>2, <3>3, <3>4, EntriesFacts
    <3>6. BeginStep(x)
      BY <2>4 DEF x
    <3> QED
      BY <2>0, <3>2, <3>5, <3>6, BeginStepKeeps
  <2> QED
    BY <1>4, <2>1, <2>2, <2>3, <2>4 DEF LeaseEnds
<1>5. CASE CrossBoundary
  <2>1. cycle.at = "step" /\ fence /\ cycle' = [cycle EXCEPT !.at = "crossed"]
        /\ UNCHANGED <<ledger, lifecycle, report, fence, effectsAfterStop>>
    BY <1>5 DEF CrossBoundary
  <2>2. /\ cycle' \in Cycles(S) /\ cycle'.at = "crossed" /\ cycle'.results = cycle.results
        /\ cycle'.todo = cycle.todo /\ cycle'.discovered = cycle.discovered
    BY <1>S, <2>1 DEF Cycles, AwaitPoints
  <2>3. CycleFits' /\ FenceHolds'
    BY <1>t, <2>1, <2>2 DEF CycleFits, FenceHolds
  <2> QED
    BY <2>1, <2>2, <2>3, GoesOn
<1>6. ASSUME NEW result \in {"open", "halted", "terminal"}, StepEffect(result) PROVE CycleInv'
  <2>1. /\ cycle.at = "crossed" /\ cycle' = [cycle EXCEPT !.at = "step"]
        /\ ledger' = [ledger EXCEPT ![Current] = result]
        /\ effectsAfterStop' = (IF fence THEN effectsAfterStop ELSE effectsAfterStop + 1)
        /\ UNCHANGED <<lifecycle, report, fence>>
    BY <1>6 DEF StepEffect
  <2>2. /\ cycle' \in Cycles(S) /\ cycle'.at = "step" /\ cycle'.results = cycle.results
        /\ cycle'.todo = cycle.todo /\ cycle'.discovered = cycle.discovered
    BY <1>S, <2>1 DEF Cycles, AwaitPoints
  <2>3. effectsAfterStop = 0
    BY <1>t, <2>1 DEF FenceHolds, CycleTypeOK
  <2>4. effectsAfterStop' \in {0, 1} /\ FenceHolds'
    BY <2>1, <2>2, <2>3 DEF FenceHolds
  <2>5. ledger' \in [Settlements -> {"none", "open", "halted", "terminal"}]
    BY <1>t, <2>1 DEF CycleTypeOK
  <2>6. CycleTypeOK'
    BY <1>t, <2>1, <2>2, <2>4, <2>5 DEF CycleTypeOK
  <2> QED
    BY <1>t, <2>1, <2>2, <2>4, <2>6 DEF CycleInv, CycleFits, ReportConsistent, ReportSound
<1>7. ASSUME NEW outcome \in Outcomes, StepEnds(outcome) PROVE CycleInv'
  <2> DEFINE results == [cycle.results EXCEPT ![outcome] = @ + 1]
  <2>0. cycle.at = "step" /\ ledger' = ledger /\ effectsAfterStop' = effectsAfterStop
    BY <1>7 DEF StepEnds
  <2>1. results \in [Outcomes -> Nat] /\ Attempts(results) = Attempts(cycle.results) + 1
    BY <1>t DEF Outcomes, Attempts
  <2>2. /\ Len(cycle.todo) \in Nat /\ cycle.todo \in Seq(S) /\ Len(cycle.todo) >= 1
        /\ Attempts(cycle.results) + Len(cycle.todo) <= cycle.discovered /\ Attempts(cycle.results) \in Nat
    BY <1>S, <1>t, <2>0, LenProperties DEF Cycles, CycleFits, Attempts, Outcomes
  <2> HIDE DEF results
  <2>3. Attempts(results) <= cycle.discovered
    BY <1>t, <2>1, <2>2
  <2>4. CASE Return(Completed(results, Current))
    <3> DEFINE x == Completed(results, Current)
    <3>1. x \in Reports /\ x.failures = 0 /\ (report' = x => ReportSound')
      BY <2>0, <2>1, <2>3, CompletedFacts
    <3>2. report' = x
      BY <2>4 DEF Return
    <3> QED
      BY <2>0, <2>4, <3>1, <3>2, ReturnKeeps
  <2>5. CASE Len(cycle.todo) > 1 /\ BeginStep([cycle EXCEPT !.todo = Tail(@), !.results = results])
    <3> DEFINE x == [cycle EXCEPT !.todo = Tail(@), !.results = results]
    <3>1. Tail(cycle.todo) \in Seq(S) /\ Len(Tail(cycle.todo)) = Len(cycle.todo) - 1
      BY <2>2, <2>5
    <3>2. /\ x \in Cycles(S) /\ x.results = results /\ x.todo = Tail(cycle.todo)
          /\ x.discovered = cycle.discovered
      BY <1>S, <2>1, <3>1 DEF Cycles
    <3> HIDE DEF x
    <3>3. Len(x.todo) >= 1 /\ Attempts(x.results) + Len(x.todo) <= x.discovered
      BY <1>t, <2>1, <2>2, <2>5, <3>1, <3>2
    <3>4. BeginStep(x)
      BY <2>5 DEF x
    <3> QED
      BY <2>0, <3>2, <3>3, <3>4, BeginStepKeeps
  <2> QED
    BY <1>7, <2>4, <2>5 DEF StepEnds, results
<1>8. CASE StepFails
  BY <1>8, ThrowKeeps DEF StepFails
<1>9. CASE Stop
  <2>1. /\ lifecycle' = "stopping" /\ fence' = FALSE
        /\ UNCHANGED <<ledger, report, cycle, effectsAfterStop>>
    BY <1>9 DEF Stop, Revoke
  <2> QED
    BY <1>t, <2>1 DEF CycleInv, CycleTypeOK, FenceHolds, CycleFits, ReportConsistent, ReportSound
<1>10. CASE Drained
  <2> DEFINE x == Report("stopped", EmptyCounts, FALSE, cursor)
  <2>1. /\ lifecycle' = "stopped" /\ report' = x /\ cycle = NoCycle
        /\ UNCHANGED <<ledger, fence, cycle, effectsAfterStop>>
    BY <1>10 DEF Drained
  <2>2. "stopped" \in ReportStates /\ EmptyCounts \in [CountNames -> Int]
    BY EmptyCountsFacts DEF ReportStates
  <2>3. Replaces(x, "stopped", EmptyCounts) /\ ~x.cycleDigest
    BY <1>t, <2>2, ReportFacts
  <2> HIDE DEF x
  <2>4. ReportSound'
    BY <1>t, <2>1, <2>3, EmptyCountsFacts DEF ReportConsistent, ReportSound, ActiveExecutionValid, Replaces
  <2>5. cycle.at = "none"
    BY <2>1 DEF NoCycle
  <2>6. CycleTypeOK'
    BY <1>t, <2>1, <2>3 DEF CycleTypeOK, Replaces
  <2> QED
    BY <1>t, <2>1, <2>4, <2>5, <2>6 DEF CycleInv, FenceHolds, CycleFits, ReportConsistent
<1>11. CASE Expire
  BY <1>t, <1>11 DEF Expire, CycleInv, CycleTypeOK, FenceHolds, CycleFits, ReportConsistent, ReportSound
<1>12. ASSUME NEW s \in Settlements, Elsewhere(s) PROVE CycleInv'
  <2>1. /\ ledger' \in [Settlements -> {"none", "open", "halted", "terminal"}]
        /\ UNCHANGED <<lifecycle, report, fence, cycle, effectsAfterStop>>
    BY <1>t, <1>12 DEF Elsewhere, CycleTypeOK
  <2> QED
    BY <1>t, <2>1 DEF CycleInv, CycleTypeOK, FenceHolds, CycleFits, ReportConsistent, ReportSound
<1> QED
  BY <1>1, <1>2, <1>3, <1>4, <1>5, <1>6, <1>7, <1>8, <1>9, <1>10, <1>11, <1>12
     DEF CycleNext, CycleStep, StepReturns

\* A lifecycle that was just created satisfies it.
LEMMA CycleInvInit == CycleInit => CycleInv
<1> SUFFICES ASSUME CycleInit PROVE CycleInv
  OBVIOUS
<1>1. NoCycle \in Cycles({}) /\ NoCycle.at = "none"
  BY EmptyCountsFacts DEF NoCycle, Cycles, AwaitPoints
<1>2. Idle \in Reports
  BY EmptyCountsFacts DEF Idle, Reports, ReportStates
<1>3. CycleTypeOK
  BY <1>1, <1>2 DEF CycleInit, CycleTypeOK
<1>4. FenceHolds /\ CycleFits
  BY <1>1 DEF CycleInit, FenceHolds, CycleFits
<1>5. ReportConsistent
  BY <1>1, EmptyCountsFacts DEF CycleInit, ReportConsistent, ReportSound, Idle, ActiveExecutionValid
<1> QED
  BY <1>3, <1>4, <1>5 DEF CycleInv

\* The invariant of the cycle holds throughout, for any set of settlements and any batch size.
THEOREM CycleInvariant == CycleSpec => []CycleInv
  BY CycleInvInit, CycleInvStep, PTL DEF CycleSpec

\* At most one effect follows the revocation of the fence, whatever was running when it came.
THEOREM CycleOneEffect == CycleSpec => []OneEffectAfterRevocation
<1>1. CycleInv => OneEffectAfterRevocation
  BY DEF CycleInv, CycleTypeOK, OneEffectAfterRevocation
<1> QED
  BY <1>1, CycleInvariant, PTL

\* Whenever a heartbeat publishes the status, between any two awaits, it is accepted as long as
\* no settlement is halted, and it is green only after a cycle that found everything eligible.
THEOREM CycleReportAccepted == CycleSpec => []ReportAccepted
<1>1. CycleInv => ReportAccepted
  <2> SUFFICES ASSUME CycleInv PROVE ReportAccepted
    OBVIOUS
  <2>1. report \in Reports /\ report.record = "prepared" /\ ReportConsistent
    BY DEF CycleInv, CycleTypeOK, Reports
  <2>2. ASSUME Publishable, report.counts.halted = 0 PROVE ActiveStatusValid(Status)
    BY <2>1, <2>2 DEF Publishable, Status, BuildActiveStatus, ActiveStatusValid, ReleaseVerificationValid,
                      ReportConsistent, ReportSound
  <2>3. ASSUME Healthy(Status)
        PROVE  report.counts.eligible = report.counts.discovered /\ cycle = NoCycle
    BY <2>1, <2>3 DEF Healthy, Status, BuildActiveStatus, ReportConsistent, ReportSound
  <2> QED
    BY <2>2, <2>3 DEF ReportAccepted
<1> QED
  BY <1>1, CycleInvariant, PTL

===============================================================================
