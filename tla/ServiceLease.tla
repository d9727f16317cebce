----------------------------- MODULE ServiceLease -----------------------------
(***************************************************************************)
(* lib/coordinator-service-state.mjs: the filesystem lease that admits one *)
(* coordinator process.  The lease is a directory at a fixed path with an  *)
(* owner file and a heartbeat file; whoever finds the heartbeat stale      *)
(* renames the directory away and makes its own.                           *)
(*                                                                         *)
(* One step is one filesystem operation, as every one of them is awaited.  *)
(* An inspection reads two files, but accepts only a pair with one token,  *)
(* so it is one step; where it throws the process gives up, which is       *)
(* Crash.  A process may be paused anywhere for any time.  A process       *)
(* stands for its token: a restarted one is another member of Processes.   *)
(***************************************************************************)
EXTENDS Integers

CONSTANTS Processes,
          LeaseStaleSeconds,   \* leaseStaleSeconds, three heartbeats in the configuration
          MaxTime              \* bound on the clock

\* The lease at the path: its files, or no directory at all.
Absent == "absent"
NoDirectory == "no directory"
NoLease == [owner |-> NoDirectory, heartbeat |-> Absent, heartbeatAt |-> 0, status |-> Absent]
EmptyLease == [owner |-> Absent, heartbeat |-> Absent, heartbeatAt |-> 0, status |-> Absent]

ASSUME LeaseAssumption ==
  LeaseStaleSeconds \in Nat /\ MaxTime \in Nat /\ {Absent, NoDirectory} \cap Processes = {}

VARIABLES lease,         \* what is at the path of the lease directory
          phase,         \* where each process is
          attempt,       \* tries of acquireCoordinatorServiceLease
          heartbeatAt,   \* the time each process is about to write: startedAt, then its heartbeat
          lateEffects,   \* history: effects of a process while it did not own the lease
          now

leaseVars == <<lease, phase, attempt, heartbeatAt, lateEffects, now>>

LeaseInit ==
  /\ lease = NoLease
  /\ phase = [p \in Processes |-> "acquiring"]
  /\ attempt = [p \in Processes |-> 0]
  /\ heartbeatAt = [p \in Processes |-> 0]
  /\ lateEffects = [p \in Processes |-> 0]
  /\ now = 0

Exists == lease.owner # NoDirectory

Enter(p, ph) == phase' = [phase EXCEPT ![p] = ph]

\* inspectExistingLease: returns only for a complete lease of one token.
Inspectable == lease.owner \in Processes /\ lease.owner = lease.heartbeat
Stale == now - lease.heartbeatAt > LeaseStaleSeconds

\* Mutant of RequireOwnership: the process trusts that it acquired the lease.
RequireOwnership_Remembered(p) == phase[p] = "holding"

\* requireOwnership: the files name this process and are fresh.
RequireOwnership(p) == Inspectable /\ lease.owner = p /\ ~Stale

-------------------------------------------------------------------------------
(* acquireCoordinatorServiceLease *)

\* mkdir succeeds only where there is no directory.
MakeDirectory(p) ==
  /\ phase[p] = "acquiring" /\ attempt[p] < 3 /\ ~Exists
  /\ lease' = EmptyLease
  /\ Enter(p, "made")
  /\ UNCHANGED <<attempt, heartbeatAt, lateEffects, now>>

\* EEXIST, and the lease found there is stale.  A fresh one is refused.
FindStale(p) ==
  /\ phase[p] = "acquiring" /\ attempt[p] < 3 /\ Exists
  /\ Inspectable
  /\ Enter(p, IF Stale THEN "replacing" ELSE "gone")
  /\ UNCHANGED <<lease, attempt, heartbeatAt, lateEffects, now>>

\* The rename takes whatever is at the path by now; ENOENT only costs an attempt.
Quarantine(p) ==
  /\ phase[p] = "replacing"
  /\ lease' = NoLease
  /\ attempt' = [attempt EXCEPT ![p] = @ + 1]
  /\ Enter(p, "acquiring")
  /\ UNCHANGED <<heartbeatAt, lateEffects, now>>

\* writePrivateExclusive of the owner file.  When it fails, the directory at the path
\* is removed, whoever made it.
WriteOwner(p) ==
  /\ phase[p] = "made"
  /\ IF lease.owner = Absent
     THEN /\ lease' = [lease EXCEPT !.owner = p]
          /\ Enter(p, "named")
     ELSE lease' = NoLease /\ Enter(p, "gone")
  /\ heartbeatAt' = [heartbeatAt EXCEPT ![p] = now]
  /\ UNCHANGED <<attempt, lateEffects, now>>

\* The same for the heartbeat file; with it the lease is acquired.
WriteHeartbeat(p) ==
  /\ phase[p] = "named"
  /\ IF Exists /\ lease.heartbeat = Absent
     THEN /\ lease' = [lease EXCEPT !.heartbeat = p, !.heartbeatAt = heartbeatAt[p]]
          /\ Enter(p, "holding")
     ELSE lease' = NoLease /\ Enter(p, "gone")
  /\ UNCHANGED <<attempt, heartbeatAt, lateEffects, now>>

-------------------------------------------------------------------------------
(* The methods of an acquired lease: check, then act on the path. *)

\* publish, release and assertCoordinatorServiceLeaseOwnership all check first.
Check(p, next) ==
  /\ phase[p] = "holding"
  /\ RequireOwnership(p)
  /\ Enter(p, next)
  /\ heartbeatAt' = [heartbeatAt EXCEPT ![p] = now]
  /\ UNCHANGED <<lease, attempt, lateEffects, now>>

\* publish: replaces the status and then the heartbeat of the directory at the path;
\* it throws where there is none.
ReplaceStatus(p) ==
  /\ phase[p] = "publishing"
  /\ lease' = IF Exists THEN [lease EXCEPT !.status = p] ELSE lease
  /\ Enter(p, IF Exists THEN "beating" ELSE "holding")
  /\ UNCHANGED <<attempt, heartbeatAt, lateEffects, now>>

ReplaceHeartbeat(p) ==
  /\ phase[p] = "beating"
  /\ lease' = IF Exists THEN [lease EXCEPT !.heartbeat = p, !.heartbeatAt = heartbeatAt[p]] ELSE lease
  /\ Enter(p, "holding")
  /\ UNCHANGED <<attempt, heartbeatAt, lateEffects, now>>

\* release: renames the directory at the path away and removes it.
RemoveDirectory(p) ==
  /\ phase[p] = "releasing"
  /\ lease' = NoLease
  /\ Enter(p, "gone")
  /\ UNCHANGED <<attempt, heartbeatAt, lateEffects, now>>

\* Coordinator work: one durable mutation or request after one ownership check.
Effect(p) ==
  /\ phase[p] = "working"
  /\ lateEffects' = [lateEffects EXCEPT ![p] = @ + IF lease.owner = p THEN 0 ELSE 1]
  /\ Enter(p, "holding")
  /\ UNCHANGED <<lease, attempt, heartbeatAt, now>>

Crash(p) ==
  /\ phase[p] # "gone"
  /\ Enter(p, "gone")
  /\ UNCHANGED <<lease, attempt, heartbeatAt, lateEffects, now>>

Tick ==
  /\ now < MaxTime
  /\ now' = now + 1
  /\ UNCHANGED <<lease, phase, attempt, heartbeatAt, lateEffects>>

LeaseNext ==
  \/ \E p \in Processes :
       \/ MakeDirectory(p) \/ FindStale(p) \/ Quarantine(p) \/ WriteOwner(p) \/ WriteHeartbeat(p)
       \/ \E next \in {"publishing", "releasing", "working"} : Check(p, next)
       \/ ReplaceStatus(p) \/ ReplaceHeartbeat(p) \/ RemoveDirectory(p) \/ Effect(p)
       \/ Crash(p)
  \/ Tick

LeaseSpec == LeaseInit /\ [][LeaseNext]_leaseVars

-------------------------------------------------------------------------------
\* Every side effect re-reads the lease, so however long a process sleeps, and however
\* the lease is taken, renamed or written over meanwhile, it performs at most the one
\* effect it had already checked for after it lost the lease.
OneLateEffect == \A p \in Processes : lateEffects[p] <= 1

\* What makes it inductive: the owner file is written once by each process, on its way
\* to holding the lease, so a late effect is its last.
LateIsLast ==
  \A p \in Processes :
    /\ lateEffects[p] <= 1
    /\ lateEffects[p] = 1 => lease.owner # p /\ phase[p] \in {"holding", "gone"}

Phases == {"acquiring", "replacing", "made", "named", "holding", "publishing", "beating", "releasing",
           "working", "gone"}
LeaseTypeOK ==
  /\ now \in Nat
  /\ lease \in [owner : Processes \cup {Absent, NoDirectory}, heartbeat : Processes \cup {Absent}, heartbeatAt : Nat,
                status : Processes \cup {Absent}]
  /\ phase \in [Processes -> Phases]
  /\ attempt \in [Processes -> Nat]
  /\ heartbeatAt \in [Processes -> Nat]
  /\ lateEffects \in [Processes -> Nat]

LeaseInv == LeaseTypeOK /\ LateIsLast

===============================================================================
