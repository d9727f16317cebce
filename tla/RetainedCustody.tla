---------------------------- MODULE RetainedCustody ----------------------------
(***************************************************************************)
(* What is kept of a release while it has open settlements, how a restored *)
(* copy of the coordinator takes up their recovery, and when the operating *)
(* set may be rotated (lib/release-retention-custody.mjs).                 *)
(*                                                                         *)
(* A store is the set of its nonterminal settlements [id, release,         *)
(* direction, policy, bound, rev] and the number of its active firm offers *)
(* without a settlement.  The files of a package, whose hashes are checked *)
(* when they are read, are its values.  Verified custodies, readiness, job *)
(* sets and drills are objects of one process and end with it.             *)
(***************************************************************************)
EXTENDS ReleaseActivation

CONSTANTS
  Packages,        \* drafts of a custody manifest, by name
  Drills,          \* drafts of a drill: role, start, end, recovered actions, attestations
  Restored,        \* restored stores, each on a host and process of its own
  ChangeKinds, FrozenKinds,   \* what a rotation may change, and what only with nothing owed
  InitialStores,   \* what the live store may hold when its custody begins
  MaxJobs, MaxRevision, MaxSets   \* 64 jobs; bounds on the steps of a settlement and on job sets

\* A package names finitely many witnesses and keeps all the material of each release.
ASSUME CustodyAssumption ==
  \A name \in DOMAIN Packages :
    /\ IsFiniteSet(Packages[name].witness.witnesses)
    /\ \A r \in DOMAIN Packages[name].releases :
         {"providers", "archive", "authorities"} \subseteq DOMAIN Packages[name].releases[r]

VARIABLES stores, backup, custodies, readiness, jobSets, leases, drilled, rotation
custodyVars == <<stores, backup, custodies, readiness, jobSets, leases, drilled, rotation>>
releaseVars == <<deploymentVars, evidenceFiles, activationVars>>

PackageOf(c) == Packages[c.package]
Absent == [rows |-> {}, offers |-> 0, present |-> FALSE]
OfRelease(store, release) == {s \in store.rows : s.release = release}
ExecutionPolicies(store, release) ==
  {[direction |-> s.direction, policy |-> s.policy] : s \in OfRelease(store, release)}
Releases(store) == {s.release : s \in {r \in store.rows : r.bound}}
\* The release liability snapshot: its digest is the whole of what the store owes.
Liabilities(store) == [rows |-> store.rows, offers |-> store.offers]

CustodyInit(live) ==
  /\ stores = [s \in {"live"} \cup Restored |-> IF s = "live" THEN live ELSE Absent]
  /\ backup = Absent /\ custodies = {} /\ readiness = {} /\ jobSets = <<>> /\ drilled = {}
  /\ leases = [s \in Restored |-> 0] /\ rotation = NotSeen

-------------------------------------------------------------------------------
(* The stores. *)

\* A settlement makes a step, is bound to its contract intent, or becomes terminal.
SettlementStep(name, s) ==
  /\ s \in stores[name].rows
  /\ \E next \in {{}} \cup (IF s.rev < MaxRevision THEN {{[s EXCEPT !.rev = @ + 1, !.bound = TRUE]}} ELSE {}) :
       stores' = [stores EXCEPT ![name].rows = (@ \ {s}) \cup next]
  /\ UNCHANGED <<releaseVars, backup, custodies, readiness, jobSets, leases, drilled, rotation>>
SealBackup ==
  /\ backup' = stores["live"] /\ UNCHANGED <<releaseVars, stores, custodies, readiness, jobSets, leases, drilled, rotation>>
Restore(name) ==
  /\ ~stores[name].present /\ backup.present
  /\ stores' = [stores EXCEPT ![name] = backup]
  /\ UNCHANGED <<releaseVars, backup, custodies, readiness, jobSets, leases, drilled, rotation>>

-------------------------------------------------------------------------------
(* Custody. *)

WitnessPolicy(p) ==
  /\ Cardinality(p.witnesses) \in 2..5 /\ p.minimum \in 2..Cardinality(p.witnesses)
  /\ \A a, b \in p.witnesses : a # b => a.id # b.id /\ a.signer # b.signer /\ a.org # b.org

\* The candidate rebuilt from the retained files, its five approvals and the provider set it named.
RetainedRelease(pkg, release) ==
  LET kept == pkg.releases[release] IN
  /\ candidate # NoCandidate /\ release = Rel.id /\ CandidateVerified(CandidateBundle, TimeOf(candidate.anchor))
  /\ \A r \in ReleaseRoles : approvals[r].signed
  /\ kept.providers.ids = ProviderSet(CandidateBundle)
  /\ kept.commit = plan.commit

\* Every policy names this release and a direction; each has the authority of its own solver.
RetainedPolicies(pkg, release) ==
  LET kept == pkg.releases[release] IN
  /\ kept.policies # {} /\ \A p \in kept.policies : p.release = release
  /\ \A p, q \in kept.policies : p # q => <<p.direction, p.policy>> # <<q.direction, q.policy>>
  /\ {[direction |-> a.direction, policy |-> a.policy, solver |-> a.solver] : a \in kept.authorities}
       = {[direction |-> p.direction, policy |-> p.policy, solver |-> p.solver] : p \in kept.policies}
  /\ Cardinality(kept.authorities) = Cardinality(kept.policies)

\* Every and only what the backup owes, release by release and policy by policy.
CoversLiabilities(pkg, store) ==
  /\ \A s \in store.rows : s.bound
  /\ store.offers = 0 /\ DOMAIN pkg.releases = Releases(store)
  /\ \A r \in DOMAIN pkg.releases :
       {[direction |-> p.direction, policy |-> p.policy] : p \in pkg.releases[r].policies} = ExecutionPolicies(store, r)

RetainedPackages ==
  {name \in DOMAIN Packages : LET pkg == Packages[name] IN
     /\ [package |-> name, backup |-> backup] \notin custodies
     /\ backup.present /\ WitnessPolicy(pkg.witness) /\ CoversLiabilities(pkg, backup)
     /\ \A r \in DOMAIN pkg.releases : RetainedPolicies(pkg, r) /\ RetainedRelease(pkg, r)}

InspectCustody(name) ==
  /\ name \in RetainedPackages
  /\ custodies' = custodies \cup {[package |-> name, backup |-> backup]}
  /\ UNCHANGED <<releaseVars, stores, backup, readiness, jobSets, leases, drilled, rotation>>

-------------------------------------------------------------------------------
(* Readiness, the fixed job set and its lease. *)

\* The activation is current as long as it was not deactivated: it carries no end of its own.
VerifiedRecoveryActivation == activations["recovery"].stage = "verified" /\ activations["recovery"].active

\* The capability of the policy's own solver, with the keys that were retained for it.
ProvesAuthority(cap, kept, p) ==
  /\ cap.direction = p.direction /\ cap.solver = p.solver /\ CapabilityBound(cap) /\ CapabilityFresh(cap)
  /\ \E a \in kept.authorities : a.direction = p.direction /\ a.policy = p.policy /\ a.keys = cap.keys

VerifyReadiness(c, release, name) ==
  LET kept == PackageOf(c).releases[release]
      host == [host |-> name, process |-> name] IN
  /\ c \in custodies /\ release \in DOMAIN PackageOf(c).releases /\ OfRelease(c.backup, release) # {}
  /\ host.host # PackageOf(c).host /\ host.process # PackageOf(c).process
  /\ stores[name].present /\ Liabilities(stores[name]) = Liabilities(c.backup)
  /\ VerifiedRecoveryActivation /\ release = Rel.id
  /\ \E caps \in SUBSET Capabilities :
       /\ Cardinality(caps) = Cardinality(kept.policies)
       /\ \A p \in kept.policies : \E cap \in caps : ProvesAuthority(cap, kept, p)
       /\ readiness' = readiness \cup
            {[custody |-> c, release |-> release, store |-> name, caps |-> caps, at |-> now,
              gateOpen |-> GateOpen(activations["recovery"].block)]}
  /\ UNCHANGED <<releaseVars, stores, backup, custodies, jobSets, leases, drilled, rotation>>

\* What distinguishes one operating set from another.
OperatingSet(r) ==
  [package |-> r.custody.package, backup |-> r.custody.backup, caps |-> r.caps, host |-> r.store]

\* One job for every settlement of the release, under the policy it is bound to.
PrepareJobSet(r) ==
  LET rows == OfRelease(stores[r.store], r.release)
      kept == PackageOf(r.custody).releases[r.release] IN
  /\ r \in readiness /\ r.at <= now /\ Len(jobSets) < MaxSets
  /\ Liabilities(stores[r.store]) = Liabilities(r.custody.backup)
  /\ \A p \in kept.policies : \E cap \in r.caps :
       cap.direction = p.direction /\ cap.solver = p.solver /\ CapabilityFresh(cap)
  /\ Cardinality(rows) \in 1..MaxJobs
  /\ jobSets' = Append(jobSets, [store |-> r.store, release |-> r.release, jobs |-> rows, preparedAt |-> now,
                                 liabilities |-> Liabilities(stores[r.store]), consumed |-> FALSE])
  /\ UNCHANGED <<releaseVars, stores, backup, custodies, readiness, leases, drilled, rotation>>

\* Mutant of UseJobSet: what the store owes is not compared again.
UseJobSet_Prepared(i) ==
  LET j == jobSets[i] IN
  /\ j.preparedAt <= now /\ ~j.consumed /\ leases[j.store] = 0
  /\ jobSets' = [jobSets EXCEPT ![i].consumed = TRUE] /\ leases' = [leases EXCEPT ![j.store] = i]
  /\ UNCHANGED <<releaseVars, stores, backup, custodies, readiness, drilled, rotation>>

\* An action loop takes the jobs: the store still owes exactly them, the set was not taken before
\* and no other loop works for the release in this store.
UseJobSet(i) ==
  LET j == jobSets[i] IN
  /\ j.preparedAt <= now
  /\ Liabilities(stores[j.store]) = j.liabilities /\ OfRelease(stores[j.store], j.release) = j.jobs
  /\ ~j.consumed /\ leases[j.store] = 0
  /\ jobSets' = [jobSets EXCEPT ![i].consumed = TRUE] /\ leases' = [leases EXCEPT ![j.store] = i]
  /\ UNCHANGED <<releaseVars, stores, backup, custodies, readiness, drilled, rotation>>

ReleaseJobSetLease(name) ==
  /\ leases[name] # 0 /\ leases' = [leases EXCEPT ![name] = 0]
  /\ UNCHANGED <<releaseVars, stores, backup, custodies, readiness, jobSets, drilled, rotation>>

-------------------------------------------------------------------------------
(* Drills and rotation. *)

\* A drill that ended before the readiness it is attached to.
DrillApproval(r, d) ==
  /\ r \in readiness /\ d.startedAt <= d.finishedAt /\ d.finishedAt <= r.at
  /\ d.finishedAt - d.startedAt <= PackageOf(r.custody).witness.maxDuration /\ d.recovered > 0

VerifyDrill(r, d) ==
  LET policy == PackageOf(r.custody).witness IN
  /\ DrillApproval(r, d) /\ d.finishedAt <= now /\ now - d.finishedAt <= policy.maxAge
  /\ d.attested \subseteq policy.witnesses /\ Cardinality(d.attested) >= policy.minimum
  /\ drilled' = drilled \cup {[readiness |-> r, drill |-> d]}
  /\ UNCHANGED <<releaseVars, stores, backup, custodies, readiness, jobSets, leases, rotation>>

\* Both packages cover the same settlements and differ in what is to be changed.
ChangedMaterial(old, new, kind) ==
  \E r \in DOMAIN old.releases :
    CASE kind = "provider" -> old.releases[r].providers # new.releases[r].providers
      [] kind = "service-runtime" -> old.releases[r].archive # new.releases[r].archive
      [] kind = "solver-key" -> old.releases[r].authorities # new.releases[r].authorities
      [] OTHER -> FALSE

\* Mutant of DrillPair: the gate may have been open.
DrillPair_AnyGate(old, new, release) ==
  \E a, b \in drilled :
    /\ a.readiness.release = release /\ b.readiness.release = release
    /\ a.drill.role = "old" /\ b.drill.role = "new"
    /\ a.readiness.custody = old /\ b.readiness.custody = new
    /\ OperatingSet(a.readiness) # OperatingSet(b.readiness)
    /\ now - a.drill.finishedAt <= PackageOf(old).witness.maxAge /\ now - b.drill.finishedAt <= PackageOf(new).witness.maxAge
\* A recent drill of each operating set, on exactly these liabilities, while the gate was closed.
DrillPair(old, new, release) ==
  \E a, b \in drilled :
    /\ a.readiness.release = release /\ b.readiness.release = release
    /\ a.drill.role = "old" /\ b.drill.role = "new"
    /\ a.readiness.custody = old /\ b.readiness.custody = new
    /\ ~a.readiness.gateOpen /\ ~b.readiness.gateOpen
    /\ OperatingSet(a.readiness) # OperatingSet(b.readiness)
    /\ now - a.drill.finishedAt <= PackageOf(old).witness.maxAge /\ now - b.drill.finishedAt <= PackageOf(new).witness.maxAge

AssessRotation(old, new, kind) ==
  /\ rotation = NotSeen /\ old \in custodies /\ new \in custodies
  /\ Liabilities(stores["live"]) = Liabilities(old.backup)
  /\ stores["live"].offers = 0 /\ \A s \in stores["live"].rows : s.bound
  /\ old.backup.rows # {} =>
       /\ new # old
       /\ Liabilities(new.backup) = Liabilities(old.backup) /\ DOMAIN PackageOf(new).releases = DOMAIN PackageOf(old).releases
       /\ kind \notin FrozenKinds /\ ChangedMaterial(PackageOf(old), PackageOf(new), kind)
       /\ \A r \in DOMAIN PackageOf(old).releases : DrillPair(old, new, r)
  /\ rotation' = [stage |-> "permitted", old |-> old, new |-> new, kind |-> kind]
  /\ UNCHANGED <<releaseVars, stores, backup, custodies, readiness, jobSets, leases, drilled>>

CustodyNext ==
  \/ \E name \in {"live"} \cup Restored : \E s \in stores[name].rows : SettlementStep(name, s)
  \/ SealBackup
  \/ \E name \in Restored : Restore(name) \/ ReleaseJobSetLease(name)
  \/ \E name \in DOMAIN Packages : InspectCustody(name)
  \/ \E c \in custodies : \E release \in DOMAIN PackageOf(c).releases, name \in Restored : VerifyReadiness(c, release, name)
  \/ \E r \in readiness : PrepareJobSet(r) \/ \E d \in Drills : VerifyDrill(r, d)
  \/ \E i \in DOMAIN jobSets : UseJobSet(i)
  \/ \E old, new \in custodies, kind \in ChangeKinds : AssessRotation(old, new, kind)

-------------------------------------------------------------------------------
(* The release from the plan to the rotation: the four parts on one chain and one clock. *)

ReleaseInit ==
  /\ DeploymentInit /\ workspaces = {} /\ campaign = NotSeen /\ ActivationInit
  /\ \E live \in InitialStores : CustodyInit(live)

CeremonyStep == DeploymentNext /\ UNCHANGED <<evidenceFiles, activationVars, custodyVars>>
CampaignStep == CampaignNext /\ UNCHANGED <<activationVars, custodyVars>>
ActivationStep == ActivationNext /\ UNCHANGED custodyVars

ReleaseNext == CeremonyStep \/ CampaignStep \/ ActivationStep \/ CustodyNext
allReleaseVars == <<releaseVars, custodyVars>>
ReleaseSpec == ReleaseInit /\ [][ReleaseNext]_allReleaseVars

-------------------------------------------------------------------------------
\* A loop takes the i-th job set in a store that owes exactly its jobs, as some sealed backup had them.
StartsExact(name, i) ==
  LET j == jobSets[i] IN
  /\ leases[name] = 0 /\ ~j.consumed
  /\ j.jobs = {s \in stores[name].rows : s.release = j.release} /\ Cardinality(j.jobs) <= MaxJobs
  /\ \E c \in custodies :
       /\ c.backup.rows = stores[name].rows
       /\ \A s \in j.jobs : s.bound /\ \E a \in PackageOf(c).releases[j.release].authorities :
            a.direction = s.direction /\ a.policy = s.policy

(* An action loop starts a job set at most once, alone in its restored store, and with a job for  *)
(* every settlement that store owes; each of them stands as the sealed backup of some inspected   *)
(* package had it, bound to a policy that the package keeps with its solver's authority, so no    *)
(* recovery runs on liabilities that moved after they were sealed.                                *)
JobsStartExact ==
  [][\A name \in Restored :
       (leases'[name] # leases[name] /\ leases'[name] # 0) => StartsExact(name, leases'[name])]_leases

\* Two drilled operating sets, o and n, between them know how to recover all that a store owes.
StrandsNothing(live, o, n, kind) ==
  LET old == PackageOf(o)  new == PackageOf(n) IN
  /\ live.offers = 0 /\ \A s \in live.rows : s.bound
  /\ live.rows # {} =>
       /\ kind \notin FrozenKinds
       /\ \A r \in Releases(live) : \E a, b \in drilled :
            /\ a.readiness.custody = o /\ b.readiness.custody = n
            /\ \A e \in {a, b} :
                 /\ e.readiness.release = r /\ e.readiness.custody.backup.rows = live.rows
                 /\ ~e.readiness.gateOpen /\ e.drill.recovered > 0
                 /\ now - e.drill.finishedAt <= PackageOf(e.readiness.custody).witness.maxAge
                 /\ Cardinality({w.org : w \in e.drill.attested}) >= 2
            /\ \E f \in DOMAIN old.releases[r] : old.releases[r][f] # new.releases[r][f]
       /\ \A s \in live.rows : \E p \in new.releases[s.release].authorities :
            p.direction = s.direction /\ p.policy = s.policy

(* A rotation is permitted only while the live store owes nothing, or when two operating sets     *)
(* that differ in what is changed were each restored to exactly the settlements the live store    *)
(* still owes, drilled recently with recovered actions before two organizations, and observed     *)
(* the gate closed: no open settlement is left to an operating set that cannot recover it.        *)
RotationStrandsNothing ==
  [][rotation' # rotation =>
       StrandsNothing(stores["live"], rotation'.old, rotation'.new, rotation'.kind)]_rotation
===============================================================================
