--------------------------- MODULE ReleaseActivation ---------------------------
(***************************************************************************)
(* From the evidence to a usable authority: the release candidate, the     *)
(* five role approvals, the observation of the live contracts by every     *)
(* provider, and the contexts a solver daemon works under                  *)
(* (lib/public-testnet-release-{candidate, files, approval,                *)
(* activation}.mjs, lib/release-authorization.mjs, lib/capabilities.mjs).  *)
(*                                                                         *)
(* A candidate is rebuilt from files that do not change, at the time of    *)
(* its approval block, so it is prepared once.  Activations and contexts   *)
(* live in the process and end with it.                                    *)
(***************************************************************************)
EXTENDS ReleaseEvidence

CONSTANTS
  Bundles,           \* drafts of a release by name: its evidence, record template and policy template
  Reconciliations,   \* drafts of the runtime reconciliation
  Capabilities,      \* verified solver capabilities
  DaemonPolicies,    \* drafts of a daemon's evidence policy
  CountMinimum,      \* the least number of independent operators of each kind
  MaxReleaseLife, MaxObservationAge,   \* seven days and five minutes
  GateOpenings       \* openings the controller may execute: risk digest and end

\* What a release rests on for as long as it runs; a campaign is over before it.
Documents(b) ==
  {b.review, b.qualification, b.operations, b.isolation, b.monitor, b.adoption}
    \cup (IF b.mode = "operator-testnet" THEN {} ELSE {b.upstream})

\* Times and fees in the drafts are naturals.
ASSUME ActivationAssumption ==
  /\ \A name \in DOMAIN Bundles :
       LET b == Bundles[name] IN
       /\ \A d \in Documents(b) : d.preparedAt \in Nat /\ d.validUntil \in Nat
       /\ b.record.validFrom \in Nat /\ b.record.validUntil \in Nat /\ b.policy.maxAge \in Nat
       /\ \A s \in DOMAIN b.isolation.services : b.isolation.services[s].expiresAt \in Nat
       /\ b.adoption.fees["maxFeeBps"] \in Nat
  /\ \A rec \in Reconciliations : rec.validUntil \in Nat

VARIABLES candidate, approvals,
          attempt,        \* the activation that is awaiting its providers
          activations,    \* the activation of each mode, active or not
          contexts        \* the daemon context created under it
activationVars == <<candidate, approvals, attempt, activations, contexts>>

ActivationModes == {"funding", "recovery"}
ReleaseRoles == {"controller", "guardian", "incidentCommander", "lightningOperator", "securityReviewer"}
WalletRoles == {"controller", "guardian"}
RuntimeApprovalRoles == {"incidentCommander", "lightningOperator"}
OutOfScope == {"publicLpDeposits", "lpShares", "promisedYield", "makerRewards", "partialFills"}

-------------------------------------------------------------------------------
(* The candidate. *)

Manifest == StateAt(promoted.block)
DeployedSubject == [commit |-> plan.commit, chainId |-> plan.chainId, manifest |-> plan.id]
Upstream(b) == IF b.mode = "operator-testnet" THEN campaign ELSE b.upstream
PromotedProviders == {[id |-> a.id, signer |-> a.signer] : a \in OfRole(promoted.approvers, "provider")}
EvmProviders(b) == {[id |-> a.id, signer |-> a.signer] : a \in OfRole(Upstream(b).people, "evm-provider")}
\* Whose RPC verifies the approvals and observes the runtime.
ProviderSet(b) ==
  {a.id : a \in IF b.mode = "operator-testnet" THEN EvmProviders(b) ELSE PromotedProviders}
Wallets == {plan.wallet[r] : r \in Roles} \cup UNION {Manifest.owners[r] : r \in Roles}
Approvers(b) == {b.policy.approvers[r].signer : r \in ReleaseRoles}

UniformMultisig(b) ==
  \A r \in Roles : Cardinality(Manifest.owners[r]) = b.record.ownerCount /\ Threshold[r] = b.record.threshold

BoundReleaseWallets(b) ==
  /\ \A r \in WalletRoles : /\ b.policy.approvers[r].signer = plan.wallet[r]
                            /\ b.policy.approvers[r].kind = "erc1271"
  /\ \A r \in ReleaseRoles \ WalletRoles :
       /\ b.policy.approvers[r].signer \notin UNION {Manifest.owners[s] : s \in Roles}
       /\ b.policy.approvers[r].kind = "eip712"

IndependentReviewers(b) ==
  Signers(b.review.people) \cap
    (Wallets \cup Approvers(b) \cup Signers(promoted.approvers) \cup Signers(Upstream(b).people)
       \cup Signers(b.operations.people) \cup Signers(b.isolation.people)) = {}

Within(d, b, t) == CoversTime(d, t, t) /\ CoversTime(d, b.record.validFrom, b.record.validUntil)

OperationalReadiness(b, t) ==
  LET ops == b.operations  iso == b.isolation  up == Upstream(b)
      forbidden == Wallets \cup Signers(promoted.approvers) \cup Signers(b.review.people) IN
  /\ ops.mode = b.mode /\ ops.subject = DeployedSubject /\ b.monitor.upstream = up.id
  /\ Within(ops, b, t)
  /\ PersonOf(ops, "lightning-operator").signer = b.policy.approvers["lightningOperator"].signer
  /\ PersonOf(ops, "incident-commander").signer = b.policy.approvers["incidentCommander"].signer
  /\ PersonOf(iso, "lightning-operator").signer = PersonOf(ops, "lightning-operator").signer
  /\ PersonOf(iso, "security-reviewer").signer = b.policy.approvers["securityReviewer"].signer
  /\ LET m == PersonOf(ops, "monitoring-operator")
     IN \E a \in OfRole(up.people, "monitor") : a.signer = m.signer /\ a.id = m.id
  /\ \A a \in ops.people : /\ a.role # "monitoring-operator" => a.signer \notin Signers(up.people)
                           /\ a.signer \notin forbidden
  /\ \A a \in iso.people : /\ a.signer \notin forbidden
                           /\ a.role # "lightning-operator" => a.signer \notin Signers(ops.people)
                           /\ a.role = "infrastructure-operator" => a.signer \notin Approvers(b)
  /\ ops.alerts = up.alerts
  /\ \A f \in DOMAIN up.artifacts : ops.artifacts[f] = up.artifacts[f]
  /\ b.mode = "operator-testnet" =>
       \A name \in OperationalDrills : \E e \in up.scenarios : e.name = name /\ e.evidence = ops.drills[name].evidence

Adoption(b) ==
  LET fees == b.adoption.fees
      ceiling == Min2(plan.risk["vault"].maxFeeBps, plan.risk["userEscrow"].maxFeeBps) IN
  /\ b.adoption.mode = b.mode /\ b.adoption.policies = Upstream(b).policies
  /\ b.record.limits = b.adoption.limits
  /\ 0 < ceiling /\ \A f \in {"maxFeeBps", "baseBitToLightningBps", "baseLightningToBitBps"} : fees[f] <= ceiling
  /\ ("partialFills" \in b.record.features) = b.adoption.liveness.partialFillsAllowed
  /\ b.mode = "operator-testnet-bootstrap" => "publicPermissionlessExecution" \notin b.record.features

\* The reviewer shares no key, identity or organization with anyone else in the release.
Qualification(b, t) ==
  LET q == b.qualification  reviewer == q.policy.reviewer
      people == b.review.people \cup b.operations.people \cup b.isolation.people
      others == people \cup Upstream(b).people \cup promoted.approvers IN
  /\ q.policy.mode = b.mode /\ q.policy.subject = DeployedSubject
  /\ q.id = Upstream(b).artifacts.testQualification /\ q.id = b.operations.artifacts.testQualification
  /\ Within(q, b, t)
  /\ reviewer.signer \notin Signers(others) \cup Wallets \cup Approvers(b)
  /\ reviewer.id \notin {a.id : a \in others} /\ reviewer.org \notin {a.org : a \in people}

\* A campaign that was finished before the release, or a bootstrap by the promoted providers that
\* is valid throughout it.
CampaignQualifies(b, t) == CampaignVerified(campaign, t) /\ campaign.preparedAt <= b.record.validFrom
BootstrapQualifies(b, t) ==
  BootstrapVerified(b.upstream, t) /\ EvmProviders(b) = PromotedProviders /\ Within(b.upstream, b, t)
Qualifies(b, t) ==
  /\ Upstream(b).subject = DeployedSubject
  /\ Cardinality(EvmProviders(b)) = Cardinality(PromotedProviders)
  /\ IF b.mode = "operator-testnet" THEN CampaignQualifies(b, t) ELSE BootstrapQualifies(b, t)

Counts(b) ==
  [f \in UpstreamRoles \cup {"alertChannels", "owners", "threshold"} |->
     CASE f = "alertChannels" -> Cardinality(Upstream(b).alerts) [] f = "owners" -> b.record.ownerCount
       [] f = "threshold" -> b.record.threshold [] OTHER -> Cardinality(OfRole(Upstream(b).people, f))]

\* The release record: a bounded interval around its approval block, within the mode's limits.
ReleaseRecord(b, t) ==
  LET limits == b.record.limits IN
  /\ b.record.validFrom < b.record.validUntil
  /\ b.record.validFrom <= t /\ t <= b.record.validUntil
  /\ b.record.features \cap OutOfScope = {}
  /\ \A f \in DOMAIN CountMinimum : Counts(b)[f] >= CountMinimum[f]
  /\ limits.maxSwapSats <= limits.maxEpochSats /\ limits.maxInFlightSats <= limits.maxEpochSats
  /\ \A f \in DOMAIN ModeMaximum[b.mode] : limits[f] <= ModeMaximum[b.mode][f]

ReleaseApprovers(policy) ==
  \A r, s \in ReleaseRoles : r # s => policy.approvers[r].signer # policy.approvers[s].signer

ReleasePolicy(b) ==
  /\ b.policy.lifetime <= MaxReleaseLife /\ b.policy.maxAge <= MaxObservationAge
  /\ ReleaseApprovers(b.policy)
  /\ b.record.validUntil - b.record.validFrom <= b.policy.lifetime
  /\ \A f \in DOMAIN b.policy.maximums : b.record.limits[f] <= b.policy.maximums[f]
  /\ \A f \in DOMAIN b.policy.reserves : b.record.limits[f] >= b.policy.reserves[f]

\* Every piece of evidence is verified at the time of the approval block.
CandidateVerified(b, t) ==
  /\ promoted.stage = "verified" /\ promoted.promotedAt <= t /\ t <= promoted.validUntil
  /\ promoted.promotedAt <= b.record.validFrom
  /\ Qualifies(b, t)
  /\ ReviewVerified(b.review, t) /\ b.review.subject = DeployedSubject /\ Within(b.review, b, t)
  /\ IsolationVerified(b.isolation, t)
  /\ OperationsVerified(b.operations, b.isolation, b.monitor, b.adoption, t)
  /\ QualificationVerified(b.qualification, t)
  /\ UniformMultisig(b) /\ BoundReleaseWallets(b) /\ IndependentReviewers(b)
  /\ OperationalReadiness(b, t) /\ Qualification(b, t) /\ Adoption(b)
  /\ ReleaseRecord(b, t) /\ ReleasePolicy(b)

NoCandidate == [stage |-> "none"]
CandidateBundle == Bundles[candidate.bundle]
NoApproval == [signed |-> FALSE, owners |-> {}]

\* Nothing is read from the chain: the approval block is whatever the template names.
PrepareCandidate(name) ==
  /\ candidate = NoCandidate
  /\ Bundles[name].mode = "operator-testnet" => campaign # NotSeen
  /\ \E n \in {k \in DOMAIN chain : CandidateVerified(Bundles[name], chain[k].time)} :
       candidate' = [stage |-> "prepared", bundle |-> name, anchor |-> Prefix(n)]
  /\ UNCHANGED <<deploymentVars, evidenceFiles, approvals, attempt, activations, contexts>>

\* A role signs between the approval block and the end of the release; a wallet signs with the
\* owners it then has.
ApproveRelease(role) ==
  /\ candidate # NoCandidate /\ ~approvals[role].signed
  /\ TimeOf(candidate.anchor) <= now /\ now <= CandidateBundle.record.validUntil
  /\ approvals' = [approvals EXCEPT ![role] =
       [signed |-> TRUE, owners |-> IF role \in WalletRoles THEN RoleOwners(chain)[role] ELSE {}]]
  /\ UNCHANGED <<deploymentVars, evidenceFiles, candidate, attempt, activations, contexts>>

-------------------------------------------------------------------------------
(* The contracts while a release runs. *)

LastOpening(c) == c[CHOOSE i \in Positions(c, "open") : \A j \in Positions(c, "open") : j <= i]
GateOpen(c) == Happened(c, "open") /\ ~Happened(c, "halt") /\ TimeOf(c) < LastOpening(c).until
Deposited(c) == Cardinality(Positions(c, "deposit"))
Locked(c) == Cardinality(Positions(c, "lock"))
\* What the vault accounts for is what it holds.
BalancesReconcile(c) == ~Happened(c, "donate")

ExecuteOpening(o) ==
  /\ ~Happened(chain, "open") /\ ~Happened(chain, "halt") /\ now < o.until
  /\ chain' = Append(chain, [kind |-> "open", time |-> now, risk |-> o.risk, until |-> o.until])
  /\ UNCHANGED <<finalized, stray, faults, evidenceVars, evidenceFiles, activationVars>>
VaultMoves(kind) ==
  /\ kind = "lock" => GateOpen(chain) /\ Locked(chain) < Deposited(chain)
  /\ kind = "deposit" => Deposited(chain) = 0
  /\ Mine(kind) /\ UNCHANGED <<finalized, stray, faults, evidenceVars, evidenceFiles, activationVars>>
\* The guardian halts; owners, the BIT proxy or its balances change; a block is lost.
Disturbance(kind) ==
  /\ IF kind = "reorganise"
     THEN Len(chain) > finalized /\ chain' = Front(chain)
     ELSE ~Happened(chain, kind) /\ Mine(kind)
  /\ Unplanned /\ UNCHANGED <<finalized, stray, evidenceVars, evidenceFiles, activationVars>>

-------------------------------------------------------------------------------
(* Activation. *)

NoAttempt == [stage |-> "none"]
NoActivation == [stage |-> "none", active |-> FALSE]
NoContext == [stage |-> "none"]
Rel == CandidateBundle.record
MaxAge == CandidateBundle.policy.maxAge

ActivationInit ==
  /\ candidate = NoCandidate /\ approvals = [r \in ReleaseRoles |-> NoApproval] /\ attempt = NoAttempt
  /\ activations = [m \in ActivationModes |-> NoActivation] /\ contexts = [m \in ActivationModes |-> NoContext]

\* Bound to this release, short, reconciled to nothing unexplained and within its limits.
RuntimeReconciliation(rec) ==
  /\ rec.release = Rel.id /\ rec.observedAt < rec.validUntil /\ rec.validUntil - rec.observedAt <= MaxAge
  /\ rec.validUntil <= Rel.validUntil /\ rec.unreconciled = 0
  /\ rec.available >= Rel.limits.minLightningReserveSats /\ rec.inFlight <= Rel.limits.maxInFlightSats
  /\ rec.epoch <= Rel.limits.maxEpochSats /\ rec.daily <= Rel.limits.maxDailyLightningSats

ReconciliationApproved(rec) ==
  /\ rec.signed = {CandidateBundle.policy.approvers[r].signer : r \in RuntimeApprovalRoles}
  /\ \A r \in RuntimeApprovalRoles : CandidateBundle.policy.approvers[r].kind = "eip712"

\* The release supervisor revokes the previous activation before it asks for the next.  The clock
\* is read once, here.
BeginActivation(mode, rec) ==
  /\ candidate # NoCandidate /\ attempt = NoAttempt /\ ~activations[mode].active
  /\ attempt' = [stage |-> "approvals", mode |-> mode, at |-> now, rec |-> rec, target |-> 0, heads |-> {},
                 seen |-> [p \in {} |-> <<>>]]
  /\ UNCHANGED <<deploymentVars, evidenceFiles, candidate, approvals, activations, contexts>>

\* A wallet's signature is valid for its owners at the approval block, which every provider knows
\* to be canonical and final.
WalletApproved(r) ==
  /\ Canonical(candidate.anchor) /\ Len(candidate.anchor) <= finalized
  /\ approvals[r].owners = RoleOwners(candidate.anchor)[r]
ApprovalsVerified(t) ==
  /\ t <= Rel.validUntil /\ \A r \in ReleaseRoles : approvals[r].signed
  /\ \A r \in WalletRoles : WalletApproved(r)
\* A capability profile only inside the release's interval.
CapabilitiesActive(t) == Rel.validFrom <= t /\ t <= Rel.validUntil

VerifyApprovals ==
  /\ attempt.stage = "approvals"
  /\ LET at == attempt.at
         accepted == IF attempt.mode = "funding"
                     THEN /\ ApprovalsVerified(at) /\ CapabilitiesActive(at)
                          /\ RuntimeReconciliation(attempt.rec)
                          /\ attempt.rec.observedAt <= at /\ at <= attempt.rec.validUntil
                          /\ ReconciliationApproved(attempt.rec)
                     ELSE TimeOf(candidate.anchor) <= at /\ ApprovalsVerified(Min2(at, Rel.validUntil))
     IN attempt' = IF accepted THEN [attempt EXCEPT !.stage = "heads", !.target = Len(chain)] ELSE NoAttempt
  /\ UNCHANGED <<deploymentVars, evidenceFiles, candidate, approvals, activations, contexts>>

\* A block that is neither from the future nor stale for the clock read at the start.
RuntimeHead(c, at) ==
  TimeOf(c) <= at /\ at - TimeOf(c) <= MaxAge /\ Len(c) >= Len(candidate.anchor)

\* A provider names its latest block; a faulty one may name an older.
ReadHead(p) ==
  /\ attempt.stage = "heads" /\ p \in ProviderSet(CandidateBundle) \ attempt.heads
  /\ \E n \in IF p \in Faulty THEN Len(candidate.anchor)..Len(chain) ELSE {Len(chain)} :
       attempt' = IF RuntimeHead(Prefix(n), attempt.at) \/ p \in Faulty
                  THEN [attempt EXCEPT !.heads = @ \cup {p}, !.target = Min2(@, n)] ELSE NoAttempt
  /\ UNCHANGED <<deploymentVars, evidenceFiles, candidate, approvals, activations, contexts>>

\* Mutant of GateAcceptable: any release's opening will do.
GateAcceptable_AnyRelease(c, mode, at) ==
  IF mode = "funding"
  THEN GateOpen(c) /\ at < LastOpening(c).until /\ LastOpening(c).until <= Rel.validUntil
  ELSE GateOpen(c) => at < LastOpening(c).until
\* Open for this release until a time within it; in recovery an open gate must be this release's.
GateAcceptable(c, mode, at) ==
  IF mode = "funding"
  THEN /\ GateOpen(c) /\ at < LastOpening(c).until /\ LastOpening(c).until <= Rel.validUntil
       /\ LastOpening(c).risk = Rel.id
  ELSE GateOpen(c) => at < LastOpening(c).until /\ LastOpening(c).risk = Rel.id
\* A reserve for the release, and no more locked than it allows.
InventoryAcceptable(c) ==
  /\ Deposited(c) - Locked(c) >= Rel.limits.minBitReserveWei
  /\ Locked(c) * 100 <= Rel.limits.maxInFlightSats

RuntimeObservation(c, mode, at) ==
  /\ RuntimeHead(c, at)
  /\ StateAt(c).code = Manifest.code /\ StateAt(c).owners = Manifest.owners /\ ~Happened(c, "upgrade")
  /\ GateAcceptable(c, mode, at)
  /\ StateAt(c).sealed /\ StateAt(c).registered = Escrows
  /\ mode = "funding" => ~StateAt(c).paused
  /\ BalancesReconcile(c)
  /\ mode = "funding" => InventoryAcceptable(c)

\* A provider reads the contracts at the lowest head; a faulty one repeats an honest answer.
ReadTarget(p) ==
  LET set == ProviderSet(CandidateBundle) IN
  /\ attempt.stage = "heads" /\ attempt.heads = set /\ p \in set \ DOMAIN attempt.seen
  /\ \E c \in IF p \in Faulty THEN {attempt.seen[q] : q \in DOMAIN attempt.seen}
              ELSE {IF attempt.target <= Len(chain) THEN Prefix(attempt.target) ELSE <<>>} :
       attempt' = IF c # <<>> /\ RuntimeObservation(c, attempt.mode, attempt.at)
                  THEN [attempt EXCEPT !.seen = [q \in DOMAIN @ \cup {p} |-> IF q = p THEN c ELSE @[q]]]
                  ELSE NoAttempt
  /\ UNCHANGED <<deploymentVars, evidenceFiles, candidate, approvals, activations, contexts>>

\* All agree.  Funding lasts as long as the release and its reconciliation, recovery as long as
\* the observation is fresh.
FinishActivation ==
  /\ attempt.stage = "heads" /\ DOMAIN attempt.seen = ProviderSet(CandidateBundle)
  /\ LET p == CHOOSE q \in DOMAIN attempt.seen : TRUE
         c == attempt.seen[p]
         until == IF attempt.mode = "funding" THEN Min2(Rel.validUntil, attempt.rec.validUntil)
                  ELSE TimeOf(c) + MaxAge
         agreed == /\ \A q \in DOMAIN attempt.seen : attempt.seen[q] = c
                   /\ attempt.mode = "recovery" => attempt.at <= until
     IN IF agreed
        THEN /\ activations' = [activations EXCEPT ![attempt.mode] =
                  [stage |-> "verified", active |-> TRUE, at |-> attempt.at, block |-> c, rec |-> attempt.rec,
                   validUntil |-> until]]
             /\ contexts' = [contexts EXCEPT ![attempt.mode] = NoContext]
        ELSE UNCHANGED <<activations, contexts>>
  /\ attempt' = NoAttempt
  /\ UNCHANGED <<deploymentVars, evidenceFiles, candidate, approvals>>

\* A provider does not answer in time.
TimeOut == /\ attempt # NoAttempt /\ attempt' = NoAttempt
           /\ UNCHANGED <<deploymentVars, evidenceFiles, candidate, approvals, activations, contexts>>
Deactivate(mode) ==
  /\ activations[mode].active /\ activations' = [activations EXCEPT ![mode].active = FALSE]
  /\ UNCHANGED <<deploymentVars, evidenceFiles, candidate, approvals, attempt, contexts>>

-------------------------------------------------------------------------------
(* Authorities. *)

CapabilityFresh(cap) ==
  now < cap.expiresAt /\ cap.observedAt <= now /\ now - cap.observedAt <= MaxAge
CapabilityBound(cap) == cap.contract = (IF cap.direction = "lightning-to-bit" THEN "vault" ELSE "userEscrow")

AuthorizeFunding(a, cap) ==
  /\ CapabilitiesActive(now) /\ a.stage = "verified" /\ a.active /\ now <= a.validUntil
  /\ a.at <= now /\ now - a.at <= MaxAge
  /\ CapabilityBound(cap) /\ CapabilityFresh(cap)

\* The daemon's evidence policy names this release, escrow, solver and its two approvers.
PolicyBound(dp, cap) ==
  /\ dp.release = Rel.id /\ dp.contract = cap.contract /\ dp.solver = cap.solver /\ dp.direction = cap.direction
  /\ dp.approvers = {CandidateBundle.policy.approvers[r].signer : r \in RuntimeApprovalRoles}
  /\ dp.evidenceAge <= MaxAge

RecoveryLive(a) == a.stage = "verified" /\ a.active /\ now <= a.validUntil

CreateContext(mode, cap, dp) ==
  LET a == activations[mode] IN
  /\ contexts[mode] = NoContext /\ a.stage = "verified"
  /\ IF mode = "funding" THEN AuthorizeFunding(a, cap)
     ELSE RecoveryLive(a) /\ CapabilityFresh(cap) /\ CapabilityBound(cap)
  /\ PolicyBound(dp, cap)
  /\ contexts' = [contexts EXCEPT ![mode] = [stage |-> "bound", boundAt |-> now, cap |-> cap,
                                             evmClaims |-> mode = "recovery" /\ ~StateAt(a.block).paused]]
  /\ UNCHANGED <<deploymentVars, evidenceFiles, candidate, approvals, attempt, activations>>

\* The context is verified again whenever it is used.
Usable(mode) ==
  /\ contexts[mode] # NoContext /\ contexts[mode].boundAt <= now
  /\ IF mode = "funding" THEN AuthorizeFunding(activations[mode], contexts[mode].cap)
     ELSE RecoveryLive(activations[mode])

ActivationNext ==
  \/ \E name \in DOMAIN Bundles : PrepareCandidate(name)
  \/ \E r \in ReleaseRoles : ApproveRelease(r)
  \/ \E o \in GateOpenings : ExecuteOpening(o)
  \/ \E kind \in {"deposit", "lock"} : VaultMoves(kind)
  \/ \E kind \in {"reorganise", "halt", "rotate", "pause", "upgrade", "donate"} : Disturbance(kind)
  \/ \E rec \in Reconciliations : BeginActivation("funding", rec)
  \/ BeginActivation("recovery", NotSeen)
  \/ VerifyApprovals \/ FinishActivation \/ TimeOut
  \/ candidate # NoCandidate /\ \E p \in ProviderSet(CandidateBundle) : ReadHead(p) \/ ReadTarget(p)
  \/ \E mode \in ActivationModes : Deactivate(mode)
  \/ \E mode \in ActivationModes, cap \in Capabilities, dp \in DaemonPolicies : CreateContext(mode, cap, dp)

-------------------------------------------------------------------------------
(* Whenever a funding context is usable, the release is approved by its five roles and every     *)
(* document it rests on is still valid, down to the credentials of each isolated service and the *)
(* adoption policy two documents away; nobody who reviewed it also operates, owns or approves it, *)
(* the runtime reconciliation is current, and a campaign behind it accounts for every swap of     *)
(* each of its solvers.                                                                           *)
FundingEvidenceCovers ==
  Usable("funding") =>
    LET b == CandidateBundle  act == activations["funding"] IN
    /\ \A r \in ReleaseRoles : approvals[r].signed
    /\ Rel.validFrom <= now /\ now <= Rel.validUntil
    /\ \A d \in Documents(b) : CurrentAt(d, now)
    /\ \A s \in DOMAIN b.isolation.services :
         b.isolation.services[s].classes # {} => now <= b.isolation.services[s].expiresAt
    /\ act.rec.unreconciled = 0 /\ now <= act.rec.validUntil
    /\ (Signers(b.review.people) \cup {b.qualification.policy.reviewer.signer}) \cap
         (Wallets \cup Approvers(b) \cup Signers(b.operations.people) \cup Signers(Upstream(b).people)) = {}
    /\ \A e \in Escrows : b.adoption.fees.maxFeeBps <= plan.risk[e].maxFeeBps
    /\ b.mode = "operator-testnet" =>
         /\ campaign.reconciliation.unreconciled = 0
         /\ \A a \in OfRole(campaign.people, "solver") : \E m \in campaign.metrics :
              m.operator = a.id /\ m.selected = m.completed + m.timedOut + m.failed + m.abandoned

(* Whenever a funding context is usable, an honest provider saw, in one block that is at most two *)
(* observation ages old, the gate open for this very release, the reviewed owners and code, BIT   *)
(* unpaused, balances that reconcile and the reserve of the release.                              *)
FundingGateObserved ==
  Usable("funding") =>
    LET c == activations["funding"].block  st == StateAt(c) IN
    /\ now - TimeOf(c) <= 2 * MaxAge /\ IsPrefix(candidate.anchor, c)
    /\ GateOpen(c) /\ LastOpening(c).risk = Rel.id /\ LastOpening(c).until <= Rel.validUntil
    /\ st.owners = Manifest.owners /\ ~st.paused /\ ~Happened(c, "upgrade") /\ ~Happened(c, "donate")
    /\ st.sealed /\ Deposited(c) - Locked(c) >= Rel.limits.minBitReserveWei

(* A usable recovery context rests on a block at most one observation age old, seen with the      *)
(* approval block of the five approvals under it; it allows EVM claims only where BIT was not     *)
(* paused, and a gate that was open then was open for this release.                               *)
RecoveryObserved ==
  Usable("recovery") =>
    LET c == activations["recovery"].block IN
    /\ now - TimeOf(c) <= MaxAge /\ IsPrefix(candidate.anchor, c)
    /\ \A r \in ReleaseRoles : approvals[r].signed
    /\ contexts["recovery"].evmClaims => ~StateAt(c).paused
    /\ GateOpen(c) => LastOpening(c).risk = Rel.id
    /\ StateAt(c).owners = Manifest.owners /\ ~Happened(c, "donate")

(* No context, for funding or for recovery, is used on what nobody observed: the gate, the owners, *)
(* the token and the balances it relies on were seen, recently, in one block of the chain.        *)
ActivationObserved == FundingGateObserved /\ RecoveryObserved
===============================================================================
