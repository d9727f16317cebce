--------------------------- MODULE ClosedDeployment ---------------------------
(***************************************************************************)
(* The closed-testnet deployment ceremony: an unsigned plan, a preflight   *)
(* that providers observe and approvers sign, the execution on chain, a    *)
(* postflight over the finalized receipts and the promotion of the         *)
(* observed manifest (lib/closed-testnet-deployment-{plan, files,          *)
(* preflight, preflight-observer, postflight, postflight-observer}.mjs,    *)
(* lib/deployment-{policy, observer, manifest-promotion,                   *)
(* promotion-postflight-bundle}.mjs).                                      *)
(*                                                                         *)
(* A block holds at most one transaction; the hash of a block is the chain *)
(* up to it.  A digest is the identifier of what it commits to.  Formats,  *)
(* canonical order, exact fields and secret scans only refuse a document:  *)
(* the drafts are documents that pass them.                                *)
(***************************************************************************)
EXTENDS Integers, Sequences, FiniteSets, SequencesExt

CONSTANTS
  Providers,            \* RPC providers, each run by an approver of that identity
  Faulty,               \* providers that may report what the plan expects, whatever the chain says
  Published,            \* the commit on origin/main
  PlanInputs,           \* drafts of the deployment input with the artifacts built for it
  PreflightPolicies, PostflightPolicies, DeploymentPolicies, PromotionPolicies,   \* drafts
  GenesisOwners, RotatedOwners, Threshold,   \* the role wallets, and the controller's later owners
  Limit,                \* longest ages and lifetimes that policies of each stage may allow
  MaxTime, MaxFaults    \* bounds: the clock; transactions nobody planned, and reorganisations

Roles == {"controller", "guardian", "feeCollector"}
Escrows == {"vault", "userEscrow"}
Deployments == <<"gate", "paymentHashRegistry", "vault", "userEscrow">>
ControllerActions == <<"register-vault", "register-user-escrow", "seal-registry">>
PlanSteps == Deployments \o ControllerActions

None == [kind |-> "none"]

\* Drafts are documents: their numbers are naturals and their lists of people are finite.
ASSUME DeploymentAssumption ==
  /\ Faulty \subseteq Providers /\ Cardinality(Providers) >= 2
  /\ \A in \in PlanInputs : /\ in # None /\ in.startingNonce \in Nat
                           /\ \A e \in Escrows : in.risk[e].maxFeeBps \in Nat
  /\ \A policy \in PreflightPolicies : policy.lifetime \in Nat
  /\ \A policy \in PromotionPolicies : IsFiniteSet(policy.approvers)

VARIABLES now, chain, finalized,
          stray,          \* a transaction of the deployer that is not in the plan waits in the mempool
          faults,
          plan,           \* the unsigned deployment plan
          preSeen, preflight,      \* observations of the providers; the signed preflight record
          postSeen, postflight,
          manifestSeen, promotion,
          promoted        \* the verified promotion

deploymentVars == <<now, chain, finalized, stray, faults, plan, preSeen, preflight,
                    postSeen, postflight, manifestSeen, promotion, promoted>>
chainVars == <<chain, finalized, stray, faults>>

NotSeen == [stage |-> "none"]
NoRecord == [stage |-> "none", signed |-> {}]

Min2(a, b) == IF a < b THEN a ELSE b
Positions(c, kind) == {i \in DOMAIN c : c[i].kind = kind}
Happened(c, kind) == Positions(c, kind) # {}
Prefix(n) == SubSeq(chain, 1, n)
TimeOf(c) == c[Len(c)].time
Canonical(c) == IsPrefix(c, chain)

-------------------------------------------------------------------------------
(* The chain. *)

\* Transactions of the deployer, planned or not, each take the next nonce.
Nonce(c) == Cardinality({i \in DOMAIN c : c[i].kind \in ToSet(Deployments) \cup {"stray"}})
PendingNonce == Nonce(chain) + (IF stray THEN 1 ELSE 0)
RoleOwners(c) == IF Happened(c, "rotate") THEN RotatedOwners ELSE GenesisOwners
Registered(c) == {e \in Escrows : Happened(c, IF e = "vault" THEN "register-vault" ELSE "register-user-escrow")}

\* What a provider reads from the contracts at a block.
StateAt(c) ==
  [nonce |-> Nonce(c), code |-> {s \in ToSet(Deployments) : Happened(c, s)},
   owners |-> RoleOwners(c), paused |-> Happened(c, "pause"),
   registered |-> Registered(c), sealed |-> Happened(c, "seal-registry"),
   closed |-> ~Happened(c, "schedule"), balance |-> IF Happened(c, "donate") THEN 1 ELSE 0]

DeploymentInit ==
  /\ now = 1 /\ chain = <<[kind |-> "empty", time |-> 1]>> /\ finalized = 1
  /\ stray = FALSE /\ faults = 0 /\ plan = None
  /\ preSeen = [p \in Providers |-> NotSeen] /\ postSeen = [p \in Providers |-> NotSeen]
  /\ manifestSeen = [p \in Providers |-> NotSeen]
  /\ preflight = NoRecord /\ postflight = NoRecord /\ promotion = NoRecord /\ promoted = NoRecord

Mine(kind) == chain' = Append(chain, [kind |-> kind, time |-> now])
Unplanned == faults < MaxFaults /\ faults' = faults + 1

Tick ==
  /\ now < MaxTime /\ now' = now + 1
  /\ chain' = Append(chain, [kind |-> "empty", time |-> now + 1])
  /\ UNCHANGED <<finalized, stray, faults, plan, preSeen, preflight, postSeen, postflight,
                 manifestSeen, promotion, promoted>>

evidenceVars == <<now, plan, preSeen, preflight, postSeen, postflight, manifestSeen, promotion, promoted>>

\* A planned creation, at the nonce the plan gives it.
Deploy(i) ==
  /\ plan # None /\ i \in DOMAIN Deployments /\ Nonce(chain) = plan.startingNonce + i - 1
  /\ Mine(Deployments[i]) /\ UNCHANGED <<finalized, stray, faults, evidenceVars>>

\* A call of the controller Safe that the registry accepts.
ControllerCall(j) ==
  /\ plan # None /\ j \in DOMAIN ControllerActions
  /\ LET name == ControllerActions[j] IN
     /\ Happened(chain, "paymentHashRegistry") /\ ~Happened(chain, name)
     /\ CASE name = "register-vault" -> Happened(chain, "vault")
          [] name = "register-user-escrow" -> Happened(chain, "userEscrow")
          [] OTHER -> Registered(chain) = Escrows
     /\ Mine(name)
  /\ UNCHANGED <<finalized, stray, faults, evidenceVars>>

\* The deployer sends another transaction; it is mined later.
StrayBroadcast == ~stray /\ stray' = TRUE /\ Unplanned /\ UNCHANGED <<chain, finalized, evidenceVars>>
StrayMined == stray /\ stray' = FALSE /\ Mine("stray") /\ UNCHANGED <<finalized, faults, evidenceVars>>
\* Owners of the controller change, BIT is paused or sent to an escrow, the gate gets a pending opening.
Interference(kind) ==
  /\ kind = "donate" => Happened(chain, "vault")
  /\ kind = "schedule" => Happened(chain, "gate")
  /\ ~Happened(chain, kind) /\ Mine(kind) /\ Unplanned /\ UNCHANGED <<finalized, stray, evidenceVars>>
Reorganise ==
  /\ Len(chain) > finalized /\ Len(chain) > 1
  /\ chain' = Front(chain) /\ Unplanned /\ UNCHANGED <<finalized, stray, evidenceVars>>
Finalise == finalized < Len(chain) /\ finalized' = Len(chain) /\ UNCHANGED <<chain, stray, faults, evidenceVars>>

-------------------------------------------------------------------------------
(* The plan. *)

\* Wallets of three to twenty owners, two to act, no wallet and no owner in two roles.
PlanRoles(in) ==
  /\ \A r \in Roles : Cardinality(in.owners[r]) \in 3..20 /\ in.threshold[r] \in 2..Cardinality(in.owners[r])
  /\ \A r, s \in Roles : r # s => in.wallet[r] # in.wallet[s] /\ in.owners[r] \cap in.owners[s] = {}

PlanRisk(risk) ==
  /\ risk.maxFeeBps <= 500 /\ risk.maxPriceDeviationBps <= 2500 /\ risk.referenceSatsPerBit = 100
  /\ 0 < risk.minSettlementWindow /\ 0 < risk.minClaimBuffer
  /\ risk.minSettlementWindow + risk.minClaimBuffer <= risk.maxLockDuration
  /\ 0 < risk.maxSwapAmount /\ risk.maxSwapAmount <= risk.maxEpochVolume

\* The Sepolia boundary and the token it names; the local rehearsal has its own.
PlanBit(in) ==
  /\ in.tokenBoundary = (IF in.environment = "public-testnet" THEN "reviewed-public-testnet-bit-proxy"
                         ELSE "test-only-eip1967-bit-probe")
  /\ ~in.bitPaused

\* How long the gate waits before it opens and stays open.
PlanGate(in) == in.resumeDelay \in 86400..2678400 /\ in.maxOpenDuration \in 1..604800

PlanInput(in) ==
  /\ <<in.environment, in.chainId>> \in {<<"public-testnet", 11155111>>, <<"local-rehearsal", 31337>>}
  /\ PlanRoles(in) /\ PlanBit(in) /\ PlanGate(in)
  /\ \A e \in Escrows : PlanRisk(in.risk[e])

\* The pinned compiler, no unresolved link, and a commitment to every source.
PlanArtifacts(in) == in.artifacts.pinned /\ in.artifacts.linked
\* Artifacts are rebuilt from the clean reviewed commit on origin/main, their sources match it,
\* and it is still the published head when the build ends.
ReviewedArtifacts(in) == in.commit = Published /\ in.artifacts.sources = in.commit

BuildPlan(in) ==
  /\ plan = None /\ PlanInput(in) /\ PlanArtifacts(in) /\ ReviewedArtifacts(in)
  /\ plan' = in
  /\ UNCHANGED <<now, chainVars, preSeen, preflight, postSeen, postflight, manifestSeen, promotion, promoted>>

-------------------------------------------------------------------------------
(* Approvers and their signatures. *)

OfRole(approvers, role) == {a \in approvers : a.role = role}
ProviderIds(policy) == {a.id : a \in OfRole(policy.approvers, "provider")}
\* Identities and signers are globally distinct.
DistinctPeople(approvers) ==
  \A a, b \in approvers : a # b => a.id # b.id /\ a.signer # b.signer
\* Every approver of the policy signed this record, once.
FullySigned(r) == r.signed = r.policy.approvers
CurrentAt(r, t) == r.preparedAt <= t /\ t <= r.validUntil
\* Observations of all the providers of the policy, and they agree on everything but when.
Unanimous(policy, seen) ==
  /\ ProviderIds(policy) = {p \in Providers : seen[p].stage = "done"}
  /\ Cardinality(ProviderIds(policy)) >= policy.minimumProviderCount
  /\ \A p, q \in ProviderIds(policy) : seen[p].block = seen[q].block /\ seen[p].state = seen[q].state

-------------------------------------------------------------------------------
(* Preflight. *)

ExpectedBefore == [nonce |-> plan.startingNonce, code |-> {}, owners |-> plan.owners, paused |-> FALSE,
                   registered |-> {}, sealed |-> FALSE, closed |-> TRUE, balance |-> 0]

\* The observer and the preflight take only an unsigned plan for Sepolia.
PreflightPlan == plan # None /\ plan.environment = "public-testnet"

\* The clock is read when the call starts; the block is the latest, or the one another provider used.
BeginPreflight(p) ==
  /\ PreflightPlan /\ p \notin Faulty /\ preSeen[p].stage = "none" /\ postSeen[p].stage = "none"
  /\ PendingNonce = plan.startingNonce
  /\ \E n \in {Len(chain)} \cup {Len(preSeen[q].block) : q \in {r \in Providers : preSeen[r].stage = "done"}} :
       /\ n <= Len(chain)
       /\ preSeen' = [preSeen EXCEPT ![p] = [stage |-> "begun", at |-> now, block |-> Prefix(n),
                                             state |-> StateAt(Prefix(n))]]
  /\ UNCHANGED <<now, chainVars, plan, preflight, postSeen, postflight, manifestSeen, promotion, promoted>>

\* Role wallets, BIT and the empty targets as planned, the pending nonce still the first of the
\* plan, and the block still canonical.
EndPreflight(p) ==
  /\ preSeen[p].stage = "begun"
  /\ preSeen' = [preSeen EXCEPT ![p] =
       IF /\ preSeen[p].state = ExpectedBefore /\ PendingNonce = plan.startingNonce
          /\ Canonical(preSeen[p].block)
       THEN [@ EXCEPT !.stage = "done"] ELSE NotSeen]
  /\ UNCHANGED <<now, chainVars, plan, preflight, postSeen, postflight, manifestSeen, promotion, promoted>>

FaultyPreflight(p) ==
  /\ PreflightPlan /\ p \in Faulty /\ preSeen[p].stage = "none"
  /\ preSeen' = [preSeen EXCEPT ![p] = [stage |-> "done", at |-> now, block |-> chain, state |-> ExpectedBefore]]
  /\ UNCHANGED <<now, chainVars, plan, preflight, postSeen, postflight, manifestSeen, promotion, promoted>>

PreflightPolicy(policy) ==
  /\ policy.planDigest = plan.id /\ policy.minimumProviderCount \in 2..5
  /\ policy.maximumObservationAge <= Limit.preflightAge /\ policy.maximumBlockAge <= Limit.preflightAge
  /\ policy.lifetime <= Limit.preflightLife
  /\ DistinctPeople(policy.approvers)
  /\ Cardinality(OfRole(policy.approvers, "provider")) \in policy.minimumProviderCount..5
  /\ Cardinality(OfRole(policy.approvers, "operations-reviewer")) = 1
  /\ \A a \in policy.approvers : a.role \in {"provider", "operations-reviewer"}

\* An observation neither ahead of the record nor stale, of a block no newer than the observation.
PreflightObservation(o, policy, preparedAt) ==
  /\ o.state = ExpectedBefore
  /\ o.at <= preparedAt /\ preparedAt - o.at <= policy.maximumObservationAge
  /\ TimeOf(o.block) <= o.at /\ preparedAt - TimeOf(o.block) <= policy.maximumBlockAge

PreflightInputs(policy, seen, preparedAt) ==
  /\ PreflightPlan /\ PreflightPolicy(policy) /\ Unanimous(policy, seen)
  /\ \A p \in ProviderIds(policy) : PreflightObservation(seen[p], policy, preparedAt)

FirstOf(policy, seen) == seen[CHOOSE p \in ProviderIds(policy) : TRUE]
AnchorOf(policy, seen) == FirstOf(policy, seen).block

RecordPreflight(policy) ==
  /\ preflight.stage = "none" /\ PreflightInputs(policy, preSeen, now)
  /\ preflight' = [stage |-> "record", policy |-> policy, preparedAt |-> now, validUntil |-> now + policy.lifetime,
                   anchor |-> AnchorOf(policy, preSeen), signed |-> {}]
  /\ UNCHANGED <<now, chainVars, plan, preSeen, postSeen, postflight, manifestSeen, promotion, promoted>>

\* An approver builds the message from the same inputs, which checks them again, and signs.
ApprovePreflight(a) ==
  /\ preflight.stage = "record" /\ a \in preflight.policy.approvers \ preflight.signed
  /\ PreflightInputs(preflight.policy, preSeen, preflight.preparedAt)
  /\ preflight' = [preflight EXCEPT !.signed = @ \cup {a}]
  /\ UNCHANGED <<now, chainVars, plan, preSeen, postSeen, postflight, manifestSeen, promotion, promoted>>

PreflightVerified(t) ==
  /\ preflight.stage = "record" /\ FullySigned(preflight) /\ CurrentAt(preflight, t)
  /\ PreflightInputs(preflight.policy, preSeen, preflight.preparedAt)

-------------------------------------------------------------------------------
(* The deployment policy and the manifest. *)

\* Contract wallets of at least three owners and two to act, whose code is pinned.
ManifestRole(owners, r) == Cardinality(owners[r]) >= 3 /\ Threshold[r] \in 2..Cardinality(owners[r])
RolesShareQuorum(owners, r, s) == Cardinality(owners[r] \cap owners[s]) >= Min2(Threshold[r], Threshold[s])

\* Mutant of ManifestRoles: distinct wallets are enough.
ManifestRoles_DistinctWallets(st) ==
  /\ \A r \in Roles : ManifestRole(st.owners, r)
  /\ \A r, s \in Roles : r # s => plan.wallet[r] # plan.wallet[s]
ManifestRoles(st) ==
  /\ \A r \in Roles : ManifestRole(st.owners, r)
  /\ \A r, s \in Roles : r # s => plan.wallet[r] # plan.wallet[s] /\ ~RolesShareQuorum(st.owners, r, s)

\* Gate closed with no pending opening, registry sealed over exactly the two escrows, BIT as
\* reviewed, escrows within the caps, and no BIT held or owed.
ManifestContracts(st, dp) ==
  /\ st.closed /\ plan.resumeDelay >= dp.minResumeDelay /\ plan.maxOpenDuration <= dp.maxOpenDuration
  /\ st.sealed /\ st.registered = Escrows
  /\ ~st.paused
  /\ \A e \in Escrows : /\ plan.risk[e].maxFeeBps <= dp.maxFeeBps
                        /\ plan.risk[e].maxPriceDeviationBps <= dp.maxPriceDeviationBps
                        /\ plan.risk[e].referenceSatsPerBit = dp.referenceSatsPerBit
  /\ st.balance = 0

ValidateManifest(st, dp) ==
  /\ dp.chainId = plan.chainId /\ dp.commit = plan.commit /\ dp.review = plan.review
  /\ dp.codeHashes = plan.artifacts.sources
  /\ st.code = ToSet(Deployments)
  /\ ManifestRoles(st) /\ ManifestContracts(st, dp)

-------------------------------------------------------------------------------
(* Postflight. *)

PositionOf(c, kind) == CHOOSE i \in Positions(c, kind) : TRUE
\* The transactions of the plan, successful and strictly in its order ...
Executed(c) ==
  /\ \A i \in DOMAIN PlanSteps : Happened(c, PlanSteps[i])
  /\ \A i \in 2..Len(PlanSteps) : PositionOf(c, PlanSteps[i - 1]) < PositionOf(c, PlanSteps[i])
\* ... in blocks no older than the preflight's anchor and no newer than its validity.
InWindow(c) ==
  \A i \in DOMAIN PlanSteps : LET t == c[PositionOf(c, PlanSteps[i])].time
                              IN TimeOf(preflight.anchor) <= t /\ t <= preflight.validUntil
LastStep(c) == PositionOf(c, PlanSteps[Len(PlanSteps)])

\* The preflight as it was verified when prepared, and a deployment policy of the same subject.
PostflightContext(dp) ==
  /\ preflight.stage = "record" /\ PreflightVerified(preflight.preparedAt)
  /\ dp.chainId = plan.chainId /\ dp.commit = plan.commit /\ dp.review = plan.review

FinalNonce == plan.startingNonce + Len(Deployments)

\* The anchor is still canonical; the receipts are read, and the pending nonce before them.
BeginPostflight(p, dp) ==
  /\ p \notin Faulty /\ postSeen[p].stage = "none" /\ PostflightContext(dp) /\ Canonical(preflight.anchor)
  /\ PendingNonce = FinalNonce /\ Executed(chain) /\ InWindow(chain)
  /\ postSeen' = [postSeen EXCEPT ![p] = [stage |-> "begun", at |-> now, block |-> Prefix(LastStep(chain)),
                                          state |-> StateAt(chain)]]
  /\ UNCHANGED <<now, chainVars, plan, preSeen, preflight, postflight, manifestSeen, promotion, promoted>>

\* The manifest at a finalized block above the receipts, whose blocks are read again.
EndPostflight(p) ==
  /\ postSeen[p].stage = "begun"
  /\ \E n \in {finalized} \cup {Len(postSeen[q].block) : q \in {r \in Providers : postSeen[r].stage = "done"}} :
       postSeen' = [postSeen EXCEPT ![p] =
         IF /\ n <= finalized /\ Len(@.block) <= n /\ Canonical(@.block)
            /\ Nonce(Prefix(n)) = FinalNonce /\ PendingNonce = FinalNonce
         THEN [stage |-> "done", at |-> @.at, block |-> Prefix(n), state |-> StateAt(Prefix(n))]
         ELSE NotSeen]
  /\ UNCHANGED <<now, chainVars, plan, preSeen, preflight, postflight, manifestSeen, promotion, promoted>>

ExpectedAfter == [nonce |-> FinalNonce, code |-> ToSet(Deployments), owners |-> plan.owners, paused |-> FALSE,
                  registered |-> Escrows, sealed |-> TRUE, closed |-> TRUE, balance |-> 0]

FaultyPostflight(p) ==
  /\ p \in Faulty /\ postSeen[p].stage = "none" /\ preflight.stage = "record"
  /\ \E q \in {r \in Providers \ Faulty : postSeen[r].stage = "done"} :
       \E st \in {ExpectedAfter, postSeen[q].state} :
         postSeen' = [postSeen EXCEPT ![p] = [stage |-> "done", at |-> now, block |-> postSeen[q].block,
                                               state |-> st]]
  /\ UNCHANGED <<now, chainVars, plan, preSeen, preflight, postflight, manifestSeen, promotion, promoted>>

\* The exact providers and operations reviewer of the preflight, and one contract reviewer.
PostflightPolicy(policy) ==
  /\ policy.planDigest = plan.id /\ policy.minimumProviderCount \in 2..5
  /\ policy.maximumObservationAge <= Limit.postflightAge /\ policy.lifetime <= Limit.postflightLife
  /\ DistinctPeople(policy.approvers)
  /\ Cardinality(OfRole(policy.approvers, "provider")) = policy.minimumProviderCount
  /\ Cardinality(OfRole(policy.approvers, "contract-reviewer")) = 1
  /\ policy.approvers \ OfRole(policy.approvers, "contract-reviewer") = preflight.policy.approvers

PostflightObservation(o, policy, dp, preparedAt) ==
  /\ o.at <= preparedAt /\ preparedAt - o.at <= policy.maximumObservationAge
  /\ o.state.nonce = FinalNonce /\ Executed(o.block) /\ InWindow(o.block)
  /\ IsPrefix(preflight.anchor, o.block)
  /\ ValidateManifest(o.state, dp)

PostflightInputs(policy, dp, seen, preparedAt) ==
  /\ PostflightContext(dp) /\ PostflightPolicy(policy) /\ policy.deploymentPolicyDigest = dp.id
  /\ Unanimous(policy, seen)
  /\ \A p \in ProviderIds(policy) : PostflightObservation(seen[p], policy, dp, preparedAt)

RecordPostflight(policy, dp) ==
  /\ postflight.stage = "none" /\ preflight.stage = "record" /\ PostflightInputs(policy, dp, postSeen, now)
  /\ postflight' = [stage |-> "record", policy |-> policy, deploymentPolicy |-> dp, preparedAt |-> now,
                    validUntil |-> now + policy.lifetime, block |-> AnchorOf(policy, postSeen),
                    manifest |-> FirstOf(policy, postSeen).state, signed |-> {}]
  /\ UNCHANGED <<now, chainVars, plan, preSeen, preflight, postSeen, manifestSeen, promotion, promoted>>

ApprovePostflight(a) ==
  /\ postflight.stage = "record" /\ a \in postflight.policy.approvers \ postflight.signed
  /\ PostflightInputs(postflight.policy, postflight.deploymentPolicy, postSeen, postflight.preparedAt)
  /\ postflight' = [postflight EXCEPT !.signed = @ \cup {a}]
  /\ UNCHANGED <<now, chainVars, plan, preSeen, preflight, postSeen, manifestSeen, promotion, promoted>>

PostflightVerified(t) ==
  /\ postflight.stage = "record" /\ FullySigned(postflight) /\ CurrentAt(postflight, t)
  /\ PostflightInputs(postflight.policy, postflight.deploymentPolicy, postSeen, postflight.preparedAt)

-------------------------------------------------------------------------------
(* Promotion. *)

\* A provider reads the manifest at the postflight's block, which it knows to be finalized.
ObserveManifest(p) ==
  /\ manifestSeen[p].stage = "none" /\ postflight.stage = "record"
  /\ Len(postflight.block) <= finalized /\ Canonical(postflight.block)
  /\ \E st \in {StateAt(postflight.block)} \cup (IF p \in Faulty THEN {ExpectedAfter} ELSE {}) :
       manifestSeen' = [manifestSeen EXCEPT ![p] =
         [stage |-> "done", at |-> now, block |-> postflight.block, state |-> st]]
  /\ UNCHANGED <<now, chainVars, plan, preSeen, preflight, postSeen, postflight, promotion, promoted>>

PromotionPolicy(policy) ==
  /\ policy.minimumProviderCount \in 2..5
  /\ policy.maximumObservationAge <= Limit.promotionAge /\ policy.lifetime <= Limit.promotionLife
  /\ \A a, b \in policy.approvers : a # b => a.signer # b.signer
  /\ Cardinality(OfRole(policy.approvers, "provider")) \in policy.minimumProviderCount..5
  /\ \A r \in {"contract-reviewer", "operations-reviewer"} : Cardinality(OfRole(policy.approvers, r)) = 1

PromotionObservation(o, policy, promotedAt) ==
  /\ o.at <= promotedAt /\ promotedAt - o.at <= policy.maximumObservationAge
  /\ o.block = postflight.block /\ o.state = postflight.manifest

\* The postflight, verified again as of the promotion, was made by the very approvers of the policy.
PromotionPostflight(policy, promotedAt) ==
  PostflightVerified(promotedAt) /\ policy.approvers = postflight.policy.approvers

\* Prepared while the postflight was valid, by the same people and providers, for the same manifest,
\* whose independent review is the bundle the record carries.
PromotionInputs(policy, seen, promotedAt) ==
  /\ PromotionPolicy(policy) /\ PromotionPostflight(policy, promotedAt)
  /\ policy.reviewBundle = plan.review /\ policy.reviewBundle = postflight.deploymentPolicy.review
  /\ Unanimous(policy, seen)
  /\ \A p \in ProviderIds(policy) : PromotionObservation(seen[p], policy, promotedAt)
  /\ ValidateManifest(FirstOf(policy, seen).state, postflight.deploymentPolicy)

RecordPromotion(policy) ==
  /\ promotion.stage = "none" /\ PromotionInputs(policy, manifestSeen, now)
  /\ promotion' = [stage |-> "record", policy |-> policy, preparedAt |-> now,
                   validUntil |-> now + policy.lifetime, signed |-> {}]
  /\ UNCHANGED <<now, chainVars, plan, preSeen, preflight, postSeen, postflight, manifestSeen, promoted>>

ApprovePromotion(a) ==
  /\ promotion.stage = "record" /\ a \in promotion.policy.approvers \ promotion.signed
  /\ PromotionInputs(promotion.policy, manifestSeen, promotion.preparedAt)
  /\ promotion' = [promotion EXCEPT !.signed = @ \cup {a}]
  /\ UNCHANGED <<now, chainVars, plan, preSeen, preflight, postSeen, postflight, manifestSeen, promoted>>

\* verifyDeploymentManifestPromotion succeeds; its result is the evidence of a release.
Promote ==
  /\ promotion.stage = "record" /\ promoted.stage = "none"
  /\ FullySigned(promotion) /\ CurrentAt(promotion, now)
  /\ PromotionInputs(promotion.policy, manifestSeen, promotion.preparedAt)
  /\ promoted' = [stage |-> "verified", block |-> postflight.block, promotedAt |-> promotion.preparedAt,
                  validUntil |-> promotion.validUntil, approvers |-> promotion.policy.approvers, signed |-> {}]
  /\ UNCHANGED <<now, chainVars, plan, preSeen, preflight, postSeen, postflight, manifestSeen, promotion>>

-------------------------------------------------------------------------------
DeploymentNext ==
  \/ Tick \/ StrayBroadcast \/ StrayMined \/ Reorganise \/ Finalise
  \/ \E i \in DOMAIN Deployments : Deploy(i)
  \/ \E j \in DOMAIN ControllerActions : ControllerCall(j)
  \/ \E kind \in {"rotate", "pause", "donate", "schedule"} : Interference(kind)
  \/ \E in \in PlanInputs : BuildPlan(in)
  \/ \E p \in Providers : \/ BeginPreflight(p) \/ EndPreflight(p) \/ FaultyPreflight(p)
                          \/ EndPostflight(p) \/ FaultyPostflight(p) \/ ObserveManifest(p)
  \/ \E p \in Providers, dp \in DeploymentPolicies : BeginPostflight(p, dp)
  \/ \E policy \in PreflightPolicies : RecordPreflight(policy)
  \/ \E policy \in PostflightPolicies, dp \in DeploymentPolicies : RecordPostflight(policy, dp)
  \/ \E policy \in PromotionPolicies : RecordPromotion(policy)
  \/ preflight.stage = "record" /\ \E a \in preflight.policy.approvers : ApprovePreflight(a)
  \/ postflight.stage = "record" /\ \E a \in postflight.policy.approvers : ApprovePostflight(a)
  \/ promotion.stage = "record" /\ \E a \in promotion.policy.approvers : ApprovePromotion(a)
  \/ Promote

-------------------------------------------------------------------------------
(* A verified promotion is true of the chain, even with a provider that reports the plan instead *)
(* of the chain: its block is final, since the preflight the deployer sent the four creations of  *)
(* the plan and nothing else, the controller calls followed in order, all inside the preflight's  *)
(* window, and at that block the gate is closed, the registry sealed over both escrows, no BIT is *)
(* held and no two wallets can act with the same owners.                                          *)
PromotedIsDeployed ==
  promoted.stage = "verified" =>
    LET c == promoted.block  st == StateAt(c) IN
    /\ Canonical(c) /\ Len(c) <= finalized
    /\ Executed(c) /\ Canonical(preflight.anchor)
    /\ \A i \in Positions(c, "stray") : i <= Len(preflight.anchor)
    /\ \A i \in DOMAIN PlanSteps : c[PositionOf(c, PlanSteps[i])].time \in
         TimeOf(preflight.anchor)..preflight.validUntil
    /\ StateAt(preflight.anchor) = ExpectedBefore
    /\ st.sealed /\ st.registered = Escrows /\ st.closed /\ st.balance = 0 /\ ~st.paused
    /\ \A r, s \in Roles : r # s => ~RolesShareQuorum(st.owners, r, s)
    /\ plan.commit = Published /\ plan.artifacts.sources = Published
    /\ \A r \in Roles : Cardinality(plan.owners[r]) >= 3
===============================================================================
