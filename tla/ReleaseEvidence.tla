---------------------------- MODULE ReleaseEvidence ----------------------------
(***************************************************************************)
(* The evidence a public-testnet release rests on: service isolation,      *)
(* the adoption policy, operational readiness, independent review,         *)
(* reviewed qualification, and the bootstrap record or the campaign that   *)
(* qualifies the release (lib/service-isolation-evidence,                  *)
(* adoption-policy, operational-readiness-evidence,                        *)
(* independent-review-evidence, qualification-evidence,                    *)
(* qualification-review-evidence, public-testnet-bootstrap-evidence,       *)
(* public-testnet-evidence and public-testnet-campaign-workflow.mjs).      *)
(*                                                                         *)
(* Each document is an input file: here a record with its subject (the     *)
(* commit, chain, gate, protocol version and manifest it is about, one     *)
(* value), its policy, its people [role, id, org, signer] and the set of   *)
(* people who signed it.  The evidence retained for a person is part of    *)
(* the id; a digest is the identifier of what it commits to.  A document   *)
(* that is not of its schema, or holds a secret, is refused: the drafts    *)
(* are documents that pass those checks.                                   *)
(***************************************************************************)
EXTENDS ClosedDeployment

CONSTANTS
  Cap,               \* the longest ages, lifetimes and durations the code lets a policy allow
  ModeMaximum,       \* of each funding mode, its greatest swap, in-flight amount, epoch and day
  ServiceRules,      \* of each isolated service: zone, credential classes, the role that runs it
  OperationalDrills, GateControlDrills, ConfirmerServices,
  QualificationPlan, \* mandatory campaigns and configuration files of a local qualification
  RequiredScenarios, \* of a public campaign
  CampaignPlans, CampaignScenarios, CampaignMetrics, Finalizations   \* drafts of a campaign's files

\* A campaign file names its finitely many participants and has all its fields.
ASSUME EvidenceAssumption ==
  \A c \in CampaignPlans : IsFiniteSet(c.people) /\ {"parent", "scenarios", "metrics"} \subseteq DOMAIN c

VARIABLES workspaces,   \* files of the campaign workspace
          campaign      \* the finalized campaign record
evidenceFiles == <<workspaces, campaign>>

Modes == {"operator-testnet-bootstrap", "operator-testnet"}
Covers(outer, inner) == outer.preparedAt <= inner.preparedAt /\ inner.validUntil <= outer.validUntil
CoversTime(d, from, until) == d.preparedAt <= from /\ until <= d.validUntil
Interval(d) == d.preparedAt < d.validUntil /\ d.validUntil - d.preparedAt <= d.policy.lifetime
FreshAt(d, t) == CurrentAt(d, t) /\ t - d.preparedAt <= d.policy.age
\* Every participant attests exactly this record, once.
Attested(d) == d.signed = d.people
OneForEach(d, roles) ==
  /\ {a.role : a \in d.people} = roles /\ Cardinality(d.people) = Cardinality(roles)
  /\ DistinctPeople(d.people)
Organizations(d) == {a.org : a \in d.people}
PersonOf(d, role) == CHOOSE a \in d.people : a.role = role
Signers(people) == {a.signer : a \in people}

-------------------------------------------------------------------------------
(* Service isolation. *)

IsolationRoles == {"infrastructure-operator", "lightning-operator", "security-reviewer"}

IsolationPolicy(p) ==
  /\ p.age <= Cap.freshness /\ p.lifetime <= Cap.lifetime /\ p.credentialLife <= Cap.lifetime
  /\ p.organizations \in 2..3 /\ p.services = DOMAIN ServiceRules

\* Placed, encrypted and run as required, with exactly the least credentials, reviewed before the
\* evidence and good for as long as it.
IsolatedService(d, s) ==
  LET e == d.services[s]  rule == ServiceRules[s] IN
  /\ e.zone = rule.zone /\ e.encrypted /\ e.classes = rule.classes
  /\ e.operator = PersonOf(d, rule.operator).id
  /\ IF rule.classes = {}
     THEN e.credential = "zero" /\ e.reviewedAt = 0 /\ e.expiresAt = 0
     ELSE /\ e.credential # "zero" /\ e.reviewedAt <= d.preparedAt /\ d.validUntil <= e.expiresAt
          /\ e.expiresAt - e.reviewedAt <= d.policy.credentialLife

IsolationRecord(d) ==
  /\ IsolationPolicy(d.policy) /\ Interval(d) /\ d.subject = d.policy.subject
  /\ OneForEach(d, IsolationRoles) /\ Cardinality(Organizations(d)) >= d.policy.organizations
  /\ DOMAIN d.services = DOMAIN ServiceRules
  /\ \A s \in DOMAIN d.services : IsolatedService(d, s)
  /\ \A s, r \in DOMAIN d.services : s # r =>
       /\ d.services[s].domain # d.services[r].domain
       /\ d.services[s].credential = d.services[r].credential => d.services[s].credential = "zero"

IsolationVerified(d, t) == IsolationRecord(d) /\ FreshAt(d, t) /\ Attested(d)

-------------------------------------------------------------------------------
(* The adoption policy. *)

AdoptionLimits(limits, mode) ==
  /\ 0 < limits.maxSwapSats /\ limits.maxSwapSats <= limits.maxEpochSats
  /\ 0 < limits.maxInFlightSats /\ limits.maxInFlightSats <= limits.maxEpochSats
  /\ limits.maxEpochSats <= limits.maxDailyLightningSats
  /\ \A f \in DOMAIN ModeMaximum[mode] : limits[f] <= ModeMaximum[mode][f]

AdoptionFees(fees) ==
  /\ 0 < fees.baseLightningToBitBps /\ fees.baseLightningToBitBps < fees.baseBitToLightningBps
  /\ fees.baseBitToLightningBps <= fees.maxFeeBps /\ fees.maxFeeBps <= 500
  /\ fees.reserveFloorBps < fees.scarcityStartsBps /\ fees.scarcityStartsBps <= 10000

AdoptionLiveness(liveness, limits) ==
  /\ ~liveness.lastLookAllowed /\ ~liveness.partialFillsAllowed
  /\ liveness.maxFirmQuoteTtl \in 1..300 /\ liveness.maxActiveFirmQuotesPerSolver \in 1..5
  /\ liveness.minimumReliabilitySample >= 20 /\ liveness.minimumReliabilityBps \in 9000..10000
  /\ liveness.unknownSolverMax <= liveness.establishedSolverMax
  /\ liveness.establishedSolverMax <= limits.maxSwapSats
  /\ liveness.maxGlobalInFlight <= limits.maxInFlightSats

\* Nothing secret is logged, linkage is disclosed, and retention is bounded and ordered.
AdoptionPrivacy(privacy) ==
  /\ ~privacy.logsSecrets /\ privacy.linkageDisclosed
  /\ privacy.pricing <= 600 /\ privacy.terminal <= 3600 /\ privacy.receipts <= 2592000
  /\ privacy.pricing <= privacy.terminal /\ privacy.terminal <= privacy.receipts
\* Losses stay with their owners and an unresolved incident halts exposure.
AdoptionLoss(loss) ==
  ~loss.reimbursement /\ ~loss.insurance /\ loss.solverBearsDelivery /\ loss.unresolved = "halt-and-case-review"
AdoptionSupport(support) ==
  /\ Cardinality(support.paths) = 3 /\ support.acknowledge <= 900 /\ support.respond <= 172800
\* A change of BIT or of the contracts stops the release; no authority may raise its risk.
AdoptionUpgrades(upgrades) ==
  ~upgrades.migration /\ ~upgrades.increasesRisk /\ upgrades.bitChange = "halt" /\ upgrades.pause = "halt"

AdoptionPolicy(d) ==
  /\ d.mode \in Modes /\ d.preparedAt < d.validUntil /\ d.validUntil - d.preparedAt <= Cap.lifetime
  /\ d.supportOwner # d.incidentCommander
  /\ AdoptionLimits(d.limits, d.mode) /\ AdoptionFees(d.fees) /\ AdoptionLiveness(d.liveness, d.limits)
  /\ AdoptionPrivacy(d.privacy) /\ AdoptionLoss(d.loss) /\ AdoptionSupport(d.support)
  /\ AdoptionUpgrades(d.upgrades)

-------------------------------------------------------------------------------
(* Operational readiness. *)

OperationsRoles ==
  {"backup-operator", "incident-commander", "lightning-operator", "monitoring-operator", "support-owner"}

OperationsPolicy(p) ==
  /\ p.age <= Cap.freshness /\ p.lifetime <= Cap.lifetime /\ p.drillAge <= Cap.lifetime
  /\ p.drillDuration <= Cap.drill /\ p.alertChannels \in 2..20 /\ p.organizations \in 2..5
  /\ p.drills = OperationalDrills /\ p.gateDrills = GateControlDrills /\ p.confirmers = ConfirmerServices
  /\ p.mode \in Modes

\* A drill of a gate control proved that the finalized state decides, and for these confirmers.
SafetyControls(d, name) ==
  IF name \notin GateControlDrills THEN d.drills[name].controls = "none"
  ELSE d.drills[name].controls = [proved |-> TRUE, monitor |-> d.monitor, confirmers |-> d.confirmers]

Drill(d, name) ==
  LET e == d.drills[name]  ids == {a.id : a \in d.people} IN
  /\ e.passed /\ e.startedAt <= e.finishedAt /\ e.finishedAt <= d.preparedAt
  /\ e.finishedAt - e.startedAt <= d.policy.drillDuration
  /\ d.preparedAt - e.finishedAt <= d.policy.drillAge
  /\ e.primary \in ids /\ e.observers \subseteq ids \ {e.primary}
  /\ Cardinality(e.observers) \in 2..4
  /\ SafetyControls(d, name)

\* Two confirmers that share no service, trust domain, credential, route or operator.
GateConfirmers(confirmers) ==
  /\ DOMAIN confirmers = ConfirmerServices
  /\ \A c, b \in ConfirmerServices : c # b =>
       \A f \in {"domain", "credential", "route", "operator"} : confirmers[c][f] # confirmers[b][f]

OperationsRecord(d) ==
  /\ OperationsPolicy(d.policy) /\ Interval(d)
  /\ d.subject = d.policy.subject /\ d.mode = d.policy.mode /\ d.monitor = d.policy.monitor
  /\ OneForEach(d, OperationsRoles) /\ Cardinality(Organizations(d)) >= d.policy.organizations
  /\ Cardinality(d.alerts) \in d.policy.alertChannels..20
  /\ GateConfirmers(d.confirmers)
  /\ DOMAIN d.drills = OperationalDrills /\ \A name \in OperationalDrills : Drill(d, name)
  /\ \A a, b \in OperationalDrills : a # b => d.drills[a].evidence # d.drills[b].evidence

ServiceIsolationBinding(d, isolation) ==
  d.subject = isolation.subject /\ Covers(isolation, d) /\ d.artifacts.serviceIsolation = isolation.id

\* The monitor policy in force throughout, whose routes end at the isolated confirmers.
SafetyMonitorBinding(d, monitor, isolation) ==
  /\ d.monitor = monitor.id /\ monitor.subject = d.subject /\ Covers(monitor, d)
  /\ \A c \in ConfirmerServices :
       /\ monitor.routes[d.confirmers[c].route] = d.confirmers[c].operator
       /\ c \in DOMAIN isolation.services
       /\ d.confirmers[c].domain = isolation.services[c].domain
       /\ d.confirmers[c].credential = isolation.services[c].credential

\* Mutant of AdoptionPolicyBinding: the adoption policy may end before the readiness that rests on it.
AdoptionPolicyBinding_NotCovered(d, adoption) ==
  /\ AdoptionPolicy(adoption) /\ d.subject = adoption.subject /\ d.mode = adoption.mode
  /\ PersonOf(d, "support-owner").id = adoption.supportOwner
  /\ PersonOf(d, "incident-commander").id = adoption.incidentCommander
  /\ d.artifacts.adoption = adoption.id
AdoptionPolicyBinding(d, adoption) ==
  /\ AdoptionPolicy(adoption) /\ d.subject = adoption.subject /\ d.mode = adoption.mode
  /\ Covers(adoption, d)
  /\ PersonOf(d, "support-owner").id = adoption.supportOwner
  /\ PersonOf(d, "incident-commander").id = adoption.incidentCommander
  /\ d.artifacts.adoption = adoption.id

OperationsCandidate(d, isolation, monitor, adoption) ==
  /\ OperationsRecord(d) /\ ServiceIsolationBinding(d, isolation)
  /\ SafetyMonitorBinding(d, monitor, isolation) /\ AdoptionPolicyBinding(d, adoption)
OperationsVerified(d, isolation, monitor, adoption, t) ==
  OperationsCandidate(d, isolation, monitor, adoption) /\ FreshAt(d, t) /\ Attested(d)

-------------------------------------------------------------------------------
(* Independent review and qualification. *)

ReviewRoles == {"contracts", "coordinator", "identity-privacy", "lightning", "operations"}

ReviewPolicy(p) == p.age <= Cap.freshness /\ p.lifetime <= Cap.lifetime /\ p.findings \in 1..1000
\* Every finding is disposed of; none is open and no critical or high one was accepted as a risk.
ReviewReport(report, p) ==
  /\ report.count <= p.findings
  /\ report.fixed + report.accepted + report.inapplicable + report.open = report.count
  /\ report.open = 0 /\ report.acceptedSevere = 0

ReviewRecord(d) ==
  /\ ReviewPolicy(d.policy) /\ d.startedAt <= d.preparedAt /\ Interval(d)
  /\ d.subject = d.policy.subject
  /\ OneForEach(d, ReviewRoles) /\ Cardinality(Organizations(d)) = Cardinality(d.people)
  /\ \A report \in d.reports : ReviewReport(report, d.policy)
ReviewVerified(d, t) == ReviewRecord(d) /\ FreshAt(d, t) /\ Attested(d)

\* The artifact rebuilt from its inputs: published main, exactly the mandatory campaigns, all passed.
QualificationArtifact(q) ==
  /\ q.branch = "main" /\ q.startedAt <= q.finishedAt
  /\ q.campaigns = QualificationPlan.campaigns /\ q.passed = q.campaigns
  /\ q.configuration = QualificationPlan.configuration /\ q.images >= 3
  /\ q.startedAt <= q.longRun.startedAt /\ q.longRun.finishedAt <= q.finishedAt /\ q.longRun.commit = q.commit

QualificationPolicy(p) == p.mode \in Modes /\ p.age <= Cap.freshness /\ p.lifetime <= Cap.lifetime
QualificationReview(d) == d.passed /\ Interval(d) /\ d.file = d.artifact.id
QualificationCandidate(d) ==
  /\ QualificationPolicy(d.policy) /\ QualificationArtifact(d.artifact) /\ QualificationReview(d)
  /\ d.artifact.commit = d.policy.commit
  /\ d.artifact.finishedAt <= d.preparedAt /\ d.preparedAt - d.artifact.finishedAt <= d.policy.age
\* The reviewer the policy names signs the record; only its interval bounds its age.
QualificationVerified(d, t) ==
  QualificationCandidate(d) /\ CurrentAt(d, t) /\ d.signed = {d.policy.reviewer}

-------------------------------------------------------------------------------
(* What qualifies the release: a bootstrap record, or a public campaign. *)

UpstreamRoles == {"evm-provider", "lightning-observer", "monitor", "relay", "solver"}
Enough(people, minimum) ==
  \A r \in UpstreamRoles : Cardinality(OfRole(people, r)) \in minimum[r]..20

BootstrapPolicy(p) == p.age <= Cap.bootstrapAge /\ p.lifetime <= Cap.bootstrapLife
BootstrapRecord(d) ==
  /\ BootstrapPolicy(d.policy) /\ Interval(d) /\ d.subject = d.policy.subject
  /\ DistinctPeople(d.people) /\ Enough(d.people, d.policy.minimum)
  /\ Cardinality(d.alerts) \in d.policy.alertChannels..20
  /\ d.operatorInventoryOnly
BootstrapVerified(d, t) == BootstrapRecord(d) /\ FreshAt(d, t) /\ Attested(d)

CampaignPolicy(p) ==
  /\ Cap.campaignMin <= p.minDuration /\ p.minDuration <= p.maxDuration /\ p.maxDuration <= Cap.campaignMax
  /\ p.age <= Cap.lifetime /\ p.reconciliationAge <= Cap.reconciliation
  /\ p.perDirection >= 10 /\ 2 * p.perDirection <= p.perSolver
  /\ p.timeoutBps <= 2000 /\ p.failureBps <= 1000
  /\ RequiredScenarios \subseteq p.scenarios /\ Cardinality(p.scenarios) <= 64

CampaignScenario(e, people, p, from, until) ==
  /\ e.name \in p.scenarios /\ e.passed
  /\ from <= e.startedAt /\ e.startedAt <= e.finishedAt /\ e.finishedAt <= until
  /\ Cardinality(e.observers) >= 2 /\ e.observers \subseteq {a.id : a \in people}

\* A solver's outcomes reconcile, in both directions and in all, and its rates are within policy.
CampaignMetric(m, people, p) ==
  /\ m.operator \in {a.id : a \in OfRole(people, "solver")}
  /\ m.selected <= m.requests /\ m.selected = m.bitToLightning + m.lightningToBit
  /\ m.selected = m.completed + m.timedOut + m.failed + m.abandoned
  /\ m.selected >= p.perSolver /\ m.bitToLightning >= p.perDirection /\ m.lightningToBit >= p.perDirection
  /\ m.completed > 0
  /\ m.timedOut * 10000 <= p.timeoutBps * m.selected /\ m.failed * 10000 <= p.failureBps * m.selected

\* The state of a workspace file: its parent is the file it was made from.
Workspace(w) ==
  /\ CampaignPolicy(w.policy) /\ DistinctPeople(w.people) /\ Enough(w.people, w.policy.minimum)
  /\ (w.parent = None) <=> (w.scenarios = {} /\ w.metrics = {})
  /\ \A e \in w.scenarios : CampaignScenario(e, w.people, w.policy, w.startedAt, w.startedAt + w.policy.maxDuration)
  /\ \A m \in w.metrics : CampaignMetric(m, w.people, w.policy)
  /\ \A m, n \in w.metrics : m # n => m.operator # n.operator

InitializeCampaign(c) ==
  /\ workspaces = {} /\ Workspace(c) /\ c.parent = None
  /\ workspaces' = {c} /\ UNCHANGED <<deploymentVars, campaign>>

\* One entry more than the file it was made from, and nothing else: how a reviewer accepts a file.
CampaignTransition(w, next) ==
  /\ Workspace(w) /\ Workspace(next) /\ next.parent = w
  /\ next.startedAt = w.startedAt /\ next.policy = w.policy /\ next.people = w.people
  /\ w.scenarios \subseteq next.scenarios /\ w.metrics \subseteq next.metrics
  /\ Cardinality(next.scenarios \ w.scenarios) + Cardinality(next.metrics \ w.metrics) = 1

\* Entries are appended to any earlier file, so two operators may fork the workspace.
AppendScenario(w, e) ==
  LET next == [w EXCEPT !.scenarios = @ \cup {e}, !.parent = w] IN
  /\ w \in workspaces /\ campaign = NotSeen
  /\ \A s \in w.scenarios : s.name # e.name
  /\ CampaignTransition(w, next)
  /\ workspaces' = workspaces \cup {next} /\ UNCHANGED <<deploymentVars, campaign>>
AppendMetric(w, m) ==
  LET next == [w EXCEPT !.metrics = @ \cup {m}, !.parent = w] IN
  /\ w \in workspaces /\ campaign = NotSeen
  /\ \A n \in w.metrics : n.operator # m.operator
  /\ CampaignTransition(w, next)
  /\ workspaces' = workspaces \cup {next} /\ UNCHANGED <<deploymentVars, campaign>>

CollectionComplete(w) ==
  /\ {e.name : e \in w.scenarios} = w.policy.scenarios
  /\ Cardinality(w.metrics) = Cardinality(OfRole(w.people, "solver"))

\* Closed at both ends, halted when unsafe with exits preserved, and reconciled to nothing owed.
CampaignRecord(d) ==
  LET duration == d.preparedAt - d.startedAt IN
  /\ d.startedAt < d.preparedAt /\ d.policy.minDuration <= duration /\ duration <= d.policy.maxDuration
  /\ d.subject = d.policy.subject /\ Cardinality(d.alerts) \in d.policy.alertChannels..20
  /\ \A e \in d.scenarios : CampaignScenario(e, d.people, d.policy, d.startedAt, d.preparedAt)
  /\ \A m \in d.metrics : CampaignMetric(m, d.people, d.policy)
  /\ d.gate.initiallyClosed /\ d.gate.finallyClosed /\ d.gate.halted /\ d.gate.exitsPreserved
  /\ d.reconciliation.unreconciled = 0
  /\ d.startedAt <= d.reconciliation.at /\ d.reconciliation.at <= d.preparedAt
  /\ d.preparedAt - d.reconciliation.at <= d.policy.reconciliationAge

\* The record of one file, whose participants then sign it; no chain of files is checked.
FinalizeCampaign(w, f) ==
  LET record == [stage |-> "record", id |-> f.id, subject |-> w.policy.subject, policy |-> w.policy,
                 people |-> w.people, artifacts |-> f.artifacts, policies |-> f.policies,
                 startedAt |-> w.startedAt, preparedAt |-> f.finishedAt, scenarios |-> w.scenarios,
                 metrics |-> w.metrics, alerts |-> f.alerts, gate |-> f.gate,
                 reconciliation |-> f.reconciliation, signed |-> f.signed] IN
  /\ w \in workspaces /\ campaign = NotSeen /\ CollectionComplete(w)
  /\ CampaignPolicy(w.policy) /\ CampaignRecord(record)
  /\ campaign' = record /\ UNCHANGED <<deploymentVars, workspaces>>

CampaignVerified(d, t) ==
  /\ d.stage = "record" /\ CampaignPolicy(d.policy) /\ CampaignRecord(d)
  /\ d.preparedAt <= t /\ t - d.preparedAt <= d.policy.age /\ Attested(d)

CampaignNext ==
  \/ \E c \in CampaignPlans : InitializeCampaign(c)
  \/ \E w \in workspaces :
       \/ \E e \in CampaignScenarios : AppendScenario(w, e)
       \/ \E m \in CampaignMetrics : AppendMetric(w, m)
       \/ \E f \in Finalizations : FinalizeCampaign(w, f)
===============================================================================
